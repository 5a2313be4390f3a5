------------------------------- MODULE Uploads -------------------------------
(***************************************************************************)
(* Uploads of source documents: a document and its source artifact are     *)
(* created UPLOADING, the client stores the object, through a signed URL   *)
(* or through the web server, and confirms it, which makes the document    *)
(* READY; a scan removes the source artifacts of uploads that stayed       *)
(* unconfirmed for a day.                                                  *)
(*                                                                         *)
(* Every command reads first and writes later, and nothing but its read    *)
(* ties its write to the document's status.  One step is one statement, or *)
(* one call of the object store.  The signed URL fixes the length of the   *)
(* object, so every stored object has the declared size.                   *)
(***************************************************************************)
EXTENDS Naturals

CONSTANTS Docs,
          Clients,  \* concurrent requests
          Cleaners  \* concurrent cleanup jobs

VARIABLES
    document,  \* Document.status
    artifact,  \* the SOURCE artifact row exists
    old,       \* the artifact row was created more than a day ago
    url,       \* a signed URL for the artifact's key is in force
    object,    \* the object store holds an object under the artifact's key
    request,   \* a request between its read and its write
    scan       \* the artifacts a cleanup job has still to delete

vars == <<document, artifact, old, url, object, request, scan>>

Ops == {"none", "upload", "head", "confirm"}
NoRequest == [op |-> "none"]

TypeOK ==
    /\ document \in [Docs -> {"ABSENT", "UPLOADING", "READY"}]
    /\ artifact \in [Docs -> BOOLEAN]
    /\ old \in [Docs -> BOOLEAN]
    /\ url \in [Docs -> BOOLEAN]
    /\ object \in [Docs -> BOOLEAN]
    /\ request \in [Clients -> {NoRequest} \cup [op : Ops \ {"none"}, doc : Docs]]
    /\ scan \in [Cleaners -> SUBSET Docs]

Init ==
    /\ document = [d \in Docs |-> "ABSENT"]
    /\ artifact = [d \in Docs |-> FALSE]
    /\ old = [d \in Docs |-> FALSE]
    /\ url = [d \in Docs |-> FALSE]
    /\ object = [d \in Docs |-> FALSE]
    /\ request = [c \in Clients |-> NoRequest]
    /\ scan = [k \in Cleaners |-> {}]

-----------------------------------------------------------------------------
\* Mutant: the artifact is left to a later transaction.
CreateUpload_Bare(d) ==
    /\ document[d] = "ABSENT"
    /\ document' = [document EXCEPT ![d] = "UPLOADING"]
    /\ UNCHANGED <<artifact, old, url, object, request, scan>>

\* createDocumentUpload: the document and its artifact in one transaction.
CreateUpload(d) ==
    /\ document[d] = "ABSENT"
    /\ document' = [document EXCEPT ![d] = "UPLOADING"]
    /\ artifact' = [artifact EXCEPT ![d] = TRUE]
    /\ UNCHANGED <<old, url, object, request, scan>>

\* The request that created the upload, or its repetition under the same
\* idempotency key at any later time, signs a URL.
SignUrl(d) ==
    /\ document[d] # "ABSENT" /\ ~url[d]
    /\ url' = [url EXCEPT ![d] = TRUE]
    /\ UNCHANGED <<document, artifact, old, object, request, scan>>

\* Fifteen minutes later.
ExpireUrl(d) ==
    /\ url[d]
    /\ url' = [url EXCEPT ![d] = FALSE]
    /\ UNCHANGED <<document, artifact, old, object, request, scan>>

\* The object store looks at the URL alone.
SignedPut(d) ==
    /\ url[d]
    /\ object' = [object EXCEPT ![d] = TRUE]
    /\ UNCHANGED <<document, artifact, old, url, request, scan>>

Expect(c, op, d) == request' = [request EXCEPT ![c] = [op |-> op, doc |-> d]]

Done(c) == request' = [request EXCEPT ![c] = NoRequest]

\* uploadDocumentSource, to its test of the document's status.
UploadRead(c, d) ==
    /\ request[c].op = "none"
    /\ artifact[d] /\ document[d] = "UPLOADING"
    /\ Expect(c, "upload", d)
    /\ UNCHANGED <<document, artifact, old, url, object, scan>>

UploadPut(c) ==
    /\ request[c].op = "upload"
    /\ object' = [object EXCEPT ![request[c].doc] = TRUE]
    /\ Done(c)
    /\ UNCHANGED <<document, artifact, old, url, scan>>

\* confirmDocumentUpload, to the read of the artifact.
ConfirmRead(c, d) ==
    /\ request[c].op = "none"
    /\ document[d] = "UPLOADING" /\ artifact[d]
    /\ Expect(c, "head", d)
    /\ UNCHANGED <<document, artifact, old, url, object, scan>>

\* Mutant: any answer of the HEAD request will do.
ConfirmHead_Any(c) ==
    /\ request[c].op = "head"
    /\ Expect(c, "confirm", request[c].doc)
    /\ UNCHANGED <<document, artifact, old, url, object, scan>>

\* HEAD: the call throws when there is no object.
ConfirmHead(c) ==
    /\ request[c].op = "head"
    /\ object[request[c].doc]
    /\ Expect(c, "confirm", request[c].doc)
    /\ UNCHANGED <<document, artifact, old, url, object, scan>>

\* The update names the document by id alone.
ConfirmWrite(c) ==
    /\ request[c].op = "confirm"
    /\ document' = [document EXCEPT ![request[c].doc] = "READY"]
    /\ Done(c)
    /\ UNCHANGED <<artifact, old, url, object, scan>>

\* An exception, a rejection, a lost connection: the request has no effect.
Reject(c) ==
    /\ request[c].op # "none"
    /\ Done(c)
    /\ UNCHANGED <<document, artifact, old, url, object, scan>>

-----------------------------------------------------------------------------
Age(d) ==
    /\ artifact[d] /\ ~old[d]
    /\ old' = [old EXCEPT ![d] = TRUE]
    /\ UNCHANGED <<document, artifact, url, object, request, scan>>

\* Mutant: uploads of any age.
Expired_Any == {d \in Docs : artifact[d] /\ document[d] = "UPLOADING"}

Expired == {d \in Docs : artifact[d] /\ old[d] /\ document[d] = "UPLOADING"}

\* cleanupDocuments: the selection.
CleanupRead(k) ==
    /\ scan[k] = {} /\ Expired # {}
    /\ scan' = [scan EXCEPT ![k] = Expired]
    /\ UNCHANGED <<document, artifact, old, url, object, request>>

\* Mutant: the object goes, the row stays.
CleanupDelete_Object(k) ==
    /\ \E d \in scan[k] :
         /\ object' = [object EXCEPT ![d] = FALSE]
         /\ scan' = [scan EXCEPT ![k] = @ \ {d}]
    /\ UNCHANGED <<document, artifact, old, url, request>>

\* Then one deletion after the other, by id alone.  A row that is gone
\* throws, and ends the job.
CleanupDelete(k) ==
    /\ \E d \in scan[k] :
         /\ artifact' = [artifact EXCEPT ![d] = FALSE]
         /\ scan' = [scan EXCEPT ![k] = IF artifact[d] THEN @ \ {d} ELSE {}]
    /\ UNCHANGED <<document, old, url, object, request>>

\* The job's process dies.
CleanupDies(k) ==
    /\ scan[k] # {}
    /\ scan' = [scan EXCEPT ![k] = {}]
    /\ UNCHANGED <<document, artifact, old, url, object, request>>

-----------------------------------------------------------------------------
Command(c) ==
    \/ \E d \in Docs : UploadRead(c, d) \/ ConfirmRead(c, d)
    \/ UploadPut(c)
    \/ ConfirmHead(c)
    \/ ConfirmWrite(c)
    \/ Reject(c)

Cleanup(k) == CleanupRead(k) \/ CleanupDelete(k)

Next ==
    \/ \E d \in Docs : CreateUpload(d) \/ SignUrl(d) \/ ExpireUrl(d) \/ SignedPut(d) \/ Age(d)
    \/ \E c \in Clients : Command(c)
    \/ \E k \in Cleaners : Cleanup(k) \/ CleanupDies(k)

Spec == Init /\ [][Next]_vars

\* The scheduler starts a cleanup every hour; a day passes.  A cleanup that
\* gets to its deletions again and again is not killed every time.
Fairness ==
    /\ \A d \in Docs : WF_vars(Age(d))
    /\ \A k \in Cleaners : WF_vars(CleanupRead(k)) /\ SF_vars(CleanupDelete(k))

FairSpec == Spec /\ Fairness

-----------------------------------------------------------------------------
\* A READY document was stored: its object exists, whatever uploads,
\* confirmations and cleanups it took part in (confirm-upload.ts).
ReadyIsStored == \A d \in Docs : document[d] = "READY" => object[d]

\* A source artifact lives at least a day: cleanup never takes one that a
\* client may still be uploading (contracts/jobs/README.md).
YoungSourceKept == \A d \in Docs : document[d] # "ABSENT" /\ ~old[d] => artifact[d]

\* An upload that is never confirmed loses its artifact in the end.
AbandonedIsCleaned ==
    \A d \in Docs : document[d] = "UPLOADING" ~> ~artifact[d] \/ document[d] = "READY"

\* A READY document has the source artifact its runs are going to read.  The
\* code does not keep it: cleanup deletes what it selected before.
ReadyHasSource == \A d \in Docs : document[d] = "READY" => artifact[d]

-----------------------------------------------------------------------------
(* The inductive invariant. *)

\* What a request saw and a cleanup selected stays so: documents and objects
\* are never removed, and nothing becomes young again.
StaleReadsHold ==
    /\ \A c \in Clients :
         /\ request[c].op # "none" => document[request[c].doc] # "ABSENT"
         /\ request[c].op = "confirm" => object[request[c].doc]
    /\ \A k \in Cleaners : \A d \in scan[k] : old[d]

\* The inductive invariant of the uploads: what requests and cleanups read
\* earlier, as far as it is still true when they write (confirm-upload.ts).
IInv ==
    /\ TypeOK
    /\ StaleReadsHold
    /\ ReadyIsStored
    /\ YoungSourceKept
=============================================================================
