---------------------------- MODULE UploadsProofs ----------------------------
(***************************************************************************)
(* Proofs about Uploads, for any documents, clients and cleanup jobs.      *)
(***************************************************************************)
EXTENDS Uploads, TLAPS

\* A request at work names a document.
LEMMA RequestType ==
    ASSUME TypeOK, NEW c \in Clients, request[c].op # "none"
    PROVE  request[c].doc \in Docs
  BY DEF TypeOK, NoRequest

\* At first there are no documents.
LEMMA InitIInv == Init => IInv
  BY DEF Init, IInv, TypeOK, StaleReadsHold, ReadyIsStored, YoungSourceKept, NoRequest

\* Every step keeps the types.
LEMMA TypeStep ==
    ASSUME TypeOK, [Next]_vars
    PROVE  TypeOK'
  <1> USE DEF TypeOK
  <1>1. ASSUME NEW d \in Docs, CreateUpload(d) \/ SignUrl(d) \/ ExpireUrl(d) \/ SignedPut(d) \/ Age(d)
        PROVE  TypeOK'
    BY <1>1 DEF CreateUpload, SignUrl, ExpireUrl, SignedPut, Age
  <1>2. ASSUME NEW c \in Clients, NEW d \in Docs, UploadRead(c, d) \/ ConfirmRead(c, d)
        PROVE  TypeOK'
    BY <1>2 DEF UploadRead, ConfirmRead, Expect, Ops
  <1>3. ASSUME NEW c \in Clients, UploadPut(c) PROVE TypeOK'
    BY <1>3, RequestType DEF UploadPut, Done
  <1>4. ASSUME NEW c \in Clients, ConfirmHead(c) PROVE TypeOK'
    BY <1>4, RequestType DEF ConfirmHead, Expect, Ops
  <1>5. ASSUME NEW c \in Clients, ConfirmWrite(c) PROVE TypeOK'
    BY <1>5, RequestType DEF ConfirmWrite, Done
  <1>6. ASSUME NEW c \in Clients, Reject(c) PROVE TypeOK'
    BY <1>6 DEF Reject, Done
  <1>7. ASSUME NEW k \in Cleaners, CleanupRead(k) PROVE TypeOK'
    BY <1>7 DEF CleanupRead, Expired
  <1>8. ASSUME NEW k \in Cleaners, CleanupDelete(k) PROVE TypeOK'
    BY <1>8 DEF CleanupDelete
  <1>9. ASSUME NEW k \in Cleaners, CleanupDies(k) PROVE TypeOK'
    BY <1>9 DEF CleanupDies
  <1>10. CASE UNCHANGED vars
    BY <1>10 DEF vars
  <1> QED
    BY <1>1, <1>2, <1>3, <1>4, <1>5, <1>6, <1>7, <1>8, <1>9, <1>10 DEF Next, Command, Cleanup

\* Objects are not removed, sources do not become young again, and a
\* document that was created stays.
LEMMA Monotone ==
    ASSUME TypeOK, [Next]_vars, NEW d \in Docs
    PROVE  /\ object[d] => object'[d]
           /\ old[d] => old'[d]
           /\ document[d] # "ABSENT" => document'[d] # "ABSENT"
  <1> USE DEF TypeOK
  <1>1. ASSUME NEW c \in Clients, UploadPut(c) PROVE object[d] => object'[d]
    BY <1>1, RequestType DEF UploadPut
  <1>2. ASSUME NEW e \in Docs, SignedPut(e) PROVE object[d] => object'[d]
    BY <1>2 DEF SignedPut
  <1>3. ASSUME NEW e \in Docs, Age(e) PROVE old[d] => old'[d]
    BY <1>3 DEF Age
  <1>4. ASSUME NEW e \in Docs, CreateUpload(e) PROVE document[d] # "ABSENT" => document'[d] # "ABSENT"
    BY <1>4 DEF CreateUpload
  <1>5. ASSUME NEW c \in Clients, ConfirmWrite(c)
        PROVE  document[d] # "ABSENT" => document'[d] # "ABSENT"
    BY <1>5, RequestType DEF ConfirmWrite
  <1> QED
    BY <1>1, <1>2, <1>3, <1>4, <1>5
       DEF Next, Command, Cleanup, CreateUpload, SignUrl, ExpireUrl, SignedPut, Age, UploadRead,
           UploadPut, ConfirmRead, ConfirmHead, ConfirmWrite, Reject, CleanupRead, CleanupDelete,
           CleanupDies, vars

\* No step takes back what a request or a cleanup has read.
LEMMA StaleReadsStep ==
    ASSUME IInv, [Next]_vars
    PROVE  StaleReadsHold'
  <1>t. TypeOK /\ StaleReadsHold
    BY DEF IInv
  <1>1. ASSUME NEW c \in Clients, request'[c].op # "none"
        PROVE  /\ document'[request'[c].doc] # "ABSENT"
               /\ request'[c].op = "confirm" => object'[request'[c].doc]
    <2>1. CASE request'[c] = request[c]
      BY <1>t, <1>1, <2>1, RequestType, Monotone DEF StaleReadsHold
    <2>2. ASSUME NEW d \in Docs, UploadRead(c, d) \/ ConfirmRead(c, d)
          PROVE  request'[c].op # "confirm" /\ request'[c].doc = d /\ document'[d] # "ABSENT"
      BY <1>t, <2>2 DEF UploadRead, ConfirmRead, Expect, TypeOK
    <2>3. ASSUME ConfirmHead(c)
          PROVE  /\ request'[c].doc = request[c].doc /\ UNCHANGED <<document, object>>
                 /\ object[request[c].doc] /\ request[c].op # "none"
      BY <1>t, <2>3 DEF ConfirmHead, Expect, TypeOK
    <2>4. \/ request'[c] = request[c]
          \/ \E d \in Docs : UploadRead(c, d) \/ ConfirmRead(c, d)
          \/ ConfirmHead(c)
      BY <1>t, <1>1
         DEF Next, Command, Cleanup, CreateUpload, SignUrl, ExpireUrl, SignedPut, Age, UploadRead,
             UploadPut, ConfirmRead, ConfirmHead, ConfirmWrite, Reject, CleanupRead,
             CleanupDelete, CleanupDies, vars, Expect, Done, NoRequest, TypeOK
    <2> QED
      BY <1>t, <2>1, <2>2, <2>3, <2>4 DEF StaleReadsHold
  <1>2. ASSUME NEW k \in Cleaners, NEW d \in scan'[k] PROVE old'[d]
    <2>1. d \in scan[k] \/ d \in Expired
      BY <1>t, <1>2
         DEF Next, Command, Cleanup, CreateUpload, SignUrl, ExpireUrl, SignedPut, Age, UploadRead,
             UploadPut, ConfirmRead, ConfirmHead, ConfirmWrite, Reject, CleanupRead,
             CleanupDelete,
             CleanupDies, vars, TypeOK
    <2>2. d \in Docs /\ old[d]
      BY <1>t, <2>1 DEF TypeOK, StaleReadsHold, Expired
    <2> QED
      BY <1>t, <2>2, Monotone
  <1> QED
    BY <1>1, <1>2 DEF StaleReadsHold

\* A document becomes READY only by a confirmation, which saw the object.
LEMMA ReadyStep ==
    ASSUME IInv, [Next]_vars
    PROVE  ReadyIsStored'
  <1>t. TypeOK /\ StaleReadsHold /\ ReadyIsStored
    BY DEF IInv
  <1> SUFFICES ASSUME NEW d \in Docs, document'[d] = "READY" PROVE object'[d]
    BY DEF ReadyIsStored
  <1>1. CASE document[d] = "READY"
    BY <1>t, <1>1, Monotone DEF ReadyIsStored
  <1>2. ASSUME NEW c \in Clients, ConfirmWrite(c), document[d] # "READY" PROVE object[d]
    BY <1>t, <1>2, RequestType DEF ConfirmWrite, TypeOK, StaleReadsHold
  <1>3. document[d] # "READY" => \E c \in Clients : ConfirmWrite(c)
    BY <1>t
       DEF Next, Command, Cleanup, CreateUpload, SignUrl, ExpireUrl, SignedPut, Age, UploadRead,
           UploadPut, ConfirmRead, ConfirmHead, Reject, CleanupRead, CleanupDelete, CleanupDies,
           vars, TypeOK
  <1> QED
    BY <1>t, <1>1, <1>2, <1>3, Monotone

\* An artifact is removed only where a cleanup found it old.
LEMMA SourceStep ==
    ASSUME IInv, [Next]_vars
    PROVE  YoungSourceKept'
  <1>t. TypeOK /\ StaleReadsHold /\ YoungSourceKept
    BY DEF IInv
  <1> SUFFICES ASSUME NEW d \in Docs, document'[d] # "ABSENT", ~old'[d] PROVE artifact'[d]
    BY DEF YoungSourceKept
  <1>1. ~old[d]
    BY <1>t, Monotone
  <1>2. CASE document[d] = "ABSENT"
    <2>1. ASSUME NEW e \in Docs, CreateUpload(e) PROVE artifact'[d]
      BY <1>t, <1>2, <2>1 DEF CreateUpload, TypeOK
    <2>2. ASSUME NEW c \in Clients, ConfirmWrite(c) PROVE document'[d] = document[d]
      BY <1>t, <1>2, <2>2, RequestType DEF ConfirmWrite, TypeOK, StaleReadsHold
    <2> QED
      BY <1>2, <2>1, <2>2
         DEF Next, Command, Cleanup, SignUrl, ExpireUrl, SignedPut, Age, UploadRead, UploadPut,
             ConfirmRead, ConfirmHead, Reject, CleanupRead, CleanupDelete, CleanupDies, vars
  <1>3. CASE document[d] # "ABSENT"
    <2>1. artifact[d]
      BY <1>t, <1>1, <1>3 DEF YoungSourceKept
    <2>2. ASSUME NEW k \in Cleaners, CleanupDelete(k) PROVE artifact'[d]
      BY <1>t, <1>1, <2>1, <2>2 DEF CleanupDelete, TypeOK, StaleReadsHold
    <2> QED
      BY <1>t, <2>1, <2>2
         DEF Next, Command, Cleanup, CreateUpload, SignUrl, ExpireUrl, SignedPut, Age, UploadRead,
             UploadPut, ConfirmRead, ConfirmHead, ConfirmWrite, Reject, CleanupRead, CleanupDies,
             vars, TypeOK
  <1> QED
    BY <1>2, <1>3

-----------------------------------------------------------------------------
(* What follows for every behavior. *)

\* Every step keeps the inductive invariant.
LEMMA NextIInv == IInv /\ [Next]_vars => IInv'
  BY TypeStep, StaleReadsStep, ReadyStep, SourceStep DEF IInv

\* The inductive invariant holds: what was read earlier is still true, as far
\* as the writes that follow rest on it.
THEOREM Invariance == Spec => []IInv
  BY InitIInv, NextIInv, PTL DEF Spec

\* Type correctness of the uploads.
THEOREM TypeCorrect == Spec => []TypeOK
  <1>1. IInv => TypeOK
    BY DEF IInv
  <1> QED
    BY <1>1, Invariance, PTL

\* The object of a READY document was stored, however old the reads of its
\* confirmation were.
THEOREM ReadyStored == Spec => []ReadyIsStored
  <1>1. IInv => ReadyIsStored
    BY DEF IInv
  <1> QED
    BY <1>1, Invariance, PTL

\* No cleanup takes a source artifact before its day is over.
THEOREM YoungSourcesStay == Spec => []YoungSourceKept
  <1>1. IInv => YoungSourceKept
    BY DEF IInv
  <1> QED
    BY <1>1, Invariance, PTL
=============================================================================
