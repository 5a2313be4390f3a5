------------------------------ MODULE Realtime ------------------------------
(***************************************************************************)
(* How a browser learns that a run has changed: the notification job posts *)
(* an event to the API, which posts it to the realtime server, which sends *)
(* it to the sockets in the workspace's room; the browser refetches.  The  *)
(* browser joins with a ticket it gets over tRPC, for which it needs a     *)
(* session.  Events carry no data: what is shown always comes from tRPC.   *)
(*                                                                         *)
(* One browser and one workspace.  The data are a version number; "batch"  *)
(* is the request httpBatchLink makes of the queries that are refetched in *)
(* one tick, "solo" the refetch of the workspace's query alone.            *)
(***************************************************************************)
EXTENDS Naturals

CONSTANTS MaxVersion,   \* bound: changes of the data
          MaxAttempts,  \* attempts of a notification job
          MaxFaults     \* bound: lost connections and refetches out of turn

ASSUME MaxVersionAssumption == MaxVersion \in Nat
ASSUME MaxAttemptsAssumption == MaxAttempts \in Nat \ {0}
ASSUME MaxFaultsAssumption == MaxFaults \in Nat

Versions == 1..MaxVersion

VARIABLES
    version,   \* of the data in PostgreSQL
    left,      \* the attempts left of the notification of a version
    session,   \* the session is neither revoked nor expired
    joined,    \* the server has the browser's socket in the room
    inbox,     \* events on their way to the socket
    view,      \* the version shown
    batch, solo,  \* fetches in flight
    ticket,    \* the ticket query's data
    failed,    \* the ticket query's last fetch was refused
    socket,    \* the browser's socket
    asked,     \* its join-workspace is on the way
    heard,     \* history: the version that was current when the browser was
               \* last told to refetch
    faults

serverVars == <<version, left, session>>
fetchVars == <<view, batch, solo, ticket, failed>>
socketVars == <<socket, asked, joined, inbox>>
vars == <<serverVars, fetchVars, socketVars, heard, faults>>

\* A fetch: not running, on its way to the server, or on its way back.
\* wanted: its answer will be used; a later fetch of the query cancels it.
Fetch(at, v, wanted) == [at |-> at, version |-> v, wanted |-> wanted]
NoFetch == Fetch("none", 0, FALSE)
Asked == Fetch("asked", 0, TRUE)
Fetches(v) == [at : {"none", "asked", "ok", "refused"}, version : 0..v, wanted : BOOLEAN]

NumbersOK ==
    /\ version \in 0..MaxVersion /\ view \in 0..version /\ heard \in 0..version
    /\ left \in [Versions -> 0..MaxAttempts]
    /\ \A v \in Versions : left[v] > 0 => v <= version
    /\ inbox \subseteq 1..version
    /\ faults \in 0..MaxFaults

FlagsOK ==
    /\ session \in BOOLEAN /\ joined \in BOOLEAN /\ asked \in BOOLEAN /\ failed \in BOOLEAN
    /\ ticket \in {"none", "valid", "expired"}
    /\ socket \in {"none", "connecting", "open", "refused"}
    /\ joined => socket = "open"

TypeOK == NumbersOK /\ FlagsOK /\ batch \in Fetches(version) /\ solo \in Fetches(version)

\* The dashboard is mounted: its queries are fetched for the first time.
Init ==
    /\ version = 0 /\ view = 0 /\ heard = 0
    /\ left = [v \in Versions |-> 0]
    /\ session = TRUE
    /\ batch = Asked /\ solo = NoFetch
    /\ ticket = "none" /\ failed = FALSE
    /\ socket = "none" /\ asked = FALSE /\ joined = FALSE /\ inbox = {}
    /\ faults = 0

-----------------------------------------------------------------------------
(* The servers. *)

\* A run completes: the row of its notification is in the same transaction.
Commit ==
    /\ version < MaxVersion
    /\ version' = version + 1
    /\ left' = [left EXCEPT ![version + 1] = MaxAttempts]
    /\ UNCHANGED <<session, fetchVars, socketVars, heard, faults>>

\* POST /internal/events: the event goes to the sockets in the room.
Emit(v) == inbox' = IF joined THEN inbox \cup {v} ELSE inbox

\* One attempt of the job.  The event may be sent although the attempt fails
\* (the answer is lost, or takes longer than five seconds), and not be sent
\* although it succeeds (the API has no publisher configured, Redis loses
\* the job).
Publish(v) ==
    /\ left[v] > 0
    /\ \E sent, ok \in BOOLEAN :
         /\ left' = [left EXCEPT ![v] = IF ok THEN 0 ELSE @ - 1]
         /\ IF sent THEN Emit(v) ELSE UNCHANGED inbox
    /\ UNCHANGED <<version, session, fetchVars, socket, asked, joined, heard, faults>>

\* Whose session is over is refused, whatever the query.
Answer(f) ==
    IF session THEN Fetch("ok", version, f.wanted) ELSE Fetch("refused", 0, f.wanted)

\* The tRPC server answers a batch: one look at the session for all of it.
AnswerBatch ==
    /\ batch.at = "asked"
    /\ batch' = Answer(batch)
    /\ UNCHANGED <<serverVars, view, solo, ticket, failed, socketVars, heard, faults>>

AnswerSolo ==
    /\ solo.at = "asked"
    /\ solo' = Answer(solo)
    /\ UNCHANGED <<serverVars, view, batch, ticket, failed, socketVars, heard, faults>>

\* authorizeWorkspace may say either, and in the deployed main.ts says no.
Join ==
    /\ asked
    /\ asked' = FALSE
    /\ joined' \in BOOLEAN
    /\ UNCHANGED <<serverVars, fetchVars, socket, inbox, heard, faults>>

-----------------------------------------------------------------------------
(* The browser. *)

\* invalidateQueries: everything is fetched, and what was being fetched is
\* cancelled.
InvalidateAll ==
    /\ batch' = Asked /\ solo' = NoFetch
    /\ heard' = version

\* Mutant: the connection is taken as it is.
ConnectInvalidates_Not == UNCHANGED <<batch, solo, heard>>
ConnectInvalidates == InvalidateAll

\* The server's handshake: it verifies the ticket, and asks nobody whether
\* the session is still there.
Admitted == ticket = "valid"

\* The handshake and the "connect" listeners.  A refused one is not repeated.
Connect ==
    /\ socket = "connecting"
    /\ IF Admitted
       THEN socket' = "open" /\ asked' = TRUE /\ ConnectInvalidates
       ELSE socket' = "refused" /\ UNCHANGED <<asked, batch, solo, heard>>
    /\ UNCHANGED <<serverVars, view, ticket, failed, joined, inbox, faults>>

\* Mutant: a fetch that is running will do.
EventInvalidates_Joins ==
    IF batch.wanted \/ solo.wanted THEN UNCHANGED <<batch, solo>>
    ELSE solo' = Asked /\ UNCHANGED batch

\* The refetch of the workspace's query; that of a batch is cancelled.
EventInvalidates ==
    /\ solo' = Asked
    /\ batch' = Fetch(batch.at, batch.version, FALSE)

Hear(v) ==
    /\ v \in inbox
    /\ inbox' = inbox \ {v}
    /\ heard' = IF v > heard THEN v ELSE heard
    /\ EventInvalidates
    /\ UNCHANGED <<serverVars, view, ticket, failed, socket, asked, joined, faults>>

ReceiveSolo ==
    /\ solo.at \in {"ok", "refused"}
    /\ view' = IF solo.at = "ok" THEN solo.version ELSE view
    /\ solo' = NoFetch
    /\ UNCHANGED <<serverVars, batch, ticket, failed, socketVars, heard, faults>>

\* Mutant: the bridge looks at the ticket's data alone.
Ready_DataOnly(data, refused) == data # "none"
Ready(data, refused) == data # "none" /\ ~refused

\* The batch's results arrive together.  A new ticket differs from the last
\* one, and so does the query's status after a refusal: either way the effect
\* disposes of the old socket, and makes a new one if the bridge is ready.
ReceiveBatch ==
    /\ batch.at \in {"ok", "refused"}
    /\ view' = IF batch.at = "ok" /\ batch.wanted THEN batch.version ELSE view
    /\ ticket' = IF batch.at = "ok" THEN "valid" ELSE ticket
    /\ failed' = (batch.at = "refused")
    /\ batch' = NoFetch
    /\ IF ticket' = ticket /\ failed' = failed /\ batch.at = "refused"
       THEN UNCHANGED socketVars
       ELSE /\ socket' = IF Ready(ticket', failed') THEN "connecting" ELSE "none"
            /\ asked' = FALSE /\ joined' = FALSE /\ inbox' = {}
    /\ UNCHANGED <<serverVars, solo, heard, faults>>

-----------------------------------------------------------------------------
(* What goes wrong or happens by itself. *)

\* Mutant: the server keeps the socket in its room.
Drop_InRoom ==
    /\ socket = "open"
    /\ socket' = "connecting" /\ asked' = FALSE /\ inbox' = {}
    /\ UNCHANGED <<serverVars, fetchVars, joined, heard>>

\* The connection is lost, or the realtime server restarts: the client
\* connects again with the ticket it has.
Drop ==
    /\ socket = "open"
    /\ socket' = "connecting" /\ asked' = FALSE /\ joined' = FALSE /\ inbox' = {}
    /\ UNCHANGED <<serverVars, fetchVars, heard>>

\* A mutation of the user, or a return to the window.
Refocus == InvalidateAll /\ UNCHANGED <<serverVars, view, ticket, failed, socketVars>>

Fault ==
    /\ faults < MaxFaults
    /\ faults' = faults + 1
    /\ Drop \/ Refocus

\* Five minutes since the ticket was signed.
ExpireTicket ==
    /\ ticket = "valid"
    /\ ticket' = "expired"
    /\ UNCHANGED <<serverVars, view, batch, solo, failed, socketVars, heard, faults>>

\* The session is revoked, or its thirty days are over.
EndSession ==
    /\ session
    /\ session' = FALSE
    /\ UNCHANGED <<version, left, fetchVars, socketVars, heard, faults>>

Next ==
    \/ Commit \/ \E v \in Versions : Publish(v) \/ Hear(v)
    \/ AnswerBatch \/ AnswerSolo \/ Join
    \/ Connect \/ ReceiveSolo \/ ReceiveBatch
    \/ Fault \/ ExpireTicket \/ EndSession

Spec == Init /\ [][Next]_vars

\* Requests are answered, answers arrive, a client keeps connecting.
Fairness ==
    /\ WF_vars(AnswerBatch) /\ WF_vars(ReceiveBatch)
    /\ WF_vars(AnswerSolo) /\ WF_vars(ReceiveSolo)
    /\ WF_vars(Connect) /\ WF_vars(Join)
    /\ \A v \in Versions : WF_vars(Publish(v)) /\ WF_vars(Hear(v))

FairSpec == Spec /\ Fairness

-----------------------------------------------------------------------------
\* A fetch that will bring at least version v.
Brings(f, v) == f.wanted /\ (f.at = "ok" => f.version >= v)

\* What the browser was told of it shows or is about to show, unless its
\* session ended: the answer of a fetch that began before the event never
\* stays the last word (bindRealtimeInvalidation).
NoLostInvalidation == session => view >= heard \/ Brings(batch, heard) \/ Brings(solo, heard)

\* A browser that stays signed in shows every change in the end, although
\* notifications are lost, late or given up, joins refused and connections
\* dropped: "connect" refetches everything.  It stops where a handshake was
\* refused, after an interruption that outlasts the ticket.
ViewCatchesUp ==
    \A v \in Versions : version >= v ~> view >= v \/ ~session \/ socket = "refused"

\* What the design promises: "Realtime reconnect produces correct state
\* through tRPC refetch", after any interruption of a connection.  The code does
\* not keep it when the ticket has expired meanwhile.
ReconnectCatchesUp ==
    \A v \in Versions : version >= v /\ socket = "open" ~> view >= v \/ ~session

\* After the session has ended the browser's socket is closed for good,
\* although nobody tells the realtime server (startRealtimeBridge).
SignedOutIsCutOff == ~session ~> [](socket # "open")

-----------------------------------------------------------------------------
(* The inductive invariant. *)

\* At most one fetch is going to be used, and what it brings is no older
\* than what is shown, whoever was answered last.
FetchesHold ==
    /\ batch.at = "refused" \/ solo.at = "refused" => ~session
    /\ batch.at = "ok" /\ batch.wanted => batch.version >= view
    /\ solo.at = "ok" => solo.version >= view
    /\ solo.at # "none" => solo.wanted /\ ~batch.wanted

\* The server is asked to let in sockets that are open.
AskedIsOpen == asked => socket = "open"

\* The inductive invariant of the browser's cache: what it was told of is
\* shown or on its way, and answers never arrive out of order
\* (bindRealtimeInvalidation).
IInv ==
    /\ TypeOK
    /\ FetchesHold
    /\ AskedIsOpen
    /\ NoLostInvalidation
=============================================================================
