----------------------------- MODULE ApiCommands -----------------------------
(***************************************************************************)
(* Who may run a command: the gates in front of executeIdempotent.  A      *)
(* processing run is submitted through the public API with a key, or       *)
(* through the web server with a session; both act for the same principal  *)
(* and share its idempotency records.  Either door looks the credential    *)
(* up, then the membership, and nothing is looked up again afterwards:     *)
(* keys, sessions and roles may change under a request that has passed.    *)
(***************************************************************************)
EXTENDS Idempotency

CONSTANTS UserOf(_),   \* the principal of a caller
          Stored,      \* ApiKey.scopes of each user's key
          MaxChanges   \* bound: changes of keys, sessions and memberships

ASSUME MaxChangesAssumption == MaxChanges \in Nat

Users == {UserOf(who) : who \in Callers}
Doors == {"api", "web"}

permissions ==
    LET reader == {"workspace:read", "documents:read"}
        member == reader \cup {"documents:write", "documents:process", "documents:cancel"}
        admin  == member \cup {"workspace:write", "audit:read", "keys:write", "webhooks:manage"}
    IN  [OWNER |-> admin, ADMIN |-> admin, MEMBER |-> member, VIEWER |-> reader, none |-> {}]

VARIABLES
    ended,      \* the doors at which a user's key or session is revoked or expired
    role,       \* WorkspaceMember.role, or "none"
    gate,       \* where a client's request is: "none", "credential", "member"
    visit,      \* the door and the caller of that request
    barred,     \* history: what has kept the request out ever since it came
    changes

accessVars == <<ended, role, gate, visit, barred, changes>>

NoVisit == [door |-> "none"]

AccessTypeOK ==
    /\ TypeOK
    /\ ended \subseteq Doors \X Users
    /\ role \in [Users -> DOMAIN permissions]
    /\ gate \in [Clients -> {"none", "credential", "member"}]
    /\ visit \in [Clients -> {NoVisit} \cup [door : Doors, who : Callers]]
    /\ \A c \in Clients : gate[c] # "none" => visit[c] \in [door : Doors, who : Callers]
    /\ barred \in [Clients -> {"no", "role", "credential"}]
    /\ changes \in 0..MaxChanges

AccessInit ==
    /\ Init
    /\ ended = {}
    /\ role \in [Users -> {"MEMBER", "none"}]
    /\ gate = [c \in Clients |-> "none"]
    /\ visit = [c \in Clients |-> NoVisit]
    /\ barred = [c \in Clients |-> "no"]
    /\ changes = 0

-----------------------------------------------------------------------------
\* Mutant: the scopes of a key stay what they were when it was made.
Granted_Stored(scopes, r) ==
    IF scopes \cap {"*", "admin"} # {} THEN permissions["OWNER"] ELSE scopes

\* authenticateApiKey narrows the scopes of a key to the role of its user.
Granted(scopes, r) ==
    IF scopes \cap {"*", "admin"} # {} THEN permissions[r] ELSE scopes \cap permissions[r]

requireApiScope(scopes, scope) == scopes \cap {scope, "*", "admin"} # {}

\* What each door asks for: the scope of the key, or the role's permission.
Permits(door, u, r) ==
    CASE door = "api" -> requireApiScope(Granted(Stored[u], r), "documents:write")
      [] door = "web" -> "documents:process" \in permissions[r]

\* The role gives the permission whatever the code looks at.
Entitled(door, u, r) ==
    /\ "documents:write" \in permissions[r]
    /\ door = "api" => Stored[u] \cap {"documents:write", "*", "admin"} # {}

Arrive(c, door, who) ==
    /\ gate[c] = "none" /\ pc[c] = "idle" /\ requests < MaxRequests
    /\ gate' = [gate EXCEPT ![c] = "credential"]
    /\ visit' = [visit EXCEPT ![c] = [door |-> door, who |-> who]]
    /\ barred' = [barred EXCEPT ![c] =
                    IF <<door, UserOf(who)>> \in ended THEN "credential"
                    ELSE IF Entitled(door, UserOf(who), role[UserOf(who)]) THEN "no" ELSE "role"]
    /\ UNCHANGED <<vars, ended, role, changes>>

Leave(c) ==
    /\ gate' = [gate EXCEPT ![c] = "none"]
    /\ visit' = [visit EXCEPT ![c] = NoVisit]

\* 401 or 403.
Refuse(c) ==
    /\ Leave(c)
    /\ barred' = [barred EXCEPT ![c] = "no"]
    /\ UNCHANGED vars

\* Mutant: it is enough that it is found.
Known_Ended(door, u) == TRUE

\* The key or the session is found, and neither revoked nor expired.
Known(door, u) == <<door, u>> \notin ended

Authenticate(c) ==
    /\ gate[c] = "credential"
    /\ IF Known(visit[c].door, UserOf(visit[c].who))
       THEN gate' = [gate EXCEPT ![c] = "member"] /\ UNCHANGED <<vars, visit, barred>>
       ELSE Refuse(c)
    /\ UNCHANGED <<ended, role, changes>>

\* The membership is found and allows the command, which then begins.
Authorize(c) ==
    /\ gate[c] = "member"
    /\ LET v == visit[c] IN
         IF Permits(v.door, UserOf(v.who), role[UserOf(v.who)])
         THEN (\E k \in Keys : Ask(c, k, v.who)) /\ Leave(c) /\ UNCHANGED barred
         ELSE Refuse(c)
    /\ UNCHANGED <<ended, role, changes>>

-----------------------------------------------------------------------------
Changed == changes < MaxChanges /\ changes' = changes + 1

\* revokeApiKey, revokeSession, or the time they were given is over.
EndCredential(door, u) ==
    /\ <<door, u>> \notin ended
    /\ Changed
    /\ ended' = ended \cup {<<door, u>>}
    /\ UNCHANGED <<vars, role, gate, visit, barred>>

\* changeWorkspaceMembership makes or changes a membership, up or down.
ChangeMembership(u, r) ==
    /\ role[u] # r
    /\ Changed
    /\ role' = [role EXCEPT ![u] = r]
    /\ barred' = [c \in Clients |->
                    IF /\ barred[c] = "role" /\ gate[c] # "none" /\ UserOf(visit[c].who) = u
                       /\ Entitled(visit[c].door, u, r)
                    THEN "no" ELSE barred[c]]
    /\ UNCHANGED <<vars, ended, gate, visit>>

Access(c) ==
    \/ \E door \in Doors, who \in Callers : Arrive(c, door, who)
    \/ Authenticate(c)
    \/ Authorize(c)

Administer ==
    \E u \in Users : \/ \E door \in Doors : EndCredential(door, u)
                     \/ \E r \in {"MEMBER", "VIEWER"} : ChangeMembership(u, r)

AccessNext ==
    \/ \E c \in Clients :
           \/ Access(c)
           \/ (Lock(c) \/ Step(c)) /\ UNCHANGED accessVars
    \/ Administer

AccessSpec == AccessInit /\ [][AccessNext]_<<vars, accessVars>> /\ Fairness

-----------------------------------------------------------------------------
\* A request that came after its key or session had ended, or that at no
\* moment since it came had a role (and, with a key, a scope) for the
\* command, never gets to it: it takes no effect, and is not told what an
\* earlier request of the same principal was answered.
BarredIsRefused == \A c \in Clients : barred[c] # "no" => pc[c] = "idle"

-----------------------------------------------------------------------------
(* The inductive invariant. *)

\* A barred request is in front of a gate that will refuse it: the one of
\* its credential, which stays ended, or that of a role which still does not
\* give the permission.
BarredAtGate ==
    \A c \in Clients :
        LET u == UserOf(visit[c].who) IN
        /\ gate[c] # "none" => pc[c] = "idle"
        /\ barred[c] # "no" => gate[c] # "none"
        /\ barred[c] = "credential" => gate[c] = "credential" /\ <<visit[c].door, u>> \in ended
        /\ barred[c] = "role" => ~Entitled(visit[c].door, u, role[u])

\* The inductive invariant of the commands behind their gates: a request that
\* was barred all along has not passed the last of them (api-key.ts, init.ts).
AccessIInv ==
    /\ IInv
    /\ AccessTypeOK
    /\ BarredAtGate
=============================================================================
