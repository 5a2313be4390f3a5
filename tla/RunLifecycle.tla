---------------------------- MODULE RunLifecycle ----------------------------
(***************************************************************************)
(* What the hub promises of a processing run, and nothing of how: the      *)
(* statuses of documents/state-machine.ts and its transition table.  A run *)
(* is a row of ProcessingRun; ABSENT stands for a row that does not exist. *)
(*                                                                         *)
(* Spec is the documented machine, in which COMPLETED, FAILED and CANCELED *)
(* are final.  SpecAsBuilt is what the handlers implement: the table, and  *)
(* a cancellation that may overwrite any status of an existing run.        *)
(***************************************************************************)
CONSTANT Runs

VARIABLE status

Statuses == {"ABSENT", "QUEUED", "VALIDATING", "ANALYZING", "FINALIZING",
             "COMPLETED", "FAILED", "CANCELED"}

\* READY -> QUEUED in the table is a document acquiring a run.
transitions ==
    [ABSENT     |-> {"QUEUED"},
     QUEUED     |-> {"VALIDATING", "CANCELED"},
     VALIDATING |-> {"ANALYZING", "FAILED", "CANCELED"},
     ANALYZING  |-> {"FINALIZING", "FAILED", "CANCELED"},
     FINALIZING |-> {"COMPLETED", "FAILED", "CANCELED"},
     FAILED     |-> {},
     COMPLETED  |-> {},
     CANCELED   |-> {}]

Init == status = [r \in Runs |-> "ABSENT"]

Move(r, new) ==
    /\ new \in transitions[status[r]]
    /\ status' = [status EXCEPT ![r] = new]

Next == \E r \in Runs, new \in Statuses : Move(r, new)

Spec == Init /\ [][Next]_status

\* cancelProcessingRun tests one value of the status and overwrites another.
Overwrite(r) ==
    /\ status[r] # "ABSENT"
    /\ status' = [status EXCEPT ![r] = "CANCELED"]

SpecAsBuilt == Init /\ [][Next \/ \E r \in Runs : Overwrite(r)]_status
=============================================================================
