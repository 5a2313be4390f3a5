-------------------------- MODULE MCWorkerProcess --------------------------
(* For TLC's run of WorkerProcess: the numbers are in WorkerProcess.cfg. *)
EXTENDS WorkerProcess
=============================================================================
