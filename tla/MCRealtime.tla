----------------------------- MODULE MCRealtime -----------------------------
(* For TLC's run of Realtime: the numbers are in Realtime.cfg. *)
EXTENDS Realtime
=============================================================================
