----------------------------- MODULE MCUploads -----------------------------
(* Model values for TLC's runs of Uploads. *)
EXTENDS Uploads

CONSTANTS d1, d2, c1, c2, k1, k2
=============================================================================
