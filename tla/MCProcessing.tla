---------------------------- MODULE MCProcessing ----------------------------
(* Model values and symmetry for TLC's runs of Processing. *)
EXTENDS Processing, TLC

CONSTANTS d1, w1, w2, w3, c1, c2, e1

Symmetry == Permutations(Workers) \cup Permutations(Clients)
=============================================================================
