--------------------------- MODULE MCApiCommands ---------------------------
(* Model values for TLC's run of ApiCommands: a lock that two keys share, a *)
(* key for everything and one for reading alone.                            *)
EXTENDS ApiCommands

CONSTANTS k1, k2, a, b, c1, c2, l1, u1, u2

SharedLock(k) == l1
Principal(who) == IF who = a THEN u1 ELSE u2
KeyScopes == [u \in {u1, u2} |-> IF u = u1 THEN {"*"} ELSE {"documents:read"}]
=============================================================================
