-------------------------- MODULE MCOutboxDelivery --------------------------
(* Model values for TLC's runs of OutboxDelivery. *)
EXTENDS OutboxDelivery

CONSTANTS i1, i2, p1, p2, w1
=============================================================================
