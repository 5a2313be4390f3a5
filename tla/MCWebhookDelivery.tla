------------------------- MODULE MCWebhookDelivery -------------------------
(* Model values for TLC's runs of WebhookDelivery. *)
EXTENDS WebhookDelivery

CONSTANTS d1, d2, w1, w2, w3
=============================================================================
