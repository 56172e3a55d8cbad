-------------------------- MODULE MCWebhookDelivery --------------------------
(* Small instances of WebhookDelivery for TLC.                              *)
EXTENDS WebhookDelivery, TLC

Symmetry == Permutations(Endpoint) \cup Permutations(Replica)
=============================================================================
