------------------------ MODULE MCSubscriptionBilling ------------------------
(* Small instances of SubscriptionBilling for TLC.                          *)
EXTENDS SubscriptionBilling
=============================================================================
