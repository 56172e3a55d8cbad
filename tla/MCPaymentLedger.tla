--------------------------- MODULE MCPaymentLedger ---------------------------
(* Small instances of PaymentLedger for TLC.                                *)
EXTENDS PaymentLedger, TLC

Symmetry == Permutations(Worker) \cup Permutations(Refund)

MinusOneToTwo == -1..2
=============================================================================
