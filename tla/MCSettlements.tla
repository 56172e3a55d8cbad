---------------------------- MODULE MCSettlements ----------------------------
(* Small instances of Settlements for TLC.                                  *)
EXTENDS Settlements, TLC

Symmetry == Permutations(Replica) \cup Permutations(Merchant) \cup Permutations(Payment)
=============================================================================
