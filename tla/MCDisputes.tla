------------------------------ MODULE MCDisputes ------------------------------
(* Small instances of Disputes for TLC.                                     *)
EXTENDS Disputes, TLC

Symmetry == Permutations(Worker) \cup Permutations(Refund) \cup Permutations(Dispute)
=============================================================================
