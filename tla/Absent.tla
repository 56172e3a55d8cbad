------------------------------- MODULE Absent -------------------------------
(* The value of a column or a reference that is not set.                    *)
CONSTANT None
=============================================================================
