------------------------------- MODULE OnceOnly -------------------------------
(***************************************************************************)
(* What a periodic job over a set of items promises: an item falls due,    *)
(* and is paid (settled, charged) at most once; several may be paid in one *)
(* step, and an item that is not due is never paid.                        *)
(***************************************************************************)
EXTENDS Naturals

CONSTANT Item

VARIABLES due,   \* items that have fallen due
          times  \* per item: how often it has been paid

Init == due = {} /\ times = [i \in Item |-> 0]

FallDue(S) ==
    /\ S # {} /\ S \cap due = {}
    /\ due' = due \cup S
    /\ UNCHANGED times

Pay(S) ==
    /\ S # {} /\ S \subseteq due
    /\ \A i \in S : times[i] = 0
    /\ times' = [i \in Item |-> IF i \in S THEN 1 ELSE times[i]]
    /\ UNCHANGED due

Next == \E S \in SUBSET Item : FallDue(S) \/ Pay(S)

Spec == Init /\ [][Next]_<<due, times>>
=============================================================================
