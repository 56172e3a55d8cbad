----------------------------- MODULE RefundBook -----------------------------
(***************************************************************************)
(* What refunding promises, as if one clerk kept the book of all payments  *)
(* and wrote one line at a time: a payment is entered once and its amount  *)
(* stays; money goes back only on a payment that has been paid, and only   *)
(* as far as its amount reaches, unless two of its refunds were looked at  *)
(* side by side.                                                           *)
(***************************************************************************)
EXTENDS Integers

CONSTANT Payment

VARIABLES amount,   \* of the payments that are entered
          paid,     \* payments that have been paid
          refunded, \* per payment: what has gone back
          raced     \* payments two of whose refunds were looked at side by side

book == <<amount, paid, refunded, raced>>

Init ==
    /\ amount = [p \in {} |-> 0]
    /\ refunded = [p \in Payment |-> 0]
    /\ paid = {} /\ raced = {}

Enter(p) ==
    /\ p \notin DOMAIN amount
    /\ amount' = [q \in DOMAIN amount \cup {p} |-> IF q = p THEN amount'[p] ELSE amount[q]]
    /\ UNCHANGED <<paid, refunded, raced>>

Pay(p) ==
    /\ p \in DOMAIN amount
    /\ paid' = paid \cup {p}
    /\ UNCHANGED <<amount, refunded, raced>>

SideBySide(p) ==
    /\ p \in paid
    /\ raced' = raced \cup {p}
    /\ UNCHANGED <<amount, paid, refunded>>

GiveBack(p) ==
    /\ p \in paid
    /\ refunded' = [refunded EXCEPT ![p] = refunded'[p]]
    /\ p \in raced \/ refunded'[p] <= amount[p]
    /\ UNCHANGED <<amount, paid, raced>>

Next == \E p \in Payment : Enter(p) \/ Pay(p) \/ SideBySide(p) \/ GiveBack(p)

Spec == Init /\ [][Next]_book
=============================================================================
