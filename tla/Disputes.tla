------------------------------- MODULE Disputes -------------------------------
(***************************************************************************)
(* DisputesService composed with the payment ledger it writes through      *)
(* PaymentsService.updateStatus.  Disputes come from the admin API and     *)
(* from dispute webhooks, which call the same two methods.                 *)
(***************************************************************************)
EXTENDS PaymentLedger

CONSTANTS Dispute,
          DisputeUpdate    \* statuses the update requests carry

DisputeStatus == {"open", "under_review", "resolved", "closed"}
ASSUME DisputeAssumption == /\ DisputeUpdate \subseteq DisputeStatus
                            /\ None \notin Dispute

VARIABLES
    dispute,  \* dispute rows; accepted: resolution reads 'accepted'
    dframe    \* per worker: the dispute it holds and the row it will save

dvars == <<vars, dispute, dframe>>

DisputeRow == [payment : Payment \cup {None}, accepted : BOOLEAN,
               status : DisputeStatus \cup {"absent"}]
AbsentDispute == [payment |-> None, accepted |-> FALSE, status |-> "absent"]
NoDispute == [d |-> None, row |-> AbsentDispute]

DisputesTypeOK ==
    /\ TypeOK
    /\ dispute \in [Dispute -> DisputeRow]
    /\ dframe \in [Worker -> [d : Dispute \cup {None}, row : DisputeRow]]

DisputesInit ==
    /\ Init
    /\ dispute = [d \in Dispute |-> AbsentDispute]
    /\ dframe = [w \in Worker |-> NoDispute]

Hold(w, d, row) == dframe' = [dframe EXCEPT ![w] = [d |-> d, row |-> row]]
Release(w) == dframe' = [dframe EXCEPT ![w] = NoDispute]

FreshDispute(d) ==
    dispute[d].status = "absent" /\ \A v \in Worker : dframe[v].d # d

\* create: any payment may be disputed, whatever its status.
DisputeRequest(w, p, d) ==
    /\ Exists(p) /\ FreshDispute(d)
    /\ Begin(w, "dispute.save", [NoFrame EXCEPT !.p = p])
    /\ Hold(w, d, [payment |-> p, accepted |-> FALSE, status |-> "open"])
    /\ UNCHANGED <<rows, dispute, everCompleted, everRefunded, refundRace, aborted>>

DisputeSave(w) ==
    /\ pc[w] = "dispute.save"
    /\ dispute' = [dispute EXCEPT ![dframe[w].d] = dframe[w].row]
    /\ Goto(w, "update.read", [frame[w] EXCEPT !.status = "disputed"])
    /\ Release(w)
    /\ UNCHANGED <<rows, history>>

\* Mutant: the dispute is saved without its payment.
ResolveRequestAlone(w, d, s, accepted) ==
    LET row == [dispute[d] EXCEPT !.status = s, !.accepted = accepted]
    IN  /\ dispute[d].status # "absent"
        /\ Begin(w, "resolve.save", [NoFrame EXCEPT !.p = row.payment])
        /\ Hold(w, d, row)
        /\ UNCHANGED <<rows, dispute, everCompleted, everRefunded, refundRace, aborted>>

\* updateStatus: findOne, then the payment before the dispute itself.
ResolveRequest(w, d, s, accepted) ==
    LET row == [dispute[d] EXCEPT !.status = s, !.accepted = accepted]
        f == [NoFrame EXCEPT !.p = row.payment,
                             !.status = IF accepted THEN "refunded" ELSE "completed",
                             !.next = "resolve.save"]
    IN  /\ dispute[d].status # "absent"
        /\ Begin(w, IF s = "resolved" THEN "update.read" ELSE "resolve.save", f)
        /\ Hold(w, d, row)
        /\ UNCHANGED <<rows, dispute, everCompleted, everRefunded, refundRace, aborted>>

ResolveSave(w) ==
    /\ pc[w] = "resolve.save"
    /\ dispute' = [dispute EXCEPT ![dframe[w].d] = dframe[w].row]
    /\ End(w)
    /\ Release(w)
    /\ UNCHANGED <<rows, history>>

\* A step of the ledger; a request that dies there loses its dispute too.
LedgerStep ==
    /\ Next
    /\ dframe' = [w \in Worker |-> IF pc'[w] = "idle" THEN NoDispute ELSE dframe[w]]
    /\ UNCHANGED dispute

DisputeEndpoints(w) ==
    \/ \E p \in Payment, d \in Dispute : DisputeRequest(w, p, d)
    \/ \E d \in Dispute, s \in DisputeUpdate :
           \* a body without a resolution keeps the stored one
           \E accepted \in BOOLEAN : ResolveRequest(w, d, s, accepted)

DisputesNext ==
    \/ LedgerStep
    \/ \E w \in Worker : DisputeEndpoints(w) \/ DisputeSave(w) \/ ResolveSave(w)

DisputesSpec == DisputesInit /\ [][DisputesNext]_dvars
-----------------------------------------------------------------------------
\* disputes.service.ts, refunds.service.ts: unless requests on it overlap, a
\* payment whose status is DISPUTED gets no refund: the money is not returned
\* both by the refund and by the dispute.
NoRefundInDispute ==
    [][\A p \in Payment :
           refunded'[p] # refunded[p] /\ payment[p].status = "disputed"
               => p \in contended]_dvars

\* disputes.service.ts: a dispute is recorded RESOLVED only when its payment
\* already carries the outcome, unless another request on the payment
\* overlapped; a crash in between leaves the dispute open instead.
ResolutionReachesPayment ==
    [][\A d \in Dispute :
           dispute'[d].status = "resolved" /\ dispute[d].status # "resolved" =>
               LET p == dispute'[d].payment IN
               \/ payment[p].status = (IF dispute'[d].accepted THEN "refunded" ELSE "completed")
               \/ p \in contended]_dvars
=============================================================================
