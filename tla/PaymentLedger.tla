---------------------------- MODULE PaymentLedger ----------------------------
(***************************************************************************)
(* The rows of `payments`, `refunds` and `transactions` and the request    *)
(* handlers that write them: PaymentsService, RefundsService,              *)
(* TransactionsService, PaymentProcessorService and the payment and refund *)
(* webhooks.  A worker is one request in flight on some replica; it stops  *)
(* at every `await`, so one action is one database or network call with    *)
(* the code that runs up to the next one.  Nothing is locked and no call   *)
(* shares a database transaction with another.                             *)
(*                                                                         *)
(* findOne loads a payment with its transactions, and repository.save      *)
(* writes the loaded entity back: the columns a concurrent request changed *)
(* are overwritten, and a transaction added since the load, being absent   *)
(* from the loaded one-to-many list, loses its payment (TypeORM nullifies  *)
(* the foreign key of an orphan).                                          *)
(***************************************************************************)
EXTENDS Integers

CONSTANTS Worker, Payment, Refund,  \* requests in flight, row ids
          Amount, RefundAmount,     \* amounts the DTOs may carry
          WebhookStatus,            \* statuses payment webhooks carry, mapped
          RefundWebhookStatus,      \* statuses refund webhooks carry, mapped
          Processed,                \* payments processPayment is called for
          None

\* The DTOs ask for a number of either sign; the columns are integers.
ASSUME AmountAssumption == Amount \subseteq Int /\ RefundAmount \subseteq Int
ASSUME IdAssumption == /\ None \notin Payment \cup Refund
                       /\ Payment \cap Refund = {}
                       /\ Processed \subseteq Payment

PaymentStatus == {"pending", "processing", "completed", "failed",
                  "cancelled", "refunded", "disputed"}
RefundStatus == {"pending", "processing", "completed", "failed"}

\* mapPaymentStatus reads every unknown word as "pending" and no word as
\* "processing"; mapRefundStatus reads every status.
MappedStatus == PaymentStatus \ {"processing"}
ASSUME WebhookAssumption == /\ WebhookStatus \subseteq MappedStatus
                            /\ RefundWebhookStatus \subseteq RefundStatus

VARIABLES
    payment,    \* payment rows; pi: metadata.piPaymentId is set
    refund,     \* refund rows
    refunded,   \* per payment, the sum of the amounts of its refund rows
    txn,        \* payments and refunds whose transaction row is saved
    detached,   \* those whose transaction row has lost its payment
    piAnswered, \* payments for which Pi has answered createPayment
    pc, frame   \* per worker: the next await, and its local variables
\* History, read by no action.
VARIABLES
    everCompleted, \* payments that have been COMPLETED
    everRefunded,  \* payments that have been REFUNDED
    contended,     \* payments on which two requests have been in flight at once
    refundRace,    \* payments on which two refunds passed their check together
    aborted        \* payments on which a request died half-way

rows == <<payment, refund, refunded, txn, detached, piAnswered>>
history == <<everCompleted, everRefunded, contended, refundRace, aborted>>
vars == <<rows, pc, frame, history>>

Label == {"idle", "payment.txn", "refund.check", "refund.save", "refund.txn",
          "update.read", "update.save", "process.risk", "process.save",
          "process.notify", "process.catch", "process.throw",
          "dispute.save", "resolve.save"}

\* Where PaymentsService.updateStatus returns to: its caller is done, or is
\* DisputesService.updateStatus.
ReturnLabel == {"idle", "resolve.save"}

Row == [status : PaymentStatus \cup {"absent"}, amount : Int, pi : BOOLEAN]
RefundRow == [payment : Payment \cup {None}, amount : Int,
              status : RefundStatus \cup {"absent"}]
AbsentRow == [status |-> "absent", amount |-> 0, pi |-> FALSE]

\* row and seen: the payment and the transactions this request has loaded.
Frame == [p : Payment \cup {None}, row : Row, seen : SUBSET (Payment \cup Refund),
          r : Refund \cup {None}, a : Int, total : Int,
          status : PaymentStatus, next : ReturnLabel]
NoFrame == [p |-> None, row |-> AbsentRow, seen |-> {}, r |-> None, a |-> 0,
            total |-> 0, status |-> "pending", next |-> "idle"]

TypeOK ==
    /\ payment \in [Payment -> Row]
    /\ refund \in [Refund -> RefundRow]
    /\ refunded \in [Payment -> Int]
    /\ txn \subseteq Payment \cup Refund
    /\ detached \subseteq Payment \cup Refund
    /\ piAnswered \subseteq Payment
    /\ pc \in [Worker -> Label]
    /\ frame \in [Worker -> Frame]
    /\ everCompleted \subseteq Payment
    /\ everRefunded \subseteq Payment
    /\ contended \subseteq Payment
    /\ refundRace \subseteq Payment
    /\ aborted \subseteq Payment

Init ==
    /\ payment = [p \in Payment |-> AbsentRow]
    /\ refund = [r \in Refund |-> [payment |-> None, amount |-> 0, status |-> "absent"]]
    /\ refunded = [p \in Payment |-> 0]
    /\ txn = {} /\ detached = {} /\ piAnswered = {}
    /\ pc = [w \in Worker |-> "idle"]
    /\ frame = [w \in Worker |-> NoFrame]
    /\ everCompleted = {} /\ everRefunded = {}
    /\ contended = {} /\ refundRace = {} /\ aborted = {}
-----------------------------------------------------------------------------
Exists(p) == payment[p].status # "absent"

InFlight(p) == {w \in Worker : pc[w] # "idle" /\ frame[w].p = p}

\* What findOne loads in the transactions relation.
TxnsOf(p) == {x \in txn \ detached : x = p \/ (x \in Refund /\ refund[x].payment = p)}

\* The locals of a request that has just called findOne(p).
Loaded(p) == [NoFrame EXCEPT !.p = p, !.row = payment[p], !.seen = TxnsOf(p)]

Begin(w, label, f) ==
    /\ pc[w] = "idle"
    /\ pc' = [pc EXCEPT ![w] = label]
    /\ frame' = [frame EXCEPT ![w] = f]
    /\ contended' = IF InFlight(f.p) = {} THEN contended ELSE contended \cup {f.p}

Goto(w, label, f) ==
    /\ pc' = [pc EXCEPT ![w] = label]
    /\ frame' = [frame EXCEPT ![w] = f]

End(w) == Goto(w, "idle", NoFrame)

\* repository.save(payment) of a loaded entity.
SavePayment(f, row) ==
    /\ payment' = [payment EXCEPT ![f.p] = row]
    /\ detached' = detached \cup (TxnsOf(f.p) \ f.seen)
    /\ everCompleted' =
           IF row.status = "completed" THEN everCompleted \cup {f.p} ELSE everCompleted
    /\ everRefunded' =
           IF row.status = "refunded" THEN everRefunded \cup {f.p} ELSE everRefunded
-----------------------------------------------------------------------------
(* PaymentsService.create and the payment webhook.                          *)

CreatePayment(w, p, a) ==
    /\ ~Exists(p)
    /\ Begin(w, "payment.txn", [NoFrame EXCEPT !.p = p])
    /\ payment' = [payment EXCEPT ![p] = [status |-> "pending", amount |-> a, pi |-> FALSE]]
    /\ UNCHANGED <<refund, refunded, txn, detached, piAnswered,
                   everCompleted, everRefunded, refundRace, aborted>>

PaymentTxn(w) ==
    /\ pc[w] = "payment.txn"
    /\ txn' = txn \cup {frame[w].p}
    /\ End(w)
    /\ UNCHANGED <<payment, refund, refunded, detached, piAnswered, history>>

\* handlePaymentWebhook calls updateStatus, whose findOne is this step.  No
\* status is refused, whatever the payment's present one.
PaymentWebhook(w, p, s) ==
    /\ Exists(p)
    /\ Begin(w, "update.save", [Loaded(p) EXCEPT !.status = s])
    /\ UNCHANGED <<rows, everCompleted, everRefunded, refundRace, aborted>>

UpdateRead(w) ==
    /\ pc[w] = "update.read"
    /\ LET p == frame[w].p IN
       Goto(w, "update.save", [frame[w] EXCEPT !.row = payment[p], !.seen = TxnsOf(p)])
    /\ UNCHANGED <<rows, history>>

UpdateSave(w) ==
    /\ pc[w] = "update.save"
    /\ SavePayment(frame[w], [frame[w].row EXCEPT !.status = frame[w].status])
    /\ Goto(w, frame[w].next, IF frame[w].next = "idle" THEN NoFrame ELSE frame[w])
    /\ UNCHANGED <<refund, refunded, txn, piAnswered, contended, refundRace, aborted>>
-----------------------------------------------------------------------------
(* RefundsService.create and the refund webhook.                            *)

FreshRefund(r) == refund[r].status = "absent" /\ \A v \in Worker : frame[v].r # r

\* Mutant: only REFUNDED payments are refused.
RefundRequestUnlessRefunded(w, p, r, a) ==
    /\ Exists(p) /\ payment[p].status # "refunded"
    /\ FreshRefund(r)
    /\ Begin(w, "refund.check", [Loaded(p) EXCEPT !.r = r, !.a = a])
    /\ UNCHANGED <<rows, everCompleted, everRefunded, refundRace, aborted>>

\* A request on a payment that is not COMPLETED is refused: no step.
RefundRequest(w, p, r, a) ==
    /\ payment[p].status = "completed"
    /\ FreshRefund(r)
    /\ Begin(w, "refund.check", [Loaded(p) EXCEPT !.r = r, !.a = a])
    /\ UNCHANGED <<rows, everCompleted, everRefunded, refundRace, aborted>>

\* Mutant: earlier refunds are not counted.
ExceedsPaymentAlone(f) == f.a > f.row.amount

\* Refunds of every status count, failed ones too.
ExceedsPayment(f) == refunded[f.p] + f.a > f.row.amount

RefundRefused(w) ==
    /\ pc[w] = "refund.check"
    /\ ExceedsPayment(frame[w])
    /\ End(w)
    /\ UNCHANGED <<rows, history>>

RefundChecked(w) ==
    /\ pc[w] = "refund.check"
    /\ ~ExceedsPayment(frame[w])
    /\ LET p == frame[w].p IN
       /\ Goto(w, "refund.save", [frame[w] EXCEPT !.total = refunded[p]])
       /\ refundRace' = IF \E v \in InFlight(p) : pc[v] = "refund.save"
                        THEN refundRace \cup {p} ELSE refundRace
    /\ UNCHANGED <<rows, everCompleted, everRefunded, contended, aborted>>

RefundSave(w) ==
    /\ pc[w] = "refund.save"
    /\ LET f == frame[w] IN
       /\ refund' = [refund EXCEPT ![f.r] =
                        [payment |-> f.p, amount |-> f.a, status |-> "pending"]]
       /\ refunded' = [refunded EXCEPT ![f.p] = @ + f.a]
       /\ Goto(w, "refund.txn", f)
    /\ UNCHANGED <<payment, txn, detached, piAnswered, history>>

\* Mutants: the comparison is flipped; earlier refunds are not counted.
FullyRefundsFlipped(f) == f.total + f.a <= f.row.amount
FullyRefundsAlone(f) == f.a = f.row.amount

FullyRefunds(f) == f.total + f.a = f.row.amount

\* Mutant: the payment loaded by the request is saved instead of a fresh one.
RefundTxnStale(w) ==
    /\ pc[w] = "refund.txn"
    /\ txn' = txn \cup {frame[w].r}
    /\ IF FullyRefunds(frame[w])
       THEN Goto(w, "update.save", [frame[w] EXCEPT !.status = "refunded"])
       ELSE End(w)
    /\ UNCHANGED <<payment, refund, refunded, detached, piAnswered, history>>

RefundTxn(w) ==
    /\ pc[w] = "refund.txn"
    /\ txn' = txn \cup {frame[w].r}
    /\ IF FullyRefunds(frame[w])
       THEN Goto(w, "update.read", [frame[w] EXCEPT !.status = "refunded"])
       ELSE End(w)
    /\ UNCHANGED <<payment, refund, refunded, detached, piAnswered, history>>

\* findOne and save: no other column of a refund ever changes, so the two
\* calls together just write the status.
RefundWebhook(r, s) ==
    /\ refund[r].status # "absent"
    /\ refund' = [refund EXCEPT ![r].status = s]
    /\ UNCHANGED <<payment, refunded, txn, detached, piAnswered, pc, frame, history>>
-----------------------------------------------------------------------------
(* PaymentProcessorService.processPayment, on a payment its caller loaded.  *)

Process(w, p) ==
    /\ p \in Processed /\ Exists(p)
    /\ Begin(w, "process.risk", Loaded(p))
    /\ UNCHANGED <<rows, everCompleted, everRefunded, refundRace, aborted>>

ProcessReject(w) ==
    /\ pc[w] = "process.risk"
    /\ SavePayment(frame[w], [frame[w].row EXCEPT !.status = "failed"])
    /\ End(w)
    /\ UNCHANGED <<refund, refunded, txn, piAnswered, contended, refundRace, aborted>>

ProcessPi(w) ==
    /\ pc[w] = "process.risk"
    /\ piAnswered' = piAnswered \cup {frame[w].p}
    /\ Goto(w, "process.save",
            [frame[w] EXCEPT !.row.status = "processing", !.row.pi = TRUE])
    /\ UNCHANGED <<payment, refund, refunded, txn, detached, history>>

ProcessSave(w) ==
    /\ pc[w] = "process.save"
    /\ SavePayment(frame[w], frame[w].row)
    /\ Goto(w, "process.notify", frame[w])
    /\ UNCHANGED <<refund, refunded, txn, piAnswered, contended, refundRace, aborted>>

ProcessNotify(w) ==
    /\ pc[w] = "process.notify"
    /\ End(w)
    /\ UNCHANGED <<rows, history>>

\* The Pi call, the save or the webhook delivery throws inside the try.
ProcessError(w) ==
    /\ pc[w] \in {"process.risk", "process.save", "process.notify"}
    /\ Goto(w, "process.catch", frame[w])
    /\ UNCHANGED <<rows, history>>

\* Mutant: the catch block saves a payment read anew.
ProcessCatchFresh(w) ==
    /\ pc[w] = "process.catch"
    /\ SavePayment(frame[w], [payment[frame[w].p] EXCEPT !.status = "failed"])
    /\ Goto(w, "process.throw", frame[w])
    /\ UNCHANGED <<refund, refunded, txn, piAnswered, contended, refundRace, aborted>>

ProcessCatch(w) ==
    /\ pc[w] = "process.catch"
    /\ SavePayment(frame[w], [frame[w].row EXCEPT !.status = "failed"])
    /\ Goto(w, "process.throw", frame[w])
    /\ UNCHANGED <<refund, refunded, txn, piAnswered, contended, refundRace, aborted>>

\* The second notification, and `throw error`.
ProcessThrow(w) ==
    /\ pc[w] = "process.throw"
    /\ End(w)
    /\ UNCHANGED <<rows, history>>
-----------------------------------------------------------------------------
\* The replica crashes, or a call outside processPayment's try throws: the
\* steps already saved stay saved.
Abort(w) ==
    /\ pc[w] # "idle"
    /\ End(w)
    /\ aborted' = aborted \cup {frame[w].p}
    /\ UNCHANGED <<rows, everCompleted, everRefunded, contended, refundRace>>

PaymentEndpoints(w, p) == \E a \in Amount : CreatePayment(w, p, a)
RefundEndpoints(w, p) == \E r \in Refund, a \in RefundAmount : RefundRequest(w, p, r, a)
WebhookEndpoints(w, p) == \E s \in WebhookStatus : PaymentWebhook(w, p, s)

Request(w) ==
    \E p \in Payment :
        \/ PaymentEndpoints(w, p) \/ RefundEndpoints(w, p) \/ WebhookEndpoints(w, p)
        \/ Process(w, p)

Step(w) ==
    \/ PaymentTxn(w) \/ UpdateRead(w) \/ UpdateSave(w)
    \/ RefundRefused(w) \/ RefundChecked(w) \/ RefundSave(w) \/ RefundTxn(w)
    \/ ProcessReject(w) \/ ProcessPi(w) \/ ProcessSave(w) \/ ProcessNotify(w)
    \/ ProcessError(w) \/ ProcessCatch(w) \/ ProcessThrow(w)

Next ==
    \/ \E w \in Worker : Request(w) \/ Step(w) \/ Abort(w)
    \/ \E r \in Refund, s \in RefundWebhookStatus : RefundWebhook(r, s)

Spec == Init /\ [][Next]_vars

-----------------------------------------------------------------------------
Quiet(p) == InFlight(p) = {}

\* refunds.service.ts: unless two refunds of a payment both passed the amount
\* check before either was saved, the payment's refunds, in whatever order
\* they are requested, fail or race with webhooks, never exceed its amount.
RefundsWithinPayment ==
    \A p \in Payment \ refundRace :
        refunded[p] # 0 => refunded[p] <= payment[p].amount

\* refunds.service.ts: only a payment that has been COMPLETED has refunds,
\* even when the refund is saved long after the status was read.
RefundsFollowCompletion ==
    \A r \in Refund : refund[r].status # "absent" => refund[r].payment \in everCompleted

\* refunds.service.ts: when a request is about to mark a payment REFUNDED for
\* its refunds, refunds of at least the whole amount are saved, whatever else
\* has been refunded since the request summed them.
RefundedMeansCovered ==
    RefundAmount \subseteq Nat =>
        \A w \in Worker :
            pc[w] \in {"update.read", "update.save"} /\ frame[w].r # None =>
                refunded[frame[w].p] >= frame[w].row.amount

\* What the ledger must hold a transaction of.
Owed(p) == {p} \cup {r \in Refund : refund[r].payment = p}

\* payments.service.ts, refunds.service.ts: once no request is in flight on a
\* payment and none has died half-way, the payment and each of its refunds
\* has its ledger transaction, and unless requests on the payment overlapped
\* none of these has lost its payment.
LedgerComplete ==
    \A p \in Payment \ aborted :
        Exists(p) /\ Quiet(p) =>
            Owed(p) \subseteq (IF p \in contended THEN txn ELSE txn \ detached)

\* payment-processor.service.ts: a Pi payment that was answered is recorded in
\* the payment's metadata, also when the save or the notification after it
\* fails, unless requests overlap or the replica dies.
PiPaymentRecorded ==
    \A p \in piAnswered \ (contended \cup aborted) : Quiet(p) => payment[p].pi

\* refunds.service.ts: a payment whose refunds have come to its amount has been
\* marked REFUNDED by the time no request on it is in flight, with webhooks
\* writing its status meanwhile, unless two refunds raced or a request died.
FullRefundMarksPayment ==
    \A p \in Payment \ (refundRace \cup aborted) :
        Quiet(p) /\ refunded[p] # 0 /\ refunded[p] = payment[p].amount
            => p \in everRefunded

\* The amounts of the payments there are.
Amounts == [p \in {q \in Payment : Exists(q)} |-> payment[p].amount]

\* payments.service.ts, refunds.service.ts: the requests, one await at a time
\* and in any interleaving, keep the payments and refunds as one clerk would
\* who never enters a payment twice, changes an amount or refunds what was not
\* paid or more than was paid, but for refunds that passed their check together.
Book == INSTANCE RefundBook
    WITH amount <- Amounts, paid <- everCompleted, raced <- refundRace
RefundsKeepBook == Book!Spec
=============================================================================
