------------------------- MODULE PaymentLedgerProofs -------------------------
(* Theorems about PaymentLedger, and at the end about Disputes, which        *)
(* composes it, for every value of their constants.                         *)
EXTENDS Disputes, TLAPS

-----------------------------------------------------------------------------
(* What the helpers of the model return and preserve.                       *)

LEMMA NoFrameType == NoFrame \in Frame
  BY DEF NoFrame, Frame, AbsentRow, Row, PaymentStatus, ReturnLabel

LEMMA TxnsOfType == TypeOK => \A p \in Payment : TxnsOf(p) \in SUBSET (Payment \cup Refund)
  BY DEF TypeOK, TxnsOf

LEMMA LoadedType ==
    ASSUME TypeOK, NEW p \in Payment
    PROVE  /\ Loaded(p) \in Frame
           /\ Loaded(p).p = p /\ Loaded(p).row = payment[p] /\ Loaded(p).seen = TxnsOf(p)
           /\ Loaded(p).r = None /\ Loaded(p).next = "idle"
<1>1. payment[p] \in Row /\ TxnsOf(p) \in SUBSET (Payment \cup Refund)
  BY TxnsOfType DEF TypeOK
<1>2. NoFrame.r = None /\ NoFrame.next = "idle"
  BY DEF NoFrame
<1> QED  BY <1>1, <1>2, NoFrameType DEF Frame, Loaded

LEMMA BeginType ==
    ASSUME TypeOK, NEW w \in Worker, NEW label \in Label, NEW f \in Frame,
           f.p \in Payment, Begin(w, label, f)
    PROVE  /\ pc' \in [Worker -> Label]
           /\ frame' \in [Worker -> Frame]
           /\ contended' \subseteq Payment
  BY DEF TypeOK, Begin

LEMMA GotoType ==
    ASSUME TypeOK, NEW w \in Worker, NEW label \in Label, NEW f \in Frame, Goto(w, label, f)
    PROVE  pc' \in [Worker -> Label] /\ frame' \in [Worker -> Frame]
  BY DEF TypeOK, Goto

LEMMA EndType ==
    ASSUME TypeOK, NEW w \in Worker, End(w)
    PROVE  pc' \in [Worker -> Label] /\ frame' \in [Worker -> Frame]
  BY NoFrameType, GotoType DEF End, Label

LEMMA SavePaymentType ==
    ASSUME TypeOK, NEW f \in Frame, f.p \in Payment, NEW row \in Row, SavePayment(f, row)
    PROVE  /\ payment' \in [Payment -> Row]
           /\ detached' \subseteq Payment \cup Refund
           /\ everCompleted' \subseteq Payment
           /\ everRefunded' \subseteq Payment
  BY DEF TypeOK, SavePayment, TxnsOf

LEMMA RowWithStatus ==
    ASSUME NEW f \in Frame, NEW s \in PaymentStatus
    PROVE  [f.row EXCEPT !.status = s] \in Row
  BY DEF Frame, Row

-----------------------------------------------------------------------------
(* A request in flight is about some payment, and a refund request holds the *)
(* id of its refund.                                                         *)

RefundLabel == {"refund.check", "refund.save", "refund.txn"}

FramesOK ==
    \A w \in Worker :
        /\ pc[w] # "idle" => frame[w].p \in Payment
        /\ pc[w] \in RefundLabel => frame[w].r \in Refund

TInv == TypeOK /\ FramesOK

LEMMA BeginFrames ==
    ASSUME TInv, NEW w \in Worker, NEW label \in Label, NEW f \in Frame,
           f.p \in Payment, Begin(w, label, f), label \in RefundLabel => f.r \in Refund
    PROVE  FramesOK'
  BY DEF TInv, FramesOK, TypeOK, Begin

LEMMA GotoFrames ==
    ASSUME TInv, NEW w \in Worker, NEW label \in Label, NEW f, Goto(w, label, f),
           label # "idle" => f.p \in Payment, label \in RefundLabel => f.r \in Refund
    PROVE  FramesOK'
  BY DEF TInv, FramesOK, TypeOK, Goto

LEMMA EndFrames ==
    ASSUME TInv, NEW w \in Worker, End(w)
    PROVE  FramesOK'
  BY GotoFrames DEF End, Label, RefundLabel

LEMMA TInvStep == TInv /\ [Next]_vars => TInv'
<1> SUFFICES ASSUME TInv, [Next]_vars PROVE TInv'
  OBVIOUS
<1> USE DEF TInv
<1>1. ASSUME NEW w \in Worker, NEW p \in Payment, NEW a \in Amount, CreatePayment(w, p, a)
      PROVE  TInv'
  <2> DEFINE f == [NoFrame EXCEPT !.p = p]
  <2>1. f \in Frame /\ f.p = p
    BY NoFrameType DEF Frame, NoFrame
  <2>2. "payment.txn" \in Label \ RefundLabel
    BY DEF Label, RefundLabel
  <2>3. [status |-> "pending", amount |-> a, pi |-> FALSE] \in Row
    BY AmountAssumption DEF Row, PaymentStatus
  <2>4. Begin(w, "payment.txn", f)
    BY <1>1 DEF CreatePayment
  <2>5. TypeOK'
    BY <1>1, <2>1, <2>2, <2>3, <2>4, BeginType DEF CreatePayment, TypeOK
  <2> QED  BY <2>1, <2>2, <2>4, <2>5, BeginFrames
<1>2. ASSUME NEW w \in Worker, PaymentTxn(w) PROVE TInv'
  <2>1. frame[w].p \in Payment
    BY <1>2 DEF PaymentTxn, FramesOK
  <2>2. TypeOK'
    BY <1>2, <2>1, EndType DEF PaymentTxn, TypeOK, history
  <2> QED  BY <1>2, <2>2, EndFrames DEF PaymentTxn
<1>3. ASSUME NEW w \in Worker, NEW p \in Payment, NEW s \in WebhookStatus, PaymentWebhook(w, p, s)
      PROVE  TInv'
  <2> DEFINE f == [Loaded(p) EXCEPT !.status = s]
  <2>1. f \in Frame /\ f.p = p
    BY LoadedType, WebhookAssumption DEF Frame, MappedStatus
  <2>2. Begin(w, "update.save", f) /\ "update.save" \in Label
    BY <1>3 DEF PaymentWebhook, Label
  <2>3. TypeOK'
    BY <1>3, <2>1, <2>2, BeginType DEF PaymentWebhook, TypeOK, rows
  <2> QED  BY <2>1, <2>2, <2>3, BeginFrames DEF RefundLabel
<1>4. ASSUME NEW w \in Worker, NEW p \in Payment, NEW r \in Refund, NEW a \in RefundAmount, RefundRequest(w, p, r, a)
      PROVE  TInv'
  <2> DEFINE f == [Loaded(p) EXCEPT !.r = r, !.a = a]
  <2>1. f \in Frame /\ f.p = p /\ f.r = r
    <3>1. Loaded(p) \in Frame /\ Loaded(p).p = p /\ a \in Int
      BY LoadedType, AmountAssumption
    <3> QED  BY <3>1 DEF Frame
  <2>2. Begin(w, "refund.check", f) /\ "refund.check" \in Label
    BY <1>4 DEF RefundRequest, Label
  <2>3. TypeOK'
    BY <1>4, <2>1, <2>2, BeginType DEF RefundRequest, TypeOK, rows
  <2> QED  BY <2>1, <2>2, <2>3, BeginFrames DEF RefundLabel
<1>5. ASSUME NEW w \in Worker, NEW p \in Payment, Process(w, p)
      PROVE  TInv'
  <2> DEFINE f == Loaded(p)
  <2>1. f \in Frame /\ f.p = p
    BY LoadedType DEF Frame
  <2>2. Begin(w, "process.risk", f) /\ "process.risk" \in Label
    BY <1>5 DEF Process, Label
  <2>3. TypeOK'
    BY <1>5, <2>1, <2>2, BeginType DEF Process, TypeOK, rows
  <2> QED  BY <2>1, <2>2, <2>3, BeginFrames DEF RefundLabel
<1>6. ASSUME NEW w \in Worker, UpdateRead(w) PROVE TInv'
  <2> DEFINE f == [frame[w] EXCEPT !.row = payment[frame[w].p], !.seen = TxnsOf(frame[w].p)]
  <2>1. frame[w] \in Frame /\ frame[w].p \in Payment /\ (pc[w] \in RefundLabel => frame[w].r \in Refund)
    BY <1>6 DEF UpdateRead, FramesOK, TypeOK
  <2>2. f \in Frame /\ f.p = frame[w].p /\ f.r = frame[w].r
    BY <2>1, TxnsOfType DEF Frame, TypeOK
  <2>3. Goto(w, "update.save", f) /\ "update.save" \in Label
    BY <1>6 DEF UpdateRead, Label
  <2>4. TypeOK'
    BY <1>6, <2>1, <2>2, <2>3, GotoType DEF UpdateRead, TypeOK, rows, history
  <2> QED  BY <1>6, <2>1, <2>2, <2>3, <2>4, GotoFrames DEF UpdateRead, RefundLabel
<1>7. ASSUME NEW w \in Worker, UpdateSave(w) PROVE TInv'
  <2> DEFINE f == IF frame[w].next = "idle" THEN NoFrame ELSE frame[w]
  <2>1. frame[w] \in Frame /\ frame[w].p \in Payment
    BY <1>7 DEF UpdateSave, FramesOK, TypeOK
  <2>2. [frame[w].row EXCEPT !.status = frame[w].status] \in Row
    BY <2>1, RowWithStatus DEF Frame
  <2>3. f \in Frame /\ Goto(w, frame[w].next, f) /\ frame[w].next \in Label \ RefundLabel
    BY <1>7, <2>1, NoFrameType DEF UpdateSave, Frame, ReturnLabel, Label, RefundLabel
  <2>4. TypeOK'
    BY <1>7, <2>1, <2>2, <2>3, GotoType, SavePaymentType DEF UpdateSave, TypeOK
  <2> QED  BY <1>7, <2>1, <2>3, <2>4, GotoFrames DEF UpdateSave, RefundLabel
<1>8. ASSUME NEW w \in Worker, RefundRefused(w) PROVE TInv'
  <2>1. frame[w].p \in Payment
    BY <1>8 DEF RefundRefused, FramesOK
  <2>2. TypeOK'
    BY <1>8, <2>1, EndType DEF RefundRefused, TypeOK, rows, history
  <2> QED  BY <1>8, <2>2, EndFrames DEF RefundRefused
<1>9. ASSUME NEW w \in Worker, RefundChecked(w) PROVE TInv'
  <2> DEFINE f == [frame[w] EXCEPT !.total = refunded[frame[w].p]]
  <2>1. frame[w] \in Frame /\ frame[w].p \in Payment /\ (pc[w] \in RefundLabel => frame[w].r \in Refund)
    BY <1>9 DEF RefundChecked, FramesOK, TypeOK
  <2>2. f \in Frame /\ f.p = frame[w].p /\ f.r = frame[w].r
    BY <2>1 DEF Frame, TypeOK
  <2>3. Goto(w, "refund.save", f) /\ "refund.save" \in Label
    BY <1>9 DEF RefundChecked, Label
  <2>4. TypeOK'
    BY <1>9, <2>1, <2>2, <2>3, GotoType DEF RefundChecked, TypeOK, rows, history
  <2> QED  BY <1>9, <2>1, <2>2, <2>3, <2>4, GotoFrames DEF RefundChecked, RefundLabel
<1>10. ASSUME NEW w \in Worker, RefundSave(w) PROVE TInv'
  <2> DEFINE f == frame[w]
  <2>1. frame[w] \in Frame /\ frame[w].p \in Payment /\ (pc[w] \in RefundLabel => frame[w].r \in Refund)
    BY <1>10 DEF RefundSave, FramesOK, TypeOK
  <2>2. f \in Frame /\ f.p = frame[w].p /\ f.r = frame[w].r
    BY <2>1 DEF Frame
  <2>3. Goto(w, "refund.txn", f) /\ "refund.txn" \in Label
    BY <1>10 DEF RefundSave, Label
  <2>4. [payment |-> frame[w].p, amount |-> frame[w].a, status |-> "pending"] \in RefundRow
    BY <2>1 DEF Frame, RefundRow, RefundStatus
  <2>5. refund' \in [Refund -> RefundRow] /\ refunded' \in [Payment -> Int]
    BY <1>10, <2>1, <2>4 DEF RefundSave, TypeOK, Frame, RefundLabel
  <2>6. TypeOK'
    BY <1>10, <2>5, <2>1, <2>2, <2>3, GotoType DEF RefundSave, TypeOK, rows, history
  <2> QED  BY <1>10, <2>1, <2>2, <2>3, <2>6, GotoFrames DEF RefundSave, RefundLabel
<1>11. ASSUME NEW w \in Worker, RefundTxn(w) PROVE TInv'
  <2> DEFINE f == [frame[w] EXCEPT !.status = "refunded"]
  <2>1. frame[w] \in Frame /\ frame[w].p \in Payment /\ frame[w].r \in Refund
    BY <1>11 DEF RefundTxn, FramesOK, TypeOK, RefundLabel
  <2>2. f \in Frame /\ f.p = frame[w].p
    BY <2>1 DEF Frame, PaymentStatus
  <2>3. CASE FullyRefunds(frame[w])
    <3>1. Goto(w, "update.read", f) /\ "update.read" \in Label \ RefundLabel
      BY <1>11, <2>3 DEF RefundTxn, Label, RefundLabel
    <3>2. TypeOK'
      BY <1>11, <2>1, <2>2, <3>1, GotoType DEF RefundTxn, TypeOK, history
    <3> QED  BY <2>1, <2>2, <3>1, <3>2, GotoFrames
  <2>4. CASE ~FullyRefunds(frame[w])
    <3>1. End(w)
      BY <1>11, <2>4 DEF RefundTxn
    <3>2. TypeOK'
      BY <1>11, <2>1, <3>1, EndType DEF RefundTxn, TypeOK, history
    <3> QED  BY <3>1, <3>2, EndFrames
  <2> QED  BY <2>3, <2>4
<1>12. ASSUME NEW r \in Refund, NEW s \in RefundWebhookStatus, RefundWebhook(r, s) PROVE TInv'
  BY <1>12, WebhookAssumption DEF RefundWebhook, TypeOK, FramesOK, RefundRow, history
<1>13. ASSUME NEW w \in Worker, ProcessReject(w) PROVE TInv'
  <2>1. frame[w] \in Frame /\ frame[w].p \in Payment
    BY <1>13 DEF ProcessReject, FramesOK, TypeOK
  <2>2. [frame[w].row EXCEPT !.status = "failed"] \in Row
    BY <2>1, RowWithStatus DEF PaymentStatus
  <2>3. TypeOK'
    BY <1>13, <2>1, <2>2, EndType, SavePaymentType DEF ProcessReject, TypeOK
  <2> QED  BY <1>13, <2>3, EndFrames DEF ProcessReject
<1>14. ASSUME NEW w \in Worker, ProcessPi(w) PROVE TInv'
  <2> DEFINE f == [frame[w] EXCEPT !.row.status = "processing", !.row.pi = TRUE]
  <2>1. frame[w] \in Frame /\ frame[w].p \in Payment /\ (pc[w] \in RefundLabel => frame[w].r \in Refund)
    BY <1>14 DEF ProcessPi, FramesOK, TypeOK
  <2>2. f \in Frame /\ f.p = frame[w].p /\ f.r = frame[w].r
    BY <2>1 DEF Frame, Row, PaymentStatus
  <2>3. Goto(w, "process.save", f) /\ "process.save" \in Label
    BY <1>14 DEF ProcessPi, Label
  <2>4. TypeOK'
    BY <1>14, <2>1, <2>2, <2>3, GotoType DEF ProcessPi, TypeOK, rows, history
  <2> QED  BY <1>14, <2>1, <2>2, <2>3, <2>4, GotoFrames DEF ProcessPi, RefundLabel
<1>15. ASSUME NEW w \in Worker, ProcessSave(w) PROVE TInv'
  <2>1. frame[w] \in Frame /\ frame[w].p \in Payment
    BY <1>15 DEF ProcessSave, FramesOK, TypeOK
  <2>2. frame[w].row \in Row
    BY <2>1 DEF Frame
  <2>3. Goto(w, "process.notify", frame[w]) /\ "process.notify" \in Label \ RefundLabel
    BY <1>15 DEF ProcessSave, Label, RefundLabel
  <2>4. TypeOK'
    BY <1>15, <2>1, <2>2, <2>3, GotoType, SavePaymentType DEF ProcessSave, TypeOK
  <2> QED  BY <2>1, <2>3, <2>4, GotoFrames
<1>16. ASSUME NEW w \in Worker, ProcessNotify(w) PROVE TInv'
  <2>1. frame[w].p \in Payment
    BY <1>16 DEF ProcessNotify, FramesOK
  <2>2. TypeOK'
    BY <1>16, <2>1, EndType DEF ProcessNotify, TypeOK, rows, history
  <2> QED  BY <1>16, <2>2, EndFrames DEF ProcessNotify
<1>17. ASSUME NEW w \in Worker, ProcessError(w) PROVE TInv'
  <2>1. frame[w] \in Frame /\ frame[w].p \in Payment
    BY <1>17 DEF ProcessError, FramesOK, TypeOK
  <2>2. Goto(w, "process.catch", frame[w]) /\ "process.catch" \in Label \ RefundLabel
    BY <1>17 DEF ProcessError, Label, RefundLabel
  <2>3. TypeOK'
    BY <1>17, <2>1, <2>2, GotoType DEF ProcessError, TypeOK, rows, history
  <2> QED  BY <2>1, <2>2, <2>3, GotoFrames
<1>18. ASSUME NEW w \in Worker, ProcessCatch(w) PROVE TInv'
  <2>1. frame[w] \in Frame /\ frame[w].p \in Payment
    BY <1>18 DEF ProcessCatch, FramesOK, TypeOK
  <2>2. [frame[w].row EXCEPT !.status = "failed"] \in Row
    BY <2>1, RowWithStatus DEF PaymentStatus
  <2>3. Goto(w, "process.throw", frame[w]) /\ "process.throw" \in Label \ RefundLabel
    BY <1>18 DEF ProcessCatch, Label, RefundLabel
  <2>4. TypeOK'
    BY <1>18, <2>1, <2>2, <2>3, GotoType, SavePaymentType DEF ProcessCatch, TypeOK
  <2> QED  BY <2>1, <2>3, <2>4, GotoFrames
<1>19. ASSUME NEW w \in Worker, ProcessThrow(w) PROVE TInv'
  <2>1. frame[w].p \in Payment
    BY <1>19 DEF ProcessThrow, FramesOK
  <2>2. TypeOK'
    BY <1>19, <2>1, EndType DEF ProcessThrow, TypeOK, rows, history
  <2> QED  BY <1>19, <2>2, EndFrames DEF ProcessThrow
<1>20. ASSUME NEW w \in Worker, Abort(w) PROVE TInv'
  <2>1. frame[w].p \in Payment
    BY <1>20 DEF Abort, FramesOK
  <2>2. TypeOK'
    BY <1>20, <2>1, EndType DEF Abort, TypeOK, rows
  <2> QED  BY <1>20, <2>2, EndFrames DEF Abort
<1>21. CASE UNCHANGED vars
  BY <1>21 DEF vars, rows, history, TypeOK, FramesOK
<1> QED
  BY <1>1, <1>2, <1>3, <1>4, <1>5, <1>6, <1>7, <1>8, <1>9, <1>10, <1>11, <1>12, <1>13, <1>14,
     <1>15, <1>16, <1>17, <1>18, <1>19, <1>20, <1>21 DEF Next, Request, Step, PaymentEndpoints, RefundEndpoints, WebhookEndpoints

LEMMA TInvInit == Init => TInv
  BY NoFrameType DEF Init, TInv, TypeOK, FramesOK, Row, RefundRow, AbsentRow, Label,
                     PaymentStatus, RefundStatus, RefundLabel

LEMMA TInvHolds == Spec => []TInv
<1>1. Init => TInv
  BY TInvInit
<1>2. TInv /\ [Next]_vars => TInv'
  BY TInvStep
<1> QED  BY <1>1, <1>2, PTL DEF Spec

\* The tables and the requests always have the shapes the entities and the
\* handlers give them, for any number of requests, payments and refunds and
\* any amounts.
THEOREM TypeCorrect == Spec => []TypeOK
<1>1. TInv => TypeOK
  BY DEF TInv
<1> QED  BY <1>1, TInvHolds, PTL
-----------------------------------------------------------------------------
(* What a request remembers of its payment stays true while it is in flight: *)
(* the payment exists, its amount is the one loaded, and a refund request's  *)
(* payment has been COMPLETED.  Only the disputes service calls updateStatus *)
(* on a payment it has not loaded.                                           *)

LoadedLabel == RefundLabel \cup
    {"update.save", "process.risk", "process.save",
     "process.notify", "process.catch", "process.throw"}

NamedLabel == LoadedLabel \cup {"update.read", "dispute.save", "resolve.save"}

Good(label, f, pay, ever) ==
    /\ label \in NamedLabel => pay[f.p].status # "absent"
    /\ label \in LoadedLabel \/ (label = "update.read" /\ f.r # None) =>
           f.row.status # "absent" /\ f.row.amount = pay[f.p].amount
    /\ label # "idle" /\ f.r # None => f.p \in ever

FramesGood == \A w \in Worker : Good(pc[w], frame[w], payment, everCompleted)

CompletedRecorded ==
    \A p \in Payment :
        /\ payment[p].status = "completed" => p \in everCompleted
        /\ p \in everCompleted => Exists(p)
        /\ refunded[p] # 0 => p \in everCompleted

LInv == TInv /\ FramesGood /\ CompletedRecorded /\ RefundsFollowCompletion

\* Rows are never deleted and amounts never change.
Keeps ==
    /\ \A p \in Payment : Exists(p) =>
           payment'[p].status # "absent" /\ payment'[p].amount = payment[p].amount
    /\ everCompleted \subseteq everCompleted'

LEMMA GoodKept ==
    ASSUME LInv, Keeps, NEW v \in Worker
    PROVE  Good(pc[v], frame[v], payment', everCompleted')
  BY DEF LInv, TInv, FramesOK, FramesGood, Good, Keeps, Exists, NamedLabel, LoadedLabel, RefundLabel

LEMMA GotoGood ==
    ASSUME LInv, Keeps, NEW w \in Worker, NEW label, NEW f,
           pc' = [pc EXCEPT ![w] = label], frame' = [frame EXCEPT ![w] = f],
           Good(label, f, payment', everCompleted')
    PROVE  FramesGood'
<1> SUFFICES ASSUME NEW v \in Worker
             PROVE  Good(pc'[v], frame'[v], payment', everCompleted')
  BY DEF FramesGood
<1>1. CASE v = w
  BY <1>1 DEF LInv, TInv, TypeOK
<1>2. CASE v # w
  BY <1>2, GoodKept DEF LInv, TInv, TypeOK
<1> QED  BY <1>1, <1>2

LEMMA EndGood ==
    ASSUME LInv, Keeps, NEW w \in Worker, End(w)
    PROVE  FramesGood'
<1>1. Good("idle", NoFrame, payment', everCompleted')
  BY DEF Good, NamedLabel, LoadedLabel, RefundLabel
<1> QED  BY <1>1, GotoGood DEF End, Goto

LEMMA SaveKeeps ==
    ASSUME LInv, NEW w \in Worker, pc[w] \in LoadedLabel, NEW row \in Row,
           row.status # "absent", row.amount = frame[w].row.amount,
           SavePayment(frame[w], row), UNCHANGED <<refund, refunded>>
    PROVE  Keeps /\ CompletedRecorded' /\ RefundsFollowCompletion'
<1>1. frame[w].p \in Payment /\ row.amount = payment[frame[w].p].amount
  BY DEF LInv, TInv, FramesOK, FramesGood, Good, NamedLabel, LoadedLabel, RefundLabel
<1>2. payment' = [payment EXCEPT ![frame[w].p] = row] /\ everCompleted \subseteq everCompleted'
  BY DEF SavePayment
<1>3. Keeps
  BY <1>1, <1>2 DEF Keeps, LInv, TInv, TypeOK, Exists
<1>4. CompletedRecorded'
  BY <1>1, <1>2, <1>3 DEF SavePayment, CompletedRecorded, LInv, TInv, TypeOK, Exists
<1> QED  BY <1>2, <1>3, <1>4 DEF RefundsFollowCompletion, LInv

LEMMA NoSaveKeeps ==
    ASSUME LInv, UNCHANGED <<payment, refund, refunded, everCompleted>>
    PROVE  Keeps /\ CompletedRecorded' /\ RefundsFollowCompletion'
  BY DEF LInv, Keeps, CompletedRecorded, RefundsFollowCompletion, Exists

LEMMA LInvStep == LInv /\ [Next]_vars => LInv'
<1> SUFFICES ASSUME LInv, [Next]_vars PROVE LInv'
  OBVIOUS
<1>0. TInv /\ TInv' /\ FramesGood /\ CompletedRecorded /\ RefundsFollowCompletion
  BY TInvStep DEF LInv
<1> SUFFICES FramesGood' /\ CompletedRecorded' /\ RefundsFollowCompletion'
  BY <1>0 DEF LInv
<1>1. ASSUME NEW w \in Worker, NEW p \in Payment, NEW a \in Amount, CreatePayment(w, p, a)
      PROVE  FramesGood' /\ CompletedRecorded' /\ RefundsFollowCompletion'
  <2> DEFINE f == [NoFrame EXCEPT !.p = p]
  <2>1. payment' = [payment EXCEPT ![p] = [status |-> "pending", amount |-> a, pi |-> FALSE]]
        /\ ~Exists(p) /\ UNCHANGED <<refund, refunded, everCompleted>>
    BY <1>1 DEF CreatePayment
  <2>2. Keeps /\ CompletedRecorded' /\ RefundsFollowCompletion'
    BY <1>0, <2>1 DEF Keeps, CompletedRecorded, RefundsFollowCompletion, Exists, TInv, TypeOK
  <2>3. f.r = None
    BY DEF NoFrame
  <2>4. Good("payment.txn", f, payment', everCompleted')
    BY <2>3 DEF Good, NamedLabel, LoadedLabel, RefundLabel
  <2>5. pc' = [pc EXCEPT ![w] = "payment.txn"] /\ frame' = [frame EXCEPT ![w] = f]
    BY <1>1 DEF CreatePayment, Begin
  <2> QED  BY <2>2, <2>4, <2>5, GotoGood
<1>2. ASSUME NEW w \in Worker, NEW p \in Payment, NEW s \in WebhookStatus, PaymentWebhook(w, p, s)
      PROVE  FramesGood' /\ CompletedRecorded' /\ RefundsFollowCompletion'
  <2> DEFINE f == [Loaded(p) EXCEPT !.status = s]
  <2>1. UNCHANGED <<payment, refund, refunded, everCompleted>>
    BY <1>2 DEF PaymentWebhook, rows
  <2>2. Keeps /\ CompletedRecorded' /\ RefundsFollowCompletion'
    BY <2>1, NoSaveKeeps
  <2>3. f.p = p /\ f.row = payment[p] /\ Exists(p) /\ (f.r # None => p \in everCompleted)
    BY <1>2, <1>0, LoadedType DEF PaymentWebhook, Frame, TInv
  <2>4. Good("update.save", f, payment', everCompleted')
    BY <2>1, <2>3 DEF Good, Exists
  <2>5. pc' = [pc EXCEPT ![w] = "update.save"] /\ frame' = [frame EXCEPT ![w] = f]
    BY <1>2 DEF PaymentWebhook, Begin
  <2> QED  BY <2>2, <2>4, <2>5, GotoGood
<1>3. ASSUME NEW w \in Worker, NEW p \in Payment, NEW r \in Refund, NEW a \in RefundAmount, RefundRequest(w, p, r, a)
      PROVE  FramesGood' /\ CompletedRecorded' /\ RefundsFollowCompletion'
  <2> DEFINE f == [Loaded(p) EXCEPT !.r = r, !.a = a]
  <2>1. UNCHANGED <<payment, refund, refunded, everCompleted>>
    BY <1>3 DEF RefundRequest, rows
  <2>2. Keeps /\ CompletedRecorded' /\ RefundsFollowCompletion'
    BY <2>1, NoSaveKeeps
  <2>3. f.p = p /\ f.row = payment[p] /\ Exists(p) /\ (f.r # None => p \in everCompleted)
    <3>1. Loaded(p) \in Frame /\ Loaded(p).p = p /\ Loaded(p).row = payment[p]
      BY <1>0, LoadedType DEF TInv
    <3>2. f.p = p /\ f.row = payment[p]
      BY <3>1 DEF Frame
    <3>3. payment[p].status = "completed"
      BY <1>3 DEF RefundRequest
    <3> QED  BY <3>2, <3>3, <1>0 DEF Exists, CompletedRecorded
  <2>4. Good("refund.check", f, payment', everCompleted')
    BY <2>1, <2>3 DEF Good, Exists
  <2>5. pc' = [pc EXCEPT ![w] = "refund.check"] /\ frame' = [frame EXCEPT ![w] = f]
    BY <1>3 DEF RefundRequest, Begin
  <2> QED  BY <2>2, <2>4, <2>5, GotoGood
<1>4. ASSUME NEW w \in Worker, NEW p \in Payment, Process(w, p)
      PROVE  FramesGood' /\ CompletedRecorded' /\ RefundsFollowCompletion'
  <2> DEFINE f == Loaded(p)
  <2>1. UNCHANGED <<payment, refund, refunded, everCompleted>>
    BY <1>4 DEF Process, rows
  <2>2. Keeps /\ CompletedRecorded' /\ RefundsFollowCompletion'
    BY <2>1, NoSaveKeeps
  <2>3. f.p = p /\ f.row = payment[p] /\ Exists(p) /\ (f.r # None => p \in everCompleted)
    BY <1>4, <1>0, LoadedType DEF Process, TInv
  <2>4. Good("process.risk", f, payment', everCompleted')
    BY <2>1, <2>3 DEF Good, Exists
  <2>5. pc' = [pc EXCEPT ![w] = "process.risk"] /\ frame' = [frame EXCEPT ![w] = f]
    BY <1>4 DEF Process, Begin
  <2> QED  BY <2>2, <2>4, <2>5, GotoGood
<1>5. ASSUME NEW w \in Worker, PaymentTxn(w)
      PROVE  FramesGood' /\ CompletedRecorded' /\ RefundsFollowCompletion'
  <2>1. UNCHANGED <<payment, refund, refunded, everCompleted>> /\ End(w)
    BY <1>5 DEF PaymentTxn, rows, history
  <2> QED  BY <2>1, NoSaveKeeps, EndGood
<1>6. ASSUME NEW w \in Worker, RefundRefused(w)
      PROVE  FramesGood' /\ CompletedRecorded' /\ RefundsFollowCompletion'
  <2>1. UNCHANGED <<payment, refund, refunded, everCompleted>> /\ End(w)
    BY <1>6 DEF RefundRefused, rows, history
  <2> QED  BY <2>1, NoSaveKeeps, EndGood
<1>7. ASSUME NEW w \in Worker, ProcessNotify(w)
      PROVE  FramesGood' /\ CompletedRecorded' /\ RefundsFollowCompletion'
  <2>1. UNCHANGED <<payment, refund, refunded, everCompleted>> /\ End(w)
    BY <1>7 DEF ProcessNotify, rows, history
  <2> QED  BY <2>1, NoSaveKeeps, EndGood
<1>8. ASSUME NEW w \in Worker, ProcessThrow(w)
      PROVE  FramesGood' /\ CompletedRecorded' /\ RefundsFollowCompletion'
  <2>1. UNCHANGED <<payment, refund, refunded, everCompleted>> /\ End(w)
    BY <1>8 DEF ProcessThrow, rows, history
  <2> QED  BY <2>1, NoSaveKeeps, EndGood
<1>9. ASSUME NEW w \in Worker, Abort(w)
      PROVE  FramesGood' /\ CompletedRecorded' /\ RefundsFollowCompletion'
  <2>1. UNCHANGED <<payment, refund, refunded, everCompleted>> /\ End(w)
    BY <1>9 DEF Abort, rows, history
  <2> QED  BY <2>1, NoSaveKeeps, EndGood
<1>10. ASSUME NEW w \in Worker, UpdateRead(w)
      PROVE  FramesGood' /\ CompletedRecorded' /\ RefundsFollowCompletion'
  <2> DEFINE f == [frame[w] EXCEPT !.row = payment[frame[w].p], !.seen = TxnsOf(frame[w].p)]
  <2>1. UNCHANGED <<payment, refund, refunded, everCompleted>> /\ pc[w] = "update.read"
    BY <1>10 DEF UpdateRead, rows, history
  <2>2. Keeps /\ CompletedRecorded' /\ RefundsFollowCompletion'
    BY <2>1, NoSaveKeeps
  <2>3. frame[w] \in Frame /\ frame[w].p \in Payment /\ Good(pc[w], frame[w], payment, everCompleted)
    BY <1>0, <2>1 DEF TInv, TypeOK, FramesOK, FramesGood
  <2>4. f.p = frame[w].p /\ f.r = frame[w].r /\ f.row.amount = payment[f.p].amount /\ f.row.status # "absent"
    BY <2>1, <2>3 DEF Good, NamedLabel, Frame, Row
  <2>5. Good("update.save", f, payment', everCompleted')
    BY <2>1, <2>3, <2>4 DEF Good, NamedLabel, LoadedLabel, RefundLabel
  <2>6. pc' = [pc EXCEPT ![w] = "update.save"] /\ frame' = [frame EXCEPT ![w] = f]
    BY <1>10 DEF UpdateRead, Goto
  <2> QED  BY <2>2, <2>5, <2>6, GotoGood
<1>11. ASSUME NEW w \in Worker, RefundChecked(w)
      PROVE  FramesGood' /\ CompletedRecorded' /\ RefundsFollowCompletion'
  <2> DEFINE f == [frame[w] EXCEPT !.total = refunded[frame[w].p]]
  <2>1. UNCHANGED <<payment, refund, refunded, everCompleted>> /\ pc[w] \in LoadedLabel
    BY <1>11 DEF RefundChecked, rows, history, LoadedLabel, RefundLabel
  <2>2. Keeps /\ CompletedRecorded' /\ RefundsFollowCompletion'
    BY <2>1, NoSaveKeeps
  <2>3. frame[w] \in Frame /\ frame[w].p \in Payment /\ Good(pc[w], frame[w], payment, everCompleted)
    BY <1>0, <2>1 DEF TInv, TypeOK, FramesOK, FramesGood, LoadedLabel, RefundLabel
  <2>4. f.p = frame[w].p /\ f.r = frame[w].r /\ f.row.amount = payment[f.p].amount /\ f.row.status # "absent"
    BY <2>1, <2>3 DEF Good, Frame, Row
  <2>5. Good("refund.save", f, payment', everCompleted')
    BY <2>1, <2>3, <2>4 DEF Good, NamedLabel, LoadedLabel, RefundLabel
  <2>6. pc' = [pc EXCEPT ![w] = "refund.save"] /\ frame' = [frame EXCEPT ![w] = f]
    BY <1>11 DEF RefundChecked, Goto
  <2> QED  BY <2>2, <2>5, <2>6, GotoGood
<1>12. ASSUME NEW w \in Worker, ProcessPi(w)
      PROVE  FramesGood' /\ CompletedRecorded' /\ RefundsFollowCompletion'
  <2> DEFINE f == [frame[w] EXCEPT !.row.status = "processing", !.row.pi = TRUE]
  <2>1. UNCHANGED <<payment, refund, refunded, everCompleted>> /\ pc[w] \in LoadedLabel
    BY <1>12 DEF ProcessPi, rows, history, LoadedLabel, RefundLabel
  <2>2. Keeps /\ CompletedRecorded' /\ RefundsFollowCompletion'
    BY <2>1, NoSaveKeeps
  <2>3. frame[w] \in Frame /\ frame[w].p \in Payment /\ Good(pc[w], frame[w], payment, everCompleted)
    BY <1>0, <2>1 DEF TInv, TypeOK, FramesOK, FramesGood, LoadedLabel, RefundLabel
  <2>4. f.p = frame[w].p /\ f.r = frame[w].r /\ f.row.amount = payment[f.p].amount /\ f.row.status # "absent"
    BY <2>1, <2>3 DEF Good, Frame, Row
  <2>5. Good("process.save", f, payment', everCompleted')
    BY <2>1, <2>3, <2>4 DEF Good, NamedLabel, LoadedLabel, RefundLabel
  <2>6. pc' = [pc EXCEPT ![w] = "process.save"] /\ frame' = [frame EXCEPT ![w] = f]
    BY <1>12 DEF ProcessPi, Goto
  <2> QED  BY <2>2, <2>5, <2>6, GotoGood
<1>13. ASSUME NEW w \in Worker, ProcessError(w)
      PROVE  FramesGood' /\ CompletedRecorded' /\ RefundsFollowCompletion'
  <2> DEFINE f == frame[w]
  <2>1. UNCHANGED <<payment, refund, refunded, everCompleted>> /\ pc[w] \in LoadedLabel
    BY <1>13 DEF ProcessError, rows, history, LoadedLabel, RefundLabel
  <2>2. Keeps /\ CompletedRecorded' /\ RefundsFollowCompletion'
    BY <2>1, NoSaveKeeps
  <2>3. frame[w] \in Frame /\ frame[w].p \in Payment /\ Good(pc[w], frame[w], payment, everCompleted)
    BY <1>0, <2>1 DEF TInv, TypeOK, FramesOK, FramesGood, LoadedLabel, RefundLabel
  <2>4. f.p = frame[w].p /\ f.r = frame[w].r /\ f.row.amount = payment[f.p].amount /\ f.row.status # "absent"
    BY <2>1, <2>3 DEF Good, Frame, Row
  <2>5. Good("process.catch", f, payment', everCompleted')
    BY <2>1, <2>3, <2>4 DEF Good, NamedLabel, LoadedLabel, RefundLabel
  <2>6. pc' = [pc EXCEPT ![w] = "process.catch"] /\ frame' = [frame EXCEPT ![w] = f]
    BY <1>13 DEF ProcessError, Goto
  <2> QED  BY <2>2, <2>5, <2>6, GotoGood
<1>14. ASSUME NEW w \in Worker, RefundSave(w)
      PROVE  FramesGood' /\ CompletedRecorded' /\ RefundsFollowCompletion'
  <2>1. UNCHANGED <<payment, everCompleted>> /\ pc[w] = "refund.save"
    BY <1>14 DEF RefundSave, history
  <2>2. Keeps
    BY <2>1 DEF Keeps, Exists
  <2>3. frame[w].p \in Payment /\ frame[w].r \in Refund /\ Good(pc[w], frame[w], payment, everCompleted)
    BY <1>0, <2>1 DEF TInv, TypeOK, FramesOK, FramesGood, RefundLabel
  <2>4. frame[w].p \in everCompleted
    BY <2>1, <2>3, IdAssumption DEF Good
  <2>5. CompletedRecorded'
    BY <1>14, <1>0, <2>1, <2>3, <2>4 DEF RefundSave, CompletedRecorded, Exists, TInv, TypeOK
  <2>6. RefundsFollowCompletion'
    BY <1>14, <1>0, <2>1, <2>3, <2>4 DEF RefundSave, RefundsFollowCompletion, TInv, TypeOK
  <2>7. Good("refund.txn", frame[w], payment', everCompleted')
    BY <2>1, <2>3 DEF Good, NamedLabel, LoadedLabel, RefundLabel
  <2> QED  BY <1>14, <2>2, <2>5, <2>6, <2>7, GotoGood DEF RefundSave, Goto
<1>15. ASSUME NEW w \in Worker, RefundTxn(w)
      PROVE  FramesGood' /\ CompletedRecorded' /\ RefundsFollowCompletion'
  <2> DEFINE f == [frame[w] EXCEPT !.status = "refunded"]
  <2>1. UNCHANGED <<payment, refund, refunded, everCompleted>> /\ pc[w] = "refund.txn"
    BY <1>15 DEF RefundTxn, history
  <2>2. Keeps /\ CompletedRecorded' /\ RefundsFollowCompletion'
    BY <2>1, NoSaveKeeps
  <2>3. CASE FullyRefunds(frame[w])
    <3>1. frame[w] \in Frame /\ Good(pc[w], frame[w], payment, everCompleted)
      BY <1>0 DEF TInv, TypeOK, FramesGood
    <3>2. f.p = frame[w].p /\ f.r = frame[w].r /\ f.row = frame[w].row
      BY <3>1 DEF Frame
    <3>3. Good("update.read", f, payment', everCompleted')
      BY <2>1, <3>1, <3>2 DEF Good, NamedLabel, LoadedLabel, RefundLabel
    <3> QED  BY <1>15, <2>2, <2>3, <3>3, GotoGood DEF RefundTxn, Goto
  <2>4. CASE ~FullyRefunds(frame[w])
    BY <1>15, <2>2, <2>4, EndGood DEF RefundTxn
  <2> QED  BY <2>3, <2>4
<1>16. ASSUME NEW w \in Worker, UpdateSave(w)
      PROVE  FramesGood' /\ CompletedRecorded' /\ RefundsFollowCompletion'
  <2> DEFINE row == [frame[w].row EXCEPT !.status = frame[w].status]
  <2>1. pc[w] \in LoadedLabel /\ SavePayment(frame[w], row) /\ UNCHANGED <<refund, refunded>>
    BY <1>16 DEF UpdateSave, LoadedLabel
  <2>2. frame[w] \in Frame /\ frame[w].p \in Payment /\ Good(pc[w], frame[w], payment, everCompleted)
    BY <1>0, <2>1 DEF TInv, TypeOK, FramesOK, FramesGood, LoadedLabel, RefundLabel
  <2>3. row \in Row /\ row.status # "absent" /\ row.amount = frame[w].row.amount
    BY <2>1, <2>2 DEF Frame, Row, PaymentStatus, Good
  <2>4. Keeps /\ CompletedRecorded' /\ RefundsFollowCompletion'
    BY <2>1, <2>3, SaveKeeps
  <2> DEFINE f == IF frame[w].next = "idle" THEN NoFrame ELSE frame[w]
  <2>5. Good(pc[w], frame[w], payment', everCompleted')
    BY <2>4, GoodKept
  <2>6. frame[w].next \in ReturnLabel
    BY <2>2 DEF Frame
  <2>7. Good(frame[w].next, f, payment', everCompleted')
    BY <2>1, <2>5, <2>6 DEF Good, NamedLabel, LoadedLabel, RefundLabel, ReturnLabel
  <2>8. pc' = [pc EXCEPT ![w] = frame[w].next] /\ frame' = [frame EXCEPT ![w] = f]
    BY <1>16 DEF UpdateSave, Goto
  <2> QED  BY <2>4, <2>7, <2>8, GotoGood
<1>17. ASSUME NEW w \in Worker, ProcessReject(w)
      PROVE  FramesGood' /\ CompletedRecorded' /\ RefundsFollowCompletion'
  <2> DEFINE row == [frame[w].row EXCEPT !.status = "failed"]
  <2>1. pc[w] \in LoadedLabel /\ SavePayment(frame[w], row) /\ UNCHANGED <<refund, refunded>>
    BY <1>17 DEF ProcessReject, LoadedLabel
  <2>2. frame[w] \in Frame /\ frame[w].p \in Payment /\ Good(pc[w], frame[w], payment, everCompleted)
    BY <1>0, <2>1 DEF TInv, TypeOK, FramesOK, FramesGood, LoadedLabel, RefundLabel
  <2>3. row \in Row /\ row.status # "absent" /\ row.amount = frame[w].row.amount
    BY <2>1, <2>2 DEF Frame, Row, PaymentStatus, Good
  <2>4. Keeps /\ CompletedRecorded' /\ RefundsFollowCompletion'
    BY <2>1, <2>3, SaveKeeps
  <2> QED  BY <1>17, <2>4, EndGood DEF ProcessReject
<1>18. ASSUME NEW w \in Worker, ProcessSave(w)
      PROVE  FramesGood' /\ CompletedRecorded' /\ RefundsFollowCompletion'
  <2> DEFINE row == frame[w].row
  <2>1. pc[w] \in LoadedLabel /\ SavePayment(frame[w], row) /\ UNCHANGED <<refund, refunded>>
    BY <1>18 DEF ProcessSave, LoadedLabel
  <2>2. frame[w] \in Frame /\ frame[w].p \in Payment /\ Good(pc[w], frame[w], payment, everCompleted)
    BY <1>0, <2>1 DEF TInv, TypeOK, FramesOK, FramesGood, LoadedLabel, RefundLabel
  <2>3. row \in Row /\ row.status # "absent" /\ row.amount = frame[w].row.amount
    BY <2>1, <2>2 DEF Frame, Row, PaymentStatus, Good
  <2>4. Keeps /\ CompletedRecorded' /\ RefundsFollowCompletion'
    BY <2>1, <2>3, SaveKeeps
  <2>5. Good(pc[w], frame[w], payment', everCompleted')
    BY <2>4, GoodKept
  <2>6. Good("process.notify", frame[w], payment', everCompleted')
    BY <2>1, <2>5 DEF Good, NamedLabel, LoadedLabel, RefundLabel
  <2> QED  BY <1>18, <2>4, <2>6, GotoGood DEF ProcessSave, Goto
<1>19. ASSUME NEW w \in Worker, ProcessCatch(w)
      PROVE  FramesGood' /\ CompletedRecorded' /\ RefundsFollowCompletion'
  <2> DEFINE row == [frame[w].row EXCEPT !.status = "failed"]
  <2>1. pc[w] \in LoadedLabel /\ SavePayment(frame[w], row) /\ UNCHANGED <<refund, refunded>>
    BY <1>19 DEF ProcessCatch, LoadedLabel
  <2>2. frame[w] \in Frame /\ frame[w].p \in Payment /\ Good(pc[w], frame[w], payment, everCompleted)
    BY <1>0, <2>1 DEF TInv, TypeOK, FramesOK, FramesGood, LoadedLabel, RefundLabel
  <2>3. row \in Row /\ row.status # "absent" /\ row.amount = frame[w].row.amount
    BY <2>1, <2>2 DEF Frame, Row, PaymentStatus, Good
  <2>4. Keeps /\ CompletedRecorded' /\ RefundsFollowCompletion'
    BY <2>1, <2>3, SaveKeeps
  <2>5. Good(pc[w], frame[w], payment', everCompleted')
    BY <2>4, GoodKept
  <2>6. Good("process.throw", frame[w], payment', everCompleted')
    BY <2>1, <2>5 DEF Good, NamedLabel, LoadedLabel, RefundLabel
  <2> QED  BY <1>19, <2>4, <2>6, GotoGood DEF ProcessCatch, Goto
<1>20. ASSUME NEW r \in Refund, NEW s \in RefundWebhookStatus, RefundWebhook(r, s)
      PROVE  FramesGood' /\ CompletedRecorded' /\ RefundsFollowCompletion'
  BY <1>20, <1>0 DEF RefundWebhook, FramesGood, CompletedRecorded, RefundsFollowCompletion,
                    Exists, TInv, TypeOK, RefundRow, history
<1>21. CASE UNCHANGED vars
  BY <1>21, <1>0 DEF FramesGood, CompletedRecorded, RefundsFollowCompletion, Exists,
                    vars, rows, history
<1> QED
  BY <1>1, <1>2, <1>3, <1>4, <1>5, <1>6, <1>7, <1>8, <1>9, <1>10, <1>11, <1>12, <1>13, <1>14, <1>15, <1>16, <1>17, <1>18, <1>19, <1>20, <1>21
     DEF Next, Request, Step, PaymentEndpoints, RefundEndpoints, WebhookEndpoints

LEMMA LInvInit == Init => LInv
<1> SUFFICES ASSUME Init PROVE LInv
  OBVIOUS
<1>1. TInv
  BY TInvInit
<1>2. FramesGood
  BY DEF Init, FramesGood, Good, NamedLabel, LoadedLabel, RefundLabel
<1>3. CompletedRecorded /\ RefundsFollowCompletion
  BY DEF Init, CompletedRecorded, RefundsFollowCompletion, AbsentRow, Exists
<1> QED  BY <1>1, <1>2, <1>3 DEF LInv

LEMMA LInvHolds == Spec => []LInv
  BY LInvInit, LInvStep, PTL DEF Spec

\* A refund row exists only for a payment that has been COMPLETED, however the
\* refund requests interleave with webhooks, processing and crashes.
THEOREM RefundsAfterCompletion == Spec => []RefundsFollowCompletion
<1>1. LInv => RefundsFollowCompletion
  BY DEF LInv
<1> QED  BY <1>1, LInvHolds, PTL
-----------------------------------------------------------------------------
(* The refund bound.  Its inductive form says what a request that has passed *)
(* the amount check may rely on until it saves: on a payment without a race   *)
(* it is the only one there, and the total it read is still the total.        *)

BoundAt(p, pay, sum, at, f) ==
    /\ sum[p] # 0 => sum[p] <= pay[p].amount
    /\ \A w \in Worker : at[w] = "refund.save" /\ f[w].p = p =>
           f[w].total = sum[p] /\ sum[p] + f[w].a <= pay[p].amount
    /\ \A v, w \in Worker :
           /\ at[v] = "refund.save" /\ f[v].p = p
           /\ at[w] = "refund.save" /\ f[w].p = p
           => v = w

RefundBound == \A p \in Payment \ refundRace : BoundAt(p, payment, refunded, pc, frame)

BInv == LInv /\ RefundBound

\* A step that neither checks nor saves a refund.
NoRefundStep ==
    /\ UNCHANGED <<refunded, refundRace>>
    /\ \A w \in Worker : pc'[w] = "refund.save" =>
           pc[w] = "refund.save" /\ frame'[w] = frame[w]

LEMMA StepShape ==
    ASSUME LInv, [Next]_vars
    PROVE  /\ Keeps
           /\ \/ NoRefundStep
              \/ \E w \in Worker : RefundChecked(w) \/ RefundSave(w)
<1> USE DEF LInv, TInv
<1>1. ASSUME NEW w \in Worker, NEW p \in Payment, NEW a \in Amount, CreatePayment(w, p, a)
      PROVE  Keeps /\ NoRefundStep
  BY <1>1 DEF CreatePayment, Begin, Keeps, NoRefundStep, Exists, TypeOK
<1>2. ASSUME NEW w \in Worker, NEW p \in Payment, NEW s \in WebhookStatus, PaymentWebhook(w, p, s)
      PROVE  Keeps /\ NoRefundStep
  BY <1>2 DEF PaymentWebhook, Begin, Keeps, NoRefundStep, Exists, TypeOK, rows
<1>3. ASSUME NEW w \in Worker, NEW p \in Payment, NEW r \in Refund, NEW a \in RefundAmount,
             RefundRequest(w, p, r, a)
      PROVE  Keeps /\ NoRefundStep
  BY <1>3 DEF RefundRequest, Begin, Keeps, NoRefundStep, Exists, TypeOK, rows
<1>4. ASSUME NEW w \in Worker, NEW p \in Payment, Process(w, p)
      PROVE  Keeps /\ NoRefundStep
  BY <1>4 DEF Process, Begin, Keeps, NoRefundStep, Exists, TypeOK, rows
<1>5. ASSUME NEW w \in Worker, PaymentTxn(w) PROVE Keeps /\ NoRefundStep
  BY <1>5 DEF PaymentTxn, Goto, End, history, Keeps, NoRefundStep, Exists, TypeOK
<1>6. ASSUME NEW w \in Worker, UpdateRead(w) PROVE Keeps /\ NoRefundStep
  BY <1>6 DEF UpdateRead, Goto, rows, history, Keeps, NoRefundStep, Exists, TypeOK
<1>7. ASSUME NEW w \in Worker, RefundRefused(w) PROVE Keeps /\ NoRefundStep
  BY <1>7 DEF RefundRefused, Goto, End, rows, history, Keeps, NoRefundStep, Exists, TypeOK
<1>8. ASSUME NEW w \in Worker, RefundTxn(w) PROVE Keeps /\ NoRefundStep
  BY <1>8 DEF RefundTxn, Goto, End, history, Keeps, NoRefundStep, Exists, TypeOK
<1>9. ASSUME NEW w \in Worker, ProcessPi(w) PROVE Keeps /\ NoRefundStep
  BY <1>9 DEF ProcessPi, Goto, history, Keeps, NoRefundStep, Exists, TypeOK
<1>10. ASSUME NEW w \in Worker, ProcessNotify(w) PROVE Keeps /\ NoRefundStep
  BY <1>10 DEF ProcessNotify, Goto, End, rows, history, Keeps, NoRefundStep, Exists, TypeOK
<1>11. ASSUME NEW w \in Worker, ProcessError(w) PROVE Keeps /\ NoRefundStep
  BY <1>11 DEF ProcessError, Goto, rows, history, Keeps, NoRefundStep, Exists, TypeOK
<1>12. ASSUME NEW w \in Worker, ProcessThrow(w) PROVE Keeps /\ NoRefundStep
  BY <1>12 DEF ProcessThrow, Goto, End, rows, history, Keeps, NoRefundStep, Exists, TypeOK
<1>13. ASSUME NEW w \in Worker, Abort(w) PROVE Keeps /\ NoRefundStep
  BY <1>13 DEF Abort, Goto, End, rows, Keeps, NoRefundStep, Exists, TypeOK
<1>14. ASSUME NEW w \in Worker, UpdateSave(w) PROVE Keeps /\ NoRefundStep
  <2> DEFINE row == [frame[w].row EXCEPT !.status = frame[w].status]
  <2>1. pc[w] \in LoadedLabel /\ SavePayment(frame[w], row) /\ UNCHANGED <<refund, refunded>>
    BY <1>14 DEF UpdateSave, LoadedLabel
  <2>2. frame[w] \in Frame /\ Good(pc[w], frame[w], payment, everCompleted)
    BY DEF TypeOK, FramesGood
  <2>3. row \in Row /\ row.status # "absent" /\ row.amount = frame[w].row.amount
    BY <2>1, <2>2 DEF Frame, Row, PaymentStatus, Good
  <2>4. Keeps
    BY <2>1, <2>3, SaveKeeps
  <2>5. NoRefundStep
    BY <1>14, <2>2 DEF UpdateSave, Goto, NoRefundStep, TypeOK, Frame, ReturnLabel
  <2> QED  BY <2>4, <2>5
<1>15. ASSUME NEW w \in Worker, ProcessReject(w) PROVE Keeps /\ NoRefundStep
  <2> DEFINE row == [frame[w].row EXCEPT !.status = "failed"]
  <2>1. pc[w] \in LoadedLabel /\ SavePayment(frame[w], row) /\ UNCHANGED <<refund, refunded>>
    BY <1>15 DEF ProcessReject, LoadedLabel
  <2>2. frame[w] \in Frame /\ Good(pc[w], frame[w], payment, everCompleted)
    BY DEF TypeOK, FramesGood
  <2>3. row \in Row /\ row.status # "absent" /\ row.amount = frame[w].row.amount
    BY <2>1, <2>2 DEF Frame, Row, PaymentStatus, Good
  <2>4. Keeps
    BY <2>1, <2>3, SaveKeeps
  <2>5. NoRefundStep
    BY <1>15, <2>2 DEF ProcessReject, Goto, NoRefundStep, TypeOK, End
  <2> QED  BY <2>4, <2>5
<1>16. ASSUME NEW w \in Worker, ProcessSave(w) PROVE Keeps /\ NoRefundStep
  <2> DEFINE row == frame[w].row
  <2>1. pc[w] \in LoadedLabel /\ SavePayment(frame[w], row) /\ UNCHANGED <<refund, refunded>>
    BY <1>16 DEF ProcessSave, LoadedLabel
  <2>2. frame[w] \in Frame /\ Good(pc[w], frame[w], payment, everCompleted)
    BY DEF TypeOK, FramesGood
  <2>3. row \in Row /\ row.status # "absent" /\ row.amount = frame[w].row.amount
    BY <2>1, <2>2 DEF Frame, Row, PaymentStatus, Good
  <2>4. Keeps
    BY <2>1, <2>3, SaveKeeps
  <2>5. NoRefundStep
    BY <1>16, <2>2 DEF ProcessSave, Goto, NoRefundStep, TypeOK
  <2> QED  BY <2>4, <2>5
<1>17. ASSUME NEW w \in Worker, ProcessCatch(w) PROVE Keeps /\ NoRefundStep
  <2> DEFINE row == [frame[w].row EXCEPT !.status = "failed"]
  <2>1. pc[w] \in LoadedLabel /\ SavePayment(frame[w], row) /\ UNCHANGED <<refund, refunded>>
    BY <1>17 DEF ProcessCatch, LoadedLabel
  <2>2. frame[w] \in Frame /\ Good(pc[w], frame[w], payment, everCompleted)
    BY DEF TypeOK, FramesGood
  <2>3. row \in Row /\ row.status # "absent" /\ row.amount = frame[w].row.amount
    BY <2>1, <2>2 DEF Frame, Row, PaymentStatus, Good
  <2>4. Keeps
    BY <2>1, <2>3, SaveKeeps
  <2>5. NoRefundStep
    BY <1>17, <2>2 DEF ProcessCatch, Goto, NoRefundStep, TypeOK
  <2> QED  BY <2>4, <2>5
<1>18. ASSUME NEW w \in Worker, RefundChecked(w) \/ RefundSave(w) PROVE Keeps
  BY <1>18 DEF RefundChecked, RefundSave, Keeps, Exists, rows, history
<1>19. ASSUME NEW r \in Refund, NEW s \in RefundWebhookStatus, RefundWebhook(r, s)
      PROVE  Keeps /\ NoRefundStep
  BY <1>19 DEF RefundWebhook, Keeps, NoRefundStep, Exists, history
<1>20. CASE UNCHANGED vars
  BY <1>20 DEF Keeps, NoRefundStep, Exists, vars, rows, history
<1> QED
  BY <1>1, <1>2, <1>3, <1>4, <1>5, <1>6, <1>7, <1>8, <1>9, <1>10, <1>11, <1>12, <1>13, <1>14, <1>15, <1>16, <1>17, <1>18, <1>19, <1>20
     DEF Next, Request, Step, PaymentEndpoints, RefundEndpoints, WebhookEndpoints

\* What a request about to save its refund knows of its payment.
LEMMA SavingKnows ==
    ASSUME LInv
    PROVE  /\ \A w \in Worker : pc[w] = "refund.save" =>
                  /\ frame[w].p \in Payment /\ Exists(frame[w].p)
                  /\ frame[w].row.amount = payment[frame[w].p].amount
           /\ \A p \in Payment : refunded[p] # 0 => Exists(p)
<1>1. \A w \in Worker : pc[w] = "refund.save" =>
          /\ frame[w].p \in Payment /\ Exists(frame[w].p)
          /\ frame[w].row.amount = payment[frame[w].p].amount
  BY DEF LInv, TInv, FramesOK, FramesGood, Good, NamedLabel, LoadedLabel, RefundLabel, Exists
<1> QED  BY <1>1 DEF LInv, CompletedRecorded

LEMMA NoRefundKeeps ==
    ASSUME LInv, RefundBound, Keeps, NoRefundStep
    PROVE  RefundBound'
<1> SUFFICES ASSUME NEW p \in Payment \ refundRace
             PROVE  BoundAt(p, payment', refunded, pc', frame')
  BY DEF NoRefundStep, RefundBound
<1>1. BoundAt(p, payment, refunded, pc, frame)
  BY DEF RefundBound
<1>2. refunded[p] # 0 => refunded[p] <= payment'[p].amount
  BY <1>1, SavingKnows DEF BoundAt, Keeps
<1>3. ASSUME NEW w \in Worker, pc'[w] = "refund.save", frame'[w].p = p
      PROVE  /\ pc[w] = "refund.save" /\ frame[w].p = p
             /\ frame'[w].total = refunded[p]
             /\ refunded[p] + frame'[w].a <= payment'[p].amount
  <2>1. pc[w] = "refund.save" /\ frame'[w] = frame[w]
    BY <1>3 DEF NoRefundStep
  <2>2. payment'[p].amount = payment[p].amount
    BY <1>3, <2>1, SavingKnows DEF Keeps
  <2> QED  BY <1>1, <1>3, <2>1, <2>2 DEF BoundAt
<1> QED  BY <1>1, <1>2, <1>3 DEF BoundAt

LEMMA BInvStep == BInv /\ [Next]_vars => BInv'
<1> SUFFICES ASSUME BInv, [Next]_vars PROVE RefundBound'
  BY LInvStep DEF BInv
<1> USE DEF BInv
<1>1. Keeps /\ TypeOK
  BY StepShape DEF LInv, TInv
<1>2. \A w \in Worker : pc[w] = "refund.save" => frame[w].p \in Payment
  BY SavingKnows
<1>3. CASE NoRefundStep
  BY <1>1, <1>3, NoRefundKeeps
<1>4. ASSUME NEW w \in Worker, RefundChecked(w) PROVE RefundBound'
  <2> DEFINE q == frame[w].p
             g == [frame[w] EXCEPT !.total = refunded[q]]
  <2>1. /\ frame[w] \in Frame /\ q \in Payment /\ pc[w] = "refund.check"
        /\ frame[w].row.amount = payment[q].amount
        /\ refunded[q] \in Int /\ payment[q].amount \in Int
    BY <1>1, <1>4 DEF RefundChecked, LInv, TInv, TypeOK, FramesOK, FramesGood, Good,
                      NamedLabel, LoadedLabel, RefundLabel, Row
  <2>2. g.p = q /\ g.a = frame[w].a /\ g.total = refunded[q] /\ g.a \in Int
    BY <2>1 DEF Frame
  <2>3. /\ pc' = [pc EXCEPT ![w] = "refund.save"] /\ frame' = [frame EXCEPT ![w] = g]
        /\ UNCHANGED <<payment, refunded>> /\ ~ExceedsPayment(frame[w])
    BY <1>4 DEF RefundChecked, Goto, rows
  <2>4. refunded[q] + g.a <= payment[q].amount
    BY <2>1, <2>2, <2>3 DEF ExceedsPayment
  <2>5. \A v \in Worker : v # w => pc'[v] = pc[v] /\ frame'[v] = frame[v]
    BY <1>1, <2>3 DEF TypeOK
  <2>6. pc'[w] = "refund.save" /\ frame'[w] = g
    BY <1>1, <2>3 DEF TypeOK
  <2>7. /\ refundRace \subseteq refundRace'
        /\ q \notin refundRace' =>
               \A v \in Worker : ~(pc[v] = "refund.save" /\ frame[v].p = q)
    BY <1>4 DEF RefundChecked, InFlight
  <2>8. ASSUME NEW p \in Payment \ refundRace'
        PROVE  BoundAt(p, payment, refunded, pc', frame')
    <3>1. BoundAt(p, payment, refunded, pc, frame)
      BY <2>7 DEF RefundBound
    <3>2. CASE p = q
      BY <3>1, <3>2, <2>2, <2>4, <2>5, <2>6, <2>7 DEF BoundAt
    <3>3. CASE p # q
      <4>1. frame'[w].p # p
        BY <3>3, <2>2, <2>6
      <4>2. \A v \in Worker : pc'[v] = "refund.save" /\ frame'[v].p = p =>
                pc[v] = "refund.save" /\ frame'[v] = frame[v]
        BY <4>1, <2>5
      <4> HIDE DEF q, g
      <4> QED  BY <3>1, <4>2 DEF BoundAt
    <3> QED  BY <3>2, <3>3
  <2> QED  BY <2>3, <2>8 DEF RefundBound
<1>5. ASSUME NEW w \in Worker, RefundSave(w) PROVE RefundBound'
  <2> DEFINE q == frame[w].p
  <2>1. /\ pc[w] = "refund.save" /\ q \in Payment /\ frame[w].a \in Int /\ refunded[q] \in Int
    BY <1>1, <1>2, <1>5 DEF RefundSave, TypeOK, Frame
  <2>2. /\ pc' = [pc EXCEPT ![w] = "refund.txn"] /\ frame' = [frame EXCEPT ![w] = frame[w]]
        /\ refunded' = [refunded EXCEPT ![q] = @ + frame[w].a]
        /\ UNCHANGED <<payment, refundRace>>
    BY <1>5 DEF RefundSave, Goto, history
  <2>3. frame' = frame /\ pc'[w] = "refund.txn" /\ \A v \in Worker : v # w => pc'[v] = pc[v]
    BY <1>1, <2>2 DEF TypeOK
  <2>4. ASSUME NEW p \in Payment \ refundRace
        PROVE  BoundAt(p, payment, refunded', pc', frame)
    <3>1. BoundAt(p, payment, refunded, pc, frame)
      BY DEF RefundBound
    <3>2. CASE p = q
      <4>1. refunded'[p] = refunded[p] + frame[w].a
        BY <1>1, <2>1, <2>2, <3>2 DEF TypeOK
      <4>2. refunded'[p] <= payment[p].amount
        BY <2>1, <3>1, <3>2, <4>1 DEF BoundAt
      <4>3. \A v \in Worker : ~(pc'[v] = "refund.save" /\ frame[v].p = p)
        BY <2>1, <2>3, <3>1, <3>2 DEF BoundAt
      <4> QED  BY <4>2, <4>3 DEF BoundAt
    <3>3. CASE p # q
      <4>1. refunded'[p] = refunded[p]
        BY <1>1, <2>2, <3>3 DEF TypeOK
      <4> QED  BY <2>3, <3>1, <3>3, <4>1 DEF BoundAt
    <3> QED  BY <3>2, <3>3
  <2> QED  BY <2>2, <2>3, <2>4 DEF RefundBound
<1> QED
  BY StepShape, <1>3, <1>4, <1>5

LEMMA BInvInit == Init => BInv
<1> SUFFICES ASSUME Init PROVE RefundBound
  BY LInvInit DEF BInv
<1> QED  BY DEF Init, RefundBound, BoundAt

\* Unless two refunds of a payment passed their check before either was saved,
\* the payment's refunds never exceed its amount: for any number of requests,
\* refunds and payments, amounts of any sign, and any crashes and webhooks.
THEOREM RefundsStayWithinPayment == Spec => []RefundsWithinPayment
<1>1. Init => BInv
  BY BInvInit
<1>2. BInv /\ [Next]_vars => BInv'
  BY BInvStep
<1>3. BInv => RefundsWithinPayment
  BY DEF BInv, RefundBound, BoundAt, RefundsWithinPayment
<1> QED  BY <1>1, <1>2, <1>3, PTL DEF Spec
-----------------------------------------------------------------------------
(* A step of a request concerns the request's own payment: what it leaves    *)
(* alone of the other payments, and of the other requests.                   *)

RequestOn(w, p) ==
    \/ PaymentEndpoints(w, p) \/ RefundEndpoints(w, p) \/ WebhookEndpoints(w, p)
    \/ Process(w, p)

OthersStay(w) == \A v \in Worker : v # w => pc'[v] = pc[v] /\ frame'[v] = frame[v]

Starts(w, p) ==
    /\ pc[w] = "idle" /\ pc'[w] # "idle" /\ frame'[w].p = p
    /\ OthersStay(w)
    /\ contended' = IF InFlight(p) = {} THEN contended ELSE contended \cup {p}

Continues(w) ==
    /\ pc[w] # "idle" /\ (pc'[w] = "idle" \/ frame'[w].p = frame[w].p)
    /\ OthersStay(w)
    /\ UNCHANGED contended

\* The payment, its requests in flight and its history are as they were.
Kept(p) ==
    /\ payment'[p] = payment[p] /\ refunded'[p] = refunded[p]
    /\ \A v \in Worker : pc'[v] # "idle" /\ frame'[v].p = p <=> v \in InFlight(p)
    /\ \A v \in InFlight(p) : pc'[v] = pc[v] /\ frame'[v] = frame[v]
    /\ p \in contended' <=> p \in contended
    /\ p \in refundRace' <=> p \in refundRace
    /\ p \in aborted' <=> p \in aborted
    /\ p \in piAnswered' <=> p \in piAnswered
    /\ p \in everRefunded' <=> p \in everRefunded

LEMMA BeginStarts ==
    ASSUME TInv, NEW w \in Worker, NEW label \in Label \ {"idle"}, NEW f \in Frame,
           f.p \in Payment, Begin(w, label, f)
    PROVE  /\ Starts(w, f.p)
           /\ \A p \in Payment \ {f.p} :
                  /\ \A v \in Worker : pc'[v] # "idle" /\ frame'[v].p = p <=> v \in InFlight(p)
                  /\ \A v \in InFlight(p) : pc'[v] = pc[v] /\ frame'[v] = frame[v]
                  /\ p \in contended' <=> p \in contended
  BY DEF TInv, TypeOK, Begin, Starts, OthersStay, InFlight

LEMMA GotoContinues ==
    ASSUME TInv, NEW w \in Worker, NEW label, NEW f, Goto(w, label, f), pc[w] # "idle",
           label = "idle" \/ f.p = frame[w].p
    PROVE  /\ OthersStay(w) /\ pc'[w] = label /\ frame'[w] = f
           /\ \A p \in Payment \ {frame[w].p} :
                  /\ \A v \in Worker : pc'[v] # "idle" /\ frame'[v].p = p <=> v \in InFlight(p)
                  /\ \A v \in InFlight(p) : pc'[v] = pc[v] /\ frame'[v] = frame[v]
  BY DEF TInv, TypeOK, Goto, OthersStay, InFlight

LEMMA SaveLocal ==
    ASSUME TInv, NEW f, f.p \in Payment, NEW row, SavePayment(f, row)
    PROVE  \A p \in Payment \ {f.p} :
               payment'[p] = payment[p] /\ (p \in everRefunded' <=> p \in everRefunded)
  BY DEF TInv, TypeOK, SavePayment

LEMMA RequestIsLocal ==
    ASSUME TInv, NEW w \in Worker, NEW q \in Payment, RequestOn(w, q)
    PROVE  Starts(w, q) /\ \A p \in Payment \ {q} : Kept(p)
<1>1. ASSUME NEW a \in Amount, CreatePayment(w, q, a)
      PROVE  Starts(w, q) /\ \A p \in Payment \ {q} : Kept(p)
  <2> DEFINE f == [NoFrame EXCEPT !.p = q]
  <2>1. f \in Frame /\ f.p = q /\ "payment.txn" \in Label \ {"idle"}
    BY NoFrameType DEF Frame, NoFrame, Label
  <2>2. Begin(w, "payment.txn", f)
    BY <1>1 DEF CreatePayment
  <2> HIDE DEF f
  <2>3. \A p \in Payment \ {q} : payment'[p] = payment[p]
    BY <1>1 DEF CreatePayment, TInv, TypeOK
  <2> QED  BY <1>1, <2>1, <2>2, <2>3, BeginStarts DEF CreatePayment, Kept
<1>2. ASSUME NEW s \in WebhookStatus, PaymentWebhook(w, q, s)
      PROVE  Starts(w, q) /\ \A p \in Payment \ {q} : Kept(p)
  <2> DEFINE f == [Loaded(q) EXCEPT !.status = s]
  <2>1. f \in Frame /\ f.p = q /\ "update.save" \in Label \ {"idle"}
    BY LoadedType, WebhookAssumption DEF Frame, MappedStatus, Label, TInv
  <2>2. Begin(w, "update.save", f)
    BY <1>2 DEF PaymentWebhook
  <2> HIDE DEF f
  <2> QED  BY <1>2, <2>1, <2>2, BeginStarts DEF PaymentWebhook, Kept, rows
<1>3. ASSUME NEW r \in Refund, NEW a \in RefundAmount, RefundRequest(w, q, r, a)
      PROVE  Starts(w, q) /\ \A p \in Payment \ {q} : Kept(p)
  <2> DEFINE f == [Loaded(q) EXCEPT !.r = r, !.a = a]
  <2>1. Loaded(q) \in Frame /\ Loaded(q).p = q /\ a \in Int
    BY LoadedType, AmountAssumption DEF TInv
  <2>2. f \in Frame /\ f.p = q /\ "refund.check" \in Label \ {"idle"}
    BY <2>1 DEF Frame, Label
  <2>3. Begin(w, "refund.check", f)
    BY <1>3 DEF RefundRequest
  <2> HIDE DEF f
  <2> QED  BY <1>3, <2>2, <2>3, BeginStarts DEF RefundRequest, Kept, rows
<1>4. ASSUME Process(w, q)
      PROVE  Starts(w, q) /\ \A p \in Payment \ {q} : Kept(p)
  <2>1. Loaded(q) \in Frame /\ Loaded(q).p = q /\ "process.risk" \in Label \ {"idle"}
    BY LoadedType DEF TInv, Label
  <2>2. Begin(w, "process.risk", Loaded(q))
    BY <1>4 DEF Process
  <2> QED  BY <1>4, <2>1, <2>2, BeginStarts DEF Process, Kept, rows
<1> QED
  BY <1>1, <1>2, <1>3, <1>4
     DEF RequestOn, PaymentEndpoints, RefundEndpoints, WebhookEndpoints

LEMMA StepIsLocal ==
    ASSUME TInv, NEW w \in Worker, Step(w) \/ Abort(w)
    PROVE  Continues(w) /\ \A p \in Payment \ {frame[w].p} : Kept(p)
<1> DEFINE Local == Continues(w) /\ \A p \in Payment \ {frame[w].p} : Kept(p)
<1>0. frame[w] \in Frame /\ (pc[w] # "idle" => frame[w].p \in Payment)
  BY DEF TInv, TypeOK, FramesOK
<1>1. CASE PaymentTxn(w)
  BY <1>1, <1>0, GotoContinues DEF PaymentTxn, End, Kept, Continues, history
<1>2. CASE UpdateRead(w)
  <2> DEFINE f == [frame[w] EXCEPT !.row = payment[frame[w].p], !.seen = TxnsOf(frame[w].p)]
  <2>1. f.p = frame[w].p /\ Goto(w, "update.save", f)
    BY <1>2, <1>0 DEF UpdateRead, Frame
  <2> HIDE DEF f
  <2> QED  BY <1>2, <1>0, <2>1, GotoContinues DEF UpdateRead, Kept, Continues, rows, history
<1>3. CASE UpdateSave(w)
  <2> DEFINE row == [frame[w].row EXCEPT !.status = frame[w].status]
             f == IF frame[w].next = "idle" THEN NoFrame ELSE frame[w]
  <2>1. SavePayment(frame[w], row) /\ Goto(w, frame[w].next, f)
    BY <1>3 DEF UpdateSave
  <2>2. frame[w].next = "idle" \/ f.p = frame[w].p
    OBVIOUS
  <2> HIDE DEF f, row
  <2> QED  BY <1>3, <1>0, <2>1, <2>2, GotoContinues, SaveLocal DEF UpdateSave, Kept, Continues
<1>4. CASE RefundRefused(w)
  BY <1>4, <1>0, GotoContinues DEF RefundRefused, End, Kept, Continues, rows, history
<1>5. CASE RefundChecked(w)
  <2> DEFINE f == [frame[w] EXCEPT !.total = refunded[frame[w].p]]
  <2>1. f.p = frame[w].p /\ Goto(w, "refund.save", f)
    BY <1>5, <1>0 DEF RefundChecked, Frame
  <2>2. \A p \in Payment \ {frame[w].p} : p \in refundRace' <=> p \in refundRace
    BY <1>5 DEF RefundChecked
  <2> HIDE DEF f
  <2> QED  BY <1>5, <1>0, <2>1, <2>2, GotoContinues DEF RefundChecked, Kept, Continues, rows
<1>6. CASE RefundSave(w)
  <2>1. \A p \in Payment \ {frame[w].p} : refunded'[p] = refunded[p]
    BY <1>6 DEF RefundSave, TInv, TypeOK
  <2> QED  BY <1>6, <1>0, <2>1, GotoContinues DEF RefundSave, Kept, Continues, history
<1>7. CASE RefundTxn(w)
  <2> DEFINE f == [frame[w] EXCEPT !.status = "refunded"]
  <2>1. f.p = frame[w].p
    BY <1>0 DEF Frame
  <2>2. Goto(w, "update.read", f) \/ Goto(w, "idle", NoFrame)
    BY <1>7 DEF RefundTxn, End
  <2> HIDE DEF f
  <2> QED  BY <1>7, <1>0, <2>1, <2>2, GotoContinues DEF RefundTxn, Kept, Continues, history
<1>8. CASE ProcessReject(w)
  <2> DEFINE row == [frame[w].row EXCEPT !.status = "failed"]
  <2>1. SavePayment(frame[w], row) /\ Goto(w, "idle", NoFrame)
    BY <1>8 DEF ProcessReject, End
  <2> HIDE DEF row
  <2> QED  BY <1>8, <1>0, <2>1, GotoContinues, SaveLocal DEF ProcessReject, Kept, Continues
<1>9. CASE ProcessPi(w)
  <2> DEFINE f == [frame[w] EXCEPT !.row.status = "processing", !.row.pi = TRUE]
  <2>1. f.p = frame[w].p /\ Goto(w, "process.save", f)
    BY <1>9, <1>0 DEF ProcessPi, Frame
  <2> HIDE DEF f
  <2> QED  BY <1>9, <1>0, <2>1, GotoContinues DEF ProcessPi, Kept, Continues, history
<1>10. CASE ProcessSave(w)
  BY <1>10, <1>0, GotoContinues, SaveLocal DEF ProcessSave, Kept, Continues
<1>11. CASE ProcessNotify(w)
  BY <1>11, <1>0, GotoContinues DEF ProcessNotify, End, Kept, Continues, rows, history
<1>12. CASE ProcessError(w)
  BY <1>12, <1>0, GotoContinues DEF ProcessError, Kept, Continues, rows, history
<1>13. CASE ProcessCatch(w)
  <2> DEFINE row == [frame[w].row EXCEPT !.status = "failed"]
  <2>1. SavePayment(frame[w], row) /\ Goto(w, "process.throw", frame[w])
    BY <1>13 DEF ProcessCatch
  <2> HIDE DEF row
  <2> QED  BY <1>13, <1>0, <2>1, GotoContinues, SaveLocal DEF ProcessCatch, Kept, Continues
<1>14. CASE ProcessThrow(w)
  BY <1>14, <1>0, GotoContinues DEF ProcessThrow, End, Kept, Continues, rows, history
<1>15. CASE Abort(w)
  BY <1>15, <1>0, GotoContinues DEF Abort, End, Kept, Continues, rows
<1> QED
  BY <1>1, <1>2, <1>3, <1>4, <1>5, <1>6, <1>7, <1>8, <1>9, <1>10, <1>11, <1>12, <1>13, <1>14, <1>15
     DEF Step

\* The other two kinds of step concern no request at all.
LEMMA OtherStepKeeps ==
    ASSUME TInv,
           UNCHANGED vars \/ \E r \in Refund, s \in RefundWebhookStatus : RefundWebhook(r, s)
    PROVE  UNCHANGED <<pc, frame, contended>> /\ \A p \in Payment : Kept(p)
  BY DEF RefundWebhook, Kept, InFlight, vars, rows, history

LEMMA NextSplit ==
    ASSUME [Next]_vars
    PROVE  \/ \E w \in Worker, p \in Payment : RequestOn(w, p)
           \/ \E w \in Worker : Step(w) \/ Abort(w)
           \/ UNCHANGED vars \/ \E r \in Refund, s \in RefundWebhookStatus : RefundWebhook(r, s)
  BY DEF Next, Request, RequestOn
-----------------------------------------------------------------------------
(* On a payment without contention at most one request is in flight.         *)

Alone == \A p \in Payment \ contended : \A v, w \in InFlight(p) : v = w

LEMMA AloneKept ==
    ASSUME Alone,
           \/ \E w \in Worker, p \in Payment : Starts(w, p)
           \/ \E w \in Worker : Continues(w)
           \/ UNCHANGED <<pc, frame, contended>>
    PROVE  Alone'
<1>1. CASE UNCHANGED <<pc, frame, contended>>
  BY <1>1 DEF Alone, InFlight
<1>2. CASE \E w \in Worker : Continues(w)
  BY <1>2 DEF Alone, InFlight, Continues, OthersStay
<1>3. CASE \E w \in Worker, p \in Payment : Starts(w, p)
  BY <1>3 DEF Alone, InFlight, Starts, OthersStay
<1> QED  BY <1>1, <1>2, <1>3

LEMMA AloneStep == TInv /\ Alone /\ [Next]_vars => Alone'
  BY NextSplit, RequestIsLocal, StepIsLocal, OtherStepKeeps, AloneKept
-----------------------------------------------------------------------------
(* A refund id is held by one request from the check to the transaction: its *)
(* row appears when that request saves it, and belongs to its payment.       *)

HoldsFresh(label, f, table) ==
    /\ label \in {"refund.check", "refund.save"} => table[f.r].payment = None
    /\ label = "refund.txn" => table[f.r].payment = f.p

Holders ==
    /\ \A v, w \in Worker : frame[v].r # None /\ frame[v].r = frame[w].r => v = w
    /\ \A w \in Worker : HoldsFresh(pc[w], frame[w], refund)
    /\ \A r \in Refund : /\ refund[r].status = "absent" => refund[r].payment = None
                         /\ r \in detached => refund[r].payment # None

HInv == TInv /\ Holders

\* A step that saves no refund.
LEMMA HoldersMove ==
    ASSUME HInv, UNCHANGED refund, NEW w \in Worker, OthersStay(w),
           frame'[w].r \in {frame[w].r, None} \/ \A v \in Worker : frame[v].r # frame'[w].r,
           HoldsFresh(pc'[w], frame'[w], refund),
           \A r \in Refund : r \in detached' => r \in detached \/ refund[r].payment # None
    PROVE  Holders'
<1>1. \A u, v \in Worker : frame'[u].r # None /\ frame'[u].r = frame'[v].r => u = v
  BY DEF HInv, Holders, OthersStay
<1>2. \A v \in Worker : HoldsFresh(pc'[v], frame'[v], refund)
  BY DEF HInv, Holders, OthersStay
<1> QED  BY <1>1, <1>2 DEF HInv, Holders

LEMMA SaveDetaches ==
    ASSUME TInv, NEW f, f.p \in Payment, NEW row, SavePayment(f, row)
    PROVE  \A x \in detached' : x \in detached \/ x \in Owed(f.p)
  BY DEF SavePayment, TxnsOf, Owed

LEMMA OwedRefund ==
    ASSUME TInv, NEW p \in Payment, NEW r \in Refund, r \in Owed(p)
    PROVE  refund[r].payment = p /\ refund[r].payment # None
  BY IdAssumption DEF Owed

LEMMA HoldersStep == HInv /\ [Next]_vars => Holders'
<1> SUFFICES ASSUME HInv, [Next]_vars PROVE Holders'
  OBVIOUS
<1>0. TInv /\ TypeOK /\ \A v \in Worker : frame[v] \in Frame
  BY DEF HInv, TInv, TypeOK
<1>1. ASSUME NEW w \in Worker, NEW q \in Payment, RequestOn(w, q) PROVE Holders'
  <2>0. OthersStay(w)
    BY <1>0, <1>1, RequestIsLocal DEF Starts
  <2>1. ASSUME NEW a \in Amount, CreatePayment(w, q, a) PROVE Holders'
    <3>1. frame'[w] = [NoFrame EXCEPT !.p = q] /\ pc'[w] = "payment.txn"
      BY <1>0, <2>1 DEF CreatePayment, Begin, TypeOK
    <3>2. frame'[w].r = None
      BY <3>1 DEF NoFrame
    <3> QED  BY <2>0, <2>1, <3>1, <3>2, HoldersMove DEF CreatePayment, HoldsFresh
  <2>2. ASSUME NEW s \in WebhookStatus, PaymentWebhook(w, q, s) PROVE Holders'
    <3>1. frame'[w] = [Loaded(q) EXCEPT !.status = s] /\ pc'[w] = "update.save"
      BY <1>0, <2>2 DEF PaymentWebhook, Begin, TypeOK
    <3>2. frame'[w].r = None
      BY <1>0, <3>1, LoadedType DEF Frame
    <3> QED  BY <2>0, <2>2, <3>1, <3>2, HoldersMove DEF PaymentWebhook, rows, HoldsFresh
  <2>3. ASSUME NEW r \in Refund, NEW a \in RefundAmount, RefundRequest(w, q, r, a)
        PROVE  Holders'
    <3>1. frame'[w] = [Loaded(q) EXCEPT !.r = r, !.a = a] /\ pc'[w] = "refund.check"
      BY <1>0, <2>3 DEF RefundRequest, Begin, TypeOK
    <3>2. frame'[w].r = r
      BY <1>0, <3>1, LoadedType DEF Frame
    <3>3. refund[r].payment = None /\ \A v \in Worker : frame[v].r # r
      BY <2>3 DEF RefundRequest, FreshRefund, HInv, Holders
    <3> QED  BY <2>0, <2>3, <3>1, <3>2, <3>3, HoldersMove DEF RefundRequest, rows, HoldsFresh
  <2>4. ASSUME Process(w, q) PROVE Holders'
    <3>1. frame'[w] = Loaded(q) /\ pc'[w] = "process.risk"
      BY <1>0, <2>4 DEF Process, Begin, TypeOK
    <3>2. frame'[w].r = None
      BY <1>0, <3>1, LoadedType
    <3> QED  BY <2>0, <2>4, <3>1, <3>2, HoldersMove DEF Process, rows, HoldsFresh
  <2> QED
    BY <1>1, <2>1, <2>2, <2>3, <2>4
       DEF RequestOn, PaymentEndpoints, RefundEndpoints, WebhookEndpoints
<1>2. ASSUME NEW w \in Worker, Step(w) \/ Abort(w) PROVE Holders'
  <2>0. OthersStay(w) /\ pc[w] # "idle" /\ frame[w].p \in Payment /\ NoFrame.r = None
    BY <1>0, <1>2, StepIsLocal DEF Continues, TInv, FramesOK, NoFrame
  <2>1. CASE PaymentTxn(w) \/ RefundRefused(w) \/ ProcessNotify(w) \/ ProcessThrow(w) \/ Abort(w)
    <3>1. pc'[w] = "idle" /\ frame'[w] = NoFrame /\ UNCHANGED <<refund, detached>>
      BY <1>0, <2>1 DEF PaymentTxn, RefundRefused, ProcessNotify, ProcessThrow, Abort, End, Goto,
                        rows, TypeOK
    <3> QED  BY <2>0, <3>1, HoldersMove DEF HoldsFresh
  <2>2. CASE UpdateRead(w)
    <3>1. pc'[w] = "update.save"
          /\ frame'[w] = [frame[w] EXCEPT !.row = payment[frame[w].p], !.seen = TxnsOf(frame[w].p)]
          /\ UNCHANGED <<refund, detached>>
      BY <1>0, <2>2 DEF UpdateRead, Goto, rows, TypeOK
    <3>2. frame'[w].r = frame[w].r
      BY <1>0, <3>1 DEF Frame
    <3> QED  BY <2>0, <3>1, <3>2, HoldersMove DEF HoldsFresh
  <2>3. CASE ProcessPi(w) \/ ProcessError(w)
    <3>1. pc'[w] \in {"process.save", "process.catch"} /\ UNCHANGED <<refund, detached>>
      BY <1>0, <2>3 DEF ProcessPi, ProcessError, Goto, rows, TypeOK
    <3>2. frame'[w].r = frame[w].r
      BY <1>0, <2>3 DEF ProcessPi, ProcessError, Goto, TypeOK, Frame
    <3> QED  BY <2>0, <3>1, <3>2, HoldersMove DEF HoldsFresh
  <2>4. CASE UpdateSave(w) \/ ProcessReject(w) \/ ProcessSave(w) \/ ProcessCatch(w)
    <3>1. PICK row : SavePayment(frame[w], row)
      BY <2>4 DEF UpdateSave, ProcessReject, ProcessSave, ProcessCatch
    <3>2. pc'[w] \in {"idle", "resolve.save", "process.notify", "process.throw"}
          /\ frame'[w].r \in {frame[w].r, None} /\ UNCHANGED refund
      BY <1>0, <2>0, <2>4 DEF UpdateSave, ProcessReject, ProcessSave, ProcessCatch, End, Goto,
                              TypeOK, Frame, ReturnLabel
    <3>3. \A r \in Refund : r \in detached' => r \in detached \/ refund[r].payment # None
      BY <1>0, <2>0, <3>1, SaveDetaches, OwedRefund
    <3> QED  BY <2>0, <3>2, <3>3, HoldersMove DEF HoldsFresh
  <2>5. CASE RefundChecked(w)
    <3>1. pc'[w] = "refund.save" /\ pc[w] = "refund.check"
          /\ frame'[w] = [frame[w] EXCEPT !.total = refunded[frame[w].p]]
          /\ UNCHANGED <<refund, detached>>
      BY <1>0, <2>5 DEF RefundChecked, Goto, rows, TypeOK
    <3>2. frame'[w].r = frame[w].r
      BY <1>0, <3>1 DEF Frame
    <3>3. HoldsFresh(pc[w], frame[w], refund)
      BY DEF HInv, Holders
    <3> QED  BY <2>0, <3>1, <3>2, <3>3, HoldersMove DEF HoldsFresh
  <2>6. CASE RefundTxn(w)
    <3>1. pc'[w] \in {"update.read", "idle"} /\ UNCHANGED <<refund, detached>>
          /\ frame'[w].r \in {frame[w].r, None}
      BY <1>0, <2>0, <2>6 DEF RefundTxn, Goto, End, TypeOK, Frame
    <3> QED  BY <2>0, <3>1, HoldersMove DEF HoldsFresh
  <2>7. CASE RefundSave(w)
    <3> DEFINE r == frame[w].r
               row == [payment |-> frame[w].p, amount |-> frame[w].a, status |-> "pending"]
    <3>1. /\ pc[w] = "refund.save" /\ r \in Refund /\ r # None
          /\ refund' = [refund EXCEPT ![r] = row] /\ detached' = detached
          /\ pc' = [pc EXCEPT ![w] = "refund.txn"] /\ frame' = [frame EXCEPT ![w] = frame[w]]
      BY <2>7, IdAssumption DEF RefundSave, Goto, HInv, TInv, FramesOK, RefundLabel
    <3>2. frame' = frame /\ pc'[w] = "refund.txn" /\ refund'[r] = row
          /\ \A x \in Refund : x # r => refund'[x] = refund[x]
      BY <1>0, <3>1 DEF TypeOK
    <3>3. row.payment = frame[w].p /\ row.status = "pending" /\ frame[w].p # None
      BY <2>0, IdAssumption
    <3>4. ASSUME NEW v \in Worker PROVE HoldsFresh(pc'[v], frame[v], refund')
      <4>1. CASE v = w
        BY <3>2, <3>3, <4>1 DEF HoldsFresh
      <4>2. CASE v # w
        <5>1. pc'[v] = pc[v] /\ HoldsFresh(pc[v], frame[v], refund)
          BY <1>0, <2>0, <4>2 DEF OthersStay, HInv, Holders
        <5>2. pc[v] \in RefundLabel => frame[v].r \in Refund /\ frame[v].r # None
          BY <1>0, IdAssumption DEF TInv, FramesOK
        <5>3. pc[v] \in RefundLabel => frame[v].r # r
          BY <3>1, <4>2, <5>2 DEF HInv, Holders
        <5> QED  BY <3>2, <5>1, <5>2, <5>3 DEF HoldsFresh, RefundLabel
      <4> QED  BY <4>1, <4>2
    <3>5. \A x \in Refund : /\ refund'[x].status = "absent" => refund'[x].payment = None
                            /\ x \in detached' => refund'[x].payment # None
      BY <3>1, <3>2, <3>3 DEF HInv, Holders
    <3> HIDE DEF r, row
    <3> QED  BY <3>2, <3>4, <3>5 DEF HInv, Holders
  <2> QED
    BY <1>2, <2>1, <2>2, <2>3, <2>4, <2>5, <2>6, <2>7 DEF Step
<1>3. CASE UNCHANGED vars
  BY <1>3 DEF HInv, Holders, vars, rows
<1>4. ASSUME NEW r \in Refund, NEW s \in RefundWebhookStatus, RefundWebhook(r, s)
      PROVE  Holders'
  <2>1. /\ refund'[r].payment = refund[r].payment /\ refund'[r].status = s
        /\ refund[r].status # "absent" /\ s # "absent"
        /\ \A x \in Refund : x # r => refund'[x] = refund[x]
        /\ UNCHANGED <<pc, frame, detached>>
    BY <1>0, <1>4, WebhookAssumption DEF RefundWebhook, TypeOK, RefundRow, RefundStatus
  <2>2. \A v \in Worker : pc[v] \in RefundLabel => frame[v].r \in Refund
    BY <1>0 DEF TInv, FramesOK
  <2>3. \A x \in Refund : refund'[x].payment = refund[x].payment
    BY <2>1
  <2>4. \A v \in Worker : HoldsFresh(pc[v], frame[v], refund')
    BY <2>2, <2>3 DEF HoldsFresh, HInv, Holders, RefundLabel
  <2> QED  BY <2>1, <2>3, <2>4 DEF HInv, Holders
<1> QED  BY <1>1, <1>2, <1>3, <1>4, NextSplit

LEMMA HInvStep == HInv /\ [Next]_vars => HInv'
  BY TInvStep, HoldersStep DEF HInv

LEMMA HInvInit == Init => HInv
<1> SUFFICES ASSUME Init PROVE Holders
  BY TInvInit DEF HInv
<1>1. NoFrame.r = None
  BY DEF NoFrame
<1> QED  BY <1>1 DEF Init, Holders, HoldsFresh
-----------------------------------------------------------------------------
(* What the ledger owes a payment, and what it holds of it, is touched by    *)
(* the payment's own requests only.                                          *)

LedgerKept(p) ==
    /\ Owed(p)' = Owed(p)
    /\ \A x \in Owed(p) : /\ x \in txn' <=> x \in txn
                          /\ x \in detached' <=> x \in detached

LEMMA OwedApart ==
    ASSUME NEW p \in Payment, NEW q \in Payment, p # q
    PROVE  Owed(p) \cap Owed(q) = {}
  BY IdAssumption DEF Owed

LEMMA LedgerLocal ==
    ASSUME HInv, NEW w \in Worker, Step(w) \/ Abort(w), NEW p \in Payment \ {frame[w].p}
    PROVE  LedgerKept(p)
<1>0. TypeOK /\ frame[w] \in Frame /\ pc[w] # "idle" /\ frame[w].p \in Payment
      /\ frame[w].p \notin Owed(p)
  BY OwedApart, StepIsLocal DEF HInv, TInv, TypeOK, FramesOK, Continues, Owed
<1>1. CASE PaymentTxn(w)
  BY <1>0, <1>1 DEF PaymentTxn, LedgerKept, Owed
<1>2. CASE RefundTxn(w)
  <2>1. frame[w].r \notin Owed(p)
    <3>1. pc[w] = "refund.txn" /\ frame[w].r \in Refund
      BY <1>2 DEF RefundTxn, HInv, TInv, FramesOK, RefundLabel
    <3>2. refund[frame[w].r].payment = frame[w].p
      BY <3>1 DEF HInv, Holders, HoldsFresh
    <3> QED  BY <3>1, <3>2, IdAssumption DEF Owed
  <2>2. UNCHANGED <<refund, detached>> /\ txn' = txn \cup {frame[w].r}
    BY <1>2 DEF RefundTxn
  <2> QED  BY <2>1, <2>2 DEF LedgerKept, Owed
<1>3. CASE RefundSave(w)
  <2> DEFINE r == frame[w].r
             row == [payment |-> frame[w].p, amount |-> frame[w].a, status |-> "pending"]
  <2>1. r \in Refund /\ refund[r].payment = None /\ refund' = [refund EXCEPT ![r] = row]
        /\ UNCHANGED <<txn, detached>>
    BY <1>3 DEF RefundSave, HInv, TInv, FramesOK, RefundLabel, Holders, HoldsFresh
  <2>2. refund'[r].payment = frame[w].p /\ \A x \in Refund : x # r => refund'[x] = refund[x]
    BY <1>0, <2>1 DEF TypeOK
  <2>3. Owed(p)' = Owed(p)
    BY <2>1, <2>2, IdAssumption DEF Owed
  <2> QED  BY <2>1, <2>3 DEF LedgerKept
<1>4. CASE UpdateSave(w) \/ ProcessReject(w) \/ ProcessSave(w) \/ ProcessCatch(w)
  <2>1. PICK row : SavePayment(frame[w], row)
    BY <1>4 DEF UpdateSave, ProcessReject, ProcessSave, ProcessCatch
  <2>2. UNCHANGED <<refund, txn>> /\ detached \subseteq detached'
    BY <1>4, <2>1 DEF UpdateSave, ProcessReject, ProcessSave, ProcessCatch, SavePayment
  <2>3. \A x \in Owed(p) : x \in detached' => x \in detached
    BY <1>0, <2>1, SaveDetaches, OwedApart DEF HInv
  <2> QED  BY <2>2, <2>3 DEF LedgerKept, Owed
<1>5. CASE \/ UpdateRead(w) \/ RefundRefused(w) \/ RefundChecked(w) \/ ProcessPi(w)
           \/ ProcessNotify(w) \/ ProcessError(w) \/ ProcessThrow(w) \/ Abort(w)
  <2>1. UNCHANGED <<refund, txn, detached>>
    BY <1>5 DEF UpdateRead, RefundRefused, RefundChecked, ProcessPi, ProcessNotify,
                ProcessError, ProcessThrow, Abort, rows
  <2> QED  BY <2>1 DEF LedgerKept, Owed
<1> QED
  BY <1>1, <1>2, <1>3, <1>4, <1>5 DEF Step

LEMMA LedgerUntouched ==
    ASSUME TInv,
           \/ \E w \in Worker, q \in Payment : RequestOn(w, q)
           \/ UNCHANGED vars \/ \E r \in Refund, s \in RefundWebhookStatus : RefundWebhook(r, s)
    PROVE  \A p \in Payment : LedgerKept(p)
<1>1. CASE (\E w \in Worker, q \in Payment : RequestOn(w, q)) \/ UNCHANGED vars
  BY <1>1 DEF RequestOn, PaymentEndpoints, RefundEndpoints, WebhookEndpoints, CreatePayment,
              PaymentWebhook, RefundRequest, Process, LedgerKept, Owed, rows, vars
<1>2. ASSUME NEW r \in Refund, NEW s \in RefundWebhookStatus, RefundWebhook(r, s)
      PROVE  \A p \in Payment : LedgerKept(p)
  <2>1. \A x \in Refund : refund'[x].payment = refund[x].payment
    BY <1>2 DEF RefundWebhook, TInv, TypeOK, RefundRow
  <2> QED  BY <1>2, <2>1 DEF RefundWebhook, LedgerKept, Owed
<1> QED  BY <1>1, <1>2
-----------------------------------------------------------------------------
(* Without contention a request sees all there is: the step that changes the *)
(* payment is the step of its only request.                                  *)

LEMMA OnlyMover ==
    ASSUME Alone, NEW w \in Worker, NEW p \in Payment \ contended',
           Starts(w, p) \/ (Continues(w) /\ frame[w].p = p),
           NEW v \in Worker, pc'[v] # "idle", frame'[v].p = p
    PROVE  v = w /\ p \notin contended
  BY DEF Alone, Starts, Continues, OthersStay, InFlight

\* A refund request that has not saved its refund holds a COMPLETED payment.
Unspent == \A p \in Payment \ contended : \A w \in InFlight(p) :
               pc[w] \in {"refund.check", "refund.save"} => payment[p].status = "completed"

LEMMA UnspentKept ==
    ASSUME Unspent, NEW p \in Payment \ contended', Kept(p),
           NEW v \in Worker, pc'[v] \in {"refund.check", "refund.save"}, frame'[v].p = p
    PROVE  payment'[p].status = "completed"
<1>1. p \notin contended /\ pc'[v] # "idle"
  BY DEF Kept
<1>2. v \in InFlight(p)
  BY <1>1 DEF Kept
<1> QED  BY <1>1, <1>2 DEF Kept, Unspent

LEMMA UnspentStep == TInv /\ Alone /\ Unspent /\ [Next]_vars => Unspent'
<1> SUFFICES ASSUME TInv, Alone, Unspent, [Next]_vars,
                    NEW p \in Payment \ contended', NEW v \in Worker,
                    pc'[v] \in {"refund.check", "refund.save"}, frame'[v].p = p
             PROVE  payment'[p].status = "completed"
  BY DEF Unspent, InFlight
<1>1. ASSUME NEW w \in Worker, NEW q \in Payment, RequestOn(w, q)
      PROVE  payment'[p].status = "completed"
  <2>0. Starts(w, q) /\ (p # q => Kept(p))
    BY <1>1, RequestIsLocal
  <2>1. CASE p # q
    BY <2>0, <2>1, UnspentKept
  <2>2. CASE p = q
    <3>1. v = w
      BY <2>0, <2>2, OnlyMover
    <3>2. \E r \in Refund, a \in RefundAmount : RefundRequest(w, p, r, a)
      BY <1>1, <2>2, <3>1
         DEF RequestOn, PaymentEndpoints, RefundEndpoints, WebhookEndpoints, CreatePayment,
             PaymentWebhook, Process, Begin, TInv, TypeOK
    <3> QED  BY <3>2 DEF RefundRequest, rows
  <2> QED  BY <2>1, <2>2
<1>2. ASSUME NEW w \in Worker, Step(w) \/ Abort(w)
      PROVE  payment'[p].status = "completed"
  <2>0. Continues(w) /\ frame[w].p \in Payment /\ (p # frame[w].p => Kept(p))
    BY <1>2, StepIsLocal DEF TInv, FramesOK, Continues
  <2>1. CASE p # frame[w].p
    BY <2>0, <2>1, UnspentKept
  <2>2. CASE p = frame[w].p
    <3>1. v = w /\ p \notin contended
      BY <2>0, <2>2, OnlyMover
    <3>2. RefundChecked(w)
      BY <1>2, <3>1, <2>0
         DEF Step, PaymentTxn, UpdateRead, UpdateSave, RefundRefused, RefundSave, RefundTxn,
             ProcessReject, ProcessPi, ProcessSave, ProcessNotify, ProcessError, ProcessCatch,
             ProcessThrow, Abort, End, Goto, TInv, TypeOK, Frame, ReturnLabel
    <3> QED  BY <2>2, <3>1, <3>2 DEF RefundChecked, rows, Unspent, InFlight
  <2> QED  BY <2>1, <2>2
<1>3. CASE UNCHANGED vars \/ \E r \in Refund, s \in RefundWebhookStatus : RefundWebhook(r, s)
  BY <1>3, OtherStepKeeps, UnspentKept
<1> QED  BY <1>1, <1>2, <1>3, NextSplit

\* The labels from which a request goes on to save the payment it has loaded.
SaveLabel == {"update.save", "process.risk", "process.save", "process.notify",
              "process.catch", "process.throw"}

\* It has loaded every transaction of the payment, and its Pi payment id.
SeesAll(p, f) == TxnsOf(p) \subseteq f.seen /\ (payment[p].pi => f.row.pi)

SoleAt(p) ==
    /\ Owed(p) \cap detached = {}
    /\ \A w \in InFlight(p) : pc[w] \in SaveLabel => SeesAll(p, frame[w])

Sole == \A p \in Payment \ contended : SoleAt(p)

LEMMA SoleKept ==
    ASSUME Sole, NEW p \in Payment \ contended', Kept(p), LedgerKept(p)
    PROVE  SoleAt(p)'
<1>1. p \notin contended /\ SoleAt(p)
  BY DEF Kept, Sole
<1>2. Owed(p)' \cap detached' = {}
  BY <1>1 DEF SoleAt, LedgerKept
<1>3. ASSUME NEW v \in Worker, pc'[v] \in SaveLabel, frame'[v].p = p
      PROVE  SeesAll(p, frame[v])' /\ frame'[v] = frame[v]
  <2>1. v \in InFlight(p)
    BY <1>3 DEF Kept, SaveLabel
  <2>2. SeesAll(p, frame[v]) /\ frame'[v] = frame[v]
    BY <1>1, <1>3, <2>1 DEF SoleAt, Kept
  <2>3. TxnsOf(p)' = TxnsOf(p)
    BY DEF LedgerKept, TxnsOf, Owed
  <2> QED  BY <2>2, <2>3 DEF SeesAll, Kept
<1> QED  BY <1>2, <1>3 DEF SoleAt, InFlight

LEMMA SoleMover ==
    ASSUME Alone, NEW w \in Worker, NEW p \in Payment \ contended',
           Starts(w, p) \/ (Continues(w) /\ frame[w].p = p),
           Owed(p)' \cap detached' = {},
           pc'[w] \in SaveLabel => TxnsOf(p)' \subseteq frame'[w].seen
                                   /\ (payment'[p].pi => frame'[w].row.pi)
    PROVE  SoleAt(p)'
  BY OnlyMover DEF SoleAt, SeesAll, InFlight

LEMMA SoleStep == HInv /\ Alone /\ Sole /\ [Next]_vars => Sole'
<1> SUFFICES ASSUME HInv, Alone, Sole, [Next]_vars, NEW p \in Payment \ contended'
             PROVE  SoleAt(p)'
  BY DEF Sole
<1>0. TInv /\ TypeOK /\ \A v \in Worker : frame[v] \in Frame
  BY DEF HInv, TInv, TypeOK
<1>1. ASSUME NEW w \in Worker, NEW q \in Payment, RequestOn(w, q) PROVE SoleAt(p)'
  <2>0. Starts(w, q) /\ (p # q => Kept(p)) /\ LedgerKept(p)
    BY <1>0, <1>1, RequestIsLocal, LedgerUntouched
  <2>1. CASE p # q
    BY <2>0, <2>1, SoleKept
  <2>2. CASE p = q
    <3>1. p \notin contended /\ TxnsOf(p)' = TxnsOf(p)
      BY <2>0, <2>2 DEF Starts, LedgerKept, TxnsOf, Owed
    <3>2. Owed(p)' \cap detached' = {}
      BY <2>0, <3>1 DEF Sole, SoleAt, LedgerKept
    <3>3. ASSUME pc'[w] \in SaveLabel
          PROVE  TxnsOf(p) \subseteq frame'[w].seen /\ (payment'[p].pi => frame'[w].row.pi)
      <4>1. CASE Process(w, p)
        <5>1. frame'[w] = Loaded(p) /\ payment' = payment
          BY <1>0, <4>1 DEF Process, Begin, TypeOK, rows
        <5> QED  BY <1>0, <5>1, LoadedType
      <4>2. ASSUME NEW s \in WebhookStatus, PaymentWebhook(w, p, s)
            PROVE  TxnsOf(p) \subseteq frame'[w].seen /\ (payment'[p].pi => frame'[w].row.pi)
        <5>1. frame'[w] = [Loaded(p) EXCEPT !.status = s] /\ payment' = payment
          BY <1>0, <4>2 DEF PaymentWebhook, Begin, TypeOK, rows
        <5>2. Loaded(p) \in Frame /\ Loaded(p).row = payment[p] /\ Loaded(p).seen = TxnsOf(p)
          BY <1>0, LoadedType
        <5> QED  BY <5>1, <5>2 DEF Frame
      <4> QED
        BY <1>1, <2>2, <3>3, <4>1, <4>2, <1>0
           DEF RequestOn, PaymentEndpoints, RefundEndpoints, WebhookEndpoints, CreatePayment,
               RefundRequest, Begin, TypeOK, SaveLabel
    <3> QED  BY <2>0, <2>2, <3>1, <3>2, <3>3, SoleMover
  <2> QED  BY <2>1, <2>2
<1>2. ASSUME NEW w \in Worker, Step(w) \/ Abort(w) PROVE SoleAt(p)'
  <2>0. Continues(w) /\ frame[w].p \in Payment /\ (p # frame[w].p => Kept(p) /\ LedgerKept(p))
    BY <1>0, <1>2, StepIsLocal, LedgerLocal DEF TInv, FramesOK, Continues
  <2>1. CASE p # frame[w].p
    BY <2>0, <2>1, SoleKept
  <2>2. CASE p = frame[w].p
    <3>1. SoleAt(p) /\ w \in InFlight(p)
      BY <2>0, <2>2 DEF Sole, Continues, InFlight
    <3>2. CASE PaymentTxn(w) \/ RefundRefused(w) \/ ProcessNotify(w) \/ ProcessThrow(w) \/ Abort(w)
      <4>1. UNCHANGED <<refund, detached>> /\ pc'[w] = "idle"
        BY <1>0, <3>2 DEF PaymentTxn, RefundRefused, ProcessNotify, ProcessThrow, Abort, End, Goto,
                          rows, TypeOK
      <4> QED  BY <2>0, <2>2, <3>1, <4>1, SoleMover DEF SoleAt, Owed, SaveLabel
    <3>3. CASE RefundChecked(w) \/ RefundTxn(w)
      <4>1. UNCHANGED <<refund, detached>> /\ pc'[w] \in {"refund.save", "update.read", "idle"}
        BY <1>0, <3>3 DEF RefundChecked, RefundTxn, End, Goto, rows, TypeOK
      <4> QED  BY <2>0, <2>2, <3>1, <4>1, SoleMover DEF SoleAt, Owed, SaveLabel
    <3>4. CASE RefundSave(w)
      <4>1. /\ frame[w].r \in Refund /\ refund[frame[w].r].payment = None
            /\ pc'[w] = "refund.txn" /\ detached' = detached
            /\ \A x \in Refund : x # frame[w].r => refund'[x] = refund[x]
        BY <1>0, <3>4 DEF RefundSave, Goto, TInv, TypeOK, FramesOK, RefundLabel, HInv, Holders,
                          HoldsFresh
      <4>2. frame[w].r \notin detached
        BY <4>1 DEF HInv, Holders
      <4>3. Owed(p)' \cap detached' = {}
        BY <3>1, <4>1, <4>2 DEF SoleAt, Owed
      <4> QED  BY <2>0, <2>2, <4>1, <4>3, SoleMover DEF SaveLabel
    <3>5. CASE UpdateRead(w)
      <4>1. /\ UNCHANGED <<refund, detached, txn, payment>>
            /\ frame'[w] = [frame[w] EXCEPT !.row = payment[p], !.seen = TxnsOf(p)]
        BY <1>0, <2>2, <3>5 DEF UpdateRead, Goto, rows, TypeOK
      <4>2. frame'[w].row = payment[p] /\ frame'[w].seen = TxnsOf(p)
        BY <1>0, <4>1 DEF Frame
      <4>3. TxnsOf(p)' = TxnsOf(p)
        BY <4>1 DEF TxnsOf
      <4>4. Owed(p)' \cap detached' = {}
        BY <3>1, <4>1 DEF SoleAt, Owed
      <4>5. TxnsOf(p)' \subseteq frame'[w].seen /\ (payment'[p].pi => frame'[w].row.pi)
        BY <4>1, <4>2, <4>3
      <4> QED  BY <2>0, <2>2, <4>4, <4>5, SoleMover
    <3>6. CASE ProcessPi(w)
      <4>1. /\ UNCHANGED <<refund, detached, txn, payment>> /\ pc[w] = "process.risk"
            /\ frame'[w] = [frame[w] EXCEPT !.row.status = "processing", !.row.pi = TRUE]
        BY <1>0, <2>2, <3>6 DEF ProcessPi, Goto, rows, TypeOK
      <4>2. frame'[w].row.pi = TRUE /\ frame'[w].seen = frame[w].seen
        BY <1>0, <4>1 DEF Frame, Row
      <4>3. TxnsOf(p)' = TxnsOf(p) /\ TxnsOf(p) \subseteq frame[w].seen
        BY <3>1, <4>1 DEF TxnsOf, SoleAt, SeesAll, SaveLabel
      <4>4. Owed(p)' \cap detached' = {}
        BY <3>1, <4>1 DEF SoleAt, Owed
      <4>5. TxnsOf(p)' \subseteq frame'[w].seen /\ frame'[w].row.pi
        BY <4>2, <4>3
      <4> QED  BY <2>0, <2>2, <4>4, <4>5, SoleMover
    <3>7. CASE ProcessError(w)
      <4>1. /\ UNCHANGED <<refund, detached, txn, payment>> /\ pc[w] \in SaveLabel
            /\ frame'[w] = frame[w]
        BY <1>0, <2>2, <3>7 DEF ProcessError, Goto, rows, TypeOK, SaveLabel
      <4>3. TxnsOf(p)' = TxnsOf(p) /\ SeesAll(p, frame[w])
        BY <3>1, <4>1 DEF TxnsOf, SoleAt
      <4> QED  BY <2>0, <2>2, <3>1, <4>1, <4>3, SoleMover DEF SoleAt, Owed, SeesAll
    <3>8. CASE UpdateSave(w) \/ ProcessReject(w) \/ ProcessSave(w) \/ ProcessCatch(w)
      <4>1. pc[w] \in SaveLabel /\ UNCHANGED <<refund, txn>> /\ SeesAll(p, frame[w])
        BY <3>1, <3>8 DEF UpdateSave, ProcessReject, ProcessSave, ProcessCatch, SaveLabel, SoleAt
      <4>2. PICK row : SavePayment(frame[w], row) /\ row.pi = frame[w].row.pi
        BY <1>0, <3>8 DEF UpdateSave, ProcessReject, ProcessSave, ProcessCatch, Frame, Row
      <4>3. detached' = detached /\ payment'[p] = row
        BY <1>0, <2>2, <4>1, <4>2 DEF SavePayment, SeesAll, TypeOK
      <4>4. TxnsOf(p)' = TxnsOf(p)
        BY <4>1, <4>3 DEF TxnsOf
      <4>5. pc'[w] \in SaveLabel => frame'[w] = frame[w]
        BY <1>0, <3>8 DEF UpdateSave, ProcessReject, ProcessSave, ProcessCatch, End, Goto, TypeOK,
                          SaveLabel, Frame, ReturnLabel
      <4> QED  BY <2>0, <2>2, <3>1, <4>1, <4>2, <4>3, <4>4, <4>5, SoleMover DEF SoleAt, Owed, SeesAll
    <3> QED
      BY <1>2, <3>2, <3>3, <3>4, <3>5, <3>6, <3>7, <3>8 DEF Step
  <2> QED  BY <2>1, <2>2
<1>3. CASE UNCHANGED vars \/ \E r \in Refund, s \in RefundWebhookStatus : RefundWebhook(r, s)
  BY <1>0, <1>3, OtherStepKeeps, LedgerUntouched, SoleKept
<1> QED  BY <1>1, <1>2, <1>3, NextSplit
-----------------------------------------------------------------------------
(* What a request does next, by its label.                                   *)

LEMMA NextOf ==
    ASSUME NEW w \in Worker, Step(w) \/ Abort(w)
    PROVE  /\ pc[w] = "payment.txn" => PaymentTxn(w) \/ Abort(w)
           /\ pc[w] = "refund.txn" => RefundTxn(w) \/ Abort(w)
           /\ pc[w] = "update.read" => UpdateRead(w) \/ Abort(w)
           /\ pc[w] = "update.save" => UpdateSave(w) \/ Abort(w)
           /\ pc[w] = "process.save" => ProcessSave(w) \/ ProcessError(w) \/ Abort(w)
           /\ pc[w] = "process.catch" => ProcessCatch(w) \/ Abort(w)
  BY DEF Step, PaymentTxn, UpdateRead, UpdateSave, RefundRefused, RefundChecked, RefundSave,
         RefundTxn, ProcessReject, ProcessPi, ProcessSave, ProcessNotify, ProcessError,
         ProcessCatch, ProcessThrow

\* Rows that appear, and history that is never taken back.
LEMMA Grows ==
    ASSUME LInv, [Next]_vars
    PROVE  /\ txn \subseteq txn' /\ aborted \subseteq aborted'
           /\ refundRace \subseteq refundRace' /\ everRefunded \subseteq everRefunded'
  BY DEF Next, Request, Step, PaymentEndpoints, RefundEndpoints, WebhookEndpoints,
         CreatePayment, PaymentWebhook, RefundRequest, Process, PaymentTxn, UpdateRead,
         UpdateSave, RefundRefused, RefundChecked, RefundSave, RefundTxn, ProcessReject,
         ProcessPi, ProcessSave, ProcessNotify, ProcessError, ProcessCatch, ProcessThrow,
         Abort, RefundWebhook, SavePayment, rows, history, vars
-----------------------------------------------------------------------------
(* Every payment and refund that is saved gets its transaction from the       *)
(* request that saved it, unless that request dies.                           *)

Recorded ==
    \A p \in Payment \ aborted :
        /\ Exists(p) => \/ p \in txn
                        \/ \E w \in Worker : pc[w] = "payment.txn" /\ frame[w].p = p
        /\ \A r \in Refund :
               refund[r].payment = p =>
                   \/ r \in txn
                   \/ \E w \in Worker : pc[w] = "refund.txn" /\ frame[w].p = p /\ frame[w].r = r

LEMMA RecordedStep == LInv /\ Recorded /\ [Next]_vars => Recorded'
<1> SUFFICES ASSUME LInv, Recorded, [Next]_vars PROVE Recorded'
  OBVIOUS
<1>0. TInv /\ TypeOK
  BY DEF LInv, TInv
\* A promise to record x that was made before the step is kept or still open.
<1>1. ASSUME NEW label \in {"payment.txn", "refund.txn"}, NEW v \in Worker,
             pc[v] = label, frame[v].p \notin aborted'
      PROVE  \/ pc'[v] = label /\ frame'[v] = frame[v]
             \/ label = "payment.txn" /\ frame[v].p \in txn'
             \/ label = "refund.txn" /\ frame[v].r \in txn'
  <2>1. ASSUME NEW w \in Worker, Step(w) \/ Abort(w), v = w
        PROVE  \/ label = "payment.txn" /\ frame[v].p \in txn'
               \/ label = "refund.txn" /\ frame[v].r \in txn'
    BY <1>1, <2>1, NextOf DEF PaymentTxn, RefundTxn, Abort
  <2>2. ASSUME NEW w \in Worker, OthersStay(w), v # w
        PROVE  pc'[v] = label /\ frame'[v] = frame[v]
    BY <1>1, <2>2 DEF OthersStay
  <2>3. ASSUME NEW w \in Worker, NEW q \in Payment, RequestOn(w, q)
        PROVE  OthersStay(w) /\ v # w
    BY <1>0, <1>1, <2>3, RequestIsLocal DEF Starts
  <2>4. ASSUME NEW w \in Worker, Step(w) \/ Abort(w)
        PROVE  OthersStay(w)
    BY <1>0, <2>4, StepIsLocal DEF Continues
  <2>5. CASE UNCHANGED vars \/ \E r \in Refund, s \in RefundWebhookStatus : RefundWebhook(r, s)
    BY <1>0, <1>1, <2>5, OtherStepKeeps
  <2> QED  BY <2>1, <2>2, <2>3, <2>4, <2>5, NextSplit
<1>2. ASSUME NEW p \in Payment \ aborted', Exists(p)'
      PROVE  p \in txn' \/ \E w \in Worker : pc'[w] = "payment.txn" /\ frame'[w].p = p
  <2>1. CASE Exists(p)
    BY <1>1, <1>2, <2>1, Grows DEF Recorded
  <2>2. CASE ~Exists(p)
    <3>1. ~Kept(p)
      BY <1>2, <2>2 DEF Kept, Exists
    <3>2. ASSUME NEW w \in Worker, Step(w) \/ Abort(w) PROVE FALSE
      <4>1. frame[w].p = p /\ pc[w] \notin LoadedLabel
        <5>1. frame[w].p = p /\ pc[w] # "idle"
          BY <1>0, <3>1, <3>2, StepIsLocal DEF Continues
        <5> QED  BY <2>2, <5>1 DEF LInv, FramesGood, Good, NamedLabel, Exists
      <4>2. payment' # payment
        BY <1>2, <2>2 DEF Exists
      <4>3. pc[w] \in LoadedLabel
        BY <3>2, <4>2
           DEF Step, Abort, PaymentTxn, UpdateRead, UpdateSave, RefundRefused, RefundChecked,
               RefundSave, RefundTxn, ProcessReject, ProcessPi, ProcessSave, ProcessNotify,
               ProcessError, ProcessCatch, ProcessThrow, rows, LoadedLabel, RefundLabel
      <4> QED  BY <4>1, <4>3
    <3>3. ASSUME NEW w \in Worker, NEW q \in Payment, RequestOn(w, q)
          PROVE  pc'[w] = "payment.txn" /\ frame'[w].p = p
      <4>1. p = q
        BY <1>0, <3>1, <3>3, RequestIsLocal
      <4>2. \E a \in Amount : CreatePayment(w, p, a)
        BY <1>2, <2>2, <3>3, <4>1
           DEF RequestOn, PaymentEndpoints, RefundEndpoints, WebhookEndpoints, PaymentWebhook,
               RefundRequest, Process, rows, Exists
      <4>3. pc'[w] = "payment.txn"
        BY <1>0, <4>2 DEF CreatePayment, Begin, TypeOK
      <4> QED  BY <1>0, <3>3, <4>1, <4>3, RequestIsLocal DEF Starts
    <3> QED  BY <1>0, <3>1, <3>2, <3>3, OtherStepKeeps, NextSplit
  <2> QED  BY <2>1, <2>2
<1>3. ASSUME NEW p \in Payment \ aborted', NEW r \in Refund, refund'[r].payment = p
      PROVE  \/ r \in txn'
             \/ \E w \in Worker : pc'[w] = "refund.txn" /\ frame'[w].p = p /\ frame'[w].r = r
  <2>1. CASE refund[r].payment = p
    BY <1>1, <1>3, <2>1, Grows DEF Recorded
  <2>2. CASE refund[r].payment # p
    <3>1. ASSUME NEW x \in Refund, NEW s \in RefundWebhookStatus, RefundWebhook(x, s)
          PROVE  FALSE
      BY <1>0, <1>3, <2>2, <3>1 DEF RefundWebhook, TypeOK, RefundRow
    <3>2. PICK w \in Worker : RefundSave(w)
      BY <1>3, <2>2, <3>1
         DEF Next, Request, Step, PaymentEndpoints, RefundEndpoints, WebhookEndpoints,
             CreatePayment, PaymentWebhook, RefundRequest, Process, PaymentTxn, UpdateRead,
             UpdateSave, RefundRefused, RefundChecked, RefundTxn, ProcessReject, ProcessPi,
             ProcessSave, ProcessNotify, ProcessError, ProcessCatch, ProcessThrow, Abort,
             rows, vars
    <3>3. pc'[w] = "refund.txn" /\ frame'[w] = frame[w]
      BY <1>0, <3>2 DEF RefundSave, Goto, TypeOK
    <3>4. frame[w].r = r /\ frame[w].p = p
      BY <1>0, <1>3, <2>2, <3>2 DEF RefundSave, TypeOK
    <3> QED  BY <3>3, <3>4
  <2> QED  BY <2>1, <2>2
<1> QED  BY <1>2, <1>3 DEF Recorded
-----------------------------------------------------------------------------
(* Together: the ledger is complete.                                        *)

LedgerInv == LInv /\ Holders /\ Alone /\ Sole /\ Recorded

LEMMA LedgerStarts == Init => LedgerInv
<1> SUFFICES ASSUME Init PROVE LedgerInv
  OBVIOUS
<1>1. LInv /\ Holders
  BY LInvInit, HInvInit DEF HInv
<1>2. Alone /\ Sole
  BY DEF Init, Alone, Sole, SoleAt, InFlight
<1>3. Recorded
  BY IdAssumption DEF Init, Recorded, Exists, AbsentRow
<1> QED  BY <1>1, <1>2, <1>3 DEF LedgerInv

LEMMA LedgerInvHolds == Spec => []LedgerInv
<1>1. LedgerInv /\ [Next]_vars => LedgerInv'
  <2> SUFFICES ASSUME LedgerInv, [Next]_vars PROVE LedgerInv'
    OBVIOUS
  <2>1. TInv /\ HInv
    BY DEF LedgerInv, LInv, HInv
  <2> QED  BY <2>1, LInvStep, HoldersStep, AloneStep, SoleStep, RecordedStep DEF LedgerInv
<1> QED  BY <1>1, LedgerStarts, PTL DEF Spec

LEMMA CompleteWhenQuiet == LedgerInv => LedgerComplete
<1> SUFFICES ASSUME LedgerInv, NEW p \in Payment \ aborted, Exists(p), Quiet(p),
                    NEW x \in Owed(p)
             PROVE  x \in txn /\ (p \notin contended => x \notin detached)
  BY DEF LedgerComplete
<1>1. \A w \in Worker : frame[w].p = p => pc[w] = "idle"
  BY DEF Quiet, InFlight
<1>2. x \in txn
  BY <1>1 DEF LedgerInv, Recorded, Owed
<1>3. p \notin contended => x \notin detached
  BY DEF LedgerInv, Sole, SoleAt
<1> QED  BY <1>2, <1>3

\* Once no request is in flight on a payment and none has died half-way, the
\* payment and each of its refunds has its transaction, and unless requests on
\* it overlapped none of these has lost its payment: however many requests,
\* payments and refunds there are.
THEOREM LedgerIsComplete == Spec => []LedgerComplete
  BY CompleteWhenQuiet, LedgerInvHolds, PTL
-----------------------------------------------------------------------------
(* A Pi payment id is on the payment, or still held by the request that has  *)
(* it from Pi and will save it.                                              *)

HoldsPi(label, f) == label \in {"process.save", "process.catch"} /\ f.row.pi

PiHeld ==
    \A p \in piAnswered \ (contended \cup aborted) :
        payment[p].pi \/ \E w \in InFlight(p) : HoldsPi(pc[w], frame[w])

PiKnown == \A p \in piAnswered : p \in Payment /\ Exists(p)

LEMMA PiKnownStep == LInv /\ PiKnown /\ [Next]_vars => PiKnown'
<1> SUFFICES ASSUME LInv, PiKnown, [Next]_vars PROVE PiKnown'
  OBVIOUS
<1>1. \A p \in Payment : Exists(p) => Exists(p)'
  BY StepShape DEF Keeps, Exists
<1>2. \A p \in piAnswered' : p \in piAnswered \/ \E w \in Worker : ProcessPi(w) /\ p = frame[w].p
  BY DEF Next, Request, Step, PaymentEndpoints, RefundEndpoints, WebhookEndpoints,
         CreatePayment, PaymentWebhook, RefundRequest, Process, PaymentTxn, UpdateRead,
         UpdateSave, RefundRefused, RefundChecked, RefundSave, RefundTxn, ProcessReject,
         ProcessPi, ProcessSave, ProcessNotify, ProcessError, ProcessCatch, ProcessThrow,
         Abort, RefundWebhook, rows, vars
<1>3. \A w \in Worker : ProcessPi(w) => frame[w].p \in Payment /\ Exists(frame[w].p)
  BY DEF ProcessPi, LInv, TInv, FramesOK, FramesGood, Good, NamedLabel, LoadedLabel, Exists
<1> QED  BY <1>1, <1>2, <1>3 DEF PiKnown

LEMMA PiHeldStep == LedgerInv /\ PiKnown /\ PiHeld /\ [Next]_vars => PiHeld'
<1> DEFINE Done(p) == \/ payment'[p].pi
                      \/ \E v \in Worker : /\ pc'[v] # "idle" /\ frame'[v].p = p
                                           /\ HoldsPi(pc'[v], frame'[v])
<1> SUFFICES ASSUME LedgerInv, PiKnown, PiHeld, [Next]_vars,
                    NEW p \in piAnswered' \ (contended' \cup aborted')
             PROVE  Done(p)
  BY DEF PiHeld, InFlight
<1>0. LInv /\ TInv /\ TypeOK /\ Alone /\ Sole
  BY DEF LedgerInv, LInv, TInv
<1>1. p \in Payment
  BY <1>0, TInvStep DEF TInv, TypeOK
<1>2. ASSUME Kept(p) PROVE Done(p)
  <2>1. p \in piAnswered \ (contended \cup aborted)
    BY <1>1, <1>2 DEF Kept
  <2>2. \A v \in InFlight(p) : v \in Worker
    BY DEF InFlight
  <2> QED  BY <1>2, <2>1, <2>2 DEF Kept, PiHeld
<1>3. ASSUME NEW w \in Worker, RequestOn(w, p)
      PROVE  payment'[p].pi
  <2>1. p \notin contended /\ InFlight(p) = {}
    BY <1>0, <1>1, <1>3, RequestIsLocal DEF Starts
  <2>2. UNCHANGED <<piAnswered, aborted>> /\ (payment' = payment \/ ~Exists(p))
    BY <1>3 DEF RequestOn, PaymentEndpoints, RefundEndpoints, WebhookEndpoints, CreatePayment,
                PaymentWebhook, RefundRequest, Process, rows
  <2> QED  BY <2>1, <2>2 DEF PiHeld, PiKnown
<1>4. ASSUME NEW w \in Worker, Step(w) \/ Abort(w), frame[w].p = p
      PROVE  Done(p)
  <2>0. Continues(w) /\ w \in InFlight(p) /\ p \notin contended /\ p \notin aborted
        /\ frame[w] \in Frame
    BY <1>0, <1>1, <1>4, StepIsLocal, Grows DEF Continues, InFlight, TypeOK
  <2>1. \A v \in InFlight(p) : v = w
    BY <1>0, <1>1, <2>0 DEF Alone
  <2>2. pc[w] \in SaveLabel /\ payment[p].pi => frame[w].row.pi
    BY <1>0, <1>1, <2>0 DEF Sole, SoleAt, SeesAll
  <2>3. CASE ProcessPi(w)
    <3>1. /\ pc'[w] = "process.save"
          /\ frame'[w] = [frame[w] EXCEPT !.row.status = "processing", !.row.pi = TRUE]
      BY <1>0, <2>3 DEF ProcessPi, Goto, TypeOK
    <3>2. frame'[w].row.pi /\ frame'[w].p = p
      BY <1>4, <2>0, <3>1 DEF Frame, Row
    <3> QED  BY <3>1, <3>2 DEF HoldsPi
  <2>4. CASE ~ProcessPi(w)
    <3>1. UNCHANGED piAnswered
      BY <1>4, <2>4
         DEF Step, PaymentTxn, UpdateRead, UpdateSave, RefundRefused, RefundChecked, RefundSave,
             RefundTxn, ProcessReject, ProcessSave, ProcessNotify, ProcessError, ProcessCatch,
             ProcessThrow, Abort, rows
    <3>2. payment[p].pi \/ HoldsPi(pc[w], frame[w])
      BY <2>0, <2>1, <3>1 DEF PiHeld
    <3>3. CASE UpdateSave(w) \/ ProcessReject(w) \/ ProcessSave(w) \/ ProcessCatch(w)
      <4>1. pc[w] \in SaveLabel
        BY <3>3 DEF UpdateSave, ProcessReject, ProcessSave, ProcessCatch, SaveLabel
      <4>2. PICK row : SavePayment(frame[w], row) /\ row.pi = frame[w].row.pi
        BY <2>0, <3>3 DEF UpdateSave, ProcessReject, ProcessSave, ProcessCatch, Frame, Row
      <4>3. payment'[p] = row
        BY <1>0, <1>1, <1>4, <4>2 DEF SavePayment, TypeOK
      <4> QED  BY <2>2, <3>2, <4>1, <4>2, <4>3 DEF HoldsPi
    <3>4. CASE ~(UpdateSave(w) \/ ProcessReject(w) \/ ProcessSave(w) \/ ProcessCatch(w))
      <4>1. UNCHANGED payment
        BY <1>4, <3>4
           DEF Step, PaymentTxn, UpdateRead, RefundRefused, RefundChecked, RefundSave,
               RefundTxn, ProcessPi, ProcessNotify, ProcessError, ProcessThrow, Abort, rows
      <4>2. CASE payment[p].pi
        BY <4>1, <4>2
      <4>3. CASE HoldsPi(pc[w], frame[w])
        <5>1. ProcessError(w)
          BY <1>4, <3>4, <4>3, NextOf DEF HoldsPi, Abort
        <5>2. pc'[w] = "process.catch" /\ frame'[w] = frame[w]
          BY <1>0, <5>1 DEF ProcessError, Goto, TypeOK
        <5> QED  BY <1>4, <4>3, <5>2 DEF HoldsPi
      <4> QED  BY <3>2, <4>2, <4>3
    <3> QED  BY <3>3, <3>4
  <2> QED  BY <2>3, <2>4
<1> HIDE DEF Done
<1>5. ASSUME NEW w \in Worker, NEW q \in Payment, RequestOn(w, q) PROVE Done(p)
  <2>1. CASE p = q
    BY <1>3, <1>5, <2>1 DEF Done
  <2>2. CASE p # q
    BY <1>0, <1>1, <1>2, <1>5, <2>2, RequestIsLocal
  <2> QED  BY <2>1, <2>2
<1>6. ASSUME NEW w \in Worker, Step(w) \/ Abort(w) PROVE Done(p)
  <2>1. CASE frame[w].p = p
    BY <1>4, <1>6, <2>1
  <2>2. CASE frame[w].p # p
    BY <1>0, <1>1, <1>2, <1>6, <2>2, StepIsLocal
  <2> QED  BY <2>1, <2>2
<1>7. CASE UNCHANGED vars \/ \E r \in Refund, s \in RefundWebhookStatus : RefundWebhook(r, s)
  BY <1>0, <1>1, <1>2, <1>7, OtherStepKeeps
<1> QED  BY <1>5, <1>6, <1>7, NextSplit

\* A payment that Pi has answered carries its Pi payment id by the time no
\* request on it is in flight, also when the save or the notification after
\* the answer failed, unless requests on it overlapped or one of them died.
THEOREM PiPaymentsAreRecorded == Spec => []PiPaymentRecorded
<1>1. Init => PiKnown /\ PiHeld
  BY DEF Init, PiKnown, PiHeld
<1>2. LedgerInv /\ PiKnown /\ PiHeld /\ [Next]_vars => PiKnown' /\ PiHeld'
  BY PiKnownStep, PiHeldStep DEF LedgerInv
<1>3. PiHeld => PiPaymentRecorded
  BY DEF PiHeld, PiPaymentRecorded, Quiet
<1> QED  BY <1>1, <1>2, <1>3, LedgerInvHolds, PTL DEF Spec
-----------------------------------------------------------------------------
(* Refunds that have come to the amount: the request that saved the last one *)
(* is on its way to mark the payment, unless it already has been.            *)

Marking(label, f, sum) ==
    \/ label = "refund.txn" /\ f.total + f.a = sum
    \/ label \in {"update.read", "update.save"} /\ f.status = "refunded"

Marked ==
    \A p \in Payment \ (refundRace \cup aborted) :
        refunded[p] # 0 /\ refunded[p] = payment[p].amount =>
            \/ p \in everRefunded
            \/ \E w \in Worker : frame[w].p = p /\ Marking(pc[w], frame[w], refunded[p])

LEMMA MarkedStep == BInv /\ Marked /\ [Next]_vars => Marked'
<1> SUFFICES ASSUME BInv, Marked, [Next]_vars,
                    NEW p \in Payment \ (refundRace' \cup aborted'),
                    refunded'[p] # 0, refunded'[p] = payment'[p].amount
             PROVE  \/ p \in everRefunded'
                    \/ \E v \in Worker : frame'[v].p = p /\ Marking(pc'[v], frame'[v], refunded'[p])
  BY DEF Marked
<1>0. LInv /\ TInv /\ TypeOK /\ p \notin refundRace /\ p \notin aborted
  BY Grows DEF BInv, LInv, TInv
<1>1. ASSUME NEW w \in Worker, RefundSave(w), frame[w].p = p
      PROVE  frame'[w].p = p /\ Marking(pc'[w], frame'[w], refunded'[p])
  <2>1. pc[w] = "refund.save" /\ pc'[w] = "refund.txn" /\ frame'[w] = frame[w]
        /\ refunded'[p] = refunded[p] + frame[w].a
    BY <1>0, <1>1 DEF RefundSave, Goto, TypeOK
  <2>2. frame[w].total = refunded[p]
    BY <1>0, <1>1, <2>1 DEF BInv, RefundBound, BoundAt
  <2> QED  BY <1>1, <2>1, <2>2 DEF Marking
<1>2. CASE refunded'[p] = refunded[p]
  <2>1. payment'[p].amount = payment[p].amount
    BY <1>0, <1>2, StepShape DEF Keeps, LInv, CompletedRecorded
  <2>2. CASE p \in everRefunded
    BY <1>0, <2>2, Grows
  <2>3. ASSUME NEW v \in Worker, frame[v].p = p, Marking(pc[v], frame[v], refunded[p])
        PROVE  \/ p \in everRefunded'
               \/ frame'[v].p = p /\ Marking(pc'[v], frame'[v], refunded'[p])
    <3>1. CASE pc'[v] = pc[v] /\ frame'[v] = frame[v]
      BY <1>2, <2>3, <3>1
    <3>2. ASSUME NEW w \in Worker, NEW q \in Payment, RequestOn(w, q)
          PROVE  pc'[v] = pc[v] /\ frame'[v] = frame[v]
      BY <1>0, <2>3, <3>2, RequestIsLocal DEF Starts, OthersStay, Marking
    <3>3. ASSUME NEW w \in Worker, Step(w) \/ Abort(w), v # w
          PROVE  pc'[v] = pc[v] /\ frame'[v] = frame[v]
      BY <1>0, <3>3, StepIsLocal DEF Continues, OthersStay
    <3>4. ASSUME Step(v) \/ Abort(v)
          PROVE  \/ p \in everRefunded'
                 \/ frame'[v].p = p /\ Marking(pc'[v], frame'[v], refunded'[p])
      <4>0. ~Abort(v) /\ frame[v] \in Frame
        BY <1>0, <2>3 DEF Abort, TypeOK
      <4>1. CASE RefundTxn(v)
        <5>1. pc[v] = "refund.txn" /\ frame[v].total + frame[v].a = payment[p].amount
          BY <1>2, <2>1, <2>3, <4>1 DEF RefundTxn, Marking
        <5>2. frame[v].row.amount = payment[p].amount
          BY <1>0, <2>3, <5>1 DEF LInv, FramesGood, Good, NamedLabel, LoadedLabel, RefundLabel
        <5>3. pc'[v] = "update.read" /\ frame'[v] = [frame[v] EXCEPT !.status = "refunded"]
          BY <1>0, <4>1, <5>1, <5>2 DEF RefundTxn, FullyRefunds, Goto, TypeOK
        <5>4. frame'[v].p = p /\ frame'[v].status = "refunded"
          BY <2>3, <4>0, <5>3 DEF Frame
        <5> QED  BY <5>3, <5>4 DEF Marking
      <4>2. CASE UpdateRead(v)
        <5>1. pc[v] = "update.read" /\ pc'[v] = "update.save"
              /\ frame'[v] = [frame[v] EXCEPT !.row = payment[p], !.seen = TxnsOf(p)]
          BY <1>0, <2>3, <4>2 DEF UpdateRead, Goto, TypeOK
        <5>2. frame'[v].p = p /\ frame'[v].status = frame[v].status
          BY <2>3, <4>0, <5>1 DEF Frame
        <5> QED  BY <2>3, <5>1, <5>2 DEF Marking
      <4>3. CASE UpdateSave(v)
        <5>1. frame[v].status = "refunded"
          BY <2>3, <4>3 DEF UpdateSave, Marking
        <5>2. [frame[v].row EXCEPT !.status = frame[v].status].status = "refunded"
          BY <4>0, <5>1 DEF Frame, Row
        <5>3. p \in everRefunded'
          BY <2>3, <4>3, <5>2 DEF UpdateSave, SavePayment
        <5> QED  BY <5>3
      <4> QED  BY <2>3, <3>4, <4>0, <4>1, <4>2, <4>3, NextOf DEF Marking
    <3>5. CASE UNCHANGED vars \/ \E r \in Refund, s \in RefundWebhookStatus : RefundWebhook(r, s)
      BY <1>0, <3>1, <3>5, OtherStepKeeps
    <3> QED  BY <3>1, <3>2, <3>3, <3>4, <3>5, NextSplit
  <2>4. p \in everRefunded \/ \E v \in Worker : frame[v].p = p /\ Marking(pc[v], frame[v], refunded[p])
    BY <1>0, <1>2, <2>1 DEF Marked
  <2> QED  BY <2>2, <2>3, <2>4
<1>3. CASE refunded'[p] # refunded[p]
  <2>1. PICK w \in Worker : RefundSave(w)
    BY <1>0, <1>3, StepShape DEF NoRefundStep, RefundChecked, rows
  <2>2. frame[w].p = p
    BY <1>0, <1>3, <2>1 DEF RefundSave, TypeOK
  <2> QED  BY <1>1, <2>1, <2>2
<1> QED  BY <1>2, <1>3

LEMMA BInvHolds == Spec => []BInv
  BY BInvInit, BInvStep, PTL DEF Spec

\* A payment whose refunds have come to its amount has been marked REFUNDED by
\* the time no request on it is in flight, with webhooks writing its status
\* meanwhile, unless two of its refunds raced or a request on it died.
THEOREM FullRefundsAreMarked == Spec => []FullRefundMarksPayment
<1>1. Init => Marked
  BY DEF Init, Marked
<1>2. BInv /\ Marked /\ [Next]_vars => Marked'
  BY MarkedStep
<1>3. BInv /\ Marked => FullRefundMarksPayment
  BY DEF Marked, Marking, FullRefundMarksPayment, Quiet, InFlight
<1> QED  BY <1>1, <1>2, <1>3, BInvHolds, PTL DEF Spec
-----------------------------------------------------------------------------
(* The refunds saved cover what a refund request has counted, because no      *)
(* refund is ever taken back.                                                *)

Covering(label, f, sum) ==
    /\ label \in RefundLabel => f.a \in Nat
    /\ label = "refund.save" => f.total <= sum[f.p]
    /\ label = "refund.txn" => f.total + f.a <= sum[f.p]
    /\ label \in {"update.read", "update.save"} /\ f.r # None => sum[f.p] >= f.row.amount

Covered == RefundAmount \subseteq Nat => \A w \in Worker : Covering(pc[w], frame[w], refunded)

LEMMA CoveredStep == LInv /\ Covered /\ [Next]_vars => Covered'
<1> SUFFICES ASSUME LInv, Covered, [Next]_vars, RefundAmount \subseteq Nat, NEW v \in Worker
             PROVE  Covering(pc'[v], frame'[v], refunded')
  BY DEF Covered
<1>0. /\ TInv /\ TypeOK /\ frame[v] \in Frame /\ Covering(pc[v], frame[v], refunded)
      /\ pc[v] # "idle" => frame[v].p \in Payment
  BY DEF LInv, TInv, TypeOK, FramesOK, Covered
<1>1. \A p \in Payment : refunded'[p] \in Int /\ refunded[p] \in Int /\ refunded'[p] >= refunded[p]
  <2>1. CASE UNCHANGED refunded
    BY <1>0, <2>1 DEF TypeOK
  <2>2. ASSUME NEW w \in Worker, RefundSave(w)
        PROVE  \A p \in Payment : refunded'[p] \in Int /\ refunded[p] \in Int /\ refunded'[p] >= refunded[p]
    <3>1. frame[w].a \in Nat
      BY <2>2 DEF RefundSave, RefundLabel, Covered, Covering
    <3> QED  BY <1>0, <2>2, <3>1 DEF RefundSave, TypeOK
  <2> QED  BY <2>1, <2>2, StepShape DEF NoRefundStep, RefundChecked, rows
<1>2. CASE pc'[v] = pc[v] /\ frame'[v] = frame[v]
  <2>1. pc[v] # "idle" => /\ frame[v].p \in Payment /\ frame[v].total \in Int
                          /\ frame[v].a \in Int /\ frame[v].row.amount \in Int
    BY <1>0 DEF Frame, Row
  <2> QED  BY <1>0, <1>1, <1>2, <2>1 DEF Covering, RefundLabel
<1>3. ASSUME NEW q \in Payment, RequestOn(v, q)
      PROVE  Covering(pc'[v], frame'[v], refunded')
  <2>1. CASE Process(v, q) \/ \E a \in Amount : CreatePayment(v, q, a)
    BY <1>0, <2>1 DEF Process, CreatePayment, Begin, TypeOK, Covering, RefundLabel
  <2>2. ASSUME NEW s \in WebhookStatus, PaymentWebhook(v, q, s)
        PROVE  Covering(pc'[v], frame'[v], refunded')
    <3>1. pc'[v] = "update.save" /\ frame'[v] = [Loaded(q) EXCEPT !.status = s]
      BY <1>0, <2>2 DEF PaymentWebhook, Begin, TypeOK
    <3>2. frame'[v].r = None
      BY <1>0, <3>1, LoadedType DEF Frame
    <3> QED  BY <3>1, <3>2 DEF Covering, RefundLabel
  <2>3. ASSUME NEW r \in Refund, NEW a \in RefundAmount, RefundRequest(v, q, r, a)
        PROVE  Covering(pc'[v], frame'[v], refunded')
    <3>1. pc'[v] = "refund.check" /\ frame'[v] = [Loaded(q) EXCEPT !.r = r, !.a = a]
      BY <1>0, <2>3 DEF RefundRequest, Begin, TypeOK
    <3>2. frame'[v].a = a
      BY <1>0, <3>1, LoadedType DEF Frame
    <3> QED  BY <3>1, <3>2 DEF Covering
  <2> QED
    BY <1>3, <2>1, <2>2, <2>3 DEF RequestOn, PaymentEndpoints, RefundEndpoints, WebhookEndpoints
<1>4. ASSUME Step(v) \/ Abort(v)
      PROVE  Covering(pc'[v], frame'[v], refunded')
  <2>0. pc[v] # "idle" /\ frame[v].p \in Payment /\ Good(pc[v], frame[v], payment, everCompleted)
    BY <1>0, <1>4, StepIsLocal DEF Continues, LInv, FramesGood
  <2>1. CASE RefundChecked(v)
    <3>1. /\ pc[v] = "refund.check" /\ pc'[v] = "refund.save" /\ UNCHANGED refunded
          /\ frame'[v] = [frame[v] EXCEPT !.total = refunded[frame[v].p]]
      BY <1>0, <2>1 DEF RefundChecked, Goto, rows, TypeOK
    <3>2. frame'[v].p = frame[v].p /\ frame'[v].a = frame[v].a /\ frame'[v].total = refunded[frame[v].p]
      BY <1>0, <3>1 DEF Frame
    <3> QED  BY <1>0, <1>1, <2>0, <3>1, <3>2 DEF Covering, RefundLabel
  <2>2. CASE RefundSave(v)
    <3>1. /\ pc[v] = "refund.save" /\ pc'[v] = "refund.txn" /\ frame'[v] = frame[v]
          /\ refunded'[frame[v].p] = refunded[frame[v].p] + frame[v].a
      BY <1>0, <2>0, <2>2 DEF RefundSave, Goto, TypeOK
    <3>2. frame[v].total \in Int
      BY <1>0 DEF Frame
    <3> QED  BY <1>0, <1>1, <2>0, <3>1, <3>2 DEF Covering, RefundLabel
  <2>3. CASE RefundTxn(v)
    <3>1. pc[v] = "refund.txn" /\ UNCHANGED refunded
          /\ \/ pc'[v] = "idle"
             \/ /\ pc'[v] = "update.read" /\ frame[v].total + frame[v].a = frame[v].row.amount
                /\ frame'[v] = [frame[v] EXCEPT !.status = "refunded"]
      BY <1>0, <2>3 DEF RefundTxn, FullyRefunds, Goto, End, TypeOK
    <3>2. CASE pc'[v] = "idle"
      BY <3>2 DEF Covering, RefundLabel
    <3>3. CASE pc'[v] = "update.read"
      <4>1. frame'[v].p = frame[v].p /\ frame'[v].row = frame[v].row /\ frame[v].row.amount \in Int
        BY <1>0, <3>1, <3>3 DEF Frame, Row
      <4> QED  BY <1>0, <1>1, <2>0, <3>1, <3>3, <4>1 DEF Covering, RefundLabel
    <3> QED  BY <3>1, <3>2, <3>3
  <2>4. CASE UpdateRead(v)
    <3>1. /\ pc[v] = "update.read" /\ pc'[v] = "update.save" /\ UNCHANGED refunded
          /\ frame'[v] = [frame[v] EXCEPT !.row = payment[frame[v].p], !.seen = TxnsOf(frame[v].p)]
      BY <1>0, <2>4 DEF UpdateRead, Goto, rows, TypeOK
    <3>2. frame'[v].p = frame[v].p /\ frame'[v].r = frame[v].r /\ frame'[v].row = payment[frame[v].p]
      BY <1>0, <3>1 DEF Frame
    <3>3. frame[v].r # None => frame[v].row.amount = payment[frame[v].p].amount
      BY <2>0, <3>1 DEF Good
    <3> QED  BY <1>0, <1>1, <2>0, <3>1, <3>2, <3>3 DEF Covering, RefundLabel
  <2>5. CASE ~(RefundChecked(v) \/ RefundSave(v) \/ RefundTxn(v) \/ UpdateRead(v))
    <3>1. pc'[v] \notin RefundLabel \cup {"update.read", "update.save"}
      BY <1>0, <1>4, <2>5
         DEF Step, Abort, PaymentTxn, UpdateSave, RefundRefused, ProcessReject, ProcessPi,
             ProcessSave, ProcessNotify, ProcessError, ProcessCatch, ProcessThrow, End, Goto,
             TypeOK, Frame, ReturnLabel, RefundLabel
    <3> QED  BY <3>1 DEF Covering, RefundLabel
  <2> QED  BY <2>1, <2>2, <2>3, <2>4, <2>5
<1>5. ASSUME NEW w \in Worker, NEW q \in Payment, RequestOn(w, q), w # v
      PROVE  Covering(pc'[v], frame'[v], refunded')
  BY <1>0, <1>2, <1>5, RequestIsLocal DEF Starts, OthersStay
<1>6. ASSUME NEW w \in Worker, Step(w) \/ Abort(w), w # v
      PROVE  Covering(pc'[v], frame'[v], refunded')
  BY <1>0, <1>2, <1>6, StepIsLocal DEF Continues, OthersStay
<1>7. CASE UNCHANGED vars \/ \E r \in Refund, s \in RefundWebhookStatus : RefundWebhook(r, s)
  BY <1>0, <1>2, <1>7, OtherStepKeeps
<1> QED  BY <1>3, <1>4, <1>5, <1>6, <1>7, NextSplit

\* When a request is about to mark a payment REFUNDED for its refunds, refunds
\* of at least the whole amount are saved, whatever else has been refunded
\* since it summed them: for refund amounts that are not negative.
THEOREM RefundedPaymentsAreCovered == Spec => []RefundedMeansCovered
<1>1. Init => Covered
  BY DEF Init, Covered, Covering, RefundLabel
<1>2. LInv /\ Covered /\ [Next]_vars => Covered'
  BY CoveredStep
<1>3. Covered => RefundedMeansCovered
  BY DEF Covered, Covering, RefundedMeansCovered
<1> QED  BY <1>1, <1>2, <1>3, LInvHolds, PTL DEF Spec
-----------------------------------------------------------------------------
(* A request that resolves a dispute holds the dispute's row, of the payment *)
(* it writes; without contention that payment has the outcome by the time    *)
(* the dispute is saved.                                                     *)

Outcome(accepted) == IF accepted THEN "refunded" ELSE "completed"

Resolving(label, f) ==
    label = "resolve.save" \/ (label \in {"update.read", "update.save"} /\ f.next = "resolve.save")

Holding(label, f, h) ==
    /\ label \notin {"update.read", "update.save", "resolve.save"} => f.next = "idle"
    /\ label = "dispute.save" =>
           /\ h.d \in Dispute /\ h.row.payment = f.p /\ h.row.status = "open"
           /\ f.r = None
    /\ Resolving(label, f) =>
           /\ h.d \in Dispute /\ h.row.payment = f.p /\ h.row.status # "absent"
           /\ f.status = Outcome(h.row.accepted)

Reached(label, f, h, pay, cont) ==
    label = "resolve.save" /\ h.row.status = "resolved" /\ f.p \notin cont =>
        pay[f.p].status = f.status

DInv ==
    /\ DisputesTypeOK /\ FramesOK /\ Alone /\ Unspent
    /\ \A d \in Dispute : dispute[d].status # "absent" => dispute[d].payment \in Payment
    /\ \A w \in Worker : Holding(pc[w], frame[w], dframe[w])
    /\ \A w \in Worker : Reached(pc[w], frame[w], dframe[w], payment, contended)

DRow == [d : Dispute \cup {None}, row : DisputeRow]

LEMMA DTypes ==
    /\ NoDispute \in DRow /\ NoFrame.next = "idle" /\ NoFrame.p = None
    /\ {"dispute.save", "update.read", "resolve.save"} \subseteq Label \ {"idle"}
  BY DEF NoDispute, DRow, AbsentDispute, DisputeRow, NoFrame, Label

\* A request of the disputes service begins.
LEMMA DisputeBegins ==
    ASSUME DInv, NEW w \in Worker,
           NEW label \in {"dispute.save", "update.read", "resolve.save"},
           NEW f \in Frame, f.p \in Payment, Begin(w, label, f),
           NEW d \in Dispute, NEW row \in DisputeRow, Hold(w, d, row),
           UNCHANGED <<rows, dispute, everCompleted, everRefunded, refundRace, aborted>>,
           LET h == [d |-> d, row |-> row] IN
               Holding(label, f, h) /\ (label = "resolve.save" => row.status # "resolved")
    PROVE  DInv'
<1> DEFINE h == [d |-> d, row |-> row]
<1>0. /\ TInv /\ TypeOK /\ label \in Label \ {"idle"} /\ label \notin RefundLabel
      /\ h \in DRow /\ h.row = row /\ dframe \in [Worker -> DRow]
  BY DTypes DEF DInv, DisputesTypeOK, TInv, DRow, RefundLabel
<1>1. TypeOK'
  BY <1>0, BeginType DEF TypeOK, rows
<1>2. FramesOK'
  BY <1>0, BeginFrames
<1>3. Starts(w, f.p)
  BY <1>0, BeginStarts
<1>4. Alone'
  BY <1>3, AloneKept DEF DInv
<1>5. /\ pc'[w] = label /\ frame'[w] = f /\ dframe'[w] = h
      /\ \A v \in Worker : v # w => pc'[v] = pc[v] /\ frame'[v] = frame[v] /\ dframe'[v] = dframe[v]
      /\ contended \subseteq contended' /\ payment' = payment
  BY <1>0 DEF Begin, Hold, TypeOK, rows
<1>6. DisputesTypeOK'
  <2>1. dframe' \in [Worker -> DRow]
    BY <1>0 DEF Hold
  <2> QED  BY <1>1, <2>1 DEF DisputesTypeOK, DInv, DRow
<1> HIDE DEF h
<1>7. Unspent'
  BY <1>5 DEF Unspent, InFlight, DInv
<1>8. \A v \in Worker : Holding(pc'[v], frame'[v], dframe'[v])
  BY <1>5 DEF DInv, h
<1>9. \A v \in Worker : Reached(pc'[v], frame'[v], dframe'[v], payment', contended')
  <2>1. ASSUME NEW v \in Worker, v # w
        PROVE  Reached(pc'[v], frame'[v], dframe'[v], payment', contended')
    BY <1>5, <2>1 DEF DInv, Reached
  <2>2. Reached(pc'[w], frame'[w], dframe'[w], payment', contended')
    BY <1>0, <1>5 DEF Reached
  <2> QED  BY <2>1, <2>2
<1> QED  BY <1>2, <1>4, <1>6, <1>7, <1>8, <1>9 DEF DInv

\* It saves its dispute and goes on, or ends.
LEMMA DisputeGoes ==
    ASSUME DInv, NEW w \in Worker, pc[w] # "idle",
           NEW label \in {"idle", "update.read"}, NEW f \in Frame, Goto(w, label, f),
           label # "idle" => f.p = frame[w].p,
           f.next = "idle",
           dframe[w].d \in Dispute, dframe[w].row.payment \in Payment,
           dispute' = [dispute EXCEPT ![dframe[w].d] = dframe[w].row],
           Release(w), UNCHANGED <<rows, history>>
    PROVE  DInv'
<1>0. /\ TInv /\ TypeOK /\ label \in Label \ RefundLabel /\ dframe \in [Worker -> DRow]
      /\ dframe[w].row \in DisputeRow /\ frame[w].p \in Payment
  BY DTypes DEF DInv, DisputesTypeOK, TInv, DRow, RefundLabel, Label, FramesOK
<1>1. TypeOK'
  BY <1>0, GotoType DEF TypeOK, rows, history
<1>2. FramesOK'
  BY <1>0, GotoFrames
<1>3. OthersStay(w) /\ pc'[w] = label /\ frame'[w] = f /\ Continues(w)
  BY <1>0, GotoContinues DEF Continues, history
<1>4. Alone'
  BY <1>3, AloneKept DEF DInv
<1>5. /\ \A v \in Worker : v # w => pc'[v] = pc[v] /\ frame'[v] = frame[v] /\ dframe'[v] = dframe[v]
      /\ contended' = contended /\ payment' = payment
  BY <1>0, <1>3 DEF OthersStay, Release, rows, history
<1>6. DisputesTypeOK'
  <2>1. dframe' \in [Worker -> DRow]
    BY <1>0, DTypes DEF Release
  <2>2. dispute' \in [Dispute -> DisputeRow]
    BY <1>0 DEF DInv, DisputesTypeOK
  <2> QED  BY <1>1, <2>1, <2>2 DEF DisputesTypeOK, DRow
<1>7. Unspent'
  BY <1>3, <1>5 DEF Unspent, InFlight, DInv
<1>8. \A v \in Worker : Holding(pc'[v], frame'[v], dframe'[v])
  <2>1. Holding(pc'[w], frame'[w], dframe'[w])
    BY <1>3 DEF Holding, Resolving
  <2> QED  BY <1>5, <2>1 DEF DInv
<1>9. \A v \in Worker : Reached(pc'[v], frame'[v], dframe'[v], payment', contended')
  <2>1. Reached(pc'[w], frame'[w], dframe'[w], payment', contended')
    BY <1>3 DEF Reached
  <2> QED  BY <1>5, <2>1 DEF DInv
<1>10. \A d \in Dispute : dispute'[d].status # "absent" => dispute'[d].payment \in Payment
  BY DEF DInv, DisputesTypeOK
<1> QED  BY <1>2, <1>4, <1>6, <1>7, <1>8, <1>9, <1>10 DEF DInv
\* What the ledger's steps do to the label and the frame of the request.
LEMMA RequestFrame ==
    ASSUME TInv, NEW w \in Worker, NEW q \in Payment, RequestOn(w, q)
    PROVE  /\ pc'[w] \in {"payment.txn", "update.save", "refund.check", "process.risk"}
           /\ frame'[w].next = "idle"
<1>0. Loaded(q) \in Frame /\ Loaded(q).next = "idle"
  BY LoadedType DEF TInv
<1>1. ASSUME NEW a \in Amount, CreatePayment(w, q, a)
      PROVE  pc'[w] = "payment.txn" /\ frame'[w].next = "idle"
  BY <1>1 DEF CreatePayment, Begin, TInv, TypeOK, NoFrame
<1>2. ASSUME NEW s \in WebhookStatus, PaymentWebhook(w, q, s)
      PROVE  pc'[w] = "update.save" /\ frame'[w].next = "idle"
  BY <1>0, <1>2 DEF PaymentWebhook, Begin, TInv, TypeOK, Frame
<1>3. ASSUME NEW r \in Refund, NEW a \in RefundAmount, RefundRequest(w, q, r, a)
      PROVE  pc'[w] = "refund.check" /\ frame'[w].next = "idle"
  BY <1>0, <1>3 DEF RefundRequest, Begin, TInv, TypeOK, Frame
<1>4. ASSUME Process(w, q)
      PROVE  pc'[w] = "process.risk" /\ frame'[w].next = "idle"
  BY <1>0, <1>4 DEF Process, Begin, TInv, TypeOK
<1> QED
  BY <1>1, <1>2, <1>3, <1>4
     DEF RequestOn, PaymentEndpoints, RefundEndpoints, WebhookEndpoints

LEMMA StepFrame ==
    ASSUME TInv, NEW w \in Worker, Step(w) \/ Abort(w)
    PROVE  \/ pc'[w] = "idle" /\ frame'[w].next = "idle"
           \/ /\ pc[w] = "update.read" /\ pc'[w] = "update.save"
              /\ frame'[w].next = frame[w].next /\ frame'[w].status = frame[w].status
           \/ UpdateSave(w) /\ pc'[w] = "resolve.save" /\ frame'[w] = frame[w]
              /\ frame[w].next = "resolve.save"
           \/ /\ pc[w] \notin {"update.read", "update.save", "resolve.save"}
              /\ pc'[w] \notin {"dispute.save", "resolve.save"}
              /\ frame'[w].next = frame[w].next
<1>0. TypeOK /\ frame[w] \in Frame /\ NoFrame.next = "idle"
  BY DTypes DEF TInv, TypeOK
<1>1. CASE \/ PaymentTxn(w) \/ RefundRefused(w) \/ ProcessReject(w) \/ ProcessNotify(w)
           \/ ProcessThrow(w) \/ Abort(w)
  BY <1>0, <1>1 DEF PaymentTxn, RefundRefused, ProcessReject, ProcessNotify, ProcessThrow, Abort,
                    End, Goto, TypeOK
<1>2. CASE UpdateRead(w)
  <2>1. pc[w] = "update.read" /\ pc'[w] = "update.save"
        /\ frame'[w] = [frame[w] EXCEPT !.row = payment[frame[w].p], !.seen = TxnsOf(frame[w].p)]
    BY <1>0, <1>2 DEF UpdateRead, Goto, TypeOK
  <2>2. frame'[w].next = frame[w].next /\ frame'[w].status = frame[w].status
    BY <1>0, <2>1 DEF Frame
  <2> QED  BY <2>1, <2>2
<1>3. CASE UpdateSave(w)
  BY <1>0, <1>3 DEF UpdateSave, Goto, TypeOK, Frame, ReturnLabel
<1>4. CASE RefundChecked(w)
  BY <1>0, <1>4 DEF RefundChecked, Goto, TypeOK, Frame
<1>5. CASE RefundSave(w) \/ ProcessSave(w) \/ ProcessError(w) \/ ProcessCatch(w)
  BY <1>0, <1>5 DEF RefundSave, ProcessSave, ProcessError, ProcessCatch, Goto, TypeOK
<1>6. CASE RefundTxn(w)
  BY <1>0, <1>6 DEF RefundTxn, End, Goto, TypeOK, Frame
<1>7. CASE ProcessPi(w)
  BY <1>0, <1>7 DEF ProcessPi, Goto, TypeOK, Frame
<1> QED  BY <1>1, <1>2, <1>3, <1>4, <1>5, <1>6, <1>7 DEF Step

LEMMA LedgerStepKeeps == DInv /\ LedgerStep => DInv'
<1> SUFFICES ASSUME DInv, LedgerStep PROVE DInv'
  OBVIOUS
<1>0. /\ TInv /\ TypeOK /\ Alone /\ Unspent /\ [Next]_vars /\ dframe \in [Worker -> DRow]
      /\ dframe' = [w \in Worker |-> IF pc'[w] = "idle" THEN NoDispute ELSE dframe[w]]
      /\ UNCHANGED dispute
  BY DEF DInv, DisputesTypeOK, TInv, LedgerStep, DRow
<1>1. TInv' /\ Alone' /\ Unspent'
  BY <1>0, TInvStep, AloneStep, UnspentStep
<1>2. DisputesTypeOK' /\ FramesOK'
  <2>1. dframe' \in [Worker -> DRow]
    BY <1>0, DTypes
  <2> QED  BY <1>0, <1>1, <2>1 DEF DisputesTypeOK, TInv, DInv, DRow
\* A request that is not the one that steps.
<1>3. ASSUME NEW v \in Worker, pc'[v] = pc[v], frame'[v] = frame[v]
      PROVE  Holding(pc'[v], frame'[v], dframe'[v])
  BY <1>0, <1>3 DEF DInv, Holding, Resolving
<1>4. ASSUME NEW v \in Worker, pc'[v] = pc[v], frame'[v] = frame[v], pc[v] # "idle",
             frame[v].p \notin contended' => Kept(frame[v].p)
      PROVE  Reached(pc'[v], frame'[v], dframe'[v], payment', contended')
  BY <1>0, <1>4 DEF DInv, Reached, Kept
<1>5. \A v \in Worker : pc'[v] = "idle" => Reached(pc'[v], frame'[v], dframe'[v], payment', contended')
  BY DEF Reached
<1>6. ASSUME NEW w \in Worker, NEW q \in Payment, RequestOn(w, q), NEW v \in Worker
      PROVE  /\ Holding(pc'[v], frame'[v], dframe'[v])
             /\ Reached(pc'[v], frame'[v], dframe'[v], payment', contended')
  <2>1. CASE v = w
    BY <1>0, <1>6, <2>1, RequestFrame DEF Holding, Resolving, Reached
  <2>2. CASE v # w
    <3>1. pc'[v] = pc[v] /\ frame'[v] = frame[v] /\ Starts(w, q)
          /\ (frame[v].p \in Payment \ {q} => Kept(frame[v].p))
      BY <1>0, <1>6, <2>2, RequestIsLocal DEF Starts, OthersStay
    <3>2. ASSUME pc[v] # "idle", frame[v].p \notin contended'
          PROVE  frame[v].p \in Payment \ {q}
      BY <1>0, <2>2, <3>1, <3>2, OnlyMover DEF TInv, FramesOK
    <3> QED  BY <1>3, <1>4, <1>5, <3>1, <3>2
  <2> QED  BY <2>1, <2>2
<1>7. ASSUME NEW w \in Worker, Step(w) \/ Abort(w), NEW v \in Worker
      PROVE  /\ Holding(pc'[v], frame'[v], dframe'[v])
             /\ Reached(pc'[v], frame'[v], dframe'[v], payment', contended')
  <2>0. Continues(w) /\ frame[w].p \in Payment /\ \A p \in Payment \ {frame[w].p} : Kept(p)
    BY <1>0, <1>7, StepIsLocal DEF Continues, TInv, FramesOK
  <2>1. CASE v = w
    <3>1. dframe'[w] = dframe[w] \/ pc'[w] = "idle"
      BY <1>0
    <3>2. Holding(pc[w], frame[w], dframe[w])
      BY DEF DInv
    <3>3. pc'[w] = "idle" \/ frame'[w].p = frame[w].p
      BY <2>0 DEF Continues
    <3>4. Holding(pc'[w], frame'[w], dframe'[w])
      <4>1. CASE pc'[w] = "idle"
        BY <1>0, <1>7, <4>1, <3>2, StepFrame DEF Holding, Resolving
      <4>2. CASE pc'[w] # "idle"
        BY <1>0, <1>7, <3>1, <3>2, <3>3, <4>2, StepFrame DEF Holding, Resolving, UpdateSave
      <4> QED  BY <4>1, <4>2
    <3>5. Reached(pc'[w], frame'[w], dframe'[w], payment', contended')
      <4> SUFFICES ASSUME pc'[w] = "resolve.save"
                   PROVE  payment'[frame'[w].p].status = frame'[w].status
        BY DEF Reached
      <4>1. UpdateSave(w) /\ frame'[w] = frame[w]
        BY <1>0, <1>7, StepFrame
      <4>2. payment'[frame[w].p] = [frame[w].row EXCEPT !.status = frame[w].status]
        BY <1>0, <2>0, <4>1 DEF UpdateSave, SavePayment, TypeOK
      <4>3. frame[w] \in Frame
        BY <1>0 DEF TypeOK
      <4>4. payment'[frame[w].p].status = frame[w].status
        BY <4>2, <4>3 DEF Frame, Row
      <4> QED  BY <4>1, <4>4
    <3> QED  BY <2>1, <3>4, <3>5
  <2>2. CASE v # w
    <3>1. pc'[v] = pc[v] /\ frame'[v] = frame[v]
      BY <2>0, <2>2 DEF Continues, OthersStay
    <3>2. ASSUME pc[v] # "idle", frame[v].p \notin contended'
          PROVE  frame[v].p \in Payment \ {frame[w].p}
      BY <1>0, <2>0, <2>2, <3>1, <3>2, OnlyMover DEF TInv, FramesOK
    <3> QED  BY <1>3, <1>4, <1>5, <2>0, <3>1, <3>2
  <2> QED  BY <2>1, <2>2
<1>8. ASSUME UNCHANGED vars \/ \E r \in Refund, s \in RefundWebhookStatus : RefundWebhook(r, s),
             NEW v \in Worker
      PROVE  /\ Holding(pc'[v], frame'[v], dframe'[v])
             /\ Reached(pc'[v], frame'[v], dframe'[v], payment', contended')
  <2>1. UNCHANGED <<pc, frame, contended>> /\ \A p \in Payment : Kept(p)
    BY <1>0, <1>8, OtherStepKeeps
  <2>2. pc[v] # "idle" => frame[v].p \in Payment
    BY <1>0 DEF TInv, FramesOK
  <2> QED  BY <1>3, <1>4, <1>5, <2>1, <2>2
<1>9. \A v \in Worker : /\ Holding(pc'[v], frame'[v], dframe'[v])
                        /\ Reached(pc'[v], frame'[v], dframe'[v], payment', contended')
  BY <1>0, <1>6, <1>7, <1>8, NextSplit
<1> QED  BY <1>0, <1>1, <1>2, <1>9 DEF DInv, TInv

LEMMA DInvStep == DInv /\ [DisputesNext]_dvars => DInv'
<1> SUFFICES ASSUME DInv, [DisputesNext]_dvars PROVE DInv'
  OBVIOUS
<1>0. TInv /\ NoFrame \in Frame /\ NoFrame.next = "idle"
  BY NoFrameType, DTypes DEF DInv, DisputesTypeOK, TInv
<1>1. ASSUME NEW w \in Worker, NEW p \in Payment, NEW d \in Dispute, DisputeRequest(w, p, d)
      PROVE  DInv'
  <2> DEFINE f == [NoFrame EXCEPT !.p = p]
             row == [payment |-> p, accepted |-> FALSE, status |-> "open"]
  <2>1. f \in Frame /\ f.p = p /\ f.next = "idle" /\ f.r = None
    BY <1>0 DEF Frame, NoFrame
  <2>2. row \in DisputeRow /\ row.payment = p /\ row.status = "open"
    BY DEF DisputeRow, DisputeStatus
  <2>3. /\ Begin(w, "dispute.save", f) /\ Hold(w, d, row)
        /\ UNCHANGED <<rows, dispute, everCompleted, everRefunded, refundRace, aborted>>
    BY <1>1 DEF DisputeRequest
  <2> HIDE DEF f, row
  <2> QED  BY <2>1, <2>2, <2>3, DisputeBegins DEF Holding, Resolving
<1>2. ASSUME NEW w \in Worker, NEW d \in Dispute, NEW s \in DisputeUpdate,
             NEW accepted \in BOOLEAN, ResolveRequest(w, d, s, accepted)
      PROVE  DInv'
  <2> DEFINE row == [dispute[d] EXCEPT !.status = s, !.accepted = accepted]
             f == [NoFrame EXCEPT !.p = row.payment,
                                  !.status = IF accepted THEN "refunded" ELSE "completed",
                                  !.next = "resolve.save"]
             label == IF s = "resolved" THEN "update.read" ELSE "resolve.save"
  <2>0. dispute[d].status # "absent"
    BY <1>2 DEF ResolveRequest
  <2>1. dispute[d] \in DisputeRow /\ dispute[d].payment \in Payment /\ s \in DisputeStatus
    BY <2>0, DisputeAssumption DEF DInv, DisputesTypeOK
  <2>2. row \in DisputeRow /\ row.payment \in Payment /\ row.status = s /\ row.accepted = accepted
    BY <2>1 DEF DisputeRow
  <2>3. /\ Begin(w, label, f) /\ Hold(w, d, row)
        /\ UNCHANGED <<rows, dispute, everCompleted, everRefunded, refundRace, aborted>>
    BY <1>2 DEF ResolveRequest
  <2> HIDE DEF row
  <2>4. f \in Frame /\ f.p = row.payment /\ f.next = "resolve.save" /\ f.status = Outcome(accepted)
    BY <1>0, <2>2 DEF Frame, PaymentStatus, ReturnLabel, Outcome
  <2>5. s # "absent"
    BY <2>1 DEF DisputeStatus
  <2> HIDE DEF f
  <2>6. Holding(label, f, [d |-> d, row |-> row]) /\ (label = "resolve.save" => row.status # "resolved")
    BY <2>2, <2>4, <2>5 DEF Holding, Resolving
  <2>7. label \in {"dispute.save", "update.read", "resolve.save"}
    OBVIOUS
  <2> HIDE DEF label
  <2> QED  BY <2>2, <2>3, <2>4, <2>6, <2>7, DisputeBegins
<1>3. ASSUME NEW w \in Worker, DisputeSave(w) PROVE DInv'
  <2> DEFINE f == [frame[w] EXCEPT !.status = "disputed"]
  <2>1. /\ pc[w] = "dispute.save" /\ frame[w] \in Frame /\ frame[w].p \in Payment
        /\ Holding(pc[w], frame[w], dframe[w])
    BY <1>0, <1>3 DEF DisputeSave, DInv, TInv, TypeOK, FramesOK
  <2>2. f \in Frame /\ f.p = frame[w].p /\ f.next = "idle"
    BY <2>1 DEF Frame, PaymentStatus, Holding
  <2>3. /\ Goto(w, "update.read", f) /\ Release(w) /\ UNCHANGED <<rows, history>>
        /\ dispute' = [dispute EXCEPT ![dframe[w].d] = dframe[w].row]
    BY <1>3 DEF DisputeSave
  <2> HIDE DEF f
  <2>4. dframe[w].d \in Dispute /\ dframe[w].row.payment \in Payment
    BY <2>1 DEF Holding
  <2> QED  BY <2>1, <2>2, <2>3, <2>4, DisputeGoes
<1>4. ASSUME NEW w \in Worker, ResolveSave(w) PROVE DInv'
  <2>1. /\ pc[w] = "resolve.save" /\ frame[w].p \in Payment
        /\ Holding(pc[w], frame[w], dframe[w])
    BY <1>0, <1>4 DEF ResolveSave, DInv, TInv, FramesOK
  <2>2. /\ Goto(w, "idle", NoFrame) /\ Release(w) /\ UNCHANGED <<rows, history>>
        /\ dispute' = [dispute EXCEPT ![dframe[w].d] = dframe[w].row]
    BY <1>4 DEF ResolveSave, End
  <2>3. dframe[w].d \in Dispute /\ dframe[w].row.payment \in Payment
    BY <2>1 DEF Holding, Resolving
  <2> QED  BY <1>0, <2>1, <2>2, <2>3, DisputeGoes
<1>5. CASE LedgerStep
  BY <1>5, LedgerStepKeeps
<1>6. CASE UNCHANGED dvars
  <2>1. UNCHANGED vars /\ UNCHANGED <<dispute, dframe>> /\ UNCHANGED <<pc, frame, payment, contended>>
    BY <1>6 DEF dvars, vars, rows, history
  <2>2. TInv' /\ Alone' /\ Unspent'
    BY <1>0, <2>1, TInvStep, AloneStep, UnspentStep DEF DInv
  <2> QED  BY <2>1, <2>2 DEF DInv, DisputesTypeOK, TInv
<1> QED
  BY <1>1, <1>2, <1>3, <1>4, <1>5, <1>6 DEF DisputesNext, DisputeEndpoints

LEMMA DisputesStart == DisputesInit => DInv
<1> SUFFICES ASSUME DisputesInit PROVE DInv
  OBVIOUS
<1>1. TInv /\ Alone /\ Unspent
  BY TInvInit DEF DisputesInit, Init, Alone, Unspent, InFlight
<1>2. DisputesTypeOK
  BY <1>1, DTypes DEF DisputesInit, DisputesTypeOK, TInv, DRow, AbsentDispute, DisputeRow
<1>3. \A w \in Worker : pc[w] = "idle" /\ frame[w] = NoFrame
  BY DEF DisputesInit, Init
<1>4. \A d \in Dispute : dispute[d].status = "absent"
  BY DEF DisputesInit, AbsentDispute
<1>5. \A w \in Worker : /\ Holding(pc[w], frame[w], dframe[w])
                        /\ Reached(pc[w], frame[w], dframe[w], payment, contended)
  BY <1>3, DTypes DEF Holding, Resolving, Reached
<1> QED  BY <1>1, <1>2, <1>4, <1>5 DEF DInv, TInv

LEMMA DInvHolds == DisputesSpec => []DInv
  BY DisputesStart, DInvStep, PTL DEF DisputesSpec

\* Unless requests on it overlap, a payment whose status is DISPUTED gets no
\* refund, for any number of disputes, refunds and requests.
THEOREM DisputedPaymentsAreNotRefunded == DisputesSpec => NoRefundInDispute
<1>1. DInv /\ [DisputesNext]_dvars =>
          \A p \in Payment : refunded'[p] # refunded[p] /\ payment[p].status = "disputed"
                                 => p \in contended
  <2> SUFFICES ASSUME DInv, [DisputesNext]_dvars, NEW p \in Payment,
                      refunded'[p] # refunded[p], payment[p].status = "disputed",
                      p \notin contended
               PROVE  FALSE
    OBVIOUS
  <2>1. PICK w \in Worker : RefundSave(w)
    <3>1. Next
      BY DEF DisputesNext, DisputeEndpoints, DisputeRequest, ResolveRequest, DisputeSave,
             ResolveSave, LedgerStep, rows, vars, dvars
    <3> QED
      BY <3>1
         DEF Next, Request, Step, PaymentEndpoints, RefundEndpoints, WebhookEndpoints,
             CreatePayment, PaymentWebhook, RefundRequest, Process, PaymentTxn, UpdateRead,
             UpdateSave, RefundRefused, RefundChecked, RefundTxn, ProcessReject, ProcessPi,
             ProcessSave, ProcessNotify, ProcessError, ProcessCatch, ProcessThrow, Abort,
             RefundWebhook, rows
  <2>2. frame[w].p = p /\ pc[w] = "refund.save"
    BY <2>1 DEF RefundSave, DInv, DisputesTypeOK, TypeOK
  <2> QED  BY <2>2 DEF DInv, Unspent, InFlight
<1> QED  BY <1>1, DInvHolds, PTL DEF DisputesSpec, NoRefundInDispute

\* A dispute is recorded RESOLVED only when its payment already carries the
\* outcome, unless another request on the payment overlapped, for any number
\* of disputes, requests and crashes.
THEOREM ResolutionsReachPayments == DisputesSpec => ResolutionReachesPayment
<1>1. DInv /\ [DisputesNext]_dvars =>
          \A d \in Dispute :
              dispute'[d].status = "resolved" /\ dispute[d].status # "resolved" =>
                  LET p == dispute'[d].payment IN
                  \/ payment[p].status = (IF dispute'[d].accepted THEN "refunded" ELSE "completed")
                  \/ p \in contended
  <2> SUFFICES ASSUME DInv, [DisputesNext]_dvars, NEW d \in Dispute,
                      dispute'[d].status = "resolved", dispute[d].status # "resolved",
                      dispute'[d].payment \notin contended
               PROVE  payment[dispute'[d].payment].status = Outcome(dispute'[d].accepted)
    BY DEF Outcome
  <2>1. PICK w \in Worker : DisputeSave(w) \/ ResolveSave(w)
    BY DEF DisputesNext, DisputeEndpoints, DisputeRequest, ResolveRequest, LedgerStep, dvars
  <2>2. dispute' = [dispute EXCEPT ![dframe[w].d] = dframe[w].row]
        /\ pc[w] \in {"dispute.save", "resolve.save"}
    BY <2>1 DEF DisputeSave, ResolveSave
  <2>3. d = dframe[w].d /\ dispute'[d] = dframe[w].row
    BY <2>2 DEF DInv, DisputesTypeOK
  <2>4. Holding(pc[w], frame[w], dframe[w])
        /\ Reached(pc[w], frame[w], dframe[w], payment, contended)
    BY DEF DInv
  <2>5. pc[w] = "resolve.save"
    BY <2>2, <2>3, <2>4 DEF Holding
  <2> QED  BY <2>3, <2>4, <2>5 DEF Holding, Resolving, Reached
<1> QED  BY <1>1, DInvHolds, PTL DEF DisputesSpec, ResolutionReachesPayment
-----------------------------------------------------------------------------
(* What the ledger guarantees it guarantees with the disputes service too:   *)
(* the service's own steps write no row of the ledger, and its requests name *)
(* a payment that exists.                                                    *)

\* A step of the disputes service itself.
DisputeMove(w) ==
    /\ UNCHANGED <<rows, everCompleted, everRefunded, refundRace, aborted>>
    /\ contended \subseteq contended'
    /\ pc[w] \in {"idle", "dispute.save", "resolve.save"}
    /\ pc' = [pc EXCEPT ![w] = pc'[w]] /\ frame' = [frame EXCEPT ![w] = frame'[w]]
    /\ \/ pc'[w] = "idle"
       \/ pc'[w] \in {"dispute.save", "update.read", "resolve.save"} /\ Exists(frame'[w].p)
    /\ frame'[w].r = None

DisputedExist == \A d \in Dispute : dispute[d].status # "absent" => Exists(dispute[d].payment)

CInv == DInv /\ LInv /\ DisputedExist

LEMMA DisputeMoves ==
    ASSUME CInv, [DisputesNext]_dvars, ~[Next]_vars
    PROVE  \E w \in Worker : DisputeMove(w)
<1> USE DEF CInv
<1>0. /\ TInv /\ TypeOK /\ NoFrame \in Frame /\ NoFrame.r = None
      /\ dispute \in [Dispute -> DisputeRow]
  BY NoFrameType DEF LInv, TInv, NoFrame, DInv, DisputesTypeOK
<1>1. ASSUME NEW w \in Worker, NEW p \in Payment, NEW d \in Dispute, DisputeRequest(w, p, d)
      PROVE  DisputeMove(w)
  <2> DEFINE f == [NoFrame EXCEPT !.p = p]
  <2>1. f.p = p /\ f.r = None
    BY <1>0 DEF Frame
  <2>2. /\ Begin(w, "dispute.save", f) /\ Exists(p)
        /\ UNCHANGED <<rows, everCompleted, everRefunded, refundRace, aborted>>
    BY <1>1 DEF DisputeRequest
  <2> HIDE DEF f
  <2> QED  BY <1>0, <2>1, <2>2 DEF Begin, DisputeMove, TypeOK
<1>2. ASSUME NEW w \in Worker, NEW d \in Dispute, NEW s \in DisputeUpdate,
             NEW accepted \in BOOLEAN, ResolveRequest(w, d, s, accepted)
      PROVE  DisputeMove(w)
  <2> DEFINE row == [dispute[d] EXCEPT !.status = s, !.accepted = accepted]
             f == [NoFrame EXCEPT !.p = row.payment,
                                  !.status = IF accepted THEN "refunded" ELSE "completed",
                                  !.next = "resolve.save"]
             label == IF s = "resolved" THEN "update.read" ELSE "resolve.save"
  <2>1. row.payment = dispute[d].payment
    BY <1>0 DEF DisputeRow
  <2>2. Exists(dispute[d].payment)
    BY <1>2 DEF ResolveRequest, DisputedExist
  <2>3. /\ Begin(w, label, f)
        /\ UNCHANGED <<rows, everCompleted, everRefunded, refundRace, aborted>>
    BY <1>2 DEF ResolveRequest
  <2> HIDE DEF row
  <2>4. f.p = dispute[d].payment /\ f.r = None
    BY <1>0, <2>1 DEF Frame
  <2>5. label \in {"update.read", "resolve.save"}
    OBVIOUS
  <2> HIDE DEF f, label
  <2> QED  BY <1>0, <2>2, <2>3, <2>4, <2>5 DEF Begin, DisputeMove, TypeOK
<1>3. ASSUME NEW w \in Worker, DisputeSave(w) PROVE DisputeMove(w)
  <2> DEFINE f == [frame[w] EXCEPT !.status = "disputed"]
  <2>1. /\ pc[w] = "dispute.save" /\ Goto(w, "update.read", f)
        /\ UNCHANGED <<rows, history>>
    BY <1>3 DEF DisputeSave
  <2>2. frame[w] \in Frame /\ frame[w].r = None /\ Exists(frame[w].p)
    BY <1>0, <2>1 DEF TypeOK, DInv, Holding, LInv, FramesGood, Good, NamedLabel, Exists
  <2>3. f.p = frame[w].p /\ f.r = None
    BY <2>2 DEF Frame
  <2> HIDE DEF f
  <2> QED  BY <1>0, <2>1, <2>2, <2>3 DEF Goto, DisputeMove, TypeOK, history
<1>4. ASSUME NEW w \in Worker, ResolveSave(w) PROVE DisputeMove(w)
  BY <1>0, <1>4 DEF ResolveSave, End, Goto, DisputeMove, TypeOK, history
<1> QED
  BY <1>1, <1>2, <1>3, <1>4 DEF DisputesNext, DisputeEndpoints, LedgerStep, dvars

\* Nothing another request holds, and no request of the ledger's own, changes.
LEMMA DisputeMoveShape ==
    ASSUME TypeOK, NEW w \in Worker, DisputeMove(w)
    PROVE  /\ OthersStay(w)
           /\ \A v \in Worker : pc'[v] \notin {"idle", "dispute.save", "update.read", "resolve.save"} =>
                  pc'[v] = pc[v] /\ frame'[v] = frame[v]
           /\ \A v \in Worker : pc[v] \notin {"idle", "dispute.save", "resolve.save"} =>
                  pc'[v] = pc[v] /\ frame'[v] = frame[v]
<1>1. OthersStay(w)
  BY DEF TypeOK, DisputeMove, OthersStay
<1> QED  BY <1>1 DEF DisputeMove, OthersStay

LEMMA CInvStep == CInv /\ [DisputesNext]_dvars => CInv'
<1> SUFFICES ASSUME CInv, [DisputesNext]_dvars PROVE LInv' /\ DisputedExist'
  BY DInvStep DEF CInv
<1> USE DEF CInv
<1>1. LInv' /\ Keeps
  <2>1. CASE [Next]_vars
    BY <2>1, LInvStep, StepShape
  <2>2. ASSUME NEW w \in Worker, DisputeMove(w) PROVE LInv' /\ Keeps
    <3>1. Keeps /\ CompletedRecorded' /\ RefundsFollowCompletion' /\ UNCHANGED <<payment, everCompleted>>
      BY <2>2, NoSaveKeeps DEF DisputeMove, rows
    <3>2. Good(pc'[w], frame'[w], payment', everCompleted')
      BY <2>2, <3>1 DEF DisputeMove, Good, NamedLabel, LoadedLabel, RefundLabel, Exists
    <3>3. FramesGood'
      BY <2>2, <3>1, <3>2, GotoGood DEF DisputeMove
    <3>4. TInv'
      BY DInvStep DEF DInv, DisputesTypeOK, TInv
    <3> QED  BY <3>1, <3>3, <3>4 DEF LInv
  <2> QED  BY <2>1, <2>2, DisputeMoves
<1>2. DisputedExist'
  <2> SUFFICES ASSUME NEW d \in Dispute, dispute'[d].status # "absent"
               PROVE  Exists(dispute[d].payment)'
    BY DEF DisputedExist
  <2>1. CASE dispute'[d] = dispute[d]
    <3>1. dispute[d].payment \in Payment /\ Exists(dispute[d].payment)
      BY <2>1 DEF DInv, DisputedExist
    <3> QED  BY <1>1, <2>1, <3>1 DEF Keeps, Exists
  <2>2. CASE dispute'[d] # dispute[d]
    <3>1. PICK w \in Worker : DisputeSave(w) \/ ResolveSave(w)
      BY <2>2 DEF DisputesNext, DisputeEndpoints, DisputeRequest, ResolveRequest, LedgerStep, dvars
    <3>2. dispute' = [dispute EXCEPT ![dframe[w].d] = dframe[w].row] /\ UNCHANGED payment
          /\ pc[w] \in {"dispute.save", "resolve.save"}
      BY <3>1 DEF DisputeSave, ResolveSave, rows
    <3>3. dispute'[d] = dframe[w].row
      BY <2>2, <3>2 DEF DInv, DisputesTypeOK
    <3>4. dframe[w].row.payment = frame[w].p
      BY <3>2 DEF DInv, Holding, Resolving
    <3>5. Exists(frame[w].p)
      BY <3>2 DEF LInv, FramesGood, Good, NamedLabel, Exists
    <3> QED  BY <3>2, <3>3, <3>4, <3>5 DEF Exists
  <2> QED  BY <2>1, <2>2
<1> QED  BY <1>1, <1>2

\* All that the proofs about the ledger have carried along its own steps.
Books == RefundBound /\ Holders /\ Sole /\ Recorded /\ PiKnown /\ PiHeld /\ Marked /\ Covered

\* The ledger's own steps.
LEMMA BooksStep == CInv /\ Books /\ [Next]_vars => Books'
<1> SUFFICES ASSUME CInv, Books, [Next]_vars PROVE Books'
  OBVIOUS
<1>1. TInv /\ HInv /\ LInv /\ Alone /\ BInv /\ LedgerInv
  BY DEF CInv, Books, DInv, LInv, HInv, BInv, LedgerInv
<1>2. RefundBound' /\ Holders'
  BY <1>1, BInvStep, HoldersStep DEF BInv
<1>3. Sole' /\ Recorded'
  BY <1>1, SoleStep, RecordedStep DEF Books
<1>4. PiKnown' /\ PiHeld'
  BY <1>1, PiKnownStep, PiHeldStep DEF Books
<1>5. Marked' /\ Covered'
  BY <1>1, MarkedStep, CoveredStep DEF Books
<1> QED  BY <1>2, <1>3, <1>4, <1>5 DEF Books

\* The steps of the disputes service.
LEMMA BooksKept ==
    ASSUME CInv, Books, NEW w \in Worker, DisputeMove(w)
    PROVE  Books'
<1>0. /\ LInv /\ TInv /\ TypeOK /\ HInv
      /\ UNCHANGED <<payment, refund, refunded, txn, detached, piAnswered,
                     everCompleted, everRefunded, refundRace, aborted>>
      /\ contended \subseteq contended'
  BY DEF CInv, LInv, TInv, HInv, Books, DisputeMove, rows
<1>1. /\ OthersStay(w)
      /\ \A v \in Worker : pc'[v] \notin {"idle", "dispute.save", "update.read", "resolve.save"} =>
             pc'[v] = pc[v] /\ frame'[v] = frame[v]
      /\ \A v \in Worker : pc[v] \notin {"idle", "dispute.save", "resolve.save"} =>
             pc'[v] = pc[v] /\ frame'[v] = frame[v]
  BY <1>0, DisputeMoveShape
<1>2. RefundBound'
  <2>1. Keeps /\ NoRefundStep
    BY <1>0, <1>1 DEF Keeps, NoRefundStep, Exists
  <2> QED  BY <1>0, <2>1, NoRefundKeeps DEF Books
<1>3. Holders'
  <2>1. frame'[w].r = None /\ HoldsFresh(pc'[w], frame'[w], refund)
    BY DEF DisputeMove, HoldsFresh
  <2> QED  BY <1>0, <1>1, <2>1, HoldersMove
<1>4. Sole'
  <2> SUFFICES ASSUME NEW p \in Payment \ contended' PROVE SoleAt(p)'
    BY DEF Sole
  <2>1. SoleAt(p) /\ Owed(p)' = Owed(p) /\ TxnsOf(p)' = TxnsOf(p)
    BY <1>0 DEF Books, Sole, Owed, TxnsOf
  <2>2. ASSUME NEW v \in Worker, frame'[v].p = p, pc'[v] \in SaveLabel
        PROVE  SeesAll(p, frame[v])'
    <3>1. pc'[v] = pc[v] /\ frame'[v] = frame[v] /\ v \in InFlight(p)
      BY <1>1, <2>2 DEF SaveLabel, InFlight
    <3> QED  BY <1>0, <2>1, <2>2, <3>1 DEF SoleAt, SeesAll
  <2> QED  BY <1>0, <2>1, <2>2 DEF SoleAt, InFlight
<1>5. Recorded'
  BY <1>0, <1>1 DEF Books, Recorded, Exists
<1>6. PiKnown' /\ PiHeld'
  <2>1. PiKnown'
    BY <1>0 DEF Books, PiKnown, Exists
  <2>2. ASSUME NEW p \in piAnswered \ (contended' \cup aborted), ~payment[p].pi
        PROVE  \E v \in InFlight(p)' : HoldsPi(pc'[v], frame'[v])
    <3>1. PICK v \in InFlight(p) : HoldsPi(pc[v], frame[v])
      BY <1>0, <2>2 DEF Books, PiHeld
    <3>2. v \in Worker /\ pc'[v] = pc[v] /\ frame'[v] = frame[v]
      BY <1>1, <3>1 DEF InFlight, HoldsPi
    <3> QED  BY <3>1, <3>2 DEF InFlight
  <2> QED  BY <1>0, <2>1, <2>2 DEF PiHeld
<1>7. Marked'
  <2> SUFFICES ASSUME NEW p \in Payment \ (refundRace \cup aborted),
                      refunded[p] # 0, refunded[p] = payment[p].amount, p \notin everRefunded
               PROVE  \E v \in Worker : frame'[v].p = p /\ Marking(pc'[v], frame'[v], refunded[p])
    BY <1>0 DEF Marked
  <2>1. PICK v \in Worker : frame[v].p = p /\ Marking(pc[v], frame[v], refunded[p])
    BY DEF Books, Marked
  <2>2. pc'[v] = pc[v] /\ frame'[v] = frame[v]
    BY <1>1, <2>1 DEF Marking
  <2> QED  BY <2>1, <2>2
<1>8. Covered'
  <2> SUFFICES ASSUME RefundAmount \subseteq Nat, NEW v \in Worker
               PROVE  Covering(pc'[v], frame'[v], refunded)
    BY <1>0 DEF Covered
  <2>1. CASE v = w
    BY <2>1 DEF DisputeMove, Covering, RefundLabel
  <2>2. CASE v # w
    BY <1>1, <2>2 DEF Books, Covered, OthersStay
  <2> QED  BY <2>1, <2>2
<1> QED  BY <1>2, <1>3, <1>4, <1>5, <1>6, <1>7, <1>8 DEF Books

LEMMA BooksHold == DisputesSpec => [](CInv /\ Books)
<1>1. DisputesInit => CInv /\ Books
  <2> SUFFICES ASSUME DisputesInit PROVE CInv /\ Books
    OBVIOUS
  <2>1. Init /\ \A d \in Dispute : dispute[d].status = "absent"
    BY DEF DisputesInit, AbsentDispute
  <2>2. CInv
    BY <2>1, DisputesStart, LInvInit DEF CInv, DisputedExist
  <2>3. RefundBound /\ Holders
    BY <2>1, BInvInit, HInvInit DEF BInv, HInv
  <2>4. Sole /\ Recorded
    BY <2>1, LedgerStarts DEF LedgerInv
  <2>5. PiKnown /\ PiHeld /\ Marked /\ Covered
    BY <2>1 DEF Init, PiKnown, PiHeld, Marked, Covered, Covering, RefundLabel
  <2> QED  BY <2>2, <2>3, <2>4, <2>5 DEF Books
<1>2. CInv /\ Books /\ [DisputesNext]_dvars => (CInv /\ Books)'
  BY CInvStep, BooksStep, BooksKept, DisputeMoves
<1> QED  BY <1>1, <1>2, PTL DEF DisputesSpec

\* The disputes tables and requests have the shapes of the entities and
\* handlers too, for any number of disputes.
THEOREM DisputesTypeCorrect == DisputesSpec => []DisputesTypeOK
<1>1. DInv => DisputesTypeOK
  BY DEF DInv
<1> QED  BY <1>1, DInvHolds, PTL

\* Opening, resolving and closing disputes, through updateStatus and in between
\* any requests of the ledger, breaks none of the ledger's guarantees: refunds
\* stay within a completed payment, the ledger ends up complete, and full
\* refunds and Pi payments are recorded on the payment.
THEOREM LedgerHoldsWithDisputes ==
    DisputesSpec => [](/\ RefundsWithinPayment /\ RefundsFollowCompletion
                       /\ RefundedMeansCovered /\ FullRefundMarksPayment
                       /\ LedgerComplete /\ PiPaymentRecorded)
<1>1. ASSUME CInv, Books
      PROVE  /\ RefundsWithinPayment /\ RefundsFollowCompletion
             /\ RefundedMeansCovered /\ FullRefundMarksPayment
             /\ LedgerComplete /\ PiPaymentRecorded
  <2>1. RefundsWithinPayment /\ RefundsFollowCompletion
    BY <1>1 DEF CInv, Books, LInv, RefundBound, BoundAt, RefundsWithinPayment
  <2>2. RefundedMeansCovered
    BY <1>1 DEF Books, Covered, Covering, RefundedMeansCovered
  <2>3. FullRefundMarksPayment
    BY <1>1 DEF Books, Marked, Marking, FullRefundMarksPayment, Quiet, InFlight
  <2>4. LedgerInv
    BY <1>1 DEF CInv, DInv, Books, LedgerInv
  <2>5. PiPaymentRecorded
    BY <1>1 DEF Books, PiHeld, PiPaymentRecorded, Quiet
  <2> QED  BY <2>1, <2>2, <2>3, <2>4, <2>5, CompleteWhenQuiet
<1> QED  BY <1>1, BooksHold, PTL
-----------------------------------------------------------------------------
(* The refinement: every step of a request is one line of the clerk's book,  *)
(* or none.                                                                   *)

BookStep == [Book!Next]_(Book!book)

\* Where no amount, refund or mark of the book changes nothing is written.
LEMMA BookUnwritten ==
    ASSUME UNCHANGED <<payment, refunded, everCompleted, refundRace>>
    PROVE  BookStep
  BY DEF BookStep, Book!book, Amounts, Exists

\* Saving a loaded payment pays it or writes nothing.
LEMMA SaveIsPaying ==
    ASSUME LInv, NEW w \in Worker, pc[w] \in LoadedLabel, NEW row \in Row,
           row.status # "absent", row.amount = frame[w].row.amount,
           SavePayment(frame[w], row), UNCHANGED <<refunded, refundRace>>
    PROVE  BookStep
<1> DEFINE p == frame[w].p
<1>1. /\ p \in Payment /\ Exists(p) /\ row.amount = payment[p].amount
      /\ payment \in [Payment -> Row]
  BY DEF LInv, TInv, TypeOK, FramesOK, FramesGood, Good, NamedLabel, LoadedLabel, RefundLabel, Exists
<1>2. /\ payment' = [payment EXCEPT ![p] = row]
      /\ everCompleted' \in {everCompleted, everCompleted \cup {p}}
  BY DEF SavePayment
<1> HIDE DEF p
<1>3. \A q \in Payment : (Exists(q)' <=> Exists(q)) /\ payment'[q].amount = payment[q].amount
  BY <1>1, <1>2 DEF Exists
<1>4. Amounts' = Amounts /\ p \in DOMAIN Amounts
  BY <1>1, <1>3 DEF Amounts
<1>5. CASE everCompleted' = everCompleted
  BY <1>4, <1>5 DEF BookStep, Book!book
<1>6. CASE everCompleted' = everCompleted \cup {p}
  <2>1. Book!Pay(p)
    BY <1>4, <1>6 DEF Book!Pay
  <2> QED  BY <1>1, <2>1 DEF BookStep, Book!Next
<1> QED  BY <1>2, <1>5, <1>6

LEMMA BookIsKept == BInv /\ [Next]_vars => BookStep
<1> SUFFICES ASSUME BInv, [Next]_vars PROVE BookStep
  OBVIOUS
<1>0. LInv /\ TInv /\ TypeOK /\ \A w \in Worker : frame[w] \in Frame
  BY DEF BInv, LInv, TInv, TypeOK
<1>1. ASSUME NEW w \in Worker, NEW p \in Payment, NEW a \in Amount, CreatePayment(w, p, a)
      PROVE  BookStep
  <2>1. /\ ~Exists(p) /\ UNCHANGED <<refunded, everCompleted, refundRace>>
        /\ payment' = [payment EXCEPT ![p] = [status |-> "pending", amount |-> a, pi |-> FALSE]]
    BY <1>1 DEF CreatePayment
  <2>2. Exists(p)' /\ \A q \in Payment : q # p => payment'[q] = payment[q]
    BY <1>0, <2>1 DEF TypeOK, Exists
  <2>3. {q \in Payment : Exists(q)'} = {q \in Payment : Exists(q)} \cup {p}
    BY <2>2 DEF Exists
  <2>4. Amounts' = [q \in DOMAIN Amounts \cup {p} |-> IF q = p THEN Amounts'[p] ELSE Amounts[q]]
    BY <2>1, <2>2, <2>3 DEF Amounts
  <2>5. Book!Enter(p)
    BY <2>1, <2>4 DEF Book!Enter, Amounts
  <2> QED  BY <2>5 DEF BookStep, Book!Next
<1>2. ASSUME NEW w \in Worker,
             UpdateSave(w) \/ ProcessReject(w) \/ ProcessSave(w) \/ ProcessCatch(w)
      PROVE  BookStep
  <2>1. pc[w] \in LoadedLabel /\ UNCHANGED <<refunded, refundRace>>
    BY <1>2 DEF UpdateSave, ProcessReject, ProcessSave, ProcessCatch, LoadedLabel
  <2>2. frame[w] \in Frame /\ frame[w].row.status # "absent"
    BY <1>0, <2>1 DEF LInv, FramesGood, Good
  <2>3. PICK row \in Row : /\ SavePayment(frame[w], row)
                           /\ row.status # "absent" /\ row.amount = frame[w].row.amount
    BY <1>2, <2>2
       DEF UpdateSave, ProcessReject, ProcessSave, ProcessCatch, Frame, Row, PaymentStatus
  <2> QED  BY <1>0, <2>1, <2>3, SaveIsPaying
<1>3. ASSUME NEW w \in Worker, RefundChecked(w) \/ RefundSave(w) PROVE BookStep
  <2> DEFINE p == frame[w].p
  <2>1. UNCHANGED <<payment, everCompleted>> /\ pc[w] \in {"refund.check", "refund.save"}
    BY <1>3 DEF RefundChecked, RefundSave, rows, history
  <2>2. p \in Payment /\ p \in everCompleted /\ Exists(p)
    BY <1>0, <2>1, IdAssumption
       DEF LInv, TInv, FramesOK, FramesGood, Good, NamedLabel, LoadedLabel, RefundLabel, Exists
  <2>3. Amounts' = Amounts /\ Amounts[p] = payment[p].amount
    BY <2>1, <2>2 DEF Amounts, Exists
  <2>4. CASE RefundChecked(w)
    <3>1. UNCHANGED refunded /\ refundRace' \in {refundRace, refundRace \cup {p}}
      BY <2>4 DEF RefundChecked, rows
    <3>2. CASE refundRace' = refundRace
      BY <2>1, <3>1, <3>2, BookUnwritten
    <3>3. CASE refundRace' = refundRace \cup {p}
      <4>1. Book!SideBySide(p)
        BY <2>1, <2>2, <2>3, <3>1, <3>3 DEF Book!SideBySide
      <4> QED  BY <2>2, <4>1 DEF BookStep, Book!Next
    <3> QED  BY <3>1, <3>2, <3>3
  <2>5. CASE RefundSave(w)
    <3>1. /\ pc[w] = "refund.save" /\ UNCHANGED refundRace
          /\ refunded' = [refunded EXCEPT ![p] = @ + frame[w].a]
      BY <2>5 DEF RefundSave, history
    <3>2. refunded'[p] = refunded[p] + frame[w].a
      BY <1>0, <2>2, <3>1 DEF TypeOK
    <3>3. p \notin refundRace => refunded'[p] <= payment[p].amount
      BY <2>2, <3>1, <3>2 DEF BInv, RefundBound, BoundAt
    <3>4. refunded' = [refunded EXCEPT ![p] = refunded'[p]]
      BY <1>0, <2>2, <3>1, <3>2 DEF TypeOK
    <3>5. Book!GiveBack(p)
      BY <2>1, <2>2, <2>3, <3>1, <3>3, <3>4 DEF Book!GiveBack
    <3> QED  BY <2>2, <3>5 DEF BookStep, Book!Next
  <2> QED  BY <1>3, <2>4, <2>5
<1>4. ASSUME NEW w \in Worker, NEW p \in Payment,
             RefundEndpoints(w, p) \/ WebhookEndpoints(w, p) \/ Process(w, p)
      PROVE  BookStep
  BY <1>4, BookUnwritten
     DEF RefundEndpoints, WebhookEndpoints, RefundRequest, PaymentWebhook, Process, rows
<1>5. ASSUME NEW w \in Worker,
             \/ PaymentTxn(w) \/ UpdateRead(w) \/ RefundRefused(w) \/ RefundTxn(w) \/ ProcessPi(w)
             \/ ProcessNotify(w) \/ ProcessError(w) \/ ProcessThrow(w) \/ Abort(w)
      PROVE  BookStep
  BY <1>5, BookUnwritten
     DEF PaymentTxn, UpdateRead, RefundRefused, RefundTxn, ProcessPi, ProcessNotify, ProcessError,
         ProcessThrow, Abort, rows, history
<1>6. CASE UNCHANGED vars \/ \E r \in Refund, s \in RefundWebhookStatus : RefundWebhook(r, s)
  BY <1>6, BookUnwritten DEF RefundWebhook, vars, rows, history
<1> QED
  BY <1>1, <1>2, <1>3, <1>4, <1>5, <1>6 DEF Next, Request, Step, PaymentEndpoints

LEMMA BookStarts == Init => Book!Init
<1> SUFFICES ASSUME Init PROVE Book!Init
  OBVIOUS
<1>1. {q \in Payment : Exists(q)} = {}
  BY DEF Init, Exists, AbsentRow
<1>2. Amounts = [p \in {} |-> 0]
  BY <1>1 DEF Amounts
<1> QED  BY <1>2 DEF Init, Book!Init

\* The request handlers implement the book of refunds: whatever the number of
\* requests, payments and refunds, each step of theirs enters a payment, pays
\* it, or refunds on a paid payment no more than its amount, unless two of its
\* refunds passed their check together; or it leaves the book as it is.
THEOREM LedgerKeepsBook == Spec => RefundsKeepBook
  BY BookStarts, BookIsKept, BInvHolds, PTL DEF Spec, RefundsKeepBook, Book!Spec, BookStep

\* They do so with the disputes service writing to the same payments.
THEOREM DisputesKeepBook == DisputesSpec => RefundsKeepBook
<1>1. DisputesInit => Book!Init
  BY BookStarts DEF DisputesInit
<1>2. CInv /\ Books /\ [DisputesNext]_dvars => BookStep
  <2> SUFFICES ASSUME CInv, Books, [DisputesNext]_dvars PROVE BookStep
    OBVIOUS
  <2>1. CASE [Next]_vars
    BY <2>1, BookIsKept DEF CInv, Books, BInv
  <2>2. ASSUME NEW w \in Worker, DisputeMove(w) PROVE BookStep
    BY <2>2, BookUnwritten DEF DisputeMove, rows
  <2> QED  BY <2>1, <2>2, DisputeMoves
<1> QED  BY <1>1, <1>2, BooksHold, PTL DEF DisputesSpec, RefundsKeepBook, Book!Spec, BookStep
=============================================================================
