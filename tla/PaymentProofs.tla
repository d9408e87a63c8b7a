---------------------------- MODULE PaymentProofs ----------------------------
(***************************************************************************)
(* Proofs about Payment, for any set of payments, with restarts and calls  *)
(* lightningd does not answer.  Each payment is proved about on its own:   *)
(* no step of one touches another, except Restart and DeleteStats.         *)
(***************************************************************************)
EXTENDS Payment, TLAPS

USE DEF PCs, Notes, Keys

\* Before sendpay, lightningd knows only of the invoice; before the outcome,
\* there is no notification.
BeforeSend(p) ==
  /\ pc[p] = "idle" => invoice[p] = "none"
  /\ pc[p] \in {"idle", "created", "recorded"} =>
       htlc[p] = "none" /\ outcome[p] = "none" /\ note[p] = "none"
  /\ outcome[p] = "pending" => note[p] = "none"
  /\ pc[p] \in {"created", "recorded", "waiting", "timedOut"} =>
       invoice[p] \notin {"none", "deleted"}

\* The HTLC, its invoice and its outcome agree.
HtlcInvoice(p) ==
  /\ invoice[p] = "paid" => htlc[p] = "settled"
  /\ htlc[p] = "settled" => invoice[p] \in {"paid", "deleted"}
  /\ outcome[p] = "none" <=> htlc[p] = "none"
  /\ outcome[p] = "complete" => htlc[p] = "settled"
  /\ outcome[p] = "failed" => htlc[p] = "failed"

\* What the goroutine concluded is so.
Concluded(p) ==
  /\ pc[p] = "paid" => invoice[p] = "paid"
  /\ pc[p] = "failed" /\ p \notin unanswered =>
       invoice[p] \in {"unpaid", "expired"} /\ htlc[p] \in {"none", "failed"}
  /\ pc[p] \in {"deleted", "unmarked"} /\ p \notin unanswered =>
       invoice[p] = "deleted" /\ htlc[p] # "settled"

\* What SendPay returned is so.
Returned(p) ==
  /\ result[p] # "none" <=> pc[p] = "done"
  /\ result[p] = "success" => htlc[p] = "settled"
  /\ result[p] # "none" /\ p \notin unanswered => invoice[p] = "deleted"
  /\ result[p] \in {"failure", "timeout"} /\ p \notin unanswered => htlc[p] # "settled"

\* The goroutine replaced the key by the marker, or is about to, or is gone.
KeyReplaced(p) == pc[p] = "unmarked" \/ result[p] = "timeout" \/ pc[p] = "lost"

\* The payment ended before its HTLC.
NeverSent(p) == pc[p] = "done" /\ htlc[p] = "none" /\ note[p] = "none"

\* Until then, and until a notification takes it, the key is there.
KeyKept(p) ==
  /\ pc[p] \notin {"idle", "created"} /\ note[p] \in {"none", "due"} =>
       "sent" \in db[p] \/ KeyReplaced(p) \/ NeverSent(p)
  /\ note[p] \in {"missed", "foundMarker", "ignored"} => KeyReplaced(p)

PaymentInv(p) ==
  BeforeSend(p) /\ HtlcInvoice(p) /\ Concluded(p) /\ Returned(p) /\ KeyKept(p)

IInv == TypeOK /\ \A p \in Payments : PaymentInv(p)

\* Nothing of p changes.
Untouched(p) ==
  /\ pc'[p] = pc[p] /\ invoice'[p] = invoice[p] /\ htlc'[p] = htlc[p]
  /\ outcome'[p] = outcome[p] /\ note'[p] = note[p] /\ result'[p] = result[p]
  /\ "sent" \in db'[p] <=> "sent" \in db[p]
  /\ p \in unanswered' <=> p \in unanswered
-----------------------------------------------------------------------------
\* A payment no step touches keeps its part of the invariant.
LEMMA UntouchedKeeps ==
  ASSUME NEW p \in Payments, PaymentInv(p), Untouched(p)
  PROVE  PaymentInv(p)'
BY DEF PaymentInv, BeforeSend, HtlcInvoice, Concluded, Returned, KeyKept, KeyReplaced,
       NeverSent, Untouched

\* The split's goroutine keeps the invariant of its payment, and the types.
LEMMA SendPayKeeps ==
  ASSUME TypeOK, NEW p \in Payments, PaymentInv(p), SendPay(p)
  PROVE  TypeOK' /\ PaymentInv(p)'
<1> USE DEF TypeOK, PaymentInv, BeforeSend, HtlcInvoice, Concluded, Returned, KeyKept,
            KeyReplaced, NeverSent, Goto, lightningd
<1>1. CASE CreateInvoice(p) BY <1>1 DEF CreateInvoice
<1>2. CASE Record(p) BY <1>2 DEF Record, Stats
<1>3. CASE Send(p) BY <1>3 DEF Send
<1>4. CASE SendRefused(p) BY <1>4 DEF SendRefused
<1>5. CASE SendUnanswered(p) BY <1>5 DEF SendUnanswered, NoAnswer
<1>6. CASE WaitSendPay(p) BY <1>6 DEF WaitSendPay, NoAnswer
<1>7. CASE Return(p) BY <1>7 DEF Return, DeleteInvoice, Returns, NoAnswer
<1>8. CASE DeleteTimedOut(p) BY <1>8 DEF DeleteTimedOut, NoAnswer
<1>9. CASE Unmark(p) BY <1>9 DEF Unmark
<1>10. CASE MarkTimeout(p) BY <1>10 DEF MarkTimeout, Returns
<1>11. CASE CreateUnanswered(p) BY <1>11 DEF CreateUnanswered, Returns, NoAnswer
<1>12. CASE RecordFails(p) BY <1>12 DEF RecordFails, DeleteInvoice, Returns, NoAnswer
<1> QED
  BY <1>1, <1>2, <1>3, <1>4, <1>5, <1>6, <1>7, <1>8, <1>9, <1>10, <1>11, <1>12 DEF SendPay

\* So does lightningd.
LEMMA LightningdKeeps ==
  ASSUME TypeOK, NEW p \in Payments, PaymentInv(p), Lightningd(p)
  PROVE  TypeOK' /\ PaymentInv(p)'
<1> USE DEF TypeOK, PaymentInv, BeforeSend, HtlcInvoice, Concluded, Returned, KeyKept,
            KeyReplaced, NeverSent
<1>1. CASE Arrive(p) BY <1>1 DEF Arrive
<1>2. CASE FailOnTheWay(p) BY <1>2 DEF FailOnTheWay
<1>3. CASE Resolve(p)
  <2>1. TypeOK' BY <1>3 DEF Resolve
  <2>2. PaymentInv(p)' BY <1>3 DEF Resolve
  <2> QED BY <2>1, <2>2
<1>4. CASE Expire(p) BY <1>4 DEF Expire
<1> QED
  BY <1>1, <1>2, <1>3, <1>4 DEF Lightningd

\* So does the handler of its notification.
LEMMA OnPaymentKeeps ==
  ASSUME TypeOK, NEW p \in Payments, PaymentInv(p), OnPayment(p)
  PROVE  TypeOK' /\ PaymentInv(p)'
<1> USE DEF TypeOK, PaymentInv, BeforeSend, HtlcInvoice, Concluded, Returned, KeyKept,
            KeyReplaced, NeverSent, NoteGoto, lightningd
<1>1. CASE LookUp(p) BY <1>1 DEF LookUp
<1>2. CASE LookUpMarker(p) BY <1>2 DEF LookUpMarker
<1>3. CASE Forget(p) BY <1>3 DEF Forget
<1>4. CASE SaveOutcome(p) BY <1>4 DEF SaveOutcome, Stats
<1> QED
  BY <1>1, <1>2, <1>3, <1>4 DEF OnPayment

\* A step of one payment leaves the others alone.
LEMMA OthersUntouched ==
  ASSUME TypeOK, NEW p \in Payments, NEW q \in Payments, q # p,
         SendPay(p) \/ Lightningd(p) \/ OnPayment(p)
  PROVE  Untouched(q)
<1> USE DEF TypeOK, Untouched, Goto, NoteGoto, NoAnswer, lightningd
<1>1. CASE SendPay(p)
  BY <1>1 DEF SendPay, CreateInvoice, CreateUnanswered, Record, RecordFails, Send, SendRefused, SendUnanswered,
              WaitSendPay, Return, DeleteInvoice, Returns, DeleteTimedOut, Unmark,
              MarkTimeout
<1>2. CASE Lightningd(p)
  BY <1>2 DEF Lightningd, Arrive, FailOnTheWay, Resolve, Expire
<1>3. CASE OnPayment(p)
  BY <1>3 DEF OnPayment, LookUp, LookUpMarker, Forget, SaveOutcome
<1> QED
  BY <1>1, <1>2, <1>3

\* A restart ends goroutines and handlers, and keeps what they had concluded.
LEMMA RestartKeeps ==
  ASSUME IInv, Restart
  PROVE  IInv'
<1> USE DEF IInv, TypeOK, Restart, lightningd
<1>1. TypeOK'
  OBVIOUS
<1>2. ASSUME NEW p \in Payments PROVE PaymentInv(p)'
  BY <1>2 DEF PaymentInv, BeforeSend, HtlcInvoice, Concluded, Returned, KeyKept,
              KeyReplaced, NeverSent
<1> QED
  BY <1>1, <1>2

\* Every step keeps the invariant.
LEMMA StepKeepsPayments ==
  ASSUME IInv, [Next]_vars
  PROVE  IInv'
<1>1. ASSUME NEW p \in Payments, SendPay(p) \/ Lightningd(p) \/ OnPayment(p)
      PROVE  IInv'
  <2>1. TypeOK' /\ PaymentInv(p)'
    BY <1>1, SendPayKeeps, LightningdKeeps, OnPaymentKeeps DEF IInv
  <2>2. ASSUME NEW q \in Payments, q # p PROVE PaymentInv(q)'
    BY <1>1, <2>2, OthersUntouched, UntouchedKeeps DEF IInv
  <2> QED
    BY <2>1, <2>2 DEF IInv
<1>2. CASE DeleteStats
  <2>1. TypeOK'
    BY <1>2 DEF DeleteStats, IInv, TypeOK, lightningd
  <2>2. \A p \in Payments : Untouched(p)
    BY <1>2 DEF DeleteStats, IInv, TypeOK, Untouched, lightningd
  <2> QED
    BY <2>1, <2>2, UntouchedKeeps DEF IInv
<1>3. CASE Restart
  BY <1>3, RestartKeeps
<1>4. CASE UNCHANGED vars
  BY <1>4 DEF vars, IInv, TypeOK, PaymentInv, BeforeSend, HtlcInvoice, Concluded,
              Returned, KeyKept, KeyReplaced, NeverSent
<1> QED
  BY <1>1, <1>2, <1>3, <1>4 DEF Next

\* The invariant holds in every state a payment can reach.
THEOREM PaymentInvariant == Spec => []IInv
<1>1. Init => IInv
  BY PaymentAssumption DEF Init, IInv, TypeOK, PaymentInv, BeforeSend, HtlcInvoice,
     Concluded, Returned, KeyKept, KeyReplaced, NeverSent
<1>2. IInv /\ [Next]_vars => IInv'
  BY StepKeepsPayments
<1> QED
  BY <1>1, <1>2, PTL DEF Spec

\* SendPay, manageTimeout: a payment reported as failed or timed out is never
\* settled, unless lightningd did not answer a call about it.
THEOREM NeverPaidAfterFailure == Spec => []FailedIsNeverPaid
<1>1. IInv => FailedIsNeverPaid
  BY DEF IInv, PaymentInv, Returned, FailedIsNeverPaid
<1> QED
  BY <1>1, PaymentInvariant, PTL

\* SendPay: a payment reported as a success was settled.
THEOREM PaidWhenSaidSo == Spec => []SuccessWasPaid
<1>1. IInv => SuccessWasPaid
  BY DEF IInv, PaymentInv, Returned, SuccessWasPaid
<1> QED
  BY <1>1, PaymentInvariant, PTL

\* SendPay: once it returned, the invoice is gone, unless lightningd did not
\* answer.
THEOREM InvoiceGone == Spec => []NoInvoiceLeft
<1>1. IInv => NoInvoiceLeft
  BY DEF IInv, PaymentInv, Returned, NoInvoiceLeft, Ended
<1> QED
  BY <1>1, PaymentInvariant, PTL

\* deleteIfOurs: a notification goes unrecognised only in a timeout, or after a
\* restart.
THEOREM KeyThereUntilTimeout == Spec => []UnrecognisedOnlyAfterTimeout
<1>1. IInv => UnrecognisedOnlyAfterTimeout
  BY DEF IInv, PaymentInv, KeyKept, KeyReplaced, UnrecognisedOnlyAfterTimeout
<1> QED
  BY <1>1, PaymentInvariant, PTL
=============================================================================
