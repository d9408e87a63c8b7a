------------------------------ MODULE Payment ------------------------------
(***************************************************************************)
(* One payment to ourselves (node/payment.go, node/invoice.go, payInvoice  *)
(* in rebalance/route.go), next to lightningd, which is external.          *)
(*                                                                         *)
(* A payment has three threads of control: the split's goroutine (pc),     *)
(* which creates an invoice, pays it, waits for the outcome and deletes    *)
(* the invoice; lightningd, which carries the HTLC (htlc), settles it      *)
(* against the invoice if that is still unpaid, and tells the outcome      *)
(* upstream (outcome); and the handler of its sendpay notification (note), *)
(* which looks the payment up in the database (db).  Every RPC and every   *)
(* access to the database is a step of its own.  The database survives a   *)
(* restart of the plugin, the goroutines do not.                           *)
(***************************************************************************)
EXTENDS Naturals, FiniteSets

CONSTANTS
  Payments,    \* the payments, by hash
  SaveStats,   \* circular-save-stats
  RpcMayFail,  \* bound: a call to lightningd may fail without an answer
  MayRestart   \* bound: the plugin is restarted, once

ASSUME PaymentAssumption ==
  SaveStats \in BOOLEAN /\ RpcMayFail \in BOOLEAN /\ MayRestart \in BOOLEAN

VARIABLES
  pc,         \* where the split's goroutine is
  invoice,    \* lightningd: the invoice, by its status
  htlc,       \* lightningd: the HTLC
  outcome,    \* lightningd: what waitsendpay knows
  note,       \* the notification of the outcome, and its handler
  db,         \* the payment's keys in the database
  result,     \* what SendPay returned
  unanswered, \* the payments for which a call to lightningd failed
  restarts

vars == <<pc, invoice, htlc, outcome, note, db, result, unanswered, restarts>>

lightningd == <<invoice, htlc, outcome>>

PCs == {"idle", "created", "recorded", "waiting", "paid", "failed",
        "timedOut", "deleted", "unmarked", "done", "lost"}
Notes == {"none", "due", "missed", "found", "foundMarker", "known", "recorded",
          "ignored", "lost"}
Keys == {"sent", "timeout", "route", "failure", "success"}

TypeOK ==
  /\ pc \in [Payments -> PCs]
  /\ invoice \in [Payments -> {"none", "unpaid", "paid", "expired", "deleted"}]
  /\ htlc \in [Payments -> {"none", "flying", "settled", "failed"}]
  /\ outcome \in [Payments -> {"none", "pending", "complete", "failed"}]
  /\ note \in [Payments -> Notes]
  /\ db \in [Payments -> SUBSET Keys]
  /\ result \in [Payments -> {"none", "success", "failure", "timeout"}]
  /\ unanswered \subseteq Payments
  /\ restarts \in {0, 1}

Init ==
  /\ pc = [p \in Payments |-> "idle"]
  /\ invoice = [p \in Payments |-> "none"]
  /\ htlc = [p \in Payments |-> "none"]
  /\ outcome = [p \in Payments |-> "none"]
  /\ note = [p \in Payments |-> "none"]
  /\ db = [p \in Payments |-> {}]
  /\ result = [p \in Payments |-> "none"]
  /\ unanswered = {}
  /\ restarts = 0
-----------------------------------------------------------------------------
Goto(p, from, to) == pc[p] = from /\ pc' = [pc EXCEPT ![p] = to]

Returns(p, r) == result' = [result EXCEPT ![p] = r]

\* A call to lightningd about p had no answer.
NoAnswer(p) == RpcMayFail /\ unanswered' = unanswered \cup {p}

Stats(key) == IF SaveStats THEN {key} ELSE {}

\* Slip: an invoice that expired meanwhile is left.
DeleteInvoiceIf(p, status) ==
  /\ UNCHANGED <<htlc, outcome>>
  /\ \/ /\ invoice[p] = status
        /\ invoice' = [invoice EXCEPT ![p] = "deleted"]
        /\ UNCHANGED unanswered
     \/ /\ invoice[p] # status
        /\ UNCHANGED <<invoice, unanswered>>
     \/ NoAnswer(p) /\ UNCHANGED invoice

\* The invoice is deleted, or left: its status is another one, or lightningd
\* did not answer.  Either is only logged.
DeleteInvoice(p, status) ==
  /\ UNCHANGED <<htlc, outcome>>
  /\ \/ /\ invoice[p] \in {status, "expired"}
        /\ invoice' = [invoice EXCEPT ![p] = "deleted"]
        /\ UNCHANGED unanswered
     \/ /\ invoice[p] \notin {status, "expired"}
        /\ UNCHANGED <<invoice, unanswered>>
     \/ NoAnswer(p) /\ UNCHANGED invoice
-----------------------------------------------------------------------------
(***************************************************************************)
(* The split's goroutine.                                                  *)
(***************************************************************************)
CreateInvoice(p) ==
  /\ Goto(p, "idle", "created")
  /\ invoice' = [invoice EXCEPT ![p] = "unpaid"]
  /\ UNCHANGED <<htlc, outcome, note, db, result, unanswered, restarts>>

\* No answer: the invoice, whose label is lost, may exist.
CreateUnanswered(p) ==
  /\ Goto(p, "idle", "done")
  /\ NoAnswer(p)
  /\ invoice' \in {invoice, [invoice EXCEPT ![p] = "unpaid"]}
  /\ Returns(p, "failure")
  /\ UNCHANGED <<htlc, outcome, note, db, restarts>>

\* The hash is recorded so that the notification is recognised, and the route.
Record(p) ==
  /\ Goto(p, "created", "recorded")
  /\ db' = [db EXCEPT ![p] = {"sent"} \cup Stats("route")]
  /\ UNCHANGED <<lightningd, note, result, unanswered, restarts>>

\* The database fails: there is no payment.
RecordFails(p) ==
  /\ Goto(p, "created", "done")
  /\ DeleteInvoice(p, "unpaid")
  /\ Returns(p, "failure")
  /\ UNCHANGED <<note, db, restarts>>

\* sendpay: lightningd sends the HTLC.
Send(p) ==
  /\ Goto(p, "recorded", "waiting")
  /\ htlc' = [htlc EXCEPT ![p] = "flying"]
  /\ outcome' = [outcome EXCEPT ![p] = "pending"]
  /\ UNCHANGED <<invoice, note, db, result, unanswered, restarts>>

\* sendpay is refused at our own channel; the payment may be notified as any
\* other failure.
SendRefused(p) ==
  /\ Goto(p, "recorded", "failed")
  /\ \E told \in BOOLEAN : note' = [note EXCEPT ![p] = IF told THEN "due" ELSE @]
  /\ UNCHANGED <<lightningd, db, result, unanswered, restarts>>

\* sendpay is not answered in time: the HTLC may have left or not.
SendUnanswered(p) ==
  /\ Goto(p, "recorded", "failed")
  /\ NoAnswer(p)
  /\ \/ UNCHANGED <<htlc, outcome>>
     \/ /\ htlc' = [htlc EXCEPT ![p] = "flying"]
        /\ outcome' = [outcome EXCEPT ![p] = "pending"]
  /\ UNCHANGED <<invoice, note, db, result, restarts>>

\* waitsendpay: the outcome, or none within SENDPAY_TIMEOUT, or no answer.
WaitSendPay(p) ==
  /\ \/ outcome[p] = "complete" /\ Goto(p, "waiting", "paid") /\ UNCHANGED unanswered
     \/ outcome[p] = "failed" /\ Goto(p, "waiting", "failed") /\ UNCHANGED unanswered
     \/ outcome[p] = "pending" /\ Goto(p, "waiting", "timedOut") /\ UNCHANGED unanswered
     \/ Goto(p, "waiting", "failed") /\ NoAnswer(p)
  /\ UNCHANGED <<lightningd, note, db, result, restarts>>

\* Slip: the payment's key is cleaned up with its invoice.
ReturnForgetful(p) ==
  /\ \/ Goto(p, "paid", "done") /\ DeleteInvoice(p, "paid") /\ Returns(p, "success")
     \/ Goto(p, "failed", "done") /\ DeleteInvoice(p, "unpaid") /\ Returns(p, "failure")
  /\ db' = [db EXCEPT ![p] = @ \ {"sent"}]
  /\ UNCHANGED <<note, restarts>>

\* The payment succeeded, or failed for good.
Return(p) ==
  /\ \/ Goto(p, "paid", "done") /\ DeleteInvoice(p, "paid") /\ Returns(p, "success")
     \/ Goto(p, "failed", "done") /\ DeleteInvoice(p, "unpaid") /\ Returns(p, "failure")
  /\ UNCHANGED <<note, db, restarts>>

\* Slips of manageTimeout: any invoice that cannot be deleted passes for paid;
\* a paid invoice passes for one that cannot be deleted.
TimeoutTakenForPaid(p) ==
  /\ \/ /\ invoice[p] \in {"unpaid", "expired"}
        /\ invoice' = [invoice EXCEPT ![p] = "deleted"]
        /\ Goto(p, "timedOut", "deleted") /\ UNCHANGED unanswered
     \/ /\ (invoice[p] = "paid" /\ UNCHANGED unanswered) \/ NoAnswer(p)
        /\ UNCHANGED invoice
        /\ Goto(p, "timedOut", "paid")
  /\ UNCHANGED <<htlc, outcome, note, db, result, restarts>>

PaidTakenForTimeout(p) ==
  /\ Goto(p, "timedOut", "deleted")
  /\ DeleteInvoice(p, "unpaid")
  /\ UNCHANGED <<note, db, result, restarts>>

\* manageTimeout deletes the invoice, so that an HTLC arriving later fails.
\* One already settled against it is a success.
DeleteTimedOut(p) ==
  /\ \/ /\ invoice[p] = "paid"
        /\ Goto(p, "timedOut", "paid")
        /\ UNCHANGED <<invoice, unanswered>>
     \/ /\ invoice[p] # "paid"
        /\ invoice' = [invoice EXCEPT ![p] = "deleted"]
        /\ Goto(p, "timedOut", "deleted")
        /\ UNCHANGED unanswered
     \/ NoAnswer(p) /\ Goto(p, "timedOut", "deleted") /\ UNCHANGED invoice
  /\ UNCHANGED <<htlc, outcome, note, db, result, restarts>>

\* The payment's key is replaced by a marker, in two writes.
Unmark(p) ==
  /\ Goto(p, "deleted", "unmarked")
  /\ db' = [db EXCEPT ![p] = @ \ {"sent"}]
  /\ UNCHANGED <<lightningd, note, result, unanswered, restarts>>

MarkTimeout(p) ==
  /\ Goto(p, "unmarked", "done")
  /\ db' = [db EXCEPT ![p] = @ \cup {"timeout"}]
  /\ Returns(p, "timeout")
  /\ UNCHANGED <<lightningd, note, unanswered, restarts>>
-----------------------------------------------------------------------------
(***************************************************************************)
(* lightningd.                                                             *)
(***************************************************************************)
\* The HTLC reaches us, and is settled if its invoice can be paid.
Arrive(p) ==
  /\ htlc[p] = "flying"
  /\ IF invoice[p] = "unpaid"
     THEN /\ htlc' = [htlc EXCEPT ![p] = "settled"]
          /\ invoice' = [invoice EXCEPT ![p] = "paid"]
     ELSE /\ htlc' = [htlc EXCEPT ![p] = "failed"]
          /\ UNCHANGED invoice
  /\ UNCHANGED <<pc, outcome, note, db, result, unanswered, restarts>>

FailOnTheWay(p) ==
  /\ htlc[p] = "flying"
  /\ htlc' = [htlc EXCEPT ![p] = "failed"]
  /\ UNCHANGED <<pc, invoice, outcome, note, db, result, unanswered, restarts>>

\* The outcome is back at our node, which notifies it.
Resolve(p) ==
  /\ outcome[p] = "pending" /\ htlc[p] \in {"settled", "failed"}
  /\ outcome' = [outcome EXCEPT ![p] = IF htlc[p] = "settled" THEN "complete" ELSE "failed"]
  /\ note' = [note EXCEPT ![p] = "due"]
  /\ UNCHANGED <<pc, invoice, htlc, db, result, unanswered, restarts>>

Expire(p) ==
  /\ invoice[p] = "unpaid"
  /\ invoice' = [invoice EXCEPT ![p] = "expired"]
  /\ UNCHANGED <<pc, htlc, outcome, note, db, result, unanswered, restarts>>
-----------------------------------------------------------------------------
(***************************************************************************)
(* OnPaymentFailure, OnPaymentSuccess.                                     *)
(***************************************************************************)
NoteGoto(p, from, to) == note[p] = from /\ note' = [note EXCEPT ![p] = to]

\* deleteIfOurs: is the payment's key in the database?
LookUp(p) ==
  /\ IF "sent" \in db[p] THEN NoteGoto(p, "due", "found") ELSE NoteGoto(p, "due", "missed")
  /\ UNCHANGED <<pc, lightningd, db, result, unanswered, restarts>>

\* If not, did the payment time out?
LookUpMarker(p) ==
  /\ IF "timeout" \in db[p] THEN NoteGoto(p, "missed", "foundMarker")
     ELSE NoteGoto(p, "missed", "ignored")
  /\ UNCHANGED <<pc, lightningd, db, result, unanswered, restarts>>

\* The key that was found is deleted.
Forget(p) ==
  /\ \/ NoteGoto(p, "found", "known") /\ db' = [db EXCEPT ![p] = @ \ {"sent"}]
     \/ NoteGoto(p, "foundMarker", "known") /\ db' = [db EXCEPT ![p] = @ \ {"timeout"}]
  /\ UNCHANGED <<pc, lightningd, result, unanswered, restarts>>

SaveOutcome(p) ==
  /\ NoteGoto(p, "known", "recorded")
  /\ db' = [db EXCEPT ![p] =
       @ \cup Stats(IF outcome[p] = "complete" THEN "success" ELSE "failure")]
  /\ UNCHANGED <<pc, lightningd, result, unanswered, restarts>>
-----------------------------------------------------------------------------
\* circular-delete-stats.
DeleteStats ==
  /\ db' = [p \in Payments |-> db[p] \ {"route", "failure", "success"}]
  /\ UNCHANGED <<pc, lightningd, note, result, unanswered, restarts>>

\* The plugin stops and starts again: its goroutines and handlers end where
\* they are; the notifications sent meanwhile are lost.
Restart ==
  /\ MayRestart /\ restarts = 0
  /\ restarts' = 1
  /\ pc' = [p \in Payments |-> IF pc[p] \in {"idle", "done"} THEN pc[p] ELSE "lost"]
  /\ \E missed \in SUBSET {p \in Payments : note[p] = "due"} :
       note' = [p \in Payments |->
                 IF p \in missed \/ note[p] \in {"missed", "found", "foundMarker", "known"}
                 THEN "lost" ELSE note[p]]
  /\ UNCHANGED <<lightningd, db, result, unanswered>>

SendPay(p) ==
  \/ CreateInvoice(p) \/ CreateUnanswered(p) \/ Record(p) \/ RecordFails(p)
  \/ Send(p) \/ SendRefused(p) \/ SendUnanswered(p)
  \/ WaitSendPay(p) \/ Return(p) \/ DeleteTimedOut(p) \/ Unmark(p) \/ MarkTimeout(p)

Lightningd(p) == Arrive(p) \/ FailOnTheWay(p) \/ Resolve(p) \/ Expire(p)

OnPayment(p) == LookUp(p) \/ LookUpMarker(p) \/ Forget(p) \/ SaveOutcome(p)

Next ==
  \/ \E p \in Payments : SendPay(p) \/ Lightningd(p) \/ OnPayment(p)
  \/ DeleteStats
  \/ Restart

Spec == Init /\ [][Next]_vars
-----------------------------------------------------------------------------
(***************************************************************************)
(* Properties.                                                             *)
(***************************************************************************)
Ended(p) == pc[p] = "done"

\* SendPay, manageTimeout: an HTLC that times out here may still settle, before
\* or after the invoice is deleted.  A payment reported as failed or timed out
\* is never settled, then or later: the run would move more, and pay more, than
\* it counts.  Only a call lightningd did not answer can break this (README,
\* maxfee: "a payment that settles after its timeout because its invoice could
\* not be deleted").
FailedIsNeverPaid ==
  \A p \in Payments \ unanswered :
    result[p] \in {"failure", "timeout"} => htlc[p] # "settled"

\* SendPay: what is reported as a success was settled, even when the answer is
\* drawn from the status of the invoice rather than from waitsendpay.
SuccessWasPaid ==
  \A p \in Payments : result[p] = "success" => htlc[p] = "settled"

\* README, "Safe Self-Payments": once the attempt ends, its invoice is gone, by
\* whichever path it ended, expired meanwhile or not, and no HTLC can be paid
\* against it.
NoInvoiceLeft ==
  \A p \in Payments \ unanswered : Ended(p) => invoice[p] = "deleted"

\* deleteIfOurs: a notification goes unrecognised only between the two writes
\* of manageTimeout, or after a restart; no other race loses a payment's key.
UnrecognisedOnlyAfterTimeout ==
  \A p \in Payments :
    note[p] = "ignored" => pc[p] = "unmarked" \/ result[p] = "timeout" \/ pc[p] = "lost"

\* manageTimeout: "so that the later sendpay_failure notification is still
\* recognised as ours".
TimeoutRecognised == \A p \in Payments : note[p] # "ignored"
=============================================================================
