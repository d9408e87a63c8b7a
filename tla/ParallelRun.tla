---------------------------- MODULE ParallelRun ----------------------------
(***************************************************************************)
(* One circular-pull or circular-push run (rebalance/parallel), without    *)
(* slow mode: FireCandidates fires splits from a queue of candidate        *)
(* channels, each a goroutine that ends by sending its result on           *)
(* RebalanceResultChan; waitForRound takes the results one at a time,      *)
(* judges the candidate, updates the counters and fires more, until        *)
(* nothing is in flight; endRun says why the run fell short, if it did.    *)
(*                                                                         *)
(* Three threads of control interleave: the run's own goroutine (pc), one  *)
(* goroutine per split (running), and the operator's circular-stop and     *)
(* circular-resume with the timer of maxtime.  The run's goroutine handles *)
(* a result in one step: meanwhile the others can only end splits, append  *)
(* to the channel and flip Node.Stopped, which the handling reads once.    *)
(* FireCandidates is one step per turn of its loop, because it reads       *)
(* Node.Stopped and the length of the channel at each turn.                *)
(*                                                                         *)
(* A split is abstracted to the results Rebalance.Run can return.  Amounts *)
(* are in sats, fees in msat.                                              *)
(***************************************************************************)
EXTENDS TargetLimit, SplitResult, Sequences, FiniteSets, Tally

CONSTANTS
  Amount,         \* what the run is asked to move (amount)
  SplitAmount,    \* the most one split moves (splitAmount)
  MaxFee,         \* the fee budget, msat (maxFeeMsat); 0: none
  MaxFailStreak,  \* failed payments in a row that end the run; -1: no limit
  HasMaxTime,     \* the run has a time limit (maxTime > 0)
  CandidateSide,  \* "out" for circular-pull, "in" for circular-push
  MaxPayments,    \* bound: payments of one failing split
  WithStop,       \* bound: circular-stop is called during the run
  NoCandidate     \* no candidate: "" in the code

ASSUME RunAssumption ==
  /\ IsFiniteSet(Candidates)
  /\ Amount \in Nat \ {0} /\ SplitAmount \in 1 .. Amount
  /\ Amount % SplitAmount = 0
  /\ MaxFee \in Nat
  /\ MaxFailStreak \in (Nat \ {0}) \cup {-1}
  /\ HasMaxTime \in BOOLEAN
  /\ CandidateSide \in {"out", "in"}
  /\ MaxPayments \in Nat /\ WithStop \in BOOLEAN
  /\ NoCandidate \notin Candidates

VARIABLES
  pc,               \* where the run's goroutine is
  queue,            \* Candidates: the deque, front first
  gone,             \* the candidates that left the queue for a reason noted
  asked,            \* by candidate, what the split in flight asked for; 0: none
  running,          \* the candidates whose split's goroutine has not ended
  results,          \* RebalanceResultChan
  AmountRebalanced,
  InFlightAmount,
  splitsInFlight,
  feeReserved,
  feesPaid,         \* Result.FeesPaidMsat
  failStreak,
  streakStopped, targetStopped, timeStopped, feeStopped,
  halt,             \* read by the splits before each payment
  firstStop,        \* the first reason noted, circular-stop aside
  stopped,          \* Result.Stopped
  heldByStop,
  nodeStopped,      \* Node.Stopped, set by circular-stop
  retried,          \* the candidates that had their retry after a stale policy
  targetRechecked,
  refusedAlone      \* the candidate the target refused alone, or NoCandidate

queueVars  == <<queue, gone>>
splitVars  == <<asked, running, results>>
moneyVars  == <<AmountRebalanced, InFlightAmount, splitsInFlight, feeReserved,
                feesPaid>>
flagVars   == <<streakStopped, targetStopped, timeStopped, feeStopped, halt>>
reasonVars == <<firstStop, stopped>>
holdVars   == <<heldByStop, nodeStopped>>
judgeVars  == <<retried, targetRechecked, refusedAlone>>

vars == <<pc, queueVars, splitVars, moneyVars, failStreak, flagVars,
          reasonVars, holdVars, judgeVars, limitVars>>

NoReason == ""
Reasons == {NoReason, "target", "streak", "time", "fee", "held", "ranout"}
Sides == {"none", "route", "out", "in"}
-----------------------------------------------------------------------------
(***************************************************************************)
(* Results of splits.                                                      *)
(***************************************************************************)
Monus(a, b) == IF b < a THEN a - b ELSE 0

Successes(c) ==
  UNION {[cand : {c}, requested : {asked[c]}, status : {"success"},
          moved : {m}, fee : 0 .. WorstFee(m)] : m \in Delivered(asked[c])}

Failures(c) ==
  {[cand |-> c, requested |-> asked[c], status |-> "failure", payments |-> n,
    failedAt |-> k.failedAt, retry |-> k.retry, precheck |-> k.precheck] :
     n \in 0 .. MaxPayments, k \in FailureKinds}

SplitResults ==
  [cand : Candidates, requested : 1 .. SplitAmount, status : {"success"},
   moved : 1 .. SplitAmount, fee : Nat]
    \cup [cand : Candidates, requested : 1 .. SplitAmount, status : {"failure"},
          payments : Nat, failedAt : Sides, retry : {"no", "whenFree", "now"},
          precheck : BOOLEAN]
-----------------------------------------------------------------------------
(***************************************************************************)
(* Reasons.                                                                *)
(***************************************************************************)
\* circular-stop holds the run back, and circular was not resumed since.
Held == heldByStop /\ nodeStopped

\* Keep the first reason, and show it unless circular-stop holds the run.
\* During Call's FireCandidates there is no Result yet to show it in.
NoteStop(why) ==
  /\ firstStop' = IF firstStop = NoReason THEN why ELSE firstStop
  /\ stopped' = IF pc # "call" /\ stopped = NoReason /\ ~Held
                THEN firstStop'
                ELSE stopped
-----------------------------------------------------------------------------
(***************************************************************************)
(* FireCandidates, one turn of its loop per step.                          *)
(***************************************************************************)
Firing == pc \in {"call", "fire"}

\* Slip: the time limit is forgotten.
MayFireLate ==
  /\ AmountRebalanced + InFlightAmount < Amount
  /\ splitsInFlight < Splits
  /\ ~targetStopped /\ ~streakStopped /\ ~feeStopped
  /\ RoomAtTarget(splitsInFlight)

\* The loop's condition.
MayFire ==
  /\ AmountRebalanced + InFlightAmount < Amount
  /\ splitsInFlight < Splits
  /\ ~targetStopped /\ ~streakStopped /\ ~timeStopped /\ ~feeStopped
  /\ RoomAtTarget(splitsInFlight)

\* Slip: the last split is not cut to what is left.
WholeSplit == SplitAmount

NextAmount == Least(SplitAmount, Amount - AmountRebalanced - InFlightAmount)

\* Slip: what the splits in flight can still cost is left out.
WithinBudgetPaid(a) == MaxFee = 0 \/ feesPaid + WorstFee(a) <= MaxFee

WithinBudget(a) == MaxFee = 0 \/ feesPaid + feeReserved + WorstFee(a) <= MaxFee

\* The loop ends: the run waits for a result, or has none to wait for.
LeaveLoop == pc' = IF splitsInFlight > 0 THEN "wait" ELSE "end"

\* The loop's condition is false.
NothingToFire ==
  /\ Firing /\ ~MayFire
  /\ LeaveLoop
  /\ UNCHANGED <<queueVars, splitVars, moneyVars, failStreak, flagVars,
                 reasonVars, holdVars, judgeVars, limitVars>>

\* circular-stop holds the run back.
HeldBack ==
  /\ Firing /\ MayFire /\ nodeStopped
  /\ heldByStop' = TRUE
  /\ LeaveLoop
  /\ UNCHANGED <<queueVars, splitVars, moneyVars, failStreak, flagVars,
                 reasonVars, nodeStopped, judgeVars, limitVars>>

\* Slip: the end of the budget is not noted.
OverBudgetUnsaid ==
  /\ Firing /\ MayFire /\ ~nodeStopped
  /\ ~WithinBudget(NextAmount)
  /\ LeaveLoop
  /\ UNCHANGED <<queueVars, splitVars, moneyVars, failStreak, flagVars,
                 reasonVars, holdVars, judgeVars, limitVars>>

\* The next split does not fit in the fee budget.  That ends the run only
\* when nothing in flight can give part of the budget back.
OverBudget ==
  /\ Firing /\ MayFire /\ ~nodeStopped
  /\ ~WithinBudget(NextAmount)
  /\ IF splitsInFlight = 0
     THEN feeStopped' = TRUE /\ NoteStop("fee")
     ELSE UNCHANGED <<feeStopped, reasonVars>>
  /\ LeaveLoop
  /\ UNCHANGED <<queueVars, splitVars, moneyVars, failStreak, streakStopped,
                 targetStopped, timeStopped, halt, holdVars, judgeVars, limitVars>>

\* GetNextCandidate drops the first k candidates: our channel is gone, not
\* usable now, or not worth it.
Skip(k) == gone' = gone \cup {queue[i] : i \in 1 .. k}

\* Slip: the candidate is read, and left at the front.
PeekPast(k) == queue' = SubSeq(queue, k + 1, Len(queue))

\* GetNextCandidate pops those and the candidate it returns.
PopPast(k) == queue' = SubSeq(queue, k + 2, Len(queue))

\* Every candidate left in the queue was dropped.
NoneLeft ==
  /\ Firing /\ MayFire /\ ~nodeStopped
  /\ WithinBudget(NextAmount)
  /\ Skip(Len(queue))
  /\ queue' = <<>>
  /\ LeaveLoop
  /\ UNCHANGED <<splitVars, moneyVars, failStreak, flagVars, reasonVars,
                 holdVars, judgeVars, limitVars>>

\* A split is fired for the first candidate that can be used.
FireSplit(k) ==
  /\ Firing /\ MayFire /\ ~nodeStopped
  /\ WithinBudget(NextAmount)
  /\ Skip(k)
  /\ PopPast(k)
  /\ LET c == queue[k + 1] IN
       /\ NoteFired(c, splitsInFlight - Len(results))
       /\ asked' = [asked EXCEPT ![c] = NextAmount]
       /\ running' = running \cup {c}
  /\ heldByStop' = FALSE
  /\ feeReserved' = IF MaxFee > 0 THEN feeReserved + WorstFee(NextAmount)
                    ELSE feeReserved
  /\ InFlightAmount' = InFlightAmount + NextAmount
  /\ splitsInFlight' = splitsInFlight + 1
  /\ UNCHANGED <<pc, results, AmountRebalanced, feesPaid, failStreak, flagVars,
                 reasonVars, nodeStopped, judgeVars>>
-----------------------------------------------------------------------------
(***************************************************************************)
(* The splits, circular-stop and the timer.                                *)
(***************************************************************************)
\* A split's goroutine ends with its result in the channel.
FinishSplit(c) ==
  /\ c \in running
  /\ Len(results) < Splits
  /\ \E r \in Successes(c) \cup Failures(c) :
       CanHappen(r) /\ results' = Append(results, r)
  /\ running' = running \ {c}
  /\ UNCHANGED <<pc, queueVars, asked, moneyVars, failStreak, flagVars,
                 reasonVars, holdVars, judgeVars, limitVars>>

\* circular-stop, circular-resume.
Toggle ==
  /\ WithStop
  /\ nodeStopped' = ~nodeStopped
  /\ UNCHANGED <<pc, queueVars, splitVars, moneyVars, failStreak, flagVars,
                 reasonVars, heldByStop, judgeVars, limitVars>>

\* Slip: the splits in flight are not told.
TimeUpUntold ==
  /\ pc = "wait" /\ HasMaxTime /\ ~timeStopped
  /\ timeStopped' = TRUE
  /\ NoteStop("time")
  /\ UNCHANGED <<pc, queueVars, splitVars, moneyVars, failStreak, streakStopped,
                 targetStopped, feeStopped, halt, holdVars, judgeVars, limitVars>>

\* The timer of maxtime fires; it does so once.
TimeUp ==
  /\ pc = "wait" /\ HasMaxTime /\ ~timeStopped
  /\ timeStopped' = TRUE
  /\ halt' = TRUE
  /\ NoteStop("time")
  /\ UNCHANGED <<pc, queueVars, splitVars, moneyVars, failStreak, streakStopped,
                 targetStopped, feeStopped, holdVars, judgeVars, limitVars>>
-----------------------------------------------------------------------------
(***************************************************************************)
(* Handling a result (waitForRound, one turn of its loop).                 *)
(***************************************************************************)
\* The next result leaves the channel, and the run goes on to fire.
Take(r) ==
  /\ pc = "wait" /\ results # <<>>
  /\ r = Head(results)
  /\ results' = Tail(results)
  /\ asked' = [asked EXCEPT ![r.cand] = 0]
  /\ pc' = "fire"
  /\ UNCHANGED <<running, timeStopped, feeStopped, holdVars>>

\* Slips: a success gives back what it moved, short of what it asked for; the
\* split amount is given back, whatever the last split asked for; a split that
\* failed is not counted out.
UpdateAmountsMoved(r, moved) ==
  /\ InFlightAmount' = InFlightAmount - (IF moved > 0 THEN moved ELSE r.requested)
  /\ feeReserved' = IF MaxFee > 0 THEN Monus(feeReserved, WorstFee(r.requested))
                    ELSE feeReserved
  /\ splitsInFlight' = splitsInFlight - 1
  /\ AmountRebalanced' = AmountRebalanced + moved

UpdateAmountsWhole(r, moved) ==
  /\ InFlightAmount' = InFlightAmount - SplitAmount
  /\ feeReserved' = IF MaxFee > 0 THEN Monus(feeReserved, WorstFee(SplitAmount))
                    ELSE feeReserved
  /\ splitsInFlight' = splitsInFlight - 1
  /\ AmountRebalanced' = AmountRebalanced + moved

UpdateAmountsUncounted(r, moved) ==
  /\ InFlightAmount' = InFlightAmount - r.requested
  /\ feeReserved' = IF MaxFee > 0 THEN Monus(feeReserved, WorstFee(r.requested))
                    ELSE feeReserved
  /\ splitsInFlight' = IF moved > 0 THEN splitsInFlight - 1 ELSE splitsInFlight
  /\ AmountRebalanced' = AmountRebalanced + moved

\* UpdateAmounts: what the split held is given back, what it moved is kept.
UpdateAmounts(r, moved) ==
  /\ InFlightAmount' = InFlightAmount - r.requested
  /\ feeReserved' = IF MaxFee > 0 THEN Monus(feeReserved, WorstFee(r.requested))
                    ELSE feeReserved
  /\ splitsInFlight' = splitsInFlight - 1
  /\ AmountRebalanced' = AmountRebalanced + moved

\* Slip: a candidate whose channel is gone is dropped without a note.
EnqueueOrDrop(c) ==
  UNCHANGED gone /\ (queue' = <<c>> \o queue \/ UNCHANGED queue)

\* The candidate goes back to the front of the queue (its route is known to
\* work), unless its channel is gone from the graph meanwhile.
EnqueueCandidate(c) ==
  \/ queue' = <<c>> \o queue /\ UNCHANGED gone
  \/ gone' = gone \cup {c} /\ UNCHANGED queue

\* A candidate that failed is to be tried again: first, or after the others.
Requeue(c, front) ==
  queue' = IF front THEN <<c>> \o queue ELSE Append(queue, c)

SplitSucceeded(r) ==
  /\ Take(r) /\ r.status = "success"
  /\ failStreak' = 0
  /\ TargetSucceeded(r.cand)
  /\ targetRechecked' = FALSE
  /\ refusedAlone' = NoCandidate
  /\ feesPaid' = feesPaid + r.fee
  /\ UpdateAmounts(r, r.moved)
  /\ EnqueueCandidate(r.cand)
  /\ UNCHANGED <<streakStopped, targetStopped, halt, reasonVars, retried>>

\* The failed payments of the split reach the run's limit in a row.
StreakEnds(r) ==
  /\ MaxFailStreak >= 0
  /\ failStreak + r.payments >= MaxFailStreak
  /\ ~streakStopped

\* What every failed split does.  targetEnds: the target takes no more.
SplitFailed(r, targetEnds) ==
  /\ Take(r) /\ r.status = "failure"
  /\ failStreak' = failStreak + r.payments
  /\ streakStopped' = (streakStopped \/ StreakEnds(r))
  /\ targetStopped' = (targetStopped \/ targetEnds)
  /\ halt' = (halt \/ StreakEnds(r) \/ targetEnds)
  /\ IF StreakEnds(r) THEN NoteStop("streak")
     ELSE IF targetEnds THEN NoteStop("target")
     ELSE UNCHANGED reasonVars
  /\ gone' = gone \cup {r.cand}
  /\ UpdateAmounts(r, 0)
  /\ UNCHANGED feesPaid

\* The failure is on one of our channels, whose policy was just read again:
\* the candidate is tried once more, counted against nobody.
StalePolicy(r) ==
  /\ SplitFailed(r, FALSE)
  /\ r.retry = "now" /\ r.cand \notin retried
  /\ retried' = retried \cup {r.cand}
  /\ Requeue(r.cand, TRUE)
  /\ ProbeToldNothing(r.cand)
  /\ UNCHANGED <<targetRechecked, refusedAlone>>

\* Past StalePolicy, a failure is judged by where it happened.
Judged(r) == r.retry # "now" \/ r.cand \in retried

OnTarget(r) == r.failedAt \notin {"none", "route", CandidateSide}

\* On the candidate, along the route, or nobody's fault: it leaves the queue.
CandidateFailed(r) ==
  /\ SplitFailed(r, FALSE)
  /\ Judged(r) /\ ~OnTarget(r)
  /\ ProbeToldNothing(r.cand)
  /\ UNCHANGED <<queue, judgeVars>>

Others == splitsInFlight - 1

\* The target is full of our other splits: the limit goes down to those, and
\* the candidate is tried again once one of them finishes.
BusyTarget(r) ==
  /\ SplitFailed(r, FALSE)
  /\ Judged(r) /\ OnTarget(r)
  /\ r.retry = "whenFree" /\ Others > 0
  /\ TargetBusy(r.cand, Others)
  /\ Requeue(r.cand, ~OftenRefused(r.cand))
  /\ UNCHANGED judgeVars

\* The target refused with nothing else in flight.
RefusedAlone(r) ==
  Judged(r) /\ OnTarget(r) /\ r.retry = "whenFree" /\ Others = 0

\* The first time since the last success that our copy of its balance was too
\* low, read the target again.
ToRecheck(r) == r.precheck /\ ~targetRechecked

\* Another candidate was refused alone before: the target takes no more.
RefusedAnother(r) == refusedAlone \notin {NoCandidate, r.cand}

\* The target was read again: the candidate is tried once more.
RecheckTarget(r) ==
  /\ SplitFailed(r, FALSE)
  /\ RefusedAlone(r) /\ ToRecheck(r)
  /\ targetRechecked' = TRUE
  /\ Requeue(r.cand, TRUE)
  /\ ProbeToldNothing(r.cand)
  /\ UNCHANGED <<retried, refusedAlone>>

\* The target may refuse this candidate alone: it is left out, and the others
\* are tried.
LeaveOut(r) ==
  /\ SplitFailed(r, FALSE)
  /\ RefusedAlone(r) /\ ~ToRecheck(r) /\ ~RefusedAnother(r)
  /\ refusedAlone' = r.cand
  /\ ProbeToldNothing(r.cand)
  /\ UNCHANGED <<queue, retried, targetRechecked>>

\* The target takes no more: it refused for good, or two candidates alone, or
\* could not be read again (the notes taken before the read stay).
TargetEnds(r) ==
  /\ SplitFailed(r, TRUE)
  /\ Judged(r) /\ OnTarget(r)
  /\ \/ /\ r.retry # "whenFree" \/ (Others = 0 /\ ~ToRecheck(r) /\ RefusedAnother(r))
        /\ UNCHANGED <<targetRechecked, refusedAlone>>
     \/ /\ RefusedAlone(r) /\ ToRecheck(r)
        /\ targetRechecked' = TRUE /\ UNCHANGED refusedAlone
     \/ /\ RefusedAlone(r) /\ ~ToRecheck(r) /\ ~RefusedAnother(r) /\ r.precheck
        /\ refusedAlone' = r.cand /\ UNCHANGED targetRechecked
  /\ ProbeToldNothing(r.cand)
  /\ UNCHANGED <<queue, retried>>

HandleFailure(r) ==
  \/ StalePolicy(r)
  \/ CandidateFailed(r)
  \/ BusyTarget(r)
  \/ RecheckTarget(r)
  \/ LeaveOut(r)
  \/ TargetEnds(r)
-----------------------------------------------------------------------------
(***************************************************************************)
(* The end of the run.                                                     *)
(***************************************************************************)
StopFlag == targetStopped \/ streakStopped \/ timeStopped \/ feeStopped

\* Slip: a stop noted while circular-stop held the run is not shown.
EndReasonUnheld ==
  IF Held THEN "held" ELSE IF ~StopFlag THEN "ranout" ELSE NoReason

\* The reason endRun gives when none was shown yet.
EndReason ==
  IF Held THEN "held"
  ELSE IF firstStop # NoReason THEN firstStop
  ELSE IF ~StopFlag THEN "ranout"
  ELSE NoReason

EndRun ==
  /\ pc = "end"
  /\ pc' = "done"
  /\ stopped' = IF AmountRebalanced >= Amount THEN NoReason
                ELSE IF stopped # NoReason THEN stopped
                ELSE EndReason
  /\ UNCHANGED <<queueVars, splitVars, moneyVars, failStreak, flagVars,
                 firstStop, holdVars, judgeVars, limitVars>>
-----------------------------------------------------------------------------
\* The candidates, in some order of rank.
FindCandidates ==
  {q \in [1 .. Cardinality(Candidates) -> Candidates] :
     {q[i] : i \in DOMAIN q} = Candidates}

\* Call fires before WaitForResult.
Init ==
  /\ pc = "call"
  /\ queue \in FindCandidates
  /\ gone = {}
  /\ asked = [c \in Candidates |-> 0] /\ running = {} /\ results = <<>>
  /\ AmountRebalanced = 0 /\ InFlightAmount = 0 /\ splitsInFlight = 0
  /\ feeReserved = 0 /\ feesPaid = 0 /\ failStreak = 0
  /\ streakStopped = FALSE /\ targetStopped = FALSE
  /\ timeStopped = FALSE /\ feeStopped = FALSE /\ halt = FALSE
  /\ firstStop = NoReason /\ stopped = NoReason
  /\ heldByStop = FALSE /\ nodeStopped \in {FALSE, WithStop}
  /\ retried = {} /\ targetRechecked = FALSE /\ refusedAlone = NoCandidate
  /\ LimitInit

Fire == \E k \in 0 .. Len(queue) - 1 : FireSplit(k)

FireLoop == NothingToFire \/ HeldBack \/ OverBudget \/ NoneLeft \/ Fire

HandleResult ==
  results # <<>> /\ (SplitSucceeded(Head(results)) \/ HandleFailure(Head(results)))

Next ==
  \/ FireLoop
  \/ \E c \in Candidates : FinishSplit(c)
  \/ HandleResult
  \/ TimeUp
  \/ Toggle
  \/ EndRun

\* The run's goroutine goes on while it can; every split ends in the end (each
\* payment it waits for has a timeout, and its attempts are bounded).  Nothing
\* makes the operator or the timer act.
Fairness ==
  /\ WF_vars(FireLoop) /\ WF_vars(HandleResult) /\ WF_vars(EndRun)
  /\ \A c \in Candidates : WF_vars(FinishSplit(c))

Spec == Init /\ [][Next]_vars

FairSpec == Spec /\ Fairness
-----------------------------------------------------------------------------
(***************************************************************************)
(* Properties.                                                             *)
(***************************************************************************)
InFlight == {c \in Candidates : asked[c] > 0}

Queued == {queue[i] : i \in DOMAIN queue}

\* A result still in the channel, as its split sent it.
ResultOK(r) ==
  /\ r.cand \in InFlight \ running
  /\ r.requested = asked[r.cand]
  /\ r.status = "success" => r.moved <= r.requested /\ r.fee <= WorstFee(r.moved)

TypeOK ==
  /\ pc \in {"call", "fire", "wait", "end", "done"}
  /\ queue \in Seq(Candidates) /\ gone \subseteq Candidates
  /\ asked \in [Candidates -> 0 .. SplitAmount]
  /\ running \subseteq Candidates
  /\ results \in Seq(SplitResults)
  /\ AmountRebalanced \in Nat /\ InFlightAmount \in Nat /\ splitsInFlight \in Nat
  /\ feeReserved \in Nat /\ feesPaid \in Nat /\ failStreak \in Nat
  /\ streakStopped \in BOOLEAN /\ targetStopped \in BOOLEAN
  /\ timeStopped \in BOOLEAN /\ feeStopped \in BOOLEAN /\ halt \in BOOLEAN
  /\ heldByStop \in BOOLEAN /\ nodeStopped \in BOOLEAN
  /\ targetRechecked \in BOOLEAN
  /\ firstStop \in Reasons /\ stopped \in Reasons
  /\ retried \subseteq Candidates /\ refusedAlone \in Candidates \cup {NoCandidate}
  /\ LimitTypeOK

\* The counters of waitForRound are what the goroutines in flight add up to:
\* splitsInFlight, on which the wait loop ends, counts the splits running or
\* waiting in the channel; InFlightAmount is what they asked for; feeReserved
\* is the most they can still cost.  A counter that drifts makes the run wait
\* for a result nobody sends, or fire past its target or its budget.
CountersMatchSplits ==
  /\ splitsInFlight = Cardinality(InFlight)
  /\ InFlightAmount = SumOver(asked, InFlight)
  /\ feeReserved = IF MaxFee = 0 THEN 0
                   ELSE SumOver([c \in Candidates |-> WorstFee(asked[c])], InFlight)

\* maxfee (withinBudget, reserveFee): whatever the splits in flight end up
\* costing, the run pays at most its budget.
WithinMaxFee == MaxFee > 0 => feesPaid + feeReserved <= MaxFee

\* amount (FireCandidates): whatever the splits in flight deliver, the run
\* moves at most what it was asked to.
NeverPastTarget == AmountRebalanced + InFlightAmount <= Amount

\* The queue is a deque shared by success (EnqueueCandidate), retry and refusal
\* (requeue) paths: a candidate is in it once at most, and never while its
\* split is in flight, or two splits would drain the same channel.
CandidateInOnePlace ==
  /\ \A i, j \in DOMAIN queue : i # j => queue[i] # queue[j]
  /\ Queued \cap InFlight = {}

\* No path loses a candidate: it is queued, in flight, or left the queue for a
\* reason endRun can report (leftQueue, ranOut).
NoCandidateLost == Candidates = Queued \cup InFlight \cup gone

\* launch: every goroutine's send finds room in the channel, so that none
\* blocks for ever, and the splits in flight are those running or sent.
EverySplitReports ==
  /\ Len(results) + Cardinality(running) = splitsInFlight
  /\ splitsInFlight <= Splits
  /\ \A i \in DOMAIN results : ResultOK(results[i])

\* judgeCandidate, targetBusy: once the target refused a split for lack of
\* room, no more are in flight than it takes, and it always takes one.
WithinTargetLimit ==
  targetCap # 0 => splitsInFlight <= targetCap /\ targetCap <= Splits

\* noteFired, isProbe: a growth of the limit waits for its probe only while
\* the probe is in flight; orphaned, it would block every later growth.
ProbeIsInFlight ==
  /\ probing /\ probeSeq # 0 => \E c \in InFlight : firedAt[c] = probeSeq
  /\ probeSeq # 0 => probing

\* Every stop that leaves splits in flight tells them to end before their next
\* payment, and nothing else does.
HaltFollowsStop == halt = (targetStopped \/ streakStopped \/ timeStopped)

\* Result.Stopped: a run that fell short says why, one that reached its target
\* says nothing, and the reason is one that happened.
ShortRunSaysWhy ==
  /\ pc = "done" => (stopped = NoReason <=> AmountRebalanced = Amount)
  /\ "target" \in {stopped, firstStop} => targetStopped
  /\ "streak" \in {stopped, firstStop} => streakStopped
  /\ "time" \in {stopped, firstStop} => timeStopped
  /\ "fee" \in {stopped, firstStop} => feeStopped
  /\ stopped = "held" => heldByStop

\* A run does not end short while it could still fire: it had no candidate
\* left, or a stop, or circular-stop held it the last time it could fire.
NoEarlyEnd ==
  pc = "done" /\ AmountRebalanced < Amount => queue = <<>> \/ StopFlag \/ heldByStop

\* Once the run stopped for the target, the streak, the time or the budget, it
\* fires no split (FireCandidates), whatever the results still coming back.
NothingFiredAfterStop ==
  [][StopFlag => \A c \in Candidates : asked'[c] > 0 => asked[c] > 0]_vars

\* requeue: candidates cannot come back for ever; every run ends.
RunEnds == <>(pc = "done")

\* endRun: "nothing stopped it: no candidate was left to fire".
RanOutOfCandidates == stopped = "ranout" => queue = <<>>

\* The run keeps its contract (RunContract): seen through what each split was
\* asked for, what was moved and paid, and whether a stop was noted, whatever
\* the queue, the counters and the results in any order do, each step asks for
\* a split within the amount and the budget, settles one, stops, or nothing.
Contract ==
  INSTANCE RunContract WITH promised <- asked, moved <- AmountRebalanced,
                            paid <- feesPaid, open <- ~StopFlag

RunKeepsContract == Contract!Spec
=============================================================================
