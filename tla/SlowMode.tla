------------------------------ MODULE SlowMode ------------------------------
(***************************************************************************)
(* Slow mode of circular-pull and circular-push (rebalance/parallel,       *)
(* result.go): a run that falls short waits and tries again, in rounds.    *)
(* With stepping, a round that moved nothing because of its price is       *)
(* followed by a probe, a small amount at a higher price; the rest follows *)
(* at what the probe paid plus half a step.                                *)
(*                                                                         *)
(* Inside a round this is ParallelRun seen from further away: a split is   *)
(* what it asked for and the most it may pay; the queue is how many more   *)
(* splits the round's candidates are good for, their retries included; the *)
(* limit learned from the target may hold firing while splits are in       *)
(* flight; the target or the fail streak may stop the round at any         *)
(* failure.  What the rounds decide is in full.  Fees are in ppm times the *)
(* unit of the amounts.                                                    *)
(***************************************************************************)
EXTENDS Integers, FiniteSets, Tally

CONSTANTS
  Amount,        \* what the run is asked to move (amount)
  SplitAmount,   \* the most one split moves (splitAmount)
  Probe,         \* what a probe tries (probeMsat); 0: a fifth of what is left
  Splits,        \* how many splits may be in flight (splits)
  Slots,         \* names for the splits in flight
  StartPPM,      \* the call's maxppm
  MaxFee,        \* the fee budget (maxFeeMsat); 0: none
  Settings,      \* the runs considered, see SettingsOK
  RatioPPM,      \* what a split may pay at the fee ratio, at any maxppm
  MaxQueue       \* bound: splits a round's candidates are good for

NoSplit == [asked |-> 0, limit |-> 0]

\* A run's settings: stepPPM, capPPM, feeRatio (is one set), push (or pull),
\* and maxIdleRounds.
SettingsOK(s) ==
  /\ s.stepPPM \in Nat /\ s.capPPM \in Nat /\ s.maxIdleRounds \in Nat
  /\ s.feeRatio \in BOOLEAN /\ s.push \in BOOLEAN
  /\ s.stepPPM > 0 => s.capPPM >= StartPPM

ASSUME SlowAssumption ==
  /\ Amount \in Nat \ {0} /\ SplitAmount \in 1 .. Amount /\ Probe \in Nat
  /\ Splits \in Nat \ {0} /\ IsFiniteSet(Slots) /\ Cardinality(Slots) = Splits
  /\ StartPPM \in Nat \ {0} /\ MaxFee \in Nat /\ MaxQueue \in Nat
  /\ \A s \in Settings : SettingsOK(s)
  /\ RatioPPM \subseteq Nat

VARIABLES
  set,               \* the run's settings, which do not change
  pc,                \* where the run's goroutine is
  queue,             \* how many splits the round's candidates are good for
  inFlight,          \* by slot, the split in flight
  AmountRebalanced, feesPaid, feeReserved,
  maxPPM,            \* the round's limit
  stepProbe,         \* the round is a probe
  roundGoalMsat,     \* a probe's goal; 0: the run's amount
  roundStartMoved,   \* AmountRebalanced when the round started
  roundMaxPaid,      \* the highest rate a split of the round paid
  roundTopLimit,     \* the highest limit a split of the round had
  roundMost,         \* the most a split of the round could pay at any maxppm
  roundPriced,       \* the price held the round back
  roundLeftOut,      \* a candidate was left out for its peer's fee
  roundStopped,      \* targetStopped or streakStopped
  timeStopped, feeStopped,
  idleRounds,        \* rounds in a row idle at the top
  heldByStop, nodeStopped,
  firstStop, stopped,
  paidMost           \* history: the highest rate any split of the run paid

moneyVars == <<AmountRebalanced, feesPaid, feeReserved, paidMost>>
priceVars == <<maxPPM, stepProbe, roundGoalMsat, roundStartMoved>>
learnVars == <<roundMaxPaid, roundTopLimit, roundMost, roundPriced,
               roundLeftOut>>
flagVars  == <<roundStopped, timeStopped, feeStopped>>
holdVars  == <<heldByStop, nodeStopped>>
sayVars   == <<firstStop, stopped>>

vars == <<set, pc, queue, inFlight, moneyVars, priceVars, learnVars, flagVars,
          idleRounds, holdVars, sayVars>>

Reasons == {"", "round", "time", "fee", "gaveup", "held", "ranout"}

AtMost(a, b) == IF a < b THEN a ELSE b
AtLeast(a, b) == IF a > b THEN a ELSE b
-----------------------------------------------------------------------------
(***************************************************************************)
(* What the run fires.                                                     *)
(***************************************************************************)
Busy == {s \in Slots : inFlight[s] # NoSplit}

InFlightAmount == SumOver([s \in Slots |-> inFlight[s].asked], Slots)

\* What this round fires up to: the amount, or a probe's goal.
RoundGoal ==
  IF roundGoalMsat = 0 \/ roundGoalMsat > Amount THEN Amount ELSE roundGoalMsat

\* What a probe tries: at least a split, at most what is left.
ProbeSize ==
  LET left == Amount - AmountRebalanced
      p == IF Probe = 0 THEN left \div 5 ELSE Probe
  IN AtMost(AtLeast(p, SplitAmount), left)

\* Slip: reserved at the call's maxppm, whatever the round's.
WorstFeeAtStart(amount) == amount * StartPPM

WorstFee(amount) == amount * maxPPM

WithinBudget(amount) ==
  MaxFee = 0 \/ feesPaid + feeReserved + WorstFee(amount) <= MaxFee

Reserved(amount) == IF MaxFee = 0 THEN 0 ELSE WorstFee(amount)

\* With a fee ratio, what any maxppm would let a split over the candidate pay
\* (economics.most); 0 without one.
Mosts == IF set.feeRatio THEN RatioPPM \ {0} ELSE {0}

LimitOf(most) == IF most = 0 THEN maxPPM ELSE AtMost(most, maxPPM)

Held == heldByStop /\ nodeStopped

NoteStop(why) ==
  /\ firstStop' = IF firstStop = "" THEN why ELSE firstStop
  /\ stopped' = IF stopped = "" /\ ~Held THEN firstStop' ELSE stopped

CanFire ==
  /\ pc = "fire"
  /\ AmountRebalanced + InFlightAmount < RoundGoal
  /\ Busy # Slots
  /\ ~roundStopped /\ ~timeStopped /\ ~feeStopped

\* Slip: what is in flight is asked for again.
NextAmountLeft == AtMost(RoundGoal - AmountRebalanced, SplitAmount)

NextAmount ==
  AtMost(RoundGoal - AmountRebalanced - InFlightAmount, SplitAmount)

\* Out of the loop of FireCandidates: wait for a result, or close the round.
StopFiring == pc' = IF Busy = {} THEN "close" ELSE "wait"

\* The goal is asked for, every slot is taken, a stop was noted, or the limit
\* learned from the target holds the run while splits are in flight.
NothingToFire ==
  /\ pc = "fire" /\ (~CanFire \/ Busy # {})
  /\ StopFiring
  /\ UNCHANGED <<set, queue, inFlight, moneyVars, priceVars, learnVars,
                 flagVars, idleRounds, holdVars, sayVars>>

HeldBack ==
  /\ CanFire /\ nodeStopped
  /\ heldByStop' = TRUE
  /\ StopFiring
  /\ UNCHANGED <<set, queue, inFlight, moneyVars, priceVars, learnVars,
                 flagVars, idleRounds, nodeStopped, sayVars>>

OverBudget ==
  /\ CanFire /\ ~nodeStopped /\ ~WithinBudget(NextAmount)
  /\ IF Busy = {} THEN feeStopped' = TRUE /\ NoteStop("fee")
                  ELSE UNCHANGED <<feeStopped, sayVars>>
  /\ StopFiring
  /\ UNCHANGED <<set, queue, inFlight, moneyVars, priceVars, learnVars,
                 roundStopped, timeStopped, idleRounds, holdVars>>

\* Every candidate left is skipped: depleted, disconnected, or not worth it at
\* the fee ratio.
NoneLeft ==
  /\ CanFire /\ ~nodeStopped /\ WithinBudget(NextAmount)
  /\ queue' = 0
  /\ StopFiring
  /\ UNCHANGED <<set, inFlight, moneyVars, priceVars, learnVars, flagVars,
                 idleRounds, holdVars, sayVars>>

\* newSplit and the turn of FireCandidates that launches it; some candidates
\* may be skipped first.
FireSplit(s, most) ==
  /\ CanFire /\ ~nodeStopped /\ WithinBudget(NextAmount)
  /\ inFlight[s] = NoSplit /\ LimitOf(most) > 0
  /\ \E q \in 0 .. queue - 1 : queue' = q
  /\ inFlight' = [inFlight EXCEPT ![s] = [asked |-> NextAmount,
                                          limit |-> LimitOf(most)]]
  /\ feeReserved' = feeReserved + Reserved(NextAmount)
  /\ roundTopLimit' = AtLeast(roundTopLimit, LimitOf(most))
  /\ roundMost' = AtLeast(roundMost, most)
  /\ heldByStop' = FALSE
  /\ UNCHANGED <<set, pc, AmountRebalanced, feesPaid, paidMost, priceVars,
                 roundMaxPaid, roundPriced, roundLeftOut, flagVars, idleRounds,
                 nodeStopped, sayVars>>
-----------------------------------------------------------------------------
(***************************************************************************)
(* What comes back.                                                        *)
(***************************************************************************)
\* The split in slot s ends, and the loop of waitForRound fires again.
Ends(s) ==
  /\ pc = "wait" /\ inFlight[s] # NoSplit
  /\ inFlight' = [inFlight EXCEPT ![s] = NoSplit]
  /\ feeReserved' = AtLeast(feeReserved - Reserved(inFlight[s].asked), 0)
  /\ pc' = "fire"

\* It may deliver less than it asked for, at any rate within its limit; its
\* candidate goes back to the front of the queue.
SplitSucceeds(s, moved, rate) ==
  /\ Ends(s)
  /\ moved \in 1 .. inFlight[s].asked /\ rate \in 0 .. inFlight[s].limit
  /\ AmountRebalanced' = AmountRebalanced + moved
  /\ feesPaid' = feesPaid + moved * rate
  /\ roundMaxPaid' = AtLeast(roundMaxPaid, rate)
  /\ paidMost' = AtLeast(paidMost, rate)
  /\ queue' = queue + 1
  /\ UNCHANGED <<set, priceVars, roundTopLimit, roundMost, roundPriced,
                 roundLeftOut, flagVars, idleRounds, holdVars, sayVars>>

\* Whether the price held it back: never when its own limit is below maxppm.
PriceHeld(s) == IF inFlight[s].limit < maxPPM THEN {FALSE} ELSE BOOLEAN

\* It moved nothing; the target or the fail streak may stop the round.
SplitFails(s, priced, stops) ==
  /\ Ends(s)
  /\ priced \in PriceHeld(s)
  /\ roundPriced' = (roundPriced \/ priced)
  /\ roundStopped' = (roundStopped \/ stops)
  /\ IF stops /\ ~roundStopped THEN NoteStop("round") ELSE UNCHANGED sayVars
  /\ UNCHANGED <<set, queue, AmountRebalanced, feesPaid, paidMost, priceVars,
                 roundMaxPaid, roundTopLimit, roundMost, roundLeftOut,
                 timeStopped, feeStopped, idleRounds, holdVars>>

\* timeUp: the round's own stop would have led to another round, the time
\* limit ends the run.
SayTimeUp ==
  /\ timeStopped' = TRUE
  /\ firstStop' = "time"
  /\ stopped' = IF Held THEN "" ELSE "time"

\* The deadline while splits are in flight (nextResult).
TimeUp ==
  /\ pc = "wait" /\ ~timeStopped
  /\ SayTimeUp
  /\ UNCHANGED <<set, pc, queue, inFlight, moneyVars, priceVars, learnVars,
                 roundStopped, feeStopped, idleRounds, holdVars>>

\* circular-stop, circular-resume.
Toggle ==
  /\ pc # "done"
  /\ nodeStopped' = ~nodeStopped
  /\ UNCHANGED <<set, pc, queue, inFlight, moneyVars, priceVars, learnVars,
                 flagVars, idleRounds, heldByStop, sayVars>>
-----------------------------------------------------------------------------
(***************************************************************************)
(* Between rounds.                                                         *)
(***************************************************************************)
Moved == AmountRebalanced > roundStartMoved

\* The highest limit a split of the round had, when a fee ratio held them all
\* below the round's maxppm; 0 otherwise.
HeldLimit == IF roundTopLimit \in 1 .. maxPPM - 1 THEN roundTopLimit ELSE 0

\* Slip: what the splits could pay at the fee ratio does not lower the top.
StepCapFixed == set.capPPM

\* The highest maxppm stepping goes to.
StepCap ==
  IF roundMost > 0 /\ roundMost < set.capPPM /\ ~roundLeftOut THEN roundMost
  ELSE set.capPPM

AtTop == set.stepPPM = 0 \/ maxPPM >= StepCap

IdleAtTop == ~Moved /\ (roundPriced \/ HeldLimit > 0) /\ AtTop

\* The rounds in a row that moved nothing at the most the run can pay; one
\* that could try nothing, or learned nothing of the top, leaves the count.
CountIdle ==
  IF IdleAtTop THEN idleRounds + 1
  ELSE IF Moved THEN 0
  ELSE IF roundTopLimit = 0 /\ ~roundLeftOut THEN idleRounds
  ELSE IF ~AtTop THEN 0
  ELSE idleRounds

\* Slip: after a probe, the rest at the probe's own limit plus half a step.
AfterProbeLimit == AtMost(maxPPM + set.stepPPM \div 2, StepCap)

\* After a probe that moved something: what it paid plus half a step.
AfterProbe == AtMost(roundMaxPaid + set.stepPPM \div 2, StepCap)

\* The next round: its price, whether it is a probe, and whether to wait.
NextStep ==
  LET step(price, probe, wait) ==
        [price |-> price, probe |-> probe, wait |-> wait]
  IN CASE set.stepPPM = 0 -> step(maxPPM, FALSE, TRUE)
       [] set.stepPPM > 0 /\ Moved /\ stepProbe ->
            step(IF AfterProbe = 0 THEN maxPPM ELSE AfterProbe, FALSE, FALSE)
       [] set.stepPPM > 0 /\ Moved /\ ~stepProbe -> step(maxPPM, FALSE, TRUE)
       [] set.stepPPM > 0 /\ ~Moved /\ ~roundPriced ->
            step(maxPPM, stepProbe, TRUE)
       [] set.stepPPM > 0 /\ ~Moved /\ roundPriced /\ maxPPM < StepCap ->
            step(AtMost(maxPPM + set.stepPPM, StepCap), TRUE, FALSE)
       [] OTHER -> step(maxPPM, TRUE, TRUE)

\* Slip: the time limit, once it came, does not end the rounds.
LastRoundUntimed == AmountRebalanced >= Amount \/ feeStopped \/ nodeStopped

LastRound ==
  AmountRebalanced >= Amount \/ timeStopped \/ feeStopped \/ nodeStopped

\* anotherRound: no other round follows.
EndsHere ==
  /\ pc = "close" /\ LastRound
  /\ pc' = "end"
  /\ UNCHANGED <<set, queue, inFlight, moneyVars, priceVars, learnVars,
                 flagVars, idleRounds, holdVars, sayVars>>

Enough(idle) == set.maxIdleRounds > 0 /\ idle >= set.maxIdleRounds

\* anotherRound, giveUp.
GiveUp ==
  /\ pc = "close" /\ ~LastRound
  /\ idleRounds' = CountIdle /\ Enough(CountIdle)
  /\ firstStop' = "gaveup" /\ stopped' = "gaveup"
  /\ pc' = "end"
  /\ UNCHANGED <<set, queue, inFlight, moneyVars, priceVars, learnVars,
                 flagVars, holdVars>>

\* anotherRound: the next round starts now, or after a wait.
Follow ==
  /\ pc = "close" /\ ~LastRound
  /\ idleRounds' = CountIdle /\ ~Enough(CountIdle)
  /\ pc' = IF NextStep.wait THEN "retry" ELSE "start"
  /\ UNCHANGED <<set, queue, inFlight, moneyVars, priceVars, learnVars,
                 flagVars, holdVars, sayVars>>

\* waitRetry: the time limit comes during the wait.
TimeUpInWait ==
  /\ pc = "retry" /\ ~timeStopped
  /\ pc' = "end"
  /\ SayTimeUp
  /\ UNCHANGED <<set, queue, inFlight, moneyVars, priceVars, learnVars,
                 roundStopped, feeStopped, idleRounds, holdVars>>

\* waitRetry: circular-stop comes during the wait.
StopInWait ==
  /\ pc = "retry" /\ nodeStopped
  /\ pc' = "end"
  /\ firstStop' = "" /\ stopped' = ""
  /\ heldByStop' = TRUE
  /\ UNCHANGED <<set, queue, inFlight, moneyVars, priceVars, learnVars,
                 flagVars, idleRounds, nodeStopped>>

\* waitRetry: the wait is over.
RetryTimer ==
  /\ pc = "retry"
  /\ pc' = "start"
  /\ UNCHANGED <<set, queue, inFlight, moneyVars, priceVars, learnVars,
                 flagVars, idleRounds, holdVars, sayVars>>

\* Candidates found again; in circular-push some may be left out because their
\* peer charges more than maxppm.
FindCandidates ==
  /\ queue' \in 0 .. MaxQueue
  /\ roundLeftOut' \in {FALSE, set.push}
  /\ roundPriced' = roundLeftOut'

\* A probe's goal, beyond what was moved.
GoalOf(probe) == IF probe THEN AmountRebalanced + ProbeSize ELSE 0

NewRound ==
  /\ pc = "start"
  /\ maxPPM' = NextStep.price /\ stepProbe' = NextStep.probe
  /\ roundGoalMsat' = GoalOf(NextStep.probe)
  /\ roundStartMoved' = AmountRebalanced
  /\ roundMaxPaid' = 0 /\ roundTopLimit' = 0 /\ roundMost' = 0
  /\ roundStopped' = FALSE
  /\ firstStop' = "" /\ stopped' = ""
  /\ FindCandidates
  /\ pc' = "fire"
  /\ UNCHANGED <<set, inFlight, moneyVars, timeStopped, feeStopped, idleRounds,
                 holdVars>>

StopFlag == roundStopped \/ timeStopped \/ feeStopped

\* The reason endRun gives when none was shown yet.
EndReason ==
  IF Held THEN "held"
  ELSE IF firstStop # "" THEN firstStop
  ELSE IF ~StopFlag THEN "ranout" ELSE ""

EndRun ==
  /\ pc = "end"
  /\ pc' = "done"
  /\ stopped' = IF AmountRebalanced >= Amount THEN ""
                ELSE IF stopped # "" THEN stopped ELSE EndReason
  /\ UNCHANGED <<set, queue, inFlight, moneyVars, priceVars, learnVars,
                 flagVars, idleRounds, holdVars, firstStop>>
-----------------------------------------------------------------------------
Init ==
  /\ set \in Settings
  /\ pc = "fire"
  /\ queue \in 0 .. MaxQueue
  /\ inFlight = [s \in Slots |-> NoSplit]
  /\ AmountRebalanced = 0 /\ feesPaid = 0 /\ feeReserved = 0 /\ paidMost = 0
  /\ maxPPM = StartPPM /\ stepProbe = FALSE
  /\ roundGoalMsat = 0 /\ roundStartMoved = 0
  /\ roundMaxPaid = 0 /\ roundTopLimit = 0 /\ roundMost = 0
  /\ roundLeftOut \in {FALSE, set.push} /\ roundPriced = roundLeftOut
  /\ roundStopped = FALSE /\ timeStopped = FALSE /\ feeStopped = FALSE
  /\ idleRounds = 0
  /\ heldByStop = FALSE /\ nodeStopped \in BOOLEAN
  /\ firstStop = "" /\ stopped = ""

Fire ==
  \/ NothingToFire \/ HeldBack \/ OverBudget \/ NoneLeft
  \/ \E s \in Slots, most \in Mosts : FireSplit(s, most)

HandleResult ==
  \E s \in Slots :
    \/ \E moved \in 1 .. SplitAmount, rate \in 0 .. maxPPM :
         SplitSucceeds(s, moved, rate)
    \/ \E priced, stops \in BOOLEAN : SplitFails(s, priced, stops)

Close == EndsHere \/ GiveUp \/ Follow

Next ==
  \/ Fire \/ HandleResult \/ Close
  \/ RetryTimer \/ StopInWait \/ NewRound \/ EndRun
  \/ TimeUp \/ TimeUpInWait
  \/ Toggle

\* The run's goroutine goes on, its splits end, its wait ends.  Nothing makes
\* the operator act, nor, here, the time limit.
Fairness ==
  /\ WF_vars(Fire) /\ WF_vars(HandleResult) /\ WF_vars(Close)
  /\ WF_vars(RetryTimer) /\ WF_vars(NewRound) /\ WF_vars(EndRun)

Spec == Init /\ [][Next]_vars

FairSpec == Spec /\ Fairness
-----------------------------------------------------------------------------
TypeOK ==
  /\ set \in Settings
  /\ pc \in {"fire", "wait", "close", "retry", "start", "end", "done"}
  /\ queue \in Nat /\ idleRounds \in Nat
  /\ inFlight \in [Slots -> [asked : Nat, limit : Nat]]
  /\ AmountRebalanced \in Nat /\ feesPaid \in Nat /\ feeReserved \in Nat
  /\ maxPPM \in Nat \ {0} /\ roundGoalMsat \in Nat /\ roundStartMoved \in Nat
  /\ roundMaxPaid \in Nat /\ roundTopLimit \in Nat /\ roundMost \in Nat
  /\ paidMost \in Nat
  /\ stepProbe \in BOOLEAN /\ roundPriced \in BOOLEAN /\ roundLeftOut \in BOOLEAN
  /\ roundStopped \in BOOLEAN /\ timeStopped \in BOOLEAN /\ feeStopped \in BOOLEAN
  /\ heldByStop \in BOOLEAN /\ nodeStopped \in BOOLEAN
  /\ firstStop \in Reasons /\ stopped \in Reasons

\* A probe risks a small amount at a price not known to work: whatever its
\* splits deliver, it moves no more than its goal, nor the run than its amount
\* (roundGoal, probeSize).
NeverPastGoal ==
  /\ AmountRebalanced + InFlightAmount <= RoundGoal
  /\ stepProbe => RoundGoal - roundStartMoved
                    <= AtLeast(SplitAmount, AtLeast(Probe, Amount \div 5))

\* maxfee holds over the rounds, though each reserves at its own price.
WithinMaxFee == MaxFee > 0 => feesPaid + feeReserved <= MaxFee

\* Stepping pays for the rest what the network took: past the call's maxppm, a
\* full round runs at no more than half a step above a rate some split paid,
\* and no round above capppm (nextStep).  With stepppm 1 half a step is
\* nothing: after a probe that paid nothing the rest runs at its price.
ProvenPrices ==
  /\ set.stepPPM > 0 => maxPPM <= set.capPPM
  /\ set.stepPPM > 1 /\ ~stepProbe =>
       maxPPM <= AtLeast(StartPPM, paidMost + set.stepPPM \div 2)

\* The round moved nothing, and its price held it back.
Futile == ~Moved /\ (roundPriced \/ HeldLimit > 0)

\* maxidlerounds: a run whose rounds move nothing because of the price gives
\* up, however the fee ratio moves the top from round to round, without
\* waiting for its time limit (countIdle, nextStep).
GivesUp ==
  set.maxIdleRounds > 0 /\ <>[](pc = "close" => Futile) => <>(pc = "done")

\* The deadline stays ready until a wait of the run takes it.
TimeLimit == SF_vars(TimeUp \/ TimeUpInWait)

\* Slow mode always has a time limit, and every round, wait and step up comes
\* back to it: every run ends.
SlowRunEnds == TimeLimit => <>(pc = "done")
=============================================================================
