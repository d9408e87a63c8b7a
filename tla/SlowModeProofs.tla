--------------------------- MODULE SlowModeProofs ---------------------------
(***************************************************************************)
(* Slow mode, for any amounts, prices and settings, and any number of      *)
(* rounds: a probe moves no more than its goal, the budget holds over the  *)
(* rounds though each reserves at its own price, and a full round runs at  *)
(* a price the network took; every round ends, and one that is futile      *)
(* raises the price or counts as idle.                                     *)
(***************************************************************************)
EXTENDS SlowMode, CollectionProofs

USE SlowAssumption

\* Where the run's goroutine is when no split is in flight.
Resting == pc \in {"close", "retry", "start", "end", "done"}

\* The most a probe may move.
ProbeBound == AtLeast(SplitAmount, AtLeast(Probe, Amount \div 5))

\* A probe's goal was set, at most a probe beyond what was moved.
ProbeHasGoal ==
  stepProbe => roundGoalMsat > 0 /\ roundGoalMsat - roundStartMoved <= ProbeBound

\* The inductive invariant.
SlowInv ==
  /\ TypeOK
  /\ Resting => \A s \in Slots : inFlight[s] = NoSplit
  /\ pc \in {"retry", "start"} => AmountRebalanced < Amount
  /\ \A s \in Slots : inFlight[s].limit <= maxPPM
  /\ feeReserved = IF MaxFee = 0 THEN 0 ELSE InFlightAmount * maxPPM
  /\ roundMaxPaid <= paidMost
  /\ ProbeHasGoal
  /\ NeverPastGoal /\ WithinMaxFee /\ ProvenPrices
-----------------------------------------------------------------------------
(***************************************************************************)
(* What is in flight.                                                      *)
(***************************************************************************)
LEMMA NothingInFlight ==
  ASSUME \A s \in Slots : inFlight[s] = NoSplit
  PROVE  InFlightAmount = 0
<1> DEFINE f == [s \in Slots |-> inFlight[s].asked]
<1>1. \A s \in Slots : f[s] = 0
  BY DEF NoSplit
<1>2. \A s \in Slots : 1 .. f[s] = {}
  BY <1>1
<1> HIDE DEF f
<1>3. Tokens(f, Slots) = {}
  BY <1>2 DEF Tokens
<1>4. SumOver(f, Slots) = 0
  BY <1>3, FS_EmptySet DEF SumOver
<1> QED
  BY <1>4 DEF InFlightAmount, f

\* One slot changes: so does the sum.
LEMMA SlotChanges ==
  ASSUME TypeOK, NEW s \in Slots, NEW n \in [asked : Nat, limit : Nat],
         inFlight' = [inFlight EXCEPT ![s] = n]
  PROVE  /\ InFlightAmount \in Nat /\ InFlightAmount' \in Nat
         /\ inFlight[s].asked <= InFlightAmount
         /\ InFlightAmount' = InFlightAmount - inFlight[s].asked + n.asked
         /\ inFlight' \in [Slots -> [asked : Nat, limit : Nat]]
         /\ inFlight'[s] = n /\ \A q \in Slots \ {s} : inFlight'[q] = inFlight[q]
<1> DEFINE f == [q \in Slots |-> inFlight[q].asked]
           g == [q \in Slots |-> inFlight'[q].asked]
           R == Slots \ {s}
<1>1. /\ inFlight' \in [Slots -> [asked : Nat, limit : Nat]]
      /\ inFlight'[s] = n /\ \A q \in Slots \ {s} : inFlight'[q] = inFlight[q]
  BY DEF TypeOK
<1>2. \A q \in Slots : f[q] \in Nat /\ g[q] \in Nat
  BY <1>1 DEF TypeOK
<1>3. \A q \in R : f[q] = g[q]
  BY <1>1
<1>4. f[s] = inFlight[s].asked /\ g[s] = n.asked
  BY <1>1
<1> HIDE DEF f, g
<1>5. /\ SumOver(f, R) = SumOver(f, Slots) - f[s]
      /\ SumOver(f, R) \in Nat /\ f[s] <= SumOver(f, Slots)
  BY <1>2, SumRemove
<1>6. SumOver(f, R) = SumOver(g, R)
  BY <1>3, SumAgree
<1>7. SumOver(f, Slots) \in Nat /\ SumOver(g, Slots) \in Nat
  BY <1>2, SumIsNat
<1>8. SumOver(g, R) = SumOver(g, Slots) - g[s]
  BY <1>2, SumRemove
<1>9. InFlightAmount = SumOver(f, Slots) /\ InFlightAmount' = SumOver(g, Slots)
  BY DEF InFlightAmount, f, g
<1> QED
  BY <1>1, <1>2, <1>4, <1>5, <1>6, <1>7, <1>8, <1>9

LEMMA InFlightIsNat == TypeOK => InFlightAmount \in Nat
<1> DEFINE f == [q \in Slots |-> inFlight[q].asked]
<1>1. TypeOK => \A q \in Slots : f[q] \in Nat
  BY DEF TypeOK
<1> HIDE DEF f
<1>2. TypeOK => SumOver(f, Slots) \in Nat
  BY <1>1, SumIsNat
<1> QED
  BY <1>2 DEF InFlightAmount, f

\* Fees grow with the amount and the rate.
LEMMA FeesGrow ==
  ASSUME NEW a \in Nat, NEW b \in Nat, NEW m \in Nat, NEW n \in Nat, a <= b, m <= n
  PROVE  a * m \in Nat /\ b * n \in Nat /\ a * m <= b * n
<1>1. a * m \in Nat /\ b * n \in Nat /\ a * n \in Nat
  OBVIOUS
<1>2. a * m <= a * n
  <2>1. a * (n - m) >= 0 /\ a * n = a * m + a * (n - m)
    OBVIOUS
  <2> QED
    BY <1>1, <2>1
<1>3. a * n <= b * n
  <2>1. (b - a) * n >= 0 /\ b * n = a * n + (b - a) * n
    OBVIOUS
  <2> QED
    BY <1>1, <2>1
<1> QED
  BY <1>1, <1>2, <1>3

LEMMA FeesAdd ==
  ASSUME NEW a \in Nat, NEW b \in Nat, NEW n \in Nat
  PROVE  (a + b) * n = a * n + b * n
OBVIOUS

\* The run's settings and the price of a round.
LEMMA SettingsHold ==
  ASSUME TypeOK
  PROVE  /\ set.stepPPM \in Nat /\ set.capPPM \in Nat /\ set.stepPPM \div 2 \in Nat
         /\ set.feeRatio \in BOOLEAN /\ set.push \in BOOLEAN
         /\ set.stepPPM > 0 => set.capPPM >= StartPPM
         /\ set.stepPPM > 1 => set.stepPPM \div 2 >= 1
         /\ set.stepPPM > 0 => StepCap \in Nat \ {0} /\ StepCap <= set.capPPM
<1>1. SettingsOK(set)
  BY DEF TypeOK
<1>2. set.stepPPM \in Nat /\ set.stepPPM \div 2 \in Nat
      /\ (set.stepPPM > 1 => set.stepPPM \div 2 >= 1)
  BY <1>1 DEF SettingsOK
<1>3. set.stepPPM > 0 => StepCap \in Nat \ {0} /\ StepCap <= set.capPPM
  BY <1>1 DEF SettingsOK, StepCap, TypeOK
<1> QED
  BY <1>1, <1>2, <1>3 DEF SettingsOK
-----------------------------------------------------------------------------
(***************************************************************************)
(* Steps that move no money and change no price.                           *)
(***************************************************************************)
LEMMA QuietKeeps ==
  ASSUME SlowInv, TypeOK',
         UNCHANGED <<set, inFlight, moneyVars, priceVars, roundMaxPaid>>,
         Resting' => \A s \in Slots : inFlight[s] = NoSplit,
         pc' \in {"retry", "start"} => AmountRebalanced < Amount
  PROVE  SlowInv'
<1>1. UNCHANGED <<InFlightAmount, RoundGoal>>
  BY DEF InFlightAmount, RoundGoal, moneyVars, priceVars
<1>2. NeverPastGoal' /\ WithinMaxFee' /\ ProvenPrices' /\ ProbeHasGoal'
  BY <1>1 DEF SlowInv, NeverPastGoal, WithinMaxFee, ProvenPrices, ProbeHasGoal,
              moneyVars, priceVars
<1> QED
  BY <1>1, <1>2 DEF SlowInv, moneyVars, priceVars

\* The reason of a stop is one of the reasons.
LEMMA NoteStopTypes ==
  ASSUME TypeOK, NEW why \in Reasons, NoteStop(why)
  PROVE  firstStop' \in Reasons /\ stopped' \in Reasons
BY DEF NoteStop, TypeOK

LEMMA BusyIsEmpty == Busy = {} => \A s \in Slots : inFlight[s] = NoSplit
BY DEF Busy

LEMMA QuietFire ==
  ASSUME SlowInv, NothingToFire \/ HeldBack \/ OverBudget \/ NoneLeft
  PROVE  SlowInv'
<1> USE DEF moneyVars, priceVars, learnVars, flagVars, holdVars, sayVars
<1>1. /\ UNCHANGED <<set, inFlight, moneyVars, priceVars, roundMaxPaid>>
      /\ pc' = IF Busy = {} THEN "close" ELSE "wait"
  BY DEF NothingToFire, HeldBack, OverBudget, NoneLeft, StopFiring
<1>2. TypeOK'
  <2>1. CASE NothingToFire
    BY <1>1, <2>1 DEF NothingToFire, SlowInv, TypeOK
  <2>2. CASE HeldBack
    BY <1>1, <2>2 DEF HeldBack, SlowInv, TypeOK
  <2>3. CASE OverBudget
    <3>1. firstStop' \in Reasons /\ stopped' \in Reasons /\ feeStopped' \in BOOLEAN
      <4>1. CASE Busy = {}
        BY <2>3, <4>1, NoteStopTypes DEF OverBudget, Reasons, SlowInv
      <4>2. CASE Busy # {}
        BY <2>3, <4>2 DEF OverBudget, SlowInv, TypeOK
      <4> QED
        BY <4>1, <4>2
    <3> QED
      BY <1>1, <2>3, <3>1 DEF OverBudget, SlowInv, TypeOK
  <2>4. CASE NoneLeft
    BY <1>1, <2>4 DEF NoneLeft, SlowInv, TypeOK
  <2> QED
    BY <2>1, <2>2, <2>3, <2>4
<1> QED
  BY <1>1, <1>2, BusyIsEmpty, QuietKeeps DEF Resting

LEMMA QuietRest ==
  ASSUME SlowInv, Toggle \/ TimeUp \/ EndsHere \/ GiveUp \/ Follow \/ TimeUpInWait
                  \/ StopInWait \/ RetryTimer \/ EndRun \/ UNCHANGED vars
  PROVE  SlowInv'
<1> USE DEF vars, moneyVars, priceVars, learnVars, flagVars, holdVars, sayVars
<1>1. UNCHANGED <<set, inFlight, moneyVars, priceVars, roundMaxPaid>>
  BY DEF Toggle, TimeUp, EndsHere, GiveUp, Follow, TimeUpInWait, StopInWait, RetryTimer, EndRun
<1>2. Resting' => Resting
  BY DEF Toggle, TimeUp, EndsHere, GiveUp, Follow, TimeUpInWait, StopInWait, RetryTimer, EndRun,
         Resting
<1>3. pc' \in {"retry", "start"} => AmountRebalanced < Amount
  <2>1. CASE Follow
    BY <2>1 DEF Follow, LastRound, SlowInv, TypeOK
  <2> QED
    BY <2>1 DEF Toggle, TimeUp, EndsHere, GiveUp, TimeUpInWait, StopInWait, RetryTimer, EndRun,
                SlowInv
<1>4. CountIdle \in Nat
  BY DEF CountIdle, SlowInv, TypeOK
<1>5. TypeOK'
  <2>1. CASE Toggle
    <3>1. nodeStopped' \in BOOLEAN
      BY <2>1 DEF Toggle
    <3>2. UNCHANGED <<set, pc, queue, inFlight, moneyVars, priceVars, learnVars, flagVars,
                      idleRounds, heldByStop, sayVars>>
      BY <2>1 DEF Toggle
    <3> QED
      BY <3>1, <3>2 DEF SlowInv, TypeOK
  <2>7. CASE UNCHANGED vars
    BY <2>7 DEF SlowInv, TypeOK
  <2>2. CASE TimeUp \/ TimeUpInWait
    <3>1. firstStop' \in Reasons /\ stopped' \in Reasons /\ timeStopped' \in BOOLEAN
      BY <2>2 DEF TimeUp, TimeUpInWait, SayTimeUp, Reasons
    <3>2. pc' \in {"wait", "end"}
      BY <2>2 DEF TimeUp, TimeUpInWait
    <3>3. UNCHANGED <<set, queue, inFlight, moneyVars, priceVars, learnVars, roundStopped,
                      feeStopped, idleRounds, holdVars>>
      BY <2>2 DEF TimeUp, TimeUpInWait
    <3> QED
      BY <3>1, <3>2, <3>3 DEF SlowInv, TypeOK
  <2>3. CASE EndsHere \/ RetryTimer
    BY <2>3 DEF EndsHere, RetryTimer, SlowInv, TypeOK
  <2>4. CASE GiveUp \/ Follow
    <3>1. pc' \in {"end", "retry", "start"} /\ idleRounds' \in Nat
      BY <1>4, <2>4 DEF GiveUp, Follow
    <3>2. firstStop' \in Reasons /\ stopped' \in Reasons
      BY <2>4 DEF GiveUp, Follow, Reasons, SlowInv, TypeOK
    <3>3. UNCHANGED <<set, queue, inFlight, moneyVars, priceVars, learnVars, flagVars, holdVars>>
      BY <2>4 DEF GiveUp, Follow
    <3> QED
      BY <3>1, <3>2, <3>3 DEF SlowInv, TypeOK
  <2>5. CASE StopInWait
    <3>1. firstStop' \in Reasons /\ stopped' \in Reasons /\ heldByStop' \in BOOLEAN
      BY <2>5 DEF StopInWait, Reasons
    <3>2. UNCHANGED <<set, queue, inFlight, moneyVars, priceVars, learnVars, flagVars,
                      idleRounds, nodeStopped>> /\ pc' = "end"
      BY <2>5 DEF StopInWait
    <3> QED
      BY <3>1, <3>2 DEF SlowInv, TypeOK
  <2>6. CASE EndRun
    <3>1. EndReason \in Reasons /\ "" \in Reasons /\ stopped \in Reasons
      BY DEF EndReason, Reasons, SlowInv, TypeOK
    <3>2. stopped' \in Reasons
      BY <2>6, <3>1 DEF EndRun
    <3>3. UNCHANGED <<set, queue, inFlight, moneyVars, priceVars, learnVars, flagVars,
                      idleRounds, holdVars, firstStop>> /\ pc' = "done"
      BY <2>6 DEF EndRun
    <3> QED
      BY <3>2, <3>3 DEF SlowInv, TypeOK
  <2> QED
    BY <2>1, <2>2, <2>3, <2>4, <2>5, <2>6, <2>7
<1> QED
  BY <1>1, <1>2, <1>3, <1>5, QuietKeeps DEF SlowInv
-----------------------------------------------------------------------------
(***************************************************************************)
(* Splits.                                                                 *)
(***************************************************************************)
LEMMA FireKeeps ==
  ASSUME SlowInv, NEW s \in Slots, NEW most \in Mosts, FireSplit(s, most)
  PROVE  SlowInv'
<1> DEFINE n == [asked |-> NextAmount, limit |-> LimitOf(most)]
<1>1. /\ UNCHANGED <<set, pc, AmountRebalanced, feesPaid, paidMost, maxPPM, stepProbe,
                     roundGoalMsat, roundStartMoved, roundMaxPaid, roundPriced, roundLeftOut,
                     roundStopped, timeStopped, feeStopped, idleRounds, nodeStopped,
                     firstStop, stopped>>
      /\ inFlight' = [inFlight EXCEPT ![s] = n]
      /\ inFlight[s] = NoSplit /\ pc = "fire" /\ WithinBudget(NextAmount)
      /\ feeReserved' = feeReserved + Reserved(NextAmount)
      /\ AmountRebalanced + InFlightAmount < RoundGoal
  BY DEF FireSplit, CanFire, moneyVars, priceVars, learnVars, flagVars, holdVars, sayVars
<1>2. RoundGoal \in Nat /\ UNCHANGED RoundGoal
  BY <1>1 DEF RoundGoal, SlowInv, TypeOK
<1>3. InFlightAmount \in Nat
  BY InFlightIsNat DEF SlowInv
<1>4. /\ NextAmount \in Nat
      /\ AmountRebalanced + InFlightAmount + NextAmount <= RoundGoal
  BY <1>1, <1>2, <1>3 DEF NextAmount, AtMost, SlowInv, TypeOK
<1>5. most \in Nat
  BY DEF Mosts
<1>6. LimitOf(most) \in Nat /\ LimitOf(most) <= maxPPM
  BY <1>5 DEF LimitOf, AtMost, SlowInv, TypeOK
<1>7. n \in [asked : Nat, limit : Nat] /\ n.asked = NextAmount /\ n.limit = LimitOf(most)
  BY <1>4, <1>6
<1> HIDE DEF n
<1>8. /\ InFlightAmount' = InFlightAmount + NextAmount
      /\ inFlight' \in [Slots -> [asked : Nat, limit : Nat]]
      /\ inFlight'[s] = n /\ \A q \in Slots \ {s} : inFlight'[q] = inFlight[q]
  <2>1. TypeOK /\ n \in [asked : Nat, limit : Nat] /\ inFlight' = [inFlight EXCEPT ![s] = n]
    BY <1>1, <1>7 DEF SlowInv
  <2>2. /\ InFlightAmount' \in Nat
        /\ InFlightAmount' = InFlightAmount - inFlight[s].asked + n.asked
        /\ inFlight' \in [Slots -> [asked : Nat, limit : Nat]]
        /\ inFlight'[s] = n /\ \A q \in Slots \ {s} : inFlight'[q] = inFlight[q]
    BY <2>1, SlotChanges
  <2>3. inFlight[s].asked = 0
    BY <1>1 DEF NoSplit
  <2> QED
    BY <1>3, <1>4, <1>7, <2>2, <2>3
<1>9. \A q \in Slots : inFlight'[q].limit <= maxPPM'
  BY <1>1, <1>6, <1>7, <1>8 DEF SlowInv
<1>10. feeReserved' = (IF MaxFee = 0 THEN 0 ELSE InFlightAmount' * maxPPM') /\ WithinMaxFee'
  <2>1. /\ (InFlightAmount + NextAmount) * maxPPM = InFlightAmount * maxPPM + NextAmount * maxPPM
        /\ InFlightAmount * maxPPM \in Nat /\ NextAmount * maxPPM \in Nat
    BY <1>3, <1>4, FeesAdd, FeesGrow DEF SlowInv, TypeOK
  <2>2. MaxFee > 0 => feesPaid + feeReserved + NextAmount * maxPPM <= MaxFee
    BY <1>1 DEF WithinBudget, WorstFee
  <2> QED
    BY <1>1, <1>8, <2>1, <2>2 DEF Reserved, WorstFee, WithinMaxFee, SlowInv, TypeOK
<1>11. NeverPastGoal' /\ ProvenPrices' /\ ProbeHasGoal'
  BY <1>1, <1>2, <1>3, <1>4, <1>8
     DEF NeverPastGoal, ProvenPrices, ProbeHasGoal, SlowInv, TypeOK
<1>12. TypeOK'
  <2>1. queue' \in Nat
    BY DEF FireSplit, SlowInv, TypeOK
  <2>2. feeReserved' \in Nat
    <3>1. Reserved(NextAmount) \in Nat
      BY <1>4 DEF Reserved, WorstFee, SlowInv, TypeOK
    <3> QED
      BY <1>1, <3>1 DEF SlowInv, TypeOK
  <2>3. roundTopLimit' \in Nat /\ roundMost' \in Nat
    BY <1>5, <1>6 DEF FireSplit, AtLeast, SlowInv, TypeOK
  <2>4. heldByStop' \in BOOLEAN
    BY DEF FireSplit
  <2> QED
    BY <1>1, <1>8, <2>1, <2>2, <2>3, <2>4 DEF SlowInv, TypeOK
<1> QED
  BY <1>1, <1>9, <1>10, <1>11, <1>12 DEF SlowInv, Resting

\* The split in slot s ends: what it had reserved is free, exactly.
LEMMA EndsFrees ==
  ASSUME SlowInv, NEW s \in Slots, Ends(s), UNCHANGED maxPPM
  PROVE  /\ pc' = "fire" /\ inFlight[s].asked \in Nat /\ inFlight[s].limit \in Nat
         /\ inFlight[s].limit <= maxPPM
         /\ inFlight' \in [Slots -> [asked : Nat, limit : Nat]]
         /\ \A q \in Slots : inFlight'[q].limit <= maxPPM
         /\ InFlightAmount \in Nat /\ InFlightAmount' \in Nat
         /\ InFlightAmount' = InFlightAmount - inFlight[s].asked
         /\ feeReserved' \in Nat
         /\ feeReserved' = IF MaxFee = 0 THEN 0 ELSE InFlightAmount' * maxPPM
         /\ feeReserved' = feeReserved - (IF MaxFee = 0 THEN 0 ELSE inFlight[s].asked * maxPPM)
<1>1. /\ inFlight' = [inFlight EXCEPT ![s] = NoSplit] /\ pc' = "fire"
      /\ feeReserved' = AtLeast(feeReserved - Reserved(inFlight[s].asked), 0)
  BY DEF Ends
<1>2. NoSplit \in [asked : Nat, limit : Nat] /\ NoSplit.asked = 0 /\ NoSplit.limit = 0
  BY DEF NoSplit
<1>3. inFlight[s].asked \in Nat /\ inFlight[s].limit \in Nat /\ inFlight[s].limit <= maxPPM
      /\ maxPPM \in Nat
  BY DEF SlowInv, TypeOK
<1>4. /\ InFlightAmount \in Nat /\ InFlightAmount' \in Nat
      /\ InFlightAmount' = InFlightAmount - inFlight[s].asked
      /\ inFlight' \in [Slots -> [asked : Nat, limit : Nat]]
      /\ inFlight'[s] = NoSplit /\ \A q \in Slots \ {s} : inFlight'[q] = inFlight[q]
  <2>1. TypeOK /\ inFlight' = [inFlight EXCEPT ![s] = NoSplit]
    BY <1>1 DEF SlowInv
  <2>2. /\ InFlightAmount \in Nat /\ InFlightAmount' \in Nat
        /\ InFlightAmount' = InFlightAmount - inFlight[s].asked + NoSplit.asked
        /\ inFlight' \in [Slots -> [asked : Nat, limit : Nat]]
        /\ inFlight'[s] = NoSplit /\ \A q \in Slots \ {s} : inFlight'[q] = inFlight[q]
    BY <1>2, <2>1, SlotChanges
  <2> QED
    BY <1>2, <1>3, <2>2
<1>5. \A q \in Slots : inFlight'[q].limit <= maxPPM
  BY <1>2, <1>3, <1>4 DEF SlowInv
<1>6. /\ InFlightAmount * maxPPM = InFlightAmount' * maxPPM + inFlight[s].asked * maxPPM
      /\ InFlightAmount' * maxPPM \in Nat /\ inFlight[s].asked * maxPPM \in Nat
  <2>1. InFlightAmount = InFlightAmount' + inFlight[s].asked
    BY <1>3, <1>4
  <2> QED
    BY <1>3, <1>4, <2>1, FeesAdd, FeesGrow
<1>7. feeReserved = IF MaxFee = 0 THEN 0 ELSE InFlightAmount * maxPPM
  BY DEF SlowInv
<1> QED
  BY <1>1, <1>3, <1>4, <1>5, <1>6, <1>7 DEF Reserved, WorstFee, AtLeast

LEMMA SuccessKeeps ==
  ASSUME SlowInv, NEW s \in Slots, NEW moved, NEW rate, SplitSucceeds(s, moved, rate)
  PROVE  SlowInv'
<1>1. /\ UNCHANGED <<set, maxPPM, stepProbe, roundGoalMsat, roundStartMoved, roundTopLimit,
                     roundMost, roundPriced, roundLeftOut, roundStopped, timeStopped,
                     feeStopped, idleRounds, heldByStop, nodeStopped, firstStop, stopped>>
      /\ Ends(s)
      /\ moved \in 1 .. inFlight[s].asked /\ rate \in 0 .. inFlight[s].limit
      /\ AmountRebalanced' = AmountRebalanced + moved
      /\ feesPaid' = feesPaid + moved * rate
      /\ roundMaxPaid' = AtLeast(roundMaxPaid, rate)
      /\ paidMost' = AtLeast(paidMost, rate)
      /\ queue' = queue + 1
  BY DEF SplitSucceeds, priceVars, flagVars, holdVars, sayVars
<1>2. /\ pc' = "fire" /\ inFlight[s].asked \in Nat /\ inFlight[s].limit \in Nat
      /\ inFlight[s].limit <= maxPPM
      /\ inFlight' \in [Slots -> [asked : Nat, limit : Nat]]
      /\ \A q \in Slots : inFlight'[q].limit <= maxPPM
      /\ InFlightAmount \in Nat /\ InFlightAmount' \in Nat
      /\ InFlightAmount' = InFlightAmount - inFlight[s].asked
      /\ feeReserved' \in Nat
      /\ feeReserved' = IF MaxFee = 0 THEN 0 ELSE InFlightAmount' * maxPPM
      /\ feeReserved' = feeReserved - (IF MaxFee = 0 THEN 0 ELSE inFlight[s].asked * maxPPM)
  BY <1>1, EndsFrees
<1>3. /\ moved \in Nat /\ rate \in Nat /\ moved <= inFlight[s].asked /\ rate <= maxPPM
      /\ maxPPM \in Nat
  BY <1>1, <1>2 DEF SlowInv, TypeOK
<1>4. /\ moved * rate \in Nat /\ inFlight[s].asked * maxPPM \in Nat
      /\ moved * rate <= inFlight[s].asked * maxPPM
  BY <1>2, <1>3, FeesGrow
<1>5. WithinMaxFee'
  BY <1>1, <1>2, <1>4 DEF WithinMaxFee, SlowInv, TypeOK
<1>6. NeverPastGoal'
  <2>1. UNCHANGED RoundGoal /\ RoundGoal \in Nat
    BY <1>1 DEF RoundGoal, SlowInv, TypeOK
  <2> QED
    BY <1>1, <1>2, <1>3, <2>1 DEF NeverPastGoal, SlowInv, TypeOK
<1>7. /\ roundMaxPaid' \in Nat /\ paidMost' \in Nat /\ roundMaxPaid' <= paidMost'
      /\ paidMost <= paidMost'
  BY <1>1, <1>3 DEF AtLeast, SlowInv, TypeOK
<1>8. ProvenPrices' /\ ProbeHasGoal'
  BY <1>1, <1>7, SettingsHold DEF ProvenPrices, ProbeHasGoal, AtLeast, SlowInv, TypeOK
<1>9. TypeOK'
  <2>1. queue' \in Nat /\ AmountRebalanced' \in Nat /\ feesPaid' \in Nat
    BY <1>1, <1>3, <1>4 DEF SlowInv, TypeOK
  <2> QED
    BY <1>1, <1>2, <1>7, <2>1 DEF SlowInv, TypeOK
<1> QED
  BY <1>1, <1>2, <1>5, <1>6, <1>7, <1>8, <1>9 DEF SlowInv, Resting

LEMMA FailureKeeps ==
  ASSUME SlowInv, NEW s \in Slots, NEW priced \in BOOLEAN, NEW stops \in BOOLEAN,
         SplitFails(s, priced, stops)
  PROVE  SlowInv'
<1>1. /\ UNCHANGED <<set, queue, AmountRebalanced, feesPaid, paidMost, maxPPM, stepProbe,
                     roundGoalMsat, roundStartMoved, roundMaxPaid, roundTopLimit, roundMost,
                     roundLeftOut, timeStopped, feeStopped, idleRounds, heldByStop, nodeStopped>>
      /\ Ends(s)
      /\ roundPriced' = (roundPriced \/ priced)
      /\ roundStopped' = (roundStopped \/ stops)
  BY DEF SplitFails, priceVars, holdVars
<1>2. /\ pc' = "fire" /\ inFlight[s].asked \in Nat
      /\ inFlight' \in [Slots -> [asked : Nat, limit : Nat]]
      /\ \A q \in Slots : inFlight'[q].limit <= maxPPM
      /\ InFlightAmount \in Nat /\ InFlightAmount' \in Nat
      /\ InFlightAmount' = InFlightAmount - inFlight[s].asked
      /\ feeReserved' \in Nat /\ feeReserved' <= feeReserved
      /\ feeReserved' = IF MaxFee = 0 THEN 0 ELSE InFlightAmount' * maxPPM
  <2>1. inFlight[s].asked \in Nat /\ maxPPM \in Nat /\ inFlight[s].asked * maxPPM \in Nat
    BY DEF SlowInv, TypeOK
  <2>2. feeReserved \in Nat
    BY DEF SlowInv, TypeOK
  <2> QED
    BY <1>1, <2>1, <2>2, EndsFrees
<1>3. firstStop' \in Reasons /\ stopped' \in Reasons
  <2>1. CASE stops /\ ~roundStopped
    BY <2>1, NoteStopTypes DEF SplitFails, Reasons, SlowInv
  <2>2. CASE ~(stops /\ ~roundStopped)
    BY <2>2 DEF SplitFails, sayVars, SlowInv, TypeOK
  <2> QED
    BY <2>1, <2>2
<1>4. WithinMaxFee'
  BY <1>1, <1>2 DEF WithinMaxFee, SlowInv, TypeOK
<1>5. NeverPastGoal'
  <2>1. UNCHANGED RoundGoal /\ RoundGoal \in Nat
    BY <1>1 DEF RoundGoal, SlowInv, TypeOK
  <2> QED
    BY <1>1, <1>2, <2>1 DEF NeverPastGoal, SlowInv, TypeOK
<1>6. ProvenPrices' /\ ProbeHasGoal'
  BY <1>1 DEF ProvenPrices, ProbeHasGoal, SlowInv
<1>7. roundPriced' \in BOOLEAN /\ roundStopped' \in BOOLEAN
  BY <1>1
<1>8. TypeOK'
  BY <1>1, <1>2, <1>3, <1>7 DEF SlowInv, TypeOK
<1> QED
  BY <1>1, <1>2, <1>4, <1>5, <1>6, <1>8 DEF SlowInv, Resting
-----------------------------------------------------------------------------
(***************************************************************************)
(* Rounds.                                                                 *)
(***************************************************************************)
Good(x) == x \in Nat \ {0} /\ (set.stepPPM > 0 => x <= set.capPPM)

Proved(x) == set.stepPPM > 1 => x <= AtLeast(StartPPM, paidMost + set.stepPPM \div 2)

\* The price of the next round is proved, unless the round is a probe.
LEMMA NextPrice ==
  ASSUME SlowInv
  PROVE  /\ Good(NextStep.price) /\ NextStep.probe \in BOOLEAN
         /\ NextStep.probe \/ Proved(NextStep.price)
<1>1. /\ set.stepPPM \in Nat /\ set.capPPM \in Nat /\ set.stepPPM \div 2 \in Nat
      /\ set.stepPPM > 1 => set.stepPPM \div 2 >= 1
      /\ set.stepPPM > 0 => StepCap \in Nat \ {0} /\ StepCap <= set.capPPM
  BY SettingsHold DEF SlowInv
<1>2. /\ maxPPM \in Nat \ {0} /\ roundMaxPaid \in Nat /\ paidMost \in Nat
      /\ roundMaxPaid <= paidMost
  BY DEF SlowInv, TypeOK
<1>3. Good(maxPPM) /\ stepProbe \in BOOLEAN /\ (stepProbe \/ Proved(maxPPM))
  BY Zenon DEF SlowInv, TypeOK, ProvenPrices, Good, Proved
<1>4. PICK k \in Nat : k = set.stepPPM
  BY <1>1
<1>5. CASE k = 0
  <2>1. NextStep = [price |-> maxPPM, probe |-> FALSE, wait |-> TRUE]
    BY <1>4, <1>5 DEF NextStep
  <2>2. Proved(maxPPM)
    BY <1>4, <1>5 DEF Proved
  <2> QED
    BY Zenon, <1>3, <2>1, <2>2
<1>6. CASE k > 0 /\ Moved /\ stepProbe
  <2>1. NextStep.price = (IF AfterProbe = 0 THEN maxPPM ELSE AfterProbe) /\ NextStep.probe = FALSE
    BY <1>4, <1>6 DEF NextStep
  <2>2. PICK h \in Nat : h = set.stepPPM \div 2 /\ (k > 1 => h >= 1)
    BY <1>1, <1>4
  <2>3. AfterProbe = AtMost(roundMaxPaid + h, StepCap)
    BY <2>2 DEF AfterProbe
  <2>4. /\ AfterProbe \in Nat /\ AfterProbe <= set.capPPM /\ AfterProbe <= roundMaxPaid + h
        /\ k > 1 => AfterProbe # 0
    BY <1>1, <1>2, <1>4, <1>6, <2>2, <2>3 DEF AtMost
  <2>5. Good(NextStep.price)
    BY <1>3, <2>1, <2>4 DEF Good
  <2>6. k > 1 => NextStep.price <= AtLeast(StartPPM, paidMost + h)
    BY <1>2, <2>1, <2>2, <2>4 DEF AtLeast
  <2>7. Proved(NextStep.price)
    BY <1>4, <2>2, <2>6 DEF Proved
  <2> QED
    BY Zenon, <2>1, <2>5, <2>7
<1>7. CASE k > 0 /\ Moved /\ ~stepProbe
  <2>1. NextStep = [price |-> maxPPM, probe |-> FALSE, wait |-> TRUE]
    BY <1>4, <1>7 DEF NextStep
  <2> QED
    BY Zenon, <1>3, <1>7, <2>1
<1>8. CASE k > 0 /\ ~Moved /\ ~roundPriced
  <2>1. NextStep = [price |-> maxPPM, probe |-> stepProbe, wait |-> TRUE]
    BY <1>4, <1>8 DEF NextStep
  <2> QED
    BY Zenon, <1>3, <2>1
<1>9. CASE k > 0 /\ ~Moved /\ roundPriced /\ maxPPM < StepCap
  <2>1. NextStep.price = AtMost(maxPPM + k, StepCap) /\ NextStep.probe = TRUE
    BY <1>4, <1>9 DEF NextStep
  <2>2. Good(NextStep.price)
    BY <1>1, <1>2, <1>4, <1>9, <2>1 DEF AtMost, Good
  <2> QED
    BY Zenon, <2>1, <2>2
<1>10. CASE k > 0 /\ ~Moved /\ roundPriced /\ ~(maxPPM < StepCap)
  <2>1. NextStep = [price |-> maxPPM, probe |-> TRUE, wait |-> TRUE]
    BY <1>4, <1>10 DEF NextStep
  <2> QED
    BY Zenon, <1>3, <2>1
<1> QED
  BY <1>5, <1>6, <1>7, <1>8, <1>9, <1>10

\* A probe is at least one unit, at most what is left, and small.
LEMMA ProbeIsSmall ==
  ASSUME TypeOK, AmountRebalanced < Amount
  PROVE  /\ ProbeSize \in Nat /\ ProbeSize >= 1 /\ ProbeSize <= ProbeBound
         /\ AmountRebalanced + ProbeSize <= Amount
<1> DEFINE left == Amount - AmountRebalanced
           p == IF Probe = 0 THEN left \div 5 ELSE Probe
<1>1. left \in Nat /\ left >= 1 /\ left <= Amount /\ AmountRebalanced \in Nat
  BY DEF TypeOK
<1>2. left \div 5 \in Nat /\ Amount \div 5 \in Nat /\ left \div 5 <= Amount \div 5
  BY <1>1
<1>3. p \in Nat /\ p <= AtLeast(Probe, Amount \div 5)
  BY <1>2 DEF AtLeast
<1>4. ProbeSize = AtMost(AtLeast(p, SplitAmount), left)
  BY DEF ProbeSize
<1>5. SplitAmount \in Nat /\ SplitAmount >= 1
  OBVIOUS
<1>6. AtLeast(Probe, Amount \div 5) \in Nat
  BY <1>2 DEF AtLeast
<1>7. left = Amount - AmountRebalanced
  OBVIOUS
<1> HIDE DEF p, left
<1>8. ProbeSize \in Nat /\ ProbeSize >= 1 /\ ProbeSize <= left
  BY <1>1, <1>3, <1>4, <1>5 DEF AtMost, AtLeast
<1>9. ProbeSize <= AtLeast(SplitAmount, AtLeast(Probe, Amount \div 5))
  <2> DEFINE b == AtLeast(Probe, Amount \div 5)
  <2>1. b \in Nat /\ p <= b
    BY <1>3, <1>6
  <2> HIDE DEF b
  <2>2. ProbeSize <= AtLeast(SplitAmount, b)
    BY <1>1, <1>3, <1>4, <1>5, <2>1 DEF AtMost, AtLeast
  <2> QED
    BY <2>2 DEF b
<1> QED
  BY <1>1, <1>7, <1>8, <1>9 DEF ProbeBound

LEMMA RoundKeeps ==
  ASSUME SlowInv, NewRound
  PROVE  SlowInv'
<1>1. /\ UNCHANGED <<set, inFlight, AmountRebalanced, feesPaid, feeReserved, paidMost,
                     timeStopped, feeStopped, idleRounds, heldByStop, nodeStopped>>
      /\ pc = "start" /\ pc' = "fire"
      /\ maxPPM' = NextStep.price /\ roundStartMoved' = AmountRebalanced
      /\ roundMaxPaid' = 0 /\ roundTopLimit' = 0 /\ roundMost' = 0
  BY Zenon DEF NewRound, moneyVars, holdVars
<1>2. /\ stepProbe' = NextStep.probe /\ roundGoalMsat' = GoalOf(NextStep.probe)
      /\ roundStopped' = FALSE
      /\ queue' \in 0 .. MaxQueue
      /\ roundLeftOut' \in {FALSE, set.push} /\ roundPriced' = roundLeftOut'
      /\ firstStop' \in Reasons /\ stopped' \in Reasons
  BY Zenon DEF NewRound, FindCandidates, Reasons
<1>3. /\ AmountRebalanced < Amount /\ AmountRebalanced \in Nat /\ paidMost \in Nat
      /\ \A s \in Slots : inFlight[s] = NoSplit
  BY <1>1 DEF SlowInv, TypeOK, Resting
<1>4. InFlightAmount = 0 /\ InFlightAmount' = 0
  BY <1>1, <1>3, NothingInFlight DEF InFlightAmount
<1>5. /\ ProbeSize \in Nat /\ ProbeSize >= 1 /\ ProbeSize <= ProbeBound
      /\ AmountRebalanced + ProbeSize <= Amount
  BY <1>3, ProbeIsSmall DEF SlowInv
<1>6. Good(maxPPM') /\ stepProbe' \in BOOLEAN /\ (stepProbe' \/ Proved(maxPPM'))
  BY Zenon, <1>1, <1>2, NextPrice
<1>7. maxPPM' \in Nat \ {0} /\ maxPPM \in Nat
  BY <1>6 DEF Good, SlowInv, TypeOK
<1>8. roundGoalMsat' = IF stepProbe' THEN AmountRebalanced + ProbeSize ELSE 0
  BY Zenon, <1>2 DEF GoalOf
<1>9. ProbeHasGoal' /\ NeverPastGoal' /\ roundGoalMsat' \in Nat
  <2>1. Amount \in Nat /\ Amount > 0
        /\ ProbeBound = AtLeast(SplitAmount, AtLeast(Probe, Amount \div 5))
    BY DEF ProbeBound
  <2>2. PICK b : b = ProbeBound
    OBVIOUS
  <2>3. CASE stepProbe'
    <3>1. roundGoalMsat' = AmountRebalanced + ProbeSize
      BY Zenon, <1>8, <2>3
    <3>2. RoundGoal' = AmountRebalanced + ProbeSize /\ roundGoalMsat' \in Nat
      BY <1>3, <1>5, <2>1, <3>1 DEF RoundGoal
    <3>3. /\ roundGoalMsat' > 0 /\ roundGoalMsat' - roundStartMoved' <= b
          /\ AmountRebalanced' + InFlightAmount' <= RoundGoal'
          /\ RoundGoal' - roundStartMoved' <= b
      BY <1>1, <1>3, <1>4, <1>5, <2>2, <3>1, <3>2
    <3> QED
      BY Zenon, <2>1, <2>2, <3>2, <3>3 DEF ProbeHasGoal, NeverPastGoal, ProbeBound
  <2>4. CASE ~stepProbe'
    <3>1. roundGoalMsat' = 0
      BY Zenon, <1>8, <2>4
    <3>2. AmountRebalanced' + InFlightAmount' <= RoundGoal'
      BY <1>1, <1>3, <1>4, <2>1, <3>1 DEF RoundGoal
    <3>3. 0 \in Nat
      OBVIOUS
    <3> QED
      BY Zenon, <2>4, <3>1, <3>2, <3>3 DEF ProbeHasGoal, NeverPastGoal
  <2> QED
    BY <2>3, <2>4
<1>10. ProvenPrices'
  BY Zenon, <1>1, <1>6 DEF ProvenPrices, Good, Proved
<1>11. feeReserved' = (IF MaxFee = 0 THEN 0 ELSE InFlightAmount' * maxPPM') /\ WithinMaxFee'
  <2>1. \A n \in Nat : 0 * n = 0
    OBVIOUS
  <2>2. InFlightAmount * maxPPM = 0 /\ InFlightAmount' * maxPPM' = 0
    BY Zenon, <1>4, <1>7, <2>1
  <2> QED
    BY <1>1, <2>2 DEF WithinMaxFee, SlowInv
<1>12. \A s \in Slots : inFlight'[s].limit <= maxPPM'
  BY <1>1, <1>3, <1>7 DEF NoSplit
<1>13. roundMaxPaid' <= paidMost'
  BY <1>1, <1>3
<1>14. TypeOK'
  <2>1. set.push \in BOOLEAN
    BY SettingsHold DEF SlowInv
  <2>2. /\ roundLeftOut' \in BOOLEAN /\ roundPriced' \in BOOLEAN /\ roundStopped' \in BOOLEAN
        /\ firstStop' \in Reasons /\ stopped' \in Reasons
    BY Zenon, <1>2, <2>1
  <2>3. queue' \in Nat
    BY <1>2
  <2> QED
    BY <1>1, <1>3, <1>6, <1>7, <1>9, <2>2, <2>3 DEF SlowInv, TypeOK
<1> QED
  BY <1>1, <1>9, <1>10, <1>11, <1>12, <1>13, <1>14 DEF SlowInv, Resting

LEMMA InitHolds == Init => SlowInv
<1> SUFFICES ASSUME Init PROVE SlowInv
  OBVIOUS
<1>1. /\ set \in Settings /\ pc = "fire" /\ queue \in 0 .. MaxQueue
      /\ inFlight = [s \in Slots |-> NoSplit]
      /\ AmountRebalanced = 0 /\ feesPaid = 0 /\ feeReserved = 0 /\ paidMost = 0
      /\ maxPPM = StartPPM /\ roundGoalMsat = 0 /\ roundStartMoved = 0
      /\ roundMaxPaid = 0 /\ roundTopLimit = 0 /\ roundMost = 0 /\ idleRounds = 0
  BY Zenon DEF Init
<1>2. /\ stepProbe = FALSE /\ roundLeftOut \in {FALSE, set.push} /\ roundPriced = roundLeftOut
      /\ roundStopped = FALSE /\ timeStopped = FALSE /\ feeStopped = FALSE
      /\ heldByStop = FALSE /\ nodeStopped \in BOOLEAN
  BY Zenon DEF Init
<1>3. SettingsOK(set)
  BY <1>1
<1>4. NoSplit \in [asked : Nat, limit : Nat] /\ NoSplit.limit = 0
  BY DEF NoSplit
<1>5. inFlight \in [Slots -> [asked : Nat, limit : Nat]] /\ \A s \in Slots : inFlight[s] = NoSplit
  BY <1>1, <1>4
<1>6. InFlightAmount = 0
  BY <1>5, NothingInFlight
<1>7. TypeOK
  <2>1. /\ stepProbe \in BOOLEAN /\ roundLeftOut \in BOOLEAN /\ roundPriced \in BOOLEAN
        /\ roundStopped \in BOOLEAN /\ timeStopped \in BOOLEAN /\ feeStopped \in BOOLEAN
        /\ heldByStop \in BOOLEAN /\ nodeStopped \in BOOLEAN
        /\ firstStop \in Reasons /\ stopped \in Reasons
    BY Zenon, <1>2, <1>3 DEF SettingsOK, Init, Reasons
  <2>2. /\ queue \in Nat /\ AmountRebalanced \in Nat /\ feesPaid \in Nat /\ feeReserved \in Nat
        /\ paidMost \in Nat /\ maxPPM \in Nat \ {0} /\ roundGoalMsat \in Nat
        /\ roundStartMoved \in Nat /\ roundMaxPaid \in Nat /\ roundTopLimit \in Nat
        /\ roundMost \in Nat /\ idleRounds \in Nat
    BY <1>1
  <2> QED
    BY Zenon, <1>1, <1>5, <2>1, <2>2 DEF TypeOK
<1>8. ~stepProbe
  BY Zenon, <1>2
<1>9. NeverPastGoal /\ ProbeHasGoal
  <2>1. AmountRebalanced + InFlightAmount <= RoundGoal
    BY <1>1, <1>6 DEF RoundGoal
  <2> QED
    BY Zenon, <1>8, <2>1 DEF NeverPastGoal, ProbeHasGoal
<1>10. ProvenPrices
  <2>1. set.stepPPM > 0 => maxPPM <= set.capPPM
    BY <1>1, <1>3 DEF SettingsOK
  <2>2. StartPPM <= AtLeast(StartPPM, paidMost + set.stepPPM \div 2)
    <3>1. set.stepPPM \div 2 \in Nat
      BY <1>7, SettingsHold
    <3>2. \A h \in Nat : StartPPM <= AtLeast(StartPPM, 0 + h)
      BY DEF AtLeast
    <3> QED
      BY <1>1, <3>1, <3>2
  <2> QED
    BY <1>1, <2>1, <2>2 DEF ProvenPrices
<1>11. feeReserved = (IF MaxFee = 0 THEN 0 ELSE InFlightAmount * maxPPM) /\ WithinMaxFee
  BY <1>1, <1>6 DEF WithinMaxFee
<1>12. \A s \in Slots : inFlight[s].limit <= maxPPM
  BY <1>1, <1>4, <1>5
<1>13. roundMaxPaid <= paidMost
  BY <1>1
<1> QED
  BY <1>1, <1>5, <1>7, <1>9, <1>10, <1>11, <1>12, <1>13 DEF SlowInv, Resting

\* The inductive invariant of slow mode: nothing is in flight between rounds, a
\* split's limit is within the round's price, what is reserved is what is in
\* flight at that price, and a probe has a goal.
THEOREM SlowInvariant == Spec => []SlowInv
<1>1. SlowInv /\ [Next]_vars => SlowInv'
  <2> SUFFICES ASSUME SlowInv, [Next]_vars
               PROVE  SlowInv'
    OBVIOUS
  <2>1. CASE Fire
    BY <2>1, QuietFire, FireKeeps DEF Fire
  <2>2. CASE HandleResult
    BY <2>2, SuccessKeeps, FailureKeeps DEF HandleResult
  <2>3. CASE NewRound
    BY <2>3, RoundKeeps
  <2> QED
    BY <2>1, <2>2, <2>3, QuietRest DEF Next, Close
<1> QED
  BY <1>1, InitHolds, PTL DEF Spec

\* Every variable of a slow run keeps its type, whatever the rounds.
THEOREM SlowTypes == Spec => []TypeOK
<1>1. SlowInv => TypeOK
  BY DEF SlowInv
<1> QED
  BY <1>1, SlowInvariant, PTL

\* Whatever its splits deliver, a probe moves no more than its goal, nor the run
\* than its amount (result.go roundGoal, probeSize).
THEOREM GoalsKept == Spec => []NeverPastGoal
<1>1. SlowInv => NeverPastGoal
  BY DEF SlowInv
<1> QED
  BY <1>1, SlowInvariant, PTL

\* maxfee holds over any number of rounds, at any prices (result.go withinBudget,
\* reserveFee, releaseFee).
THEOREM SlowBudgetKept == Spec => []WithinMaxFee
<1>1. SlowInv => WithinMaxFee
  BY DEF SlowInv
<1> QED
  BY <1>1, SlowInvariant, PTL

\* A full round above the call's maxppm runs at no more than half a step above
\* a rate some split paid, and no round above capppm (result.go nextStep).
THEOREM PricesProven == Spec => []ProvenPrices
<1>1. SlowInv => ProvenPrices
  BY DEF SlowInv
<1> QED
  BY <1>1, SlowInvariant, PTL
-----------------------------------------------------------------------------
(***************************************************************************)
(* The way to the end.  What SlowRunEnds and GivesUp rest on, and needs no *)
(* fairness: every round ends, and a round that moves nothing because of   *)
(* its price raises the price or counts as idle.                           *)
(***************************************************************************)
FewerIn(S, T) == S \subseteq T /\ S # T

Turns ==
  [fire |-> 5, wait |-> 4, close |-> 3, retry |-> 2, start |-> 1, end |-> 1, done |-> 0][pc]

\* The time limit comes; else more is moved; else fewer splits are left to
\* fire; else fewer are in flight; else the run's goroutine goes on.
GoesOn ==
  \/ ~timeStopped /\ timeStopped'
  \/ /\ UNCHANGED timeStopped
     /\ AmountRebalanced < AmountRebalanced'
  \/ /\ UNCHANGED <<timeStopped, AmountRebalanced>>
     /\ queue' < queue
  \/ /\ UNCHANGED <<timeStopped, AmountRebalanced, queue>>
     /\ FewerIn(Busy', Busy)
  \/ /\ UNCHANGED <<timeStopped, AmountRebalanced, queue, Busy>>
     /\ Turns' < Turns

\* What the round tells the next: the price goes up, at most to capppm, or the
\* count of idle rounds does.
StepsUpOrCounts ==
  \/ NextStep.price > maxPPM
  \/ NextStep.price = maxPPM /\ idleRounds' = idleRounds + 1

\* What the price of the round just ended tells: a round whose splits a fee
\* ratio all held below maxppm knows the most it could pay, and a round that
\* left a candidate out for its peer's fee is held back by its price.
RoundKnown ==
  /\ roundTopLimit < maxPPM => roundMost = roundTopLimit
  /\ roundLeftOut => roundPriced

LEMMA RankTypes ==
  ASSUME TypeOK
  PROVE  /\ set \in Settings /\ queue \in Nat /\ AmountRebalanced \in Nat
         /\ maxPPM \in Nat /\ maxPPM > 0 /\ idleRounds \in Nat
         /\ roundTopLimit \in Nat /\ roundMost \in Nat
         /\ timeStopped \in BOOLEAN /\ roundPriced \in BOOLEAN
         /\ inFlight \in [Slots -> [asked : Nat, limit : Nat]]
BY DEF TypeOK

\* Leaving the loop of FireCandidates.
LEMMA StopTurns ==
  ASSUME pc = "fire", StopFiring
  PROVE  Turns' < Turns
<1>1. pc' = "wait" \/ pc' = "close"
  BY DEF StopFiring
<1>2. Turns = 5 /\ (Turns' = 4 \/ Turns' = 3)
  BY <1>1 DEF Turns
<1> QED
  BY <1>2

LEMMA FiringGoesOn ==
  ASSUME TypeOK, Fire
  PROVE  GoesOn
<1> USE DEF moneyVars, flagVars
<1>1. CASE NothingToFire \/ HeldBack \/ OverBudget
  <2>1. pc = "fire" /\ StopFiring /\ UNCHANGED <<timeStopped, AmountRebalanced, queue, inFlight>>
    BY <1>1 DEF NothingToFire, HeldBack, OverBudget, CanFire
  <2>2. Busy' = Busy
    BY <2>1 DEF Busy
  <2> QED
    BY <2>1, <2>2, StopTurns DEF GoesOn
<1>2. CASE NoneLeft
  <2>1. /\ pc = "fire" /\ StopFiring /\ UNCHANGED <<timeStopped, AmountRebalanced, inFlight>>
        /\ queue' = 0
    BY <1>2 DEF NoneLeft, CanFire
  <2>2. Busy' = Busy
    BY <2>1 DEF Busy
  <2>3. queue = 0 \/ queue' < queue
    BY <2>1, RankTypes
  <2> QED
    BY <2>1, <2>2, <2>3, StopTurns DEF GoesOn
<1>3. ASSUME NEW s \in Slots, NEW most \in Mosts, FireSplit(s, most)
      PROVE  GoesOn
  <2>1. queue' \in 0 .. queue - 1 /\ UNCHANGED <<timeStopped, AmountRebalanced>>
    BY <1>3 DEF FireSplit
  <2>2. queue' < queue
    BY <2>1, RankTypes
  <2> QED
    BY <2>1, <2>2 DEF GoesOn
<1> QED
  BY <1>1, <1>2, <1>3 DEF Fire

LEMMA ResultGoesOn ==
  ASSUME SlowInv, HandleResult
  PROVE  GoesOn
<1>1. ASSUME NEW s \in Slots, NEW moved, NEW rate, SplitSucceeds(s, moved, rate)
      PROVE  GoesOn
  <2>1. /\ moved \in 1 .. inFlight[s].asked /\ AmountRebalanced' = AmountRebalanced + moved
        /\ timeStopped' = timeStopped
    BY <1>1 DEF SplitSucceeds, flagVars
  <2>2. AmountRebalanced < AmountRebalanced'
    BY <2>1, RankTypes DEF SlowInv
  <2> QED
    BY <2>1, <2>2 DEF GoesOn
<1>2. ASSUME NEW s \in Slots, NEW priced, NEW stops, SplitFails(s, priced, stops)
      PROVE  GoesOn
  <2>1. /\ inFlight' = [inFlight EXCEPT ![s] = NoSplit] /\ inFlight[s] # NoSplit
        /\ UNCHANGED <<timeStopped, AmountRebalanced, queue>>
    BY <1>2 DEF SplitFails, Ends
  <2>2. inFlight'[s] = NoSplit /\ \A q \in Slots \ {s} : inFlight'[q] = inFlight[q]
    BY <2>1, RankTypes DEF SlowInv
  <2>3. s \in Busy /\ Busy' = Busy \ {s}
    BY <2>1, <2>2 DEF Busy
  <2> QED
    BY <2>1, <2>3 DEF GoesOn, FewerIn
<1> QED
  BY <1>1, <1>2 DEF HandleResult

LEMMA StepGoesOn == SlowInv /\ Next => GoesOn \/ NewRound \/ Toggle
<1> SUFFICES ASSUME SlowInv, Next
             PROVE  GoesOn \/ NewRound \/ Toggle
  OBVIOUS
<1>1. CASE TimeUp \/ TimeUpInWait
  BY <1>1 DEF TimeUp, TimeUpInWait, SayTimeUp, GoesOn
<1>2. CASE Close \/ RetryTimer \/ (StopInWait /\ timeStopped' = timeStopped) \/ EndRun
  <2>1. UNCHANGED <<timeStopped, AmountRebalanced, queue, inFlight>>
    BY <1>2 DEF Close, EndsHere, GiveUp, Follow, RetryTimer, StopInWait, EndRun, moneyVars,
                flagVars
  <2>2. \/ pc = "close" /\ pc' \in {"end", "retry", "start"}
        \/ pc = "retry" /\ pc' \in {"start", "end"}
        \/ pc = "end" /\ pc' = "done"
    BY <1>2 DEF Close, EndsHere, GiveUp, Follow, RetryTimer, StopInWait, EndRun
  <2>3. Turns' < Turns
    BY <2>2 DEF Turns
  <2>4. Busy' = Busy
    BY <2>1 DEF Busy
  <2> QED
    BY <2>1, <2>3, <2>4 DEF GoesOn
<1>3. StopInWait => timeStopped' = timeStopped
  BY DEF StopInWait, flagVars
<1>4. CASE Fire \/ HandleResult
  BY <1>4, FiringGoesOn, ResultGoesOn DEF SlowInv
<1> QED
  BY <1>1, <1>2, <1>3, <1>4 DEF Next

\* What a round can know of its price stays known.
LEMMA StepKnown == SlowInv /\ RoundKnown /\ [Next]_vars => RoundKnown'
<1> SUFFICES ASSUME SlowInv, RoundKnown, [Next]_vars
             PROVE  RoundKnown'
  OBVIOUS
<1> USE DEF learnVars, priceVars
<1>1. CASE UNCHANGED <<maxPPM, roundTopLimit, roundMost, roundPriced, roundLeftOut>>
  BY <1>1 DEF RoundKnown
<1>2. ASSUME NEW s \in Slots, NEW most \in Mosts, FireSplit(s, most)
      PROVE  RoundKnown'
  <2>1. /\ roundTopLimit' = AtLeast(roundTopLimit, LimitOf(most))
        /\ roundMost' = AtLeast(roundMost, most)
        /\ UNCHANGED <<maxPPM, roundPriced, roundLeftOut>>
    BY <1>2 DEF FireSplit
  <2>2. most \in Nat
    BY DEF Mosts
  <2>3. ASSUME roundTopLimit' < maxPPM'
        PROVE  roundMost' = roundTopLimit'
    <3>1. roundTopLimit < maxPPM /\ LimitOf(most) < maxPPM
      BY <2>1, <2>2, <2>3, RankTypes DEF SlowInv, LimitOf, AtMost, AtLeast
    <3>2. LimitOf(most) = most
      BY <2>2, <3>1, RankTypes DEF SlowInv, LimitOf, AtMost
    <3> QED
      BY <2>1, <3>1, <3>2 DEF RoundKnown
  <2> QED
    BY <2>1, <2>3 DEF RoundKnown
<1>3. ASSUME NEW s, NEW priced, NEW stops, SplitFails(s, priced, stops)
      PROVE  RoundKnown'
  <2>1. /\ UNCHANGED <<maxPPM, roundTopLimit, roundMost, roundLeftOut>>
        /\ roundPriced => roundPriced'
    BY <1>3 DEF SplitFails
  <2> QED
    BY <2>1 DEF RoundKnown
<1>4. CASE NewRound
  BY <1>4 DEF NewRound, FindCandidates, RoundKnown
<1>5. ASSUME NEW s, NEW moved, NEW rate, SplitSucceeds(s, moved, rate)
      PROVE  RoundKnown'
  BY <1>1, <1>5 DEF SplitSucceeds
<1>6. CASE NothingToFire \/ HeldBack \/ OverBudget \/ NoneLeft \/ Close \/ RetryTimer \/ StopInWait
            \/ EndRun \/ TimeUp \/ TimeUpInWait \/ Toggle \/ UNCHANGED vars
  BY <1>1, <1>6 DEF NothingToFire, HeldBack, OverBudget, NoneLeft, Close, EndsHere, GiveUp,
                    Follow, RetryTimer, StopInWait, EndRun, TimeUp, TimeUpInWait, Toggle, vars
<1> QED
  BY <1>2, <1>3, <1>4, <1>5, <1>6 DEF Next, Fire, HandleResult

\* A round whose splits only a fee ratio held is at its top: they could pay no
\* more at any maxppm.
LEMMA FutileStep ==
  ASSUME SlowInv, RoundKnown, GiveUp \/ Follow, Futile
  PROVE  StepsUpOrCounts
<1>1. idleRounds' = CountIdle /\ ~Moved /\ (roundPriced \/ HeldLimit > 0)
  BY DEF GiveUp, Follow, Futile
<1>2. /\ set.stepPPM \in Nat
      /\ set.stepPPM > 0 => StepCap \in Nat
      /\ maxPPM \in Nat /\ maxPPM > 0 /\ roundTopLimit \in Nat /\ roundMost \in Nat
  BY SettingsHold, RankTypes DEF SlowInv
<1>3. CASE AtTop
  <2>1. idleRounds' = idleRounds + 1
    BY <1>1, <1>3 DEF CountIdle, IdleAtTop
  <2>2. NextStep.price = maxPPM
    <3>1. PICK k \in Nat : k = set.stepPPM
      BY <1>2
    <3>2. k = 0 \/ ~(maxPPM < StepCap)
      BY <1>2, <1>3, <3>1 DEF AtTop
    <3> QED
      BY <1>1, <3>1, <3>2 DEF NextStep
  <2> QED
    BY <2>1, <2>2 DEF StepsUpOrCounts
<1>4. CASE ~AtTop
  <2>1. set.stepPPM > 0 /\ maxPPM < StepCap
    BY <1>2, <1>4 DEF AtTop
  <2>2. roundPriced
    <3>1. SUFFICES ASSUME ~roundPriced PROVE FALSE
      OBVIOUS
    <3>2. roundTopLimit >= 1 /\ roundTopLimit < maxPPM
      BY <1>1, <1>2, <3>1 DEF HeldLimit
    <3>3. roundMost = roundTopLimit /\ ~roundLeftOut
      BY <3>1, <3>2 DEF RoundKnown
    <3>4. set.capPPM \in Nat /\ maxPPM <= set.capPPM
      BY <2>1, SettingsHold DEF SlowInv, ProvenPrices
    <3>5. StepCap = roundMost
      BY <1>2, <3>2, <3>3, <3>4 DEF StepCap
    <3> QED
      BY <1>2, <2>1, <3>2, <3>3, <3>5
  <2>3. NextStep.price = AtMost(maxPPM + set.stepPPM, StepCap)
    <3>1. PICK k \in Nat : k = set.stepPPM /\ k > 0
      BY <1>2, <2>1
    <3> QED
      BY <1>1, <2>1, <2>2, <3>1 DEF NextStep
  <2>4. NextStep.price > maxPPM
    BY <1>2, <2>1, <2>3 DEF AtMost
  <2> QED
    BY <2>4 DEF StepsUpOrCounts
<1> QED
  BY <1>3, <1>4

\* Every round ends: between two rounds, every step but circular-stop and
\* circular-resume takes the run down the order above, though a success puts
\* its candidate back (FireCandidates, waitForRound, waitRetry).
THEOREM EveryRoundEnds == Spec => [][GoesOn \/ NewRound \/ Toggle]_vars
<1>1. SlowInv /\ [Next]_vars => [GoesOn \/ NewRound \/ Toggle]_vars
  BY StepGoesOn
<1> QED
  BY <1>1, SlowInvariant, PTL DEF Spec

\* A round that moved nothing because of its price is followed by one at a
\* higher price, or counts as idle, however a fee ratio moves the top: no two
\* such rounds are alike to anotherRound (nextStep, countIdle, stepCap).
THEOREM FutileRoundsCount ==
  Spec => [][(GiveUp \/ Follow) /\ Futile => StepsUpOrCounts]_vars
<1>1. Init => RoundKnown
  <2>1. Init => roundTopLimit = 0 /\ roundMost = 0 /\ roundPriced = roundLeftOut
    BY DEF Init
  <2> QED
    BY <2>1 DEF RoundKnown
<1>2. SlowInv /\ RoundKnown /\ [Next]_vars =>
        [(GiveUp \/ Follow) /\ Futile => StepsUpOrCounts]_vars
  BY FutileStep
<1> QED
  BY <1>1, <1>2, StepKnown, SlowInvariant, PTL DEF Spec
=============================================================================
