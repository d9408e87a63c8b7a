------------------------- MODULE ParallelRunProofs -------------------------
(***************************************************************************)
(* A parallel run, for any candidates, any number of splits and any        *)
(* amounts.  Its safety: the counters of waitForRound are what the splits  *)
(* in flight add up to, so that the run stays within its amount and its    *)
(* fee budget, and within the limit it learned from its target.  Its end:  *)
(* no candidate is lost on the way, the limit and its probe stay           *)
(* consistent, a stop reaches the splits in flight, a run that falls short *)
(* says why.  It implements its contract (RunContract).  And no run goes   *)
(* on for ever: every step takes it nearer to its end, in an order without *)
(* infinite descents.  Everything rests on one invariant, SplitsInv.       *)
(***************************************************************************)
EXTENDS ParallelRun, CollectionProofs

USE RunAssumption, LimitAssumption, SplitAssumption

\* The worst fee of at least one sat is a natural number.
LEMMA WorstFeeType ==
  ASSUME NEW a \in Nat, a >= 1
  PROVE  WorstFee(a) \in Nat
<1> DEFINE k == (MaxPPM + 1) * a
<1>1. k \in Nat /\ k >= 1
  <2>1. MaxPPM * a \in Nat
    OBVIOUS
  <2>2. k = MaxPPM * a + a
    OBVIOUS
  <2> QED
    BY <2>1, <2>2
<1> HIDE DEF k
<1>2. (k * 1000 - 1) \div 1000000 \in Nat
  BY <1>1
<1> QED
  BY <1>2 DEF WorstFee, k

\* A split that moved less may cost less.
LEMMA WorstFeeGrows ==
  ASSUME NEW a \in Nat, NEW m \in Nat, m <= a
  PROVE  WorstFee(m) <= WorstFee(a)
<1> DEFINE k == (MaxPPM + 1) * a
           l == (MaxPPM + 1) * m
<1>1. k \in Nat /\ l \in Nat /\ l <= k
  <2>1. PICK d \in Nat : a = m + d
    <3>1. a - m \in Nat /\ a = m + (a - m)
      OBVIOUS
    <3> QED
      BY <3>1
  <2>2. k = l + (MaxPPM + 1) * d
    BY <2>1
  <2>3. l \in Nat /\ (MaxPPM + 1) * d \in Nat
    OBVIOUS
  <2> QED
    BY <2>2, <2>3
<1> HIDE DEF k, l
<1>2. (l * 1000 - 1) \div 1000000 <= (k * 1000 - 1) \div 1000000
  BY <1>1
<1> QED
  BY <1>2 DEF WorstFee, k, l
-----------------------------------------------------------------------------
(***************************************************************************)
(* The inductive invariant.  EverySplitReports and CandidateInOnePlace are *)
(* what makes each result give back exactly what its split took; a split's *)
(* goroutine ends once, so that no result is counted twice.                *)
(***************************************************************************)
OneResultEach ==
  /\ running \subseteq InFlight
  /\ \A i, j \in DOMAIN results : i # j => results[i].cand # results[j].cand

SplitsInv ==
  /\ TypeOK
  /\ CandidateInOnePlace
  /\ EverySplitReports
  /\ OneResultEach
  /\ CountersMatchSplits
  /\ WithinMaxFee
  /\ NeverPastTarget

\* By candidate, the most its split can cost.
WorstFees == [c \in Candidates |-> WorstFee(asked[c])]

LEMMA InFlightFinite ==
  InFlight \subseteq Candidates /\ IsFiniteSet(InFlight)
BY FS_Subset DEF InFlight

LEMMA InFlightTypes ==
  ASSUME TypeOK
  PROVE  \A c \in InFlight : /\ asked[c] \in 1 .. SplitAmount
                             /\ asked[c] \in Nat
                             /\ WorstFees[c] = WorstFee(asked[c])
                             /\ WorstFees[c] \in Nat
<1> TAKE c \in InFlight
<1>1. c \in Candidates /\ asked[c] \in 0 .. SplitAmount /\ asked[c] > 0
  BY DEF TypeOK, InFlight
<1>2. asked[c] \in Nat /\ asked[c] >= 1 /\ asked[c] \in 1 .. SplitAmount
  BY <1>1
<1> HIDE DEF WorstFees
<1>3. WorstFee(asked[c]) \in Nat
  BY <1>2, WorstFeeType
<1> QED
  BY <1>1, <1>2, <1>3 DEF WorstFees

\* The fees reserved, as one sum in both cases of MaxFee.
LEMMA ReservedIs ==
  CountersMatchSplits <=>
    /\ splitsInFlight = Cardinality(InFlight)
    /\ InFlightAmount = SumOver(asked, InFlight)
    /\ feeReserved = IF MaxFee = 0 THEN 0 ELSE SumOver(WorstFees, InFlight)
BY DEF CountersMatchSplits, WorstFees

\* FireCandidates, reserveFee: a split for c takes its amount and its fee.
LEMMA CountersTake ==
  ASSUME TypeOK, CountersMatchSplits,
         NEW c \in Candidates, c \notin InFlight,
         NEW a \in 1 .. SplitAmount,
         asked' = [asked EXCEPT ![c] = a],
         InFlightAmount' = InFlightAmount + a,
         splitsInFlight' = splitsInFlight + 1,
         feeReserved' = IF MaxFee > 0 THEN feeReserved + WorstFee(a) ELSE feeReserved
  PROVE  CountersMatchSplits' /\ InFlight' = InFlight \cup {c}
<1>1. asked \in [Candidates -> 0 .. SplitAmount] /\ a \in Nat /\ a >= 1
  BY DEF TypeOK
<1>2. asked'[c] = a /\ \A d \in Candidates \ {c} : asked'[d] = asked[d]
  BY <1>1
<1>3. InFlight' = InFlight \cup {c}
  BY <1>1, <1>2 DEF InFlight
<1>4. InFlight \subseteq Candidates /\ IsFiniteSet(InFlight)
  BY InFlightFinite
<1>5. \A d \in InFlight : /\ asked'[d] = asked[d] /\ asked[d] \in Nat
                          /\ WorstFees[d] \in Nat /\ WorstFees'[d] = WorstFees[d]
  <2>1. \A d \in InFlight : asked'[d] = asked[d] /\ d \in Candidates
    BY <1>2, <1>4
  <2> QED
    BY <2>1, InFlightTypes DEF WorstFees
<1>6. WorstFees'[c] = WorstFee(a) /\ WorstFee(a) \in Nat
  <2>1. WorstFee(a) \in Nat
    BY <1>1, WorstFeeType
  <2> QED
    BY <1>2, <2>1 DEF WorstFees
<1>7. Cardinality(InFlight') = Cardinality(InFlight) + 1
  BY <1>3, <1>4, FS_AddElement
<1>8. SumOver(asked', InFlight') = SumOver(asked, InFlight) + a
  <2>1. SumOver(asked', InFlight \cup {c}) = SumOver(asked', InFlight) + asked'[c]
    <3>1. \A d \in InFlight \cup {c} : asked'[d] \in Nat
      BY <1>1, <1>2, <1>5
    <3> QED
      BY <1>4, <3>1, SumAdd
  <2>2. SumOver(asked', InFlight) = SumOver(asked, InFlight)
    BY <1>5, SumAgree
  <2> QED
    BY <1>2, <1>3, <2>1, <2>2
<1>9. SumOver(WorstFees', InFlight') = SumOver(WorstFees, InFlight) + WorstFee(a)
  <2>1. SumOver(WorstFees', InFlight \cup {c}) = SumOver(WorstFees', InFlight) + WorstFees'[c]
    <3>1. \A d \in InFlight \cup {c} : WorstFees'[d] \in Nat
      BY <1>5, <1>6
    <3> QED
      BY <1>4, <3>1, SumAdd
  <2>2. SumOver(WorstFees', InFlight) = SumOver(WorstFees, InFlight)
    BY <1>5, SumAgree
  <2> QED
    BY <1>3, <1>6, <2>1, <2>2
<1>10. /\ splitsInFlight = Cardinality(InFlight)
       /\ InFlightAmount = SumOver(asked, InFlight)
       /\ feeReserved = IF MaxFee = 0 THEN 0 ELSE SumOver(WorstFees, InFlight)
  BY ReservedIs
<1>11. feeReserved' = IF MaxFee = 0 THEN 0 ELSE SumOver(WorstFees', InFlight')
  BY <1>9, <1>10
<1>12. splitsInFlight' = Cardinality(InFlight') /\ InFlightAmount' = SumOver(asked', InFlight')
  BY <1>7, <1>8, <1>10
<1> QED
  BY <1>3, <1>11, <1>12 DEF CountersMatchSplits, WorstFees

\* UpdateAmounts: the result of c gives back what its split took.
LEMMA CountersGiveBack ==
  ASSUME TypeOK, CountersMatchSplits,
         NEW c \in InFlight,
         asked' = [asked EXCEPT ![c] = 0],
         InFlightAmount' = InFlightAmount - asked[c],
         splitsInFlight' = splitsInFlight - 1,
         feeReserved' = IF MaxFee > 0 THEN Monus(feeReserved, WorstFee(asked[c]))
                        ELSE feeReserved
  PROVE  /\ CountersMatchSplits'
         /\ InFlight' = InFlight \ {c}
         /\ InFlightAmount' \in Nat /\ splitsInFlight' \in Nat /\ feeReserved' \in Nat
         /\ MaxFee > 0 => feeReserved' = feeReserved - WorstFee(asked[c])
<1>1. asked \in [Candidates -> 0 .. SplitAmount]
  BY DEF TypeOK
<1>2. InFlight \subseteq Candidates /\ IsFiniteSet(InFlight)
  BY InFlightFinite
<1>3. asked'[c] = 0 /\ \A d \in Candidates \ {c} : asked'[d] = asked[d]
  BY <1>1, <1>2
<1>4. InFlight' = InFlight \ {c}
  BY <1>1, <1>2, <1>3 DEF InFlight
<1>5. \A d \in InFlight : asked[d] \in Nat /\ WorstFees[d] = WorstFee(asked[d]) /\ WorstFees[d] \in Nat
  BY InFlightTypes
<1>6. \A d \in InFlight \ {c} : asked'[d] = asked[d] /\ WorstFees'[d] = WorstFees[d]
  <2>1. \A d \in InFlight \ {c} : asked'[d] = asked[d] /\ d \in Candidates
    BY <1>2, <1>3
  <2> QED
    BY <2>1 DEF WorstFees
<1>7. /\ SumOver(asked, InFlight \ {c}) = SumOver(asked, InFlight) - asked[c]
      /\ SumOver(asked, InFlight \ {c}) \in Nat
  BY <1>2, <1>5, SumRemove
<1>8. SumOver(asked', InFlight \ {c}) = SumOver(asked, InFlight \ {c})
  BY <1>6, SumAgree
<1>9. /\ SumOver(WorstFees, InFlight \ {c}) = SumOver(WorstFees, InFlight) - WorstFees[c]
      /\ SumOver(WorstFees, InFlight \ {c}) \in Nat
      /\ WorstFees[c] <= SumOver(WorstFees, InFlight)
  BY <1>2, <1>5, SumRemove
<1>10. SumOver(WorstFees', InFlight \ {c}) = SumOver(WorstFees, InFlight \ {c})
  BY <1>6, SumAgree
<1>11. Cardinality(InFlight \ {c}) = Cardinality(InFlight) - 1 /\ Cardinality(InFlight \ {c}) \in Nat
  <2>1. IsFiniteSet(InFlight \ {c}) /\ Cardinality(InFlight \ {c}) = Cardinality(InFlight) - 1
    BY <1>2, FS_RemoveElement
  <2> QED
    BY <2>1, FS_CardinalityType
<1>12. /\ splitsInFlight = Cardinality(InFlight)
       /\ InFlightAmount = SumOver(asked, InFlight)
       /\ feeReserved = IF MaxFee = 0 THEN 0 ELSE SumOver(WorstFees, InFlight)
  BY ReservedIs
<1>13. WorstFees[c] = WorstFee(asked[c]) /\ WorstFee(asked[c]) \in Nat
  BY <1>5
<1>14. splitsInFlight' = Cardinality(InFlight') /\ splitsInFlight' \in Nat
  BY <1>4, <1>11, <1>12
<1>15. InFlightAmount' = SumOver(asked', InFlight') /\ InFlightAmount' \in Nat
  BY <1>4, <1>7, <1>8, <1>12
<1>16. /\ feeReserved' = IF MaxFee = 0 THEN 0 ELSE SumOver(WorstFees', InFlight')
       /\ feeReserved' \in Nat
       /\ MaxFee > 0 => feeReserved' = feeReserved - WorstFee(asked[c])
  <2>1. CASE MaxFee = 0
    BY <1>12, <2>1
  <2>2. CASE MaxFee > 0
    <3>1. feeReserved = SumOver(WorstFees, InFlight)
      BY <1>12, <2>2
    <3>2. feeReserved \in Nat /\ WorstFee(asked[c]) <= feeReserved
      BY <1>9, <1>13, <3>1 DEF TypeOK
    <3>3. feeReserved' = feeReserved - WorstFee(asked[c])
      <4>1. CASE WorstFee(asked[c]) < feeReserved
        BY <1>13, <2>2, <3>2, <4>1 DEF Monus
      <4>2. CASE WorstFee(asked[c]) = feeReserved
        BY <1>13, <2>2, <3>2, <4>2 DEF Monus
      <4> QED
        BY <1>13, <3>2, <4>1, <4>2
    <3>4. feeReserved' = SumOver(WorstFees, InFlight \ {c})
      BY <1>9, <1>13, <3>1, <3>3
    <3> QED
      BY <1>4, <1>9, <1>10, <2>2, <3>3, <3>4
  <2> QED
    BY <2>1, <2>2
<1> QED
  BY <1>4, <1>14, <1>15, <1>16 DEF CountersMatchSplits, WorstFees
-----------------------------------------------------------------------------
(***************************************************************************)
(* One lemma per kind of step: a result handled, a split fired, a split    *)
(* ended, and the steps that leave splits, queue and counters alone.       *)
(***************************************************************************)
LEMMA ResultFields ==
  ASSUME NEW r \in SplitResults
  PROVE  /\ r.cand \in Candidates
         /\ r.requested \in 1 .. SplitAmount
         /\ r.status \in {"success", "failure"}
         /\ r.status = "success" => r.moved \in 1 .. SplitAmount /\ r.fee \in Nat
         /\ r.status = "failure" => r.payments \in Nat
<1>1. CASE r \in [cand : Candidates, requested : 1 .. SplitAmount, status : {"success"},
                  moved : 1 .. SplitAmount, fee : Nat]
  BY <1>1
<1>2. CASE r \in [cand : Candidates, requested : 1 .. SplitAmount, status : {"failure"},
                  payments : Nat, failedAt : Sides, retry : {"no", "whenFree", "now"},
                  precheck : BOOLEAN]
  BY <1>2
<1> QED
  BY <1>1, <1>2 DEF SplitResults

\* waitForRound: the result of a split that moved m at the fee f.
LEMMA ResultHandled ==
  ASSUME SplitsInv, NEW r, Take(r),
         NEW m \in Nat, m <= r.requested, UpdateAmounts(r, m),
         NEW f \in Nat, f <= WorstFee(r.requested), feesPaid' = feesPaid + f
  PROVE  /\ r \in SplitResults /\ r.cand \in InFlight /\ r.requested = asked[r.cand]
         /\ InFlight' = InFlight \ {r.cand}
         /\ asked' \in [Candidates -> 0 .. SplitAmount]
         /\ results' \in Seq(SplitResults)
         /\ AmountRebalanced' \in Nat /\ InFlightAmount' \in Nat
         /\ splitsInFlight' \in Nat /\ feeReserved' \in Nat /\ feesPaid' \in Nat
         /\ EverySplitReports' /\ OneResultEach' /\ CountersMatchSplits'
         /\ WithinMaxFee' /\ NeverPastTarget'
<1> DEFINE c == r.cand
<1>1. /\ results \in Seq(SplitResults) /\ results # <<>>
      /\ asked \in [Candidates -> 0 .. SplitAmount]
      /\ AmountRebalanced \in Nat /\ InFlightAmount \in Nat /\ feesPaid \in Nat
      /\ splitsInFlight \in Nat /\ feeReserved \in Nat
  BY DEF SplitsInv, TypeOK, Take
<1>2. PICK n \in Nat : n = Len(results) /\ DOMAIN results = 1 .. n /\ n >= 1
  BY <1>1, LenProperties, EmptySeq
<1>3. r \in SplitResults /\ r = results[1]
  BY <1>1, <1>2, HeadTailProperties, ElementOfSeq DEF Take
<1>4. /\ results' \in Seq(SplitResults)
      /\ Len(results') = n - 1
      /\ DOMAIN results' = 1 .. n - 1
      /\ \A i \in 1 .. n - 1 : results'[i] = results[i + 1]
  <2>1. /\ results' \in Seq(SplitResults) /\ Len(results') = n - 1
        /\ \A i \in 1 .. Len(results') : results'[i] = results[i + 1]
    BY <1>1, <1>2, HeadTailProperties DEF Take
  <2> QED
    BY <2>1, LenProperties
<1>5. c \in InFlight /\ c \notin running /\ r.requested = asked[c] /\ c \in Candidates
  BY <1>2, <1>3, InFlightFinite DEF SplitsInv, EverySplitReports, ResultOK
<1>6. asked' = [asked EXCEPT ![c] = 0] /\ asked' \in [Candidates -> 0 .. SplitAmount]
  <2>1. 0 \in 0 .. SplitAmount
    OBVIOUS
  <2> QED
    BY <1>1, <2>1 DEF Take
<1>7. asked[c] \in 1 .. SplitAmount /\ asked[c] \in Nat /\ WorstFee(asked[c]) \in Nat
  <2>1. asked[c] \in 1 .. SplitAmount /\ asked[c] \in Nat
    BY <1>5, InFlightTypes DEF SplitsInv
  <2> QED
    BY <2>1, WorstFeeType
<1>8. /\ InFlightAmount' = InFlightAmount - asked[c]
      /\ splitsInFlight' = splitsInFlight - 1
      /\ feeReserved' = IF MaxFee > 0 THEN Monus(feeReserved, WorstFee(asked[c])) ELSE feeReserved
      /\ AmountRebalanced' = AmountRebalanced + m
  BY <1>5 DEF UpdateAmounts
<1>9. /\ CountersMatchSplits'
      /\ InFlight' = InFlight \ {c}
      /\ InFlightAmount' \in Nat /\ splitsInFlight' \in Nat /\ feeReserved' \in Nat
      /\ MaxFee > 0 => feeReserved' = feeReserved - WorstFee(asked[c])
  BY <1>5, <1>6, <1>8, CountersGiveBack DEF SplitsInv
<1>10. NeverPastTarget'
  BY <1>1, <1>5, <1>7, <1>8 DEF SplitsInv, NeverPastTarget
<1>11. WithinMaxFee'
  <2> SUFFICES ASSUME MaxFee > 0
               PROVE  feesPaid' + feeReserved' <= MaxFee
    BY DEF WithinMaxFee
  <2>1. feesPaid + feeReserved <= MaxFee
    BY DEF SplitsInv, WithinMaxFee
  <2>2. feeReserved' = feeReserved - WorstFee(asked[c])
    BY <1>9
  <2>3. f <= WorstFee(asked[c])
    BY <1>5
  <2> QED
    BY <1>1, <1>7, <2>1, <2>2, <2>3
<1>12. running' = running
  BY DEF Take
<1>13. \A i \in 1 .. n - 1 : /\ i + 1 \in DOMAIN results
                             /\ results'[i].cand # c
                             /\ ResultOK(results[i + 1])
  <2> TAKE i \in 1 .. n - 1
  <2>1. i + 1 \in DOMAIN results /\ 1 \in DOMAIN results /\ i + 1 # 1
    BY <1>2
  <2>2. results[i + 1].cand # results[1].cand
    BY <2>1 DEF SplitsInv, OneResultEach
  <2> QED
    BY <1>3, <1>4, <2>1, <2>2 DEF SplitsInv, EverySplitReports
<1>14. OneResultEach'
  <2>1. running' \subseteq InFlight'
    BY <1>5, <1>9, <1>12 DEF SplitsInv, OneResultEach
  <2>2. ASSUME NEW i \in DOMAIN results', NEW j \in DOMAIN results', i # j
        PROVE  results'[i].cand # results'[j].cand
    <3>1. /\ i + 1 \in DOMAIN results /\ j + 1 \in DOMAIN results /\ i + 1 # j + 1
          /\ results'[i] = results[i + 1] /\ results'[j] = results[j + 1]
      BY <1>4, <1>13, <2>2
    <3> QED
      BY <3>1 DEF SplitsInv, OneResultEach
  <2> QED
    BY <2>1, <2>2 DEF OneResultEach
<1>15. EverySplitReports'
  <2>1. n + Cardinality(running) = splitsInFlight /\ splitsInFlight <= Splits
    BY <1>2 DEF SplitsInv, EverySplitReports
  <2>2. Cardinality(running) \in Nat
    <3>1. IsFiniteSet(running)
      BY FS_Subset DEF SplitsInv, TypeOK
    <3> QED
      BY <3>1, FS_CardinalityType
  <2>3. Len(results') + Cardinality(running') = splitsInFlight' /\ splitsInFlight' <= Splits
    <3>1. PICK k \in Nat : k = Cardinality(running)
      BY <2>2
    <3>2. Cardinality(running') = k
      BY <1>12, <3>1
    <3>3. n + k = splitsInFlight
      BY <2>1, <3>1
    <3> QED
      BY <1>1, <1>4, <1>8, <2>1, <3>2, <3>3
  <2>4. ASSUME NEW i \in DOMAIN results'
        PROVE  ResultOK(results[i])'
    <3> DEFINE s == results'[i]
    <3>1. s = results[i + 1] /\ ResultOK(results[i + 1]) /\ s.cand # c
      BY <1>4, <1>13
    <3>2. s.cand \in InFlight' \ running' /\ asked'[s.cand] = asked[s.cand]
      BY <1>1, <1>6, <1>9, <1>12, <3>1, InFlightFinite DEF ResultOK
    <3> QED
      BY <3>1, <3>2 DEF ResultOK, WorstFee
  <2> QED
    BY <2>3, <2>4 DEF EverySplitReports
<1>16. AmountRebalanced' \in Nat /\ feesPaid' \in Nat
  BY <1>1, <1>8
<1> QED
  BY <1>3, <1>4, <1>5, <1>6, <1>9, <1>10, <1>11, <1>14, <1>15, <1>16

\* A result handled puts its candidate back in the queue, at either end, or
\* leaves it out.
LEMMA QueueHandled ==
  ASSUME TypeOK, CandidateInOnePlace, NEW c \in InFlight, InFlight' = InFlight \ {c},
         queue' = queue \/ queue' = <<c>> \o queue \/ queue' = Append(queue, c)
  PROVE  queue' \in Seq(Candidates) /\ CandidateInOnePlace'
<1>1. queue \in Seq(Candidates) /\ c \in Candidates
  BY InFlightFinite DEF TypeOK
<1>2. NoRepeat(queue) /\ Elements(queue) \cap InFlight = {} /\ c \notin Elements(queue)
  BY DEF CandidateInOnePlace, Queued, NoRepeat, Elements
<1>3. /\ queue' \in Seq(Candidates) /\ NoRepeat(queue')
      /\ Elements(queue') \subseteq Elements(queue) \cup {c}
  <2>1. CASE queue' = queue
    BY <1>1, <1>2, <2>1
  <2>2. CASE queue' = <<c>> \o queue
    BY <1>1, <1>2, <2>2, AtFront
  <2>3. CASE queue' = Append(queue, c)
    BY <1>1, <1>2, <2>3, AtBack
  <2> QED
    BY <2>1, <2>2, <2>3
<1>4. Elements(queue') \cap InFlight' = {}
  BY <1>2, <1>3
<1> QED
  BY <1>3, <1>4 DEF CandidateInOnePlace, Queued, NoRepeat, Elements

\* The steps of the limit keep its types.
LEMMA NoteFiredTypes ==
  ASSUME LimitTypeOK, NEW c \in Candidates, NEW n, NoteFired(c, n)
  PROVE  LimitTypeOK'
<1>1. fireSeq + 1 \in Nat
  BY DEF LimitTypeOK
<1>2. firedAt' \in [Candidates -> Nat]
  BY <1>1 DEF LimitTypeOK, NoteFired
<1>3. fireSeq' \in Nat /\ probeSeq' \in Nat
  BY <1>1 DEF LimitTypeOK, NoteFired
<1>4. UNCHANGED <<targetCap, capSuccesses, capSetAt, probing, capBackoff, busyRefusals>>
  BY DEF NoteFired, capVars
<1> QED
  BY <1>2, <1>3, <1>4 DEF LimitTypeOK

LEMMA ProbeToldNothingTypes ==
  ASSUME LimitTypeOK, NEW c, ProbeToldNothing(c)
  PROVE  LimitTypeOK'
<1>1. probeSeq' \in Nat
  BY DEF LimitTypeOK, ProbeToldNothing
<1> QED
  BY <1>1 DEF LimitTypeOK, ProbeToldNothing, capVars, fireVars

LEMMA TargetSucceededTypes ==
  ASSUME LimitTypeOK, NEW c, TargetSucceeded(c)
  PROVE  LimitTypeOK'
<1>1. UNCHANGED <<fireSeq, firedAt, busyRefusals>>
  BY DEF TargetSucceeded, fireVars
<1>2. CASE targetCap = 0 /\ UNCHANGED <<capVars, probeVars>>
  BY <1>1, <1>2 DEF LimitTypeOK, capVars, probeVars
<1>3. CASE targetCap # 0 /\ capBackoff' = HalvedBackoff(c)
  <2>1. HalvedBackoff(c) \in Nat
    BY DEF LimitTypeOK, HalvedBackoff
  <2>2. CASE LimitGrows(c) /\ SetTargetCap(targetCap + 1) /\ probing' = TRUE /\ probeSeq' = 0
    BY <1>1, <1>3, <2>1, <2>2 DEF LimitTypeOK, SetTargetCap
  <2>3. CASE /\ capSuccesses' = capSuccesses + 1
             /\ probing' = (probing /\ ~IsProbe(c))
             /\ probeSeq' = IF IsProbe(c) THEN 0 ELSE probeSeq
             /\ UNCHANGED <<targetCap, capSetAt>>
    <3>1. probing' \in BOOLEAN /\ probeSeq' \in Nat
      BY <2>3 DEF LimitTypeOK
    <3> QED
      BY <1>1, <1>3, <2>1, <2>3, <3>1 DEF LimitTypeOK
  <2> QED
    BY <1>2, <1>3, <2>2, <2>3 DEF TargetSucceeded
<1> QED
  BY <1>2, <1>3 DEF TargetSucceeded

LEMMA TargetBusyTypes ==
  ASSUME LimitTypeOK, NEW c \in Candidates, NEW n \in Nat, TargetBusy(c, n)
  PROVE  LimitTypeOK'
<1>1. busyRefusals' \in [Candidates -> Nat]
  <2>1. CASE Explained(c)
    BY <2>1 DEF LimitTypeOK, TargetBusy
  <2>2. CASE ~Explained(c)
    <3>1. busyRefusals[c] + 1 \in Nat
      BY DEF LimitTypeOK
    <3>2. busyRefusals' = [busyRefusals EXCEPT ![c] = busyRefusals[c] + 1]
      BY <2>2 DEF TargetBusy
    <3> QED
      BY <3>1, <3>2 DEF LimitTypeOK
  <2> QED
    BY <2>1, <2>2
<1>2. fireSeq' = fireSeq /\ firedAt' = firedAt
  BY DEF TargetBusy, fireVars
<1>3. targetCap' \in Nat /\ capSetAt' \in Nat /\ capSuccesses' \in Nat
  BY DEF LimitTypeOK, TargetBusy, SetTargetCap, capVars
<1>4. capBackoff' \in Nat
  BY DEF LimitTypeOK, TargetBusy, Backoff
<1>5. probing' = FALSE \/ probing' = probing
  BY DEF TargetBusy
<1>6. probeSeq' \in Nat
  BY DEF LimitTypeOK, TargetBusy
<1> QED
  BY <1>1, <1>2, <1>3, <1>4, <1>5, <1>6 DEF LimitTypeOK

\* Every reason noted is one of Result.Stopped's.
LEMMA NoteStopTypes ==
  ASSUME TypeOK, NEW why \in Reasons, NoteStop(why)
  PROVE  firstStop' \in Reasons /\ stopped' \in Reasons
BY DEF TypeOK, NoteStop
-----------------------------------------------------------------------------
\* FireCandidates: firing a split keeps the invariant.
LEMMA FireKeeps ==
  ASSUME SplitsInv, NEW k \in 0 .. Len(queue) - 1, FireSplit(k)
  PROVE  SplitsInv'
<1> DEFINE c == queue[k + 1]
           a == NextAmount
<1>1. /\ queue \in Seq(Candidates) /\ asked \in [Candidates -> 0 .. SplitAmount]
      /\ results \in Seq(SplitResults) /\ running \subseteq Candidates
      /\ AmountRebalanced \in Nat /\ InFlightAmount \in Nat /\ feesPaid \in Nat
      /\ splitsInFlight \in Nat /\ feeReserved \in Nat /\ LimitTypeOK
  BY DEF SplitsInv, TypeOK
<1>2. a \in 1 .. SplitAmount /\ AmountRebalanced + InFlightAmount + a <= Amount
  BY <1>1 DEF FireSplit, MayFire, NextAmount, Least
<1>3. NoRepeat(queue) /\ Elements(queue) \cap InFlight = {}
  BY DEF SplitsInv, CandidateInOnePlace, Queued, NoRepeat, Elements
<1>4. /\ queue' \in Seq(Candidates) /\ NoRepeat(queue')
      /\ c \in Candidates /\ c \in Elements(queue)
      /\ Elements(queue') \subseteq Elements(queue) \ {c}
      /\ {queue[i] : i \in 1 .. k} \subseteq Candidates
  <2>1. queue' = SubSeq(queue, k + 2, Len(queue))
    BY DEF FireSplit, PopPast
  <2>2. \A i \in 1 .. k : queue[i] \in Candidates
    <3>1. PICK n \in Nat : n = Len(queue) /\ DOMAIN queue = 1 .. n
      BY <1>1, LenProperties
    <3>2. \A i \in 1 .. k : i \in 1 .. n
      BY <3>1
    <3> QED
      BY <1>1, <3>1, <3>2, ElementOfSeq
  <2>3. /\ SubSeq(queue, k + 2, Len(queue)) \in Seq(Candidates)
        /\ NoRepeat(SubSeq(queue, k + 2, Len(queue)))
        /\ c \in Candidates /\ c \in Elements(queue)
        /\ Elements(SubSeq(queue, k + 2, Len(queue))) \subseteq Elements(queue) \ {c}
    BY <1>1, <1>3, AfterFiring
  <2>4. {queue[i] : i \in 1 .. k} \subseteq Candidates
    BY <2>2
  <2> QED
    BY <2>1, <2>3, <2>4
<1>5. c \notin InFlight
  BY <1>3, <1>4
<1>6. /\ asked' = [asked EXCEPT ![c] = a]
      /\ InFlightAmount' = InFlightAmount + a
      /\ splitsInFlight' = splitsInFlight + 1
      /\ feeReserved' = IF MaxFee > 0 THEN feeReserved + WorstFee(a) ELSE feeReserved
      /\ running' = running \cup {c}
      /\ results' = results /\ AmountRebalanced' = AmountRebalanced /\ feesPaid' = feesPaid
      /\ gone' = gone \cup {queue[i] : i \in 1 .. k}
      /\ NoteFired(c, splitsInFlight - Len(results))
  BY DEF FireSplit, Skip
<1> HIDE DEF a, c
<1>7. CountersMatchSplits' /\ InFlight' = InFlight \cup {c}
  BY <1>2, <1>4, <1>5, <1>6, CountersTake DEF SplitsInv
<1>8. WorstFee(a) \in Nat
  BY <1>2, WorstFeeType
<1>9. asked' \in [Candidates -> 0 .. SplitAmount]
  <2>1. a \in 0 .. SplitAmount
    BY <1>2
  <2>2. asked' = [asked EXCEPT ![c] = a]
    BY <1>6
  <2> QED
    BY <1>1, <2>1, <2>2
<1>10. LimitTypeOK'
  BY <1>1, <1>4, <1>6, NoteFiredTypes
<1>11. TypeOK'
  <2>1. gone' \subseteq Candidates /\ running' \subseteq Candidates
    BY <1>1, <1>4, <1>6 DEF SplitsInv, TypeOK
  <2>2. /\ InFlightAmount' \in Nat /\ splitsInFlight' \in Nat /\ feeReserved' \in Nat
        /\ AmountRebalanced' \in Nat /\ feesPaid' \in Nat /\ results' \in Seq(SplitResults)
    <3>1. a \in Nat
      BY <1>2
    <3>2. InFlightAmount' \in Nat
      BY <1>1, <1>6, <3>1
    <3>3. splitsInFlight' \in Nat
      BY <1>1, <1>6
    <3>4. feeReserved' \in Nat
      BY <1>1, <1>6, <1>8
    <3> QED
      BY <1>1, <1>6, <3>2, <3>3, <3>4
  <2>3. /\ UNCHANGED <<pc, failStreak, flagVars, reasonVars, nodeStopped, judgeVars>>
        /\ heldByStop' = FALSE
    BY DEF FireSplit
  <2> QED
    BY <1>4, <1>9, <1>10, <2>1, <2>2, <2>3
    DEF SplitsInv, TypeOK, flagVars, reasonVars, judgeVars
<1>12. CandidateInOnePlace'
  <2>1. Elements(queue') \cap InFlight' = {}
    BY <1>3, <1>4, <1>7
  <2> QED
    BY <1>4, <2>1 DEF CandidateInOnePlace, Queued, NoRepeat, Elements
<1>13. c \notin running
  BY <1>5 DEF SplitsInv, OneResultEach
<1>14. \A i \in DOMAIN results : results[i].cand # c
  BY <1>5 DEF SplitsInv, EverySplitReports, ResultOK
<1>15. OneResultEach'
  BY <1>6, <1>7 DEF SplitsInv, OneResultEach
<1>16. EverySplitReports'
  <2>1. IsFiniteSet(running)
    BY <1>1, FS_Subset
  <2>2. Cardinality(running') = Cardinality(running) + 1 /\ Cardinality(running) \in Nat
    BY <1>6, <1>13, <2>1, FS_AddElement, FS_CardinalityType
  <2>3. Len(results) + Cardinality(running) = splitsInFlight /\ Len(results) \in Nat
    BY <1>1, LenProperties DEF SplitsInv, EverySplitReports
  <2>4. Len(results') + Cardinality(running') = splitsInFlight'
    <3>1. Len(results') = Len(results) /\ splitsInFlight' = splitsInFlight + 1
      BY <1>6
    <3> QED
      BY <2>2, <2>3, <3>1
  <2>5. splitsInFlight' <= Splits
    BY <1>1, <1>6 DEF FireSplit, MayFire
  <2>6. ASSUME NEW i \in DOMAIN results'
        PROVE  ResultOK(results[i])'
    <3>1. /\ results'[i] = results[i] /\ i \in DOMAIN results
          /\ ResultOK(results[i]) /\ results[i].cand # c
      BY <1>6, <1>14 DEF SplitsInv, EverySplitReports
    <3>2. /\ results[i].cand \in InFlight' \ running'
          /\ asked'[results[i].cand] = asked[results[i].cand]
      BY <1>1, <1>6, <1>7, <3>1, InFlightFinite DEF ResultOK
    <3> QED
      BY <3>1, <3>2 DEF ResultOK, WorstFee
  <2> QED
    BY <2>4, <2>5, <2>6 DEF EverySplitReports
<1>17. NeverPastTarget'
  BY <1>1, <1>2, <1>6 DEF NeverPastTarget
<1>18. WithinMaxFee'
  <2> SUFFICES ASSUME MaxFee > 0
               PROVE  feesPaid' + feeReserved' <= MaxFee
    BY DEF WithinMaxFee
  <2>1. feesPaid + feeReserved + WorstFee(a) <= MaxFee
    BY DEF FireSplit, WithinBudget, a
  <2> QED
    BY <1>1, <1>6, <1>8, <2>1
<1> QED
  BY <1>7, <1>11, <1>12, <1>15, <1>16, <1>17, <1>18 DEF SplitsInv

\* Rebalance.Run: what a split returns is a result of the split asked for.
LEMMA SplitReturns ==
  ASSUME TypeOK, NEW c \in InFlight, NEW r \in Successes(c) \cup Failures(c)
  PROVE  /\ r \in SplitResults /\ r.cand = c /\ r.requested = asked[c]
         /\ r.status = "success" => r.moved <= r.requested /\ r.fee <= WorstFee(r.moved)
<1>1. c \in Candidates /\ asked[c] \in 1 .. SplitAmount /\ asked[c] \in Nat
  BY InFlightFinite, InFlightTypes
<1>2. CASE r \in Successes(c)
  <2>1. PICK m \in Delivered(asked[c]) :
          r \in [cand : {c}, requested : {asked[c]}, status : {"success"},
                 moved : {m}, fee : 0 .. WorstFee(m)]
    BY <1>2 DEF Successes
  <2>2. m \in 1 .. asked[c] /\ m \in Nat /\ m >= 1
    BY <1>1 DEF Delivered
  <2>3. WorstFee(m) \in Nat
    BY <2>2, WorstFeeType
  <2>4. /\ r.cand = c /\ r.requested = asked[c] /\ r.status = "success"
        /\ r.moved = m /\ r.fee \in Nat /\ r.fee <= WorstFee(m)
    BY <2>1, <2>3
  <2>5. m \in 1 .. SplitAmount
    BY <1>1, <2>2
  <2>6. r \in [cand : Candidates, requested : 1 .. SplitAmount, status : {"success"},
               moved : 1 .. SplitAmount, fee : Nat]
    BY <1>1, <2>1, <2>4, <2>5
  <2> QED
    BY <1>1, <2>2, <2>4, <2>6 DEF SplitResults
<1>3. CASE r \in Failures(c)
  <2>1. PICK n \in 0 .. MaxPayments, k \in FailureKinds :
          r = [cand |-> c, requested |-> asked[c], status |-> "failure", payments |-> n,
               failedAt |-> k.failedAt, retry |-> k.retry, precheck |-> k.precheck]
    BY <1>3 DEF Failures
  <2>2. k.failedAt \in Sides /\ k.retry \in {"no", "whenFree", "now"} /\ k.precheck \in BOOLEAN
    BY DEF FailureKinds, Sides
  <2>3. n \in Nat
    OBVIOUS
  <2> QED
    BY <1>1, <2>1, <2>2, <2>3 DEF SplitResults
<1> QED
  BY <1>2, <1>3

\* launch: a split that ends keeps the invariant.
LEMMA FinishKeeps ==
  ASSUME SplitsInv, NEW c \in Candidates, FinishSplit(c)
  PROVE  SplitsInv'
<1>1. /\ results \in Seq(SplitResults) /\ running \subseteq Candidates
      /\ splitsInFlight \in Nat /\ asked \in [Candidates -> 0 .. SplitAmount]
  BY DEF SplitsInv, TypeOK
<1>2. c \in running /\ c \in InFlight /\ running' = running \ {c}
  BY DEF FinishSplit, SplitsInv, OneResultEach
<1>3. PICK r \in Successes(c) \cup Failures(c) : results' = Append(results, r)
  BY DEF FinishSplit
<1>4. /\ r \in SplitResults /\ r.cand = c /\ r.requested = asked[c]
      /\ r.status = "success" => r.moved <= r.requested /\ r.fee <= WorstFee(r.moved)
  BY <1>2, SplitReturns DEF SplitsInv
<1>5. UNCHANGED <<pc, queueVars, asked, moneyVars, failStreak, flagVars,
                  reasonVars, holdVars, judgeVars, limitVars>>
  BY DEF FinishSplit
<1>6. PICK n \in Nat : n = Len(results) /\ DOMAIN results = 1 .. n
  BY <1>1, LenProperties
<1>7. /\ results' \in Seq(SplitResults) /\ Len(results') = n + 1
      /\ results'[n + 1] = r
      /\ \A i \in 1 .. n : results'[i] = results[i]
  BY <1>1, <1>3, <1>4, <1>6, AppendProperties
<1>8. DOMAIN results' = 1 .. n + 1
  BY <1>6, <1>7, LenProperties
<1>9. \A i \in DOMAIN results' : i = n + 1 \/ i \in DOMAIN results
  BY <1>6, <1>8
<1>10. \A i \in DOMAIN results : results'[i] = results[i] /\ results[i].cand # c
  <2> TAKE i \in DOMAIN results
  <2>1. results'[i] = results[i]
    BY <1>6, <1>7
  <2>2. results[i].cand \notin running
    BY DEF SplitsInv, EverySplitReports, ResultOK
  <2> QED
    BY <1>2, <2>1, <2>2
<1>11. asked' = asked /\ InFlight' = InFlight /\ splitsInFlight' = splitsInFlight
  BY <1>5 DEF InFlight, moneyVars
<1>12. TypeOK'
  <2>1. running' \subseteq Candidates /\ results' \in Seq(SplitResults)
    BY <1>1, <1>2, <1>7
  <2>2. LimitTypeOK'
    BY <1>5 DEF SplitsInv, TypeOK, LimitTypeOK, limitVars, capVars, probeVars, fireVars
  <2>3. UNCHANGED <<pc, queue, gone, asked, AmountRebalanced, InFlightAmount,
                    splitsInFlight, feeReserved, feesPaid, failStreak>>
    BY <1>5 DEF queueVars, moneyVars
  <2>4. UNCHANGED <<streakStopped, targetStopped, timeStopped, feeStopped, halt,
                    heldByStop, nodeStopped, targetRechecked, firstStop, stopped,
                    retried, refusedAlone>>
    BY <1>5 DEF flagVars, reasonVars, holdVars, judgeVars
  <2> QED
    BY <2>1, <2>2, <2>3, <2>4 DEF SplitsInv, TypeOK
<1>13. CandidateInOnePlace' /\ WithinMaxFee' /\ NeverPastTarget'
  BY <1>5, <1>11 DEF SplitsInv, CandidateInOnePlace, Queued, WithinMaxFee, NeverPastTarget,
                      queueVars, moneyVars
<1>14. CountersMatchSplits'
  BY <1>5, <1>11 DEF SplitsInv, CountersMatchSplits, moneyVars, WorstFee
<1>15. OneResultEach'
  <2>1. running' \subseteq InFlight'
    BY <1>2, <1>11 DEF SplitsInv, OneResultEach
  <2>2. ASSUME NEW i \in DOMAIN results', NEW j \in DOMAIN results', i # j
        PROVE  results'[i].cand # results'[j].cand
    BY <1>4, <1>7, <1>9, <1>10, <2>2 DEF SplitsInv, OneResultEach
  <2> QED
    BY <2>1, <2>2 DEF OneResultEach
<1>16. EverySplitReports'
  <2>1. IsFiniteSet(running)
    BY <1>1, FS_Subset
  <2>2. Cardinality(running') = Cardinality(running) - 1 /\ Cardinality(running) \in Nat
    BY <1>2, <2>1, FS_RemoveElement, FS_CardinalityType
  <2>3. n + Cardinality(running) = splitsInFlight /\ splitsInFlight <= Splits
    BY <1>6 DEF SplitsInv, EverySplitReports
  <2>4. Len(results') + Cardinality(running') = splitsInFlight'
    BY <1>7, <1>11, <2>2, <2>3
  <2>5. ASSUME NEW i \in DOMAIN results'
        PROVE  ResultOK(results[i])'
    <3>1. CASE i = n + 1
      BY <1>2, <1>4, <1>7, <1>11, <3>1 DEF ResultOK, WorstFee
    <3>2. CASE i \in DOMAIN results
      <4>1. results'[i] = results[i] /\ ResultOK(results[i])
        BY <1>10, <3>2 DEF SplitsInv, EverySplitReports
      <4> QED
        BY <1>2, <1>11, <4>1 DEF ResultOK, WorstFee
    <3> QED
      BY <1>9, <3>1, <3>2
  <2> QED
    BY <1>11, <2>3, <2>4, <2>5 DEF EverySplitReports
<1> QED
  BY <1>12, <1>13, <1>14, <1>15, <1>16 DEF SplitsInv

\* A success handled keeps the invariant.
LEMMA SuccessKeeps ==
  ASSUME SplitsInv, NEW r, SplitSucceeded(r)
  PROVE  SplitsInv'
<1>1. Take(r) /\ r.status = "success" /\ UpdateAmounts(r, r.moved) /\ feesPaid' = feesPaid + r.fee
  BY DEF SplitSucceeded
<1>2. r \in SplitResults /\ ResultOK(r)
  <2>1. results \in Seq(SplitResults) /\ results # <<>> /\ r = Head(results)
    BY <1>1 DEF SplitsInv, TypeOK, Take
  <2>2. r = results[1] /\ 1 \in DOMAIN results
    BY <2>1, LenProperties, EmptySeq
  <2> QED
    BY <2>1, <2>2, HeadTailProperties DEF SplitsInv, EverySplitReports
<1>3. /\ r.moved \in Nat /\ r.moved <= r.requested
      /\ r.fee \in Nat /\ r.fee <= WorstFee(r.requested)
  <2>1. r.moved \in 1 .. SplitAmount /\ r.requested \in 1 .. SplitAmount /\ r.fee \in Nat
    BY <1>1, <1>2, ResultFields
  <2>2. r.moved \in Nat /\ r.requested \in Nat /\ r.moved >= 1 /\ r.requested >= 1
    BY <2>1
  <2>3. r.moved <= r.requested /\ r.fee <= WorstFee(r.moved)
    BY <1>1, <1>2 DEF ResultOK
  <2>4. WorstFee(r.moved) <= WorstFee(r.requested)
    BY <2>2, <2>3, WorstFeeGrows
  <2>5. WorstFee(r.moved) \in Nat /\ WorstFee(r.requested) \in Nat
    BY <2>2, WorstFeeType
  <2> QED
    BY <2>1, <2>2, <2>3, <2>4, <2>5
<1>4. /\ r.cand \in InFlight /\ InFlight' = InFlight \ {r.cand}
      /\ asked' \in [Candidates -> 0 .. SplitAmount]
      /\ results' \in Seq(SplitResults)
      /\ AmountRebalanced' \in Nat /\ InFlightAmount' \in Nat
      /\ splitsInFlight' \in Nat /\ feeReserved' \in Nat /\ feesPaid' \in Nat
      /\ EverySplitReports' /\ OneResultEach' /\ CountersMatchSplits'
      /\ WithinMaxFee' /\ NeverPastTarget'
  BY <1>1, <1>3, ResultHandled
<1>5. queue' \in Seq(Candidates) /\ CandidateInOnePlace'
  <2>1. queue' = queue \/ queue' = <<r.cand>> \o queue
    BY DEF SplitSucceeded, EnqueueCandidate
  <2> QED
    BY <1>4, <2>1, QueueHandled DEF SplitsInv
<1>6. LimitTypeOK'
  BY TargetSucceededTypes DEF SplitSucceeded, SplitsInv, TypeOK
<1>7. TypeOK'
  <2>1. gone' \subseteq Candidates
    BY <1>4, InFlightFinite DEF SplitSucceeded, EnqueueCandidate, SplitsInv, TypeOK
  <2>2. pc' = "fire" /\ UNCHANGED <<running, timeStopped, feeStopped, heldByStop, nodeStopped>>
    BY <1>1 DEF Take, holdVars
  <2>3. /\ failStreak' = 0 /\ targetRechecked' = FALSE /\ refusedAlone' = NoCandidate
        /\ UNCHANGED <<streakStopped, targetStopped, halt, firstStop, stopped, retried>>
    BY DEF SplitSucceeded, reasonVars
  <2> QED
    BY <1>4, <1>5, <1>6, <2>1, <2>2, <2>3 DEF SplitsInv, TypeOK
<1> QED
  BY <1>4, <1>5, <1>7 DEF SplitsInv

\* The results in the channel are results.
LEMMA ResultTaken ==
  ASSUME SplitsInv, NEW r, Take(r)
  PROVE  r \in SplitResults /\ r.cand \in Candidates /\ splitsInFlight - 1 \in Nat
<1>1. results \in Seq(SplitResults) /\ results # <<>> /\ r = Head(results)
  BY DEF SplitsInv, TypeOK, Take
<1>2. r \in SplitResults
  BY <1>1, HeadTailProperties
<1>3. r.cand \in Candidates
  BY <1>2, ResultFields
<1>4. PICK n \in Nat : n = Len(results) /\ n >= 1
  BY <1>1, LenProperties, EmptySeq
<1>5. PICK k \in Nat : k = Cardinality(running)
  <2>1. IsFiniteSet(running)
    BY FS_Subset DEF SplitsInv, TypeOK
  <2> QED
    BY <2>1, FS_CardinalityType
<1>6. n + k = splitsInFlight
  BY <1>4, <1>5 DEF SplitsInv, EverySplitReports
<1>7. splitsInFlight - 1 \in Nat
  BY <1>4, <1>5, <1>6
<1> QED
  BY <1>2, <1>3, <1>7

\* A failure handled, whatever the judgement of its candidate.
LEMMA FailedKeeps ==
  ASSUME SplitsInv, NEW r, NEW b \in BOOLEAN, SplitFailed(r, b),
         queue' = queue \/ queue' = <<r.cand>> \o queue \/ queue' = Append(queue, r.cand),
         LimitTypeOK', retried' \subseteq Candidates, targetRechecked' \in BOOLEAN,
         refusedAlone' \in Candidates \cup {NoCandidate}
  PROVE  SplitsInv'
<1>1. Take(r) /\ r.status = "failure" /\ UpdateAmounts(r, 0) /\ feesPaid' = feesPaid
  BY DEF SplitFailed
<1>2. r \in SplitResults /\ r.cand \in Candidates
  BY <1>1, ResultTaken
<1>3. r.payments \in Nat /\ r.requested \in Nat /\ r.requested >= 1
  BY <1>1, <1>2, ResultFields
<1>4. WorstFee(r.requested) \in Nat
  BY <1>3, WorstFeeType
<1>5. feesPaid' = feesPaid + 0
  BY <1>1 DEF SplitsInv, TypeOK
<1>6. /\ r.cand \in InFlight /\ InFlight' = InFlight \ {r.cand}
      /\ asked' \in [Candidates -> 0 .. SplitAmount]
      /\ results' \in Seq(SplitResults)
      /\ AmountRebalanced' \in Nat /\ InFlightAmount' \in Nat
      /\ splitsInFlight' \in Nat /\ feeReserved' \in Nat /\ feesPaid' \in Nat
      /\ EverySplitReports' /\ OneResultEach' /\ CountersMatchSplits'
      /\ WithinMaxFee' /\ NeverPastTarget'
  <2>1. 0 \in Nat /\ 0 <= r.requested /\ 0 <= WorstFee(r.requested)
    BY <1>3, <1>4
  <2> QED
    BY <1>1, <1>5, <2>1, ResultHandled
<1>7. queue' \in Seq(Candidates) /\ CandidateInOnePlace'
  BY <1>6, QueueHandled DEF SplitsInv
<1>8. firstStop' \in Reasons /\ stopped' \in Reasons
  <2>1. CASE NoteStop("streak")
    BY <2>1, NoteStopTypes DEF SplitsInv, Reasons
  <2>2. CASE NoteStop("target")
    BY <2>2, NoteStopTypes DEF SplitsInv, Reasons
  <2>3. CASE UNCHANGED reasonVars
    BY <2>3 DEF SplitsInv, TypeOK, reasonVars
  <2> QED
    BY <2>1, <2>2, <2>3 DEF SplitFailed
<1>9. /\ streakStopped' \in BOOLEAN /\ targetStopped' \in BOOLEAN /\ halt' \in BOOLEAN
      /\ failStreak' \in Nat
  <2>1. failStreak' \in Nat
    BY <1>3 DEF SplitFailed, SplitsInv, TypeOK
  <2>2. streakStopped' \in BOOLEAN /\ targetStopped' \in BOOLEAN /\ halt' \in BOOLEAN
    BY ZenonT(30) DEF SplitFailed
  <2> QED
    BY <2>1, <2>2
<1>10. TypeOK'
  <2>1. gone' \subseteq Candidates
    BY <1>2 DEF SplitFailed, SplitsInv, TypeOK
  <2>2. pc' = "fire" /\ UNCHANGED <<running, timeStopped, feeStopped, heldByStop, nodeStopped>>
    BY <1>1 DEF Take, holdVars
  <2> QED
    BY <1>6, <1>7, <1>8, <1>9, <2>1, <2>2 DEF SplitsInv, TypeOK
<1> QED
  BY <1>6, <1>7, <1>10 DEF SplitsInv

\* judgeCandidate: every judgement of a failure keeps the invariant.
LEMMA FailureKeeps ==
  ASSUME SplitsInv, NEW r, HandleFailure(r)
  PROVE  SplitsInv'
<1>1. /\ LimitTypeOK /\ retried \subseteq Candidates /\ targetRechecked \in BOOLEAN
      /\ refusedAlone \in Candidates \cup {NoCandidate}
  BY DEF SplitsInv, TypeOK
<1>2. r.cand \in Candidates /\ splitsInFlight - 1 \in Nat
  <2>1. Take(r)
    BY DEF HandleFailure, StalePolicy, CandidateFailed, BusyTarget, RecheckTarget, LeaveOut,
           TargetEnds, SplitFailed
  <2> QED
    BY <2>1, ResultTaken
<1>3. CASE StalePolicy(r)
  <2>1. /\ SplitFailed(r, FALSE) /\ queue' = <<r.cand>> \o queue /\ ProbeToldNothing(r.cand)
        /\ retried' = retried \cup {r.cand} /\ UNCHANGED <<targetRechecked, refusedAlone>>
    BY <1>3 DEF StalePolicy, Requeue
  <2>2. LimitTypeOK'
    BY <1>1, <2>1, ProbeToldNothingTypes
  <2>3. retried' \subseteq Candidates
    BY <1>1, <1>2, <2>1
  <2> QED
    BY <1>1, <2>1, <2>2, <2>3, FailedKeeps
<1>4. CASE CandidateFailed(r)
  <2>1. /\ SplitFailed(r, FALSE) /\ queue' = queue /\ ProbeToldNothing(r.cand)
        /\ UNCHANGED <<retried, targetRechecked, refusedAlone>>
    BY <1>4 DEF CandidateFailed, judgeVars
  <2>2. LimitTypeOK'
    BY <1>1, <2>1, ProbeToldNothingTypes
  <2> QED
    BY <1>1, <2>1, <2>2, FailedKeeps
<1>5. CASE BusyTarget(r)
  <2>1. /\ SplitFailed(r, FALSE) /\ TargetBusy(r.cand, splitsInFlight - 1)
        /\ queue' = <<r.cand>> \o queue \/ queue' = Append(queue, r.cand)
        /\ UNCHANGED <<retried, targetRechecked, refusedAlone>>
    BY <1>5 DEF BusyTarget, Others, Requeue, judgeVars
  <2>2. LimitTypeOK'
    BY <1>1, <1>2, <2>1, TargetBusyTypes
  <2> QED
    BY <1>1, <2>1, <2>2, FailedKeeps
<1>6. CASE RecheckTarget(r)
  <2>1. /\ SplitFailed(r, FALSE) /\ queue' = <<r.cand>> \o queue /\ ProbeToldNothing(r.cand)
        /\ targetRechecked' = TRUE /\ UNCHANGED <<retried, refusedAlone>>
    BY <1>6 DEF RecheckTarget, Requeue
  <2>2. LimitTypeOK'
    BY <1>1, <2>1, ProbeToldNothingTypes
  <2> QED
    BY <1>1, <2>1, <2>2, FailedKeeps
<1>7. CASE LeaveOut(r)
  <2>1. /\ SplitFailed(r, FALSE) /\ queue' = queue /\ ProbeToldNothing(r.cand)
        /\ refusedAlone' = r.cand /\ UNCHANGED <<retried, targetRechecked>>
    BY <1>7 DEF LeaveOut
  <2>2. LimitTypeOK'
    BY <1>1, <2>1, ProbeToldNothingTypes
  <2> QED
    BY <1>1, <1>2, <2>1, <2>2, FailedKeeps
<1>8. CASE TargetEnds(r)
  <2>1. /\ SplitFailed(r, TRUE) /\ queue' = queue /\ ProbeToldNothing(r.cand)
        /\ targetRechecked' = TRUE \/ targetRechecked' = targetRechecked
        /\ refusedAlone' = r.cand \/ refusedAlone' = refusedAlone
        /\ retried' = retried
    BY <1>8 DEF TargetEnds
  <2>2. LimitTypeOK'
    BY <1>1, <2>1, ProbeToldNothingTypes
  <2>3. targetRechecked' \in BOOLEAN /\ refusedAlone' \in Candidates \cup {NoCandidate}
    BY <1>1, <1>2, <2>1
  <2> QED
    BY <1>1, <2>1, <2>2, <2>3, FailedKeeps
<1> QED
  BY <1>3, <1>4, <1>5, <1>6, <1>7, <1>8 DEF HandleFailure

\* The steps that touch no split, no counter and only drop the whole queue.
LEMMA FrameKeeps ==
  ASSUME SplitsInv, TypeOK', UNCHANGED <<splitVars, moneyVars>>,
         queue' = queue \/ queue' = <<>>
  PROVE  SplitsInv'
<1>1. /\ asked' = asked /\ running' = running /\ results' = results
      /\ AmountRebalanced' = AmountRebalanced /\ InFlightAmount' = InFlightAmount
      /\ splitsInFlight' = splitsInFlight /\ feeReserved' = feeReserved
      /\ feesPaid' = feesPaid
  BY DEF splitVars, moneyVars
<1>2. InFlight' = InFlight
  BY <1>1 DEF InFlight
<1>3. CandidateInOnePlace'
  <2>1. CASE queue' = queue
    BY <1>2, <2>1 DEF SplitsInv, CandidateInOnePlace, Queued
  <2>2. CASE queue' = <<>>
    BY <2>2 DEF CandidateInOnePlace, Queued
  <2> QED
    BY <2>1, <2>2
<1>4. CountersMatchSplits'
  BY <1>1, <1>2 DEF SplitsInv, CountersMatchSplits, WorstFee
<1>5. EverySplitReports' /\ OneResultEach'
  BY <1>1, <1>2 DEF SplitsInv, EverySplitReports, OneResultEach, ResultOK, WorstFee
<1>6. WithinMaxFee' /\ NeverPastTarget'
  BY <1>1 DEF SplitsInv, WithinMaxFee, NeverPastTarget
<1> QED
  BY <1>3, <1>4, <1>5, <1>6 DEF SplitsInv

LEMMA InitSplits == Init => SplitsInv
<1> SUFFICES ASSUME Init PROVE SplitsInv
  OBVIOUS
<1>1. PICK n \in Nat : n = Cardinality(Candidates)
  BY FS_CardinalityType
<1>2. /\ queue \in [1 .. n -> Candidates] /\ {queue[i] : i \in DOMAIN queue} = Candidates
      /\ gone = {} /\ asked = [c \in Candidates |-> 0] /\ running = {} /\ results = <<>>
      /\ AmountRebalanced = 0 /\ InFlightAmount = 0 /\ splitsInFlight = 0
      /\ feeReserved = 0 /\ feesPaid = 0
  BY <1>1 DEF Init, FindCandidates
<1>3. queue \in Seq(Candidates) /\ DOMAIN queue = 1 .. n
  BY <1>2
<1>4. NoRepeat(queue)
  <2>1. queue \in Surjection(1 .. n, Candidates)
    BY <1>2, <1>3 DEF Surjection
  <2>2. IsFiniteSet(1 .. n) /\ Cardinality(1 .. n) = n
    BY FS_Interval
  <2>3. queue \in Injection(1 .. n, Candidates)
    BY <1>1, <2>1, <2>2, FS_SurjSameCardinalityImpliesInj
  <2> QED
    BY <1>3, <2>3 DEF Injection, IsInjective, NoRepeat
<1>5. InFlight = {}
  BY <1>2 DEF InFlight
<1>6. Cardinality({}) = 0
  BY FS_EmptySet
<1>7. LimitTypeOK
  BY DEF Init, LimitInit, LimitTypeOK
<1>8. TypeOK
  <2>1. asked \in [Candidates -> 0 .. SplitAmount]
    BY <1>2
  <2>2. results \in Seq(SplitResults)
    BY <1>2, EmptySeq
  <2>3. /\ streakStopped \in BOOLEAN /\ targetStopped \in BOOLEAN /\ timeStopped \in BOOLEAN
        /\ feeStopped \in BOOLEAN /\ halt \in BOOLEAN /\ heldByStop \in BOOLEAN
        /\ nodeStopped \in BOOLEAN /\ targetRechecked \in BOOLEAN
    BY DEF Init
  <2>4. /\ firstStop \in Reasons /\ stopped \in Reasons /\ pc = "call" /\ failStreak = 0
        /\ retried = {} /\ refusedAlone = NoCandidate
    BY DEF Init, NoReason, Reasons
  <2> QED
    BY <1>2, <1>3, <1>7, <2>1, <2>2, <2>3, <2>4 DEF TypeOK
<1>9. CandidateInOnePlace
  BY <1>4, <1>5 DEF CandidateInOnePlace, NoRepeat
<1>10. EverySplitReports
  <2>1. Len(results) = 0 /\ DOMAIN results = {}
    BY <1>2
  <2> QED
    BY <1>2, <1>6, <2>1 DEF EverySplitReports
<1>11. OneResultEach
  BY <1>2 DEF OneResultEach
<1>12. CountersMatchSplits
  <2>1. SumOver(asked, {}) = 0 /\ SumOver(WorstFees, {}) = 0
    BY SumEmpty
  <2> QED
    BY <1>2, <1>5, <1>6, <2>1, ReservedIs
<1>13. WithinMaxFee /\ NeverPastTarget
  BY <1>2 DEF WithinMaxFee, NeverPastTarget
<1> QED
  BY <1>8, <1>9, <1>10, <1>11, <1>12, <1>13 DEF SplitsInv

\* The inductive step: one case per action.
LEMMA StepKeeps == SplitsInv /\ [Next]_vars => SplitsInv'
<1> SUFFICES ASSUME SplitsInv, [Next]_vars PROVE SplitsInv'
  OBVIOUS
<1> USE DEF queueVars, flagVars, reasonVars, holdVars, judgeVars, limitVars, capVars,
            probeVars, fireVars
<1>1. CASE NothingToFire
  <2>1. TypeOK'
    BY <1>1 DEF NothingToFire, LeaveLoop, SplitsInv, TypeOK, LimitTypeOK, splitVars, moneyVars
  <2> QED
    BY <1>1, <2>1, FrameKeeps DEF NothingToFire
<1>2. CASE HeldBack
  <2>1. TypeOK'
    BY <1>2 DEF HeldBack, LeaveLoop, SplitsInv, TypeOK, LimitTypeOK, splitVars, moneyVars
  <2> QED
    BY <1>2, <2>1, FrameKeeps DEF HeldBack
<1>3. CASE OverBudget
  <2>1. /\ firstStop' \in Reasons /\ stopped' \in Reasons
        /\ feeStopped' = TRUE \/ feeStopped' = feeStopped
    <3>1. CASE feeStopped' = TRUE /\ NoteStop("fee")
      BY <3>1, NoteStopTypes DEF SplitsInv, Reasons
    <3>2. CASE UNCHANGED <<feeStopped, reasonVars>>
      BY <3>2 DEF SplitsInv, TypeOK
    <3> QED
      BY <1>3, <3>1, <3>2 DEF OverBudget
  <2>2. TypeOK'
    BY <1>3, <2>1
    DEF OverBudget, LeaveLoop, SplitsInv, TypeOK, LimitTypeOK, splitVars, moneyVars
  <2> QED
    BY <1>3, <2>2, FrameKeeps DEF OverBudget
<1>4. CASE NoneLeft
  <2>1. queue \in Seq(Candidates) /\ queue' = <<>>
    BY <1>4 DEF NoneLeft, SplitsInv, TypeOK
  <2>2. gone' \subseteq Candidates
    <3>1. DOMAIN queue = 1 .. Len(queue)
      BY <2>1, LenProperties
    <3>2. \A i \in 1 .. Len(queue) : queue[i] \in Candidates
      BY <2>1, ElementOfSeq
    <3> QED
      BY <1>4, <3>1, <3>2 DEF NoneLeft, Skip, SplitsInv, TypeOK
  <2>3. queue' \in Seq(Candidates)
    BY <2>1, EmptySeq
  <2>4. TypeOK'
    BY <1>4, <2>2, <2>3
    DEF NoneLeft, LeaveLoop, SplitsInv, TypeOK, LimitTypeOK, splitVars, moneyVars
  <2> QED
    BY <1>4, <2>1, <2>4, FrameKeeps DEF NoneLeft
<1>5. ASSUME NEW k \in 0 .. Len(queue) - 1, FireSplit(k)
      PROVE  SplitsInv'
  BY <1>5, FireKeeps
<1>6. ASSUME NEW c \in Candidates, FinishSplit(c)
      PROVE  SplitsInv'
  BY <1>6, FinishKeeps
<1>7. CASE HandleResult
  <2>1. CASE SplitSucceeded(Head(results))
    BY <2>1, SuccessKeeps
  <2>2. CASE HandleFailure(Head(results))
    BY <2>2, FailureKeeps
  <2> QED
    BY <1>7, <2>1, <2>2 DEF HandleResult
<1>8. CASE TimeUp
  <2>1. firstStop' \in Reasons /\ stopped' \in Reasons
    BY <1>8, NoteStopTypes DEF TimeUp, SplitsInv, Reasons
  <2>2. TypeOK'
    BY <1>8, <2>1 DEF TimeUp, SplitsInv, TypeOK, LimitTypeOK, splitVars, moneyVars
  <2> QED
    BY <1>8, <2>2, FrameKeeps DEF TimeUp
<1>9. CASE Toggle
  <2>1. nodeStopped' \in BOOLEAN
    BY <1>9 DEF Toggle
  <2>2. TypeOK'
    BY <1>9, <2>1 DEF Toggle, SplitsInv, TypeOK, LimitTypeOK, splitVars, moneyVars
  <2> QED
    BY <1>9, <2>2, FrameKeeps DEF Toggle
<1>10. CASE EndRun
  <2>1. stopped' \in Reasons
    BY <1>10 DEF EndRun, EndReason, SplitsInv, TypeOK, NoReason, Reasons
  <2>2. TypeOK'
    BY <1>10, <2>1 DEF EndRun, SplitsInv, TypeOK, LimitTypeOK, splitVars, moneyVars
  <2> QED
    BY <1>10, <2>2, FrameKeeps DEF EndRun
<1>11. CASE UNCHANGED vars
  <2>1. TypeOK'
    BY <1>11 DEF vars, SplitsInv, TypeOK, LimitTypeOK, splitVars, moneyVars
  <2> QED
    BY <1>11, <2>1, FrameKeeps DEF vars
<1> QED
  BY <1>1, <1>2, <1>3, <1>4, <1>5, <1>6, <1>7, <1>8, <1>9, <1>10, <1>11
  DEF Next, FireLoop, Fire
-----------------------------------------------------------------------------
(***************************************************************************)
(* Theorems.                                                               *)
(***************************************************************************)
\* The invariant holds in every state of a run.
THEOREM SplitsInvariant == Spec => []SplitsInv
BY InitSplits, StepKeeps, PTL DEF Spec

\* Every variable of waitForRound keeps its type: in particular its counters
\* never go below zero, whatever order results come back in.
THEOREM TypeCorrect == Spec => []TypeOK
<1>1. SplitsInv => TypeOK
  BY DEF SplitsInv
<1> QED
  BY <1>1, SplitsInvariant, PTL

\* splitsInFlight, InFlightAmount and feeReserved are exactly the number, the
\* amounts and the worst fees of the splits in flight (FireCandidates,
\* UpdateAmounts, reserveFee, releaseFee).
THEOREM CountersAreSums == Spec => []CountersMatchSplits
<1>1. SplitsInv => CountersMatchSplits
  BY DEF SplitsInv
<1> QED
  BY <1>1, SplitsInvariant, PTL

\* What the run paid and what its splits in flight can still cost fit in
\* maxfee (withinBudget).
THEOREM BudgetKept == Spec => []WithinMaxFee
<1>1. SplitsInv => WithinMaxFee
  BY DEF SplitsInv
<1> QED
  BY <1>1, SplitsInvariant, PTL

\* What the run moved and what its splits in flight can still move fit in the
\* amount it was asked for (FireCandidates).
THEOREM TargetKept == Spec => []NeverPastTarget
<1>1. SplitsInv => NeverPastTarget
  BY DEF SplitsInv
<1> QED
  BY <1>1, SplitsInvariant, PTL

\* No candidate is queued twice, or queued while its split is in flight
\* (GetNextCandidate, EnqueueCandidate, requeue).
THEOREM OnePlaceEach == Spec => []CandidateInOnePlace
<1>1. SplitsInv => CandidateInOnePlace
  BY DEF SplitsInv
<1> QED
  BY <1>1, SplitsInvariant, PTL

\* Each split in flight is running or has one result in the channel, which has
\* room for it (launch, Fire).
THEOREM SplitsReport == Spec => []EverySplitReports
<1>1. SplitsInv => EverySplitReports
  BY DEF SplitsInv
<1> QED
  BY <1>1, SplitsInvariant, PTL
-----------------------------------------------------------------------------
(***************************************************************************)
(* The end of a run.                                                       *)
(***************************************************************************)
\* A split that failed had its result taken.
LEMMA FailureTaken ==
  ASSUME NEW r, HandleFailure(r)
  PROVE  /\ Take(r) /\ r.status = "failure"
         /\ SplitFailed(r, FALSE) \/ SplitFailed(r, TRUE)
BY DEF HandleFailure, StalePolicy, CandidateFailed, BusyTarget, RecheckTarget, LeaveOut,
       TargetEnds, SplitFailed
-----------------------------------------------------------------------------
(***************************************************************************)
(* Stops and reasons.  A reason is noted only with its flag, flags are     *)
(* never taken back, and "held" and "ranout" are given by endRun alone.    *)
(***************************************************************************)
Happened(why) ==
  /\ why = "target" => targetStopped
  /\ why = "streak" => streakStopped
  /\ why = "time" => timeStopped
  /\ why = "fee" => feeStopped

NotedReasons == {NoReason, "target", "streak", "time", "fee"}

ReasonsInv ==
  /\ HaltFollowsStop
  /\ StopFlag => firstStop # NoReason
  /\ Happened(firstStop) /\ Happened(stopped)
  /\ firstStop \in NotedReasons
  /\ pc # "done" => stopped \in NotedReasons
  /\ stopped = "held" => heldByStop
  /\ pc = "done" => (stopped = NoReason <=> AmountRebalanced = Amount)

\* No flag is taken back.
FlagsKept ==
  /\ targetStopped => targetStopped'
  /\ streakStopped => streakStopped'
  /\ timeStopped => timeStopped'
  /\ feeStopped => feeStopped'

\* NoteStop: a reason noted with its flag is one that happened.
LEMMA NoteStopHappened ==
  ASSUME ReasonsInv, FlagsKept, pc # "done", NEW why \in NotedReasons \ {NoReason},
         NoteStop(why), Happened(why)'
  PROVE  /\ Happened(firstStop)' /\ Happened(stopped)'
         /\ firstStop' \in NotedReasons \ {NoReason} /\ stopped' \in NotedReasons
<1>1. firstStop' = firstStop \/ firstStop' = why
  BY DEF NoteStop
<1>2. stopped' = stopped \/ stopped' = firstStop'
  BY DEF NoteStop
<1>3. Happened(firstStop)'
  <2>1. CASE firstStop' = firstStop
    BY <2>1 DEF ReasonsInv, FlagsKept, Happened
  <2>2. CASE firstStop' = why
    BY <2>2 DEF Happened
  <2> QED
    BY <1>1, <2>1, <2>2
<1>4. firstStop' \in NotedReasons \ {NoReason}
  BY DEF NoteStop, ReasonsInv
<1>5. Happened(stopped)'
  <2>1. CASE stopped' = stopped
    BY <2>1 DEF ReasonsInv, FlagsKept, Happened
  <2>2. CASE stopped' = firstStop'
    BY <1>3, <2>2 DEF Happened
  <2> QED
    BY <1>2, <2>1, <2>2
<1>6. stopped' \in NotedReasons
  BY <1>2, <1>4 DEF ReasonsInv
<1> QED
  BY <1>3, <1>4, <1>5, <1>6

\* The steps that note no reason and change no flag.
LEMMA ReasonsFrame ==
  ASSUME SplitsInv, ReasonsInv, UNCHANGED <<flagVars, reasonVars>>,
         pc # "done" \/ UNCHANGED AmountRebalanced,
         pc' = "done" <=> pc = "done",
         stopped = "held" => heldByStop'
  PROVE  ReasonsInv'
<1>1. UNCHANGED <<streakStopped, targetStopped, timeStopped, feeStopped, halt,
                  firstStop, stopped>>
  BY DEF flagVars, reasonVars
<1>2. HaltFollowsStop' /\ (StopFlag => firstStop # NoReason)'
  BY <1>1 DEF ReasonsInv, HaltFollowsStop, StopFlag
<1>3. Happened(firstStop)' /\ Happened(stopped)'
  BY <1>1 DEF ReasonsInv, Happened
<1> QED
  BY <1>1, <1>2, <1>3 DEF ReasonsInv

\* A failure: the streak or the target may stop the run.
LEMMA ReasonsFailed ==
  ASSUME SplitsInv, ReasonsInv, NEW r, NEW b \in BOOLEAN, SplitFailed(r, b)
  PROVE  ReasonsInv'
<1>1. /\ pc = "wait" /\ pc' = "fire"
      /\ UNCHANGED <<timeStopped, feeStopped, heldByStop>>
  BY DEF SplitFailed, Take, holdVars
<1>2. /\ streakStopped' = (streakStopped \/ StreakEnds(r))
      /\ targetStopped' = (targetStopped \/ b)
      /\ halt' = (halt \/ StreakEnds(r) \/ b)
  BY DEF SplitFailed
<1>3. StreakEnds(r) \in BOOLEAN
  BY DEF StreakEnds
<1> HIDE DEF StreakEnds
<1>4. FlagsKept
  BY <1>1, <1>2, ZenonT(30) DEF FlagsKept
<1>5. HaltFollowsStop'
  BY <1>1, <1>2, <1>3, ZenonT(30) DEF ReasonsInv, HaltFollowsStop
<1>6. CASE StreakEnds(r)
  <2>1. NoteStop("streak") /\ streakStopped'
    BY <1>2, <1>6 DEF SplitFailed
  <2>2. Happened("streak")'
    BY <2>1 DEF Happened
  <2>3. /\ Happened(firstStop)' /\ Happened(stopped)'
        /\ firstStop' \in NotedReasons \ {NoReason} /\ stopped' \in NotedReasons
    BY <1>1, <1>4, <2>1, <2>2, NoteStopHappened DEF NotedReasons, NoReason
  <2> QED
    BY <1>1, <1>5, <2>3 DEF ReasonsInv, NotedReasons, NoReason
<1>7. CASE ~StreakEnds(r) /\ b
  <2>1. NoteStop("target") /\ targetStopped'
    BY <1>2, <1>7 DEF SplitFailed
  <2>2. Happened("target")'
    BY <2>1 DEF Happened
  <2>3. /\ Happened(firstStop)' /\ Happened(stopped)'
        /\ firstStop' \in NotedReasons \ {NoReason} /\ stopped' \in NotedReasons
    BY <1>1, <1>4, <2>1, <2>2, NoteStopHappened DEF NotedReasons, NoReason
  <2> QED
    BY <1>1, <1>5, <2>3 DEF ReasonsInv, NotedReasons, NoReason
<1>8. CASE ~StreakEnds(r) /\ ~b
  <2>1. UNCHANGED reasonVars
    BY <1>8 DEF SplitFailed
  <2>2. streakStopped' = streakStopped /\ targetStopped' = targetStopped /\ halt' = halt
    <3>1. streakStopped \in BOOLEAN /\ targetStopped \in BOOLEAN /\ halt \in BOOLEAN
      BY DEF SplitsInv, TypeOK
    <3> QED
      BY <1>2, <1>8, <3>1, ZenonT(30)
  <2>3. UNCHANGED flagVars
    BY <1>1, <2>2 DEF flagVars
  <2>4. stopped = "held" => heldByStop'
    BY <1>1 DEF ReasonsInv
  <2> QED
    BY <1>1, <2>1, <2>3, <2>4, ReasonsFrame
<1> QED
  BY <1>3, <1>6, <1>7, <1>8

\* endRun: the reason given is one that holds.
LEMMA ReasonsEnd ==
  ASSUME SplitsInv, ReasonsInv, EndRun
  PROVE  ReasonsInv'
<1>1. /\ pc = "end" /\ pc' = "done"
      /\ UNCHANGED <<AmountRebalanced, flagVars, firstStop, heldByStop>>
  BY DEF EndRun, moneyVars, holdVars
<1>2. UNCHANGED <<streakStopped, targetStopped, timeStopped, feeStopped, halt>>
  BY <1>1 DEF flagVars
<1>3. HaltFollowsStop' /\ (StopFlag => firstStop # NoReason)' /\ Happened(firstStop)'
  BY <1>1, <1>2 DEF ReasonsInv, HaltFollowsStop, StopFlag, Happened
<1>4. AmountRebalanced \in Nat /\ AmountRebalanced <= Amount
  <2>1. AmountRebalanced \in Nat /\ InFlightAmount \in Nat
    BY DEF SplitsInv, TypeOK
  <2>2. AmountRebalanced + InFlightAmount <= Amount
    BY DEF SplitsInv, NeverPastTarget
  <2> QED
    BY <2>1, <2>2
<1>5. CASE AmountRebalanced >= Amount
  <2>1. stopped' = NoReason /\ AmountRebalanced' = Amount
    BY <1>1, <1>4, <1>5 DEF EndRun
  <2>2. Happened(stopped)' /\ (stopped = "held" => heldByStop)'
    BY <2>1 DEF Happened, NoReason
  <2> QED
    BY <1>1, <1>3, <2>1, <2>2 DEF ReasonsInv
<1>6. CASE ~(AmountRebalanced >= Amount) /\ stopped # NoReason
  <2>1. stopped' = stopped /\ AmountRebalanced' # Amount
    BY <1>1, <1>4, <1>6 DEF EndRun
  <2>2. Happened(stopped)' /\ (stopped = "held" => heldByStop)'
    BY <1>1, <1>2, <2>1 DEF ReasonsInv, Happened
  <2> QED
    BY <1>1, <1>3, <1>6, <2>1, <2>2 DEF ReasonsInv
<1>7. CASE ~(AmountRebalanced >= Amount) /\ stopped = NoReason
  <2>1. stopped' = EndReason /\ AmountRebalanced' # Amount
    BY <1>1, <1>4, <1>7 DEF EndRun
  <2>2. EndReason # NoReason
    BY DEF EndReason, ReasonsInv, NoReason
  <2>3. /\ Happened(stopped)'
        /\ stopped' = "held" => heldByStop'
    <3>1. CASE Held
      <4>1. stopped' = "held" /\ heldByStop
        BY <2>1, <3>1 DEF EndReason, Held
      <4> QED
        BY <1>1, <4>1 DEF Happened
    <3>2. CASE ~Held /\ firstStop # NoReason
      <4>1. stopped' = firstStop
        BY <2>1, <3>2 DEF EndReason
      <4>2. stopped' # "held"
        BY <4>1 DEF ReasonsInv, NotedReasons, NoReason
      <4>3. Happened(stopped)'
        BY <1>2, <4>1 DEF ReasonsInv, Happened
      <4> QED
        BY <4>2, <4>3
    <3>3. CASE ~Held /\ firstStop = NoReason
      <4>1. stopped' \in {"ranout", NoReason}
        BY <2>1, <3>3 DEF EndReason
      <4> QED
        BY <4>1 DEF Happened, NoReason
    <3> QED
      BY <3>1, <3>2, <3>3
  <2> QED
    BY <1>1, <1>3, <2>1, <2>2, <2>3 DEF ReasonsInv
<1> QED
  BY <1>5, <1>6, <1>7

LEMMA InitReasons == Init => ReasonsInv
BY DEF Init, ReasonsInv, HaltFollowsStop, StopFlag, Happened, NotedReasons, NoReason

\* One case per action that notes a reason or ends the run; the others change
\* no flag and no reason.
LEMMA StepReasons == SplitsInv /\ ReasonsInv /\ [Next]_vars => ReasonsInv'
<1> SUFFICES ASSUME SplitsInv, ReasonsInv, [Next]_vars PROVE ReasonsInv'
  OBVIOUS
<1>0. stopped = "held" => heldByStop
  BY DEF ReasonsInv
<1>1. CASE NothingToFire
  <2>1. /\ pc # "done" /\ pc' # "done" /\ UNCHANGED <<flagVars, reasonVars, heldByStop>>
    BY <1>1 DEF NothingToFire, Firing, LeaveLoop, holdVars
  <2> QED
    BY <1>0, <2>1, ReasonsFrame
<1>2. CASE HeldBack
  <2>1. /\ pc # "done" /\ pc' # "done" /\ UNCHANGED <<flagVars, reasonVars>> /\ heldByStop'
    BY <1>2 DEF HeldBack, Firing, LeaveLoop
  <2> QED
    BY <2>1, ReasonsFrame
<1>3. CASE OverBudget
  <2>1. /\ pc # "done" /\ pc' # "done"
        /\ UNCHANGED <<streakStopped, targetStopped, timeStopped, halt, heldByStop>>
    BY <1>3 DEF OverBudget, Firing, LeaveLoop, holdVars
  <2>2. CASE feeStopped' = TRUE /\ NoteStop("fee")
    <3>1. FlagsKept /\ Happened("fee")' /\ HaltFollowsStop'
      BY <2>1, <2>2 DEF FlagsKept, Happened, ReasonsInv, HaltFollowsStop
    <3>2. /\ Happened(firstStop)' /\ Happened(stopped)'
          /\ firstStop' \in NotedReasons \ {NoReason} /\ stopped' \in NotedReasons
      BY <2>1, <2>2, <3>1, NoteStopHappened DEF NotedReasons, NoReason
    <3> QED
      BY <2>1, <3>1, <3>2 DEF ReasonsInv, NotedReasons, NoReason
  <2>3. CASE UNCHANGED <<feeStopped, reasonVars>>
    <3>1. UNCHANGED flagVars
      BY <2>1, <2>3 DEF flagVars
    <3> QED
      BY <1>0, <2>1, <2>3, <3>1, ReasonsFrame
  <2> QED
    BY <1>3, <2>2, <2>3 DEF OverBudget
<1>4. CASE NoneLeft
  <2>1. /\ pc # "done" /\ pc' # "done" /\ UNCHANGED <<flagVars, reasonVars, heldByStop>>
    BY <1>4 DEF NoneLeft, Firing, LeaveLoop, holdVars
  <2> QED
    BY <1>0, <2>1, ReasonsFrame
<1>5. ASSUME NEW k \in 0 .. Len(queue) - 1, FireSplit(k)
      PROVE  ReasonsInv'
  <2>1. /\ pc # "done" /\ pc' # "done" /\ UNCHANGED <<flagVars, reasonVars>>
    BY <1>5 DEF FireSplit, Firing
  <2>2. stopped # "held"
    BY <2>1 DEF ReasonsInv, NotedReasons, NoReason
  <2> QED
    BY <2>1, <2>2, ReasonsFrame
<1>6. ASSUME NEW c \in Candidates, FinishSplit(c)
      PROVE  ReasonsInv'
  <2>1. UNCHANGED <<pc, AmountRebalanced, flagVars, reasonVars, heldByStop>>
    BY <1>6 DEF FinishSplit, moneyVars, holdVars
  <2> QED
    BY <1>0, <2>1, ReasonsFrame
<1>7. CASE HandleResult
  <2>1. CASE SplitSucceeded(Head(results))
    <3>1. /\ pc = "wait" /\ pc' = "fire" /\ UNCHANGED <<timeStopped, feeStopped, heldByStop>>
          /\ UNCHANGED <<streakStopped, targetStopped, halt, reasonVars>>
      BY <2>1 DEF SplitSucceeded, Take, holdVars
    <3>2. UNCHANGED flagVars
      BY <3>1 DEF flagVars
    <3> QED
      BY <1>0, <3>1, <3>2, ReasonsFrame
  <2>2. CASE HandleFailure(Head(results))
    BY <2>2, FailureTaken, ReasonsFailed
  <2> QED
    BY <1>7, <2>1, <2>2 DEF HandleResult
<1>8. CASE TimeUp
  <2>1. /\ pc = "wait" /\ pc' = "wait" /\ timeStopped' /\ halt' /\ NoteStop("time")
        /\ UNCHANGED <<streakStopped, targetStopped, feeStopped, heldByStop>>
    BY <1>8 DEF TimeUp, holdVars
  <2>2. FlagsKept /\ Happened("time")'
    BY <2>1 DEF FlagsKept, Happened
  <2>3. HaltFollowsStop'
    <3>1. halt' = TRUE /\ timeStopped' = TRUE
      BY <1>8 DEF TimeUp
    <3> QED
      BY <3>1 DEF HaltFollowsStop
  <2>4. /\ Happened(firstStop)' /\ Happened(stopped)'
        /\ firstStop' \in NotedReasons \ {NoReason} /\ stopped' \in NotedReasons
    BY <2>1, <2>2, NoteStopHappened DEF NotedReasons, NoReason
  <2> QED
    BY <2>1, <2>3, <2>4 DEF ReasonsInv, NotedReasons, NoReason
<1>9. CASE Toggle
  <2>1. UNCHANGED <<pc, AmountRebalanced, flagVars, reasonVars, heldByStop>>
    BY <1>9 DEF Toggle, moneyVars
  <2> QED
    BY <1>0, <2>1, ReasonsFrame
<1>10. CASE EndRun
  BY <1>10, ReasonsEnd
<1>11. CASE UNCHANGED vars
  <2>1. UNCHANGED <<pc, AmountRebalanced, flagVars, reasonVars, heldByStop>>
    BY <1>11 DEF vars, moneyVars, holdVars
  <2> QED
    BY <1>0, <2>1, ReasonsFrame
<1> QED
  BY <1>1, <1>2, <1>3, <1>4, <1>5, <1>6, <1>7, <1>8, <1>9, <1>10, <1>11
  DEF Next, FireLoop, Fire
-----------------------------------------------------------------------------
(***************************************************************************)
(* The end.  The run leaves its loop for the end only with nothing in      *)
(* flight, so that the loop's condition fails for good.                    *)
(***************************************************************************)
EndInv ==
  pc \in {"end", "done"} /\ AmountRebalanced < Amount =>
    queue = <<>> \/ StopFlag \/ heldByStop

\* With no split in flight, nothing is asked for.
LEMMA NothingAsked ==
  ASSUME SplitsInv, splitsInFlight = 0
  PROVE  InFlight = {} /\ InFlightAmount = 0
<1>1. IsFiniteSet(InFlight) /\ Cardinality(InFlight) = 0
  BY InFlightFinite DEF SplitsInv, CountersMatchSplits
<1>2. InFlight = {}
  BY <1>1, FS_EmptySet
<1>3. InFlightAmount = SumOver(asked, {})
  BY <1>2 DEF SplitsInv, CountersMatchSplits
<1> QED
  BY <1>2, <1>3, SumEmpty

\* The loop's condition fails with nothing in flight: all was moved, or the
\* run stopped.
LEMMA NothingToFireEnds ==
  ASSUME SplitsInv, ~MayFire, splitsInFlight = 0
  PROVE  AmountRebalanced >= Amount \/ StopFlag
<1>1. AmountRebalanced \in Nat /\ targetCap \in Nat
  BY DEF SplitsInv, TypeOK, LimitTypeOK
<1>2. splitsInFlight < Splits /\ RoomAtTarget(splitsInFlight)
  BY <1>1 DEF RoomAtTarget
<1>3. InFlightAmount = 0
  BY NothingAsked
<1>4. CASE ~(AmountRebalanced + InFlightAmount < Amount)
  BY <1>1, <1>3, <1>4
<1>5. CASE AmountRebalanced + InFlightAmount < Amount
  BY <1>2, <1>5 DEF MayFire, StopFlag
<1> QED
  BY <1>4, <1>5

\* The steps after which the run has not ended, or had before.
LEMMA EndFrame ==
  ASSUME SplitsInv, EndInv,
         \/ pc' \notin {"end", "done"}
         \/ /\ pc \in {"end", "done"}
            /\ UNCHANGED <<queue, AmountRebalanced, streakStopped, targetStopped,
                           timeStopped, feeStopped, heldByStop>>
  PROVE  EndInv'
BY DEF EndInv, StopFlag

LEMMA StepEnds == SplitsInv /\ EndInv /\ [Next]_vars => EndInv'
<1> SUFFICES ASSUME SplitsInv, EndInv, [Next]_vars PROVE EndInv'
  OBVIOUS
<1> USE DEF LeaveLoop
<1>0. AmountRebalanced \in Nat /\ splitsInFlight \in Nat
  BY DEF SplitsInv, TypeOK
<1>1. CASE NothingToFire
  <2>1. CASE splitsInFlight > 0
    BY <1>1, <2>1, EndFrame DEF NothingToFire
  <2>2. CASE splitsInFlight = 0
    <3>1. AmountRebalanced >= Amount \/ StopFlag
      BY <1>1, <2>2, NothingToFireEnds DEF NothingToFire
    <3>2. UNCHANGED <<AmountRebalanced, streakStopped, targetStopped, timeStopped, feeStopped>>
      BY <1>1 DEF NothingToFire, moneyVars, flagVars
    <3> QED
      BY <1>0, <3>1, <3>2 DEF EndInv, StopFlag
  <2> QED
    BY <1>0, <2>1, <2>2
<1>2. CASE HeldBack
  BY <1>2 DEF HeldBack, EndInv
<1>3. CASE OverBudget
  <2>1. CASE splitsInFlight > 0
    BY <1>3, <2>1, EndFrame DEF OverBudget
  <2>2. CASE splitsInFlight = 0
    BY <1>3, <2>2 DEF OverBudget, EndInv, StopFlag
  <2> QED
    BY <1>0, <2>1, <2>2
<1>4. CASE NoneLeft
  BY <1>4 DEF NoneLeft, EndInv
<1>5. ASSUME NEW k \in 0 .. Len(queue) - 1, FireSplit(k)
      PROVE  EndInv'
  BY <1>5, EndFrame DEF FireSplit, Firing
<1>6. ASSUME NEW c \in Candidates, FinishSplit(c)
      PROVE  EndInv'
  <2>1. UNCHANGED <<pc, queue, AmountRebalanced, streakStopped, targetStopped,
                    timeStopped, feeStopped, heldByStop>>
    BY <1>6 DEF FinishSplit, queueVars, moneyVars, flagVars, holdVars
  <2> QED
    BY <2>1, EndFrame
<1>7. CASE HandleResult
  <2>1. pc' = "fire"
    BY <1>7, FailureTaken DEF HandleResult, SplitSucceeded, Take
  <2> QED
    BY <2>1, EndFrame
<1>8. CASE TimeUp
  BY <1>8, EndFrame DEF TimeUp
<1>9. CASE Toggle
  <2>1. UNCHANGED <<pc, queue, AmountRebalanced, streakStopped, targetStopped,
                    timeStopped, feeStopped, heldByStop>>
    BY <1>9 DEF Toggle, queueVars, moneyVars, flagVars
  <2> QED
    BY <2>1, EndFrame
<1>10. CASE EndRun
  <2>1. pc = "end" /\ UNCHANGED <<queue, AmountRebalanced, streakStopped, targetStopped,
                                  timeStopped, feeStopped, heldByStop>>
    BY <1>10 DEF EndRun, queueVars, moneyVars, flagVars, holdVars
  <2> QED
    BY <2>1, EndFrame
<1>11. CASE UNCHANGED vars
  <2>1. UNCHANGED <<pc, queue, AmountRebalanced, streakStopped, targetStopped,
                    timeStopped, feeStopped, heldByStop>>
    BY <1>11 DEF vars, queueVars, moneyVars, flagVars, holdVars
  <2> QED
    BY <2>1, EndFrame
<1> QED
  BY <1>1, <1>2, <1>3, <1>4, <1>5, <1>6, <1>7, <1>8, <1>9, <1>10, <1>11
  DEF Next, FireLoop, Fire
-----------------------------------------------------------------------------
(***************************************************************************)
(* The candidates.  Each step moves one from a place to another.           *)
(***************************************************************************)
\* The queue before a split is fired: the candidates dropped, the one that is
\* fired, and those left.
LEMMA QueueParts ==
  ASSUME NEW q \in Seq(Candidates), NEW k \in 0 .. Len(q) - 1
  PROVE  Elements(q) \subseteq Elements(SubSeq(q, k + 2, Len(q))) \cup {q[k + 1]}
                              \cup {q[i] : i \in 1 .. k}
<1> DEFINE p == SubSeq(q, k + 2, Len(q))
<1>1. PICK n \in Nat : n = Len(q) /\ DOMAIN q = 1 .. n
  BY LenProperties
<1> SUFFICES ASSUME NEW x \in Elements(q)
             PROVE  x \in Elements(p) \cup {q[k + 1]} \cup {q[i] : i \in 1 .. k}
  OBVIOUS
<1>3. PICK i \in 1 .. n : x = q[i]
  BY <1>1 DEF Elements
<1>4. CASE i <= k + 1
  BY <1>3, <1>4
<1>5. CASE i >= k + 2
  <2>1. /\ p \in Seq(Candidates)
        /\ Len(p) = n - (k + 2) + 1
        /\ \A j \in 1 .. n - (k + 2) + 1 : p[j] = q[(k + 2) + j - 1]
    BY <1>1, <1>5, SubSeqProperties
  <2> HIDE DEF p
  <2>2. i - k - 1 \in 1 .. n - (k + 2) + 1 /\ (k + 2) + (i - k - 1) - 1 = i
    BY <1>5
  <2>3. p[i - k - 1] = x /\ i - k - 1 \in DOMAIN p
    <3>1. DOMAIN p = 1 .. Len(p)
      BY <2>1, LenProperties
    <3> QED
      BY <1>3, <2>1, <2>2, <3>1
  <2> QED
    BY <2>3 DEF Elements, p
<1> QED
  BY <1>4, <1>5

\* Steps that move no candidate.
LEMMA CandidatesFrame ==
  ASSUME NoCandidateLost, UNCHANGED <<queue, gone, asked>>
  PROVE  NoCandidateLost'
BY DEF NoCandidateLost, Queued, InFlight

\* A result's candidate is taken out of flight.
LEMMA ResultLeaves ==
  ASSUME SplitsInv, NEW r, Take(r)
  PROVE  /\ r.cand \in InFlight /\ InFlight' = InFlight \ {r.cand}
         /\ \A d \in InFlight \ {r.cand} : d \in InFlight'
<1>1. results \in Seq(SplitResults) /\ results # <<>> /\ r = Head(results)
  BY DEF SplitsInv, TypeOK, Take
<1>2. r = results[1] /\ 1 \in DOMAIN results
  BY <1>1, HeadTailProperties, LenProperties, EmptySeq
<1>3. r.cand \in InFlight /\ r.cand \in Candidates
  BY <1>2, InFlightFinite DEF SplitsInv, EverySplitReports, ResultOK
<1>4. asked \in [Candidates -> 0 .. SplitAmount] /\ asked' = [asked EXCEPT ![r.cand] = 0]
  BY DEF SplitsInv, TypeOK, Take
<1>5. asked'[r.cand] = 0 /\ \A d \in Candidates \ {r.cand} : asked'[d] = asked[d]
  BY <1>3, <1>4
<1>6. InFlight' = InFlight \ {r.cand}
  BY <1>5 DEF InFlight
<1> QED
  BY <1>3, <1>6

\* A result handled: its candidate is queued again or gone.
LEMMA HandledKept ==
  ASSUME SplitsInv, NoCandidateLost, NEW r, Take(r),
         \/ queue' = queue /\ gone' = gone \cup {r.cand}
         \/ /\ queue' = <<r.cand>> \o queue \/ queue' = Append(queue, r.cand)
            /\ gone \subseteq gone' /\ gone' \subseteq Candidates
  PROVE  NoCandidateLost'
<1>1. r.cand \in InFlight /\ InFlight' = InFlight \ {r.cand}
  BY ResultLeaves
<1>2. queue \in Seq(Candidates) /\ r.cand \in Candidates
  BY <1>1, InFlightFinite DEF SplitsInv, TypeOK
<1>3. NoRepeat(queue) /\ r.cand \notin Elements(queue)
  BY <1>1 DEF SplitsInv, CandidateInOnePlace, Queued, NoRepeat, Elements
<1>4. CASE queue' = queue /\ gone' = gone \cup {r.cand}
  BY <1>1, <1>2, <1>4 DEF NoCandidateLost, Queued
<1>5. CASE /\ queue' = <<r.cand>> \o queue \/ queue' = Append(queue, r.cand)
           /\ gone \subseteq gone' /\ gone' \subseteq Candidates
  <2>1. Elements(queue') = Elements(queue) \cup {r.cand}
    <3>1. CASE queue' = <<r.cand>> \o queue
      BY <1>2, <1>3, <3>1, AtFront
    <3>2. CASE queue' = Append(queue, r.cand)
      BY <1>2, <1>3, <3>2, AtBack
    <3> QED
      BY <1>5, <3>1, <3>2
  <2>2. Queued' = Queued \cup {r.cand}
    BY <2>1 DEF Queued, Elements
  <2>3. Queued \subseteq Candidates
    BY DEF NoCandidateLost
  <2> QED
    BY <1>1, <1>2, <1>5, <2>2, <2>3 DEF NoCandidateLost
<1> QED
  BY <1>4, <1>5

LEMMA StepCandidates == SplitsInv /\ NoCandidateLost /\ [Next]_vars => NoCandidateLost'
<1> SUFFICES ASSUME SplitsInv, NoCandidateLost, [Next]_vars PROVE NoCandidateLost'
  OBVIOUS
<1>1. CASE NothingToFire \/ HeldBack \/ OverBudget \/ TimeUp \/ Toggle \/ EndRun
            \/ UNCHANGED vars \/ \E c \in Candidates : FinishSplit(c)
  <2>1. UNCHANGED <<queue, gone, asked>>
    BY <1>1 DEF NothingToFire, HeldBack, OverBudget, TimeUp, Toggle, EndRun, FinishSplit,
                vars, queueVars, splitVars
  <2> QED
    BY <2>1, CandidatesFrame
<1>2. CASE NoneLeft
  <2>1. queue \in Seq(Candidates) /\ DOMAIN queue = 1 .. Len(queue)
    BY LenProperties DEF SplitsInv, TypeOK
  <2>2. gone' = gone \cup Queued /\ asked' = asked /\ queue' = <<>>
    BY <1>2, <2>1 DEF NoneLeft, Skip, Queued, splitVars
  <2>3. Queued' = {} /\ InFlight' = InFlight
    BY <2>2 DEF Queued, InFlight
  <2> QED
    BY <2>2, <2>3 DEF NoCandidateLost
<1>3. ASSUME NEW k \in 0 .. Len(queue) - 1, FireSplit(k)
      PROVE  NoCandidateLost'
  <2> DEFINE c == queue[k + 1]
  <2>1. queue \in Seq(Candidates) /\ NoRepeat(queue)
    BY DEF SplitsInv, TypeOK, CandidateInOnePlace, NoRepeat
  <2>2. queue' = SubSeq(queue, k + 2, Len(queue)) /\ gone' = gone \cup {queue[i] : i \in 1 .. k}
    BY <1>3 DEF FireSplit, PopPast, Skip
  <2>3. c \in Candidates /\ Elements(queue) \subseteq Elements(queue') \cup {c} \cup {queue[i] : i \in 1 .. k}
    <3>1. c \in Candidates
      BY <2>1, AfterFiring
    <3>2. Elements(queue) \subseteq Elements(SubSeq(queue, k + 2, Len(queue))) \cup {queue[k + 1]}
                                     \cup {queue[i] : i \in 1 .. k}
      BY <2>1, QueueParts
    <3> QED
      BY <2>2, <3>1, <3>2
  <2>4. asked' = [asked EXCEPT ![c] = NextAmount] /\ asked \in [Candidates -> 0 .. SplitAmount]
    BY <1>3 DEF FireSplit, SplitsInv, TypeOK
  <2>5. NextAmount > 0
    BY <1>3 DEF FireSplit, MayFire, NextAmount, Least, SplitsInv, TypeOK
  <2> HIDE DEF c
  <2>6. InFlight' = InFlight \cup {c}
    <3>1. asked'[c] = NextAmount /\ \A d \in Candidates \ {c} : asked'[d] = asked[d]
      BY <2>3, <2>4
    <3> QED
      BY <2>3, <2>5, <3>1 DEF InFlight
  <2>7. Queued \subseteq Queued' \cup {c} \cup {queue[i] : i \in 1 .. k}
    BY <2>3 DEF Queued, Elements
  <2>8. gone' \subseteq Candidates /\ Queued' \subseteq Candidates
    <3>1. SplitsInv'
      BY <1>3, FireKeeps
    <3>2. gone' \subseteq Candidates /\ queue' \in Seq(Candidates)
      BY <3>1 DEF SplitsInv, TypeOK
    <3>3. \A i \in DOMAIN queue' : queue'[i] \in Candidates
      BY <3>2, ElementOfSeq, LenProperties
    <3> QED
      BY <3>2, <3>3 DEF Queued
  <2>9. c \in InFlight'
    BY <2>6
  <2>10. gone \subseteq gone' /\ {queue[i] : i \in 1 .. k} \subseteq gone'
    BY <2>2
  <2>11. InFlight' \subseteq Candidates
    BY DEF InFlight
  <2>12. Queued \cup InFlight \cup gone \subseteq Queued' \cup InFlight' \cup gone'
    BY <2>6, <2>7, <2>9, <2>10
  <2> QED
    BY <2>8, <2>11, <2>12 DEF NoCandidateLost
<1>4. CASE HandleResult
  <2> DEFINE r == Head(results)
  <2>1. CASE SplitSucceeded(r)
    <3>1. Take(r) /\ EnqueueCandidate(r.cand)
      BY <2>1 DEF SplitSucceeded
    <3>2. gone \subseteq Candidates
      BY DEF SplitsInv, TypeOK
    <3> QED
      BY <3>1, <3>2, HandledKept DEF EnqueueCandidate
  <2>2. CASE HandleFailure(r)
    <3>1. Take(r) /\ gone' = gone \cup {r.cand} /\ r.cand \in Candidates
      BY <2>2, FailureTaken, ResultTaken DEF SplitFailed
    <3>2. queue' = queue \/ queue' = <<r.cand>> \o queue \/ queue' = Append(queue, r.cand)
      BY <2>2 DEF HandleFailure, StalePolicy, CandidateFailed, BusyTarget, RecheckTarget,
                  LeaveOut, TargetEnds, Requeue
    <3>3. gone \subseteq gone' /\ gone' \subseteq Candidates
      BY <3>1 DEF SplitsInv, TypeOK
    <3> QED
      BY <3>1, <3>2, <3>3, HandledKept
  <2> QED
    BY <1>4, <2>1, <2>2 DEF HandleResult
<1> QED
  BY <1>1, <1>2, <1>3, <1>4 DEF Next, FireLoop, Fire
-----------------------------------------------------------------------------
(***************************************************************************)
(* The limit learned from the target.                                      *)
(***************************************************************************)
LimitInv ==
  /\ WithinTargetLimit
  /\ ProbeIsInFlight
  /\ probing => targetCap # 0

\* The probe of the last growth is in flight, or still to be fired.
Awaited == probing /\ probeSeq # 0

\* A result leaves, and the limit stays: unless it was the probe's, the probe
\* is still in flight.
LEMMA ProbeStays ==
  ASSUME SplitsInv, LimitInv, NEW r, Take(r), splitsInFlight' = splitsInFlight - 1,
         firedAt' = firedAt, UNCHANGED <<targetCap, probing>>,
         probeSeq' = IF IsProbe(r.cand) THEN 0 ELSE probeSeq
  PROVE  LimitInv'
<1>1. targetCap \in Nat /\ splitsInFlight \in Nat /\ probeSeq \in Nat /\ probing \in BOOLEAN
  BY DEF SplitsInv, TypeOK, LimitTypeOK
<1>2. WithinTargetLimit'
  BY <1>1 DEF LimitInv, WithinTargetLimit
<1>3. (probeSeq # 0 => probing)'
  BY <1>1 DEF LimitInv, ProbeIsInFlight
<1>4. ASSUME probing', probeSeq' # 0
      PROVE  \E c \in InFlight' : firedAt'[c] = probeSeq'
  <2>1. probeSeq' = probeSeq /\ probing /\ probeSeq # 0 /\ ~IsProbe(r.cand)
    BY <1>4
  <2>2. PICK d \in InFlight : firedAt[d] = probeSeq
    BY <2>1 DEF LimitInv, ProbeIsInFlight
  <2>3. d # r.cand
    BY <2>1, <2>2 DEF IsProbe
  <2> QED
    BY <2>1, <2>2, <2>3, ResultLeaves
<1> QED
  BY <1>2, <1>3, <1>4 DEF LimitInv, ProbeIsInFlight

\* Steps that do not touch the limit, the splits in flight or their numbers.
LEMMA LimitFrame ==
  ASSUME LimitInv, UNCHANGED <<limitVars, asked, splitsInFlight>>
  PROVE  LimitInv'
<1>1. UNCHANGED <<targetCap, probing, probeSeq, firedAt>> /\ InFlight' = InFlight
  BY DEF limitVars, capVars, probeVars, fireVars, InFlight
<1> QED
  BY <1>1 DEF LimitInv, WithinTargetLimit, ProbeIsInFlight

\* noteFired: the split fired up to a new limit becomes its probe.
LEMMA LimitFire ==
  ASSUME SplitsInv, LimitInv, NEW k \in 0 .. Len(queue) - 1, FireSplit(k)
  PROVE  LimitInv'
<1> DEFINE c == queue[k + 1]
<1>1. /\ targetCap \in Nat /\ splitsInFlight \in Nat /\ probeSeq \in Nat /\ probing \in BOOLEAN
      /\ fireSeq \in Nat /\ firedAt \in [Candidates -> Nat]
  BY DEF SplitsInv, TypeOK, LimitTypeOK
<1>2. c \in Candidates /\ c \notin InFlight
  <2>1. queue \in Seq(Candidates) /\ k + 1 \in DOMAIN queue
    <3>1. PICK n \in Nat : n = Len(queue) /\ DOMAIN queue = 1 .. n
      BY LenProperties DEF SplitsInv, TypeOK
    <3> QED
      BY <3>1 DEF SplitsInv, TypeOK
  <2> QED
    BY <2>1, ElementOfSeq DEF SplitsInv, CandidateInOnePlace, Queued
<1>3. /\ firedAt' = [firedAt EXCEPT ![c] = fireSeq + 1]
      /\ probeSeq' = probeSeq \/ (probing /\ probeSeq = 0 /\ probeSeq' = fireSeq + 1)
      /\ UNCHANGED <<targetCap, probing>>
      /\ splitsInFlight' = splitsInFlight + 1
  BY DEF FireSplit, NoteFired, capVars
<1>4. asked' = [asked EXCEPT ![c] = NextAmount] /\ NextAmount > 0
  <2>1. asked' = [asked EXCEPT ![c] = NextAmount]
    BY DEF FireSplit
  <2>2. AmountRebalanced + InFlightAmount < Amount
    BY DEF FireSplit, MayFire
  <2>3. AmountRebalanced \in Nat /\ InFlightAmount \in Nat /\ SplitAmount > 0
    BY DEF SplitsInv, TypeOK
  <2>4. NextAmount > 0
    BY <2>2, <2>3 DEF NextAmount, Least
  <2> QED
    BY <2>1, <2>4
<1>5. c \in InFlight' /\ \A d \in InFlight : d \in InFlight' /\ d # c /\ firedAt'[d] = firedAt[d]
  <2>1. asked \in [Candidates -> 0 .. SplitAmount]
    BY DEF SplitsInv, TypeOK
  <2>2. asked'[c] > 0 /\ \A d \in Candidates \ {c} : asked'[d] = asked[d] /\ firedAt'[d] = firedAt[d]
    BY <1>1, <1>2, <1>3, <1>4, <2>1
  <2> QED
    BY <1>2, <2>2 DEF InFlight
<1> HIDE DEF c
<1>6. WithinTargetLimit'
  <2>1. targetCap = 0 \/ splitsInFlight < targetCap
    BY DEF FireSplit, MayFire, RoomAtTarget
  <2> QED
    BY <1>1, <1>3, <2>1 DEF LimitInv, WithinTargetLimit
<1>7. (probeSeq # 0 => probing)'
  BY <1>3 DEF LimitInv, ProbeIsInFlight
<1>8. ASSUME probing', probeSeq' # 0
      PROVE  \E d \in InFlight' : firedAt'[d] = probeSeq'
  <2>1. CASE probeSeq' = probeSeq
    <3>1. PICK d \in InFlight : firedAt[d] = probeSeq
      BY <1>3, <1>8, <2>1 DEF LimitInv, ProbeIsInFlight
    <3> QED
      BY <1>5, <2>1, <3>1
  <2>2. CASE probeSeq' = fireSeq + 1
    BY <1>1, <1>2, <1>3, <1>5, <2>2
  <2> QED
    BY <1>3, <2>1, <2>2
<1> QED
  BY <1>3, <1>6, <1>7, <1>8 DEF LimitInv, ProbeIsInFlight

\* targetSucceeded: the limit grows, or its growth is judged, or nothing.
LEMMA LimitSuccess ==
  ASSUME SplitsInv, LimitInv, NEW r, SplitSucceeded(r)
  PROVE  LimitInv'
<1> DEFINE c == r.cand
<1>1. /\ targetCap \in Nat /\ splitsInFlight \in Nat /\ probeSeq \in Nat /\ probing \in BOOLEAN
      /\ firedAt \in [Candidates -> Nat] /\ splitsInFlight <= Splits
  BY DEF SplitsInv, TypeOK, LimitTypeOK, EverySplitReports
<1>2. Take(r) /\ TargetSucceeded(c) /\ splitsInFlight' = splitsInFlight - 1
  BY DEF SplitSucceeded, UpdateAmounts
<1>3. firedAt' = firedAt
  BY <1>2 DEF TargetSucceeded, fireVars
<1>4. CASE targetCap = 0 /\ UNCHANGED <<capVars, probeVars>>
  <2>1. ~probing /\ targetCap' = 0 /\ probing' = probing /\ probeSeq' = probeSeq
    BY <1>4 DEF LimitInv, capVars, probeVars
  <2> QED
    BY <2>1 DEF LimitInv, WithinTargetLimit, ProbeIsInFlight
<1>5. CASE targetCap # 0 /\ LimitGrows(c) /\ SetTargetCap(targetCap + 1)
           /\ probing' = TRUE /\ probeSeq' = 0
  <2>1. targetCap' = targetCap + 1 /\ targetCap < Splits
    BY <1>5 DEF SetTargetCap, LimitGrows
  <2>2. WithinTargetLimit'
    BY <1>1, <1>2, <1>5, <2>1 DEF LimitInv, WithinTargetLimit
  <2> QED
    BY <1>1, <1>5, <2>1, <2>2 DEF LimitInv, ProbeIsInFlight
<1>6. CASE /\ targetCap # 0
           /\ probing' = (probing /\ ~IsProbe(c))
           /\ probeSeq' = IF IsProbe(c) THEN 0 ELSE probeSeq
           /\ UNCHANGED <<targetCap, capSetAt>>
  <2>1. CASE IsProbe(c)
    <3>1. ~probing' /\ probeSeq' = 0 /\ targetCap' = targetCap
      BY <1>6, <2>1
    <3>2. WithinTargetLimit'
      BY <1>1, <1>2, <3>1 DEF LimitInv, WithinTargetLimit
    <3> QED
      BY <3>1, <3>2 DEF LimitInv, ProbeIsInFlight
  <2>2. CASE ~IsProbe(c)
    <3>1. probing' = probing
      BY <1>1, <1>6, <2>2, ZenonT(30)
    <3> QED
      BY <1>2, <1>3, <1>6, <3>1, ProbeStays
  <2> QED
    BY <2>1, <2>2
<1> QED
  BY <1>2, <1>4, <1>5, <1>6 DEF TargetSucceeded

\* judgeCandidate: the limit goes down to the splits the target still holds,
\* or the probe told nothing.
LEMMA LimitFailure ==
  ASSUME SplitsInv, LimitInv, NEW r, HandleFailure(r)
  PROVE  LimitInv'
<1> DEFINE c == r.cand
<1>1. /\ targetCap \in Nat /\ splitsInFlight \in Nat /\ probeSeq \in Nat /\ probing \in BOOLEAN
      /\ splitsInFlight <= Splits
  BY DEF SplitsInv, TypeOK, LimitTypeOK, EverySplitReports
<1>2. Take(r) /\ splitsInFlight' = splitsInFlight - 1
  BY FailureTaken DEF SplitFailed, UpdateAmounts
<1>3. CASE ProbeToldNothing(c)
  <2>1. /\ firedAt' = firedAt /\ UNCHANGED <<targetCap, probing>>
        /\ probeSeq' = IF IsProbe(c) THEN 0 ELSE probeSeq
    BY <1>3 DEF ProbeToldNothing, capVars, fireVars
  <2> QED
    BY <1>2, <2>1, ProbeStays
<1>4. CASE TargetBusy(c, Others) /\ Others > 0
  <2>1. firedAt' = firedAt
    BY <1>4 DEF TargetBusy, fireVars
  <2>2. CASE RoomAtTarget(Others)
    <3>1. targetCap' = Others /\ probing' = FALSE /\ probeSeq' = IF probing THEN 0 ELSE probeSeq
      BY <1>4, <2>2 DEF TargetBusy, SetTargetCap
    <3>2. probeSeq' = 0
      BY <1>1, <3>1 DEF LimitInv, ProbeIsInFlight
    <3>3. targetCap' = splitsInFlight' /\ targetCap' <= Splits
      BY <1>1, <1>2, <3>1 DEF Others
    <3> QED
      BY <1>1, <1>2, <3>1, <3>2, <3>3 DEF LimitInv, WithinTargetLimit, ProbeIsInFlight
  <2>3. CASE ~RoomAtTarget(Others)
    <3>1. /\ UNCHANGED <<targetCap, probing>>
          /\ probeSeq' = IF IsProbe(c) THEN 0 ELSE probeSeq
      BY <1>4, <2>3 DEF TargetBusy, capVars
    <3> QED
      BY <1>2, <2>1, <3>1, ProbeStays
  <2> QED
    BY <2>2, <2>3
<1> QED
  BY <1>3, <1>4 DEF HandleFailure, StalePolicy, CandidateFailed, BusyTarget, RecheckTarget,
                    LeaveOut, TargetEnds

LEMMA StepLimit == SplitsInv /\ LimitInv /\ [Next]_vars => LimitInv'
<1> SUFFICES ASSUME SplitsInv, LimitInv, [Next]_vars PROVE LimitInv'
  OBVIOUS
<1>1. CASE NothingToFire \/ HeldBack \/ OverBudget \/ NoneLeft \/ TimeUp \/ Toggle \/ EndRun
            \/ UNCHANGED vars \/ \E c \in Candidates : FinishSplit(c)
  <2>1. UNCHANGED <<limitVars, asked, splitsInFlight>>
    BY <1>1 DEF NothingToFire, HeldBack, OverBudget, NoneLeft, TimeUp, Toggle, EndRun,
                FinishSplit, vars, splitVars, moneyVars
  <2> QED
    BY <2>1, LimitFrame
<1>2. ASSUME NEW k \in 0 .. Len(queue) - 1, FireSplit(k)
      PROVE  LimitInv'
  BY <1>2, LimitFire
<1>3. CASE HandleResult
  BY <1>3, LimitSuccess, LimitFailure DEF HandleResult
<1> QED
  BY <1>1, <1>2, <1>3 DEF Next, FireLoop, Fire
-----------------------------------------------------------------------------
(***************************************************************************)
(* The contract.  What ParallelRun keeps in counters, RunContract reads    *)
(* off the splits themselves; CountersMatchSplits makes them agree.        *)
(***************************************************************************)
LEMMA SameCardinality == \A S : Contract!Cardinality(S) = Cardinality(S)
BY SMT DEF Contract!Cardinality, Cardinality

LEMMA ContractFees == \A a : Contract!WorstFee(a) = WorstFee(a)
BY SMT DEF Contract!WorstFee, WorstFee

LEMMA ContractSums == \A f, S : Contract!SumOver(f, S) = SumOver(f, S)
<1> TAKE f, S
<1>1. Contract!Tokens(f, S) = Tokens(f, S)
  BY SMT DEF Contract!Tokens, Tokens
<1> QED
  BY <1>1, SameCardinality, SMT DEF Contract!SumOver, SumOver

LEMMA ContractTotals ==
  /\ Contract!Engaged = InFlight
  /\ Contract!AtStake = SumOver(asked, InFlight)
  /\ Contract!WorstCase = SumOver(WorstFees, InFlight)
<1>1. Contract!Engaged = InFlight
  BY SMT DEF Contract!Engaged, InFlight
<1>2. [c \in Candidates |-> Contract!WorstFee(asked[c])] = WorstFees
  BY ContractFees, SMT DEF WorstFees
<1> QED
  BY <1>1, <1>2, ContractSums, SMT DEF Contract!AtStake, Contract!WorstCase

\* The results in the channel deliver what a split may deliver, at what it may
\* cost.
ResultsInv ==
  \A i \in DOMAIN results :
    results[i].status = "success" =>
      /\ results[i].moved \in Delivered(results[i].requested)
      /\ results[i].fee \in 0 .. WorstFee(results[i].moved)

LEMMA StepResults == SplitsInv /\ ResultsInv /\ [Next]_vars => ResultsInv'
<1> SUFFICES ASSUME SplitsInv, ResultsInv, [Next]_vars PROVE ResultsInv'
  OBVIOUS
<1>0. results \in Seq(SplitResults)
  BY DEF SplitsInv, TypeOK
<1>1. CASE results' = results
  BY <1>1 DEF ResultsInv, Delivered, Halves, WorstFee, Least
<1>2. ASSUME NEW c \in Candidates, FinishSplit(c)
      PROVE  ResultsInv'
  <2>1. PICK r \in Successes(c) \cup Failures(c) : results' = Append(results, r)
    BY <1>2 DEF FinishSplit
  <2>2. c \in InFlight
    BY <1>2 DEF FinishSplit, SplitsInv, OneResultEach
  <2>3. r \in SplitResults /\ r.requested = asked[c]
    BY <2>2, SplitReturns DEF SplitsInv
  <2>4. r.status = "success" => r.moved \in Delivered(r.requested) /\ r.fee \in 0 .. WorstFee(r.moved)
    <3>1. CASE r \in Successes(c)
      <4>1. PICK m \in Delivered(asked[c]) :
              r \in [cand : {c}, requested : {asked[c]}, status : {"success"},
                     moved : {m}, fee : 0 .. WorstFee(m)]
        BY <3>1 DEF Successes
      <4>2. r.moved = m /\ r.fee \in 0 .. WorstFee(m)
        BY <4>1
      <4> QED
        BY <2>3, <4>2
    <3>2. CASE r \in Failures(c)
      <4>1. r.status = "failure"
        BY <3>2 DEF Failures
      <4> QED
        BY <4>1
    <3> QED
      BY <3>1, <3>2
  <2>5. PICK n \in Nat : n = Len(results) /\ DOMAIN results = 1 .. n
    BY <1>0, LenProperties
  <2>6. /\ results' \in Seq(SplitResults) /\ Len(results') = n + 1 /\ results'[n + 1] = r
        /\ \A i \in 1 .. n : results'[i] = results[i]
    BY <1>0, <2>1, <2>3, <2>5, AppendProperties
  <2>7. DOMAIN results' = 1 .. n + 1
    BY <2>5, <2>6, LenProperties
  <2> SUFFICES ASSUME NEW i \in DOMAIN results', results'[i].status = "success"
               PROVE  /\ results'[i].moved \in Delivered(results'[i].requested)
                      /\ results'[i].fee \in 0 .. WorstFee(results'[i].moved)
    BY DEF ResultsInv, Delivered, Halves, WorstFee, Least
  <2>8. CASE i = n + 1
    BY <2>4, <2>6, <2>8
  <2>9. CASE i \in 1 .. n
    BY <2>5, <2>6, <2>9 DEF ResultsInv
  <2> QED
    BY <2>5, <2>7, <2>8, <2>9
<1>3. ASSUME NEW r, Take(r)
      PROVE  ResultsInv'
  <2>1. PICK n \in Nat : n = Len(results) /\ DOMAIN results = 1 .. n /\ n >= 1
    BY <1>0, <1>3, LenProperties, EmptySeq DEF Take
  <2>2. /\ results' \in Seq(SplitResults) /\ Len(results') = n - 1
        /\ \A i \in 1 .. n - 1 : results'[i] = results[i + 1]
    BY <1>0, <1>3, <2>1, HeadTailProperties DEF Take
  <2>3. DOMAIN results' = 1 .. n - 1
    BY <2>1, <2>2, LenProperties
  <2>4. \A i \in DOMAIN results' : i + 1 \in DOMAIN results /\ results'[i] = results[i + 1]
    BY <2>1, <2>2, <2>3
  <2> SUFFICES ASSUME NEW i \in DOMAIN results', results'[i].status = "success"
               PROVE  /\ results'[i].moved \in Delivered(results'[i].requested)
                      /\ results'[i].fee \in 0 .. WorstFee(results'[i].moved)
    BY DEF ResultsInv, Delivered, Halves, WorstFee, Least
  <2> QED
    BY <2>4 DEF ResultsInv
<1>4. CASE HandleResult
  BY <1>3, <1>4, FailureTaken DEF HandleResult, SplitSucceeded
<1>5. CASE NothingToFire \/ HeldBack \/ OverBudget \/ NoneLeft \/ TimeUp \/ Toggle \/ EndRun
            \/ UNCHANGED vars \/ \E k \in 0 .. Len(queue) - 1 : FireSplit(k)
  <2>1. results' = results
    BY <1>5 DEF NothingToFire, HeldBack, OverBudget, NoneLeft, TimeUp, Toggle, EndRun,
                FireSplit, vars, splitVars
  <2> QED
    BY <1>1, <2>1
<1> QED
  BY <1>2, <1>4, <1>5 DEF Next, FireLoop, Fire

\* The run is open until a stop is noted.
LEMMA OpenIs == StopFlag \in BOOLEAN /\ (~StopFlag) \in BOOLEAN
BY DEF StopFlag

\* Firing a split asks its candidate for an amount.
LEMMA FireAsks ==
  ASSUME SplitsInv, NEW k \in 0 .. Len(queue) - 1, FireSplit(k)
  PROVE  \E c \in Candidates : \E a \in 1 .. SplitAmount : Contract!Ask(c, a)
<1> DEFINE c == queue[k + 1]
           a == NextAmount
<1>1. /\ AmountRebalanced \in Nat /\ InFlightAmount \in Nat /\ splitsInFlight \in Nat
      /\ feesPaid \in Nat /\ feeReserved \in Nat
  BY DEF SplitsInv, TypeOK
<1>2. c \in Candidates /\ c \notin InFlight
  <2>1. queue \in Seq(Candidates) /\ k + 1 \in DOMAIN queue
    <3>1. PICK n \in Nat : n = Len(queue) /\ DOMAIN queue = 1 .. n
      BY LenProperties DEF SplitsInv, TypeOK
    <3> QED
      BY <3>1 DEF SplitsInv, TypeOK
  <2> QED
    BY <2>1, ElementOfSeq DEF SplitsInv, CandidateInOnePlace, Queued
<1>3. asked[c] = 0
  BY <1>2 DEF InFlight, SplitsInv, TypeOK
<1>4. a \in 1 .. SplitAmount /\ AmountRebalanced + InFlightAmount + a <= Amount
  BY <1>1 DEF FireSplit, MayFire, NextAmount, Least
<1>5. ~StopFlag /\ splitsInFlight < Splits
  BY DEF FireSplit, MayFire, StopFlag
<1>6. MaxFee > 0 => feesPaid + feeReserved + WorstFee(a) <= MaxFee
  BY DEF FireSplit, WithinBudget
<1>7. asked' = [asked EXCEPT ![c] = a] /\ UNCHANGED <<AmountRebalanced, feesPaid>>
  BY DEF FireSplit
<1>8. StopFlag' = StopFlag
  <2>1. UNCHANGED <<targetStopped, streakStopped, timeStopped, feeStopped>>
    BY DEF FireSplit, flagVars
  <2> QED
    BY <2>1 DEF StopFlag
<1>9. /\ splitsInFlight = Cardinality(InFlight)
      /\ InFlightAmount = SumOver(asked, InFlight)
      /\ MaxFee > 0 => feeReserved = SumOver(WorstFees, InFlight)
  BY ReservedIs DEF SplitsInv
<1> HIDE DEF c, a
<1>10. Contract!Cardinality(Contract!Engaged) < Splits
  BY <1>5, <1>9, ContractTotals, SameCardinality, SMT
<1>11. AmountRebalanced + Contract!AtStake + a <= Amount
  BY <1>4, <1>9, ContractTotals, SMT
<1>12. MaxFee > 0 => feesPaid + Contract!WorstCase + Contract!WorstFee(a) <= MaxFee
  BY <1>6, <1>9, ContractTotals, ContractFees, SMT
<1>13. Contract!Ask(c, a)
  BY <1>3, <1>5, <1>7, <1>8, <1>10, <1>11, <1>12, SMT DEF Contract!Ask
<1> QED
  BY <1>2, <1>4, <1>13, Zenon

\* The result of a split settles it.
LEMMA SuccessSettles ==
  ASSUME SplitsInv, ResultsInv, NEW r, SplitSucceeded(r)
  PROVE  \E c \in Candidates : Contract!Settle(c)
<1> DEFINE c == r.cand
<1>1. /\ Take(r) /\ r.status = "success" /\ UpdateAmounts(r, r.moved)
      /\ feesPaid' = feesPaid + r.fee
      /\ UNCHANGED <<targetStopped, streakStopped>>
  BY DEF SplitSucceeded
<1>2. c \in InFlight /\ c \in Candidates
  BY <1>1, ResultLeaves, InFlightFinite
<1>3. r = results[1] /\ 1 \in DOMAIN results
  <2>1. results \in Seq(SplitResults) /\ results # <<>> /\ r = Head(results)
    BY <1>1 DEF SplitsInv, TypeOK, Take
  <2> QED
    BY <2>1, HeadTailProperties, LenProperties, EmptySeq
<1>4. r.requested = asked[c]
  BY <1>3 DEF SplitsInv, EverySplitReports, ResultOK
<1>5. r.moved \in Delivered(asked[c]) /\ r.fee \in 0 .. WorstFee(r.moved)
  BY <1>1, <1>3, <1>4 DEF ResultsInv
<1>6. asked' = [asked EXCEPT ![c] = 0] /\ asked[c] > 0
  BY <1>1, <1>2 DEF Take, InFlight
<1>7. AmountRebalanced' = AmountRebalanced + r.moved
  BY <1>1 DEF UpdateAmounts
<1>8. StopFlag' = StopFlag
  BY <1>1 DEF Take, StopFlag
<1>9. Contract!Delivered(asked[c]) = Delivered(asked[c])
  BY SMT DEF Contract!Delivered, Delivered, Contract!Halves, Halves, Contract!Least, Least
<1> HIDE DEF c
<1>10. \E m \in Contract!Delivered(asked[c]) :
         /\ AmountRebalanced' = AmountRebalanced + m
         /\ \E f \in 0 .. Contract!WorstFee(m) : feesPaid' = feesPaid + f
  <2>1. r.moved \in Contract!Delivered(asked[c])
    BY <1>5, <1>9
  <2>2. r.fee \in 0 .. Contract!WorstFee(r.moved)
    BY <1>5, ContractFees, SMT
  <2> QED
    BY <1>1, <1>7, <2>1, <2>2, Zenon
<1>11. Contract!Settle(c)
  BY <1>6, <1>8, <1>10, SMT DEF Contract!Settle
<1> QED
  BY <1>2, <1>11

LEMMA FailureSettles ==
  ASSUME SplitsInv, NEW r, HandleFailure(r)
  PROVE  \E c \in Candidates : Contract!Settle(c)
<1> DEFINE c == r.cand
<1>1. PICK b \in BOOLEAN : SplitFailed(r, b)
  BY FailureTaken
<1>2. /\ Take(r) /\ AmountRebalanced' = AmountRebalanced + 0 /\ feesPaid' = feesPaid
      /\ streakStopped' = (streakStopped \/ StreakEnds(r))
      /\ targetStopped' = (targetStopped \/ b)
  BY <1>1 DEF SplitFailed, UpdateAmounts
<1>3. AmountRebalanced' = AmountRebalanced
  BY <1>2 DEF SplitsInv, TypeOK
<1>4. c \in InFlight /\ c \in Candidates
  BY <1>2, ResultLeaves, InFlightFinite
<1>5. asked' = [asked EXCEPT ![c] = 0] /\ asked[c] > 0
  BY <1>2, <1>4 DEF Take, InFlight
<1>6. StopFlag => StopFlag'
  BY <1>2, ZenonT(30) DEF Take, StopFlag
<1>7. (~StopFlag)' = ~StopFlag \/ (~StopFlag)' = FALSE
  BY <1>6, OpenIs DEF StopFlag
<1> HIDE DEF c
<1>8. (~StopFlag)' \in {~StopFlag, FALSE}
  BY <1>7
<1>9. Contract!Settle(c)
  BY <1>2, <1>3, <1>5, <1>8, Zenon DEF Contract!Settle
<1> QED
  BY <1>4, <1>9

\* Noting a stop is a step of the contract, the first time.
LEMMA StopStops ==
  ASSUME UNCHANGED <<asked, AmountRebalanced, feesPaid>>, StopFlag => StopFlag'
  PROVE  Contract!Stop \/ UNCHANGED Contract!cvars
<1>1. CASE ~StopFlag /\ StopFlag'
  BY <1>1, SMT DEF Contract!Stop
<1>2. CASE StopFlag' = StopFlag
  BY <1>2, SMT DEF Contract!cvars
<1> QED
  BY <1>1, <1>2, OpenIs DEF StopFlag

LEMMA ContractInit == Init => Contract!Init
BY SMT DEF Init, Contract!Init, StopFlag

LEMMA ContractStep ==
  SplitsInv /\ ResultsInv /\ [Next]_vars => [Contract!Next]_(Contract!cvars)
<1> SUFFICES ASSUME SplitsInv, ResultsInv, [Next]_vars
             PROVE  Contract!Next \/ UNCHANGED Contract!cvars
  OBVIOUS
<1>1. ASSUME NEW k \in 0 .. Len(queue) - 1, FireSplit(k)
      PROVE  Contract!Next
  BY <1>1, FireAsks, Zenon DEF Contract!Next
<1>2. CASE HandleResult
  <2>1. CASE SplitSucceeded(Head(results))
    BY <2>1, SuccessSettles, Zenon DEF Contract!Next
  <2>2. CASE HandleFailure(Head(results))
    BY <2>2, FailureSettles, Zenon DEF Contract!Next
  <2> QED
    BY <1>2, <2>1, <2>2 DEF HandleResult
<1>3. CASE OverBudget \/ TimeUp
  <2>1. UNCHANGED <<asked, AmountRebalanced, feesPaid>>
    BY <1>3 DEF OverBudget, TimeUp, splitVars, moneyVars
  <2>2. StopFlag => StopFlag'
    BY <1>3 DEF OverBudget, TimeUp, StopFlag
  <2>3. Contract!Stop \/ UNCHANGED Contract!cvars
    BY <2>1, <2>2, StopStops
  <2> QED
    BY <2>3, Zenon DEF Contract!Next
<1>4. CASE NothingToFire \/ HeldBack \/ NoneLeft \/ Toggle \/ EndRun \/ UNCHANGED vars
            \/ \E c \in Candidates : FinishSplit(c)
  <2>1. UNCHANGED <<asked, AmountRebalanced, feesPaid, targetStopped, streakStopped,
                    timeStopped, feeStopped>>
    BY <1>4 DEF NothingToFire, HeldBack, NoneLeft, Toggle, EndRun, FinishSplit, vars,
                splitVars, moneyVars, flagVars
  <2> QED
    BY <2>1, SMT DEF Contract!cvars, StopFlag
<1> QED
  BY <1>1, <1>2, <1>3, <1>4 DEF Next, FireLoop, Fire
-----------------------------------------------------------------------------
(***************************************************************************)
(* Theorems.                                                               *)
(***************************************************************************)
OutcomeInv == ReasonsInv /\ EndInv /\ NoCandidateLost /\ LimitInv /\ ResultsInv

LEMMA InitOutcome == Init => OutcomeInv
<1> SUFFICES ASSUME Init PROVE OutcomeInv
  OBVIOUS
<1>1. ReasonsInv
  BY InitReasons
<1>2. EndInv /\ ResultsInv
  <2>1. pc = "call" /\ results = <<>>
    BY DEF Init
  <2> QED
    BY <2>1 DEF EndInv, ResultsInv
<1>3. NoCandidateLost
  <2>1. Queued = Candidates /\ gone = {} /\ InFlight \subseteq Candidates
    BY DEF Init, FindCandidates, Queued, InFlight
  <2> QED
    BY <2>1 DEF NoCandidateLost
<1>4. LimitInv
  BY DEF Init, LimitInit, LimitInv, WithinTargetLimit, ProbeIsInFlight
<1> QED
  BY <1>1, <1>2, <1>3, <1>4 DEF OutcomeInv

\* What holds of a run's outcome holds in every state, beside SplitsInv.
THEOREM OutcomeInvariant == Spec => [](SplitsInv /\ OutcomeInv)
<1>1. Init => SplitsInv /\ OutcomeInv
  BY InitSplits, InitOutcome
<1>2. (SplitsInv /\ OutcomeInv) /\ [Next]_vars => (SplitsInv /\ OutcomeInv)'
  BY StepKeeps, StepReasons, StepEnds, StepCandidates, StepLimit, StepResults DEF OutcomeInv
<1> QED
  BY <1>1, <1>2, PTL DEF Spec

\* The splits in flight are told to end by every stop but the budget's, and by
\* nothing else (waitForRound, judgeCandidate: Halt).
THEOREM HaltedByStops == Spec => []HaltFollowsStop
<1>1. OutcomeInv => HaltFollowsStop
  BY DEF OutcomeInv, ReasonsInv
<1> QED
  BY <1>1, OutcomeInvariant, PTL

\* A run that fell short says why, and the reason is one that happened
\* (noteStop, endRun).
THEOREM ReasonGiven == Spec => []ShortRunSaysWhy
<1>1. SplitsInv /\ OutcomeInv => ShortRunSaysWhy
  BY DEF OutcomeInv, ReasonsInv, Happened, ShortRunSaysWhy
<1> QED
  BY <1>1, OutcomeInvariant, PTL

\* A run that falls short had no candidate left, or a stop, or was held
\* (FireCandidates, waitForRound).
THEOREM EndsWhenDone == Spec => []NoEarlyEnd
<1>1. OutcomeInv => NoEarlyEnd
  BY DEF OutcomeInv, EndInv, NoEarlyEnd
<1> QED
  BY <1>1, OutcomeInvariant, PTL

\* Every candidate is queued, in flight, or left for a reason noted
\* (GetNextCandidate, EnqueueCandidate, requeue).
THEOREM CandidatesKept == Spec => []NoCandidateLost
<1>1. OutcomeInv => NoCandidateLost
  BY DEF OutcomeInv
<1> QED
  BY <1>1, OutcomeInvariant, PTL

\* No more splits are in flight than the limit learned from the target, which
\* stays between 1 and splits (targetBusy, targetSucceeded).
THEOREM LimitKept == Spec => []WithinTargetLimit
<1>1. OutcomeInv => WithinTargetLimit
  BY DEF OutcomeInv, LimitInv
<1> QED
  BY <1>1, OutcomeInvariant, PTL

\* A growth of the limit waits for its probe only while that is in flight
\* (noteFired, isProbe).
THEOREM ProbeAlive == Spec => []ProbeIsInFlight
<1>1. OutcomeInv => ProbeIsInFlight
  BY DEF OutcomeInv, LimitInv
<1> QED
  BY <1>1, OutcomeInvariant, PTL

\* Once the run stopped, no split is fired (FireCandidates).
THEOREM NothingAfterStop == Spec => NothingFiredAfterStop
<1>1. SplitsInv /\ [Next]_vars =>
        [StopFlag => \A c \in Candidates : asked'[c] > 0 => asked[c] > 0]_vars
  <2> SUFFICES ASSUME SplitsInv, [Next]_vars, StopFlag, NEW c \in Candidates, asked'[c] > 0
               PROVE  asked[c] > 0
    OBVIOUS
  <2>1. asked \in [Candidates -> 0 .. SplitAmount]
    BY DEF SplitsInv, TypeOK
  <2>2. CASE asked' = asked
    BY <2>2
  <2>3. ASSUME NEW r, Take(r)
        PROVE  asked[c] > 0
    BY <2>1, <2>3 DEF Take
  <2>4. CASE HandleResult
    BY <2>3, <2>4, FailureTaken DEF HandleResult, SplitSucceeded
  <2>5. ASSUME NEW k \in 0 .. Len(queue) - 1, FireSplit(k)
        PROVE  FALSE
    BY <2>5 DEF FireSplit, MayFire, StopFlag
  <2>6. CASE NothingToFire \/ HeldBack \/ OverBudget \/ NoneLeft \/ TimeUp \/ Toggle \/ EndRun
              \/ UNCHANGED vars \/ \E d \in Candidates : FinishSplit(d)
    <3>1. asked' = asked
      BY <2>6 DEF NothingToFire, HeldBack, OverBudget, NoneLeft, TimeUp, Toggle, EndRun,
                  FinishSplit, vars, splitVars
    <3> QED
      BY <2>2, <3>1
  <2> QED
    BY <2>4, <2>5, <2>6 DEF Next, FireLoop, Fire
<1> QED
  BY <1>1, SplitsInvariant, PTL DEF Spec, NothingFiredAfterStop

\* A parallel run implements its contract: each of its steps asks for a split
\* within the amount and the budget, settles one, stops, or changes nothing the
\* contract speaks of.
THEOREM ContractKept == Spec => RunKeepsContract
<1>1. OutcomeInv => ResultsInv
  BY DEF OutcomeInv
<1> QED
  BY <1>1, OutcomeInvariant, ContractInit, ContractStep, PTL
  DEF Spec, RunKeepsContract, Contract!Spec
-----------------------------------------------------------------------------
(***************************************************************************)
(* The way to the end.  RunEnds rests on two facts that need no fairness.  *)
(* Every step but circular-stop and circular-resume takes the run nearer   *)
(* to its end, in an order with no infinite descent: a result may requeue  *)
(* its candidate and so undo work, but only where the run learns something *)
(* it can learn a bounded number of times.  And a waiting run has a result *)
(* to take or a split to wait for.                                         *)
(***************************************************************************)
FewerIn(S, T) == S \subseteq T /\ S # T

\* The candidates a split may still be fired for, or is.
Around == Queued \cup InFlight

\* The limit from above; it has no value until the target refuses.
CapBound == IF targetCap = 0 THEN Splits + 1 ELSE targetCap

Turns == [call |-> 3, fire |-> 3, wait |-> 2, end |-> 1, done |-> 0][pc]

\* More is moved; else the time limit is reached; else a candidate had its
\* retry, the target its second reading, or the limit goes down.
Learns ==
  \/ AmountRebalanced < AmountRebalanced'
  \/ /\ UNCHANGED AmountRebalanced
     /\ ~timeStopped /\ timeStopped'
  \/ /\ UNCHANGED <<AmountRebalanced, timeStopped>>
     /\ FewerIn(retried, retried')
  \/ /\ UNCHANGED <<AmountRebalanced, timeStopped, retried>>
     /\ ~targetRechecked /\ targetRechecked'
  \/ /\ UNCHANGED <<AmountRebalanced, timeStopped, retried, targetRechecked>>
     /\ CapBound' < CapBound

\* A candidate is out for good; else one leaves the queue; else a split ends;
\* else the run's goroutine goes on.
Works ==
  /\ UNCHANGED <<AmountRebalanced, timeStopped, retried, targetRechecked, targetCap>>
  /\ \/ FewerIn(Around', Around)
     \/ /\ UNCHANGED Around
        /\ FewerIn(Queued', Queued)
     \/ /\ UNCHANGED <<Around, Queued>>
        /\ FewerIn(running', running)
     \/ /\ UNCHANGED <<Around, Queued, running>>
        /\ Turns' < Turns

\* Nothing can hold a run up but the splits it waits for.
NeverStuck ==
  pc = "wait" => results # <<>> \/ (running # {} /\ Len(results) < Splits)

\* What the rank is made of.
LEMMA RankTypes ==
  ASSUME SplitsInv
  PROVE  /\ AmountRebalanced \in Nat /\ splitsInFlight \in Nat /\ targetCap \in Nat
         /\ timeStopped \in BOOLEAN /\ targetRechecked \in BOOLEAN
         /\ queue \in Seq(Candidates) /\ asked \in [Candidates -> 0 .. SplitAmount]
BY DEF SplitsInv, TypeOK, LimitTypeOK

\* Steps that leave what the run learned, its queue and its splits in flight.
LEMMA TurnWorks ==
  ASSUME UNCHANGED <<AmountRebalanced, timeStopped, retried, targetRechecked, targetCap,
                     queue, asked>>,
         \/ FewerIn(running', running)
         \/ running' = running /\ Turns' < Turns
  PROVE  Works
<1>1. Queued' = Queued /\ InFlight' = InFlight
  BY DEF Queued, InFlight
<1>2. Around' = Around
  BY <1>1 DEF Around
<1> QED
  BY <1>1, <1>2 DEF Works

\* Leaving the loop of FireCandidates.
LEMMA LeaveTurns ==
  ASSUME SplitsInv, Firing, LeaveLoop
  PROVE  Turns' < Turns
<1>1. pc' = "wait" \/ pc' = "end"
  BY DEF LeaveLoop
<1>2. Turns = 3
  BY DEF Firing, Turns
<1>3. Turns' = 2 \/ Turns' = 1
  BY <1>1 DEF Turns
<1> QED
  BY <1>2, <1>3

\* GetNextCandidate drops what is left of the queue, or finds it empty.
LEMMA NoneLeftWorks ==
  ASSUME SplitsInv, NoneLeft
  PROVE  Works
<1>1. /\ UNCHANGED <<AmountRebalanced, timeStopped, retried, targetRechecked, targetCap, asked,
                     running>>
      /\ queue' = <<>>
  BY DEF NoneLeft, splitVars, moneyVars, flagVars, judgeVars, limitVars, capVars
<1>2. Queued' = {} /\ InFlight' = InFlight
  BY <1>1 DEF Queued, InFlight
<1>3. CASE queue = <<>>
  <2>1. Turns' < Turns
    BY LeaveTurns DEF NoneLeft
  <2> QED
    BY <1>1, <1>3, <2>1, TurnWorks
<1>4. CASE queue # <<>>
  <2>1. queue[1] \in Queued
    <3>1. 1 \in DOMAIN queue
      BY <1>4, RankTypes, LenProperties, EmptySeq
    <3> QED
      BY <3>1 DEF Queued
  <2>2. queue[1] \notin InFlight
    BY <2>1 DEF SplitsInv, CandidateInOnePlace
  <2>3. FewerIn(Around', Around)
    BY <1>2, <2>1, <2>2 DEF FewerIn, Around
  <2> QED
    BY <1>1, <2>3 DEF Works
<1> QED
  BY <1>3, <1>4

\* A split is fired: its candidate leaves the queue for good or for its time in
\* flight, and those before it for good.
LEMMA FireWorks ==
  ASSUME SplitsInv, NEW k \in 0 .. Len(queue) - 1, FireSplit(k)
  PROVE  Works
<1> DEFINE c == queue[k + 1]
<1>1. /\ UNCHANGED <<AmountRebalanced, timeStopped, retried, targetRechecked>>
      /\ queue' = SubSeq(queue, k + 2, Len(queue)) /\ asked' = [asked EXCEPT ![c] = NextAmount]
      /\ NoteFired(c, splitsInFlight - Len(results))
  BY DEF FireSplit, PopPast, flagVars, judgeVars
<1>2. targetCap' = targetCap
  BY <1>1 DEF NoteFired, capVars
<1>3. NoRepeat(queue)
  BY DEF SplitsInv, CandidateInOnePlace, NoRepeat
<1>4. /\ c \in Candidates /\ c \in Elements(queue)
      /\ Elements(queue') \subseteq Elements(queue) \ {c}
  <2>1. queue \in Seq(Candidates)
    BY RankTypes
  <2> QED
    BY <1>1, <1>3, <2>1, AfterFiring
<1>5. c \in Queued /\ Queued' \subseteq Queued \ {c}
  BY <1>4 DEF Queued, Elements
<1> HIDE DEF c
<1>6. InFlight' \subseteq InFlight \cup {c}
  BY <1>1, <1>4, RankTypes DEF InFlight
<1>7. FewerIn(Queued', Queued)
  BY <1>5 DEF FewerIn
<1>8. Around' \subseteq Around
  BY <1>5, <1>6 DEF Around
<1>9. FewerIn(Around', Around) \/ Around' = Around
  BY <1>8 DEF FewerIn
<1> QED
  BY <1>1, <1>2, <1>7, <1>9 DEF Works

\* A candidate whose failed split is not followed by another is out for good.
LEMMA OutWorks ==
  ASSUME SplitsInv, NEW r, Take(r), queue' = queue,
         UNCHANGED <<AmountRebalanced, timeStopped, retried, targetRechecked, targetCap>>
  PROVE  Works
<1>1. r.cand \in InFlight /\ InFlight' = InFlight \ {r.cand} /\ Queued' = Queued
  BY ResultLeaves DEF Queued
<1>2. r.cand \notin Queued
  BY <1>1 DEF SplitsInv, CandidateInOnePlace
<1>3. FewerIn(Around', Around)
  BY <1>1, <1>2 DEF FewerIn, Around
<1> QED
  BY <1>3 DEF Works

\* A success moves something.
LEMMA SuccessLearns ==
  ASSUME SplitsInv, NEW r, SplitSucceeded(r)
  PROVE  Learns
<1>1. Take(r) /\ r.status = "success" /\ AmountRebalanced' = AmountRebalanced + r.moved
  BY DEF SplitSucceeded, UpdateAmounts
<1>2. r \in SplitResults
  BY <1>1, ResultTaken
<1>3. r.moved \in Nat /\ r.moved >= 1
  BY <1>1, <1>2, ResultFields
<1>4. AmountRebalanced < AmountRebalanced'
  BY <1>1, <1>3, RankTypes
<1> QED
  BY <1>4 DEF Learns

\* judgeCandidate: a candidate is requeued only with its retry used up, the
\* target read again, or the limit lowered.
LEMMA FailureEndsOrLearns ==
  ASSUME SplitsInv, LimitInv, NEW r, HandleFailure(r)
  PROVE  Learns \/ Works
<1>1. /\ Take(r) /\ UNCHANGED <<AmountRebalanced, timeStopped>>
      /\ splitsInFlight - 1 \in Nat
  <2>1. Take(r) /\ AmountRebalanced' = AmountRebalanced + 0
    BY FailureTaken DEF SplitFailed, UpdateAmounts
  <2>2. timeStopped' = timeStopped /\ splitsInFlight - 1 \in Nat
    BY <2>1, ResultTaken DEF Take
  <2> QED
    BY <2>1, <2>2, RankTypes
<1>2. ProbeToldNothing(r.cand) => targetCap' = targetCap
  BY DEF ProbeToldNothing, capVars
<1>3. CASE StalePolicy(r)
  <2>1. r.cand \notin retried /\ retried' = retried \cup {r.cand}
    BY <1>3 DEF StalePolicy
  <2>2. FewerIn(retried, retried')
    BY <2>1 DEF FewerIn
  <2> QED
    BY <1>1, <2>2 DEF Learns
<1>4. CASE CandidateFailed(r)
  <2>1. queue' = queue /\ UNCHANGED <<retried, targetRechecked, targetCap>>
    BY <1>2, <1>4 DEF CandidateFailed, judgeVars
  <2> QED
    BY <1>1, <2>1, OutWorks
<1>5. CASE BusyTarget(r)
  <2>1. TargetBusy(r.cand, Others) /\ UNCHANGED <<retried, targetRechecked>>
    BY <1>5 DEF BusyTarget, judgeVars
  <2>2. splitsInFlight <= Splits /\ (targetCap # 0 => splitsInFlight <= targetCap)
    BY DEF SplitsInv, EverySplitReports, LimitInv, WithinTargetLimit
  <2>3. RoomAtTarget(Others)
    BY <1>1, <2>2, RankTypes DEF RoomAtTarget, Others
  <2>4. targetCap' = Others /\ Others > 0
    BY <1>5, <2>1, <2>3 DEF BusyTarget, TargetBusy, SetTargetCap
  <2>5. CapBound' < CapBound
    BY <1>1, <2>2, <2>4, RankTypes DEF CapBound, Others
  <2> QED
    BY <1>1, <2>1, <2>5 DEF Learns
<1>6. CASE RecheckTarget(r)
  <2>1. ~targetRechecked /\ targetRechecked' /\ retried' = retried
    BY <1>6, RankTypes DEF RecheckTarget, ToRecheck
  <2> QED
    BY <1>1, <2>1 DEF Learns
<1>7. CASE LeaveOut(r)
  <2>1. queue' = queue /\ UNCHANGED <<retried, targetRechecked, targetCap>>
    BY <1>2, <1>7 DEF LeaveOut
  <2> QED
    BY <1>1, <2>1, OutWorks
<1>8. CASE TargetEnds(r)
  <2>1. queue' = queue /\ UNCHANGED <<retried, targetCap>>
    BY <1>2, <1>8 DEF TargetEnds
  <2>2. CASE targetRechecked' = targetRechecked
    BY <1>1, <2>1, <2>2, OutWorks
  <2>3. CASE ToRecheck(r) /\ targetRechecked' = TRUE
    BY <1>1, <2>1, <2>3 DEF Learns, ToRecheck
  <2> QED
    BY <1>8, <2>2, <2>3 DEF TargetEnds
<1> QED
  BY <1>3, <1>4, <1>5, <1>6, <1>7, <1>8 DEF HandleFailure

\* The turns that wait for nothing and judge nothing.
LEMMA OtherTurns ==
  ASSUME SplitsInv,
         \/ NothingToFire \/ HeldBack \/ OverBudget \/ EndRun
         \/ \E c \in Candidates : FinishSplit(c)
  PROVE  Works
<1>1. UNCHANGED <<AmountRebalanced, timeStopped, retried, targetRechecked, targetCap, queue,
                  asked>>
  BY DEF NothingToFire, HeldBack, OverBudget, EndRun, FinishSplit, queueVars, splitVars,
         moneyVars, flagVars, judgeVars, limitVars, capVars
<1>2. CASE NothingToFire \/ HeldBack \/ OverBudget
  <2>1. Firing /\ LeaveLoop /\ running' = running
    BY <1>2 DEF NothingToFire, HeldBack, OverBudget, splitVars
  <2> QED
    BY <1>1, <2>1, LeaveTurns, TurnWorks
<1>3. CASE EndRun
  <2>1. Turns' < Turns /\ running' = running
    BY <1>3 DEF EndRun, Turns, splitVars
  <2> QED
    BY <1>1, <2>1, TurnWorks
<1>4. ASSUME NEW c \in Candidates, FinishSplit(c)
      PROVE  Works
  <2>1. FewerIn(running', running)
    BY <1>4 DEF FinishSplit, FewerIn
  <2> QED
    BY <1>1, <2>1, TurnWorks
<1> QED
  BY <1>2, <1>3, <1>4

LEMMA StepDescends == SplitsInv /\ LimitInv /\ Next => Learns \/ Works \/ Toggle
<1> SUFFICES ASSUME SplitsInv, LimitInv, Next
             PROVE  Learns \/ Works \/ Toggle
  OBVIOUS
<1>1. ASSUME NEW k \in 0 .. Len(queue) - 1, FireSplit(k)
      PROVE  Works
  BY <1>1, FireWorks
<1>2. CASE HandleResult
  BY <1>2, SuccessLearns, FailureEndsOrLearns DEF HandleResult
<1>3. CASE TimeUp
  <2>1. AmountRebalanced' = AmountRebalanced /\ ~timeStopped /\ timeStopped'
    BY <1>3 DEF TimeUp, moneyVars
  <2> QED
    BY <2>1 DEF Learns
<1> QED
  BY <1>1, <1>2, <1>3, NoneLeftWorks, OtherTurns DEF Next, FireLoop, Fire

\* What a waiting run waits for.
LEMMA StepAwaits ==
  SplitsInv /\ (pc = "wait" => splitsInFlight > 0) /\ [Next]_vars
    => (pc = "wait" => splitsInFlight > 0)'
<1> SUFFICES ASSUME SplitsInv, pc = "wait" => splitsInFlight > 0, [Next]_vars, pc' = "wait"
             PROVE  splitsInFlight' > 0
  OBVIOUS
<1>1. CASE NothingToFire \/ HeldBack \/ OverBudget \/ NoneLeft
  BY <1>1 DEF NothingToFire, HeldBack, OverBudget, NoneLeft, LeaveLoop, moneyVars
<1>2. ASSUME NEW k \in 0 .. Len(queue) - 1, FireSplit(k)
      PROVE  FALSE
  BY <1>2 DEF FireSplit, Firing
<1>3. CASE HandleResult
  BY <1>3, FailureTaken DEF HandleResult, SplitSucceeded, Take
<1>4. CASE TimeUp \/ Toggle \/ EndRun \/ UNCHANGED vars \/ \E c \in Candidates : FinishSplit(c)
  BY <1>4 DEF TimeUp, Toggle, EndRun, FinishSplit, vars, moneyVars
<1> QED
  BY <1>1, <1>2, <1>3, <1>4 DEF Next, FireLoop, Fire

\* No run goes on for ever, whatever fails, however often candidates come back
\* and the limit grows: every step but circular-stop and circular-resume takes
\* it down the order above (judgeCandidate, requeue, FireCandidates).
THEOREM RunWindsDown == Spec => [][Learns \/ Works \/ Toggle]_vars
<1>1. SplitsInv /\ OutcomeInv /\ [Next]_vars => [Learns \/ Works \/ Toggle]_vars
  BY StepDescends DEF OutcomeInv
<1> QED
  BY <1>1, OutcomeInvariant, PTL DEF Spec

\* A run that waits has a result to take, or a split whose result there is room
\* for (waitForRound, launch): it does not wait for a result nobody sends.
THEOREM WaitsForSplits == Spec => []NeverStuck
<1>1. Init => (pc = "wait" => splitsInFlight > 0)
  BY DEF Init
<1>2. SplitsInv /\ (pc = "wait" => splitsInFlight > 0) => NeverStuck
  <2> SUFFICES ASSUME SplitsInv, splitsInFlight > 0, results = <<>>
               PROVE  running # {} /\ Len(results) < Splits
    BY DEF NeverStuck
  <2>1. Len(results) = 0
    BY EmptySeq
  <2>2. Cardinality(running) = splitsInFlight
    <3>1. Cardinality(running) \in Nat
      BY FS_Subset, FS_CardinalityType DEF SplitsInv, TypeOK
    <3> QED
      BY <2>1, <3>1 DEF SplitsInv, EverySplitReports
  <2>3. running # {}
    BY <2>2, FS_EmptySet
  <2> QED
    BY <2>1, <2>3
<1> QED
  BY <1>1, <1>2, StepAwaits, SplitsInvariant, PTL DEF Spec
=============================================================================
