------------------------- MODULE RouteSearchProofs -------------------------
(***************************************************************************)
(* The route search, for any graph, policies, amount and request: what it  *)
(* answers is a route of the network that keeps every limit of the         *)
(* rebalance, and the fee and delay its labels carried backwards are those *)
(* the payment will have over its channels.  And, under policies for which *)
(* dropping labels is safe (WellPriced), no route is better: every mark a  *)
(* label left is pending, or led on to expansions no worse.                *)
(***************************************************************************)
EXTENDS RouteSearch, CollectionProofs

USE SearchAssumption
-----------------------------------------------------------------------------
(***************************************************************************)
(* Charges.                                                                *)
(***************************************************************************)
LEMMA PolicyFields ==
  ASSUME policy \in Graphs, NEW c \in AllChannels
  PROVE  /\ policy[c].base \in Nat /\ policy[c].rate \in Nat
         /\ policy[c].inBase \in Int /\ policy[c].inRate \in Int
         /\ policy[c].delay \in Nat
<1>1. policy[c] \in Policies
  OBVIOUS
<1> QED
  BY <1>1 DEF Policies

\* Divisions by a positive number are of integers.
LEMMA Rounded ==
  ASSUME NEW a \in Int, NEW b \in Nat \ {0}
  PROVE  CeilDiv(a, b) \in Int /\ TowardZero(a, b) \in Int
BY DEF CeilDiv, TowardZero

LEMMA SaturatedType ==
  ASSUME NEW a \in Int, NEW b \in Int
  PROVE  AddSaturating(a, b) \in Int
BY DEF AddSaturating

\* A charge is a number.
LEMMA ChargeType ==
  ASSUME policy \in Graphs, NEW c \in AllChannels, NEW next \in AllChannels, NEW a \in Int
  PROVE  Charge(c, next, a) \in Int
<1> DEFINE out == ComputeFee(next, a)
           through == AddSaturating(a, out)
<1>1. out \in Int
  <2>1. a * policy[next].rate \in Int /\ policy[next].base \in Int
    BY PolicyFields
  <2>2. CeilDiv(a * policy[next].rate, Unit) \in Int
    BY <2>1, Rounded
  <2>3. AddSaturating(policy[next].base, CeilDiv(a * policy[next].rate, Unit)) \in Int
    BY <2>1, <2>2, SaturatedType
  <2> QED
    BY <2>3 DEF ComputeFee
<1> HIDE DEF out
<1>2. through \in Int
  BY <1>1, SaturatedType
<1> HIDE DEF through
<1>3. InboundFee(c, through) \in Int
  <2>1. through * policy[c].inRate \in Int /\ policy[c].inBase \in Int
    BY <1>2, PolicyFields
  <2>2. TowardZero(through * policy[c].inRate, Unit) \in Int
    BY <2>1, Rounded
  <2> QED
    BY <2>1, <2>2 DEF InboundFee
<1>4. NodeFee(out, InboundFee(c, through)) \in Int
  <2>1. AddSaturating(out, InboundFee(c, through)) \in Int
    BY <1>1, <1>3, SaturatedType
  <2> QED
    BY <1>1, <1>3, <2>1 DEF NodeFee
<1> QED
  BY <1>4 DEF Charge, out, through

\* The policies do not change, so neither does what a node charges.
LEMMA ChargeStays ==
  ASSUME policy' = policy
  PROVE  \A c, next, a : Charge(c, next, a)' = Charge(c, next, a)
BY DEF Charge, ComputeFee, InboundFee

\* A fee within the one searched with is within the rate asked for.
LEMMA FeeWithinRate ==
  ASSUME req \in Requests, NEW fee \in Int, fee <= MaxFee
  PROVE  FeePPM(fee) <= req.maxPPM
<1> DEFINE k == (req.maxPPM + 1) * Amount
<1>1. req.maxPPM \in Nat /\ k \in Int
  OBVIOUS
<1> HIDE DEF k
<1>2. fee <= (k - 1) \div Unit
  BY DEF MaxFee, MaxFeeForPPM, k
<1>3. fee * Unit <= k - 1
  <2> DEFINE q == (k - 1) \div Unit
  <2>1. q \in Int /\ q * Unit <= k - 1
    BY <1>1
  <2> HIDE DEF q
  <2>2. fee <= q
    BY <1>2 DEF q
  <2>3. fee * Unit <= q * Unit
    BY <2>1, <2>2
  <2> QED
    BY <1>1, <2>1, <2>3
<1>4. fee * Unit < k /\ fee * Unit \in Int
  BY <1>1, <1>3
<1>5. (fee * Unit) \div Amount < req.maxPPM + 1
  <2> DEFINE s == fee * Unit
             d == s \div Amount
  <2> HIDE DEF s
  <2>1. s \in Int /\ s < k
    BY <1>4 DEF s
  <2>2. d \in Int /\ d * Amount <= s
    BY <2>1
  <2> HIDE DEF d
  <2>3. d * Amount < (req.maxPPM + 1) * Amount
    BY <1>1, <2>1, <2>2 DEF k
  <2>4. d < req.maxPPM + 1
    BY <1>1, <2>2, <2>3
  <2> QED
    BY <2>4 DEF d, s
<1>6. (fee * Unit) \div Amount \in Int
  BY <1>4
<1> QED
  BY <1>1, <1>5, <1>6 DEF FeePPM
-----------------------------------------------------------------------------
(***************************************************************************)
(* What the hops of a path carry, and how long they are held.              *)
(***************************************************************************)
\* f is what each hop carries: the equation of Amounts.
Carries(p, f) ==
  f = [i \in 1 .. Len(p) |->
         IF i = Len(p) THEN Amount
         ELSE AddSaturating(f[i + 1], Charge(p[i], p[i + 1], f[i + 1]))]

\* d is the delay of each: the equation of PathDelay.
Holds(p, d) ==
  d = [i \in 1 .. Len(p) |->
         IF i = Len(p) THEN InitialDelay ELSE d[i + 1] + policy[p[i + 1]].delay]

LEMMA CarriesOne ==
  ASSUME NEW p, Len(p) \in Nat \ {0}, NEW f, NEW g, Carries(p, f), Carries(p, g)
  PROVE  f = g
<1> DEFINE n == Len(p)
           S == {j \in Nat : j < n => f[n - j] = g[n - j]}
<1>1. \A i \in 1 .. n :
        /\ f[i] = IF i = n THEN Amount ELSE AddSaturating(f[i + 1], Charge(p[i], p[i + 1], f[i + 1]))
        /\ g[i] = IF i = n THEN Amount ELSE AddSaturating(g[i + 1], Charge(p[i], p[i + 1], g[i + 1]))
  BY DEF Carries
<1>2. 0 \in S
  BY <1>1
<1>3. ASSUME NEW j \in Nat, j \in S
      PROVE  j + 1 \in S
  <2> SUFFICES ASSUME j + 1 < n
               PROVE  f[n - (j + 1)] = g[n - (j + 1)]
    OBVIOUS
  <2>1. f[n - j] = g[n - j]
    BY <1>3
  <2>2. n - (j + 1) \in 1 .. n /\ n - (j + 1) # n /\ (n - (j + 1)) + 1 = n - j
    OBVIOUS
  <2> HIDE DEF n
  <2> QED
    BY <1>1, <2>1, <2>2
<1> HIDE DEF S
<1>4. \A j \in Nat : j \in S
  BY <1>2, <1>3, Induction
<1>5. \A i \in 1 .. n : f[i] = g[i]
  <2> TAKE i \in 1 .. n
  <2>1. n - i \in Nat /\ n - i < n /\ n - (n - i) = i
    OBVIOUS
  <2> QED
    BY <1>4, <2>1 DEF S
<1>6. f = [i \in 1 .. n |-> f[i]] /\ g = [i \in 1 .. n |-> g[i]]
  BY DEF Carries
<1> QED
  BY <1>5, <1>6

LEMMA AmountsAre ==
  ASSUME NEW p, Len(p) \in Nat \ {0}, NEW f, Carries(p, f)
  PROVE  Amounts(p) = f
<1> DEFINE E(h) == [i \in 1 .. Len(p) |->
                      IF i = Len(p) THEN Amount
                      ELSE AddSaturating(h[i + 1], Charge(p[i], p[i + 1], h[i + 1]))]
<1>1. f = E(f)
  BY DEF Carries
<1>2. Amounts(p) = CHOOSE h : h = E(h)
  BY DEF Amounts
<1> HIDE DEF E
<1>3. Amounts(p) = E(Amounts(p))
  BY <1>1, <1>2
<1>4. Carries(p, Amounts(p))
  BY <1>3 DEF Carries, E
<1> QED
  BY <1>4, CarriesOne

LEMMA HoldsOne ==
  ASSUME NEW p, Len(p) \in Nat \ {0}, NEW f, NEW g, Holds(p, f), Holds(p, g)
  PROVE  f[1] = g[1]
<1> DEFINE n == Len(p)
           S == {j \in Nat : j < n => f[n - j] = g[n - j]}
<1>1. \A i \in 1 .. n :
        /\ f[i] = IF i = n THEN InitialDelay ELSE f[i + 1] + policy[p[i + 1]].delay
        /\ g[i] = IF i = n THEN InitialDelay ELSE g[i + 1] + policy[p[i + 1]].delay
  BY DEF Holds
<1>2. 0 \in S
  BY <1>1
<1>3. ASSUME NEW j \in Nat, j \in S
      PROVE  j + 1 \in S
  <2> SUFFICES ASSUME j + 1 < n
               PROVE  f[n - (j + 1)] = g[n - (j + 1)]
    OBVIOUS
  <2>1. f[n - j] = g[n - j]
    BY <1>3
  <2>2. n - (j + 1) \in 1 .. n /\ n - (j + 1) # n /\ (n - (j + 1)) + 1 = n - j
    OBVIOUS
  <2> HIDE DEF n
  <2> QED
    BY <1>1, <2>1, <2>2
<1> HIDE DEF S
<1>4. n - 1 \in S
  BY <1>2, <1>3, Induction
<1>5. n - 1 < n /\ n - (n - 1) = 1
  OBVIOUS
<1> QED
  BY <1>4, <1>5 DEF S

LEMMA DelayIs ==
  ASSUME NEW p, Len(p) \in Nat \ {0}, NEW d, Holds(p, d)
  PROVE  PathDelay(p) = d[1]
<1> DEFINE E(h) == [i \in 1 .. Len(p) |->
                      IF i = Len(p) THEN InitialDelay ELSE h[i + 1] + policy[p[i + 1]].delay]
           g == CHOOSE h : h = E(h)
<1>1. d = E(d)
  BY DEF Holds
<1>2. PathDelay(p) = g[1]
  BY DEF PathDelay
<1> HIDE DEF E
<1>3. g = E(g)
  BY <1>1
<1>4. Holds(p, g)
  <2> HIDE DEF g
  <2> QED
    BY <1>3 DEF Holds, E
<1> HIDE DEF g
<1> QED
  BY <1>2, <1>4, HoldsOne
-----------------------------------------------------------------------------
(***************************************************************************)
(* Labels.                                                                 *)
(***************************************************************************)
\* The first channel of a label between the peers.
Inner(l) == IF l.final THEN 2 ELSE 1

\* A label's channels lead to us, through no node they may not pass.
OnTheWay(l) ==
  /\ l.final \in BOOLEAN
  /\ l.path \in Seq(AllChannels) /\ Len(l.path) >= Inner(l)
  /\ l.path[Len(l.path)] = In
  /\ l.final => l.path[1] = Out
  /\ \A i \in 1 .. Len(l.path) - 1 : To[l.path[i]] = From[l.path[i + 1]]
  /\ \A i \in Inner(l) .. Len(l.path) - 1 :
       /\ l.path[i] \in Channels /\ l.path[i] \notin req.exclude
       /\ From[l.path[i]] \notin req.exclude \cup {Self, InPeer}
       /\ i > Inner(l) => From[l.path[i]] # OutPeer

\* The fee it carries is what its channels' nodes charge for what they forward.
Priced(l) ==
  /\ l.fee \in Int
  /\ \E f : /\ Carries(l.path, f) /\ f[1] = Amount + l.fee
            /\ \A i \in Inner(l) .. Len(l.path) - 1 : CanForward(l.path[i], f[i])

Timed(l) ==
  /\ l.delay \in Int
  /\ \E d : Holds(l.path, d) /\ d[1] = l.delay

\* A complete one keeps the limits.
Within(l) ==
  l.final => l.fee <= MaxFee /\ Amount + l.fee < Huge /\ l.delay <= MaxDelay

Sound(l) == OnTheWay(l) /\ Priced(l) /\ Timed(l) /\ Within(l)

\* A label stays what it is.
LEMMA SoundStays ==
  ASSUME policy' = policy, req' = req, NEW l, Sound(l)
  PROVE  Sound(l)'
<1>1. \A c, next, a : Charge(c, next, a)' = Charge(c, next, a)
  BY ChargeStays
<1>2. OnTheWay(l)'
  BY DEF Sound, OnTheWay, Inner
<1>3. Priced(l)'
  <2>1. PICK f : /\ Carries(l.path, f) /\ f[1] = Amount + l.fee
                 /\ \A i \in Inner(l) .. Len(l.path) - 1 : CanForward(l.path[i], f[i])
    BY DEF Sound, Priced
  <2>2. Carries(l.path, f)'
    BY <1>1, <2>1 DEF Carries
  <2>3. \A i \in Inner(l) .. Len(l.path) - 1 : CanForward(l.path[i], f[i])'
    BY <2>1 DEF CanForward
  <2> QED
    BY <2>1, <2>2, <2>3 DEF Sound, Priced, Inner
<1>4. Timed(l)'
  BY DEF Sound, Timed, Holds
<1>5. Within(l)'
  BY DEF Sound, Within, MaxFee, MaxFeeForPPM
<1> QED
  BY <1>2, <1>3, <1>4, <1>5 DEF Sound

LEMMA Prepend ==
  ASSUME NEW S, NEW c \in S, NEW p \in Seq(S)
  PROVE  /\ <<c>> \o p \in Seq(S) /\ Len(<<c>> \o p) = Len(p) + 1
         /\ (<<c>> \o p)[1] = c
         /\ \A i \in 2 .. Len(p) + 1 : (<<c>> \o p)[i] = p[i - 1]
<1>1. <<c>> \in Seq(S) /\ Len(<<c>>) = 1 /\ <<c>>[1] = c
  OBVIOUS
<1>2. Len(p) \in Nat
  BY LenProperties
<1> QED
  BY <1>1, <1>2, ConcatProperties

LEMMA LabelType ==
  ASSUME NEW l, Sound(l)
  PROVE  /\ Len(l.path) \in Nat \ {0} /\ Channel(l) = l.path[1]
         /\ Channel(l) \in AllChannels
         /\ \A i \in 1 .. Len(l.path) : l.path[i] \in AllChannels
<1>1. l.path \in Seq(AllChannels) /\ Len(l.path) >= 1 /\ Len(l.path) \in Nat
  BY LenProperties DEF Sound, OnTheWay, Inner
<1>2. l.path # <<>>
  BY <1>1, EmptySeq
<1>3. \A i \in 1 .. Len(l.path) : l.path[i] \in AllChannels
  BY <1>1, ElementOfSeq
<1> QED
  BY <1>1, <1>2, <1>3 DEF Channel

\* Our channel in alone.
LEMMA StartSound ==
  ASSUME req \in Requests
  PROVE  Sound(Start) /\ ~Start.final
<1>1. /\ Start.path = <<In>> /\ Start.fee = 0 /\ Start.delay = InitialDelay
      /\ Start.final = FALSE
  BY DEF Start, NoRoute
<1>2. <<In>> \in Seq(AllChannels) /\ Len(<<In>>) = 1 /\ <<In>>[1] = In
  BY DEF AllChannels
<1>3. OnTheWay(Start)
  <2>1. /\ Start.path \in Seq(AllChannels) /\ Len(Start.path) = 1 /\ Start.path[1] = In
        /\ Inner(Start) = 1
    BY <1>1, <1>2 DEF Inner
  <2>2. \A i \in 1 .. Len(Start.path) - 1 : FALSE
    BY <2>1
  <2>3. ~Start.final /\ Start.final \in BOOLEAN
    BY <1>1
  <2>4. Len(Start.path) >= Inner(Start) /\ Start.path[Len(Start.path)] = In
    BY <2>1
  <2>5. \A i \in Inner(Start) .. Len(Start.path) - 1 : FALSE
    BY <2>1
  <2> QED
    BY <2>1, <2>2, <2>3, <2>4, <2>5, Zenon DEF OnTheWay
<1>4. Priced(Start)
  <2>1. Carries(Start.path, [i \in 1 .. 1 |-> Amount])
    BY <1>1, <1>2 DEF Carries
  <2> QED
    BY <1>1, <1>2, <2>1 DEF Priced, Inner
<1>5. Timed(Start)
  <2>1. Holds(Start.path, [i \in 1 .. 1 |-> InitialDelay])
    BY <1>1, <1>2 DEF Holds
  <2> QED
    BY <1>1, <1>2, <2>1 DEF Timed
<1> QED
  BY <1>1, <1>3, <1>4, <1>5 DEF Sound, Within

\* A channel put before a label: the charge of the node between them is added
\* to the fee, and its delta to the delay.
LEMMA ExtensionPriced ==
  ASSUME policy \in Graphs, NEW l, Sound(l), ~l.final, NEW c \in AllChannels,
         NEW uncertainty, NEW final \in BOOLEAN,
         Affordable(Extended(c, l, uncertainty, final)),
         ~final => CanForward(c, AddSaturating(Carried(l), Fee(c, l)))
  PROVE  Priced(Extended(c, l, uncertainty, final))
<1> DEFINE e == Extended(c, l, uncertainty, final)
           n == Len(l.path)
<1>1. /\ e.path = <<c>> \o l.path /\ e.fee = AddSaturating(l.fee, Fee(c, l))
      /\ e.final = final
  BY DEF Extended
<1>2. e.fee <= MaxFee /\ e.fee < Huge /\ Amount + e.fee < Huge
  BY DEF Affordable, Carried
<1>3. /\ n \in Nat \ {0} /\ Channel(l) = l.path[1] /\ Channel(l) \in AllChannels
      /\ l.path \in Seq(AllChannels)
  BY LabelType DEF Sound, OnTheWay
<1>4. /\ e.path \in Seq(AllChannels) /\ Len(e.path) = n + 1 /\ e.path[1] = c
      /\ \A i \in 2 .. n + 1 : e.path[i] = l.path[i - 1]
  BY <1>1, <1>3, Prepend
<1>5. PICK f : /\ Carries(l.path, f) /\ f[1] = Amount + l.fee
               /\ \A i \in 1 .. n - 1 : CanForward(l.path[i], f[i])
  BY DEF Sound, Priced, Inner
<1>6. l.fee \in Int /\ Carried(l) = f[1] /\ f[1] \in Int
  BY <1>5 DEF Sound, Priced, Carried
<1>7. Fee(c, l) = Charge(c, l.path[1], f[1]) /\ Fee(c, l) \in Int
  BY <1>3, <1>6, ChargeType DEF Fee
<1>8. e.fee = l.fee + Fee(c, l) /\ e.fee \in Int
  BY <1>1, <1>2, <1>6, <1>7 DEF AddSaturating
<1> DEFINE g == [i \in 1 .. n + 1 |->
                   IF i = 1 THEN AddSaturating(f[1], Fee(c, l)) ELSE f[i - 1]]
<1>9. g[1] = Amount + e.fee
  BY <1>2, <1>3, <1>5, <1>6, <1>7, <1>8, SMTT(30) DEF AddSaturating
<1> HIDE DEF e, n
<1>10. \A i \in 1 .. n :
         f[i] = IF i = n THEN Amount
                ELSE AddSaturating(f[i + 1], Charge(l.path[i], l.path[i + 1], f[i + 1]))
  BY <1>5 DEF Carries, n
<1>11. ASSUME NEW i \in 1 .. n + 1
       PROVE  g[i] = IF i = n + 1 THEN Amount
                     ELSE AddSaturating(g[i + 1], Charge(e.path[i], e.path[i + 1], g[i + 1]))
  <2>1. CASE i = 1
    <3>1. g[1] = AddSaturating(f[1], Charge(c, l.path[1], f[1]))
      BY <1>3, <1>7
    <3>2. g[2] = f[1] /\ e.path[1] = c /\ e.path[2] = l.path[1] /\ i # n + 1
      BY <1>3, <1>4, <2>1
    <3> HIDE DEF g
    <3> QED
      BY <2>1, <3>1, <3>2
  <2>2. CASE i # 1
    <3> DEFINE j == i - 1
    <3>1. j \in 1 .. n /\ i = j + 1 /\ g[i] = f[j]
      BY <1>3, <2>2
    <3>2. CASE j = n
      BY <1>10, <3>1, <3>2
    <3>3. CASE j # n
      <4>1. /\ i + 1 \in 2 .. n + 1 /\ i \in 2 .. n + 1 /\ (i + 1) - 1 = j + 1
            /\ i + 1 # 1 /\ i # n + 1
        BY <1>3, <3>1, <3>3
      <4>2. g[i + 1] = f[j + 1] /\ e.path[i] = l.path[j] /\ e.path[i + 1] = l.path[j + 1]
        BY <1>4, <3>1, <4>1
      <4> HIDE DEF g, j
      <4> QED
        BY <1>10, <3>1, <3>3, <4>1, <4>2
    <3> QED
      BY <3>2, <3>3
  <2> QED
    BY <2>1, <2>2
<1>12. Carries(e.path, g)
  <2>1. g = [i \in 1 .. n + 1 |-> g[i]]
    OBVIOUS
  <2> HIDE DEF g
  <2> QED
    BY <1>4, <1>11, <2>1 DEF Carries
<1>13. \A i \in Inner(e) .. n : CanForward(e.path[i], g[i])
  <2> SUFFICES ASSUME NEW i \in Inner(e) .. n
               PROVE  CanForward(e.path[i], g[i])
    OBVIOUS
  <2>1. CASE i = 1
    <3>1. ~final
      BY <1>1, <2>1 DEF Inner
    <3>2. e.path[i] = c /\ g[i] = AddSaturating(Carried(l), Fee(c, l))
      BY <1>3, <1>4, <1>6, <2>1
    <3> QED
      BY <3>1, <3>2
  <2>2. CASE i # 1
    <3>1. i - 1 \in 1 .. n - 1 /\ i \in 2 .. n + 1
      BY <1>3, <2>2 DEF Inner
    <3>2. e.path[i] = l.path[i - 1] /\ g[i] = f[i - 1]
      BY <1>4, <2>2, <3>1
    <3> QED
      BY <1>5, <3>1, <3>2 DEF n
  <2> QED
    BY <2>1, <2>2
<1> HIDE DEF g
<1>14. Priced(e)
  <2>1. Len(e.path) - 1 = n
    BY <1>3, <1>4
  <2> QED
    BY <1>8, <1>9, <1>12, <1>13, <2>1 DEF Priced
<1> QED
  BY <1>14 DEF e

LEMMA ExtensionTimed ==
  ASSUME policy \in Graphs, NEW l, Sound(l), NEW c \in AllChannels,
         NEW uncertainty, NEW final \in BOOLEAN
  PROVE  Timed(Extended(c, l, uncertainty, final))
<1> DEFINE e == Extended(c, l, uncertainty, final)
           n == Len(l.path)
<1>1. e.path = <<c>> \o l.path /\ e.delay = l.delay + policy[l.path[1]].delay
  BY LabelType DEF Extended, DelayAt
<1>2. n \in Nat \ {0} /\ l.path \in Seq(AllChannels) /\ l.path[1] \in AllChannels
  BY LabelType DEF Sound, OnTheWay
<1>3. /\ Len(e.path) = n + 1
      /\ \A i \in 2 .. n + 1 : e.path[i] = l.path[i - 1]
  BY <1>1, <1>2, Prepend
<1>4. PICK d : Holds(l.path, d) /\ d[1] = l.delay
  BY DEF Sound, Timed
<1>5. e.delay \in Int
  <2>1. l.delay \in Int /\ policy[l.path[1]].delay \in Nat
    BY <1>2, PolicyFields DEF Sound, Timed
  <2> QED
    BY <1>1, <2>1
<1> DEFINE g == [i \in 1 .. n + 1 |-> IF i = 1 THEN e.delay ELSE d[i - 1]]
<1>6. \A i \in 1 .. n :
        d[i] = IF i = n THEN InitialDelay ELSE d[i + 1] + policy[l.path[i + 1]].delay
  BY <1>4 DEF Holds
<1> HIDE DEF e, n
<1>7. ASSUME NEW i \in 1 .. n + 1
      PROVE  g[i] = IF i = n + 1 THEN InitialDelay ELSE g[i + 1] + policy[e.path[i + 1]].delay
  <2>1. CASE i = 1
    <3>1. g[1] = d[1] + policy[l.path[1]].delay /\ g[2] = d[1]
          /\ e.path[2] = l.path[1] /\ i # n + 1
      BY <1>1, <1>2, <1>3, <1>4, <2>1
    <3> HIDE DEF g
    <3> QED
      BY <2>1, <3>1
  <2>2. CASE i # 1
    <3> DEFINE j == i - 1
    <3>1. j \in 1 .. n /\ i = j + 1 /\ g[i] = d[j]
      BY <1>2, <2>2
    <3>2. CASE j = n
      BY <1>6, <3>1, <3>2
    <3>3. CASE j # n
      <4>1. /\ i + 1 \in 2 .. n + 1 /\ i \in 2 .. n + 1 /\ (i + 1) - 1 = j + 1
            /\ i + 1 # 1 /\ i # n + 1
        <5> HIDE DEF j, g
        <5> QED
          BY <1>2, <3>1, <3>3, SMTT(30)
      <4>2. g[i + 1] = d[j + 1] /\ e.path[i + 1] = l.path[j + 1]
        BY <1>3, <3>1, <4>1
      <4> HIDE DEF g, j
      <4> QED
        BY <1>6, <3>1, <3>3, <4>1, <4>2
    <3> QED
      BY <3>2, <3>3
  <2> QED
    BY <2>1, <2>2
<1>8. Holds(e.path, g)
  <2>1. g = [i \in 1 .. n + 1 |-> g[i]]
    OBVIOUS
  <2> HIDE DEF g
  <2> QED
    BY <1>3, <1>7, <2>1 DEF Holds
<1>9. g[1] = e.delay
  BY <1>2
<1> HIDE DEF g
<1>10. Timed(e)
  BY <1>5, <1>8, <1>9 DEF Timed
<1> QED
  BY <1>10 DEF e

\* A channel that leads to a label's node leads to us: ours, from the out-peer
\* only, or one between the peers, from a node that may be passed.
LEMMA ExtensionOnTheWay ==
  ASSUME NEW l, Sound(l), ~l.final, NEW c \in AllChannels, To[c] = From[Channel(l)],
         NEW uncertainty, NEW final \in BOOLEAN,
         final => c = Out,
         ~final => /\ c \in Channels /\ c \notin req.exclude
                   /\ From[c] \notin req.exclude \cup {Self, InPeer}
                   /\ From[Channel(l)] # OutPeer
  PROVE  OnTheWay(Extended(c, l, uncertainty, final))
<1> DEFINE e == Extended(c, l, uncertainty, final)
           n == Len(l.path)
<1>1. e.path = <<c>> \o l.path /\ e.final = final
  BY DEF Extended
<1>2. n \in Nat \ {0} /\ l.path \in Seq(AllChannels) /\ Channel(l) = l.path[1]
  BY LabelType DEF Sound, OnTheWay
<1>3. /\ e.path \in Seq(AllChannels) /\ Len(e.path) = n + 1 /\ e.path[1] = c
      /\ \A i \in 2 .. n + 1 : e.path[i] = l.path[i - 1]
  BY <1>1, <1>2, Prepend
<1>4. /\ l.path[n] = In
      /\ \A i \in 1 .. n - 1 :
           /\ To[l.path[i]] = From[l.path[i + 1]]
           /\ l.path[i] \in Channels /\ l.path[i] \notin req.exclude
           /\ From[l.path[i]] \notin req.exclude \cup {Self, InPeer}
           /\ i > 1 => From[l.path[i]] # OutPeer
  BY DEF Sound, OnTheWay, Inner
<1> HIDE DEF e, n
<1>5. Inner(e) = IF final THEN 2 ELSE 1
  BY <1>1 DEF Inner
<1>6. e.path[n + 1] = In /\ n + 1 >= Inner(e)
  BY <1>2, <1>3, <1>4, <1>5
<1>7. ASSUME NEW i \in 1 .. n
      PROVE  To[e.path[i]] = From[e.path[i + 1]]
  <2>1. CASE i = 1
    BY <1>2, <1>3, <2>1
  <2>2. CASE i # 1
    <3>1. /\ i \in 2 .. n + 1 /\ i + 1 \in 2 .. n + 1 /\ i - 1 \in 1 .. n - 1
          /\ (i + 1) - 1 = (i - 1) + 1
      BY <1>2, <2>2
    <3>2. e.path[i] = l.path[i - 1] /\ e.path[i + 1] = l.path[(i - 1) + 1]
      BY <1>3, <3>1
    <3> QED
      BY <1>4, <3>1, <3>2
  <2> QED
    BY <2>1, <2>2
<1>8. ASSUME NEW i \in Inner(e) .. n
      PROVE  /\ e.path[i] \in Channels /\ e.path[i] \notin req.exclude
             /\ From[e.path[i]] \notin req.exclude \cup {Self, InPeer}
             /\ i > Inner(e) => From[e.path[i]] # OutPeer
  <2>1. CASE i = 1
    BY <1>3, <1>5, <2>1
  <2>2. CASE i # 1
    <3>1. i \in 2 .. n + 1 /\ i - 1 \in 1 .. n - 1
      BY <1>2, <1>5, <2>2
    <3>2. e.path[i] = l.path[i - 1]
      BY <1>3, <3>1
    <3>3. i > Inner(e) /\ i - 1 = 1 => ~final
      BY <1>5, <3>1
    <3>4. i > Inner(e) /\ i - 1 # 1 => i - 1 > 1
      BY <3>1
    <3> QED
      BY <1>2, <1>4, <3>1, <3>2, <3>3, <3>4
  <2> QED
    BY <2>1, <2>2
<1>9. OnTheWay(e)
  <2>1. Len(e.path) - 1 = n
    BY <1>2, <1>3
  <2> QED
    BY <1>1, <1>3, <1>6, <1>7, <1>8, <2>1 DEF OnTheWay
<1> QED
  BY <1>9 DEF e
-----------------------------------------------------------------------------
(***************************************************************************)
(* The search.                                                             *)
(***************************************************************************)
\* Every label in the heap is sound, and so is what was answered.
SearchInv ==
  /\ policy \in Graphs /\ req \in Requests
  /\ limit \in Nat /\ limit <= req.maxHops
  /\ \A l \in labels : Sound(l) /\ (l.final => Hops(l) <= limit)
  /\ answer # NoRoute => Sound(answer) /\ answer.final /\ Hops(answer) <= req.maxHops

LEMMA SearchInvInit == Init => SearchInv
<1> SUFFICES ASSUME Init PROVE SearchInv
  OBVIOUS
<1>1. /\ policy \in Graphs /\ req \in Requests /\ answer = NoRoute
      /\ labels \subseteq {Start}
      /\ limit = req.maxHops \/ limit = 1
  BY DEF Init
<1>2. req.maxHops \in Nat /\ req.maxHops >= 1
  BY <1>1
<1>3. \A l \in labels : Sound(l) /\ ~l.final
  BY <1>1, StartSound
<1> QED
  BY <1>1, <1>2, <1>3 DEF SearchInv

\* The out-peer forwards from our channel out: the route is complete.
LEMMA CompleteSound ==
  ASSUME SearchInv, NEW l \in labels, Complete(l), NEW e \in labels'
  PROVE  Sound(e) /\ (e.final => Hops(e) <= limit)
<1> DEFINE x == Extended(Out, l, 0, TRUE)
<1>1. CASE e \in labels
  BY <1>1 DEF SearchInv
<1>2. CASE e \notin labels
  <2>1. e = x /\ Hops(x) <= limit /\ Affordable(x) /\ x.delay <= MaxDelay
    BY <1>2 DEF Complete
  <2>2. /\ policy \in Graphs /\ Sound(l) /\ ~l.final /\ Out \in AllChannels
        /\ To[Out] = From[Channel(l)]
    BY DEF Complete, SearchInv, AllChannels, OutPeer
  <2>3. Priced(x) /\ Timed(x) /\ OnTheWay(x)
    BY <2>1, <2>2, ExtensionPriced, ExtensionTimed, ExtensionOnTheWay
  <2>4. Within(x)
    BY <2>1 DEF Within, Affordable, Carried
  <2> QED
    BY <2>1, <2>3, <2>4 DEF Sound
<1> QED
  BY <1>1, <1>2

\* The channels into the node of a label: sound, and not complete.
LEMMA ExpandSound ==
  ASSUME SearchInv, NEW l \in labels, Expand(l), NEW e \in labels'
  PROVE  Sound(e) /\ (e.final => Hops(e) <= limit)
<1>1. CASE e \in labels
  BY <1>1 DEF SearchInv
<1>2. CASE e \notin labels
  <2>1. e \in Extensions(l) /\ ~l.final /\ From[Channel(l)] # OutPeer
    BY <1>2 DEF Expand
  <2>2. PICK c \in Channels :
             /\ To[c] = From[Channel(l)] /\ c \notin req.exclude
             /\ From[c] \notin req.exclude \cup {Self, InPeer}
             /\ CanForward(c, AddSaturating(Carried(l), Fee(c, l)))
             /\ e = Extended(c, l, Uncertainty(c, AddSaturating(Carried(l), Fee(c, l))), FALSE)
             /\ Affordable(e)
    BY <2>1 DEF Extensions
  <2> DEFINE u == Uncertainty(c, AddSaturating(Carried(l), Fee(c, l)))
  <2>3. e = Extended(c, l, u, FALSE)
    BY <2>2
  <2> HIDE DEF u
  <2>4. policy \in Graphs /\ Sound(l) /\ c \in AllChannels
    BY DEF SearchInv, AllChannels
  <2>5. /\ Affordable(Extended(c, l, u, FALSE))
        /\ CanForward(c, AddSaturating(Carried(l), Fee(c, l)))
        /\ ~l.final /\ To[c] = From[Channel(l)] /\ c \notin req.exclude
        /\ From[c] \notin req.exclude \cup {Self, InPeer} /\ From[Channel(l)] # OutPeer
    BY <2>1, <2>2, <2>3
  <2>6. Priced(Extended(c, l, u, FALSE))
    BY <2>4, <2>5, ExtensionPriced
  <2>7. Timed(Extended(c, l, u, FALSE))
    BY <2>4, ExtensionTimed
  <2>8. OnTheWay(Extended(c, l, u, FALSE))
    BY <2>4, <2>5, ExtensionOnTheWay
  <2>9. ~e.final
    BY <2>3 DEF Extended
  <2> QED
    BY <2>3, <2>6, <2>7, <2>8, <2>9 DEF Sound, Within
<1> QED
  BY <1>1, <1>2

LEMMA SearchInvNext ==
  ASSUME SearchInv, [Next]_vars
  PROVE  SearchInv'
<1>1. /\ policy' = policy /\ req' = req
      /\ policy \in Graphs /\ req \in Requests /\ limit \in Nat /\ limit <= req.maxHops
  BY DEF SearchInv, Next, Answer, Drop, Complete, Expand, NextSearch, vars
<1>2. \A l : Sound(l) => Sound(l)'
  BY <1>1, SoundStays
<1>3. answer' = answer =>
        (answer # NoRoute => Sound(answer) /\ answer.final /\ Hops(answer) <= req.maxHops)'
  <2> SUFFICES ASSUME answer' = answer, answer # NoRoute
               PROVE  (Sound(answer) /\ answer.final /\ Hops(answer) <= req.maxHops)'
    OBVIOUS
  <2> DEFINE a == answer
  <2>1. Sound(a) /\ a.final /\ Len(a.path) <= req.maxHops
    BY DEF SearchInv, Hops
  <2> HIDE DEF a
  <2>2. PICK b : b = a
    OBVIOUS
  <2>3. Sound(b)'
    BY <1>2, <2>1, <2>2
  <2>4. b = answer'
    BY <2>2 DEF a
  <2>5. Sound(answer)'
    BY <2>3, <2>4 DEF Sound, OnTheWay, Inner, Priced, Timed, Within
  <2> QED
    BY <1>1, <2>1, <2>2, <2>4, <2>5 DEF Hops
<1>4. (\A l \in labels : Sound(l) /\ (l.final => Hops(l) <= limit))'
        <=> \A l \in labels' : Sound(l)' /\ (l.final => Hops(l) <= limit')
  BY DEF Hops
<1>5. ASSUME NEW l \in labels, Answer(l)
      PROVE  SearchInv'
  <2>1. /\ answer' = l /\ l.final /\ labels' = labels /\ limit' = limit
    BY <1>5 DEF Answer
  <2>2. Sound(l)' /\ Len(l.path) <= limit
    BY <1>2, <2>1 DEF SearchInv, Hops
  <2>3. Sound(answer)'
    BY <2>1, <2>2 DEF Sound, OnTheWay, Inner, Priced, Timed, Within
  <2>4. Hops(answer)' <= req.maxHops
    <3>1. Len(l.path) \in Nat /\ req.maxHops \in Nat
      BY <1>1, LabelType DEF SearchInv
    <3> QED
      BY <1>1, <2>1, <2>2, <3>1 DEF Hops
  <2>5. \A k \in labels' : Sound(k)' /\ (k.final => Hops(k) <= limit')
    BY <1>2, <2>1 DEF SearchInv
  <2> QED
    BY <1>1, <1>4, <2>1, <2>3, <2>4, <2>5 DEF SearchInv
<1>6. ASSUME NEW l \in labels, Drop(l) \/ Complete(l) \/ Expand(l)
      PROVE  SearchInv'
  <2>1. limit' = limit /\ answer' = answer
    BY <1>6 DEF Drop, Complete, Expand
  <2>2. \A k \in labels' : Sound(k) /\ (k.final => Hops(k) <= limit)
    BY <1>6, CompleteSound, ExpandSound DEF Drop, SearchInv
  <2>3. \A k \in labels' : Sound(k)' /\ (k.final => Hops(k) <= limit')
    BY <1>2, <2>1, <2>2
  <2> QED
    BY <1>1, <1>3, <1>4, <2>1, <2>3 DEF SearchInv
<1>7. CASE NextSearch
  <2>1. answer' = answer
    BY <1>7 DEF NextSearch
  <2>2. \/ labels' = labels /\ limit' = limit
        \/ /\ labels' = {Start} /\ limit' \in {2, limit + 1} /\ limit' <= req.maxHops
    BY <1>7 DEF NextSearch, Search
  <2>3. \A k \in labels' : Sound(k)' /\ (k.final => Hops(k) <= limit')
    BY <1>1, <1>2, <2>2, StartSound DEF SearchInv
  <2>4. limit' \in Nat /\ limit' <= req.maxHops
    BY <1>1, <2>2
  <2> QED
    BY <1>1, <1>3, <1>4, <2>1, <2>3, <2>4 DEF SearchInv
<1>8. CASE UNCHANGED vars
  <2>1. labels' = labels /\ limit' = limit /\ answer' = answer
    BY <1>8 DEF vars
  <2>2. \A k \in labels' : Sound(k)' /\ (k.final => Hops(k) <= limit')
    BY <1>2, <2>1 DEF SearchInv
  <2> QED
    BY <1>1, <1>3, <1>4, <2>1, <2>2 DEF SearchInv
<1> QED
  BY <1>5, <1>6, <1>7, <1>8 DEF Next

\* Whatever labels are dropped, the ones that are left are sound.
THEOREM SearchInvariant == Spec => []SearchInv
<1>1. SearchInv /\ [Next]_vars => SearchInv'
  BY SearchInvNext
<1> QED
  BY <1>1, SearchInvInit, PTL DEF Spec
-----------------------------------------------------------------------------
(***************************************************************************)
(* The answer.                                                             *)
(***************************************************************************)
\* A path between our two channels is one of those the network has.
LEMMA IsPath ==
  ASSUME NEW p \in Seq(AllChannels), Len(p) \in 2 .. MaxHops, p[1] = Out, p[Len(p)] = In,
         \A i \in 2 .. Len(p) - 1 : p[i] \in Channels,
         \A i \in 1 .. Len(p) - 1 : To[p[i]] = From[p[i + 1]]
  PROVE  p \in Paths
<1> DEFINE n == Len(p) - 2
           w == [i \in 1 .. n |-> p[i + 1]]
           q == <<Out>> \o w \o <<In>>
<1>1. n \in 0 .. MaxHops - 2 /\ n \in Nat /\ Len(p) = n + 2
  OBVIOUS
<1>2. w \in [1 .. n -> Channels]
  OBVIOUS
<1>3. w \in Seq(AllChannels) /\ Len(w) = n
  BY <1>1, <1>2 DEF AllChannels
<1>4. \A i \in 1 .. n : w[i] = p[i + 1]
  OBVIOUS
<1> HIDE DEF n, w
<1>5. <<Out>> \in Seq(AllChannels) /\ <<In>> \in Seq(AllChannels)
      /\ Len(<<Out>>) = 1 /\ Len(<<In>>) = 1 /\ <<Out>>[1] = Out /\ <<In>>[1] = In
  BY DEF AllChannels
<1>6. /\ <<Out>> \o w \in Seq(AllChannels) /\ Len(<<Out>> \o w) = n + 1
      /\ (<<Out>> \o w)[1] = Out
      /\ \A i \in 2 .. n + 1 : (<<Out>> \o w)[i] = w[i - 1]
  <2>1. Out \in AllChannels
    BY DEF AllChannels
  <2> QED
    BY <1>3, <2>1, Prepend
<1>7. /\ q \in Seq(AllChannels) /\ Len(q) = n + 2
      /\ \A i \in 1 .. n + 2 : q[i] = IF i <= n + 1 THEN (<<Out>> \o w)[i] ELSE <<In>>[i - (n + 1)]
  BY <1>1, <1>5, <1>6, ConcatProperties
<1> HIDE DEF q
<1>8. ASSUME NEW i \in 1 .. n + 2
      PROVE  q[i] = p[i]
  <2>1. CASE i = 1
    BY <1>1, <1>6, <1>7, <2>1
  <2>2. CASE i = n + 2
    <3>1. q[i] = <<In>>[1]
      BY <1>1, <1>7, <2>2
    <3> QED
      BY <1>1, <1>5, <2>2, <3>1
  <2>3. CASE i \in 2 .. n + 1
    <3>1. q[i] = w[i - 1] /\ i - 1 \in 1 .. n /\ (i - 1) + 1 = i
      BY <1>1, <1>6, <1>7, <2>3
    <3> QED
      BY <1>4, <3>1
  <2> QED
    BY <1>1, <2>1, <2>2, <2>3
<1>9. q = p
  BY <1>1, <1>7, <1>8, SeqEqual
<1>10. \A i \in 1 .. Len(q) - 1 : To[q[i]] = From[q[i + 1]]
  BY <1>9
<1>11. w \in Walks
  BY <1>1, <1>2, <1>10 DEF Walks, q
<1> QED
  BY <1>9, <1>11 DEF Paths, q

\* A complete label is a route, at its fee and its delay.
LEMMA LabelRoute ==
  ASSUME policy \in Graphs, req \in Requests, NEW l, Sound(l), l.final,
         Hops(l) <= req.maxHops
  PROVE  /\ l.path \in Routes
         /\ l.fee = PathFee(l.path)
         /\ l.delay = PathDelay(l.path)
<1> DEFINE p == l.path
<1>1. /\ Sound(l) /\ l.final /\ Len(p) <= req.maxHops /\ req \in Requests
      /\ policy \in Graphs
  BY DEF Hops
<1>2. /\ p \in Seq(AllChannels) /\ Len(p) \in Nat /\ Len(p) >= 2
      /\ p[1] = Out /\ p[Len(p)] = In
      /\ \A i \in 1 .. Len(p) - 1 : To[p[i]] = From[p[i + 1]]
      /\ \A i \in 2 .. Len(p) - 1 :
           /\ p[i] \in Channels /\ p[i] \notin req.exclude
           /\ From[p[i]] \notin req.exclude \cup {Self, InPeer}
           /\ i > 2 => From[p[i]] # OutPeer
  BY <1>1, LabelType DEF Sound, OnTheWay, Inner
<1>3. PICK f : /\ Carries(p, f) /\ f[1] = Amount + l.fee
               /\ \A i \in 2 .. Len(p) - 1 : CanForward(p[i], f[i])
  BY <1>1 DEF Sound, Priced, Inner
<1>4. PICK d : Holds(p, d) /\ d[1] = l.delay
  BY <1>1 DEF Sound, Timed
<1>5. Amounts(p) = f /\ PathDelay(p) = l.delay
  BY <1>2, <1>3, <1>4, AmountsAre, DelayIs
<1>6. l.fee \in Int /\ PathFee(p) = l.fee
  BY <1>1, <1>3, <1>5 DEF Sound, Priced, PathFee
<1>7. /\ l.fee <= MaxFee /\ Amount + l.fee < Huge /\ l.delay <= MaxDelay
  BY <1>1 DEF Sound, Within
<1>8. FeePPM(PathFee(p)) <= req.maxPPM
  BY <1>1, <1>6, <1>7, FeeWithinRate
<1>9. p \in Paths
  <2>1. Len(p) \in 2 .. MaxHops
    BY <1>1, <1>2
  <2> QED
    BY <1>2, <2>1, IsPath
<1> HIDE DEF p
<1>10. Usable(p)
  BY <1>1, <1>2, <1>3, <1>5, <1>7, <1>8 DEF Usable
<1> QED
  BY <1>5, <1>6, <1>9, <1>10 DEF Routes, p

LEMMA AnswerSound ==
  ASSUME SearchInv
  PROVE  AnswerHolds
<1> SUFFICES ASSUME answer # NoRoute
             PROVE  /\ answer.path \in Routes
                    /\ answer.fee = PathFee(answer.path)
                    /\ answer.delay = PathDelay(answer.path)
  BY DEF AnswerHolds
<1> QED
  BY LabelRoute DEF SearchInv

\* search, newRouteFromChannels: what is answered is a route the rebalance may
\* use, at the fee and the delay it is then paid with.
THEOREM AnswerKept == Spec => []AnswerHolds
<1>1. SearchInv => AnswerHolds
  BY AnswerSound
<1> QED
  BY <1>1, SearchInvariant, PTL
-----------------------------------------------------------------------------
(***************************************************************************)
(* The check made before a search (LeastForwardFee).                       *)
(***************************************************************************)
\* Charges are never negative.
LEMMA ChargeNat ==
  ASSUME policy \in Graphs, NEW c \in AllChannels, NEW next \in AllChannels, NEW a \in Nat
  PROVE  Charge(c, next, a) \in Nat
<1> DEFINE out == ComputeFee(next, a)
           inb == InboundFee(c, AddSaturating(a, out))
<1>1. out \in Nat
  <2> DEFINE x == a * policy[next].rate
             r == CeilDiv(x, Unit)
  <2>1. x \in Nat /\ policy[next].base \in Nat
    BY PolicyFields
  <2> HIDE DEF x
  <2>2. r \in Nat
    BY <2>1 DEF CeilDiv
  <2> HIDE DEF r
  <2>3. AddSaturating(policy[next].base, r) \in Nat
    BY <2>1, <2>2 DEF AddSaturating
  <2> QED
    BY <2>3 DEF ComputeFee, r, x
<1> HIDE DEF out
<1>2. inb \in Int
  <2> DEFINE t == AddSaturating(a, out)
  <2>1. t \in Int
    BY <1>1, SaturatedType
  <2> HIDE DEF t
  <2>2. t * policy[c].inRate \in Int /\ policy[c].inBase \in Int
    BY <2>1, PolicyFields
  <2>3. TowardZero(t * policy[c].inRate, Unit) \in Int
    BY <2>2, Rounded
  <2> QED
    BY <2>2, <2>3 DEF InboundFee, t
<1> HIDE DEF inb
<1>3. NodeFee(out, inb) \in Nat
  BY <1>1, <1>2 DEF NodeFee, AddSaturating
<1> QED
  BY <1>3 DEF Charge, inb, out

\* f is what the hops of p carry, from the k-th on.
CarriesFrom(p, k, f) ==
  \A i \in k .. Len(p) :
    f[i] = IF i = Len(p) THEN Amount
           ELSE AddSaturating(f[i + 1], Charge(p[i], p[i + 1], f[i + 1]))

LEMMA SomeCarries ==
  ASSUME NEW p, Len(p) \in Nat \ {0}
  PROVE  \E f : Carries(p, f)
<1> DEFINE n == Len(p)
           S == {j \in Nat : j < n => \E f : CarriesFrom(p, n - j, f)}
<1>1. 0 \in S
  <2>1. CarriesFrom(p, n - 0, [i \in {n} |-> Amount])
    BY DEF CarriesFrom
  <2> QED
    BY <2>1
<1>2. ASSUME NEW j \in Nat, j \in S
      PROVE  j + 1 \in S
  <2> SUFFICES ASSUME j + 1 < n
               PROVE  \E f : CarriesFrom(p, n - (j + 1), f)
    OBVIOUS
  <2>1. PICK f : CarriesFrom(p, n - j, f)
    BY <1>2
  <2> DEFINE k == n - (j + 1)
             next == AddSaturating(f[k + 1], Charge(p[k], p[k + 1], f[k + 1]))
             g == [i \in k .. n |-> IF i = k THEN next ELSE f[i]]
  <2>2. k \in Nat /\ k < n /\ k + 1 = n - j
    OBVIOUS
  <2> HIDE DEF k
  <2>3. g[k] = next /\ \A i \in k + 1 .. n : g[i] = f[i]
    BY <2>2
  <2> HIDE DEF g
  <2>4. g[k] = AddSaturating(g[k + 1], Charge(p[k], p[k + 1], g[k + 1]))
    BY <2>2, <2>3
  <2> HIDE DEF next
  <2>5. \A i \in k + 1 .. n :
          g[i] = IF i = n THEN Amount
                 ELSE AddSaturating(g[i + 1], Charge(p[i], p[i + 1], g[i + 1]))
    <3> TAKE i \in k + 1 .. n
    <3>1. f[i] = IF i = n THEN Amount
                 ELSE AddSaturating(f[i + 1], Charge(p[i], p[i + 1], f[i + 1]))
      BY <2>1, <2>2 DEF CarriesFrom
    <3>2. CASE i = n
      BY <2>3, <3>1, <3>2
    <3>3. CASE i # n
      <4>1. i + 1 \in k + 1 .. n
        BY <2>2, <3>3
      <4> QED
        BY <2>3, <3>1, <3>3, <4>1
    <3> QED
      BY <3>2, <3>3
  <2>6. CarriesFrom(p, k, g)
    <3>1. \A i \in k .. n : i = k \/ i \in k + 1 .. n
      BY <2>2
    <3> QED
      BY <2>2, <2>4, <2>5, <3>1 DEF CarriesFrom
  <2> QED
    BY <2>6 DEF k
<1> HIDE DEF S
<1>3. n - 1 \in S
  BY <1>1, <1>2, Induction
<1>4. PICK f : CarriesFrom(p, 1, f)
  <2>1. n - 1 < n /\ n - (n - 1) = 1
    OBVIOUS
  <2> QED
    BY <1>3, <2>1 DEF S
<1> DEFINE g == [i \in 1 .. n |-> f[i]]
<1>5. Carries(p, g)
  <2>1. \A i \in 1 .. n :
          g[i] = IF i = n THEN Amount
                 ELSE AddSaturating(g[i + 1], Charge(p[i], p[i + 1], g[i + 1]))
    <3> TAKE i \in 1 .. n
    <3>1. f[i] = IF i = n THEN Amount
                 ELSE AddSaturating(f[i + 1], Charge(p[i], p[i + 1], f[i + 1]))
      BY <1>4 DEF CarriesFrom
    <3>2. CASE i = n
      BY <3>1, <3>2
    <3>3. CASE i # n
      <4>1. i + 1 \in 1 .. n
        BY <3>3
      <4> QED
        BY <3>1, <3>3, <4>1
    <3> QED
      BY <3>2, <3>3
  <2>2. g = [i \in 1 .. n |-> g[i]]
    OBVIOUS
  <2> HIDE DEF g
  <2> QED
    BY <2>1, <2>2 DEF Carries
<1> QED
  BY <1>5

\* Amounts only grow, up to the greatest.
LEMMA SaturatedNat ==
  ASSUME NEW a \in Nat, NEW b \in Nat
  PROVE  /\ AddSaturating(a, b) \in Nat /\ AddSaturating(a, b) <= Huge
         /\ a <= Huge => a <= AddSaturating(a, b)
BY DEF AddSaturating

\* No hop carries less than the one into the in-peer's channel to us.
LEMMA CarriesGrow ==
  ASSUME policy \in Graphs, NEW p \in Seq(AllChannels), Len(p) \in Nat, Len(p) >= 2,
         NEW f, Carries(p, f)
  PROVE  /\ f[Len(p) - 1] = AddSaturating(Amount, Charge(p[Len(p) - 1], p[Len(p)], Amount))
         /\ f[1] \in Nat /\ f[Len(p) - 1] \in Nat
         /\ f[Len(p) - 1] <= f[1] /\ f[1] <= Huge
<1> DEFINE n == Len(p)
           m == n - 1
           S == {j \in Nat : j < m =>
                   f[m - j] \in Nat /\ f[m] <= f[m - j] /\ f[m - j] <= Huge}
<1>1. \A i \in 1 .. n :
        f[i] = IF i = n THEN Amount ELSE AddSaturating(f[i + 1], Charge(p[i], p[i + 1], f[i + 1]))
  BY DEF Carries
<1>2. n \in Nat /\ m \in Nat /\ m >= 1 /\ n = m + 1 /\ \A i \in 1 .. n : p[i] \in AllChannels
  OBVIOUS
<1> HIDE DEF n, m
<1>3. f[m] = AddSaturating(Amount, Charge(p[m], p[n], Amount))
  BY <1>1, <1>2
<1>4. f[m] \in Nat /\ f[m] <= Huge
  <2>1. p[m] \in AllChannels /\ p[n] \in AllChannels /\ Amount \in Nat
    BY <1>2
  <2>2. Charge(p[m], p[n], Amount) \in Nat
    BY <2>1, ChargeNat
  <2> QED
    BY <1>3, <2>1, <2>2, SaturatedNat
<1>5. 0 \in S
  BY <1>2, <1>4
<1>6. ASSUME NEW j \in Nat, j \in S
      PROVE  j + 1 \in S
  <2> SUFFICES ASSUME j + 1 < m
               PROVE  /\ f[m - (j + 1)] \in Nat /\ f[m] <= f[m - (j + 1)]
                      /\ f[m - (j + 1)] <= Huge
    OBVIOUS
  <2> DEFINE k == m - (j + 1)
  <2>1. k \in Nat /\ k >= 1 /\ k < m /\ k + 1 = m - j
    BY <1>2
  <2>2. f[k + 1] \in Nat /\ f[m] <= f[k + 1] /\ f[k + 1] <= Huge
    BY <1>2, <1>6, <2>1
  <2> HIDE DEF k
  <2>3. k \in 1 .. n /\ k + 1 \in 1 .. n /\ k # n
    BY <1>2, <2>1
  <2>4. Charge(p[k], p[k + 1], f[k + 1]) \in Nat
    BY <1>2, <2>2, <2>3, ChargeNat
  <2>5. f[k] = AddSaturating(f[k + 1], Charge(p[k], p[k + 1], f[k + 1]))
    BY <1>1, <2>3
  <2>6. f[k] \in Nat /\ f[k + 1] <= f[k] /\ f[k] <= Huge
    <3> DEFINE a == f[k + 1]
               b == Charge(p[k], p[k + 1], a)
    <3>1. a \in Nat /\ a <= Huge /\ b \in Nat
      BY <2>2, <2>4
    <3>2. f[k] = AddSaturating(a, b)
      BY <2>5
    <3>3. f[k + 1] = a
      OBVIOUS
    <3> HIDE DEF a, b
    <3>4. AddSaturating(a, b) \in Nat /\ AddSaturating(a, b) <= Huge /\ a <= AddSaturating(a, b)
      BY <3>1, SaturatedNat
    <3> QED
      BY <3>2, <3>3, <3>4
  <2>7. f[m] <= f[k]
    BY <1>4, <2>2, <2>6
  <2> QED
    BY <2>6, <2>7 DEF k
<1> HIDE DEF S
<1>7. m - 1 \in S
  <2>1. \A j \in Nat : j \in S
    BY <1>5, <1>6, Induction
  <2>2. m - 1 \in Nat
    BY <1>2
  <2> QED
    BY <2>1, <2>2
<1>8. m - 1 < m /\ m - (m - 1) = 1
  BY <1>2
<1>9. f[1] \in Nat /\ f[m] <= f[1] /\ f[1] <= Huge
  BY <1>7, <1>8 DEF S
<1> QED
  BY <1>3, <1>4, <1>9 DEF m, n

\* A fee within the rate asked for is within the one searched with.
LEMMA RateWithinFee ==
  ASSUME req \in Requests, NEW fee \in Nat, FeePPM(fee) <= req.maxPPM
  PROVE  fee <= MaxFee
<1> DEFINE s == fee * Unit
           d == s \div Amount
           k == (req.maxPPM + 1) * Amount
           q == (k - 1) \div Unit
<1>1. req.maxPPM \in Nat /\ s \in Nat /\ k \in Int
  OBVIOUS
<1>2. d <= req.maxPPM
  BY DEF FeePPM
<1>3. s < k
  <2> HIDE DEF s
  <2>1. d \in Int /\ s < (d + 1) * Amount
    BY <1>1
  <2> HIDE DEF d
  <2>2. (d + 1) * Amount <= (req.maxPPM + 1) * Amount
    BY <1>1, <1>2, <2>1
  <2> QED
    BY <1>1, <2>1, <2>2
<1> HIDE DEF d, k
<1>4. q \in Int /\ k - 1 < (q + 1) * Unit
  BY <1>1
<1> HIDE DEF q
<1>5. fee * Unit < (q + 1) * Unit
  BY <1>1, <1>3, <1>4
<1>6. fee < q + 1
  BY <1>4, <1>5
<1> QED
  BY <1>4, <1>6 DEF MaxFee, MaxFeeForPPM, q, k

\* Every path ends over a channel whose charge LeastForwardFee considered.
LEMMA LeastIsLeast ==
  ASSUME policy \in Graphs,
         NEW c \in AllChannels, To[c] = InPeer,
         c = Out \/ (c \in Channels /\ From[c] # Self)
  PROVE  LeastForwardFee <= Charge(c, In, Amount) /\ LeastForwardFee \in Nat
<1> DEFINE into == {x \in Channels : To[x] = InPeer /\ From[x] # Self}
                     \cup (IF OutPeer = InPeer THEN {Out} ELSE {})
           charges == {Charge(x, In, Amount) : x \in into}
<1>1. c \in into /\ into \subseteq AllChannels /\ In \in AllChannels
  BY DEF OutPeer, AllChannels
<1>2. LeastForwardFee = CHOOSE x \in charges : \A y \in charges : x <= y
  BY <1>1 DEF LeastForwardFee
<1> HIDE DEF into
<1>3. charges \subseteq Nat
  BY <1>1, ChargeNat
<1>4. Charge(c, In, Amount) \in charges
  BY <1>1
<1> HIDE DEF charges
<1>5. \E x \in charges : \A y \in charges : x <= y
  BY <1>3, <1>4, LeastNumber
<1> QED
  BY <1>2, <1>3, <1>4, <1>5

\* What the paths of the network are.
LEMMA PathIs ==
  ASSUME NEW p \in Paths
  PROVE  /\ p \in Seq(AllChannels) /\ Len(p) \in Nat /\ Len(p) >= 2
         /\ p[1] = Out /\ p[Len(p)] = In
         /\ \A i \in 2 .. Len(p) - 1 : p[i] \in Channels
         /\ \A i \in 1 .. Len(p) - 1 : To[p[i]] = From[p[i + 1]]
<1>1. PICK w \in Walks : p = <<Out>> \o w \o <<In>>
  BY DEF Paths
<1>2. PICK n \in 0 .. MaxHops - 2 : w \in [1 .. n -> Channels]
  BY DEF Walks
<1>3. \A i \in 1 .. Len(p) - 1 : To[p[i]] = From[p[i + 1]]
  BY <1>1 DEF Walks
<1>4. n \in Nat /\ w \in Seq(AllChannels) /\ Len(w) = n /\ \A i \in 1 .. n : w[i] \in Channels
  BY <1>2 DEF AllChannels
<1>5. /\ Out \in AllChannels /\ In \in AllChannels /\ <<In>> \in Seq(AllChannels)
      /\ Len(<<In>>) = 1 /\ <<In>>[1] = In
  BY DEF AllChannels
<1> DEFINE q == <<Out>> \o w
<1>6. /\ q \in Seq(AllChannels) /\ Len(q) = n + 1 /\ q[1] = Out
      /\ \A i \in 2 .. n + 1 : q[i] = w[i - 1]
  BY <1>4, <1>5, Prepend
<1> HIDE DEF q
<1>7. /\ p \in Seq(AllChannels) /\ Len(p) = n + 2
      /\ \A i \in 1 .. n + 2 : p[i] = IF i <= n + 1 THEN q[i] ELSE <<In>>[i - (n + 1)]
  <2>1. p = q \o <<In>>
    BY <1>1 DEF q
  <2> QED
    BY <1>4, <1>5, <1>6, <2>1, ConcatProperties
<1>8. p[1] = Out
  BY <1>4, <1>6, <1>7
<1>9. p[n + 2] = In
  <2>1. n + 2 \in 1 .. n + 2 /\ ~(n + 2 <= n + 1) /\ (n + 2) - (n + 1) = 1
    BY <1>4
  <2>2. p[n + 2] = <<In>>[1]
    BY <1>7, <2>1
  <2> QED
    BY <1>5, <2>2
<1>10. ASSUME NEW i \in 2 .. n + 1
       PROVE  p[i] \in Channels
  <2>1. p[i] = w[i - 1] /\ i - 1 \in 1 .. n
    BY <1>4, <1>6, <1>7
  <2> QED
    BY <1>4, <2>1
<1>11. Len(p) - 1 = n + 1 /\ n + 2 \in Nat /\ n + 2 >= 2
  BY <1>4, <1>7
<1> QED
  BY <1>3, <1>7, <1>8, <1>9, <1>10, <1>11

LEMMA MaxFeeIsInt ==
  ASSUME req \in Requests
  PROVE  MaxFee \in Int
<1> DEFINE k == (req.maxPPM + 1) * Amount
<1>1. k \in Int
  OBVIOUS
<1> HIDE DEF k
<1>2. (k - 1) \div Unit \in Int
  BY <1>1
<1> QED
  BY <1>2 DEF MaxFee, MaxFeeForPPM, k

LEMMA CheckSound ==
  ASSUME policy \in Graphs, req \in Requests
  PROVE  TooDearMeansNone
<1> SUFFICES ASSUME NEW p \in Routes, LeastForwardFee > MaxFee
             PROVE  FALSE
  BY DEF TooDearMeansNone
<1> DEFINE n == Len(p)
           m == n - 1
<1>1. p \in Paths /\ Usable(p)
  BY DEF Routes
<1>2. /\ p \in Seq(AllChannels) /\ n \in Nat /\ n >= 2 /\ p[1] = Out /\ p[n] = In
      /\ \A i \in 2 .. n - 1 : p[i] \in Channels
      /\ \A i \in 1 .. n - 1 : To[p[i]] = From[p[i + 1]]
  BY <1>1, PathIs
<1>3. PICK f : Carries(p, f)
  BY <1>2, SomeCarries
<1>4. Amounts(p) = f
  BY <1>2, <1>3, AmountsAre
<1>5. /\ f[m] = AddSaturating(Amount, Charge(p[m], p[n], Amount))
      /\ f[1] \in Nat /\ f[m] <= f[1]
  BY <1>2, <1>3, CarriesGrow
<1>6. f[1] < Huge /\ FeePPM(PathFee(p)) <= req.maxPPM /\ PathFee(p) = f[1] - Amount
  BY <1>1, <1>4 DEF Usable, PathFee
<1>7. /\ p[m] \in AllChannels /\ To[p[m]] = InPeer
      /\ \/ p[m] = Out
         \/ p[m] \in Channels /\ From[p[m]] # Self
  <2>1. m \in 1 .. n - 1 /\ m + 1 = n
    BY <1>2
  <2>2. p[m] \in AllChannels /\ To[p[m]] = InPeer
    BY <1>2, <2>1 DEF InPeer
  <2>3. CASE m = 1
    BY <1>2, <2>2, <2>3
  <2>4. CASE m # 1
    <3>1. m \in 2 .. n - 1
      BY <2>1, <2>4
    <3>2. p[m] \in Channels
      BY <1>2, <3>1
    <3>3. From[p[m]] # Self
      BY <1>1, <3>1 DEF Usable
    <3> QED
      BY <2>2, <3>2, <3>3
  <2> QED
    BY <2>3, <2>4
<1> DEFINE x == Charge(p[m], In, Amount)
<1>8. x \in Nat
  BY <1>7, ChargeNat DEF AllChannels
<1>9. LeastForwardFee <= x /\ LeastForwardFee \in Nat
  BY <1>7, LeastIsLeast
<1> HIDE DEF x
<1>10. f[m] = AddSaturating(Amount, x)
  BY <1>2, <1>5 DEF x
<1> HIDE DEF n, m
<1>11. x <= PathFee(p) /\ PathFee(p) \in Nat
  BY <1>5, <1>6, <1>8, <1>10 DEF AddSaturating
<1>12. PathFee(p) <= MaxFee /\ MaxFee \in Int
  BY <1>6, <1>11, RateWithinFee, MaxFeeIsInt
<1> QED
  BY <1>8, <1>9, <1>11, <1>12

\* getRoute, LeastForwardFee: when the in-peer's own charge is above
\* the limit, whatever the channel into it, no route would have been found.
THEOREM CheckRulesOutNothing == Spec => []TooDearMeansNone
<1>1. SearchInv => TooDearMeansNone
  BY CheckSound DEF SearchInv
<1> QED
  BY <1>1, SearchInvariant, PTL
-----------------------------------------------------------------------------
(***************************************************************************)
(* Fees grow with what is carried.                                         *)
(***************************************************************************)
LEMMA QuotientsGrow ==
  ASSUME NEW a \in Int, NEW b \in Int, a <= b, NEW k \in Nat \ {0}
  PROVE  a \div k <= b \div k
<1> DEFINE q == a \div k
           s == b \div k
<1>1. q \in Int /\ q * k <= a
  OBVIOUS
<1>2. s \in Int /\ b < (s + 1) * k
  OBVIOUS
<1> HIDE DEF q, s
<1>3. q * k < (s + 1) * k
  BY <1>1, <1>2
<1>4. q < s + 1
  BY <1>1, <1>2, <1>3
<1> QED
  BY <1>1, <1>2, <1>4 DEF q, s

LEMMA ProductsGrow ==
  ASSUME NEW a \in Int, NEW b \in Int, a <= b, NEW k \in Nat
  PROVE  a * k <= b * k /\ a * k \in Int /\ b * k \in Int
OBVIOUS

LEMMA CeilingsGrow ==
  ASSUME NEW a \in Nat, NEW b \in Nat, a <= b, NEW k \in Nat \ {0}
  PROVE  CeilDiv(a, k) <= CeilDiv(b, k) /\ CeilDiv(a, k) \in Nat
<1> DEFINE x == a + k - 1
           y == b + k - 1
<1>1. x \in Nat /\ y \in Nat /\ x <= y
  OBVIOUS
<1> HIDE DEF x, y
<1>2. x \div k <= y \div k /\ x \div k \in Nat
  BY <1>1, QuotientsGrow
<1> QED
  BY <1>2 DEF CeilDiv, x, y

\* Channel.ComputeFee.
LEMMA OutboundGrows ==
  ASSUME policy \in Graphs, NEW c \in AllChannels, NEW a \in Nat, NEW b \in Nat, a <= b
  PROVE  /\ ComputeFee(c, a) \in Nat /\ ComputeFee(c, b) \in Nat
         /\ ComputeFee(c, a) <= ComputeFee(c, b) /\ ComputeFee(c, b) <= Huge
<1> DEFINE x == CeilDiv(a * policy[c].rate, Unit)
           y == CeilDiv(b * policy[c].rate, Unit)
           base == policy[c].base
<1>1. policy[c].rate \in Nat /\ base \in Nat
  BY PolicyFields
<1>2. a * policy[c].rate <= b * policy[c].rate
      /\ a * policy[c].rate \in Nat /\ b * policy[c].rate \in Nat
  BY <1>1, ProductsGrow
<1>3. x \in Nat /\ y \in Nat /\ x <= y
  BY <1>2, CeilingsGrow
<1>4. /\ ComputeFee(c, a) = IF x > Huge THEN Huge ELSE AddSaturating(base, x)
      /\ ComputeFee(c, b) = IF y > Huge THEN Huge ELSE AddSaturating(base, y)
  BY DEF ComputeFee
<1> HIDE DEF x, y, base
<1> QED
  BY <1>1, <1>3, <1>4 DEF AddSaturating

\* An inbound discount takes back no more than the amount grew by.
LEMMA InboundGrows ==
  ASSUME policy \in Graphs, NEW c \in AllChannels, NEW a \in Nat, NEW b \in Nat, a <= b
  PROVE  /\ InboundFee(c, a) \in Int /\ InboundFee(c, b) \in Int
         /\ a + InboundFee(c, a) <= b + InboundFee(c, b)
<1> DEFINE r == policy[c].inRate
           x == TowardZero(a * r, Unit)
           y == TowardZero(b * r, Unit)
<1>1. r \in Int /\ r >= -Unit /\ policy[c].inBase \in Int
  BY PolicyFields
<1>2. a * r \in Int /\ b * r \in Int
  BY <1>1
<1>3. x \in Int /\ y \in Int
  BY <1>2, Rounded
<1>4. a + x <= b + y
  <2>1. CASE r >= 0
    <3>1. a * r <= b * r /\ a * r >= 0 /\ b * r >= 0
      <4> HIDE DEF r
      <4> QED
        BY <1>1, <2>1
    <3>2. x = (a * r) \div Unit /\ y = (b * r) \div Unit
      BY <3>1 DEF TowardZero
    <3>3. (a * r) \div Unit <= (b * r) \div Unit
      BY <1>2, <3>1, QuotientsGrow
    <3> HIDE DEF x, y
    <3> QED
      BY <1>3, <3>2, <3>3
  <2>2. CASE r < 0
    <3> DEFINE s == -r
               u == a * s
               v == b * s
               d == b - a
    <3>1. s \in Nat /\ s <= Unit /\ s > 0 /\ d \in Nat
      BY <1>1, <2>2
    <3> HIDE DEF r
    <3>2. a * r = -u /\ b * r = -v
      BY <1>1
    <3> HIDE DEF s
    <3>3. u \in Nat /\ v \in Nat /\ v = u + d * s
      BY <3>1
    <3>4. d * s <= d * Unit
      BY <3>1
    <3>5. x = -(u \div Unit) /\ y = -(v \div Unit)
      <4> HIDE DEF u, v
      <4>1. ASSUME NEW n \in Nat
            PROVE  TowardZero(-n, Unit) = -(n \div Unit)
        <5>1. CASE n = 0
          BY <5>1 DEF TowardZero
        <5>2. CASE n # 0
          <6>1. ~(-n >= 0) /\ -(-n) = n
            BY <5>2
          <6> QED
            BY <6>1 DEF TowardZero
        <5> QED
          BY <5>1, <5>2
      <4> QED
        BY <3>2, <3>3, <4>1
    <3> HIDE DEF u, v
    <3>6. v <= u + d * Unit /\ u + d * Unit \in Int
      <4> DEFINE w == d * s
                 z == d * Unit
      <4>1. w \in Int /\ z \in Int /\ w <= z
        BY <3>1, <3>4
      <4>2. v = u + w
        BY <3>3
      <4> HIDE DEF w, z
      <4>3. v <= u + z /\ u + z \in Int
        BY <3>3, <4>1, <4>2
      <4> QED
        BY <4>3 DEF z
    <3>7. v \div Unit <= (u + d * Unit) \div Unit
      BY <3>3, <3>6, QuotientsGrow
    <3>8. (u + d * Unit) \div Unit = u \div Unit + d
      <4> DEFINE q == u \div Unit
                 t == (u + d * Unit) \div Unit
      <4>1. q \in Int /\ q * Unit <= u /\ u < (q + 1) * Unit
        BY <3>3
      <4>2. t \in Int /\ t * Unit <= u + d * Unit /\ u + d * Unit < (t + 1) * Unit
        BY <3>6
      <4> HIDE DEF q, t
      <4>3. (q + d) * Unit <= u + d * Unit /\ u + d * Unit < (q + d + 1) * Unit
        BY <3>1, <3>3, <4>1
      <4>4. (q + d) * Unit < (t + 1) * Unit /\ t * Unit < (q + d + 1) * Unit
        BY <3>1, <3>3, <4>1, <4>2, <4>3
      <4>5. q + d < t + 1
        <5> DEFINE m == q + d
                   n == t + 1
        <5>1. m \in Int /\ n \in Int /\ m * Unit < n * Unit
          BY <3>1, <4>1, <4>2, <4>4
        <5> HIDE DEF m, n
        <5>2. m < n
          BY <5>1
        <5> QED
          BY <5>2 DEF m, n
      <4>6. t < q + d + 1
        <5> DEFINE m == q + d + 1
        <5>1. m \in Int /\ t * Unit < m * Unit
          BY <3>1, <4>1, <4>2, <4>4
        <5> HIDE DEF m
        <5>2. t < m
          BY <4>2, <5>1
        <5> QED
          BY <5>2 DEF m
      <4>7. t = q + d
        BY <3>1, <4>1, <4>2, <4>5, <4>6
      <4> QED
        BY <4>7 DEF q, t
    <3>9. u \div Unit \in Int /\ v \div Unit \in Int
      BY <3>3
    <3> HIDE DEF x, y
    <3> QED
      BY <3>1, <3>5, <3>7, <3>8, <3>9 DEF d
  <2> QED
    BY <1>1, <2>1, <2>2
<1>5. InboundFee(c, a) = policy[c].inBase + x /\ InboundFee(c, b) = policy[c].inBase + y
  BY DEF InboundFee
<1> HIDE DEF r, x, y
<1> QED
  BY <1>1, <1>3, <1>4, <1>5

\* uncertaintyCost.
LEMMA UncertaintyGrows ==
  ASSUME policy \in Graphs, risk \in Nat, NEW c \in AllChannels,
         NEW a \in Nat, NEW b \in Nat, a <= b
  PROVE  /\ Uncertainty(c, a) \in Nat /\ Uncertainty(c, b) \in Nat
         /\ Uncertainty(c, a) <= Uncertainty(c, b)
<1> DEFINE k == policy[c].doubt * risk
<1>1. policy[c] \in Policies
  OBVIOUS
<1>2. k \in Nat
  BY <1>1 DEF Policies
<1> HIDE DEF k
<1>3. k * a \in Nat /\ k * b \in Nat /\ k * a <= k * b
  BY <1>2
<1>4. /\ CeilDiv(k * a, Unit) \in Nat /\ CeilDiv(k * b, Unit) \in Nat
      /\ CeilDiv(k * a, Unit) <= CeilDiv(k * b, Unit)
  BY <1>3, CeilingsGrow
<1> QED
  BY <1>4 DEF Uncertainty, k

LEMMA UncertaintyType ==
  ASSUME policy \in Graphs, risk \in Nat, NEW c \in AllChannels, NEW a \in Nat
  PROVE  Uncertainty(c, a) \in Nat
<1>1. a <= a
  OBVIOUS
<1> QED
  BY <1>1, UncertaintyGrows
-----------------------------------------------------------------------------
(***************************************************************************)
(* What dropping labels must not lose.                                     *)
(***************************************************************************)
\* The mark of a label on c put before one of mark m on d.
Put(c, d, m, uncertainty) ==
  LET charge == Charge(c, d, Amount + m.fee)
  IN [hops |-> m.hops + 1, fee |-> AddSaturating(m.fee, charge),
      cost |-> AddSaturating(AddSaturating(m.cost, charge), uncertainty)]

CarriedBefore(c, d, m) == AddSaturating(Amount + m.fee, Charge(c, d, Amount + m.fee))

Doubt(c, d, m) == Uncertainty(c, CarriedBefore(c, d, m))

\* Within the limits on fees.
Fits(m) == m.fee <= MaxFee /\ m.fee < Huge /\ Amount + m.fee < Huge

\* The search may go on over c from a label of mark m on d.
Reaches(c, d, m) ==
  /\ CanForward(c, CarriedBefore(c, d, m))
  /\ Fits(Put(c, d, m, Doubt(c, d, m))) /\ Put(c, d, m, Doubt(c, d, m)).cost < Huge

ExpansionOf(d, m) ==
  [hops |-> m.hops, fee |-> m.fee,
   withOutbound |-> AddSaturating(m.fee, ComputeFee(d, Amount + m.fee)),
   uncertainty |-> m.cost - m.fee]

\* The mark an expansion was made from.
MarkOf(x) == [hops |-> x.hops, fee |-> x.fee, cost |-> x.uncertainty + x.fee]

\* The channels a label at node u may be put behind.
Into(u) ==
  {c \in Channels : /\ To[c] = u /\ c \notin req.exclude
                    /\ From[c] \notin req.exclude \cup {Self, InPeer}}

\* So many channels pass the limit on delay, whichever they are.
Late(hops) ==
  \E low \in Delays : /\ \A d \in Delays : low <= d
                      /\ InitialDelay + hops * low > MaxDelay

IsMark(m) ==
  /\ m.hops \in Nat /\ m.fee \in Nat /\ m.cost \in Nat
  /\ m.hops >= 1 /\ m.fee <= m.cost /\ m.fee <= MaxFee
  /\ risk = 0 => m.cost = m.fee

\* A label's mark is one, and so many channels held it no longer than the
\* slowest would.
Ranked(l) ==
  /\ IsMark(Mark(l)) /\ l.cost <= Huge
  /\ ~l.final =>
       /\ Hops(l) <= MaxHops
       /\ Channel(l) = In => Mark(l) = Mark(Start)
       /\ \A high \in Delays : (\A d \in Delays : d <= high) =>
            l.delay <= InitialDelay + (Hops(l) - 1) * high

\* The marks there were on a channel: our channel in has one.
Marks(marks, d) == IF d = In THEN {Mark(Start)} ELSE marks[d]

\* A label of mark m on d is still to be popped.
Pending(heap, d, m) == \E l \in heap : ~l.final /\ Channel(l) = d /\ Mark(l) = m

\* It was, and what it led to is in the heap or among the expansions, or it can
\* lead nowhere.
Settled(heap, expansions, d, m) ==
  IF From[d] = OutPeer
  THEN LET e == Put(Out, d, m, 0)
       IN e.hops <= limit /\ Fits(e) /\ ~Late(m.hops) =>
            \E l \in heap : l.final /\ Mark(l) = e
  ELSE \/ m.hops + 1 > PathHops
       \/ Late(m.hops)
       \/ \E x \in expansions[From[d]] : Covers(x, ExpansionOf(d, m))

\* Every channel into an expanded node has a mark no worse than the expansion
\* gave it.
Spread(marks, u, x) ==
  \E d \in Inside :
    /\ From[d] = u /\ IsMark(MarkOf(x)) /\ x = ExpansionOf(d, MarkOf(x))
    /\ \A c \in Into(u) : Reaches(c, d, MarkOf(x)) =>
         \E m \in marks[c] : NoWorse(m, Put(c, d, MarkOf(x), Doubt(c, d, MarkOf(x))))

\* Nothing better is lost: every mark there was is of a label still to be
\* popped, or one that was expanded, or that can lead nowhere; and what an
\* expansion gave a channel is marked there, or something no worse is.
Kept(heap, marks, expansions) ==
  /\ \A l \in heap : Ranked(l)
  /\ \A c \in Channels : \A m \in marks[c] :
       IsMark(m) /\ \A k \in marks[c] : NoWorse(k, m) => k = m
  /\ \A d \in Inside : \A m \in Marks(marks, d) :
       Pending(heap, d, m) \/ Settled(heap, expansions, d, m)
  /\ \A u \in Nodes : \A x \in expansions[u] : Spread(marks, u, x)

NothingLost == Kept(labels, best, expanded)

\* The search on fees has found no route shorter than its limit.
NoneShorter == risk = 0 => \A p \in Routes : limit <= Len(p)

\* Where the searches of a request stand.
Phase ==
  /\ risk \in Nat /\ (risk > 0 => limit = req.maxHops)
  /\ pc \in {"search", "done"} /\ (pc = "search" => answer = NoRoute)
  /\ best = [c \in Channels |-> best[c]] /\ expanded = [u \in Nodes |-> expanded[u]]
-----------------------------------------------------------------------------
(***************************************************************************)
(* A label that is beaten leads to nothing better.                         *)
(***************************************************************************)
LEMMA InsideIs ==
  /\ \A d \in Inside : d \in AllChannels
  /\ \A c \in Channels : c \in AllChannels /\ c \in Inside
  /\ In \in Inside /\ In \in AllChannels /\ Out \in AllChannels
BY DEF Inside, AllChannels

\* What the node between c and d charges, fee and amount apart: with the same
\* fees or less, and no more once its own fee is added, no more after the
\* inbound fee of c either.
LEMMA FeeGrows ==
  ASSUME policy \in Graphs, req \in Requests, FeesLeaveRoom, NEW c \in AllChannels,
         NEW d1 \in Inside, NEW d2 \in Inside, NEW f1 \in Nat, NEW f2 \in Nat,
         f1 <= f2, f2 <= MaxFee,
         AddSaturating(f1, ComputeFee(d1, Amount + f1))
           <= AddSaturating(f2, ComputeFee(d2, Amount + f2)),
         f2 + Charge(c, d2, Amount + f2) < Huge, Amount + f2 < Huge
  PROVE  /\ Charge(c, d1, Amount + f1) \in Nat /\ Charge(c, d2, Amount + f2) \in Nat
         /\ f1 + Charge(c, d1, Amount + f1) <= f2 + Charge(c, d2, Amount + f2)
<1> DEFINE a1 == Amount + f1
           a2 == Amount + f2
           o1 == ComputeFee(d1, a1)
           o2 == ComputeFee(d2, a2)
           i1 == InboundFee(c, AddSaturating(a1, o1))
           i2 == InboundFee(c, AddSaturating(a2, o2))
           g1 == NodeFee(o1, i1)
           g2 == NodeFee(o2, i2)
<1>1. /\ a1 \in Nat /\ a2 \in Nat /\ a1 = Amount + f1 /\ a2 = Amount + f2
      /\ Amount \in Nat /\ Amount >= 1 /\ Huge \in Nat /\ MaxFee \in Int
  BY MaxFeeIsInt
<1>2. d1 \in AllChannels /\ d2 \in AllChannels
  BY InsideIs
<1>3. a1 \in Amount .. Amount + MaxFee /\ a2 \in Amount .. Amount + MaxFee
  BY <1>1
<1>4. Charge(c, d1, Amount + f1) = g1 /\ Charge(c, d2, Amount + f2) = g2
  BY DEF Charge
<1>5. g1 \in Nat /\ g2 \in Nat
  BY <1>1, <1>2, <1>4, ChargeNat
<1>6. o1 = Huge \/ a1 + o1 < Huge
  BY <1>3 DEF FeesLeaveRoom
<1>7. o2 = Huge \/ a2 + o2 < Huge
  BY <1>3 DEF FeesLeaveRoom
<1>8. o1 \in Nat /\ o2 \in Nat /\ o1 <= Huge /\ o2 <= Huge
  BY <1>1, <1>2, OutboundGrows
<1>9. AddSaturating(f1, o1) <= AddSaturating(f2, o2)
  OBVIOUS
<1>10. f2 + g2 < Huge /\ a2 < Huge
  BY <1>4
<1> HIDE DEF a1, a2
<1> HIDE DEF o1, o2
<1>11. o2 # Huge
  <2> SUFFICES ASSUME o2 = Huge PROVE FALSE
    OBVIOUS
  <2>1. g2 = Huge
    BY DEF NodeFee
  <2> QED
    BY <1>1, <1>5, <1>10, <2>1
<1>12. o1 # Huge /\ f1 + o1 <= f2 + o2
  <2>1. f2 + o2 < Huge
    BY <1>1, <1>7, <1>8, <1>11
  <2>2. AddSaturating(f2, o2) = f2 + o2
    BY <1>1, <1>8, <2>1 DEF AddSaturating
  <2>3. AddSaturating(f1, o1) \in Int /\ AddSaturating(f1, o1) < Huge
    BY <1>1, <1>8, <1>9, <2>1, <2>2, SaturatedType
  <2>4. AddSaturating(f1, o1) = f1 + o1 /\ f1 + o1 <= Huge
    BY <1>1, <1>8, <2>3 DEF AddSaturating
  <2> QED
    BY <1>1, <1>8, <1>9, <2>1, <2>2, <2>4
<1> DEFINE w1 == a1 + o1
           w2 == a2 + o2
<1>13. w1 \in Nat /\ w2 \in Nat /\ w1 <= w2 /\ w2 < Huge
  BY <1>1, <1>7, <1>8, <1>11, <1>12
<1>14. AddSaturating(a1, o1) = w1 /\ AddSaturating(a2, o2) = w2
  BY <1>1, <1>6, <1>7, <1>8, <1>11, <1>12 DEF AddSaturating
<1>15. i1 = InboundFee(c, w1) /\ i2 = InboundFee(c, w2)
  BY <1>14
<1>16. w1 = a1 + o1 /\ w2 = a2 + o2
  OBVIOUS
<1> HIDE DEF w1, w2, i1, i2
<1>17. i1 \in Int /\ i2 \in Int /\ w1 + i1 <= w2 + i2
  BY <1>13, <1>15, InboundGrows
<1>18. g2 >= o2 + i2
  BY <1>1, <1>5, <1>8, <1>10, <1>11, <1>17 DEF NodeFee, AddSaturating
<1>19. a1 + o1 + i1 <= a2 + g2
  BY <1>1, <1>5, <1>8, <1>16, <1>17, <1>18
<1>20. a1 + g1 <= a2 + g2
  <2>1. CASE i1 >= 0
    <3>1. o1 + i1 <= Huge
      BY <1>1, <1>5, <1>8, <1>10, <1>17, <1>19
    <3>2. g1 = o1 + i1
      BY <1>8, <1>12, <1>17, <2>1, <3>1 DEF NodeFee, AddSaturating
    <3> QED
      BY <1>1, <1>8, <1>17, <1>19, <3>2
  <2>2. CASE i1 < 0
    <3>1. g1 = IF -i1 >= o1 THEN 0 ELSE o1 + i1
      BY <1>12, <1>17, <2>2 DEF NodeFee
    <3> QED
      BY <1>1, <1>5, <1>8, <1>17, <1>19, <3>1
  <2> QED
    BY <1>17, <2>1, <2>2
<1> HIDE DEF g1, g2
<1> QED
  BY <1>1, <1>4, <1>5, <1>20

LEMMA MarkFields ==
  ASSUME NEW m, IsMark(m)
  PROVE  /\ m.hops \in Nat /\ m.fee \in Nat /\ m.cost \in Nat
         /\ m.hops >= 1 /\ m.fee <= m.cost /\ m.fee <= MaxFee
         /\ risk = 0 => m.cost = m.fee
BY DEF IsMark

\* The mark of a label put before another, when nothing saturates.
LEMMA PutFields ==
  ASSUME policy \in Graphs, NEW c \in AllChannels, NEW d \in Inside, NEW m, IsMark(m),
         NEW u \in Nat
  PROVE  /\ Charge(c, d, Amount + m.fee) \in Nat
         /\ Put(c, d, m, u).hops = m.hops + 1
         /\ Put(c, d, m, u).fee = AddSaturating(m.fee, Charge(c, d, Amount + m.fee))
         /\ Put(c, d, m, u).fee \in Nat /\ Put(c, d, m, u).fee <= Huge
         /\ Put(c, d, m, u).cost
              = AddSaturating(AddSaturating(m.cost, Charge(c, d, Amount + m.fee)), u)
         /\ Put(c, d, m, u).cost \in Nat /\ Put(c, d, m, u).cost <= Huge
         /\ Fits(Put(c, d, m, u)) =>
              /\ m.fee + Charge(c, d, Amount + m.fee) < Huge /\ Amount + m.fee < Huge
              /\ Put(c, d, m, u).fee = m.fee + Charge(c, d, Amount + m.fee)
              /\ CarriedBefore(c, d, m) = Amount + Put(c, d, m, u).fee
         /\ Put(c, d, m, u).cost < Huge =>
              Put(c, d, m, u).cost = m.cost + Charge(c, d, Amount + m.fee) + u
<1> DEFINE g == Charge(c, d, Amount + m.fee)
           e == Put(c, d, m, u)
           s == AddSaturating(m.cost, g)
<1>1. m.hops \in Nat /\ m.fee \in Nat /\ m.cost \in Nat /\ Amount \in Nat /\ Amount >= 1
      /\ Huge \in Nat
  BY DEF IsMark
<1>2. g \in Nat
  <2>1. Amount + m.fee \in Nat /\ d \in AllChannels
    BY <1>1, InsideIs
  <2> QED
    BY <2>1, ChargeNat
<1>3. /\ e.hops = m.hops + 1 /\ e.fee = AddSaturating(m.fee, g)
      /\ e.cost = AddSaturating(s, u)
  BY DEF Put
<1>4. CarriedBefore(c, d, m) = AddSaturating(Amount + m.fee, g)
  BY DEF CarriedBefore
<1>5. Fits(e) => e.fee < Huge /\ Amount + e.fee < Huge
  BY DEF Fits
<1> HIDE DEF g, e, s
<1>6. s \in Nat /\ s <= Huge /\ s = IF m.cost + g > Huge THEN Huge ELSE m.cost + g
  <2>1. s = AddSaturating(m.cost, g)
    BY DEF s
  <2> QED
    BY <1>1, <1>2, <2>1 DEF AddSaturating
<1>7. /\ e.fee = IF m.fee + g > Huge THEN Huge ELSE m.fee + g
      /\ e.cost = IF s + u > Huge THEN Huge ELSE s + u
      /\ CarriedBefore(c, d, m)
           = IF Amount + m.fee + g > Huge THEN Huge ELSE Amount + m.fee + g
  BY <1>1, <1>2, <1>3, <1>4 DEF AddSaturating
<1>8. /\ e.fee \in Nat /\ e.fee <= Huge /\ e.cost \in Nat /\ e.cost <= Huge
  BY <1>1, <1>2, <1>6, <1>7
<1>9. Fits(e) => /\ m.fee + g < Huge /\ Amount + m.fee < Huge /\ e.fee = m.fee + g
                 /\ CarriedBefore(c, d, m) = Amount + e.fee
  BY <1>1, <1>2, <1>5, <1>7
<1>10. e.cost < Huge => e.cost = m.cost + g + u
  BY <1>1, <1>2, <1>6, <1>7
<1> QED
  BY <1>2, <1>3, <1>8, <1>9, <1>10 DEF g, e, s

LEMMA SaturatedGrows ==
  ASSUME NEW a \in Nat, NEW b \in Nat, a <= b, NEW u \in Nat, NEW v \in Nat, u <= v
  PROVE  AddSaturating(a, u) <= AddSaturating(b, v)
BY DEF AddSaturating

\* One label is ahead of another, for a channel before both.
Ahead(c, d1, m1, d2, m2) ==
  /\ m1.hops <= m2.hops /\ m1.fee <= m2.fee
  /\ AddSaturating(m1.fee, ComputeFee(d1, Amount + m1.fee))
       <= AddSaturating(m2.fee, ComputeFee(d2, Amount + m2.fee))
  /\ m2.fee + Charge(c, d2, Amount + m2.fee) < Huge /\ Amount + m2.fee < Huge =>
       m1.cost + Charge(c, d1, Amount + m1.fee) <= m2.cost + Charge(c, d2, Amount + m2.fee)

\* Then its mark with that channel is ahead as well.
LEMMA PutGrows ==
  ASSUME policy \in Graphs, req \in Requests, FeesLeaveRoom, NEW c \in AllChannels,
         NEW d1 \in Inside, NEW m1, IsMark(m1), NEW d2 \in Inside, NEW m2, IsMark(m2),
         Ahead(c, d1, m1, d2, m2), NEW u1 \in Nat, NEW u2 \in Nat,
         Fits(Put(c, d2, m2, u2))
  PROVE  /\ Fits(Put(c, d1, m1, u1))
         /\ Put(c, d1, m1, u1).hops <= Put(c, d2, m2, u2).hops
         /\ Put(c, d1, m1, u1).fee <= Put(c, d2, m2, u2).fee
         /\ u1 <= u2 => Put(c, d1, m1, u1).cost <= Put(c, d2, m2, u2).cost
         /\ CarriedBefore(c, d1, m1) \in Nat /\ CarriedBefore(c, d2, m2) \in Nat
         /\ Amount <= CarriedBefore(c, d1, m1)
         /\ CarriedBefore(c, d1, m1) <= CarriedBefore(c, d2, m2)
<1> DEFINE g1 == Charge(c, d1, Amount + m1.fee)
           g2 == Charge(c, d2, Amount + m2.fee)
           e1 == Put(c, d1, m1, u1)
           e2 == Put(c, d2, m2, u2)
<1>1. /\ m1.hops \in Nat /\ m1.fee \in Nat /\ m1.cost \in Nat
      /\ m2.hops \in Nat /\ m2.fee \in Nat /\ m2.cost \in Nat /\ m2.fee <= MaxFee
      /\ Amount \in Nat /\ Huge \in Nat /\ MaxFee \in Int
  BY MarkFields, MaxFeeIsInt
<1>2. /\ g1 \in Nat /\ e1.hops = m1.hops + 1 /\ e1.fee = AddSaturating(m1.fee, g1)
      /\ e1.cost = AddSaturating(AddSaturating(m1.cost, g1), u1)
  BY PutFields
<1>3. /\ g2 \in Nat /\ e2.hops = m2.hops + 1
      /\ e2.cost = AddSaturating(AddSaturating(m2.cost, g2), u2)
      /\ m2.fee + g2 < Huge /\ Amount + m2.fee < Huge /\ e2.fee = m2.fee + g2
      /\ CarriedBefore(c, d2, m2) = Amount + e2.fee
  BY PutFields
<1>4. /\ m1.hops <= m2.hops /\ m1.fee <= m2.fee
      /\ AddSaturating(m1.fee, ComputeFee(d1, Amount + m1.fee))
           <= AddSaturating(m2.fee, ComputeFee(d2, Amount + m2.fee))
      /\ m1.cost + g1 <= m2.cost + g2
  BY <1>3 DEF Ahead
<1>5. m1.fee + g1 <= m2.fee + g2
  BY <1>1, <1>3, <1>4, FeeGrows
<1>6. e2.fee <= MaxFee /\ e2.fee < Huge /\ Amount + e2.fee < Huge
  BY DEF Fits
<1>7. CarriedBefore(c, d1, m1) = AddSaturating(Amount + m1.fee, g1)
  BY DEF CarriedBefore
<1>8. Fits(e1) <=> e1.fee <= MaxFee /\ e1.fee < Huge /\ Amount + e1.fee < Huge
  BY DEF Fits
<1> HIDE DEF g1, g2, e1, e2
<1>9. e1.fee = m1.fee + g1
  BY <1>1, <1>2, <1>3, <1>5 DEF AddSaturating
<1>10. e1.fee <= e2.fee /\ e1.fee \in Nat /\ e2.fee \in Nat
  BY <1>1, <1>2, <1>3, <1>5, <1>9
<1>11. Fits(e1)
  BY <1>1, <1>6, <1>8, <1>10
<1>12. CarriedBefore(c, d1, m1) = Amount + e1.fee
  BY <1>1, <1>2, <1>6, <1>7, <1>9, <1>10 DEF AddSaturating
<1>13. AddSaturating(m1.cost, g1) <= AddSaturating(m2.cost, g2)
       /\ AddSaturating(m1.cost, g1) \in Nat /\ AddSaturating(m2.cost, g2) \in Nat
  BY <1>1, <1>2, <1>3, <1>4 DEF AddSaturating
<1>14. u1 <= u2 => e1.cost <= e2.cost
  BY <1>2, <1>3, <1>13, SaturatedGrows
<1>15. e1.hops <= e2.hops
  BY <1>1, <1>2, <1>3, <1>4
<1>16. /\ CarriedBefore(c, d1, m1) \in Nat /\ CarriedBefore(c, d2, m2) \in Nat
       /\ Amount <= CarriedBefore(c, d1, m1)
       /\ CarriedBefore(c, d1, m1) <= CarriedBefore(c, d2, m2)
  BY <1>1, <1>3, <1>10, <1>12
<1> QED
  BY <1>10, <1>11, <1>14, <1>15, <1>16 DEF e1, e2

LEMMA ReachesMore ==
  ASSUME policy \in Graphs, req \in Requests, risk \in Nat, FeesLeaveRoom, NoneTooSmall,
         NEW c \in Channels,
         NEW d1 \in Inside, NEW m1, IsMark(m1), NEW d2 \in Inside, NEW m2, IsMark(m2),
         Ahead(c, d1, m1, d2, m2), Reaches(c, d2, m2)
  PROVE  /\ Reaches(c, d1, m1)
         /\ NoWorse(Put(c, d1, m1, Doubt(c, d1, m1)), Put(c, d2, m2, Doubt(c, d2, m2)))
<1> DEFINE b1 == CarriedBefore(c, d1, m1)
           b2 == CarriedBefore(c, d2, m2)
           u1 == Doubt(c, d1, m1)
           u2 == Doubt(c, d2, m2)
           e1 == Put(c, d1, m1, u1)
           e2 == Put(c, d2, m2, u2)
<1>1. CanForward(c, b2) /\ Fits(e2) /\ e2.cost < Huge
  BY DEF Reaches
<1>2. c \in AllChannels
  BY InsideIs
<1>3. /\ b1 \in Nat /\ b2 \in Nat
  <2>1. \A d \in Inside : \A m : IsMark(m) => CarriedBefore(c, d, m) \in Nat
    <3> SUFFICES ASSUME NEW d \in Inside, NEW m, IsMark(m)
                 PROVE  CarriedBefore(c, d, m) \in Nat
      OBVIOUS
    <3>1. Charge(c, d, Amount + m.fee) \in Nat
      BY <1>2, PutFields
    <3>2. Amount + m.fee \in Nat
      BY MarkFields
    <3> QED
      BY <3>1, <3>2, SaturatedNat DEF CarriedBefore
  <2> QED
    BY <2>1
<1>4. u1 \in Nat /\ u2 \in Nat
  BY <1>2, <1>3, UncertaintyGrows DEF Doubt
<1> HIDE DEF u1, u2
<1>5. /\ Fits(e1) /\ e1.hops <= e2.hops /\ e1.fee <= e2.fee
      /\ u1 <= u2 => e1.cost <= e2.cost
      /\ Amount <= b1 /\ b1 <= b2
  BY <1>1, <1>2, <1>4, PutGrows
<1>6. u1 <= u2
  BY <1>2, <1>3, <1>5, UncertaintyGrows DEF Doubt, u1, u2
<1>7. CanForward(c, b1)
  <2>1. policy[c] \in Policies
    BY <1>2
  <2>2. policy[c].min \in Nat /\ policy[c].liquidity \in Nat /\ policy[c].min <= Amount
    BY <2>1 DEF Policies, NoneTooSmall
  <2>3. policy[c].active /\ b2 <= policy[c].liquidity
    BY <1>1 DEF CanForward
  <2> HIDE DEF b1, b2
  <2>4. b1 \in policy[c].min .. policy[c].liquidity
    BY <1>3, <1>5, <2>2, <2>3
  <2> QED
    BY <2>3, <2>4 DEF CanForward
<1>8. e1.cost \in Nat /\ e2.cost \in Nat
  BY <1>2, <1>4, PutFields
<1>9. e1.cost < Huge /\ NoWorse(e1, e2)
  BY <1>1, <1>5, <1>6, <1>8 DEF NoWorse
<1> QED
  BY <1>5, <1>7, <1>9 DEF Reaches, u1, u2

\* An expansion that covers another: nothing is priced lower from the other.
LEMMA CoversAhead ==
  ASSUME policy \in Graphs, req \in Requests, FeesLeaveRoom, NEW c \in AllChannels,
         NEW d1 \in Inside, NEW m1, IsMark(m1), NEW d2 \in Inside, NEW m2, IsMark(m2),
         Covers(ExpansionOf(d1, m1), ExpansionOf(d2, m2))
  PROVE  Ahead(c, d1, m1, d2, m2)
<1> DEFINE g1 == Charge(c, d1, Amount + m1.fee)
           g2 == Charge(c, d2, Amount + m2.fee)
<1>1. /\ m1.hops \in Nat /\ m1.fee \in Nat /\ m1.cost \in Nat
      /\ m2.hops \in Nat /\ m2.fee \in Nat /\ m2.cost \in Nat /\ m2.fee <= MaxFee
  BY MarkFields
<1>2. /\ m1.hops <= m2.hops /\ m1.fee <= m2.fee
      /\ AddSaturating(m1.fee, ComputeFee(d1, Amount + m1.fee))
           <= AddSaturating(m2.fee, ComputeFee(d2, Amount + m2.fee))
      /\ m1.cost - m1.fee <= m2.cost - m2.fee
  BY DEF Covers, ExpansionOf
<1>3. ASSUME m2.fee + g2 < Huge, Amount + m2.fee < Huge
      PROVE  m1.cost + g1 <= m2.cost + g2
  <2>1. g1 \in Nat /\ g2 \in Nat /\ m1.fee + g1 <= m2.fee + g2
    BY <1>1, <1>2, <1>3, FeeGrows
  <2> HIDE DEF g1, g2
  <2> QED
    BY <1>1, <1>2, <2>1
<1> QED
  BY <1>2, <1>3 DEF Ahead

\* A mark no worse than another on the same channel: nothing is priced lower
\* from the other, if charges grow or fees are all that counts.
LEMMA NoWorseAhead ==
  ASSUME policy \in Graphs, req \in Requests, risk \in Nat, FeesLeaveRoom,
         risk > 0 => ChargesGrow,
         NEW d \in Inside, NEW c \in Channels \cup {Out}, To[c] = From[d],
         NEW m1, IsMark(m1), NEW m2, IsMark(m2), NoWorse(m1, m2)
  PROVE  Ahead(c, d, m1, d, m2)
<1> DEFINE a1 == Amount + m1.fee
           a2 == Amount + m2.fee
           g1 == Charge(c, d, a1)
           g2 == Charge(c, d, a2)
<1>1. /\ m1.hops \in Nat /\ m1.fee \in Nat /\ m1.cost \in Nat /\ m1.fee <= MaxFee
      /\ m2.hops \in Nat /\ m2.fee \in Nat /\ m2.cost \in Nat /\ m2.fee <= MaxFee
      /\ risk = 0 => m1.cost = m1.fee /\ m2.cost = m2.fee
  BY MarkFields
<1>2. m1.hops <= m2.hops /\ m1.fee <= m2.fee /\ m1.cost <= m2.cost
  BY DEF NoWorse
<1>3. c \in AllChannels /\ d \in AllChannels
  BY InsideIs
<1>4. a1 \in Nat /\ a2 \in Nat /\ a1 <= a2
  BY <1>1, <1>2
<1>5. /\ ComputeFee(d, a1) \in Nat /\ ComputeFee(d, a2) \in Nat
      /\ ComputeFee(d, a1) <= ComputeFee(d, a2)
  BY <1>3, <1>4, OutboundGrows
<1>6. AddSaturating(m1.fee, ComputeFee(d, a1)) <= AddSaturating(m2.fee, ComputeFee(d, a2))
  BY <1>1, <1>2, <1>5, SaturatedGrows
<1>7. g1 \in Nat /\ g2 \in Nat
  BY <1>3, <1>4, ChargeNat
<1>8. ASSUME m2.fee + g2 < Huge, a2 < Huge
      PROVE  m1.cost + g1 <= m2.cost + g2
  <2>1. CASE risk = 0
    <3>1. m1.fee + g1 <= m2.fee + g2
      BY <1>1, <1>2, <1>3, <1>6, <1>8, FeeGrows
    <3> QED
      BY <1>1, <2>1, <3>1
  <2>2. CASE risk # 0
    <3>1. a1 \in Amount .. Amount + MaxFee /\ a2 \in Amount .. Amount + MaxFee
      BY <1>1, MaxFeeIsInt
    <3>2. g1 <= g2
      BY <1>4, <2>2, <3>1 DEF ChargesGrow
    <3> HIDE DEF g1, g2
    <3> QED
      BY <1>1, <1>2, <1>7, <3>2
  <2> QED
    BY <2>1, <2>2
<1> QED
  BY <1>2, <1>6, <1>8 DEF Ahead

LEMMA NoWorseOrder ==
  /\ \A m : IsMark(m) => NoWorse(m, m)
  /\ \A m1, m2, m3 : IsMark(m1) /\ IsMark(m2) /\ IsMark(m3)
       /\ NoWorse(m1, m2) /\ NoWorse(m2, m3) => NoWorse(m1, m3)
BY DEF NoWorse, IsMark

\* The expansions kept, which come from marks.
IsExpansion(x) == x.hops \in Nat /\ x.fee \in Nat /\ x.withOutbound \in Nat /\ x.uncertainty \in Nat

LEMMA CoversOrder ==
  /\ \A x : IsExpansion(x) => Covers(x, x)
  /\ \A x, y, z : IsExpansion(x) /\ IsExpansion(y) /\ IsExpansion(z)
       /\ Covers(x, y) /\ Covers(y, z) => Covers(x, z)
BY DEF Covers, IsExpansion

LEMMA ExpansionType ==
  ASSUME policy \in Graphs, NEW d \in Inside, NEW m, IsMark(m)
  PROVE  IsExpansion(ExpansionOf(d, m)) /\ MarkOf(ExpansionOf(d, m)).cost = m.cost
         /\ MarkOf(ExpansionOf(d, m)).fee = m.fee /\ MarkOf(ExpansionOf(d, m)).hops = m.hops
<1>1. /\ m.hops \in Nat /\ m.fee \in Nat /\ m.cost \in Nat /\ m.fee <= m.cost
  BY MarkFields
<1>2. ComputeFee(d, Amount + m.fee) \in Nat
  <2>1. d \in AllChannels /\ Amount + m.fee \in Nat
    BY <1>1, InsideIs
  <2> QED
    BY <2>1, OutboundGrows
<1>3. AddSaturating(m.fee, ComputeFee(d, Amount + m.fee)) \in Nat
  BY <1>1, <1>2, SaturatedNat
<1> QED
  BY <1>1, <1>3 DEF IsExpansion, ExpansionOf, MarkOf

\* A mark is a label's hops, fee and cost: a label extends as its mark does.
LEMMA MarkIs ==
  ASSUME NEW l
  PROVE  /\ Mark(l).hops = Hops(l) /\ Mark(l).fee = l.fee /\ Mark(l).cost = l.cost
         /\ Carried(l) = Amount + Mark(l).fee
         /\ Expansion(l) = ExpansionOf(Channel(l), Mark(l))
         /\ MarkOf(Expansion(l)).hops = Hops(l) /\ MarkOf(Expansion(l)).fee = l.fee
         /\ Affordable(l) <=> Fits(Mark(l))
         /\ \A c : Fee(c, l) = Charge(c, Channel(l), Amount + Mark(l).fee)
                   /\ AddSaturating(Carried(l), Fee(c, l)) = CarriedBefore(c, Channel(l), Mark(l))
<1>1. /\ Mark(l).hops = Hops(l) /\ Mark(l).fee = l.fee /\ Mark(l).cost = l.cost
      /\ Carried(l) = Amount + Mark(l).fee
  BY DEF Mark, Carried
<1>2. /\ Expansion(l) = ExpansionOf(Channel(l), Mark(l))
      /\ MarkOf(Expansion(l)).hops = Hops(l) /\ MarkOf(Expansion(l)).fee = l.fee
  BY DEF Mark, Expansion, ExpansionOf, MarkOf, Outbound, Carried
<1>3. Affordable(l) <=> Fits(Mark(l))
  BY <1>1 DEF Affordable, Fits
<1>4. \A c : Fee(c, l) = Charge(c, Channel(l), Amount + Mark(l).fee)
             /\ AddSaturating(Carried(l), Fee(c, l)) = CarriedBefore(c, Channel(l), Mark(l))
  BY <1>1 DEF Fee, CarriedBefore
<1> QED
  BY <1>1, <1>2, <1>3, <1>4, Zenon

\* The label that puts c before l has the mark of c put before l's.
LEMMA ExtendedIs ==
  ASSUME NEW l, Sound(l), NEW c \in AllChannels, NEW u, NEW final \in BOOLEAN
  PROVE  /\ Mark(Extended(c, l, u, final)) = Put(c, Channel(l), Mark(l), u)
         /\ Channel(Extended(c, l, u, final)) = c
         /\ Hops(Extended(c, l, u, final)) = Hops(l) + 1
         /\ Extended(c, l, u, final).delay = DelayAt(l)
<1> DEFINE e == Extended(c, l, u, final)
<1>1. l.path \in Seq(AllChannels) /\ Len(l.path) \in Nat
  BY LabelType DEF Sound, OnTheWay
<1>2. /\ e.path = <<c>> \o l.path /\ e.fee = AddSaturating(l.fee, Fee(c, l))
      /\ e.cost = AddSaturating(AddSaturating(l.cost, Fee(c, l)), u)
      /\ e.delay = DelayAt(l)
  BY DEF Extended
<1>3. /\ Len(e.path) = Len(l.path) + 1 /\ e.path \in Seq(AllChannels) /\ e.path[1] = c
  BY <1>1, <1>2, Prepend
<1>4. e.path # <<>>
  BY <1>1, <1>3, EmptySeq
<1> HIDE DEF e
<1>5. Hops(e) = Hops(l) + 1 /\ Channel(e) = c
  BY <1>3, <1>4 DEF Hops, Channel
<1>6. Mark(e) = [hops |-> Hops(l) + 1, fee |-> e.fee, cost |-> e.cost]
  BY <1>5 DEF Mark
<1>7. Mark(l).hops = Hops(l) /\ Mark(l).fee = l.fee /\ Mark(l).cost = l.cost
      /\ Fee(c, l) = Charge(c, Channel(l), Amount + Mark(l).fee)
  BY MarkIs
<1>8. Mark(e) = Put(c, Channel(l), Mark(l), u)
  BY <1>2, <1>6, <1>7 DEF Put
<1> QED
  BY <1>2, <1>5, <1>8 DEF e

LEMMA MaxFeeIsNat ==
  ASSUME req \in Requests
  PROVE  MaxFee \in Nat
<1> DEFINE k == (req.maxPPM + 1) * Amount
<1>1. k \in Nat /\ k >= 1
  <2>1. req.maxPPM + 1 \in Nat /\ req.maxPPM + 1 >= 1 /\ Amount \in Nat /\ Amount >= 1
    OBVIOUS
  <2> DEFINE r == req.maxPPM + 1
  <2>2. r \in Nat /\ r >= 1 /\ k = r * Amount
    BY <2>1
  <2> HIDE DEF r, k
  <2>3. r * Amount \in Nat /\ r * Amount >= Amount
    BY <2>1, <2>2
  <2> QED
    BY <2>1, <2>2, <2>3
<1> HIDE DEF k
<1>2. k - 1 \in Nat
  BY <1>1
<1> DEFINE j == k - 1
<1> HIDE DEF j
<1>3. j \in Nat
  BY <1>2 DEF j
<1>4. j \div Unit \in Nat
  BY <1>3
<1> QED
  BY <1>4 DEF MaxFee, MaxFeeForPPM, j, k

\* Within the limits, what is put before a mark has one.
LEMMA PutMark ==
  ASSUME policy \in Graphs, NEW c \in AllChannels, NEW d \in Inside, NEW m, IsMark(m),
         NEW u \in Nat, risk = 0 => u = 0, Fits(Put(c, d, m, u))
  PROVE  IsMark(Put(c, d, m, u))
<1> DEFINE g == Charge(c, d, Amount + m.fee)
           e == Put(c, d, m, u)
<1>1. /\ m.hops \in Nat /\ m.fee \in Nat /\ m.cost \in Nat /\ m.hops >= 1
      /\ m.fee <= m.cost /\ (risk = 0 => m.cost = m.fee) /\ Huge \in Nat
  BY MarkFields
<1>2. /\ g \in Nat /\ e.hops = m.hops + 1 /\ e.fee = m.fee + g /\ m.fee + g < Huge
      /\ e.cost = AddSaturating(AddSaturating(m.cost, g), u) /\ e.cost \in Nat
  BY PutFields
<1>3. e.fee <= MaxFee
  BY DEF Fits
<1> DEFINE s == AddSaturating(m.cost, g)
<1> HIDE DEF g, e, s
<1>4. s = IF m.cost + g > Huge THEN Huge ELSE m.cost + g
  BY DEF AddSaturating, s
<1>5. e.cost = IF s + u > Huge THEN Huge ELSE s + u
  BY <1>2 DEF AddSaturating, s
<1>6. e.fee <= e.cost /\ (risk = 0 => e.cost = e.fee)
  BY <1>1, <1>2, <1>4, <1>5
<1>7. e.hops \in Nat /\ e.hops >= 1 /\ e.fee \in Nat
  BY <1>1, <1>2
<1> QED
  BY <1>2, <1>3, <1>6, <1>7 DEF IsMark, e

LEMMA DoubtType ==
  ASSUME policy \in Graphs, risk \in Nat, NEW c \in AllChannels, NEW d \in Inside,
         NEW m, IsMark(m)
  PROVE  Doubt(c, d, m) \in Nat /\ (risk = 0 => Doubt(c, d, m) = 0)
<1>1. Charge(c, d, Amount + m.fee) \in Nat /\ Amount + m.fee \in Nat
  BY PutFields, MarkFields
<1>2. CarriedBefore(c, d, m) \in Nat
  BY <1>1, SaturatedNat DEF CarriedBefore
<1>3. Uncertainty(c, CarriedBefore(c, d, m)) \in Nat
  BY <1>2, UncertaintyType
<1> QED
  BY <1>3 DEF Doubt, Uncertainty

LEMMA DelaysAre ==
  ASSUME policy \in Graphs
  PROVE  (\A d \in Delays : d \in Nat) /\ \A c \in Inside : policy[c].delay \in Delays
<1>1. \A c \in Inside : policy[c].delay \in Nat
  BY InsideIs, PolicyFields
<1> QED
  BY <1>1 DEF Delays

LEMMA StartMark ==
  ASSUME policy \in Graphs, req \in Requests
  PROVE  /\ IsMark(Mark(Start)) /\ Mark(Start).hops = 1 /\ Mark(Start).fee = 0
         /\ Mark(Start).cost = 0 /\ Channel(Start) = In /\ Ranked(Start)
<1>1. /\ Start.path = <<In>> /\ Start.fee = 0 /\ Start.cost = 0 /\ Start.final = FALSE
      /\ Start.delay = InitialDelay
  BY DEF Start, NoRoute
<1>2. Hops(Start) = 1 /\ Channel(Start) = In
  BY <1>1 DEF Hops, Channel
<1>3. Mark(Start).hops = 1 /\ Mark(Start).fee = 0 /\ Mark(Start).cost = 0
  BY <1>1, <1>2 DEF Mark
<1>4. IsMark(Mark(Start))
  BY <1>3, MaxFeeIsNat DEF IsMark
<1>5. MaxHops >= 1 /\ MaxHops \in Nat /\ InitialDelay \in Nat
  OBVIOUS
<1>6. Ranked(Start)
  <2>1. \A high \in Delays : Start.delay <= InitialDelay + (Hops(Start) - 1) * high
    <3> SUFFICES ASSUME NEW high \in Delays
                 PROVE  Start.delay <= InitialDelay + (Hops(Start) - 1) * high
      OBVIOUS
    <3>1. high \in Nat
      BY DelaysAre
    <3>2. (Hops(Start) - 1) * high = 0
      BY <1>2, <3>1
    <3> QED
      BY <1>1, <1>5, <3>2
  <2>2. Start.cost <= Huge
    BY <1>1
  <2> QED
    BY <1>2, <1>4, <1>5, <2>1, <2>2 DEF Ranked
<1> QED
  BY <1>2, <1>3, <1>4, <1>6

LEMMA ChannelInside ==
  ASSUME NEW l, Sound(l), ~l.final
  PROVE  Channel(l) \in Inside /\ Channel(l) \in AllChannels
<1>1. /\ Len(l.path) \in Nat \ {0} /\ Channel(l) = l.path[1] /\ Channel(l) \in AllChannels
  BY LabelType
<1>2. /\ l.path[Len(l.path)] = In
      /\ \A i \in 1 .. Len(l.path) - 1 : l.path[i] \in Channels
  BY DEF Sound, OnTheWay, Inner
<1>3. l.path[1] = In \/ l.path[1] \in Channels
  <2> DEFINE n == Len(l.path)
             p == l.path
  <2>1. /\ n \in Nat /\ n # 0 /\ p[n] = In
        /\ \A i \in 1 .. n - 1 : p[i] \in Channels
    BY <1>1, <1>2
  <2> HIDE DEF n, p
  <2>2. p[1] = In \/ p[1] \in Channels
    BY <2>1
  <2> QED
    BY <2>2 DEF p
<1> QED
  BY <1>1, <1>3 DEF Inside

\* So many channels of the slowest.
LEMMA DelayBounded ==
  ASSUME policy \in Graphs, NEW l, Sound(l), ~l.final, Ranked(l),
         NEW high \in Delays, \A d \in Delays : d <= high
  PROVE  Hops(l) \in Nat /\ DelayAt(l) \in Int /\ DelayAt(l) <= InitialDelay + Hops(l) * high
<1> DEFINE h == Hops(l)
           d == policy[Channel(l)].delay
<1>1. d \in Delays /\ d \in Nat /\ high \in Nat /\ d <= high
  BY ChannelInside, DelaysAre
<1>2. l.delay \in Int
  BY DEF Sound, Timed
<1>3. h \in Nat
  BY MarkIs, MarkFields DEF Ranked
<1>4. l.delay <= InitialDelay + (h - 1) * high
  BY DEF Ranked
<1>5. DelayAt(l) = l.delay + d
  BY DEF DelayAt
<1> HIDE DEF h, d
<1>6. (h - 1) * high + high = h * high /\ (h - 1) * high \in Int /\ h * high \in Int
  BY <1>1, <1>3
<1>7. DelayAt(l) \in Int /\ DelayAt(l) <= InitialDelay + h * high
  <2> DEFINE x == (h - 1) * high
             y == h * high
  <2>1. x \in Int /\ y \in Int /\ x + high = y
    BY <1>6
  <2>2. l.delay <= InitialDelay + x
    BY <1>4
  <2> HIDE DEF x, y
  <2>3. DelayAt(l) \in Int /\ DelayAt(l) <= InitialDelay + y
    BY <1>1, <1>2, <1>5, <2>1, <2>2
  <2> QED
    BY <2>3 DEF y
<1> QED
  BY <1>3, <1>7 DEF h

\* A label past the limit on delay has too many channels, whichever they are.
LEMMA DelayTold ==
  ASSUME policy \in Graphs, LengthTellsDelay, NEW l, Sound(l), ~l.final, Ranked(l),
         DelayAt(l) > MaxDelay
  PROVE  Late(Hops(l))
<1>1. PICK low \in Delays, high \in Delays :
           /\ \A d \in Delays : d \in low .. high
           /\ \A h \in 1 .. MaxHops :
                InitialDelay + h * high <= MaxDelay \/ InitialDelay + h * low > MaxDelay
  BY DEF LengthTellsDelay
<1>2. low \in Nat /\ high \in Nat /\ \A d \in Delays : d \in Nat
  BY DelaysAre
<1>3. \A d \in Delays : low <= d /\ d <= high
  BY <1>1, <1>2
<1>4. /\ Hops(l) \in Nat /\ DelayAt(l) \in Int
      /\ DelayAt(l) <= InitialDelay + Hops(l) * high
  BY <1>3, DelayBounded
<1>5. Hops(l) >= 1 /\ Hops(l) <= MaxHops
  BY MarkIs, MarkFields DEF Ranked
<1>6. Hops(l) \in 1 .. MaxHops
  BY <1>4, <1>5
<1>7. ~(InitialDelay + Hops(l) * high <= MaxDelay)
  <2> DEFINE y == Hops(l) * high
  <2>1. y \in Int /\ DelayAt(l) <= InitialDelay + y
    BY <1>2, <1>4
  <2> HIDE DEF y
  <2>2. ~(InitialDelay + y <= MaxDelay)
    BY <1>4, <2>1
  <2> QED
    BY <2>2 DEF y
<1>8. InitialDelay + Hops(l) * low > MaxDelay
  BY <1>1, <1>6, <1>7
<1> QED
  BY <1>3, <1>8 DEF Late

\* The labels an expansion and a completion put in the heap are ranked.
LEMMA ExtendedRanked ==
  ASSUME policy \in Graphs, risk \in Nat, NEW l, Sound(l), ~l.final, Ranked(l),
         Hops(l) + 1 <= MaxHops, NEW c \in Channels,
         Reaches(c, Channel(l), Mark(l))
  PROVE  Ranked(Extended(c, l, Doubt(c, Channel(l), Mark(l)), FALSE))
<1> DEFINE u == Doubt(c, Channel(l), Mark(l))
           e == Extended(c, l, u, FALSE)
           m == Put(c, Channel(l), Mark(l), u)
<1>1. Channel(l) \in Inside /\ c \in AllChannels /\ IsMark(Mark(l)) /\ c # In
  BY ChannelInside, InsideIs DEF Ranked
<1>2. u \in Nat /\ (risk = 0 => u = 0)
  BY <1>1, DoubtType
<1>3. Fits(m)
  BY DEF Reaches
<1> HIDE DEF u
<1>4. IsMark(m) /\ m.cost <= Huge
  <2>1. IsMark(m)
    BY <1>1, <1>2, <1>3, PutMark
  <2>2. m.cost <= Huge
    BY <1>1, <1>2, PutFields
  <2> QED
    BY <2>1, <2>2
<1>5. /\ Mark(e) = m /\ Channel(e) = c /\ Hops(e) = Hops(l) + 1
      /\ e.delay = DelayAt(l)
  BY <1>1, ExtendedIs
<1>6. e.cost = m.cost
  BY <1>5, MarkIs
<1> HIDE DEF m, e
<1>7. ASSUME NEW high \in Delays, \A d \in Delays : d <= high
      PROVE  e.delay <= InitialDelay + (Hops(e) - 1) * high
  <2>1. Hops(l) \in Nat /\ DelayAt(l) <= InitialDelay + Hops(l) * high
    BY <1>7, DelayBounded
  <2>2. Hops(e) - 1 = Hops(l)
    BY <1>5, <2>1
  <2> QED
    BY <1>5, <2>1, <2>2
<1>8. Ranked(e)
  BY <1>1, <1>4, <1>5, <1>6, <1>7 DEF Ranked
<1> QED
  BY <1>8 DEF e, u

LEMMA CompletedRanked ==
  ASSUME policy \in Graphs, NEW l, Sound(l), ~l.final, Ranked(l),
         Affordable(Extended(Out, l, 0, TRUE))
  PROVE  Ranked(Extended(Out, l, 0, TRUE))
<1> DEFINE e == Extended(Out, l, 0, TRUE)
           m == Put(Out, Channel(l), Mark(l), 0)
<1>1. Channel(l) \in Inside /\ Out \in AllChannels /\ IsMark(Mark(l))
  BY ChannelInside, InsideIs DEF Ranked
<1>2. Mark(e) = m /\ e.final
  BY <1>1, ExtendedIs DEF Extended
<1>3. Fits(m) /\ e.cost = m.cost
  BY <1>2, MarkIs
<1>4. IsMark(m) /\ m.cost <= Huge
  <2>1. 0 \in Nat /\ (risk = 0 => 0 = 0)
    OBVIOUS
  <2>2. IsMark(m)
    BY <1>1, <1>3, <2>1, PutMark
  <2>3. m.cost <= Huge
    BY <1>1, <2>1, PutFields
  <2> QED
    BY <2>2, <2>3
<1> HIDE DEF m, e
<1>5. Ranked(e)
  BY <1>2, <1>3, <1>4 DEF Ranked
<1> QED
  BY <1>5 DEF e
-----------------------------------------------------------------------------
(***************************************************************************)
(* The steps of a search lose nothing.                                     *)
(***************************************************************************)
\* In a search, what marks and labels are does not change.
LEMMA MarksStay ==
  ASSUME policy' = policy, req' = req, risk' = risk, limit' = limit
  PROVE  /\ PathHops' = PathHops
         /\ \A m : IsMark(m)' <=> IsMark(m)
         /\ \A m : Fits(m)' <=> Fits(m)
         /\ \A h : Late(h)' <=> Late(h)
         /\ \A c, d, m, u : Put(c, d, m, u)' = Put(c, d, m, u)
         /\ \A c, d, m : Doubt(c, d, m)' = Doubt(c, d, m)
         /\ \A c, d, m : Reaches(c, d, m)' <=> Reaches(c, d, m)
         /\ \A d, m : ExpansionOf(d, m)' = ExpansionOf(d, m)
         /\ \A u : Into(u)' = Into(u)
         /\ \A l : Ranked(l)' <=> Ranked(l)
<1>1. \A c, d, a : Charge(c, d, a)' = Charge(c, d, a)
  BY ChargeStays
<1>2. PathHops' = PathHops /\ MaxFee' = MaxFee /\ Delays' = Delays
  BY DEF PathHops, MaxFee, MaxFeeForPPM, Delays
<1>3. \A m : IsMark(m)' <=> IsMark(m)
  BY <1>2 DEF IsMark
<1>4. \A m : Fits(m)' <=> Fits(m)
  BY <1>2 DEF Fits
<1>5. \A h : Late(h)' <=> Late(h)
  BY <1>2 DEF Late
<1>6. \A c, d, m, u : Put(c, d, m, u)' = Put(c, d, m, u)
  BY <1>1 DEF Put
<1>7. \A c, d, m : CarriedBefore(c, d, m)' = CarriedBefore(c, d, m)
  BY <1>1 DEF CarriedBefore
<1>8. \A c, d, m : Doubt(c, d, m)' = Doubt(c, d, m)
  BY <1>7 DEF Doubt, Uncertainty
<1>9. \A c, a : CanForward(c, a)' <=> CanForward(c, a)
  BY DEF CanForward
<1>10. \A c, d, m : Reaches(c, d, m)' <=> Reaches(c, d, m)
  BY <1>4, <1>6, <1>7, <1>8, <1>9 DEF Reaches
<1>11. \A d, m : ExpansionOf(d, m)' = ExpansionOf(d, m)
  BY DEF ExpansionOf, ComputeFee
<1>12. \A u : Into(u)' = Into(u)
  BY DEF Into
<1>13. \A l : Ranked(l)' <=> Ranked(l)
  BY <1>2, <1>3 DEF Ranked
<1> QED
  BY <1>2, <1>3, <1>4, <1>5, <1>6, <1>8, <1>10, <1>11, <1>12, <1>13

LEMMA KeptStays ==
  ASSUME policy' = policy, req' = req, risk' = risk, limit' = limit,
         Kept(labels', best', expanded')
  PROVE  NothingLost'
<1>1. /\ \A l \in labels' : Ranked(l)'
      /\ \A c \in Channels : \A m \in best'[c] :
           IsMark(m)' /\ \A k \in best'[c] : NoWorse(k, m) => k = m
  BY MarksStay DEF Kept
<1>2. \A d, m : Settled(labels, expanded, d, m)' <=> Settled(labels', expanded', d, m)
  <2>1. /\ PathHops' = PathHops
        /\ \A m : Fits(m)' <=> Fits(m)
        /\ \A h : Late(h)' <=> Late(h)
        /\ \A c, d, m, u : Put(c, d, m, u)' = Put(c, d, m, u)
        /\ \A d, m : ExpansionOf(d, m)' = ExpansionOf(d, m)
    BY MarksStay
  <2> QED
    BY <2>1 DEF Settled
<1>3. \A d, m : Pending(labels, d, m)' <=> Pending(labels', d, m)
  BY DEF Pending
<1>4. \A d : Marks(best, d)' = Marks(best', d)
  BY DEF Marks
<1>5. \A u, x : Spread(best, u, x)' <=> Spread(best', u, x)
  <2>1. /\ \A m : IsMark(m)' <=> IsMark(m)
        /\ \A c, d, m, u : Put(c, d, m, u)' = Put(c, d, m, u)
        /\ \A c, d, m : Doubt(c, d, m)' = Doubt(c, d, m)
        /\ \A c, d, m : Reaches(c, d, m)' <=> Reaches(c, d, m)
        /\ \A d, m : ExpansionOf(d, m)' = ExpansionOf(d, m)
        /\ \A u : Into(u)' = Into(u)
    BY MarksStay
  <2> QED
    BY <2>1 DEF Spread
<1>6. /\ \A d \in Inside : \A m \in Marks(best', d) :
           Pending(labels', d, m) \/ Settled(labels', expanded', d, m)
      /\ \A u \in Nodes : \A x \in expanded'[u] : Spread(best', u, x)
  BY DEF Kept
<1>7. /\ \A d \in Inside : \A m \in Marks(best, d)' :
           Pending(labels, d, m)' \/ Settled(labels, expanded, d, m)'
      /\ \A u \in Nodes : \A x \in expanded'[u] : Spread(best, u, x)'
  BY <1>2, <1>3, <1>4, <1>5, <1>6
<1> QED
  BY <1>1, <1>7 DEF NothingLost, Kept

\* A search that starts.
Fresh ==
  /\ policy \in Graphs /\ req \in Requests
  /\ best = [c \in Channels |-> {}] /\ expanded = [n \in Nodes |-> {}]
  /\ labels = {Start} \/ (labels = {} /\ limit = 1)

LEMMA FreshKept == Fresh => NothingLost
<1> SUFFICES ASSUME Fresh PROVE Kept(labels, best, expanded)
  BY DEF NothingLost
<1>1. policy \in Graphs /\ req \in Requests
  BY DEF Fresh
<1>2. Start.final = FALSE /\ Ranked(Start) /\ Channel(Start) = In /\ Mark(Start).hops = 1
  BY <1>1, StartMark DEF Start, NoRoute
<1>3. \A l \in labels : Ranked(l)
  BY <1>2 DEF Fresh
<1>4. /\ \A c \in Channels : best[c] = {}
      /\ \A u \in Nodes : expanded[u] = {}
  BY DEF Fresh
<1>5. Pending(labels, In, Mark(Start)) \/ Settled(labels, expanded, In, Mark(Start))
  <2>1. CASE labels = {Start}
    BY <1>2, <2>1 DEF Pending
  <2>2. CASE limit = 1
    <3>1. Put(Out, In, Mark(Start), 0).hops = 2
      BY <1>2 DEF Put
    <3>2. ~(2 <= limit) /\ Mark(Start).hops + 1 > PathHops
      BY <1>2, <2>2 DEF PathHops
    <3> QED
      BY <3>1, <3>2 DEF Settled
  <2> QED
    BY <2>1, <2>2 DEF Fresh
<1>6. \A d \in Inside : \A m \in Marks(best, d) :
        Pending(labels, d, m) \/ Settled(labels, expanded, d, m)
  BY <1>4, <1>5 DEF Inside, Marks
<1> QED
  BY <1>3, <1>4, <1>6 DEF Kept

LEMMA FreshKeptNext == Fresh' => NothingLost'
BY FreshKept, PTL

\* What the labels of a search are.
LEMMA LabelIs ==
  ASSUME SearchInv, NothingLost, NEW l \in labels, ~l.final
  PROVE  /\ Sound(l) /\ Ranked(l) /\ IsMark(Mark(l)) /\ l.cost <= Huge
         /\ Channel(l) \in Inside /\ Channel(l) \in AllChannels
         /\ From[Channel(l)] \in Nodes
<1>1. Sound(l) /\ Ranked(l)
  BY DEF SearchInv, NothingLost, Kept
<1>2. Channel(l) \in Inside /\ Channel(l) \in AllChannels
  BY <1>1, ChannelInside
<1> QED
  BY <1>1, <1>2 DEF Ranked, Nodes

\* The labels that stay, and what they are still to lead to, are kept.
LEMMA PendingStays ==
  ASSUME NEW l \in labels, NEW heap, labels \ {l} \subseteq heap,
         NEW d, NEW m, Pending(labels, d, m), ~(Channel(l) = d /\ Mark(l) = m)
  PROVE  Pending(heap, d, m)
BY DEF Pending

LEMMA SettledStays ==
  ASSUME NEW l \in labels, ~l.final, NEW heap, labels \ {l} \subseteq heap,
         NEW d, NEW m, Settled(labels, expanded, d, m)
  PROVE  Settled(heap, expanded, d, m)
BY DEF Settled

\* A label that is dropped is beaten by another, was covered, or can lead
\* nowhere.
LEMMA DropKept ==
  ASSUME SearchInv, Phase, WellPriced, NothingLost, NEW l \in labels, Drop(l)
  PROVE  NothingLost'
<1>1. /\ labels' = labels \ {l} /\ best' = best /\ expanded' = expanded /\ ~l.final
      /\ policy' = policy /\ req' = req /\ risk' = risk /\ limit' = limit
      /\ \/ Channel(l) # In /\ Beaten(l)
         \/ From[Channel(l)] # OutPeer /\ ~Expandable(l)
  BY DEF Drop
<1>2. /\ Sound(l) /\ Ranked(l) /\ IsMark(Mark(l)) /\ Channel(l) \in Inside
  BY <1>1, LabelIs
<1>3. /\ \A k \in labels : Ranked(k)
      /\ \A c \in Channels : \A m \in best[c] :
           IsMark(m) /\ \A k \in best[c] : NoWorse(k, m) => k = m
      /\ \A d \in Inside : \A m \in Marks(best, d) :
           Pending(labels, d, m) \/ Settled(labels, expanded, d, m)
      /\ \A u \in Nodes : \A x \in expanded[u] : Spread(best, u, x)
  BY DEF NothingLost, Kept
<1>4. ASSUME NEW d \in Inside, NEW m \in Marks(best, d)
      PROVE  Pending(labels \ {l}, d, m) \/ Settled(labels \ {l}, expanded, d, m)
  <2>1. CASE Settled(labels, expanded, d, m)
    BY <1>1, <2>1, SettledStays
  <2>2. CASE Pending(labels, d, m) /\ ~(Channel(l) = d /\ Mark(l) = m)
    BY <2>2, PendingStays
  <2>3. CASE Channel(l) = d /\ Mark(l) = m
    <3>1. CASE Channel(l) # In /\ Beaten(l)
      <4>1. d \in Channels /\ m \in best[d]
        BY <2>3, <3>1 DEF Inside, Marks
      <4>2. PICK k \in best[d] : NoWorse(k, m) /\ k # m
        BY <2>3, <3>1 DEF Beaten
      <4> QED
        BY <1>3, <4>1, <4>2
    <3>2. CASE From[Channel(l)] # OutPeer /\ ~Expandable(l)
      <4>1. m.hops = Hops(l) /\ Expansion(l) = ExpansionOf(d, m)
        BY <2>3, MarkIs
      <4>2. \/ ~(Hops(l) + 1 <= PathHops) \/ ~(DelayAt(l) <= MaxDelay)
            \/ \E x \in expanded[From[d]] : Covers(x, ExpansionOf(d, m))
        BY <2>3, <3>2, <4>1 DEF Expandable
      <4>3. CASE ~(Hops(l) + 1 <= PathHops)
        <5>1. Hops(l) \in Nat /\ PathHops \in Int
          BY <1>2, <2>3, <4>1, MarkFields DEF SearchInv, PathHops
        <5>2. m.hops + 1 > PathHops
          BY <4>1, <4>3, <5>1
        <5> QED
          BY <2>3, <3>2, <5>2 DEF Settled
      <4>4. CASE ~(DelayAt(l) <= MaxDelay)
        <5>1. DelayAt(l) \in Int
          <6>1. policy[Channel(l)].delay \in Nat /\ l.delay \in Int
            BY <1>2, InsideIs, PolicyFields DEF SearchInv, Sound, Timed
          <6> QED
            BY <6>1 DEF DelayAt
        <5>2. Late(Hops(l))
          BY <1>1, <1>2, <4>4, <5>1, DelayTold DEF SearchInv, WellPriced
        <5> QED
          BY <2>3, <3>2, <4>1, <5>2 DEF Settled
      <4>5. CASE \E x \in expanded[From[d]] : Covers(x, ExpansionOf(d, m))
        BY <2>3, <3>2, <4>5 DEF Settled
      <4> QED
        BY <4>2, <4>3, <4>4, <4>5
    <3> QED
      BY <1>1, <3>1, <3>2
  <2> QED
    BY <1>3, <2>1, <2>2, <2>3
<1>5. Kept(labels', best', expanded')
  BY <1>1, <1>3, <1>4 DEF Kept
<1> QED
  BY <1>1, <1>5, KeptStays

\* A label at the out-peer leads to the route it completes, if that fits.
LEMMA CompleteKept ==
  ASSUME SearchInv, Phase, WellPriced, NothingLost, NEW l \in labels, Complete(l)
  PROVE  NothingLost'
<1> DEFINE e == Extended(Out, l, 0, TRUE)
           fits == Hops(e) <= limit /\ Affordable(e) /\ e.delay <= MaxDelay
<1>1. /\ labels' = (labels \ {l}) \cup (IF fits THEN {e} ELSE {})
      /\ best' = best /\ expanded' = expanded /\ ~l.final
      /\ policy' = policy /\ req' = req /\ risk' = risk /\ limit' = limit
      /\ From[Channel(l)] = OutPeer
  BY DEF Complete
<1>2. /\ Sound(l) /\ Ranked(l) /\ IsMark(Mark(l)) /\ Channel(l) \in Inside
      /\ policy \in Graphs /\ Out \in AllChannels
  BY <1>1, LabelIs, InsideIs DEF SearchInv
<1>3. /\ \A k \in labels : Ranked(k)
      /\ \A c \in Channels : \A m \in best[c] :
           IsMark(m) /\ \A k \in best[c] : NoWorse(k, m) => k = m
      /\ \A d \in Inside : \A m \in Marks(best, d) :
           Pending(labels, d, m) \/ Settled(labels, expanded, d, m)
      /\ \A u \in Nodes : \A x \in expanded[u] : Spread(best, u, x)
  BY DEF NothingLost, Kept
<1>4. /\ Mark(e) = Put(Out, Channel(l), Mark(l), 0) /\ e.final /\ Hops(e) = Hops(l) + 1
      /\ e.delay = DelayAt(l)
  BY <1>2, ExtendedIs DEF Extended
<1>5. Affordable(e) => Ranked(e)
  BY <1>1, <1>2, CompletedRanked
<1>6. labels \ {l} \subseteq labels' /\ \A k \in labels' : Ranked(k)
  BY <1>1, <1>3, <1>5
<1>7. ASSUME NEW d \in Inside, NEW m \in Marks(best, d)
      PROVE  Pending(labels', d, m) \/ Settled(labels', expanded, d, m)
  <2>1. CASE Settled(labels, expanded, d, m)
    <3> HIDE DEF e, fits
    <3> QED
      BY <1>1, <1>6, <2>1, SettledStays
  <2>2. CASE Pending(labels, d, m) /\ ~(Channel(l) = d /\ Mark(l) = m)
    <3> HIDE DEF e, fits
    <3> QED
      BY <1>6, <2>2, PendingStays
  <2>3. CASE Channel(l) = d /\ Mark(l) = m
    <3>1. m.hops = Hops(l) /\ Mark(e).hops = Hops(e) /\ (Affordable(e) <=> Fits(Mark(e)))
      BY <2>3, MarkIs
    <3> DEFINE x == Put(Out, d, m, 0)
    <3>2. Mark(e) = x
      BY <1>4, <2>3
    <3>3. ~Late(m.hops) => e.delay <= MaxDelay
      <4>1. DelayAt(l) \in Int
        <5>1. policy[Channel(l)].delay \in Nat /\ l.delay \in Int
          BY <1>2, InsideIs, PolicyFields DEF Sound, Timed
        <5> QED
          BY <5>1 DEF DelayAt
      <4>2. DelayAt(l) > MaxDelay => Late(Hops(l))
        BY <1>1, <1>2, DelayTold DEF WellPriced
      <4>3. e.delay = DelayAt(l)
        BY <1>4
      <4> HIDE DEF e
      <4> QED
        BY <3>1, <4>1, <4>2, <4>3
    <3> HIDE DEF e, x
    <3>4. ASSUME x.hops <= limit, Fits(x), ~Late(m.hops)
          PROVE  \E k \in labels' : k.final /\ Mark(k) = x
      <4>1. e \in labels'
        BY <1>1, <3>1, <3>2, <3>3, <3>4
      <4> QED
        BY <1>4, <3>2, <4>1
    <3> QED
      BY <1>1, <2>3, <3>4 DEF Settled, x
  <2> QED
    BY <1>3, <2>1, <2>2, <2>3
<1>8. Kept(labels', best', expanded')
  <2> HIDE DEF e, fits
  <2> QED
    BY <1>1, <1>3, <1>6, <1>7 DEF Kept
<1> QED
  BY <1>1, <1>8, KeptStays

\* The label that puts c before l, weighed as the search does.
Before(c, l) == Extended(c, l, Doubt(c, Channel(l), Mark(l)), FALSE)

LEMMA BeforeIs ==
  ASSUME policy \in Graphs, NEW l, Sound(l), NEW c \in Channels
  PROVE  /\ Mark(Before(c, l)) = Put(c, Channel(l), Mark(l), Doubt(c, Channel(l), Mark(l)))
         /\ Channel(Before(c, l)) = c /\ ~Before(c, l).final
BY InsideIs, ExtendedIs DEF Before, Extended

LEMMA ExtensionsAre ==
  ASSUME policy \in Graphs, NEW l, Sound(l)
  PROVE  Extensions(l) =
           {e \in {Before(c, l) : c \in {x \in Into(From[Channel(l)]) :
                                           Reaches(x, Channel(l), Mark(l))}} :
              ~Dominated(e)}
<1> DEFINE D == Channel(l)
           M == Mark(l)
           charged(c) == AddSaturating(Carried(l), Fee(c, l))
           ext(c) == Extended(c, l, Uncertainty(c, charged(c)), FALSE)
           into == {c \in Channels : /\ To[c] = From[D]
                                     /\ From[c] \notin req.exclude \cup {Self, InPeer}
                                     /\ c \notin req.exclude
                                     /\ CanForward(c, charged(c))}
<1>1. Extensions(l) = {e \in {ext(c) : c \in into} :
                         Affordable(e) /\ e.cost < Huge /\ ~Dominated(e)}
  BY DEF Extensions
<1>2. ASSUME NEW c \in Channels
      PROVE  /\ charged(c) = CarriedBefore(c, D, M) /\ ext(c) = Before(c, l)
             /\ (Affordable(Before(c, l)) <=> Fits(Put(c, D, M, Doubt(c, D, M))))
             /\ Before(c, l).cost = Put(c, D, M, Doubt(c, D, M)).cost
  <2>1. charged(c) = CarriedBefore(c, D, M)
    BY MarkIs
  <2>2. ext(c) = Before(c, l)
    BY <2>1 DEF Before, Doubt
  <2>3. Mark(Before(c, l)) = Put(c, D, M, Doubt(c, D, M))
    BY BeforeIs
  <2>4. /\ Affordable(Before(c, l)) <=> Fits(Mark(Before(c, l)))
        /\ Mark(Before(c, l)).cost = Before(c, l).cost
    BY MarkIs
  <2> QED
    BY <2>1, <2>2, <2>3, <2>4
<1>3. into = {c \in Into(From[D]) : CanForward(c, CarriedBefore(c, D, M))}
  BY <1>2 DEF Into
<1> HIDE DEF into, charged, ext
<1>4. \A c \in Into(From[D]) : c \in Channels
  BY DEF Into
<1>5. \A e : e \in Extensions(l) <=>
        \E c \in Into(From[D]) : /\ CanForward(c, CarriedBefore(c, D, M)) /\ e = Before(c, l)
                                 /\ Affordable(e) /\ e.cost < Huge /\ ~Dominated(e)
  BY <1>1, <1>2, <1>3, <1>4
<1>6. \A c \in Into(From[D]) :
        Reaches(c, D, M) <=> /\ CanForward(c, CarriedBefore(c, D, M))
                             /\ Affordable(Before(c, l)) /\ Before(c, l).cost < Huge
  BY <1>2, <1>4 DEF Reaches
<1>7. \A e : e \in Extensions(l) <=>
        \E c \in Into(From[D]) : Reaches(c, D, M) /\ e = Before(c, l) /\ ~Dominated(e)
  BY <1>5, <1>6
<1> QED
  BY <1>7

\* An expansion marks each channel it reaches, unless a mark there beats it;
\* the marks it takes away are beaten by the one it adds.
LEMMA ExpandMarks ==
  ASSUME SearchInv, NothingLost, NEW l \in labels, Expand(l), NEW c \in Channels
  PROVE  \/ best'[c] = best[c] /\ Before(c, l) \notin Extensions(l)
         \/ /\ best'[c] = Record(best[c], Mark(Before(c, l)))
            /\ Before(c, l) \in Extensions(l)
<1>1. ~l.final /\ policy \in Graphs
  BY DEF Expand, SearchInv
<1>2. Sound(l)
  BY <1>1, LabelIs
<1>3. best'[c] = IF \E e \in Extensions(l) : Channel(e) = c
                 THEN Record(best[c], Mark(CHOOSE e \in Extensions(l) : Channel(e) = c))
                 ELSE best[c]
  BY DEF Expand
<1>4. \A e \in Extensions(l) : Channel(e) = c => e = Before(c, l)
  <2> SUFFICES ASSUME NEW e \in Extensions(l), Channel(e) = c
               PROVE  e = Before(c, l)
    OBVIOUS
  <2>1. PICK x \in Into(From[Channel(l)]) : e = Before(x, l)
    BY <1>1, <1>2, ExtensionsAre
  <2>2. x \in Channels
    BY DEF Into
  <2>3. Channel(e) = x
    BY <1>1, <1>2, <2>1, <2>2, BeforeIs
  <2> QED
    BY <2>1, <2>3
<1>5. Channel(Before(c, l)) = c
  BY <1>1, <1>2, BeforeIs
<1>6. CASE Before(c, l) \in Extensions(l)
  <2>1. (CHOOSE e \in Extensions(l) : Channel(e) = c) = Before(c, l)
    BY <1>4, <1>5, <1>6
  <2> QED
    BY <1>3, <1>5, <1>6, <2>1
<1>7. CASE Before(c, l) \notin Extensions(l)
  BY <1>3, <1>4, <1>7
<1> QED
  BY <1>6, <1>7

\* A label that is expanded: its extensions are in the heap, its expansion among
\* those of its node, and no channel loses a mark but to a better one.
LEMMA ExpandKept ==
  ASSUME SearchInv, Phase, WellPriced, NothingLost, NEW l \in labels, Expand(l)
  PROVE  NothingLost'
<1> DEFINE D == Channel(l)
           M == Mark(l)
           X == Expansion(l)
<1>1. /\ labels' = (labels \ {l}) \cup Extensions(l) /\ ~l.final
      /\ expanded' = [expanded EXCEPT ![From[D]] = {x \in @ : ~Covers(X, x)} \cup {X}]
      /\ policy' = policy /\ req' = req /\ risk' = risk /\ limit' = limit
      /\ From[D] # OutPeer /\ Hops(l) + 1 <= PathHops
  BY DEF Expand, Expandable
<1>2. /\ Sound(l) /\ Ranked(l) /\ IsMark(M) /\ D \in Inside /\ From[D] \in Nodes
      /\ policy \in Graphs /\ req \in Requests /\ risk \in Nat
  BY <1>1, LabelIs DEF SearchInv, Phase
<1>3. /\ \A k \in labels : Ranked(k)
      /\ \A c \in Channels : \A m \in best[c] :
           IsMark(m) /\ \A k \in best[c] : NoWorse(k, m) => k = m
      /\ \A d \in Inside : \A m \in Marks(best, d) :
           Pending(labels, d, m) \/ Settled(labels, expanded, d, m)
      /\ \A u \in Nodes : \A x \in expanded[u] : Spread(best, u, x)
  BY DEF NothingLost, Kept
<1>4. Hops(l) + 1 <= MaxHops
  <2>1. limit \in Nat /\ limit <= req.maxHops /\ req.maxHops \in Nat /\ req.maxHops <= MaxHops
    BY <1>2 DEF SearchInv
  <2>2. Hops(l) \in Nat
    BY <1>2, MarkIs, MarkFields
  <2> QED
    BY <1>1, <2>1, <2>2 DEF PathHops
<1>5. ASSUME NEW c \in Into(From[D]), Reaches(c, D, M)
      PROVE  Ranked(Before(c, l))
  <2>1. c \in Channels
    BY DEF Into
  <2> QED
    BY <1>1, <1>2, <1>4, <1>5, <2>1, ExtendedRanked DEF Before
<1>6. ASSUME NEW e \in Extensions(l)
      PROVE  \E c \in Into(From[D]) :
               /\ c \in Channels /\ e = Before(c, l) /\ Reaches(c, D, M) /\ ~Dominated(e)
               /\ Ranked(e) /\ ~e.final /\ Channel(e) = c
  <2>1. PICK c \in Into(From[D]) : Reaches(c, D, M) /\ e = Before(c, l) /\ ~Dominated(e)
    BY <1>2, ExtensionsAre
  <2>2. c \in Channels
    BY DEF Into
  <2> QED
    BY <1>2, <1>5, <2>1, <2>2, BeforeIs
<1>7. /\ \A k \in labels' : Ranked(k)
      /\ labels \ {l} \subseteq labels'
  BY <1>1, <1>3, <1>6
<1>8. ASSUME NEW c \in Channels, NEW m \in best'[c]
      PROVE  m \in best[c] \/ (Before(c, l) \in Extensions(l) /\ m = Mark(Before(c, l)))
  BY ExpandMarks DEF Record
<1>9. ASSUME NEW c \in Channels, Before(c, l) \in Extensions(l)
      PROVE  /\ IsMark(Mark(Before(c, l)))
             /\ \A m \in best[c] : ~NoWorse(m, Mark(Before(c, l)))
  <2>1. Ranked(Before(c, l)) /\ ~Dominated(Before(c, l))
    BY <1>6, <1>9
  <2>2. Channel(Before(c, l)) = c
    BY <1>2, BeforeIs
  <2> QED
    BY <2>1, <2>2 DEF Ranked, Dominated
<1>10. ASSUME NEW c \in Channels, NEW m \in best'[c]
       PROVE  IsMark(m) /\ \A k \in best'[c] : NoWorse(k, m) => k = m
  <2> DEFINE new == Mark(Before(c, l))
  <2>1. CASE best'[c] = best[c]
    BY <1>3, <1>10, <2>1
  <2>2. CASE best'[c] # best[c]
    <3>1. Before(c, l) \in Extensions(l) /\ best'[c] = Record(best[c], new)
      BY <2>2, ExpandMarks
    <3>2. IsMark(new) /\ \A k \in best[c] : ~NoWorse(k, new)
      BY <1>9, <3>1
    <3>3. \A k \in best'[c] : k = new \/ (k \in best[c] /\ ~NoWorse(new, k))
      BY <3>1 DEF Record
    <3> HIDE DEF new
    <3> QED
      BY <1>3, <3>2, <3>3
  <2> QED
    BY <2>1, <2>2
<1>11. ASSUME NEW c \in Channels, NEW m \in best[c]
       PROVE  \E k \in best'[c] : IsMark(k) /\ NoWorse(k, m)
  <2> DEFINE new == Mark(Before(c, l))
  <2>1. CASE best'[c] = best[c]
    BY <1>3, <2>1, NoWorseOrder
  <2>2. CASE best'[c] # best[c]
    <3>1. Before(c, l) \in Extensions(l) /\ best'[c] = Record(best[c], new)
      BY <2>2, ExpandMarks
    <3>2. IsMark(new) /\ new \in best'[c]
      BY <1>9, <3>1 DEF Record
    <3>3. NoWorse(new, m) \/ m \in best'[c]
      BY <3>1 DEF Record
    <3> HIDE DEF new
    <3> QED
      BY <1>3, <3>2, <3>3, NoWorseOrder
  <2> QED
    BY <2>1, <2>2
<1>12. /\ X \in expanded'[From[D]] /\ IsExpansion(X) /\ X = ExpansionOf(D, M)
       /\ \A u \in Nodes : \A x \in expanded'[u] :
            x \in expanded[u] \/ (u = From[D] /\ x = X)
       /\ \A u \in Nodes : \A x \in expanded[u] :
            x \in expanded'[u] \/ (u = From[D] /\ Covers(X, x))
  <2>1. From[D] \in DOMAIN expanded /\ DOMAIN expanded = Nodes
    BY <1>2 DEF Phase
  <2>2. X = ExpansionOf(D, M) /\ IsExpansion(X)
    BY <1>2, MarkIs, ExpansionType
  <2> HIDE DEF X, D
  <2> QED
    BY <1>1, <2>1, <2>2
<1>13. ASSUME NEW d \in Inside, NEW m \in Marks(best, d)
       PROVE  Pending(labels', d, m) \/ Settled(labels', expanded', d, m)
  <2>1. CASE Settled(labels, expanded, d, m)
    <3>1. CASE From[d] = OutPeer
      <4>1. Settled(labels', expanded, d, m)
        BY <1>1, <1>7, <2>1, SettledStays
      <4> QED
        BY <3>1, <4>1 DEF Settled
    <3>2. CASE From[d] # OutPeer /\ (m.hops + 1 > PathHops \/ Late(m.hops))
      BY <3>2 DEF Settled
    <3>3. CASE From[d] # OutPeer /\ \E x \in expanded[From[d]] : Covers(x, ExpansionOf(d, m))
      <4>1. PICK x \in expanded[From[d]] : Covers(x, ExpansionOf(d, m))
        BY <3>3
      <4>2. From[d] \in Nodes
        BY InsideIs DEF Nodes
      <4>3. IsMark(m)
        <5>1. m = Mark(Start) \/ (d \in Channels /\ m \in best[d])
          BY DEF Marks, Inside
        <5> QED
          BY <1>2, <1>3, <5>1, StartMark
      <4>4. IsExpansion(x) /\ IsExpansion(ExpansionOf(d, m))
        <5>1. Spread(best, From[d], x)
          BY <1>3, <4>1, <4>2
        <5>2. PICK b \in Inside : IsMark(MarkOf(x)) /\ x = ExpansionOf(b, MarkOf(x))
          BY <5>1 DEF Spread
        <5>3. IsExpansion(ExpansionOf(b, MarkOf(x)))
          BY <1>2, <5>2, ExpansionType
        <5> QED
          BY <1>2, <4>3, <5>2, <5>3, ExpansionType
      <4>5. \E y \in expanded'[From[d]] : Covers(y, ExpansionOf(d, m))
        <5>1. CASE x \in expanded'[From[d]]
          BY <4>1, <5>1
        <5>2. CASE From[d] = From[D] /\ Covers(X, x)
          <6>1. Covers(X, ExpansionOf(d, m))
            BY <1>12, <4>1, <4>4, <5>2, CoversOrder
          <6> QED
            BY <1>12, <5>2, <6>1
        <5> QED
          BY <1>12, <4>1, <4>2, <5>1, <5>2
      <4> QED
        BY <3>3, <4>5 DEF Settled
    <3> QED
      BY <2>1, <3>1, <3>2, <3>3 DEF Settled
  <2>2. CASE Pending(labels, d, m) /\ ~(Channel(l) = d /\ Mark(l) = m)
    BY <1>7, <2>2, PendingStays
  <2>3. CASE Channel(l) = d /\ Mark(l) = m
    <3>1. Covers(X, ExpansionOf(d, m))
      BY <1>12, <2>3, CoversOrder
    <3>2. From[d] # OutPeer /\ X \in expanded'[From[d]]
      BY <1>1, <1>12, <2>3
    <3> QED
      BY <3>1, <3>2 DEF Settled
  <2> QED
    BY <1>3, <2>1, <2>2, <2>3
<1>14. ASSUME NEW d \in Inside, NEW m \in Marks(best', d)
       PROVE  Pending(labels', d, m) \/ Settled(labels', expanded', d, m)
  <2>1. CASE m \in Marks(best, d)
    BY <1>13, <2>1
  <2>2. CASE m \notin Marks(best, d)
    <3>1. d \in Channels /\ m \in best'[d] /\ m \notin best[d]
      BY <2>2 DEF Marks, Inside
    <3>2. Before(d, l) \in Extensions(l) /\ m = Mark(Before(d, l))
      BY <1>8, <3>1
    <3>3. Before(d, l) \in labels' /\ ~Before(d, l).final /\ Channel(Before(d, l)) = d
      BY <1>1, <1>2, <3>1, <3>2, BeforeIs
    <3> QED
      BY <3>2, <3>3 DEF Pending
  <2> QED
    BY <2>1, <2>2
<1>15. ASSUME NEW u \in Nodes, NEW x \in expanded[u]
       PROVE  Spread(best', u, x)
  <2> DEFINE m == MarkOf(x)
  <2>1. PICK d \in Inside :
             /\ From[d] = u /\ IsMark(m) /\ x = ExpansionOf(d, m)
             /\ \A c \in Into(u) : Reaches(c, d, m) =>
                  \E k \in best[c] : NoWorse(k, Put(c, d, m, Doubt(c, d, m)))
    BY <1>3 DEF Spread
  <2> HIDE DEF m
  <2>2. ASSUME NEW c \in Into(u), Reaches(c, d, m)
        PROVE  \E k \in best'[c] : NoWorse(k, Put(c, d, m, Doubt(c, d, m)))
    <3> DEFINE t == Put(c, d, m, Doubt(c, d, m))
    <3>1. c \in Channels /\ c \in AllChannels
      BY InsideIs DEF Into
    <3>2. PICK k \in best[c] : NoWorse(k, t)
      BY <2>1, <2>2
    <3>3. IsMark(t)
      <4> DEFINE v == Doubt(c, d, m)
      <4>1. v \in Nat /\ (risk = 0 => v = 0)
        BY <1>2, <2>1, <3>1, DoubtType
      <4>2. Fits(Put(c, d, m, v))
        BY <2>2 DEF Reaches
      <4> HIDE DEF v
      <4>3. IsMark(Put(c, d, m, v))
        BY <1>2, <2>1, <3>1, <4>1, <4>2, PutMark
      <4> QED
        BY <4>3 DEF v
    <3>4. PICK j \in best'[c] : IsMark(j) /\ NoWorse(j, k)
      BY <1>11, <3>1
    <3>5. IsMark(k)
      BY <1>3, <3>1
    <3> HIDE DEF t
    <3>6. NoWorse(j, t)
      BY <3>2, <3>3, <3>4, <3>5, NoWorseOrder
    <3> QED
      BY <3>6 DEF t
  <2> QED
    BY <2>1, <2>2 DEF Spread, m
<1>16. Spread(best', From[D], X)
  <2>1. MarkOf(X) = M
    <3>1. l.cost \in Nat /\ l.fee \in Nat
      BY <1>2, MarkIs, MarkFields
    <3>2. MarkOf(X) = [hops |-> Hops(l), fee |-> l.fee, cost |-> (l.cost - l.fee) + l.fee]
      BY DEF MarkOf, Expansion
    <3>3. (l.cost - l.fee) + l.fee = l.cost
      BY <3>1
    <3> QED
      BY <3>2, <3>3 DEF Mark
  <2>2. ASSUME NEW c \in Into(From[D]), Reaches(c, D, M)
        PROVE  \E k \in best'[c] : NoWorse(k, Put(c, D, M, Doubt(c, D, M)))
    <3>1. c \in Channels
      BY DEF Into
    <3>2. Mark(Before(c, l)) = Put(c, D, M, Doubt(c, D, M))
          /\ Channel(Before(c, l)) = c
      BY <1>2, <3>1, BeforeIs
    <3>3. CASE Before(c, l) \in Extensions(l)
      <4>1. Mark(Before(c, l)) \in best'[c]
        BY <3>1, <3>3, ExpandMarks DEF Record
      <4>2. IsMark(Mark(Before(c, l)))
        BY <1>9, <3>1, <3>3
      <4> QED
        BY <3>2, <4>1, <4>2, NoWorseOrder
    <3>4. CASE Before(c, l) \notin Extensions(l)
      <4>1. Dominated(Before(c, l))
        BY <1>2, <2>2, <3>4, ExtensionsAre
      <4>2. best'[c] = best[c]
        BY <3>1, <3>4, ExpandMarks
      <4> QED
        BY <3>2, <4>1, <4>2 DEF Dominated
    <3> QED
      BY <3>3, <3>4
  <2>3. X = ExpansionOf(D, M)
    BY <1>12
  <2> HIDE DEF X, M
  <2> QED
    BY <1>2, <2>1, <2>2, <2>3 DEF Spread
<1>17. \A u \in Nodes : \A x \in expanded'[u] : Spread(best', u, x)
  <2> HIDE DEF X, D
  <2> QED
    BY <1>12, <1>15, <1>16
<1>18. Kept(labels', best', expanded')
  BY <1>7, <1>10, <1>14, <1>17 DEF Kept
<1> QED
  BY <1>1, <1>18, KeptStays
-----------------------------------------------------------------------------
(***************************************************************************)
(* The marks of a route: what the search would carry along it.             *)
(***************************************************************************)
\* w adds up a from the end on: the equation of delays and doubts.
Sums(n, b, a, w) == w = [i \in 1 .. n |-> IF i = n THEN b ELSE w[i + 1] + a[i]]

LEMMA SomeSums ==
  ASSUME NEW n \in Nat \ {0}, NEW b, NEW a
  PROVE  \E w : Sums(n, b, a, w)
<1> DEFINE From_(k, w) == \A i \in k .. n : w[i] = IF i = n THEN b ELSE w[i + 1] + a[i]
           S == {j \in Nat : j < n => \E w : From_(n - j, w)}
<1>1. 0 \in S
  <2>1. From_(n - 0, [i \in {n} |-> b])
    OBVIOUS
  <2> QED
    BY <2>1
<1>2. ASSUME NEW j \in Nat, j \in S
      PROVE  j + 1 \in S
  <2> SUFFICES ASSUME j + 1 < n
               PROVE  \E w : From_(n - (j + 1), w)
    OBVIOUS
  <2>1. PICK w : From_(n - j, w)
    BY <1>2
  <2> DEFINE k == n - (j + 1)
             v == [i \in k .. n |-> IF i = k THEN w[k + 1] + a[k] ELSE w[i]]
  <2>2. k \in Nat /\ k < n /\ k + 1 = n - j
    OBVIOUS
  <2> HIDE DEF k
  <2>3. v[k] = w[k + 1] + a[k] /\ \A i \in k + 1 .. n : v[i] = w[i]
    BY <2>2
  <2>4. \A i \in k + 1 .. n : w[i] = IF i = n THEN b ELSE w[i + 1] + a[i]
    BY <2>1, <2>2
  <2> HIDE DEF v
  <2>5. \A i \in k .. n : v[i] = IF i = n THEN b ELSE v[i + 1] + a[i]
    <3> SUFFICES ASSUME NEW i \in k .. n
                 PROVE  v[i] = IF i = n THEN b ELSE v[i + 1] + a[i]
      OBVIOUS
    <3>1. CASE i = k
      <4>1. k + 1 \in k + 1 .. n /\ i # n
        BY <2>2, <3>1
      <4> QED
        BY <2>3, <3>1, <4>1
    <3>2. CASE i # k /\ i # n
      <4>1. i \in k + 1 .. n /\ i + 1 \in k + 1 .. n
        BY <2>2, <3>2
      <4> QED
        BY <2>3, <2>4, <3>2, <4>1
    <3>3. CASE i # k /\ i = n
      <4>1. i \in k + 1 .. n
        BY <2>2, <3>3
      <4> QED
        BY <2>3, <2>4, <3>3, <4>1
    <3> QED
      BY <3>1, <3>2, <3>3
  <2> QED
    BY <2>5 DEF k
<1> HIDE DEF S
<1>3. n - 1 \in S
  BY <1>1, <1>2, Induction
<1>4. PICK w : From_(1, w)
  <2>1. n - 1 < n /\ n - (n - 1) = 1
    OBVIOUS
  <2> QED
    BY <1>3, <2>1 DEF S
<1> DEFINE v == [i \in 1 .. n |-> w[i]]
<1>5. \A i \in 1 .. n : v[i] = IF i = n THEN b ELSE v[i + 1] + a[i]
  <2> SUFFICES ASSUME NEW i \in 1 .. n
               PROVE  v[i] = IF i = n THEN b ELSE v[i + 1] + a[i]
    OBVIOUS
  <2>1. v[i] = w[i] /\ w[i] = IF i = n THEN b ELSE w[i + 1] + a[i]
    BY <1>4
  <2>2. i # n => i + 1 \in 1 .. n
    OBVIOUS
  <2> QED
    BY <2>1, <2>2
<1>6. v = [i \in 1 .. n |-> v[i]]
  OBVIOUS
<1> HIDE DEF v
<1>7. Sums(n, b, a, v)
  BY <1>5, <1>6 DEF Sums
<1> QED
  BY <1>7

LEMMA SumsOne ==
  ASSUME NEW n \in Nat \ {0}, NEW b, NEW a, NEW v, NEW w, Sums(n, b, a, v), Sums(n, b, a, w)
  PROVE  v = w
<1> DEFINE S == {j \in Nat : j < n => v[n - j] = w[n - j]}
<1>1. \A i \in 1 .. n : /\ v[i] = IF i = n THEN b ELSE v[i + 1] + a[i]
                        /\ w[i] = IF i = n THEN b ELSE w[i + 1] + a[i]
  BY DEF Sums
<1>2. 0 \in S
  BY <1>1
<1>3. ASSUME NEW j \in Nat, j \in S
      PROVE  j + 1 \in S
  <2> SUFFICES ASSUME j + 1 < n
               PROVE  v[n - (j + 1)] = w[n - (j + 1)]
    OBVIOUS
  <2>1. v[n - j] = w[n - j]
    BY <1>3
  <2>2. n - (j + 1) \in 1 .. n /\ n - (j + 1) # n /\ (n - (j + 1)) + 1 = n - j
    OBVIOUS
  <2> QED
    BY <1>1, <2>1, <2>2
<1> HIDE DEF S
<1>4. \A j \in Nat : j \in S
  BY <1>2, <1>3, Induction
<1>5. \A i \in 1 .. n : v[i] = w[i]
  <2> TAKE i \in 1 .. n
  <2>1. n - i \in Nat /\ n - i < n /\ n - (n - i) = i
    OBVIOUS
  <2> QED
    BY <1>4, <2>1 DEF S
<1>6. v = [i \in 1 .. n |-> v[i]] /\ w = [i \in 1 .. n |-> w[i]]
  BY DEF Sums
<1> QED
  BY <1>5, <1>6

\* Natural numbers add up to more the earlier they start.
LEMMA SumsGrow ==
  ASSUME NEW n \in Nat \ {0}, NEW b \in Nat, NEW a, \A i \in 1 .. n - 1 : a[i] \in Nat,
         NEW w, Sums(n, b, a, w)
  PROVE  \A i \in 1 .. n :
           /\ w[i] \in Nat /\ w[i] <= w[1]
           /\ b = 0 /\ (\A j \in 1 .. n - 1 : a[j] = 0) => w[i] = 0
<1> DEFINE none == b = 0 /\ \A j \in 1 .. n - 1 : a[j] = 0
           S == {j \in Nat : j < n => w[n - j] \in Nat /\ (none => w[n - j] = 0)}
           T == {j \in Nat : j < n => w[j + 1] <= w[1]}
<1>1. \A i \in 1 .. n : w[i] = IF i = n THEN b ELSE w[i + 1] + a[i]
  BY DEF Sums
<1>2. 0 \in S
  BY <1>1
<1>3. ASSUME NEW j \in Nat, j \in S
      PROVE  j + 1 \in S
  <2> SUFFICES ASSUME j + 1 < n
               PROVE  w[n - (j + 1)] \in Nat /\ (none => w[n - (j + 1)] = 0)
    OBVIOUS
  <2> DEFINE k == n - (j + 1)
  <2>1. w[n - j] \in Nat /\ (none => w[n - j] = 0)
    BY <1>3
  <2>2. k \in 1 .. n - 1 /\ k \in 1 .. n /\ k # n /\ k + 1 = n - j
    OBVIOUS
  <2>3. a[k] \in Nat /\ (none => a[k] = 0)
    BY <2>2
  <2> HIDE DEF k, none
  <2>4. w[k] = w[n - j] + a[k]
    BY <1>1, <2>2
  <2>5. w[k] \in Nat /\ (none => w[k] = 0)
    BY <2>1, <2>3, <2>4
  <2> QED
    BY <2>5 DEF k
<1> HIDE DEF none, S
<1>4. \A j \in Nat : j \in S
  BY <1>2, <1>3, Induction
<1>5. \A i \in 1 .. n : w[i] \in Nat /\ (none => w[i] = 0)
  <2> TAKE i \in 1 .. n
  <2>1. n - i \in Nat /\ n - i < n /\ n - (n - i) = i
    OBVIOUS
  <2> QED
    BY <1>4, <2>1 DEF S
<1>6. 0 \in T
  BY <1>5
<1>7. ASSUME NEW j \in Nat, j \in T
      PROVE  j + 1 \in T
  <2> SUFFICES ASSUME j + 1 < n
               PROVE  w[j + 1 + 1] <= w[1]
    OBVIOUS
  <2> DEFINE k == j + 1
  <2>1. k \in 1 .. n /\ k # n /\ k + 1 \in 1 .. n /\ k \in 1 .. n - 1 /\ 1 \in 1 .. n
    OBVIOUS
  <2>2. w[k] <= w[1]
    BY <1>7
  <2> HIDE DEF k
  <2>3. w[k] = w[k + 1] + a[k] /\ a[k] \in Nat
    BY <1>1, <2>1
  <2>4. w[k] \in Nat /\ w[k + 1] \in Nat /\ w[1] \in Nat
    BY <1>5, <2>1
  <2>5. w[k + 1] <= w[1]
    BY <2>2, <2>3, <2>4
  <2> QED
    BY <2>5 DEF k
<1> HIDE DEF T
<1>8. \A j \in Nat : j \in T
  BY <1>6, <1>7, Induction
<1>9. \A i \in 1 .. n : w[i] <= w[1]
  <2> TAKE i \in 1 .. n
  <2>1. i - 1 \in Nat /\ i - 1 < n /\ (i - 1) + 1 = i
    OBVIOUS
  <2> QED
    BY <1>8, <2>1 DEF T
<1> QED
  BY <1>5, <1>9 DEF none

\* So many summands of at least low.
LEMMA SumsAtLeast ==
  ASSUME NEW n \in Nat \ {0}, NEW b \in Nat, NEW a, NEW low \in Nat,
         \A i \in 1 .. n - 1 : a[i] \in Nat /\ low <= a[i],
         NEW w, Sums(n, b, a, w)
  PROVE  w[1] \in Nat /\ b + (n - 1) * low <= w[1]
<1> DEFINE S == {j \in Nat : j < n => w[n - j] \in Nat /\ b + j * low <= w[n - j]}
<1>1. \A i \in 1 .. n : w[i] = IF i = n THEN b ELSE w[i + 1] + a[i]
  BY DEF Sums
<1>2. 0 \in S
  <2>1. n - 0 = n /\ n \in 1 .. n /\ 0 * low = 0
    OBVIOUS
  <2>2. w[n - 0] = b
    BY <1>1, <2>1
  <2> QED
    BY <2>1, <2>2
<1>3. ASSUME NEW j \in Nat, j \in S
      PROVE  j + 1 \in S
  <2> SUFFICES ASSUME j + 1 < n
               PROVE  w[n - (j + 1)] \in Nat /\ b + (j + 1) * low <= w[n - (j + 1)]
    OBVIOUS
  <2> DEFINE k == n - (j + 1)
             x == j * low
             y == (j + 1) * low
  <2>1. w[n - j] \in Nat /\ b + x <= w[n - j]
    BY <1>3
  <2>2. k \in 1 .. n - 1 /\ k \in 1 .. n /\ k # n /\ k + 1 = n - j
    OBVIOUS
  <2>3. a[k] \in Nat /\ low <= a[k]
    BY <2>2
  <2>4. x \in Nat /\ y = x + low
    OBVIOUS
  <2> HIDE DEF k, x, y
  <2>5. w[k] = w[n - j] + a[k]
    BY <1>1, <2>2
  <2>6. w[k] \in Nat /\ b + y <= w[k]
    BY <2>1, <2>3, <2>4, <2>5
  <2> QED
    BY <2>6 DEF k, y
<1> HIDE DEF S
<1>4. \A j \in Nat : j \in S
  BY <1>2, <1>3, Induction
<1>5. n - 1 < n /\ n - (n - 1) = 1 /\ n - 1 \in Nat
  OBVIOUS
<1> QED
  BY <1>4, <1>5 DEF S

\* What the search adds along p, by hop: the summands of PathCost.
Doubts(p) == [i \in 1 .. Len(p) |-> IF i = 1 THEN 0 ELSE Uncertainty(p[i], Amounts(p)[i])]

LEMMA CostIs ==
  ASSUME NEW p, Len(p) \in Nat \ {0}, NEW w, Sums(Len(p), 0, Doubts(p), w)
  PROVE  PathCost(p) = PathFee(p) + w[1]
<1> DEFINE n == Len(p)
           v(i) == IF i = 1 THEN 0 ELSE Uncertainty(p[i], Amounts(p)[i])
           E(h) == [i \in 1 .. n |-> IF i = n THEN 0 ELSE h[i + 1] + v(i)]
           g == CHOOSE h : h = E(h)
<1>1. \A h : Sums(n, 0, Doubts(p), h) <=> h = E(h)
  <2> TAKE h
  <2>1. [i \in 1 .. n |-> IF i = n THEN 0 ELSE h[i + 1] + Doubts(p)[i]] = E(h)
    BY DEF Doubts
  <2> QED
    BY <2>1 DEF Sums
<1>2. PathCost(p) = PathFee(p) + g[1]
  BY DEF PathCost
<1> HIDE DEF E
<1>3. w = E(w)
  BY <1>1
<1>4. g = E(g)
  BY <1>3
<1> HIDE DEF g
<1>5. Sums(n, 0, Doubts(p), g)
  BY <1>1, <1>4
<1>6. g = w
  BY <1>5, SumsOne
<1> QED
  BY <1>2, <1>6

\* So many channels take at least so long.
LEMMA DelayAtLeast ==
  ASSUME policy \in Graphs, NEW p \in Paths,
         NEW low \in Delays, \A d \in Delays : low <= d
  PROVE  /\ Len(p) \in Nat /\ PathDelay(p) \in Nat /\ low \in Nat
         /\ InitialDelay + (Len(p) - 1) * low <= PathDelay(p)
<1> DEFINE n == Len(p)
           a == [i \in 1 .. n |-> policy[p[i + 1]].delay]
<1>1. /\ n \in Nat /\ n >= 2 /\ p[n] = In
      /\ \A i \in 2 .. n - 1 : p[i] \in Channels
  BY PathIs
<1>2. \A i \in 2 .. n : p[i] \in Inside
  BY <1>1 DEF Inside
<1>3. low \in Nat
  BY DelaysAre
<1>4. \A i \in 1 .. n - 1 : a[i] \in Nat /\ low <= a[i]
  <2> TAKE i \in 1 .. n - 1
  <2>1. i + 1 \in 2 .. n /\ i \in 1 .. n
    BY <1>1
  <2>2. policy[p[i + 1]].delay \in Delays
    BY <1>2, <2>1, DelaysAre
  <2> QED
    BY <2>1, <2>2, DelaysAre
<1> HIDE DEF n, a
<1>5. n \in Nat \ {0} /\ InitialDelay \in Nat
  BY <1>1
<1>6. \E w : Sums(n, InitialDelay, a, w)
  BY <1>5, SomeSums
<1>7. PICK w : Sums(n, InitialDelay, a, w)
  BY <1>6
<1>8. w[1] \in Nat /\ InitialDelay + (n - 1) * low <= w[1]
  BY <1>3, <1>4, <1>5, <1>7, SumsAtLeast
<1>9. Holds(p, w)
  <2>1. [i \in 1 .. n |-> IF i = n THEN InitialDelay ELSE w[i + 1] + a[i]]
          = [i \in 1 .. n |-> IF i = n THEN InitialDelay ELSE w[i + 1] + policy[p[i + 1]].delay]
    BY DEF a
  <2>2. w = [i \in 1 .. n |-> IF i = n THEN InitialDelay ELSE w[i + 1] + a[i]]
    BY <1>7 DEF Sums
  <2> QED
    BY <2>1, <2>2 DEF Holds, n
<1>10. PathDelay(p) = w[1]
  BY <1>1, <1>9, DelayIs DEF n
<1> QED
  BY <1>1, <1>3, <1>8, <1>10 DEF n

\* Below the greatest amount, a hop carries what the next does and its charge.
LEMMA CarriesUp ==
  ASSUME policy \in Graphs, NEW p \in Seq(AllChannels), Len(p) \in Nat, Len(p) >= 2,
         NEW f, Carries(p, f), f[1] < Huge
  PROVE  \A i \in 1 .. Len(p) :
           /\ f[i] \in Nat /\ Amount <= f[i] /\ f[i] <= f[1]
           /\ i # Len(p) => /\ Charge(p[i], p[i + 1], f[i + 1]) \in Nat
                            /\ f[i] = f[i + 1] + Charge(p[i], p[i + 1], f[i + 1])
<1> DEFINE n == Len(p)
           c(i) == Charge(p[i], p[i + 1], f[i + 1])
           S == {j \in Nat : j < n => f[n - j] \in Nat}
           T == {j \in Nat : j < n => f[j + 1] <= f[1] /\ f[j + 1] < Huge}
           U == {j \in Nat : j < n => Amount <= f[n - j]}
<1>1. \A i \in 1 .. n : f[i] = IF i = n THEN Amount ELSE AddSaturating(f[i + 1], c(i))
  BY DEF Carries
<1>2. n \in Nat /\ n >= 2 /\ \A i \in 1 .. n : p[i] \in AllChannels
  OBVIOUS
<1>3. \A i \in 1 .. n : i # n /\ f[i + 1] \in Nat => c(i) \in Nat
  <2> SUFFICES ASSUME NEW i \in 1 .. n, i # n, f[i + 1] \in Nat
               PROVE  c(i) \in Nat
    OBVIOUS
  <2>1. i + 1 \in 1 .. n
    BY <1>2
  <2> QED
    BY <1>2, <2>1, ChargeNat
<1> HIDE DEF c, n
<1>4. 0 \in S
  BY <1>1, <1>2
<1>5. ASSUME NEW j \in Nat, j \in S
      PROVE  j + 1 \in S
  <2> SUFFICES ASSUME j + 1 < n
               PROVE  f[n - (j + 1)] \in Nat
    OBVIOUS
  <2> DEFINE k == n - (j + 1)
  <2>1. k \in 1 .. n /\ k # n /\ k + 1 = n - j
    BY <1>2
  <2>2. f[k + 1] \in Nat
    BY <1>2, <1>5, <2>1
  <2> HIDE DEF k
  <2>3. f[k] = AddSaturating(f[k + 1], c(k)) /\ c(k) \in Nat
    BY <1>1, <1>3, <2>1, <2>2
  <2>4. f[k] \in Nat
    BY <2>2, <2>3, SaturatedNat
  <2> QED
    BY <2>4 DEF k
<1> HIDE DEF S
<1>6. \A j \in Nat : j \in S
  BY <1>4, <1>5, Induction
<1>7. \A i \in 1 .. n : f[i] \in Nat /\ (i # n => c(i) \in Nat)
  <2>1. ASSUME NEW i \in 1 .. n
        PROVE  f[i] \in Nat
    <3>1. n - i \in Nat /\ n - i < n /\ n - (n - i) = i
      BY <1>2
    <3> QED
      BY <1>6, <3>1 DEF S
  <2>2. ASSUME NEW i \in 1 .. n, i # n
        PROVE  c(i) \in Nat
    <3>1. i + 1 \in 1 .. n
      BY <1>2, <2>2
    <3> QED
      BY <1>3, <2>1, <2>2, <3>1
  <2> QED
    BY <2>1, <2>2
<1>8. \A i \in 1 .. n : i # n /\ f[i] < Huge =>
        f[i] = f[i + 1] + c(i) /\ f[i + 1] <= f[i] /\ f[i + 1] < Huge
  <2> SUFFICES ASSUME NEW i \in 1 .. n, i # n, f[i] < Huge
               PROVE  f[i] = f[i + 1] + c(i) /\ f[i + 1] <= f[i] /\ f[i + 1] < Huge
    OBVIOUS
  <2>1. i + 1 \in 1 .. n
    BY <1>2
  <2>2. f[i] = AddSaturating(f[i + 1], c(i)) /\ f[i + 1] \in Nat /\ c(i) \in Nat /\ f[i] \in Nat
    BY <1>1, <1>7, <2>1
  <2> QED
    BY <2>2 DEF AddSaturating
<1>9. 0 \in T
  BY <1>2, <1>7
<1>10. ASSUME NEW j \in Nat, j \in T
       PROVE  j + 1 \in T
  <2> SUFFICES ASSUME j + 1 < n
               PROVE  f[j + 1 + 1] <= f[1] /\ f[j + 1 + 1] < Huge
    OBVIOUS
  <2> DEFINE k == j + 1
  <2>1. k \in 1 .. n /\ k # n /\ k + 1 \in 1 .. n /\ 1 \in 1 .. n
    BY <1>2
  <2>2. f[k] <= f[1] /\ f[k] < Huge
    BY <1>2, <1>10
  <2> HIDE DEF k
  <2>3. f[k + 1] <= f[k] /\ f[k + 1] < Huge
    BY <1>8, <2>1, <2>2
  <2>4. f[k] \in Nat /\ f[k + 1] \in Nat /\ f[1] \in Nat
    BY <1>7, <2>1
  <2>5. f[k + 1] <= f[1]
    BY <2>2, <2>3, <2>4
  <2> QED
    BY <2>3, <2>5 DEF k
<1> HIDE DEF T
<1>11. \A j \in Nat : j \in T
  BY <1>9, <1>10, Induction
<1>12. \A i \in 1 .. n : f[i] <= f[1] /\ f[i] < Huge
  <2> TAKE i \in 1 .. n
  <2>1. i - 1 \in Nat /\ i - 1 < n /\ (i - 1) + 1 = i
    BY <1>2
  <2> QED
    BY <1>11, <2>1 DEF T
<1>13. 0 \in U
  BY <1>1, <1>2
<1>14. ASSUME NEW j \in Nat, j \in U
       PROVE  j + 1 \in U
  <2> SUFFICES ASSUME j + 1 < n
               PROVE  Amount <= f[n - (j + 1)]
    OBVIOUS
  <2> DEFINE k == n - (j + 1)
  <2>1. k \in 1 .. n /\ k # n /\ k + 1 = n - j /\ k + 1 \in 1 .. n
    BY <1>2
  <2>2. Amount <= f[k + 1]
    BY <1>2, <1>14, <2>1
  <2> HIDE DEF k
  <2>3. f[k + 1] <= f[k] /\ f[k] \in Nat /\ f[k + 1] \in Nat
    BY <1>7, <1>8, <1>12, <2>1
  <2>4. Amount <= f[k]
    BY <2>2, <2>3
  <2> QED
    BY <2>4 DEF k
<1> HIDE DEF U
<1>15. \A j \in Nat : j \in U
  BY <1>13, <1>14, Induction
<1>16. \A i \in 1 .. n : Amount <= f[i]
  <2> TAKE i \in 1 .. n
  <2>1. n - i \in Nat /\ n - i < n /\ n - (n - i) = i
    BY <1>2
  <2> QED
    BY <1>15, <2>1 DEF U
<1> QED
  BY <1>7, <1>8, <1>12, <1>16 DEF c, n

\* f is what the hops of the route p carry, w what the search adds for their
\* doubt.
Along(p, f, w) ==
  p \in Routes /\ Carries(p, f) /\ Sums(Len(p), 0, Doubts(p), w)

LEMMA SomeAlong ==
  ASSUME NEW p \in Routes
  PROVE  \E f, w : Along(p, f, w)
<1>1. Len(p) \in Nat \ {0}
  BY PathIs DEF Routes
<1>2. PICK f : Carries(p, f)
  BY <1>1, SomeCarries
<1>3. \E w : Sums(Len(p), 0, Doubts(p), w)
  BY <1>1, SomeSums
<1> QED
  BY <1>2, <1>3 DEF Along

LEMMA AlongIs ==
  ASSUME policy \in Graphs, req \in Requests, risk \in Nat,
         NEW p, NEW f, NEW w, Along(p, f, w)
  PROVE  /\ Len(p) \in Nat /\ Len(p) >= 2 /\ p[1] = Out /\ p[Len(p)] = In
         /\ Len(p) <= req.maxHops
         /\ \A i \in 1 .. Len(p) - 1 : To[p[i]] = From[p[i + 1]]
         /\ \A i \in 2 .. Len(p) - 1 :
              /\ p[i] \in Channels /\ p[i] \in Into(From[p[i + 1]])
              /\ CanForward(p[i], f[i])
              /\ i > 2 => From[p[i]] # OutPeer
         /\ \A i \in 2 .. Len(p) : p[i] \in Inside /\ p[i] \in AllChannels
         /\ f[Len(p)] = Amount /\ f[1] < Huge /\ f[1] - Amount <= MaxFee
         /\ \A i \in 1 .. Len(p) :
              /\ f[i] \in Nat /\ Amount <= f[i] /\ f[i] <= f[1]
              /\ i # Len(p) => f[i] = f[i + 1] + Charge(p[i], p[i + 1], f[i + 1])
         /\ w[Len(p)] = 0
         /\ \A i \in 1 .. Len(p) :
              /\ w[i] \in Nat /\ w[i] <= w[1] /\ (risk = 0 => w[i] = 0)
              /\ i # Len(p) => w[i] = w[i + 1] + (IF i = 1 THEN 0 ELSE Uncertainty(p[i], f[i]))
         /\ PathCost(p) = f[1] - Amount + w[1] /\ PathFee(p) = f[1] - Amount
         /\ PathDelay(p) <= MaxDelay
<1> DEFINE n == Len(p)
           a == Doubts(p)
<1>1. p \in Paths /\ Usable(p) /\ Carries(p, f) /\ Sums(n, 0, a, w)
  BY DEF Along, Routes
<1>2. /\ p \in Seq(AllChannels) /\ n \in Nat /\ n >= 2 /\ p[1] = Out /\ p[n] = In
      /\ \A i \in 2 .. n - 1 : p[i] \in Channels
      /\ \A i \in 1 .. n - 1 : To[p[i]] = From[p[i + 1]]
  BY <1>1, PathIs
<1>3. Amounts(p) = f
  BY <1>1, <1>2, AmountsAre
<1>4. /\ n <= req.maxHops /\ f[1] < Huge /\ FeePPM(PathFee(p)) <= req.maxPPM
      /\ PathDelay(p) <= MaxDelay /\ PathFee(p) = f[1] - Amount
      /\ \A i \in 2 .. n - 1 :
           /\ From[p[i]] \notin req.exclude \cup {Self, InPeer}
           /\ p[i] \notin req.exclude
           /\ CanForward(p[i], f[i])
           /\ i > 2 => From[p[i]] # OutPeer
  BY <1>1, <1>3 DEF Usable, PathFee
<1>5. \A i \in 1 .. n :
        /\ f[i] \in Nat /\ Amount <= f[i] /\ f[i] <= f[1]
        /\ i # n => f[i] = f[i + 1] + Charge(p[i], p[i + 1], f[i + 1])
  BY <1>1, <1>2, <1>4, CarriesUp
<1>6. f[n] = Amount
  <2>1. n \in 1 .. n
    BY <1>2
  <2> QED
    BY <1>1, <2>1 DEF Carries
<1>7. f[1] - Amount <= MaxFee
  <2>1. f[1] - Amount \in Nat
    <3>1. 1 \in 1 .. n
      BY <1>2
    <3>2. f[1] \in Nat /\ Amount <= f[1] /\ Amount \in Nat
      BY <1>5, <3>1
    <3> QED
      BY <3>2
  <2> QED
    BY <1>4, <2>1, RateWithinFee
<1>8. ASSUME NEW i \in 2 .. n - 1
      PROVE  p[i] \in Into(From[p[i + 1]])
  <2>1. i \in 1 .. n - 1
    BY <1>2
  <2> QED
    BY <1>2, <1>4, <2>1 DEF Into
<1>9. \A i \in 2 .. n : p[i] \in Inside /\ p[i] \in AllChannels
  <2> TAKE i \in 2 .. n
  <2>1. p[i] = In \/ p[i] \in Channels
    <3>1. i = n \/ i \in 2 .. n - 1
      BY <1>2
    <3> QED
      BY <1>2, <3>1
  <2> QED
    BY <2>1, InsideIs
<1>10. \A i \in 1 .. n - 1 :
         /\ a[i] = IF i = 1 THEN 0 ELSE Uncertainty(p[i], f[i])
         /\ a[i] \in Nat /\ (risk = 0 => a[i] = 0)
  <2> TAKE i \in 1 .. n - 1
  <2>1. i \in 1 .. n
    BY <1>2
  <2>2. a[i] = IF i = 1 THEN 0 ELSE Uncertainty(p[i], f[i])
    BY <1>3, <2>1 DEF Doubts
  <2>3. CASE i = 1
    BY <2>2, <2>3
  <2>4. CASE i # 1
    <3>1. i \in 2 .. n
      BY <1>2, <2>4
    <3>2. f[i] \in Nat /\ p[i] \in AllChannels
      BY <1>5, <1>9, <2>1, <3>1
    <3>3. Uncertainty(p[i], f[i]) \in Nat
      BY <3>2, UncertaintyType
    <3>4. risk = 0 => Uncertainty(p[i], f[i]) = 0
      BY DEF Uncertainty
    <3> QED
      BY <2>2, <2>4, <3>3, <3>4
  <2> QED
    BY <2>3, <2>4
<1> HIDE DEF a, n
<1>11. \A i \in 1 .. n : /\ w[i] \in Nat /\ w[i] <= w[1] /\ (risk = 0 => w[i] = 0)
                         /\ w[i] = IF i = n THEN 0 ELSE w[i + 1] + a[i]
  <2>1. n \in Nat \ {0}
    BY <1>2
  <2>2. \A i \in 1 .. n - 1 : a[i] \in Nat
    BY <1>10
  <2>3. \A i \in 1 .. n : /\ w[i] \in Nat /\ w[i] <= w[1]
                          /\ (\A j \in 1 .. n - 1 : a[j] = 0) => w[i] = 0
    BY <1>1, <2>1, <2>2, SumsGrow
  <2>4. \A i \in 1 .. n : w[i] = IF i = n THEN 0 ELSE w[i + 1] + a[i]
    BY <1>1 DEF Sums
  <2> QED
    BY <1>10, <2>3, <2>4
<1>12. \A i \in 1 .. n :
         i # n => w[i] = w[i + 1] + (IF i = 1 THEN 0 ELSE Uncertainty(p[i], f[i]))
  <2> TAKE i \in 1 .. n
  <2>1. i # n => i \in 1 .. n - 1
    BY <1>2
  <2> QED
    BY <1>10, <1>11, <2>1
<1>13. w[n] = 0
  BY <1>2, <1>11
<1>14. PathCost(p) = f[1] - Amount + w[1]
  <2>1. n \in Nat \ {0}
    BY <1>2
  <2> QED
    BY <1>1, <1>4, <2>1, CostIs DEF a, n
<1> QED
  BY <1>2, <1>4, <1>5, <1>6, <1>7, <1>8, <1>9, <1>11, <1>12, <1>13, <1>14 DEF n

\* Without a riskppm, a route costs its fee.
LEMMA FeeIsCost ==
  ASSUME policy \in Graphs, req \in Requests, risk = 0, NEW p \in Routes
  PROVE  PathCost(p) = PathFee(p) /\ PathCost(p) < Huge
<1>1. PICK f, w : Along(p, f, w)
  BY SomeAlong
<1>2. /\ Len(p) \in Nat /\ Len(p) >= 2 /\ f[1] < Huge
      /\ \A i \in 1 .. Len(p) : f[i] \in Nat /\ w[i] \in Nat /\ w[i] = 0
      /\ PathCost(p) = f[1] - Amount + w[1] /\ PathFee(p) = f[1] - Amount
  BY <1>1, AlongIs
<1>3. 1 \in 1 .. Len(p)
  BY <1>2
<1>4. f[1] \in Nat /\ w[1] = 0 /\ Amount \in Nat /\ Huge \in Nat
  BY <1>2, <1>3
<1> QED
  BY <1>2, <1>4

\* What a label that came along p to its k-th channel would be marked.
RouteMark(p, f, w, k) ==
  [hops |-> Len(p) - k + 1, fee |-> f[k] - Amount, cost |-> f[k] - Amount + w[k]]

LEMMA RouteMarks ==
  ASSUME policy \in Graphs, req \in Requests, risk \in Nat,
         NEW p, NEW f, NEW w, Along(p, f, w), PathCost(p) < Huge
  PROVE  /\ RouteMark(p, f, w, Len(p)) = Mark(Start)
         /\ \A k \in 1 .. Len(p) :
              /\ IsMark(RouteMark(p, f, w, k)) /\ RouteMark(p, f, w, k).cost <= PathCost(p)
              /\ RouteMark(p, f, w, k).hops = Len(p) - k + 1
         /\ \A k \in 2 .. Len(p) - 1 :
              /\ RouteMark(p, f, w, k)
                   = Put(p[k], p[k + 1], RouteMark(p, f, w, k + 1),
                         Doubt(p[k], p[k + 1], RouteMark(p, f, w, k + 1)))
              /\ Reaches(p[k], p[k + 1], RouteMark(p, f, w, k + 1))
         /\ RouteMark(p, f, w, 1) = Put(Out, p[2], RouteMark(p, f, w, 2), 0)
         /\ Fits(RouteMark(p, f, w, 1))
<1> DEFINE n == Len(p)
           t(k) == RouteMark(p, f, w, k)
           g(k) == Charge(p[k], p[k + 1], f[k + 1])
           u(k) == IF k = 1 THEN 0 ELSE Uncertainty(p[k], f[k])
<1>1. /\ n \in Nat /\ n >= 2 /\ p[1] = Out /\ p[n] = In
      /\ f[n] = Amount /\ f[1] < Huge /\ f[1] - Amount <= MaxFee /\ w[n] = 0
      /\ PathCost(p) = f[1] - Amount + w[1] /\ PathCost(p) < Huge
  BY AlongIs
<1>2. \A k \in 1 .. n :
        /\ f[k] \in Nat /\ Amount <= f[k] /\ f[k] <= f[1]
        /\ w[k] \in Nat /\ w[k] <= w[1] /\ (risk = 0 => w[k] = 0)
        /\ k # n => f[k] = f[k + 1] + g(k) /\ w[k] = w[k + 1] + u(k)
  <2>1. \A k \in 1 .. n : /\ f[k] \in Nat /\ Amount <= f[k] /\ f[k] <= f[1]
                          /\ k # n => f[k] = f[k + 1] + g(k)
    BY AlongIs
  <2>2. \A k \in 1 .. n : /\ w[k] \in Nat /\ w[k] <= w[1] /\ (risk = 0 => w[k] = 0)
                          /\ k # n => w[k] = w[k + 1] + u(k)
    BY AlongIs
  <2> QED
    BY <2>1, <2>2
<1>3. \A k : /\ t(k).hops = n - k + 1 /\ t(k).fee = f[k] - Amount
             /\ t(k).cost = f[k] - Amount + w[k]
  BY DEF RouteMark
<1>4. Amount \in Nat /\ MaxFee \in Nat /\ Huge \in Nat
  BY MaxFeeIsNat
<1>5. t(n) = Mark(Start)
  <2>1. t(n) = [hops |-> n - n + 1, fee |-> f[n] - Amount, cost |-> f[n] - Amount + w[n]]
    BY DEF RouteMark
  <2>2. n - n + 1 = 1 /\ f[n] - Amount = 0 /\ f[n] - Amount + w[n] = 0
    BY <1>1, <1>4
  <2>3. Mark(Start) = [hops |-> 1, fee |-> 0, cost |-> 0]
    BY StartMark DEF Mark
  <2> QED
    BY <2>1, <2>2, <2>3
<1> HIDE DEF t, n, g, u
<1>6. ASSUME NEW k \in 1 .. n
      PROVE  /\ IsMark(t(k)) /\ t(k).cost <= PathCost(p) /\ t(k).cost < Huge
             /\ Fits(t(k)) /\ Amount + t(k).fee = f[k] /\ f[k] < Huge
  <2>1. k \in Int /\ k >= 1 /\ k <= n /\ 1 \in 1 .. n
    BY <1>1
  <2>2. /\ f[k] \in Nat /\ Amount <= f[k] /\ f[k] <= f[1] /\ f[1] \in Nat /\ w[1] \in Nat
        /\ w[k] \in Nat /\ w[k] <= w[1] /\ (risk = 0 => w[k] = 0)
    BY <1>2, <2>1
  <2>3. /\ t(k).hops \in Nat /\ t(k).hops >= 1 /\ t(k).fee \in Nat /\ t(k).cost \in Nat
        /\ t(k).fee <= t(k).cost /\ t(k).fee <= MaxFee /\ (risk = 0 => t(k).cost = t(k).fee)
    BY <1>1, <1>3, <1>4, <2>1, <2>2
  <2>4. t(k).cost <= PathCost(p) /\ t(k).cost < Huge
    BY <1>1, <1>3, <1>4, <2>2
  <2>5. t(k).fee < Huge /\ Amount + t(k).fee = f[k] /\ f[k] < Huge
    BY <1>1, <1>3, <1>4, <2>2
  <2>6. IsMark(t(k))
    BY <2>3 DEF IsMark
  <2> QED
    BY <2>3, <2>4, <2>5, <2>6 DEF Fits
<1>7. ASSUME NEW k \in 1 .. n, k # n
      PROVE  /\ CarriedBefore(p[k], p[k + 1], t(k + 1)) = f[k]
             /\ t(k) = Put(p[k], p[k + 1], t(k + 1), u(k))
  <2> DEFINE m == t(k + 1)
             x == Charge(p[k], p[k + 1], Amount + m.fee)
  <2>1. k + 1 \in 1 .. n /\ k \in Int /\ n \in Int
    BY <1>1, <1>7
  <2>2. /\ Amount + m.fee = f[k + 1] /\ IsMark(m) /\ IsMark(t(k))
        /\ m.hops = n - (k + 1) + 1 /\ m.fee = f[k + 1] - Amount
        /\ m.cost = f[k + 1] - Amount + w[k + 1]
        /\ f[k + 1] \in Nat /\ w[k + 1] \in Nat /\ Amount <= f[k + 1]
    BY <1>2, <1>3, <1>6, <2>1
  <2>3. x = g(k)
    BY <2>2 DEF g
  <2>4. /\ f[k] = f[k + 1] + g(k) /\ w[k] = w[k + 1] + u(k) /\ f[k] \in Nat /\ w[k] \in Nat
        /\ f[k] < Huge /\ t(k).cost < Huge /\ Amount <= f[k]
    BY <1>2, <1>6, <1>7
  <2>5. g(k) \in Nat
    <3>1. p[k] \in AllChannels /\ p[k + 1] \in Inside
      <4>1. k + 1 \in 2 .. n /\ (k = 1 \/ k \in 2 .. n)
        BY <1>1, <2>1
      <4>2. \A i \in 2 .. n : p[i] \in Inside /\ p[i] \in AllChannels
        BY AlongIs DEF n
      <4> QED
        BY <1>1, <4>1, <4>2, InsideIs
    <3>2. Charge(p[k], p[k + 1], Amount + m.fee) \in Nat
      BY <2>2, <3>1, PutFields
    <3> QED
      BY <2>3, <3>2
  <2>6. u(k) \in Nat
    <3>1. k = 1 => u(k) = 0
      BY DEF u
    <3>2. ASSUME k # 1
          PROVE  u(k) \in Nat
      <4>1. k \in 2 .. n
        BY <2>1, <3>2
      <4>2. \A i \in 2 .. n : p[i] \in Inside /\ p[i] \in AllChannels
        BY AlongIs DEF n
      <4>3. p[k] \in AllChannels
        BY <4>1, <4>2
      <4>4. Uncertainty(p[k], f[k]) \in Nat
        BY <2>4, <4>3, UncertaintyType
      <4> QED
        BY <3>2, <4>4 DEF u
    <3> QED
      BY <3>1, <3>2
  <2>7. CarriedBefore(p[k], p[k + 1], m) = AddSaturating(f[k + 1], x)
    BY <2>2 DEF CarriedBefore
  <2>8. Put(p[k], p[k + 1], m, u(k))
          = [hops |-> m.hops + 1, fee |-> AddSaturating(m.fee, x),
             cost |-> AddSaturating(AddSaturating(m.cost, x), u(k))]
    BY DEF Put
  <2>9. t(k) = [hops |-> n - k + 1, fee |-> f[k] - Amount, cost |-> f[k] - Amount + w[k]]
    BY DEF t, RouteMark, n
  <2>10. t(k).cost = f[k] - Amount + w[k]
    BY <1>3
  <2> HIDE DEF x, m
  <2>11. AddSaturating(f[k + 1], x) = f[k]
    BY <1>4, <2>2, <2>3, <2>4, <2>5 DEF AddSaturating
  <2>12. AddSaturating(m.fee, x) = f[k] - Amount
    BY <1>4, <2>2, <2>3, <2>4, <2>5 DEF AddSaturating
  <2>13. AddSaturating(m.cost, x) = m.cost + g(k)
    BY <1>4, <2>2, <2>3, <2>4, <2>5, <2>6, <2>10 DEF AddSaturating
  <2>14. AddSaturating(m.cost + g(k), u(k)) = f[k] - Amount + w[k]
    BY <1>4, <2>2, <2>3, <2>4, <2>5, <2>6, <2>10 DEF AddSaturating
  <2>15. m.hops + 1 = n - k + 1
    BY <2>1, <2>2
  <2>16. t(k) = Put(p[k], p[k + 1], m, u(k))
    BY <2>8, <2>9, <2>12, <2>13, <2>14, <2>15
  <2> QED
    BY <2>7, <2>11, <2>16 DEF m
<1>8. ASSUME NEW k \in 2 .. n - 1
      PROVE  /\ t(k) = Put(p[k], p[k + 1], t(k + 1), Doubt(p[k], p[k + 1], t(k + 1)))
             /\ Reaches(p[k], p[k + 1], t(k + 1))
  <2>1. k \in 1 .. n /\ k # n /\ k # 1
    BY <1>1
  <2>2. u(k) = Doubt(p[k], p[k + 1], t(k + 1))
    BY <1>7, <2>1 DEF u, Doubt
  <2>3. t(k) = Put(p[k], p[k + 1], t(k + 1), Doubt(p[k], p[k + 1], t(k + 1)))
    BY <1>7, <2>1, <2>2
  <2>4. CanForward(p[k], f[k])
    BY AlongIs DEF n
  <2>5. CanForward(p[k], CarriedBefore(p[k], p[k + 1], t(k + 1)))
    BY <1>7, <2>1, <2>4
  <2> QED
    BY <1>6, <2>1, <2>3, <2>5 DEF Reaches
<1>9. t(1) = Put(Out, p[2], t(2), 0) /\ Fits(t(1))
  <2>1. 1 \in 1 .. n /\ 1 # n /\ 1 + 1 = 2 /\ u(1) = 0
    BY <1>1 DEF u
  <2> QED
    BY <1>1, <1>6, <1>7, <2>1
<1> QED
  BY <1>3, <1>5, <1>6, <1>8, <1>9 DEF t, n

\* While a route of the length looked for is left, so is a label no dearer: the
\* marks along the route, or better ones, are pending or led on.
LEMMA CheapestLeft ==
  ASSUME SearchInv, Phase, WellPriced, NothingLost,
         NEW p \in Routes, Len(p) <= limit, PathCost(p) < Huge
  PROVE  \E l \in labels : l.cost <= PathCost(p)
<1> SUFFICES ASSUME \A l \in labels : ~(l.cost <= PathCost(p))
             PROVE  FALSE
  OBVIOUS
<1> DEFINE n == Len(p)
<1>1. /\ policy \in Graphs /\ req \in Requests /\ risk \in Nat /\ limit \in Nat
      /\ FeesLeaveRoom /\ NoneTooSmall /\ (risk > 0 => ChargesGrow)
  BY DEF SearchInv, Phase, WellPriced
<1>2. PICK f, w : Along(p, f, w)
  BY SomeAlong
<1> DEFINE t(k) == RouteMark(p, f, w, k)
<1>3. /\ n \in Nat /\ n >= 2 /\ n <= limit /\ p[1] = Out /\ p[n] = In
      /\ \A i \in 1 .. n - 1 : To[p[i]] = From[p[i + 1]]
      /\ \A i \in 2 .. n - 1 :
           /\ p[i] \in Channels /\ p[i] \in Into(From[p[i + 1]])
           /\ i > 2 => From[p[i]] # OutPeer
      /\ \A i \in 2 .. n : p[i] \in Inside /\ p[i] \in AllChannels
      /\ PathDelay(p) <= MaxDelay
  BY <1>1, <1>2, AlongIs
<1>4. /\ t(n) = Mark(Start)
      /\ \A k \in 1 .. n : IsMark(t(k)) /\ t(k).cost <= PathCost(p) /\ t(k).hops = n - k + 1
      /\ \A k \in 2 .. n - 1 :
           /\ t(k) = Put(p[k], p[k + 1], t(k + 1), Doubt(p[k], p[k + 1], t(k + 1)))
           /\ Reaches(p[k], p[k + 1], t(k + 1))
      /\ t(1) = Put(Out, p[2], t(2), 0) /\ Fits(t(1))
  BY <1>1, <1>2, RouteMarks
<1>5. PathCost(p) \in Int
  <2>1. \A i \in 1 .. n : f[i] \in Nat /\ w[i] \in Nat
    BY <1>1, <1>2, AlongIs
  <2>2. 1 \in 1 .. n /\ PathCost(p) = f[1] - Amount + w[1] /\ Amount \in Nat
    BY <1>1, <1>2, <1>3, AlongIs
  <2> QED
    BY <2>1, <2>2
<1> HIDE DEF t, n
<1>6. /\ \A c \in Channels : \A m \in best[c] : IsMark(m)
      /\ \A d \in Inside : \A m \in Marks(best, d) :
           Pending(labels, d, m) \/ Settled(labels, expanded, d, m)
      /\ \A u \in Nodes : \A x \in expanded[u] : Spread(best, u, x)
  BY DEF NothingLost, Kept
<1>7. ASSUME NEW d, NEW m, m.cost <= PathCost(p)
      PROVE  ~Pending(labels, d, m)
  <2> SUFFICES ASSUME NEW l \in labels, Mark(l) = m
               PROVE  FALSE
    BY DEF Pending
  <2>1. l.cost = m.cost
    BY MarkIs
  <2> QED
    BY <1>7, <2>1
<1>8. ASSUME NEW h \in Nat, h <= n - 1
      PROVE  ~Late(h)
  <2> SUFFICES ASSUME NEW low \in Delays, \A d \in Delays : low <= d
               PROVE  ~(InitialDelay + h * low > MaxDelay)
    BY DEF Late
  <2>1. p \in Paths
    BY DEF Routes
  <2>2. PathDelay(p) \in Nat /\ low \in Nat /\ InitialDelay + (n - 1) * low <= PathDelay(p)
    BY <1>1, <2>1, DelayAtLeast DEF n
  <2>3. h * low <= (n - 1) * low /\ h * low \in Int /\ (n - 1) * low \in Int
    <3>1. h \in Int /\ n - 1 \in Int
      BY <1>3
    <3> QED
      BY <1>8, <2>2, <3>1, ProductsGrow
  <2> DEFINE a == h * low
             b == (n - 1) * low
  <2>4. InitialDelay \in Nat /\ MaxDelay \in Nat
    OBVIOUS
  <2>5. a <= b /\ a \in Int /\ b \in Int /\ InitialDelay + b <= PathDelay(p)
    BY <2>2, <2>3
  <2> HIDE DEF a, b
  <2>6. ~(InitialDelay + a > MaxDelay)
    BY <1>3, <2>2, <2>4, <2>5
  <2> QED
    BY <2>6 DEF a
\* Along the route from our channel in, every channel has a mark no worse.
<1> DEFINE S == {j \in Nat : j <= n - 2 =>
                   \E m \in Marks(best, p[n - j]) : IsMark(m) /\ NoWorse(m, t(n - j))}
<1>9. 0 \in S
  <2>1. n - 0 = n /\ n \in 1 .. n
    BY <1>3
  <2>2. Mark(Start) \in Marks(best, p[n])
    BY <1>3 DEF Marks
  <2>3. IsMark(Mark(Start))
    BY <1>1, StartMark
  <2>4. NoWorse(Mark(Start), t(n))
    BY <1>4, <2>3, NoWorseOrder
  <2> QED
    BY <2>1, <2>2, <2>3, <2>4
<1>10. ASSUME NEW j \in Nat, j \in S
       PROVE  j + 1 \in S
  <2> SUFFICES ASSUME j + 1 <= n - 2
               PROVE  \E m \in Marks(best, p[n - (j + 1)]) :
                        IsMark(m) /\ NoWorse(m, t(n - (j + 1)))
    OBVIOUS
  <2> DEFINE k == n - j
             c == p[k - 1]
             d == p[k]
  <2>0. n \in Nat /\ n >= 2 /\ limit \in Nat /\ n <= limit
    BY <1>1, <1>3
  <2>1. /\ k \in 3 .. n /\ k \in 1 .. n /\ k \in 2 .. n /\ k - 1 \in 2 .. n - 1
        /\ k - 1 \in 1 .. n /\ k - 1 \in 1 .. n - 1 /\ (k - 1) + 1 = k /\ n - (j + 1) = k - 1
    <3>1. k \in 3 .. n
      BY <2>0
    <3> HIDE DEF k
    <3>2. k - 1 \in 2 .. n - 1 /\ (k - 1) + 1 = k
      BY <2>0, <3>1
    <3>3. n - (j + 1) = k - 1
      BY <2>0 DEF k
    <3>4. k \in 1 .. n /\ k \in 2 .. n
      BY <2>0, <3>1
    <3>5. k - 1 \in 1 .. n /\ k - 1 \in 1 .. n - 1
      BY <2>0, <3>2
    <3> QED
      BY <3>1, <3>2, <3>3, <3>4, <3>5
  <2>2. PICK m \in Marks(best, d) : IsMark(m) /\ NoWorse(m, t(k))
    BY <1>3, <1>10
  <2> HIDE DEF k
  <2>3. /\ c \in Channels /\ c \in AllChannels /\ c \in Into(From[d]) /\ To[c] = From[d]
        /\ d \in Inside /\ IsMark(t(k)) /\ IsMark(t(k - 1)) /\ t(k).hops = n - k + 1
        /\ t(k).cost <= PathCost(p) /\ Reaches(c, d, t(k))
        /\ t(k - 1) = Put(c, d, t(k), Doubt(c, d, t(k)))
    <3>1. c \in Channels /\ c \in Into(From[d]) /\ To[c] = From[d] /\ d \in Inside
      BY <1>3, <2>1
    <3>2. IsMark(t(k)) /\ IsMark(t(k - 1)) /\ t(k).hops = n - k + 1 /\ t(k).cost <= PathCost(p)
      BY <1>4, <2>1
    <3>3. Reaches(c, d, t(k)) /\ t(k - 1) = Put(c, d, t(k), Doubt(c, d, t(k)))
      BY <1>4, <2>1
    <3> QED
      BY <3>1, <3>2, <3>3, InsideIs
  <2>4. From[d] # OutPeer
    <3>1. CASE k = n
      <4>1. d = In /\ 2 \in 2 .. n - 1 /\ 1 \in 1 .. n - 1 /\ 1 + 1 = 2
        BY <1>3, <2>1, <3>1
      <4>2. From[p[2]] # InPeer
        BY <1>3, <4>1 DEF Into
      <4>3. From[p[2]] = OutPeer
        BY <1>3, <4>1 DEF OutPeer
      <4> QED
        BY <4>1, <4>2, <4>3 DEF InPeer
    <3>2. CASE k # n
      <4>1. k \in 2 .. n - 1 /\ k > 2
        BY <1>3, <2>1, <3>2
      <4> QED
        BY <1>3, <4>1
    <3> QED
      BY <3>1, <3>2
  <2> HIDE DEF c, d
  <2>5. /\ m.hops \in Nat /\ m.hops <= n - k + 1 /\ m.cost <= PathCost(p)
    <3>1. m.hops \in Nat /\ m.cost \in Nat /\ t(k).cost \in Nat
      BY <2>2, <2>3, MarkFields
    <3>2. m.hops <= t(k).hops /\ m.cost <= t(k).cost
      BY <2>2 DEF NoWorse
    <3> QED
      BY <1>5, <2>3, <3>1, <3>2
  <2>6. PICK x \in expanded[From[d]] : Covers(x, ExpansionOf(d, m))
    <3>1. Settled(labels, expanded, d, m)
      BY <1>6, <1>7, <2>2, <2>3, <2>5
    <3>2. m.hops \in Nat /\ m.hops <= n - 2 /\ m.hops <= n - 1
      <4>1. k \in 3 .. n
        BY <2>1
      <4> QED
        BY <2>0, <2>5, <4>1
    <3>3. ~(m.hops + 1 > PathHops)
      BY <2>0, <3>2 DEF PathHops
    <3> QED
      BY <1>8, <2>4, <2>5, <3>1, <3>2, <3>3 DEF Settled
  <2>7. From[d] \in Nodes
    BY <2>3, InsideIs DEF Nodes
  <2> DEFINE y == MarkOf(x)
  <2>8. PICK b \in Inside :
             /\ From[b] = From[d] /\ IsMark(y) /\ x = ExpansionOf(b, y)
             /\ \A a \in Into(From[d]) : Reaches(a, b, y) =>
                  \E q \in best[a] : NoWorse(q, Put(a, b, y, Doubt(a, b, y)))
    BY <1>6, <2>6, <2>7 DEF Spread
  <2> HIDE DEF y
  <2>9. Ahead(c, d, m, d, t(k)) /\ Ahead(c, b, y, d, m)
    <3>1. c \in Channels \cup {Out}
      BY <2>3
    <3>2. Ahead(c, d, m, d, t(k))
      BY <1>1, <2>2, <2>3, <3>1, NoWorseAhead
    <3>3. Ahead(c, b, y, d, m)
      BY <1>1, <2>2, <2>3, <2>6, <2>8, CoversAhead
    <3> QED
      BY <3>2, <3>3
  <2>10. Reaches(c, d, m) /\ NoWorse(Put(c, d, m, Doubt(c, d, m)), t(k - 1))
    BY <1>1, <2>2, <2>3, <2>9, ReachesMore
  <2>11. /\ Reaches(c, b, y)
         /\ NoWorse(Put(c, b, y, Doubt(c, b, y)), Put(c, d, m, Doubt(c, d, m)))
    BY <1>1, <2>2, <2>3, <2>8, <2>9, <2>10, ReachesMore
  <2>12. PICK q \in best[c] : NoWorse(q, Put(c, b, y, Doubt(c, b, y)))
    BY <2>3, <2>8, <2>11
  <2>13. IsMark(q) /\ IsMark(Put(c, b, y, Doubt(c, b, y))) /\ IsMark(Put(c, d, m, Doubt(c, d, m)))
    <3>1. IsMark(q)
      BY <1>6, <2>3, <2>12
    <3>2. ASSUME NEW a \in Inside, NEW z, IsMark(z), Reaches(c, a, z)
          PROVE  IsMark(Put(c, a, z, Doubt(c, a, z)))
      <4> DEFINE v == Doubt(c, a, z)
      <4>1. v \in Nat /\ (risk = 0 => v = 0)
        BY <1>1, <2>3, <3>2, DoubtType
      <4>2. Fits(Put(c, a, z, v))
        BY <3>2 DEF Reaches
      <4> HIDE DEF v
      <4>3. IsMark(Put(c, a, z, v))
        BY <1>1, <2>3, <3>2, <4>1, <4>2, PutMark
      <4> QED
        BY <4>3 DEF v
    <3> QED
      BY <2>2, <2>3, <2>8, <2>10, <2>11, <3>1, <3>2
  <2>14. NoWorse(q, t(k - 1))
    <3> DEFINE r == Put(c, b, y, Doubt(c, b, y))
               s == Put(c, d, m, Doubt(c, d, m))
    <3>1. IsMark(q) /\ IsMark(r) /\ IsMark(s) /\ IsMark(t(k - 1))
      BY <2>3, <2>13
    <3>2. NoWorse(q, r) /\ NoWorse(r, s) /\ NoWorse(s, t(k - 1))
      BY <2>10, <2>11, <2>12
    <3> HIDE DEF r, s
    <3>3. NoWorse(q, s)
      BY <3>1, <3>2, NoWorseOrder
    <3> QED
      BY <3>1, <3>2, <3>3, NoWorseOrder
  <2>15. q \in Marks(best, c)
    BY <2>3, <2>12 DEF Marks
  <2>16. p[n - (j + 1)] = c /\ n - (j + 1) = k - 1
    BY <2>1 DEF c
  <2> QED
    BY <2>13, <2>14, <2>15, <2>16
<1> HIDE DEF S
<1>11. \A j \in Nat : j \in S
  BY <1>9, <1>10, Induction
<1>12. PICK m \in Marks(best, p[2]) : IsMark(m) /\ NoWorse(m, t(2))
  <2>1. n - 2 \in Nat /\ n - 2 <= n - 2 /\ n - (n - 2) = 2
    BY <1>3
  <2> QED
    BY <1>11, <2>1 DEF S
\* At the out-peer, the mark led to a complete label.
<1> DEFINE d == p[2]
           e == Put(Out, d, m, 0)
<1>13. /\ d \in Inside /\ From[d] = OutPeer /\ To[Out] = From[d] /\ IsMark(t(2))
       /\ t(2).hops = n - 1 /\ t(2).cost <= PathCost(p) /\ t(1).cost <= PathCost(p)
  <2>1. 2 \in 2 .. n /\ 2 \in 1 .. n /\ 1 \in 1 .. n - 1 /\ 1 \in 1 .. n /\ 1 + 1 = 2
        /\ n - 2 + 1 = n - 1
    BY <1>3
  <2>2. To[p[1]] = From[p[2]] /\ p[1] = Out /\ p[2] \in Inside
    BY <1>3, <2>1
  <2>3. IsMark(t(2)) /\ t(2).hops = n - 1 /\ t(2).cost <= PathCost(p) /\ t(1).cost <= PathCost(p)
    BY <1>4, <2>1
  <2> QED
    BY <2>2, <2>3 DEF OutPeer
<1>14. Ahead(Out, d, m, d, t(2))
  <2>1. Out \in Channels \cup {Out}
    OBVIOUS
  <2> HIDE DEF d
  <2> QED
    BY <1>1, <1>12, <1>13, <2>1, NoWorseAhead
<1>15. Fits(e) /\ e.hops <= t(1).hops /\ e.cost <= t(1).cost
  <2> DEFINE z == 0
  <2>1. Out \in AllChannels /\ z \in Nat /\ z <= z
    BY InsideIs
  <2>2. Fits(Put(Out, d, t(2), z)) /\ t(1) = Put(Out, d, t(2), z)
    BY <1>4
  <2> HIDE DEF z, d
  <2>3. /\ Fits(Put(Out, d, m, z))
        /\ Put(Out, d, m, z).hops <= Put(Out, d, t(2), z).hops
        /\ Put(Out, d, m, z).cost <= Put(Out, d, t(2), z).cost
    BY <1>1, <1>12, <1>13, <1>14, <2>1, <2>2, PutGrows
  <2> QED
    BY <2>2, <2>3 DEF z
<1>16. e.hops <= limit /\ ~Late(m.hops) /\ m.cost <= PathCost(p) /\ e.cost <= PathCost(p)
  <2>1. m.hops \in Nat /\ m.cost \in Nat /\ t(2).cost \in Nat /\ t(2).hops \in Nat
    BY <1>12, <1>13, MarkFields
  <2>2. m.hops <= t(2).hops /\ m.cost <= t(2).cost
    BY <1>12 DEF NoWorse
  <2>3. ~Late(m.hops)
    BY <1>3, <1>8, <1>13, <2>1, <2>2
  <2>4. e.hops = m.hops + 1
    BY DEF Put
  <2>5. e.cost \in Nat /\ t(1).cost \in Nat
    <3>1. 1 \in 1 .. n
      BY <1>3
    <3>2. t(1).cost \in Nat
      BY <1>4, <3>1, MarkFields
    <3>3. 0 \in Nat /\ Out \in AllChannels
      BY InsideIs
    <3> QED
      BY <1>1, <1>12, <1>13, <3>2, <3>3, PutFields
  <2> HIDE DEF e
  <2>6. m.cost <= PathCost(p) /\ e.cost <= PathCost(p)
    BY <1>5, <1>13, <1>15, <2>1, <2>2, <2>5
  <2>7. e.hops <= limit
    BY <1>1, <1>3, <1>13, <2>1, <2>2, <2>4
  <2> QED
    BY <2>3, <2>6, <2>7
<1>17. Settled(labels, expanded, d, m)
  BY <1>6, <1>7, <1>12, <1>13, <1>16
<1>18. PICK l \in labels : l.final /\ Mark(l) = e
  BY <1>13, <1>15, <1>16, <1>17 DEF Settled
<1>19. l.cost = e.cost
  BY <1>18, MarkIs
<1> QED
  BY <1>16, <1>19
-----------------------------------------------------------------------------
(***************************************************************************)
(* The answer is the best.                                                 *)
(***************************************************************************)
\* Nothing the search could answer is better than a.
BestIs(a) ==
  /\ a = NoRoute => Routes = {}
  /\ a # NoRoute /\ risk = 0 =>
       \A p \in Routes :
         \/ Len(a.path) < Len(p)
         \/ Len(a.path) = Len(p) /\ a.fee <= PathFee(p)
  /\ a # NoRoute /\ risk > 0 => \A p \in Routes : a.cost <= PathCost(p)

\* Every path's amounts, delay and cost follow its equations.
PathsPriced ==
  \A p : Len(p) \in Nat \ {0} =>
    /\ Carries(p, Amounts(p))
    /\ \A f : Carries(p, f) => f = Amounts(p)
    /\ \A d : Holds(p, d) => PathDelay(p) = d[1]
    /\ \A w : Sums(Len(p), 0, Doubts(p), w) => PathCost(p) = PathFee(p) + w[1]

LEMMA PathsArePriced == PathsPriced
<1> SUFFICES ASSUME NEW p, Len(p) \in Nat \ {0}
             PROVE  /\ Carries(p, Amounts(p))
                    /\ \A f : Carries(p, f) => f = Amounts(p)
                    /\ \A d : Holds(p, d) => PathDelay(p) = d[1]
                    /\ \A w : Sums(Len(p), 0, Doubts(p), w) => PathCost(p) = PathFee(p) + w[1]
  BY DEF PathsPriced
<1>1. PICK f : Carries(p, f)
  BY SomeCarries
<1>2. Amounts(p) = f
  BY <1>1, AmountsAre
<1>3. Carries(p, Amounts(p))
  BY <1>1, <1>2
<1> QED
  BY <1>3, AmountsAre, DelayIs, CostIs

LEMMA PathsPricedNext == PathsPriced'
BY PathsArePriced, PTL

LEMMA SomeHolds ==
  ASSUME NEW p, Len(p) \in Nat \ {0}
  PROVE  \E d : Holds(p, d)
<1> DEFINE n == Len(p)
           a == [i \in 1 .. n |-> policy[p[i + 1]].delay]
<1>1. \E d : Sums(n, InitialDelay, a, d)
  <2> HIDE DEF a
  <2> QED
    BY SomeSums
<1>2. PICK d : Sums(n, InitialDelay, a, d)
  BY <1>1
<1>3. [i \in 1 .. n |-> IF i = n THEN InitialDelay ELSE d[i + 1] + a[i]]
        = [i \in 1 .. n |-> IF i = n THEN InitialDelay ELSE d[i + 1] + policy[p[i + 1]].delay]
  OBVIOUS
<1> HIDE DEF a
<1>4. Holds(p, d)
  BY <1>2, <1>3 DEF Sums, Holds
<1> QED
  BY <1>4

\* The routes there are do not depend on whether uncertainty is weighed.
LEMMA AmountsStay ==
  ASSUME policy' = policy, req' = req, NEW p, Len(p) \in Nat \ {0}
  PROVE  /\ Amounts(p)' = Amounts(p) /\ PathFee(p)' = PathFee(p)
         /\ PathDelay(p)' = PathDelay(p)
<1>1. \A c, next, a : Charge(c, next, a)' = Charge(c, next, a)
  BY ChargeStays
<1>2. \A f : Carries(p, f)' <=> Carries(p, f)
  BY <1>1 DEF Carries
<1>3. Amounts(p)' = Amounts(p)
  <2>1. PICK f : Carries(p, f) /\ f = Amounts(p)
    BY PathsArePriced DEF PathsPriced
  <2>2. \A g : Carries(p, g)' => g = Amounts(p)'
    BY PathsPricedNext DEF PathsPriced
  <2> QED
    BY <1>2, <2>1, <2>2
<1>4. PathFee(p)' = PathFee(p)
  BY <1>3 DEF PathFee
<1>5. PathDelay(p)' = PathDelay(p)
  <2>1. PICK d : Holds(p, d)
    BY SomeHolds
  <2>2. Holds(p, d)'
    BY <2>1 DEF Holds
  <2>3. PathDelay(p)' = d[1]
    BY <2>2, PathsPricedNext DEF PathsPriced
  <2> QED
    BY <2>1, <2>3, DelayIs
<1> QED
  BY <1>3, <1>4, <1>5

LEMMA OnlyRoutesStay ==
  ASSUME policy' = policy, req' = req
  PROVE  Routes' = Routes
<1>1. \A p \in Paths : Len(p) \in Nat \ {0}
  BY PathIs
<1>2. Paths' = Paths
  BY DEF Paths, Walks
<1>3. \A p \in Paths : Usable(p)' <=> Usable(p)
  <2> SUFFICES ASSUME NEW p \in Paths
               PROVE  Usable(p)' <=> Usable(p)
    OBVIOUS
  <2>1. /\ Amounts(p)' = Amounts(p) /\ PathFee(p)' = PathFee(p)
        /\ PathDelay(p)' = PathDelay(p)
    BY <1>1, AmountsStay
  <2>2. \A c, a : CanForward(c, a)' <=> CanForward(c, a)
    BY DEF CanForward
  <2> QED
    BY <2>1, <2>2 DEF Usable
<1> QED
  BY <1>2, <1>3 DEF Routes

\* In one search, neither do their prices change.
LEMMA RoutesStay ==
  ASSUME policy' = policy, req' = req, risk' = risk
  PROVE  /\ Routes' = Routes
         /\ \A a : BestIs(a)' <=> BestIs(a)
<1>1. ASSUME NEW p, Len(p) \in Nat \ {0}
      PROVE  PathCost(p)' = PathCost(p)
  <2>1. PICK w : Sums(Len(p), 0, Doubts(p), w)
    BY <1>1, SomeSums
  <2>2. Amounts(p)' = Amounts(p) /\ PathFee(p)' = PathFee(p)
    BY <1>1, AmountsStay
  <2>3. Doubts(p)' = Doubts(p)
    <3>1. \A c, a : Uncertainty(c, a)' = Uncertainty(c, a)
      BY DEF Uncertainty, CeilDiv
    <3> QED
      BY <2>2, <3>1 DEF Doubts
  <2>4. Sums(Len(p), 0, Doubts(p), w)'
    BY <2>1, <2>3 DEF Sums
  <2>5. PathCost(p)' = PathFee(p)' + w[1]
    BY <1>1, <2>4, PathsPricedNext DEF PathsPriced
  <2> QED
    BY <1>1, <2>1, <2>2, <2>5, CostIs
<1>2. \A p \in Paths : Len(p) \in Nat \ {0}
  BY PathIs
<1>3. Routes' = Routes
  BY OnlyRoutesStay
<1>4. ASSUME NEW a
      PROVE  BestIs(a)' <=> BestIs(a)
  <2>1. \A p \in Routes : PathFee(p)' = PathFee(p) /\ PathCost(p)' = PathCost(p)
    BY <1>1, <1>2, AmountsStay DEF Routes
  <2> QED
    BY <1>3, <2>1 DEF BestIs
<1> QED
  BY <1>3, <1>4

\* Whether labels may be dropped depends on the policies, the request and
\* whether uncertainty is weighed.
LEMMA PricedStays ==
  ASSUME policy' = policy, req' = req, risk' = risk
  PROVE  WellPriced' <=> WellPriced
<1>1. \A c, next, a : Charge(c, next, a)' = Charge(c, next, a)
  BY ChargeStays
<1>2. \A c, a : ComputeFee(c, a)' = ComputeFee(c, a)
  BY DEF ComputeFee
<1>3. MaxFee' = MaxFee
  BY DEF MaxFee, MaxFeeForPPM
<1>4. LengthTellsDelay' <=> LengthTellsDelay
  BY DEF LengthTellsDelay, Delays, Inside
<1>5. NoneTooSmall' <=> NoneTooSmall
  BY DEF NoneTooSmall
<1>6. FeesLeaveRoom' <=> FeesLeaveRoom
  BY <1>2, <1>3 DEF FeesLeaveRoom, Inside
<1>7. ChargesGrow' <=> ChargesGrow
  BY <1>1, <1>3 DEF ChargesGrow, Inside
<1> QED
  BY <1>4, <1>5, <1>6, <1>7 DEF WellPriced

LEMMA PhaseInit == Init => Phase
<1> SUFFICES ASSUME Init PROVE Phase
  OBVIOUS
<1>1. req \in Requests /\ risk = req.riskPPM
  BY DEF Init
<1>2. risk \in Nat
  BY <1>1
<1> QED
  BY <1>2 DEF Init, Phase

LEMMA PhaseNext ==
  ASSUME Phase, [Next]_vars
  PROVE  Phase'
<1>1. /\ best' = [c \in Channels |-> best'[c]]
      /\ expanded' = [u \in Nodes |-> expanded'[u]]
  <2>1. CASE best' = best /\ expanded' = expanded
    BY <2>1 DEF Phase
  <2>2. CASE \E l \in labels : Expand(l)
    <3>1. PICK l \in labels : Expand(l)
      BY <2>2
    <3> DEFINE D == From[Channel(l)]
               S == {x \in expanded[D] : ~Covers(Expansion(l), x)} \cup {Expansion(l)}
    <3>2. expanded' = [expanded EXCEPT ![D] = S]
      BY <3>1 DEF Expand
    <3> HIDE DEF S, D
    <3>3. DOMAIN expanded = Nodes
      BY DEF Phase
    <3>4. expanded' = [u \in Nodes |-> expanded'[u]]
      BY <3>2, <3>3
    <3> QED
      BY <3>1, <3>4 DEF Expand
  <2>3. CASE NextSearch
    BY <2>1, <2>3 DEF NextSearch, Search
  <2> QED
    BY <2>1, <2>2, <2>3 DEF Next, Answer, Drop, Complete, vars
<1>2. \/ req' = req /\ risk' = risk /\ limit' = limit
      \/ req' = req /\ risk' = 0
  BY DEF Next, Answer, Drop, Complete, Expand, NextSearch, Search, vars
<1>3. \/ pc' = pc /\ answer' = answer
      \/ pc' = "done"
  BY DEF Next, Answer, Drop, Complete, Expand, NextSearch, vars
<1> QED
  BY <1>1, <1>2, <1>3 DEF Phase

\* Under such policies, nothing better than the answer is ever lost.
BestInv == WellPriced => NothingLost /\ NoneShorter /\ AnswerIsBest

\* What is answered is the best of what was left.
LEMMA AnswerBest ==
  ASSUME SearchInv, Phase, WellPriced, NothingLost, NoneShorter,
         NEW l \in labels, Answer(l)
  PROVE  BestIs(l)
<1>1. /\ policy \in Graphs /\ req \in Requests /\ risk \in Nat
      /\ risk > 0 => limit = req.maxHops
  BY DEF SearchInv, Phase
<1>2. Sound(l) /\ Hops(l) <= limit /\ l.final /\ pc = "search"
  BY DEF SearchInv, Answer, Pop
<1>3. Ranked(l) /\ \A k \in labels : l.cost <= k.cost
  <2>1. \A k \in labels : Ranked(k) /\ k.cost \in Nat
    BY MarkIs, MarkFields DEF NothingLost, Kept, Ranked
  <2>2. \A k \in labels : l.cost < k.cost \/ l.cost = k.cost
    BY DEF Answer, Pop, First
  <2> QED
    BY <2>1, <2>2
<1>4. /\ l.cost \in Nat /\ l.cost <= Huge /\ (risk = 0 => l.cost = l.fee)
  BY <1>3, MarkIs, MarkFields DEF Ranked
<1>5. Len(l.path) \in Nat /\ Len(l.path) <= limit /\ limit \in Nat
  BY <1>2, LabelType DEF Hops, SearchInv
<1>6. ASSUME NEW p \in Routes, Len(p) <= limit
      PROVE  l.cost <= PathCost(p)
  <2>1. PathCost(p) \in Int
    <3>1. PICK f, w : Along(p, f, w)
      BY SomeAlong
    <3>2. /\ Len(p) \in Nat /\ Len(p) >= 2 /\ PathCost(p) = f[1] - Amount + w[1]
          /\ \A i \in 1 .. Len(p) : f[i] \in Nat /\ w[i] \in Nat
      BY <1>1, <3>1, AlongIs
    <3>3. 1 \in 1 .. Len(p) /\ Amount \in Nat
      BY <3>2
    <3> QED
      BY <3>2, <3>3
  <2>2. CASE PathCost(p) < Huge
    <3>1. PICK k \in labels : k.cost <= PathCost(p)
      BY <1>6, <2>2, CheapestLeft
    <3>2. k.cost \in Nat
      BY MarkIs, MarkFields DEF NothingLost, Kept, Ranked
    <3> QED
      BY <1>3, <1>4, <2>1, <3>1, <3>2
  <2>3. CASE ~(PathCost(p) < Huge)
    BY <1>4, <2>1, <2>3
  <2> QED
    BY <2>2, <2>3
<1>7. ASSUME NEW p \in Routes, risk > 0
      PROVE  l.cost <= PathCost(p)
  <2>1. Len(p) <= limit
    BY <1>1, <1>7 DEF Routes, Usable
  <2> QED
    BY <1>6, <2>1
<1>8. ASSUME NEW p \in Routes, risk = 0
      PROVE  \/ Len(l.path) < Len(p)
             \/ Len(l.path) = Len(p) /\ l.fee <= PathFee(p)
  <2>1. Len(p) \in Nat
    BY PathIs DEF Routes
  <2>2. CASE Len(p) <= limit
    <3>1. l.cost <= PathCost(p) /\ PathCost(p) = PathFee(p)
      BY <1>1, <1>6, <1>8, <2>2, FeeIsCost
    <3>2. limit <= Len(l.path)
      <4>1. l.path \in Routes
        BY <1>1, <1>2, <1>5, LabelRoute DEF Hops, SearchInv
      <4> QED
        BY <1>8, <4>1 DEF NoneShorter
    <3>3. limit <= Len(p)
      BY <1>8 DEF NoneShorter
    <3> QED
      BY <1>4, <1>5, <1>8, <2>1, <2>2, <3>1, <3>2, <3>3
  <2>3. CASE ~(Len(p) <= limit)
    BY <1>5, <2>1, <2>3
  <2> QED
    BY <2>2, <2>3
<1>9. l # NoRoute
  BY <1>2 DEF NoRoute
<1> QED
  BY <1>7, <1>8, <1>9 DEF BestIs

LEMMA CheckSoundNext ==
  SearchInv' => TooDearMeansNone'
<1>1. SearchInv => TooDearMeansNone
  BY CheckSound DEF SearchInv
<1> QED
  BY <1>1, PTL

LEMMA BestInvInit ==
  ASSUME Init
  PROVE  BestInv
<1>1. Fresh
  BY DEF Init, Fresh
<1>2. NothingLost
  BY <1>1, FreshKept
<1>3. NoneShorter
  <2> SUFFICES ASSUME risk = 0, NEW p \in Routes
               PROVE  limit <= Len(p)
    BY DEF NoneShorter
  <2>1. limit = 1
    BY DEF Init
  <2>2. Len(p) \in Nat /\ Len(p) >= 2
    BY PathIs DEF Routes
  <2> QED
    BY <2>1, <2>2
<1>4. AnswerIsBest
  BY DEF Init, AnswerIsBest
<1> QED
  BY <1>2, <1>3, <1>4 DEF BestInv

\* What was found to be the best stays so.
LEMMA AnswerStays ==
  ASSUME policy' = policy, req' = req, risk' = risk, SearchInv',
         NEW b, answer' = b, pc' = "done" => BestIs(b)
  PROVE  AnswerIsBest'
<1>1. pc' = "done" => BestIs(b)'
  BY RoutesStay
<1>2. TooDearMeansNone'
  BY CheckSoundNext
<1> QED
  BY <1>1, <1>2 DEF AnswerIsBest, BestIs

LEMMA BestInvNext ==
  ASSUME SearchInv, SearchInv', Phase, BestInv, [Next]_vars
  PROVE  BestInv'
<1> SUFFICES ASSUME WellPriced'
             PROVE  NothingLost' /\ NoneShorter' /\ AnswerIsBest'
  BY DEF BestInv
<1>1. policy' = policy /\ req' = req
  BY DEF Next, Answer, Drop, Complete, Expand, NextSearch, vars
\* Steps of one search.
<1>2. ASSUME risk' = risk
      PROVE  /\ WellPriced /\ NothingLost /\ NoneShorter /\ AnswerIsBest
             /\ limit' = limit => NoneShorter'
  <2>1. WellPriced /\ NothingLost /\ NoneShorter /\ AnswerIsBest
    BY <1>1, <1>2, PricedStays DEF BestInv
  <2>2. Routes' = Routes
    BY <1>1, <1>2, RoutesStay
  <2> QED
    BY <1>2, <2>1, <2>2 DEF NoneShorter
<1>3. ASSUME risk' = risk, pc' = pc, answer' = answer
      PROVE  AnswerIsBest'
  <2> DEFINE b == answer
  <2>1. pc = "done" => BestIs(b)
    BY <1>2, <1>3 DEF AnswerIsBest, BestIs
  <2> HIDE DEF b
  <2>2. PICK a : a = b
    OBVIOUS
  <2>3. pc' = "done" => BestIs(a)
    BY <1>3, <2>1, <2>2
  <2>4. answer' = a
    BY <1>3, <2>2 DEF b
  <2> QED
    BY <1>1, <1>3, <2>3, <2>4, AnswerStays
<1>4. ASSUME NEW l \in labels, Answer(l)
      PROVE  NothingLost' /\ NoneShorter' /\ AnswerIsBest'
  <2>1. /\ risk' = risk /\ limit' = limit /\ labels' = labels /\ best' = best
        /\ expanded' = expanded /\ answer' = l
    BY <1>4 DEF Answer
  <2>2. WellPriced /\ NothingLost /\ NoneShorter /\ NoneShorter'
    BY <1>2, <2>1
  <2>3. NothingLost'
    BY <1>1, <2>1, <2>2, KeptStays DEF NothingLost
  <2>4. BestIs(l)
    BY <1>4, <2>2, AnswerBest
  <2> QED
    BY <1>1, <2>1, <2>2, <2>3, <2>4, AnswerStays
<1>5. ASSUME NEW l \in labels, Drop(l) \/ Complete(l) \/ Expand(l)
      PROVE  NothingLost' /\ NoneShorter' /\ AnswerIsBest'
  <2>1. risk' = risk /\ limit' = limit /\ pc' = pc /\ answer' = answer
    BY <1>5 DEF Drop, Complete, Expand
  <2>2. WellPriced /\ NothingLost /\ NoneShorter'
    BY <1>2, <2>1
  <2>3. NothingLost'
    BY <1>5, <2>2, DropKept, CompleteKept, ExpandKept
  <2> QED
    BY <1>3, <2>1, <2>2, <2>3
<1>6. CASE UNCHANGED vars
  <2>1. /\ risk' = risk /\ limit' = limit /\ labels' = labels /\ best' = best
        /\ expanded' = expanded /\ answer' = answer /\ pc' = pc
    BY <1>6 DEF vars
  <2>2. NothingLost /\ NoneShorter'
    BY <1>2, <2>1
  <2>3. NothingLost'
    BY <1>1, <2>1, <2>2, KeptStays DEF NothingLost
  <2> QED
    BY <1>3, <2>1, <2>2, <2>3
\* The next search: this one has left no route of its length.
<1>7. ASSUME NextSearch
      PROVE  NothingLost' /\ NoneShorter' /\ AnswerIsBest'
  <2> DEFINE hops == IF risk > 0 THEN 2 ELSE limit + 1
  <2>1. /\ labels = {} /\ pc = "search" /\ answer' = answer /\ answer = NoRoute
        /\ policy \in Graphs /\ req \in Requests /\ risk \in Nat /\ limit \in Nat
        /\ \A p \in Routes : Len(p) \in Nat /\ Len(p) >= 2 /\ Len(p) <= req.maxHops
        /\ req.maxHops \in Nat
    BY <1>7, PathIs DEF NextSearch, SearchInv, Phase, Routes, Usable
  <2>2. ASSUME WellPriced, NothingLost, risk = 0, NEW p \in Routes
        PROVE  hops <= Len(p)
    <3>1. PathCost(p) < Huge
      BY <2>1, <2>2, FeeIsCost
    <3>2. ~(Len(p) <= limit)
      BY <2>1, <2>2, <3>1, CheapestLeft
    <3> QED
      BY <2>1, <2>2, <3>2
  <2>3. CASE hops <= req.maxHops
    <3>1. Search(hops, 0) /\ pc' = pc
      BY <1>7, <2>3 DEF NextSearch
    <3>2. Fresh'
      <4>1. labels' = {Start'} /\ policy' \in Graphs /\ req' \in Requests
        BY <1>1, <2>1, <3>1 DEF Search, Start, NoRoute
      <4> QED
        BY <3>1, <4>1 DEF Search, Fresh
    <3>3. NothingLost'
      BY <3>2, FreshKeptNext
    <3>4. limit' = hops /\ risk' = 0
      BY <3>1 DEF Search
    <3>5. \A p \in Routes : hops <= Len(p)
      <4>1. CASE risk = 0
        <5>1. risk' = risk
          BY <3>4, <4>1
        <5>2. WellPriced /\ NothingLost
          BY <1>2, <5>1
        <5> QED
          BY <2>2, <4>1, <5>2
      <4>2. CASE risk # 0
        BY <2>1, <4>2
      <4> QED
        BY <4>1, <4>2
    <3>6. Routes' = Routes
      BY <1>1, OnlyRoutesStay
    <3>7. NoneShorter'
      BY <3>4, <3>5, <3>6 DEF NoneShorter
    <3>8. AnswerIsBest'
      BY <2>1, <3>1 DEF AnswerIsBest
    <3> QED
      BY <3>3, <3>7, <3>8
  <2>4. CASE ~(hops <= req.maxHops)
    <3>1. /\ risk' = risk /\ limit' = limit /\ labels' = labels /\ best' = best
          /\ expanded' = expanded
      BY <1>7, <2>4 DEF NextSearch
    <3>2. WellPriced /\ NothingLost /\ NoneShorter'
      BY <1>2, <3>1
    <3>3. NothingLost'
      BY <1>1, <3>1, <3>2, KeptStays DEF NothingLost
    <3>4. Routes = {}
      <4> SUFFICES ASSUME NEW p \in Routes
                   PROVE  FALSE
        OBVIOUS
      <4>1. CASE risk = 0
        <5>1. hops <= Len(p)
          BY <2>2, <3>2, <4>1
        <5> QED
          BY <2>1, <2>4, <4>1, <5>1
      <4>2. CASE risk # 0
        BY <2>1, <2>4, <4>2
      <4> QED
        BY <4>1, <4>2
    <3>5. BestIs(NoRoute)
      BY <3>4 DEF BestIs
    <3>6. answer' = NoRoute
      BY <2>1
    <3> QED
      BY <1>1, <3>1, <3>2, <3>3, <3>5, <3>6, AnswerStays
  <2> QED
    BY <2>3, <2>4
<1> QED
  BY <1>4, <1>5, <1>6, <1>7 DEF Next

\* search, pop, dominated and expansions: with such policies, every mark a label
\* left is of a label to come, or led to expansions no worse, whichever labels
\* were dropped; so the answer is the best.
THEOREM NothingBetterLost == Spec => []BestInv
<1>1. Init => SearchInv /\ Phase /\ BestInv
  BY SearchInvInit, PhaseInit, BestInvInit
<1>2. SearchInv /\ [Next]_vars => SearchInv'
  BY SearchInvNext
<1>3. Phase /\ [Next]_vars => Phase'
  BY PhaseNext
<1>4. SearchInv /\ SearchInv' /\ Phase /\ BestInv /\ [Next]_vars => BestInv'
  BY BestInvNext
<1> QED
  BY <1>1, <1>2, <1>3, <1>4, PTL DEF Spec

\* GetLikelyCircularRoute, GetCircularRoute: no answer means there is no route;
\* the search on fees answers the fewest channels, then the least fee; the one
\* that weighs uncertainty the least of both together.
THEOREM BestAnswer == Spec => [](WellPriced => AnswerIsBest)
<1>1. BestInv => (WellPriced => AnswerIsBest)
  BY DEF BestInv
<1> QED
  BY <1>1, NothingBetterLost, PTL
=============================================================================
