---------------------------- MODULE RouteSearch ----------------------------
(***************************************************************************)
(* The search for the route of a rebalance (graph, pathfinder.go): from    *)
(* our channel in, backwards through the network, to our channel out.  A   *)
(* label is a way of reaching the end from a channel; labels are popped    *)
(* cheapest first, and dropped when another on the same channel is no      *)
(* longer and no dearer, or when its node was expanded from a label no     *)
(* worse.  GetLikelyCircularRoute searches once at the longest length,     *)
(* weighing fees against the channels' uncertainty, and falls back on      *)
(* GetCircularRoute, which searches length by length on fees alone.        *)
(*                                                                         *)
(* The specification prices a walk the way the payment does (route.go) and *)
(* compares the answer with all the walks of the graph.  Rates are in      *)
(* parts of Unit instead of a million; amounts saturate at Huge instead of *)
(* 2^64 - 1.  The graph does not change during a search, which holds its   *)
(* locks.  The uncertainty of a channel, -ln(chance), grows with the       *)
(* amount: it is taken as a share of it, doubt.                            *)
(***************************************************************************)
EXTENDS Integers, Sequences, FiniteSets

CONSTANTS
  Channels,     \* the channels between other nodes, and ours to them
  Out, In,      \* our channels of the rebalance
  From, To,     \* by channel, its ends
  Self,         \* our node
  Graphs,       \* the graphs considered: policies and beliefs by channel
  Amount,       \* what the rebalance delivers
  Unit,         \* the parts a rate is in
  Huge,         \* the greatest amount: math.MaxUint64
  MaxDelay,     \* MAX_ROUTE_DELAY
  InitialDelay, \* INITIAL_DELAY
  Requests,     \* maxppm, riskppm, maxhops and exclude of the searches
  MaxHops,      \* bound: the most hops a request allows
  Hopeless      \* the doubt of a channel whose chance is 0

AllChannels == Channels \cup {Out, In}

Nodes == {From[c] : c \in AllChannels} \cup {To[c] : c \in AllChannels}

\* A policy, and the liquidity and doubt the graph believes of the channel.
Policies ==
  [base : Nat, rate : Nat, inBase : Int, inRate : Int, liquidity : Nat,
   doubt : Nat, min : Nat, delay : Nat, active : BOOLEAN]

ASSUME SearchAssumption ==
  /\ Out \notin Channels /\ In \notin Channels /\ Out # In
  /\ From[Out] = Self /\ To[In] = Self
  /\ Amount \in Nat \ {0} /\ Unit \in Nat \ {0} /\ Huge \in Nat
  /\ MaxDelay \in Nat /\ InitialDelay \in Nat /\ MaxHops \in Nat
  /\ \A r \in Requests :
       /\ r.exclude \subseteq Nodes \cup Channels
       /\ r.maxHops \in 1 .. MaxHops /\ r.maxPPM \in Nat /\ r.riskPPM \in Nat
  /\ Graphs \subseteq [AllChannels -> Policies]
  \* inbound rates down to -100%
  /\ \A g \in Graphs : \A c \in AllChannels : g[c].inRate >= -Unit

VARIABLES
  policy,    \* by channel, its policy and what we believe of it
  req,       \* the search asked for
  pc,        \* "search", or "done"
  risk,      \* searchRequest.riskPPM
  limit,     \* searchRequest.maxHops
  labels,    \* the heap of labels
  best,      \* by channel, the marks no other beats
  expanded,  \* by node, the expansions no other beats
  answer     \* the label found, or NoRoute

vars == <<policy, req, pc, risk, limit, labels, best, expanded, answer>>

OutPeer == To[Out]
InPeer == From[In]

NoRoute == [path |-> <<>>, fee |-> 0, cost |-> 0, delay |-> 0, final |-> FALSE]
-----------------------------------------------------------------------------
(***************************************************************************)
(* Fees.                                                                   *)
(***************************************************************************)
AddSaturating(a, b) == IF a + b > Huge THEN Huge ELSE a + b

CeilDiv(a, b) == (a + b - 1) \div b

TowardZero(a, b) == IF a >= 0 THEN a \div b ELSE -((-a) \div b)

\* Channel.ComputeFee.
ComputeFee(c, amount) ==
  LET rate == CeilDiv(amount * policy[c].rate, Unit)
  IN IF rate > Huge THEN Huge ELSE AddSaturating(policy[c].base, rate)

\* What the node c leads to charges, or forgives, for arriving over c.
InboundFee(c, amount) ==
  policy[c].inBase + TowardZero(amount * policy[c].inRate, Unit)

\* nodeFee: never below zero.
NodeFee(outbound, inbound) ==
  IF outbound = Huge THEN Huge
  ELSE IF inbound >= 0 THEN AddSaturating(outbound, inbound)
  ELSE IF -inbound >= outbound THEN 0
  ELSE outbound + inbound

\* What the node between channels c and next charges to forward amount.
Charge(c, next, amount) ==
  NodeFee(ComputeFee(next, amount),
          InboundFee(c, AddSaturating(amount, ComputeFee(next, amount))))

\* MaxFeeForPPM, Route.FeePPM.
MaxFeeForPPM(ppm) == ((ppm + 1) * Amount - 1) \div Unit
FeePPM(fee) == (fee * Unit) \div Amount

MaxFee == MaxFeeForPPM(req.maxPPM)

CanForward(c, amount) ==
  policy[c].active /\ amount \in policy[c].min .. policy[c].liquidity

\* uncertaintyCost, with the failures remembered of its node.
Uncertainty(c, amount) ==
  IF risk = 0 THEN 0
  ELSE IF policy[c].doubt = Hopeless THEN Huge
  ELSE CeilDiv(policy[c].doubt * risk * amount, Unit)
-----------------------------------------------------------------------------
(***************************************************************************)
(* One search.                                                             *)
(***************************************************************************)
Channel(l) == Head(l.path)
Hops(l) == Len(l.path)
Carried(l) == Amount + l.fee

\* The channels between the peers may use every hop ours do not.
PathHops == limit - 1

NoWorse(x, y) == x.hops <= y.hops /\ x.fee <= y.fee /\ x.cost <= y.cost

Mark(l) == [hops |-> Hops(l), fee |-> l.fee, cost |-> l.cost]

Dominated(l) == \E m \in best[Channel(l)] : NoWorse(m, Mark(l))

\* A popped label finds its own mark: only another one beats it.
Beaten(l) == \E m \in best[Channel(l)] : NoWorse(m, Mark(l)) /\ m # Mark(l)

Record(marks, m) == {x \in marks : ~NoWorse(m, x)} \cup {m}

\* One label of those the heap may pop: least cost, then fewest hops.
First(l) ==
  /\ l \in labels
  /\ \A k \in labels :
       l.cost < k.cost \/ (l.cost = k.cost /\ Hops(l) <= Hops(k))

\* The delay at the source of l's channel, which adds its delta.
DelayAt(l) == l.delay + policy[Channel(l)].delay

Outbound(l) == ComputeFee(Channel(l), Carried(l))

Fee(c, l) == Charge(c, Channel(l), Carried(l))

\* The label that puts c before l.
Extended(c, l, uncertainty, final) ==
  [path |-> <<c>> \o l.path,
   fee |-> AddSaturating(l.fee, Fee(c, l)),
   cost |-> AddSaturating(AddSaturating(l.cost, Fee(c, l)), uncertainty),
   delay |-> DelayAt(l), final |-> final]

Affordable(l) == l.fee <= MaxFee /\ l.fee < Huge /\ Carried(l) < Huge

\* Slip: the amount a channel is checked to carry is the delivered one.
ExtensionsDelivered(l) ==
  {e \in {Extended(c, l, Uncertainty(c, Amount), FALSE) :
            c \in {c \in Channels : /\ To[c] = From[Channel(l)]
                                    /\ From[c] \notin req.exclude \cup {Self, InPeer}
                                    /\ c \notin req.exclude
                                    /\ CanForward(c, Amount)}} :
     Affordable(e) /\ e.cost < Huge /\ ~Dominated(e)}

\* The labels one channel further: never through our node, back to the
\* in-peer, or over what the rebalance excludes.
Extensions(l) ==
  LET charged(c) == AddSaturating(Carried(l), Fee(c, l))
      before == {c \in Channels :
                   /\ To[c] = From[Channel(l)]
                   /\ From[c] \notin req.exclude \cup {Self, InPeer}
                   /\ c \notin req.exclude
                   /\ CanForward(c, charged(c))}
  IN {e \in {Extended(c, l, Uncertainty(c, charged(c)), FALSE) : c \in before} :
        Affordable(e) /\ e.cost < Huge /\ ~Dominated(e)}

\* What makes an expansion of a node pointless after another.
Expansion(l) ==
  [hops |-> Hops(l), fee |-> l.fee,
   withOutbound |-> AddSaturating(l.fee, Outbound(l)),
   uncertainty |-> l.cost - l.fee]

\* Slip: the outbound fee of the channel is not compared.
CoversFees(x, y) ==
  x.hops <= y.hops /\ x.fee <= y.fee /\ x.uncertainty <= y.uncertainty

Covers(x, y) ==
  /\ x.hops <= y.hops /\ x.fee <= y.fee
  /\ x.withOutbound <= y.withOutbound /\ x.uncertainty <= y.uncertainty

Expandable(l) ==
  /\ Hops(l) + 1 <= PathHops
  /\ DelayAt(l) <= MaxDelay
  /\ \A x \in expanded[From[Channel(l)]] : ~Covers(x, Expansion(l))

Pop(l) == pc = "search" /\ First(l)

\* The route is complete.
Answer(l) ==
  /\ Pop(l) /\ l.final
  /\ answer' = l
  /\ pc' = "done"
  /\ UNCHANGED <<policy, req, risk, limit, labels, best, expanded>>

\* Our channel in is the only label without a mark.
Drop(l) ==
  /\ Pop(l) /\ ~l.final
  /\ \/ Channel(l) # In /\ Beaten(l)
     \/ From[Channel(l)] # OutPeer /\ ~Expandable(l)
  /\ labels' = labels \ {l}
  /\ UNCHANGED <<policy, req, pc, risk, limit, best, expanded, answer>>

\* The out-peer charges for forwarding from our channel out; a route never
\* passes through it twice.
Complete(l) ==
  /\ Pop(l) /\ ~l.final
  /\ ~(Channel(l) # In /\ Beaten(l))
  /\ From[Channel(l)] = OutPeer
  /\ LET e == Extended(Out, l, 0, TRUE)
         fits == Hops(e) <= limit /\ Affordable(e) /\ e.delay <= MaxDelay
     IN labels' = (labels \ {l}) \cup (IF fits THEN {e} ELSE {})
  /\ UNCHANGED <<policy, req, pc, risk, limit, best, expanded, answer>>

\* Every channel into the label's node, once per label that may price one of
\* them lower.
Expand(l) ==
  /\ Pop(l) /\ ~l.final
  /\ ~(Channel(l) # In /\ Beaten(l))
  /\ From[Channel(l)] # OutPeer /\ Expandable(l)
  /\ expanded' = [expanded EXCEPT ![From[Channel(l)]] =
                    {x \in @ : ~Covers(Expansion(l), x)} \cup {Expansion(l)}]
  /\ labels' = (labels \ {l}) \cup Extensions(l)
  /\ best' = [c \in Channels |->
                IF \E e \in Extensions(l) : Channel(e) = c
                THEN Record(best[c], Mark(CHOOSE e \in Extensions(l) : Channel(e) = c))
                ELSE best[c]]
  /\ UNCHANGED <<policy, req, pc, risk, limit, answer>>

\* Our channel in, where a search starts.
Start == [NoRoute EXCEPT !.path = <<In>>, !.delay = InitialDelay]

Search(hops, riskPPM) ==
  /\ limit' = hops /\ risk' = riskPPM
  /\ labels' = {Start}
  /\ best' = [c \in Channels |-> {}] /\ expanded' = [n \in Nodes |-> {}]

\* No route: GetLikelyCircularRoute falls back on GetCircularRoute, which
\* tries one hop more until maxhops.
NextSearch ==
  /\ pc = "search" /\ labels = {}
  /\ LET hops == IF risk > 0 THEN 2 ELSE limit + 1
     IN IF hops <= req.maxHops
        THEN Search(hops, 0) /\ UNCHANGED pc
        ELSE pc' = "done" /\ UNCHANGED <<risk, limit, labels, best, expanded>>
  /\ UNCHANGED <<policy, req, answer>>

\* With a riskppm the search that weighs uncertainty comes first; without,
\* NextSearch starts the one on fees.
Init ==
  /\ policy \in Graphs
  /\ req \in Requests
  /\ pc = "search" /\ answer = NoRoute
  /\ risk = req.riskPPM
  /\ limit = IF risk > 0 THEN req.maxHops ELSE 1
  /\ labels = IF risk > 0 THEN {Start} ELSE {}
  /\ best = [c \in Channels |-> {}] /\ expanded = [n \in Nodes |-> {}]

Next ==
  \/ \E l \in labels : Answer(l) \/ Drop(l) \/ Complete(l) \/ Expand(l)
  \/ NextSearch

Spec == Init /\ [][Next]_vars
-----------------------------------------------------------------------------
(***************************************************************************)
(* The routes there are, priced as the payment is (recomputeFeeAndDelay).  *)
(***************************************************************************)
\* The walks from the out-peer to the in-peer, whatever their nodes.
Walks ==
  {w \in UNION {[1 .. n -> Channels] : n \in 0 .. MaxHops - 2} :
     LET p == <<Out>> \o w \o <<In>>
     IN \A i \in 1 .. Len(p) - 1 : To[p[i]] = From[p[i + 1]]}

Paths == {<<Out>> \o w \o <<In>> : w \in Walks}

\* What each hop of a path carries.
Amounts(p) ==
  LET carries[i \in 1 .. Len(p)] ==
        IF i = Len(p) THEN Amount
        ELSE AddSaturating(carries[i + 1], Charge(p[i], p[i + 1], carries[i + 1]))
  IN carries

PathFee(p) == Amounts(p)[1] - Amount

\* Every node but the first adds the delta of the channel it forwards over.
PathDelay(p) ==
  LET delays[i \in 1 .. Len(p)] ==
        IF i = Len(p) THEN InitialDelay ELSE delays[i + 1] + policy[p[i + 1]].delay
  IN delays[1]

\* The channels between ours are weighed, as likely as what they carry leaves them.
PathCost(p) ==
  LET doubts[i \in 1 .. Len(p)] ==
        IF i = Len(p) THEN 0
        ELSE doubts[i + 1] + (IF i = 1 THEN 0 ELSE Uncertainty(p[i], Amounts(p)[i]))
  IN PathFee(p) + doubts[1]

\* A route the rebalance may use: through no node twice at the ends, within
\* its limits, over channels believed to carry what they must.
Usable(p) ==
  /\ Len(p) <= req.maxHops
  /\ \A i \in 2 .. Len(p) - 1 :
       /\ From[p[i]] \notin req.exclude \cup {Self, InPeer}
       /\ p[i] \notin req.exclude
       /\ CanForward(p[i], Amounts(p)[i])
       /\ i > 2 => From[p[i]] # OutPeer
  /\ Amounts(p)[1] < Huge
  /\ FeePPM(PathFee(p)) <= req.maxPPM
  /\ PathDelay(p) <= MaxDelay

Routes == {p \in Paths : Usable(p)}

\* LeastForwardFee: what the in-peer charges at least.
LeastForwardFee ==
  LET into == {c \in Channels : To[c] = InPeer /\ From[c] # Self}
                \cup (IF OutPeer = InPeer THEN {Out} ELSE {})
      charges == {Charge(c, In, Amount) : c \in into}
  IN IF into = {} THEN ComputeFee(In, Amount)
     ELSE CHOOSE f \in charges : \A g \in charges : f <= g

\* The check made before a search (LeastForwardFee above the limit) rules out
\* no route.
TooDearMeansNone == LeastForwardFee > MaxFee => Routes = {}
-----------------------------------------------------------------------------
(***************************************************************************)
(* Policies under which a label that is dropped never hides a better one.  *)
(***************************************************************************)
\* The channels of a label that is not complete.
Inside == Channels \cup {In}

Delays == {policy[c].delay : c \in Inside}

\* Labels are not compared on delay: whether one keeps the limit must be told
\* by its number of channels.
LengthTellsDelay ==
  \E low, high \in Delays :
    /\ \A d \in Delays : d \in low .. high
    /\ \A h \in 1 .. MaxHops :
         InitialDelay + h * high <= MaxDelay \/ InitialDelay + h * low > MaxDelay

\* No channel needs more than what is delivered: a smaller amount is carried
\* wherever a larger one is.
NoneTooSmall == \A c \in Channels : policy[c].min <= Amount

\* Fees stay clear of the greatest amount, or are it.
FeesLeaveRoom ==
  \A c \in Inside, a \in Amount .. Amount + MaxFee :
    ComputeFee(c, a) = Huge \/ a + ComputeFee(c, a) < Huge

\* What a node charges does not fall as the amount grows: labels are compared
\* on their cost, which counts the charges to come by the amounts they are on.
ChargesGrow ==
  \A c \in Channels \cup {Out}, d \in Inside : \A a, b \in Amount .. Amount + MaxFee :
    To[c] = From[d] /\ a <= b => Charge(c, d, a) <= Charge(c, d, b)

WellPriced ==
  LengthTellsDelay /\ NoneTooSmall /\ FeesLeaveRoom /\ (risk > 0 => ChargesGrow)
-----------------------------------------------------------------------------
\* What the search answers is a route of the network within every limit of the
\* rebalance, at the price and delay the payment will have: the search prices
\* backwards, label by label; the route is priced again from its channels.
AnswerHolds ==
  answer # NoRoute =>
    /\ answer.path \in Routes
    /\ answer.fee = PathFee(answer.path)
    /\ answer.delay = PathDelay(answer.path)

\* Dropping labels loses nothing: no answer means there is no route; the search
\* on fees answers the fewest channels, then the least fee; the one that weighs
\* uncertainty answers the least fee plus uncertainty.  And the check made
\* before it (LeastForwardFee above the limit) rules out no route.
AnswerIsBest ==
  pc = "done" =>
    /\ answer = NoRoute => Routes = {}
    /\ answer # NoRoute /\ risk = 0 =>
         \A p \in Routes :
           \/ Len(answer.path) < Len(p)
           \/ Len(answer.path) = Len(p) /\ answer.fee <= PathFee(p)
    /\ answer # NoRoute /\ risk > 0 =>
         \A p \in Routes : answer.cost <= PathCost(p)
    /\ TooDearMeansNone
=============================================================================
