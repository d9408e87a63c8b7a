-------------------------------- MODULE Split --------------------------------
(***************************************************************************)
(* One rebalance between two of our channels (rebalance/rebalance.go,      *)
(* failure.go): payments over one route after another, each learning from  *)
(* the one before, until one succeeds or the attempts are spent.  A route  *)
(* that worked before is tried first; one that ran short of liquidity is   *)
(* sent again with half the amount once no other is left.                  *)
(*                                                                         *)
(* A route is the sequence of its channels between our out channel and our *)
(* in channel.  What the graph believes of a channel, and what it charges, *)
(* is a choice at each use: other splits, refreshes and time change it     *)
(* while this one is running.  What this split excludes is its own, and    *)
(* modelled.  Amounts are in sats, fees in msat.                           *)
(***************************************************************************)
EXTENDS SplitResult, Sequences, FiniteSets

CONSTANTS
  Channels, Nodes,  \* those between our out-peer and our in-peer, peers included
  Source,           \* the node that forwards over a channel
  OutPeer, InPeer,
  Routes,           \* the routes a search can find
  KnownRoute,       \* the route that worked before, or NoRoute
  NoRoute,          \* no route: nil in the code
  Avoided,          \* bound: what earlier rebalances learned to avoid
  Amount, Attempts, MaxNodeFails,
  WithStop          \* bound: circular-stop is called during the split

ASSUME RouteAssumption ==
  /\ Source \in [Channels -> Nodes] /\ OutPeer \in Nodes /\ InPeer \in Nodes
  /\ Routes \subseteq Seq(Channels) /\ NoRoute \notin Routes
  /\ KnownRoute \in Routes \cup {NoRoute}
  /\ Avoided \subseteq (Channels \cup Nodes) \ {OutPeer, InPeer}
  /\ Channels \cap Nodes = {}
  /\ \A route \in Routes : route # <<>> => Source[route[1]] = OutPeer
  /\ Amount \in Nat \ {0} /\ Attempts \in Nat \ {0} /\ MaxNodeFails \in Nat \ {0}
  /\ WithStop \in BOOLEAN

VARIABLES
  pc,          \* where Run is
  i,           \* the attempt
  amount,      \* r.Amount
  way,         \* how this payment's route comes: known, searched or shrunk
  sent,        \* the route of the payment, or NoRoute
  fee,         \* what it costs
  exclude,     \* channels and nodes searches leave out
  short,       \* the last route that ran short, or NoRoute
  shortIds,    \* the channels excluded because it did
  nodeFailures,
  payments,
  halt, nodeStopped,
  result,
  shortAt,     \* ghost: the last amount a channel ran short of; 0: none
  broken,      \* ghost: what failed for another reason
  lateSent     \* ghost: the payments sent since the split was told to stop

tryVars  == <<i, amount, way, sent, fee>>
shortVars == <<short, shortIds>>
flagVars == <<halt, nodeStopped>>
ghosts   == <<shortAt, broken>>

vars == <<pc, tryVars, exclude, shortVars, nodeFailures, payments, flagVars,
          result, ghosts, lateSent>>

Over(route) == {route[k] : k \in DOMAIN route}

NoResult == [status |-> "none"]

TypeOK ==
  /\ pc \in {"attempt", "search", "pay", "flying", "done"}
  /\ i \in 1 .. Attempts
  /\ amount \in 1 .. Amount
  /\ way \in {"known", "searched", "shrunk"}
  /\ sent \in Routes \cup {NoRoute}
  /\ fee \in Nat
  /\ exclude \subseteq Channels \cup Nodes
  /\ short \in Routes \cup {NoRoute}
  /\ shortIds \subseteq Channels
  /\ nodeFailures \in [Nodes -> Nat]
  /\ payments \in Nat
  /\ halt \in BOOLEAN /\ nodeStopped \in BOOLEAN
  /\ shortAt \in [Channels -> 0 .. Amount]
  /\ broken \subseteq Channels \cup Nodes
  /\ lateSent \in Nat
-----------------------------------------------------------------------------
(***************************************************************************)
(* Routes and prices.                                                      *)
(***************************************************************************)
\* Neither its channels nor the nodes that forward over them are left out;
\* what the graph believes of them is a choice.
CanCarry(route, out) ==
  \A c \in Over(route) : c \notin out /\ Source[c] \notin out

\* The price of a payment of that many sats: a route that costs more is not
\* taken.
Prices(sats) == 0 .. WorstFee(sats)

\* knownRoute: the route that worked can be tried again.
KnownUsable(out) == KnownRoute # NoRoute /\ CanCarry(KnownRoute, out)

\* Run: it is priced once, at the start, for Amount.
Init ==
  /\ pc = "attempt" /\ i = 1 /\ amount = Amount
  /\ exclude \in SUBSET Avoided
  /\ \/ way = "searched" /\ sent = NoRoute /\ fee = 0
     \/ /\ KnownUsable(exclude)
        /\ way = "known" /\ sent = KnownRoute /\ fee \in Prices(Amount)
  /\ short = NoRoute /\ shortIds = {}
  /\ nodeFailures = [n \in Nodes |-> 0]
  /\ payments = 0
  /\ halt = FALSE /\ nodeStopped = FALSE
  /\ result = NoResult
  /\ shortAt = [c \in Channels |-> 0] /\ broken = {} /\ lateSent = 0
-----------------------------------------------------------------------------
(***************************************************************************)
(* The end of the split.                                                   *)
(***************************************************************************)
Fail(side, retry, precheck) ==
  /\ pc' = "done"
  /\ result' = [status |-> "failure", payments |-> payments,
                failedAt |-> side, retry |-> retry, precheck |-> precheck]
  /\ UNCHANGED <<tryVars, shortVars, lateSent>>

\* Nothing else failed than the split.
FailsHere == UNCHANGED <<exclude, nodeFailures, payments, flagVars, ghosts>>
-----------------------------------------------------------------------------
(***************************************************************************)
(* runAttempt, up to its payment.                                          *)
(***************************************************************************)
\* circular-stop, or the halt of the split's run.
EndsTold ==
  /\ pc = "attempt" /\ (nodeStopped \/ halt)
  /\ Fail("none", "no", FALSE) /\ FailsHere

\* Our copy of our channels: connected, in normal state, with the balance.
EndsAtPrecheck ==
  /\ pc = "attempt" /\ ~nodeStopped /\ ~halt
  /\ \E side \in {"out", "in"} :
       Fail(side, "no", FALSE) \/ Fail(side, "whenFree", TRUE)
  /\ FailsHere

\* Slip: the flags are not read.
CheckedUntold ==
  /\ pc = "attempt"
  /\ pc' = IF sent = NoRoute THEN "search" ELSE "pay"
  /\ UNCHANGED <<tryVars, exclude, shortVars, nodeFailures, payments, flagVars,
                 result, ghosts, lateSent>>

Checked ==
  /\ pc = "attempt" /\ ~nodeStopped /\ ~halt
  /\ pc' = IF sent = NoRoute THEN "search" ELSE "pay"
  /\ UNCHANGED <<tryVars, exclude, shortVars, nodeFailures, payments, flagVars,
                 result, ghosts, lateSent>>

\* getRoute finds a route within maxppm.
Found ==
  /\ pc = "search"
  /\ \E route \in Routes :
       /\ CanCarry(route, exclude)
       /\ sent' = route
  /\ fee' \in Prices(amount)
  /\ pc' = "pay"
  /\ UNCHANGED <<i, amount, way, exclude, shortVars, nodeFailures, payments,
                 flagVars, result, ghosts, lateSent>>

\* The in-peer alone charges more than maxppm, or than the split's own limit.
InPeerTooDear ==
  /\ pc = "search"
  /\ \/ Fail("in", "no", FALSE)
     \/ Fail("none", "no", FALSE)
  /\ FailsHere

\* Slips of shrink: the minimum is forgotten; any of the route's channels is
\* taken for one that only ran short.
ShrinkToNothing(half) ==
  /\ short # NoRoute /\ MinSplit > 0
  /\ half > 0
  /\ CanCarry(short, exclude \ shortIds)

ShrinkAnyway(half) ==
  /\ short # NoRoute /\ MinSplit > 0
  /\ half >= Least(MinSplit, Amount) /\ half > 0
  /\ CanCarry(short, exclude \ Over(short))

\* shrink: the route that ran short may carry that many sats, as far as this
\* split knows.  The channels it was short on were left out for more.
CanShrink(half) ==
  /\ short # NoRoute /\ MinSplit > 0
  /\ half >= Least(MinSplit, Amount) /\ half > 0
  /\ CanCarry(short, exclude \ shortIds)

\* No route, or none within maxppm: the one that ran short is sent less.
Shrink ==
  /\ pc = "search"
  /\ LET half == amount \div 2 IN
       /\ CanShrink(half)
       /\ amount' = half
       /\ fee' \in Prices(half)
  /\ way' = "shrunk" /\ sent' = short
  /\ pc' = "attempt"
  /\ UNCHANGED <<i, exclude, shortVars, nodeFailures, payments, flagVars, result,
                 ghosts, lateSent>>

\* It cannot be: it is gone, too dear, or not believed to carry the half.
NothingFound ==
  /\ pc = "search"
  /\ Fail("route", "no", FALSE) /\ FailsHere

\* checkFirstHop: our out channel cannot send the amount and its fees.
FirstHopShort ==
  /\ pc = "pay"
  /\ \/ Fail("out", "whenFree", TRUE)
     \/ Fail("out", "no", FALSE)
  /\ FailsHere

Pay ==
  /\ pc = "pay"
  /\ pc' = "flying"
  /\ payments' = payments + 1
  /\ lateSent' = IF halt \/ nodeStopped THEN lateSent + 1 ELSE lateSent
  /\ UNCHANGED <<tryVars, exclude, shortVars, nodeFailures, flagVars, result, ghosts>>
-----------------------------------------------------------------------------
(***************************************************************************)
(* The outcome of a payment.                                               *)
(***************************************************************************)
Succeeds ==
  /\ pc = "flying" /\ pc' = "done"
  /\ result' = [status |-> "success", moved |-> amount, fee |-> fee]
  /\ UNCHANGED <<tryVars, exclude, shortVars, nodeFailures, payments, flagVars,
                 ghosts, lateSent>>

\* A timeout, an RPC error, our own node, our out channel, or our in channel
\* and its peer: no other route would help.
EndsTheSplit ==
  /\ pc = "flying"
  /\ \/ Fail("none", "no", FALSE)
     \/ Fail("out", "no", FALSE) \/ Fail("out", "whenFree", FALSE)
     \/ \E retry \in {"no", "whenFree", "now"} : Fail("in", retry, FALSE)
  /\ FailsHere

\* Slip: a payment with less is no attempt.
NextAttemptFree ==
  IF i + (IF way = "searched" THEN 1 ELSE 0) <= Attempts
  THEN /\ pc' = "attempt" /\ i' = i + (IF way = "searched" THEN 1 ELSE 0)
       /\ way' = "searched" /\ sent' = NoRoute /\ fee' = 0
       /\ UNCHANGED <<amount, result, lateSent>>
  ELSE /\ pc' = "done"
       /\ result' = [status |-> "failure", payments |-> payments,
                     failedAt |-> "route", retry |-> "no", precheck |-> FALSE]
       /\ UNCHANGED <<tryVars, lateSent>>

\* The attempt is consumed, unless the route that worked was tried: that
\* leads to a search in the same attempt.
NextAttempt ==
  IF way = "known" \/ i < Attempts
  THEN /\ pc' = "attempt" /\ i' = IF way = "known" THEN i ELSE i + 1
       /\ way' = "searched" /\ sent' = NoRoute /\ fee' = 0
       /\ UNCHANGED <<amount, result, lateSent>>
  ELSE /\ pc' = "done"
       /\ result' = [status |-> "failure", payments |-> payments,
                     failedAt |-> "route", retry |-> "no", precheck |-> FALSE]
       /\ UNCHANGED <<tryVars, lateSent>>

\* Whatever is at fault is left out of this split's searches.
LeaveOut(failed) ==
  /\ exclude' = exclude \cup failed
  /\ broken' = broken \cup failed
  /\ UNCHANGED <<nodeFailures, payments, flagVars, shortAt>>

\* It failed for another reason than liquidity: a route that was sent less is
\* not tried again.
NotShort ==
  IF way = "shrunk" THEN short' = NoRoute /\ UNCHANGED shortIds ELSE UNCHANGED shortVars

\* The policy of a channel, the channel or its node; or a node the route does
\* not have.
Fails ==
  /\ pc = "flying"
  /\ \/ \E c \in Over(sent) : LeaveOut({c})
     \/ \E c \in Over(sent) \ {sent[1]} : LeaveOut({c, Source[c]})
     \/ \E n \in Nodes \ ({Source[c] : c \in Over(sent)} \cup {OutPeer, InPeer}) :
          LeaveOut({n})
  /\ NotShort
  /\ NextAttempt

\* The out-peer failed a payment itself.
OutPeerFails ==
  /\ pc = "flying" /\ Over(sent) # {}
  /\ \/ Fail("out", "no", FALSE)
     \/ Fail("out", "whenFree", FALSE)
  /\ LeaveOut({sent[1], OutPeer})

\* Slip: the node is left out one failure late.
DrainedLate(n) == nodeFailures[n] + 1 > MaxNodeFails

Drained(n) == nodeFailures[n] + 1 >= MaxNodeFails

\* A channel along the route could not carry the amount: the channel is left
\* out and, after enough of them, its node.
NoteShort(c) ==
  /\ exclude' = exclude \cup {c} \cup {n \in {Source[c]} : Drained(n) /\ c # sent[1]}
  /\ nodeFailures' = [nodeFailures EXCEPT ![Source[c]] = @ + 1]
  /\ shortAt' = [shortAt EXCEPT ![c] = amount]
  /\ UNCHANGED <<payments, flagVars, broken>>

\* The route is kept, to be sent less, but for the one that worked before.
RememberShort ==
  CASE way = "known"    -> UNCHANGED shortVars
    [] way = "searched" -> short' = sent /\ shortIds' = Over(sent) \cap exclude'
    [] way = "shrunk"   -> UNCHANGED short /\ shortIds' = shortIds \cup (Over(sent) \cap exclude')

RunsShort ==
  /\ pc = "flying"
  /\ \E c \in Over(sent) :
       /\ c # sent[1] \/ ~Drained(Source[c])
       /\ NoteShort(c)
  /\ RememberShort
  /\ NextAttempt

\* The out-peer, on every route, has little left.
OutPeerDrained ==
  /\ pc = "flying" /\ Over(sent) # {}
  /\ Drained(Source[sent[1]])
  /\ NoteShort(sent[1])
  /\ Fail("out", "no", FALSE)
-----------------------------------------------------------------------------
\* circular-stop and circular-resume.
Toggle ==
  /\ WithStop
  /\ nodeStopped' = ~nodeStopped
  /\ lateSent' = IF halt THEN lateSent ELSE 0
  /\ UNCHANGED <<pc, tryVars, exclude, shortVars, nodeFailures, payments, halt,
                 result, ghosts>>

\* The run that fired the split stopped.
Halt ==
  /\ WithStop
  /\ halt' = TRUE
  /\ UNCHANGED <<pc, tryVars, exclude, shortVars, nodeFailures, payments,
                 nodeStopped, result, ghosts, lateSent>>

RunAttempt ==
  \/ EndsTold \/ EndsAtPrecheck \/ Checked \/ Found \/ InPeerTooDear \/ Shrink
  \/ NothingFound \/ FirstHopShort \/ Pay

Outcome ==
  \/ Succeeds \/ EndsTheSplit \/ Fails \/ OutPeerFails \/ RunsShort \/ OutPeerDrained

Next == RunAttempt \/ Outcome \/ Toggle \/ Halt

Spec == Init /\ [][Next]_vars
-----------------------------------------------------------------------------
(***************************************************************************)
(* Properties.                                                             *)
(***************************************************************************)
\* README, attempts: "the number of payments that may be made once a path is
\* found (one more in the parallel commands when a split's reused route
\* fails)", the payments with less and the searches that found nothing
\* included.
NoMorePayments ==
  payments <= Attempts + (IF KnownRoute = NoRoute THEN 0 ELSE 1)

\* README, maxnodefails: "how many of a rebalance's payments one node may fail
\* to forward for lack of liquidity": neither the route that worked before nor
\* the one sent less goes back to a node that had that many.
NodeFailsBounded == \A n \in Nodes : nodeFailures[n] <= MaxNodeFails

\* Run, shrink: no payment goes over what failed an earlier one of the split,
\* but for a channel that ran short, with less than it was short of.  The
\* exclusions shrink takes back must not be those of other failures.
NeverSameFailure ==
  pc = "flying" =>
    \A c \in Over(sent) :
      /\ c \notin broken /\ Source[c] \notin broken
      /\ shortAt[c] # 0 => amount < shortAt[c]

\* What the run that fired the split relies on (SplitResult): what it delivers
\* and pays, and how it can fail.
ResultAllowed ==
  /\ result.status = "success" =>
       /\ result.moved \in Delivered(Amount)
       /\ result.fee <= WorstFee(result.moved)
  /\ result.status = "failure" =>
       /\ [failedAt |-> result.failedAt, retry |-> result.retry,
           precheck |-> result.precheck] \in FailureKinds
       /\ CanHappen(result)

\* Halt: "ends the rebalance before its next payment once it reads true"; so
\* does circular-stop.  One payment may already have been on its way from the
\* check to sendpay.
OneLatePayment == lateSent <= 1
=============================================================================
