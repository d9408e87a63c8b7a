----------------------------- MODULE SplitProofs -----------------------------
(***************************************************************************)
(* Proofs about Split, for any routes, amounts and numbers of attempts.    *)
(***************************************************************************)
EXTENDS Split, CollectionProofs

USE RouteAssumption, SplitAssumption

Told == halt \/ nodeStopped

Extra == IF KnownRoute = NoRoute THEN 0 ELSE 1

\* Each attempt sends one payment at most, and the route that worked before
\* one more.
Counted ==
  IF way = "known"
  THEN /\ KnownRoute # NoRoute /\ i = 1
       /\ payments <= IF pc \in {"flying", "done"} THEN 1 ELSE 0
  ELSE payments <= i - 1 + Extra + (IF pc \in {"flying", "done"} THEN 1 ELSE 0)

\* Between the check of the flags and the payment, none was sent late.
Late ==
  /\ lateSent <= 1
  /\ ~Told \/ pc \in {"search", "pay"} => lateSent = 0

\* Whatever failed is left out; a node that failed too many payments too.
Learned ==
  /\ broken \subseteq exclude
  /\ \A c \in Channels : shortAt[c] # 0 => c \in exclude /\ amount <= shortAt[c]
  /\ \A n \in Nodes :
       /\ nodeFailures[n] <= MaxNodeFails
       /\ nodeFailures[n] < MaxNodeFails \/ n \in exclude \/ pc = "done"

\* The channels shrink takes back only ran short.
TakenBack ==
  /\ shortIds \subseteq exclude
  /\ short # NoRoute => shortIds \cap broken = {}

\* The route about to be paid has nothing left out, but what shrink takes back
\* for less than it was short of.
OnItsWay ==
  /\ pc = "search" => way = "searched" /\ sent = NoRoute
  /\ pc = "attempt" => (way = "searched" <=> sent = NoRoute)
  /\ pc \in {"pay", "flying"} => sent # NoRoute
  /\ sent # NoRoute =>
       IF way = "shrunk"
       THEN /\ sent = short
            /\ CanCarry(sent, exclude \ shortIds)
            /\ \A c \in Over(sent) : shortAt[c] # 0 => amount < shortAt[c]
       ELSE CanCarry(sent, exclude)

IInv ==
  /\ TypeOK /\ Counted /\ Late /\ Learned
  /\ pc # "done" => TakenBack /\ OnItsWay
-----------------------------------------------------------------------------
\* The channels of a route are channels.
LEMMA OverChannels ==
  ASSUME NEW route \in Routes
  PROVE  /\ Over(route) \subseteq Channels
         /\ route[1] \in Over(route) \/ Over(route) = {}
<1>1. route \in Seq(Channels)
  OBVIOUS
<1>2. Over(route) \subseteq Channels
  BY <1>1 DEF Over
<1>3. PICK n \in Nat : DOMAIN route = 1 .. n
  BY <1>1
<1>4. CASE n = 0
  BY <1>3, <1>4 DEF Over
<1>5. CASE n # 0
  <2>1. 1 \in DOMAIN route
    BY <1>3, <1>5
  <2> QED
    BY <2>1 DEF Over
<1> QED
  BY <1>2, <1>4, <1>5

\* What a payment of that many sats may cost is a number.
LEMMA PriceType ==
  ASSUME NEW a \in Nat, NEW f \in Prices(a)
  PROVE  f \in Nat
BY DEF Prices

\* The split starts with nothing learned but what it avoids.
LEMMA StartsClean == Init => IInv
<1> SUFFICES ASSUME Init PROVE IInv
  OBVIOUS
<1>1. fee \in Nat
  BY PriceType DEF Init
<1>2. TypeOK
  <2>1. exclude \subseteq Channels \cup Nodes
    BY DEF Init
  <2>2. /\ nodeFailures \in [Nodes -> Nat] /\ shortAt \in [Channels -> 0 .. Amount]
        /\ i \in 1 .. Attempts /\ amount \in 1 .. Amount
    BY DEF Init
  <2>3. /\ sent \in Routes \cup {NoRoute} /\ short \in Routes \cup {NoRoute}
        /\ way \in {"known", "searched", "shrunk"}
    BY DEF Init, KnownUsable
  <2> QED
    BY <1>1, <2>1, <2>2, <2>3 DEF Init, TypeOK
<1>3. Counted /\ Late /\ Learned /\ TakenBack
  BY DEF Init, KnownUsable, Counted, Extra, Late, Told, Learned, TakenBack
<1>4. OnItsWay
  BY DEF Init, KnownUsable, OnItsWay
<1> QED
  BY <1>2, <1>3, <1>4 DEF IInv

\* No step before the payment breaks the invariant.
LEMMA RunAttemptKeeps ==
  ASSUME IInv, RunAttempt
  PROVE  IInv'
<1> USE DEF IInv, tryVars, shortVars, flagVars, ghosts, Told
<1>1. CASE EndsTold \/ EndsAtPrecheck \/ InPeerTooDear \/ NothingFound \/ FirstHopShort
  <2>1. pc' = "done" /\ UNCHANGED <<tryVars, shortVars, lateSent>> /\ FailsHere
    BY <1>1 DEF EndsTold, EndsAtPrecheck, InPeerTooDear, NothingFound, FirstHopShort, Fail
  <2>2. TypeOK' /\ Counted' /\ Late' /\ Learned'
    BY <2>1 DEF FailsHere, TypeOK, Counted, Extra, Late, Learned
  <2> QED
    BY <2>1, <2>2
<1>2. CASE Checked
  BY <1>2 DEF Checked, TypeOK, Counted, Extra, Late, Learned, TakenBack, OnItsWay, CanCarry
<1>3. CASE Found
  <2>1. TypeOK' /\ Counted' /\ Late' /\ Learned' /\ TakenBack'
    BY <1>3, PriceType DEF Found, TypeOK, Counted, Extra, Late, Learned, TakenBack, OnItsWay
  <2>2. OnItsWay'
    BY <1>3 DEF Found, OnItsWay, CanCarry
  <2> QED
    BY <2>1, <2>2
<1>4. CASE Shrink
  <2> DEFINE half == amount \div 2
  <2>1. /\ pc = "search" /\ pc' = "attempt" /\ CanShrink(half) /\ amount' = half
        /\ fee' \in Prices(half) /\ way' = "shrunk" /\ sent' = short
        /\ UNCHANGED <<i, exclude, shortVars, nodeFailures, payments, flagVars, ghosts,
                       lateSent>>
    BY <1>4 DEF Shrink
  <2>2. half \in 1 .. Amount /\ half < amount
    BY <2>1 DEF CanShrink, TypeOK
  <2>3. fee' \in Nat
    BY <2>1, <2>2, PriceType
  <2> HIDE DEF half
  <2>4. TypeOK'
    BY <2>1, <2>2, <2>3 DEF TypeOK
  <2>5. Counted' /\ Late' /\ TakenBack'
    BY <2>1 DEF Counted, Extra, Late, TakenBack, OnItsWay
  <2>6. \A c \in Channels : shortAt[c] # 0 => c \in exclude /\ half < shortAt[c]
    BY <2>2 DEF Learned, TypeOK
  <2>7. Learned'
    BY <2>1, <2>2, <2>6 DEF Learned, TypeOK
  <2>8. Over(short) \subseteq Channels
    BY <2>1, OverChannels DEF CanShrink, TypeOK
  <2>9. OnItsWay'
    BY <2>1, <2>6, <2>8 DEF OnItsWay, CanShrink, CanCarry
  <2> QED
    BY <2>4, <2>5, <2>7, <2>9
<1>5. CASE Pay
  <2>1. TypeOK' /\ Counted' /\ Late' /\ Learned' /\ TakenBack'
    BY <1>5 DEF Pay, TypeOK, Counted, Extra, Late, Learned, TakenBack
  <2>2. OnItsWay'
    BY <1>5 DEF Pay, OnItsWay, CanCarry
  <2> QED
    BY <2>1, <2>2
<1> QED
  BY <1>1, <1>2, <1>3, <1>4, <1>5 DEF RunAttempt

\* A split that is over keeps the invariant, if what it learned last is sound.
LEMMA OverKeeps ==
  ASSUME IInv, pc = "flying", pc' = "done",
         UNCHANGED <<tryVars, payments, flagVars, lateSent>>,
         short' \in Routes \cup {NoRoute}, shortIds' \subseteq Channels,
         exclude' \subseteq Channels \cup Nodes, broken' \subseteq exclude',
         nodeFailures' \in [Nodes -> Nat], shortAt' \in [Channels -> 0 .. Amount],
         \A n \in Nodes : nodeFailures'[n] <= MaxNodeFails,
         \A c \in Channels : shortAt'[c] # 0 => c \in exclude' /\ amount <= shortAt'[c]
  PROVE  IInv'
<1> USE DEF IInv, tryVars, flagVars, Told
<1>1. TypeOK'
  BY DEF TypeOK
<1>2. Counted' /\ Late'
  BY DEF Counted, Extra, Late
<1>3. Learned'
  BY DEF Learned
<1> QED
  BY <1>1, <1>2, <1>3

\* The next attempt starts with a search, and keeps what was learned.
LEMMA NextAttemptKeeps ==
  ASSUME IInv, pc = "flying", NextAttempt,
         UNCHANGED <<payments, flagVars>>,
         short' \in Routes \cup {NoRoute}, shortIds' \subseteq Channels,
         exclude' \subseteq Channels \cup Nodes, broken' \subseteq exclude',
         nodeFailures' \in [Nodes -> Nat], shortAt' \in [Channels -> 0 .. Amount],
         \A n \in Nodes : /\ nodeFailures'[n] <= MaxNodeFails
                          /\ nodeFailures'[n] < MaxNodeFails \/ n \in exclude',
         \A c \in Channels : shortAt'[c] # 0 => c \in exclude' /\ amount <= shortAt'[c],
         shortIds' \subseteq exclude', short' # NoRoute => shortIds' \cap broken' = {}
  PROVE  IInv'
<1>1. CASE way = "known" \/ i < Attempts
  <2> USE DEF IInv, flagVars, Told
  <2>1. /\ pc' = "attempt" /\ i' = IF way = "known" THEN i ELSE i + 1
        /\ way' = "searched" /\ sent' = NoRoute /\ fee' = 0
        /\ UNCHANGED <<amount, result, lateSent>>
    BY <1>1 DEF NextAttempt
  <2>2. i' \in 1 .. Attempts
    BY <1>1, <2>1 DEF TypeOK
  <2>3. TypeOK'
    BY <2>1, <2>2 DEF TypeOK
  <2>4. Counted' /\ Late'
    BY <2>1 DEF TypeOK, Counted, Extra, Late
  <2>5. Learned'
    BY <2>1 DEF Learned
  <2>6. TakenBack'
    BY DEF TakenBack
  <2>7. OnItsWay'
    BY <2>1 DEF OnItsWay
  <2> QED
    BY <2>3, <2>4, <2>5, <2>6, <2>7
<1>2. CASE ~(way = "known" \/ i < Attempts)
  <2>1. pc' = "done" /\ UNCHANGED <<tryVars, lateSent>>
    BY <1>2 DEF NextAttempt
  <2>2. UNCHANGED <<tryVars, payments, flagVars, lateSent>>
    BY <2>1
  <2>3. \A n \in Nodes : nodeFailures'[n] <= MaxNodeFails
    OBVIOUS
  <2> QED
    BY <2>1, <2>2, <2>3, OverKeeps
<1> QED
  BY <1>1, <1>2

\* While a payment is on its way, its channels and their nodes have not failed
\* any earlier one, but for a channel that ran short of more.
LEMMA FreshRoute ==
  ASSUME IInv, pc = "flying", NEW c \in Over(sent)
  PROVE  /\ sent \in Routes /\ c \in Channels /\ Source[c] \in Nodes
         /\ c \notin broken /\ Source[c] \notin broken /\ Source[c] \notin exclude
         /\ shortAt[c] # 0 => amount < shortAt[c]
         /\ c \in exclude => way = "shrunk" /\ c \in shortIds
<1> USE DEF IInv
<1>1. sent \in Routes
  BY DEF OnItsWay, TypeOK
<1>2. c \in Channels /\ Source[c] \in Nodes
  BY <1>1, OverChannels
<1>3. CASE way = "shrunk"
  <2>1. /\ sent = short /\ short # NoRoute /\ CanCarry(sent, exclude \ shortIds)
        /\ shortAt[c] # 0 => amount < shortAt[c]
    BY <1>1, <1>3 DEF OnItsWay
  <2>2. Source[c] \notin shortIds
    BY <1>2 DEF TypeOK
  <2>3. (c \in exclude => c \in shortIds) /\ Source[c] \notin exclude
    BY <2>1, <2>2 DEF CanCarry
  <2> QED
    BY <1>1, <1>2, <1>3, <2>1, <2>3 DEF Learned, TakenBack
<1>4. CASE way # "shrunk"
  <2>1. c \notin exclude /\ Source[c] \notin exclude
    BY <1>1, <1>4 DEF OnItsWay, CanCarry
  <2> QED
    BY <1>1, <1>2, <2>1 DEF Learned
<1> QED
  BY <1>3, <1>4

\* What failed for another reason than liquidity is left out for good.
LEMMA FailsKeeps ==
  ASSUME IInv, Fails
  PROVE  IInv'
<1> USE DEF IInv
<1>1. PICK failed \in SUBSET (Channels \cup Nodes) :
        /\ LeaveOut(failed)
        /\ \A x \in failed : x \in Nodes \/ x \in Over(sent)
  <2>1. CASE \E c \in Over(sent) : LeaveOut({c})
    BY <2>1, FreshRoute DEF Fails
  <2>2. CASE \E c \in Over(sent) \ {sent[1]} : LeaveOut({c, Source[c]})
    BY <2>2, FreshRoute DEF Fails
  <2>3. CASE \E n \in Nodes \ ({Source[c] : c \in Over(sent)} \cup {OutPeer, InPeer}) :
               LeaveOut({n})
    BY <2>3
  <2> QED
    BY <2>1, <2>2, <2>3 DEF Fails
<1>2. pc = "flying" /\ NextAttempt /\ NotShort
  BY DEF Fails
<1>3. /\ exclude' = exclude \cup failed /\ broken' = broken \cup failed
      /\ UNCHANGED <<nodeFailures, payments, flagVars, shortAt>>
  BY <1>1 DEF LeaveOut
<1>4. /\ short' \in Routes \cup {NoRoute} /\ shortIds' = shortIds
      /\ short' # NoRoute => short' = short /\ way # "shrunk"
  BY <1>2 DEF NotShort, shortVars, TypeOK
<1>5. ASSUME short' # NoRoute, NEW x \in failed PROVE x \notin shortIds
  <2>1. CASE x \in Nodes
    BY <2>1 DEF TypeOK
  <2>2. CASE x \in Over(sent)
    BY <1>2, <1>4, <1>5, <2>2, FreshRoute DEF TakenBack
  <2> QED
    BY <1>1, <2>1, <2>2
<1>6. /\ shortIds' \subseteq exclude' /\ broken' \subseteq exclude'
      /\ short' # NoRoute => shortIds' \cap broken' = {}
  BY <1>2, <1>3, <1>4, <1>5 DEF TakenBack, Learned
<1>7. /\ exclude' \subseteq Channels \cup Nodes /\ shortIds' \subseteq Channels
      /\ nodeFailures' \in [Nodes -> Nat] /\ shortAt' \in [Channels -> 0 .. Amount]
  BY <1>1, <1>3, <1>4 DEF TypeOK
<1>8. /\ \A n \in Nodes : /\ nodeFailures'[n] <= MaxNodeFails
                          /\ nodeFailures'[n] < MaxNodeFails \/ n \in exclude'
      /\ \A c \in Channels : shortAt'[c] # 0 => c \in exclude' /\ amount <= shortAt'[c]
  BY <1>2, <1>3 DEF Learned
<1> QED
  BY <1>2, <1>3, <1>4, <1>6, <1>7, <1>8, NextAttemptKeeps

\* A channel that ran short is left out, and its node once it did too often.
LEMMA NoteShortKeeps ==
  ASSUME IInv, pc = "flying", NEW c \in Over(sent), NoteShort(c)
  PROVE  /\ exclude \cup {c} \subseteq exclude'
         /\ exclude' \subseteq exclude \cup {c} \cup {Source[c]}
         /\ exclude' \subseteq Channels \cup Nodes /\ broken' = broken /\ broken' \subseteq exclude'
         /\ nodeFailures' \in [Nodes -> Nat] /\ shortAt' \in [Channels -> 0 .. Amount]
         /\ UNCHANGED <<payments, flagVars>>
         /\ \A n \in Nodes : nodeFailures'[n] <= MaxNodeFails
         /\ c # sent[1] \/ ~Drained(Source[c]) =>
              \A n \in Nodes : nodeFailures'[n] < MaxNodeFails \/ n \in exclude'
         /\ \A x \in Channels : shortAt'[x] # 0 => x \in exclude' /\ amount <= shortAt'[x]
<1> USE DEF IInv, NoteShort
<1>1. c \in Channels /\ Source[c] \in Nodes /\ Source[c] \notin exclude
  BY FreshRoute
<1>2. /\ exclude \cup {c} \subseteq exclude'
      /\ exclude' \subseteq exclude \cup {c} \cup {Source[c]}
      /\ broken' = broken /\ UNCHANGED <<payments, flagVars>>
  OBVIOUS
<1>3. exclude' \subseteq Channels \cup Nodes /\ broken' \subseteq exclude'
  BY <1>1, <1>2 DEF TypeOK, Learned
<1>4. /\ amount \in 1 .. Amount /\ nodeFailures \in [Nodes -> Nat]
      /\ shortAt \in [Channels -> 0 .. Amount]
  BY DEF TypeOK
<1>5. nodeFailures' \in [Nodes -> Nat] /\ shortAt' \in [Channels -> 0 .. Amount]
  BY <1>1, <1>4
<1>6. nodeFailures[Source[c]] < MaxNodeFails
  BY <1>1 DEF Learned
<1>7. ASSUME NEW n \in Nodes
      PROVE  /\ nodeFailures'[n] <= MaxNodeFails
             /\ c # sent[1] \/ ~Drained(Source[c]) =>
                  nodeFailures'[n] < MaxNodeFails \/ n \in exclude'
  <2>1. CASE n = Source[c]
    <3>1. nodeFailures'[n] = nodeFailures[n] + 1
      BY <1>4, <2>1
    <3>2. Drained(n) /\ c # sent[1] => n \in exclude'
      BY <2>1
    <3> QED
      BY <1>4, <1>6, <2>1, <3>1, <3>2 DEF Drained
  <2>2. CASE n # Source[c]
    BY <1>2, <1>4, <2>2 DEF Learned
  <2> QED
    BY <2>1, <2>2
<1>8. ASSUME NEW x \in Channels, shortAt'[x] # 0
      PROVE  x \in exclude' /\ amount <= shortAt'[x]
  BY <1>2, <1>4, <1>8 DEF Learned
<1> QED
  BY <1>2, <1>3, <1>5, <1>7, <1>8

\* A route that ran short is remembered with the channels it was short on.
LEMMA RunsShortKeeps ==
  ASSUME IInv, RunsShort
  PROVE  IInv'
<1> USE DEF IInv
<1>1. PICK c \in Over(sent) : (c # sent[1] \/ ~Drained(Source[c])) /\ NoteShort(c)
  BY DEF RunsShort
<1>2. pc = "flying" /\ RememberShort /\ NextAttempt
  BY DEF RunsShort
<1>3. sent \in Routes /\ Over(sent) \subseteq Channels /\ sent # NoRoute
  BY <1>1, <1>2, FreshRoute, OverChannels
<1>4. /\ exclude \cup {c} \subseteq exclude' /\ broken' = broken
      /\ exclude' \subseteq exclude \cup {c} \cup {Source[c]}
  BY <1>1, <1>2, NoteShortKeeps
<1>5. \A x \in Over(sent) : x \notin broken
  BY <1>2, FreshRoute
<1>6. /\ short' \in Routes \cup {NoRoute} /\ shortIds' \subseteq Channels
      /\ shortIds' \subseteq exclude'
      /\ short' # NoRoute => shortIds' \cap broken' = {}
  <2>1. CASE way = "known"
    BY <1>2, <1>4, <2>1 DEF RememberShort, shortVars, TypeOK, TakenBack
  <2>2. CASE way = "searched"
    BY <1>2, <1>3, <1>4, <1>5, <2>2 DEF RememberShort
  <2>3. CASE way = "shrunk"
    <3>1. short' = short /\ shortIds' = shortIds \cup (Over(sent) \cap exclude')
      BY <1>2, <2>3 DEF RememberShort
    <3> QED
      BY <1>2, <1>3, <1>4, <1>5, <3>1 DEF TypeOK, TakenBack
  <2> QED
    BY <2>1, <2>2, <2>3 DEF TypeOK
<1>7. \A n \in Nodes : /\ nodeFailures'[n] <= MaxNodeFails
                       /\ nodeFailures'[n] < MaxNodeFails \/ n \in exclude'
  BY <1>1, <1>2, NoteShortKeeps
<1>8. /\ exclude' \subseteq Channels \cup Nodes /\ broken' \subseteq exclude'
      /\ nodeFailures' \in [Nodes -> Nat] /\ shortAt' \in [Channels -> 0 .. Amount]
      /\ UNCHANGED <<payments, flagVars>>
      /\ \A x \in Channels : shortAt'[x] # 0 => x \in exclude' /\ amount <= shortAt'[x]
  BY <1>1, <1>2, NoteShortKeeps
<1> QED
  BY <1>2, <1>6, <1>7, <1>8, NextAttemptKeeps

\* Nor does any other outcome break the invariant.
LEMMA OutcomeKeeps ==
  ASSUME IInv, Outcome
  PROVE  IInv'
<1> USE DEF IInv
<1>1. CASE Succeeds
  BY <1>1 DEF Succeeds, TypeOK, Counted, Extra, Late, Told, Learned, tryVars, shortVars,
              flagVars, ghosts
<1>2. CASE EndsTheSplit
  <2>1. pc = "flying" /\ pc' = "done" /\ UNCHANGED <<tryVars, shortVars, lateSent>> /\ FailsHere
    BY <1>2 DEF EndsTheSplit, Fail
  <2> QED
    BY <2>1 DEF FailsHere, TypeOK, Counted, Extra, Late, Told, Learned, tryVars, shortVars,
                flagVars, ghosts
<1>3. CASE Fails
  BY <1>3, FailsKeeps
<1>4. CASE OutPeerFails
  <2>1. /\ pc = "flying" /\ pc' = "done" /\ UNCHANGED <<tryVars, shortVars, lateSent>>
        /\ Over(sent) # {} /\ LeaveOut({sent[1], OutPeer})
    BY <1>4 DEF OutPeerFails, Fail
  <2>2. sent[1] \in Channels
    <3>1. sent \in Routes
      BY <2>1, FreshRoute
    <3> QED
      BY <2>1, <3>1, OverChannels
  <2>3. /\ exclude' = exclude \cup {sent[1], OutPeer} /\ broken' = broken \cup {sent[1], OutPeer}
        /\ UNCHANGED <<nodeFailures, payments, flagVars, shortAt>>
    BY <2>1 DEF LeaveOut
  <2> QED
    BY <2>1, <2>2, <2>3 DEF TypeOK, Counted, Extra, Late, Told, Learned, tryVars, shortVars,
                            flagVars
<1>5. CASE RunsShort
  BY <1>5, RunsShortKeeps
<1>6. CASE OutPeerDrained
  <2>1. /\ pc = "flying" /\ pc' = "done" /\ UNCHANGED <<tryVars, shortVars, lateSent>>
        /\ Over(sent) # {} /\ NoteShort(sent[1])
    BY <1>6 DEF OutPeerDrained, Fail
  <2>2. sent[1] \in Over(sent)
    <3>1. sent \in Routes
      BY <2>1, FreshRoute
    <3> QED
      BY <2>1, <3>1, OverChannels
  <2>3. /\ exclude' \subseteq Channels \cup Nodes /\ broken' \subseteq exclude'
        /\ nodeFailures' \in [Nodes -> Nat] /\ shortAt' \in [Channels -> 0 .. Amount]
        /\ UNCHANGED <<payments, flagVars>>
        /\ \A n \in Nodes : nodeFailures'[n] <= MaxNodeFails
        /\ \A x \in Channels : shortAt'[x] # 0 => x \in exclude' /\ amount <= shortAt'[x]
    BY <2>1, <2>2, NoteShortKeeps
  <2>4. short' \in Routes \cup {NoRoute} /\ shortIds' \subseteq Channels
    BY <2>1 DEF shortVars, TypeOK
  <2>5. UNCHANGED <<tryVars, payments, flagVars, lateSent>>
    BY <2>1, <2>3
  <2> QED
    BY <2>1, <2>3, <2>4, <2>5, OverKeeps
<1> QED
  BY <1>1, <1>2, <1>3, <1>4, <1>5, <1>6 DEF Outcome

\* Every step keeps the invariant.
LEMMA StepKeepsSplit ==
  ASSUME IInv, [Next]_vars
  PROVE  IInv'
<1> USE DEF IInv, tryVars, shortVars, ghosts
<1>1. CASE RunAttempt
  BY <1>1, RunAttemptKeeps
<1>2. CASE Outcome
  BY <1>2, OutcomeKeeps
<1>3. CASE Toggle
  <2>1. /\ nodeStopped' = ~nodeStopped /\ lateSent' = IF halt THEN lateSent ELSE 0
        /\ UNCHANGED <<pc, tryVars, exclude, shortVars, nodeFailures, payments, halt,
                       result, ghosts>>
    BY <1>3 DEF Toggle
  <2>2. TypeOK' /\ Counted' /\ Late' /\ Learned'
    BY <2>1 DEF TypeOK, Counted, Extra, Late, Told, Learned
  <2>3. pc # "done" => TakenBack' /\ OnItsWay'
    BY <2>1 DEF TakenBack, OnItsWay, CanCarry
  <2> QED
    BY <2>1, <2>2, <2>3
<1>4. CASE Halt
  <2>1. TypeOK' /\ Counted' /\ Late' /\ Learned'
    BY <1>4 DEF Halt, TypeOK, Counted, Extra, Late, Told, Learned
  <2>2. pc # "done" => TakenBack' /\ OnItsWay'
    BY <1>4 DEF Halt, TakenBack, OnItsWay, CanCarry
  <2> QED
    BY <1>4, <2>1, <2>2 DEF Halt
<1>5. CASE UNCHANGED vars
  BY <1>5 DEF vars, flagVars, TypeOK, Counted, Extra, Late, Told, Learned, TakenBack,
              OnItsWay, CanCarry
<1> QED
  BY <1>1, <1>2, <1>3, <1>4, <1>5 DEF Next

\* The invariant holds in every state a split can reach.
THEOREM SplitInvariant == Spec => []IInv
<1>1. IInv /\ [Next]_vars => IInv'
  BY StepKeepsSplit
<1> QED
  BY <1>1, StartsClean, PTL DEF Spec

\* README, attempts: as many payments as attempts at most, and one more with a
\* route that worked before.
THEOREM AttemptsBound == Spec => []NoMorePayments
<1>1. IInv => NoMorePayments
  BY DEF IInv, TypeOK, Counted, Extra, NoMorePayments
<1> QED
  BY <1>1, SplitInvariant, PTL

\* README, maxnodefails: no node fails more payments of a split for lack of
\* liquidity.
THEOREM NodesSpared == Spec => []NodeFailsBounded
<1>1. IInv => NodeFailsBounded
  BY DEF IInv, Learned, NodeFailsBounded
<1> QED
  BY <1>1, SplitInvariant, PTL

\* Run, shrink: no payment over what failed an earlier one, but with less over
\* a channel that ran short.
THEOREM NoFailureTwice == Spec => []NeverSameFailure
<1>1. IInv => NeverSameFailure
  BY FreshRoute DEF NeverSameFailure
<1> QED
  BY <1>1, SplitInvariant, PTL

\* Halt, circular-stop: one more payment at most.
THEOREM StopsAtOnce == Spec => []OneLatePayment
<1>1. IInv => OneLatePayment
  BY DEF IInv, Late, OneLatePayment
<1> QED
  BY <1>1, SplitInvariant, PTL
-----------------------------------------------------------------------------
(***************************************************************************)
(* What a split delivers, and how it fails.                                *)
(***************************************************************************)
\* The first halves of a, up to the n-th.
HalvesTo(a, n, h) == h[0] = a /\ \A j \in 1 .. n : h[j] = h[j - 1] \div 2

LEMMA SomeHalves ==
  ASSUME NEW a
  PROVE  \A n \in Nat : \E h : HalvesTo(a, n, h)
<1> DEFINE S == {n \in Nat : \E h : HalvesTo(a, n, h)}
<1>1. 0 \in S
  <2>1. HalvesTo(a, 0, [j \in {0} |-> a])
    BY DEF HalvesTo
  <2> QED
    BY <2>1
<1>2. ASSUME NEW n \in Nat, n \in S
      PROVE  n + 1 \in S
  <2>1. PICK h : HalvesTo(a, n, h)
    BY <1>2
  <2> DEFINE g == [j \in 0 .. n + 1 |-> IF j = n + 1 THEN h[n] \div 2 ELSE h[j]]
  <2>2. g[0] = a
    BY <2>1 DEF HalvesTo
  <2>3. \A j \in 1 .. n + 1 : g[j] = g[j - 1] \div 2
    BY <2>1 DEF HalvesTo
  <2> HIDE DEF g
  <2>4. HalvesTo(a, n + 1, g)
    BY <2>2, <2>3 DEF HalvesTo
  <2> QED
    BY <2>4
<1> HIDE DEF S
<1>3. \A n \in Nat : n \in S
  BY <1>1, <1>2, Induction
<1> QED
  BY <1>3 DEF S

LEMMA SameHalves ==
  ASSUME NEW a, NEW m \in Nat, NEW h, HalvesTo(a, m, h), NEW n \in Nat, NEW g, HalvesTo(a, n, g),
         m <= n
  PROVE  h[m] = g[m]
<1> DEFINE S == {j \in Nat : j <= m => h[j] = g[j]}
<1>1. 0 \in S
  BY DEF HalvesTo
<1>2. ASSUME NEW j \in Nat, j \in S
      PROVE  j + 1 \in S
  <2> SUFFICES ASSUME j + 1 <= m
               PROVE  h[j + 1] = g[j + 1]
    OBVIOUS
  <2>1. h[j] = g[j]
    BY <1>2
  <2>2. j + 1 \in 1 .. m /\ j + 1 \in 1 .. n /\ (j + 1) - 1 = j
    OBVIOUS
  <2> QED
    BY <2>1, <2>2 DEF HalvesTo
<1> HIDE DEF S
<1>3. \A j \in Nat : j \in S
  BY <1>1, <1>2, Induction
<1> QED
  BY <1>3 DEF S

\* Halves is the function its equation describes.
LEMMA HalvesStep ==
  ASSUME NEW a
  PROVE  Halves(a)[0] = a /\ \A j \in Nat : Halves(a)[j + 1] = Halves(a)[j] \div 2
<1> DEFINE to(n) == CHOOSE h : HalvesTo(a, n, h)
           g == [j \in Nat |-> to(j)[j]]
           step(h) == [j \in Nat |-> IF j = 0 THEN a ELSE h[j - 1] \div 2]
<1>1. \A n \in Nat : HalvesTo(a, n, to(n))
  BY SomeHalves
<1> HIDE DEF to
<1>2. \A j \in Nat : g[j] = IF j = 0 THEN a ELSE g[j - 1] \div 2
  <2> SUFFICES ASSUME NEW j \in Nat
               PROVE  g[j] = IF j = 0 THEN a ELSE g[j - 1] \div 2
    OBVIOUS
  <2>1. CASE j = 0
    BY <1>1, <2>1 DEF HalvesTo
  <2>2. CASE j # 0
    <3>1. j - 1 \in Nat /\ j - 1 <= j /\ j \in 1 .. j
      BY <2>2
    <3>2. to(j)[j] = to(j)[j - 1] \div 2
      BY <1>1, <3>1 DEF HalvesTo
    <3>3. to(j - 1)[j - 1] = to(j)[j - 1]
      BY <1>1, <3>1, SameHalves
    <3> QED
      BY <2>2, <3>1, <3>2, <3>3
  <2> QED
    BY <2>1, <2>2
<1>3. g = step(g)
  <2>1. g = [j \in Nat |-> g[j]]
    OBVIOUS
  <2> HIDE DEF g
  <2> QED
    BY <1>2, <2>1
<1> HIDE DEF g
<1>4. Halves(a) = CHOOSE h : h = step(h)
  BY DEF Halves
<1>5. Halves(a) = step(Halves(a))
  BY <1>3, <1>4
<1>6. \A j \in Nat : Halves(a)[j] = IF j = 0 THEN a ELSE Halves(a)[j - 1] \div 2
  BY <1>5
<1> QED
  BY <1>6

\* Each half takes at least one sat away.
Shrunk(m) ==
  /\ MinSplit > 0 /\ m >= Least(MinSplit, Amount)
  /\ \E j \in 1 .. Amount : m = Halves(Amount)[j] /\ j + m <= Amount

\* Before the end, the amount is one a split may deliver, the fee one it may
\* cost, and a payment on its way was counted.
ResultInv ==
  /\ ResultAllowed
  /\ pc # "done" => result = NoResult
  /\ amount = Amount \/ Shrunk(amount)
  /\ sent # NoRoute => fee <= WorstFee(amount)
  /\ pc = "flying" => payments > 0

LEMMA MaxFeeType ==
  ASSUME NEW m \in 1 .. Amount
  PROVE  WorstFee(m) \in Int
BY DEF WorstFee

LEMMA ShrunkAgain ==
  ASSUME NEW m \in 1 .. Amount, m = Amount \/ Shrunk(m), MinSplit > 0,
         m \div 2 >= Least(MinSplit, Amount), m \div 2 > 0
  PROVE  Shrunk(m \div 2)
<1>1. m \div 2 \in Nat /\ m \div 2 < m
  OBVIOUS
<1>2. CASE m = Amount
  <2>1. Halves(Amount)[0 + 1] = Amount \div 2
    BY HalvesStep
  <2>2. 1 \in 1 .. Amount /\ m \div 2 = Halves(Amount)[1] /\ 1 + m \div 2 <= Amount
    BY <1>1, <1>2, <2>1
  <2> QED
    BY <2>2 DEF Shrunk
<1>3. CASE Shrunk(m)
  <2>1. PICK j \in 1 .. Amount : m = Halves(Amount)[j] /\ j + m <= Amount
    BY <1>3 DEF Shrunk
  <2>2. Halves(Amount)[j + 1] = m \div 2
    BY <2>1, HalvesStep
  <2>3. j + 1 \in 1 .. Amount /\ (j + 1) + m \div 2 <= Amount
    BY <1>1, <2>1
  <2> QED
    BY <2>2, <2>3 DEF Shrunk
<1> QED
  BY <1>2, <1>3

LEMMA MayBeDelivered ==
  ASSUME IInv, ResultInv
  PROVE  amount \in Delivered(Amount)
<1>1. amount \in 1 .. Amount
  BY DEF IInv, TypeOK
<1> QED
  BY <1>1 DEF ResultInv, Shrunk, Delivered

LEMMA ResultInvInit == Init => ResultInv
<1> SUFFICES ASSUME Init PROVE ResultInv
  OBVIOUS
<1>1. WorstFee(Amount) \in Int
  BY MaxFeeType
<1>2. sent # NoRoute => fee <= WorstFee(amount)
  BY <1>1 DEF Init, Prices
<1>3. ResultAllowed
  BY DEF Init, NoResult, ResultAllowed, CanHappen
<1> QED
  BY <1>2, <1>3 DEF Init, ResultInv

\* The failures of a split are those its run knows.
LEMMA FailureAllowed ==
  ASSUME NEW side, NEW retry, NEW precheck, Fail(side, retry, precheck),
         \/ side \in {"none", "route"} /\ retry = "no" /\ precheck = FALSE
         \/ side \in {"out", "in"} /\ retry = "no" /\ precheck = FALSE
         \/ side \in {"out", "in"} /\ retry = "whenFree" /\ precheck \in BOOLEAN
         \/ side = "in" /\ retry = "now" /\ precheck = FALSE /\ payments > 0
  PROVE  ResultAllowed'
<1>1. result' = [status |-> "failure", payments |-> payments,
                 failedAt |-> side, retry |-> retry, precheck |-> precheck]
  BY DEF Fail
<1>2. /\ result'.status = "failure" /\ result'.failedAt = side /\ result'.retry = retry
      /\ result'.precheck = precheck /\ result'.payments = payments
  BY <1>1
<1>3. [failedAt |-> side, retry |-> retry, precheck |-> precheck] \in FailureKinds
  BY DEF FailureKinds
<1>4. retry = "now" => payments > 0
  OBVIOUS
<1> QED
  BY <1>2, <1>3, <1>4 DEF ResultAllowed, CanHappen

\* A split that goes on has no result yet.
LEMMA SameResult ==
  ASSUME ResultAllowed, result' = result
  PROVE  ResultAllowed'
BY DEF ResultAllowed, CanHappen

\* The end of a split, with what it says.
LEMMA EndAllowed ==
  ASSUME ResultInv, ResultAllowed', pc' = "done", UNCHANGED tryVars
  PROVE  ResultInv'
BY DEF ResultInv, tryVars, Shrunk

LEMMA AttemptAllowed ==
  ASSUME IInv, ResultInv, pc = "flying", NextAttempt
  PROVE  ResultInv'
<1>1. CASE way = "known" \/ i < Attempts
  <2>1. /\ pc' = "attempt" /\ sent' = NoRoute
        /\ UNCHANGED <<amount, result>>
    BY <1>1 DEF NextAttempt
  <2> QED
    BY <2>1 DEF ResultInv, ResultAllowed, Shrunk, CanHappen
<1>2. CASE ~(way = "known" \/ i < Attempts)
  <2>1. Fail("route", "no", FALSE) \/
          /\ pc' = "done" /\ UNCHANGED tryVars
          /\ result' = [status |-> "failure", payments |-> payments,
                        failedAt |-> "route", retry |-> "no", precheck |-> FALSE]
    BY <1>2 DEF NextAttempt
  <2>2. /\ pc' = "done" /\ UNCHANGED tryVars
        /\ result' = [status |-> "failure", payments |-> payments,
                      failedAt |-> "route", retry |-> "no", precheck |-> FALSE]
    BY <2>1 DEF Fail
  <2>3. [failedAt |-> "route", retry |-> "no", precheck |-> FALSE] \in FailureKinds
    BY DEF FailureKinds
  <2>4. ResultAllowed'
    BY <2>2, <2>3 DEF ResultAllowed, CanHappen
  <2> QED
    BY <2>2, <2>4, EndAllowed
<1> QED
  BY <1>1, <1>2

LEMMA ResultInvNext ==
  ASSUME IInv, ResultInv, [Next]_vars
  PROVE  ResultInv'
<1>1. /\ amount \in 1 .. Amount /\ payments \in Nat /\ WorstFee(amount) \in Int
      /\ pc # "done" => result = NoResult
  BY MaxFeeType DEF IInv, TypeOK, ResultInv
<1>2. ASSUME NEW side, NEW retry, NEW precheck, Fail(side, retry, precheck), ResultAllowed'
      PROVE  ResultInv'
  BY <1>2, EndAllowed DEF Fail
<1>3. CASE EndsTold \/ EndsAtPrecheck \/ InPeerTooDear \/ NothingFound \/ FirstHopShort
             \/ OutPeerFails \/ OutPeerDrained
  BY <1>2, <1>3, FailureAllowed
     DEF EndsTold, EndsAtPrecheck, InPeerTooDear, NothingFound, FirstHopShort, OutPeerFails,
         OutPeerDrained
<1>4. CASE EndsTheSplit
  <2>1. payments > 0
    BY <1>4 DEF EndsTheSplit, ResultInv
  <2> QED
    BY <1>2, <1>4, <2>1, FailureAllowed DEF EndsTheSplit
<1>5. CASE Checked
  BY <1>5 DEF Checked, tryVars, ResultInv, ResultAllowed, Shrunk, CanHappen
<1>6. CASE Found
  <2>1. /\ fee' \in Prices(amount) /\ pc' = "pay" /\ UNCHANGED <<amount, result>>
    BY <1>6 DEF Found
  <2>2. fee' <= WorstFee(amount)
    BY <1>1, <2>1 DEF Prices
  <2>3. ResultAllowed'
    BY <2>1, SameResult DEF ResultInv
  <2>4. (amount = Amount \/ Shrunk(amount))'
    BY <2>1 DEF ResultInv, Shrunk
  <2>5. (sent # NoRoute => fee <= WorstFee(amount))'
    BY <2>1, <2>2 DEF WorstFee
  <2>6. result' = NoResult
    BY <1>1, <1>6, <2>1 DEF Found
  <2> QED
    BY <2>1, <2>3, <2>4, <2>5, <2>6 DEF ResultInv
<1>7. CASE Shrink
  <2> DEFINE half == amount \div 2
  <2>1. /\ CanShrink(half) /\ amount' = half /\ fee' \in Prices(half)
        /\ pc' = "attempt" /\ result' = result
    BY <1>7 DEF Shrink
  <2>2. Shrunk(half) /\ half \in 1 .. Amount
    BY <1>1, <2>1, ShrunkAgain DEF CanShrink, ResultInv
  <2>3. fee' <= WorstFee(half)
    BY <2>1, <2>2, MaxFeeType DEF Prices
  <2> HIDE DEF half
  <2>4. Shrunk(amount')
    BY <2>1, <2>2
  <2>5. ResultAllowed'
    BY <2>1, SameResult DEF ResultInv
  <2>6. (sent # NoRoute => fee <= WorstFee(amount))'
    BY <2>1, <2>3 DEF WorstFee
  <2>7. result' = NoResult
    BY <1>1, <1>7, <2>1 DEF Shrink
  <2> QED
    BY <2>1, <2>4, <2>5, <2>6, <2>7 DEF ResultInv
<1>8. CASE Pay
  BY <1>1, <1>8 DEF Pay, tryVars, ResultInv, ResultAllowed, Shrunk, CanHappen
<1>9. CASE Succeeds
  <2>1. /\ pc' = "done" /\ UNCHANGED tryVars
        /\ result' = [status |-> "success", moved |-> amount, fee |-> fee]
    BY <1>9 DEF Succeeds
  <2>2. fee <= WorstFee(amount)
    BY <1>9 DEF Succeeds, ResultInv, IInv, OnItsWay
  <2>3. ResultAllowed'
    BY <2>1, <2>2, MayBeDelivered DEF ResultAllowed, CanHappen
  <2> QED
    BY <2>1, <2>3, EndAllowed
<1>10. CASE Fails \/ RunsShort
  BY <1>10, AttemptAllowed DEF Fails, RunsShort
<1>11. CASE Toggle \/ Halt \/ UNCHANGED vars
  BY <1>11 DEF Toggle, Halt, vars, tryVars, ResultInv, ResultAllowed, Shrunk, CanHappen
<1> QED
  BY <1>3, <1>4, <1>5, <1>6, <1>7, <1>8, <1>9, <1>10, <1>11 DEF Next, RunAttempt, Outcome

\* Run, shrink, newFailure: a split moves what it was asked for or one of its
\* halves, down to MinSplit, within maxppm, or fails in a way its run handles;
\* it is what the proofs about ParallelRun rely on.
THEOREM ResultKept == Spec => []ResultAllowed
<1>1. IInv /\ ResultInv /\ [Next]_vars => ResultInv'
  BY ResultInvNext
<1>2. ResultInv => ResultAllowed
  BY DEF ResultInv
<1> QED
  BY <1>1, <1>2, ResultInvInit, SplitInvariant, PTL DEF Spec
=============================================================================
