--------------------------- MODULE NodeStateProofs ---------------------------
(***************************************************************************)
(* What the node knows of the network, for any channels, capacity, splits, *)
(* ages and bounds on the events, and for refreshes, gossip, single reads, *)
(* payments that overlap, decays, saves, crashes and restarts in any       *)
(* order: no channel goes back to an older policy, what was read of the    *)
(* gossip store is in force, what was saved is not lost, and a bound on a  *)
(* channel's liquidity is one it respects, as far as the payments learned  *)
(* tell, unless its id is doubted.                                         *)
(*                                                                         *)
(* For the bounds: no channel carries more than it holds (Afforded); what  *)
(* a failure says of a channel that carried nothing else meanwhile is true *)
(* of it (AloneInv); and each bound that may come back, from a save being  *)
(* made, from the disk or from what the start read, is sound but for what  *)
(* its id received since (BoundInv).                                       *)
(***************************************************************************)
EXTENDS NodeState, CollectionProofs

USE ChannelsAssumption, AbsentAssumption, NoFileAssumption, SplitsAssumption, NodeAssumption

\* The steps, those that change the graph first.
GraphSteps  == Sync \/ Prune \/ Apply \/ FollowGossip \/ RefreshChannel \/ SplitLearns \/ Fade
MoneySteps  == Pay \/ Network
RefreshWaits == StartRefresh \/ StartPartialRefresh \/ RefreshFails \/ EndRefresh
StoreSteps  == Save \/ SaveError \/ Close
WorldSteps  == GossipEvent \/ GossipFails \/ Complete \/ ReadChannel \/ Tick
Restarts    == Crash \/ Exit

LEMMA StepKinds ==
  Next => GraphSteps \/ MoneySteps \/ RefreshWaits \/ StoreSteps \/ WorldSteps \/ Restarts
BY Zenon DEF Next, RefreshGraph, GraphSteps, MoneySteps, RefreshWaits, StoreSteps, WorldSteps,
             Restarts
-----------------------------------------------------------------------------
(***************************************************************************)
(* Types.                                                                  *)
(***************************************************************************)
\* An entry with new beliefs is an entry.
LEMMA EntryFields ==
  ASSUME NEW e \in Entries
  PROVE  /\ e.LastUpdate \in Nat /\ e.Liquidity \in 0 .. Cap
         /\ e.Upper \in BOOLEAN /\ e.Timestamp \in Nat
         /\ e # Absent
BY DEF Entries

LEMMA DefaultType == Default \in 0 .. Cap
BY DEF Default

LEMMA OppositeType ==
  ASSUME NEW id \in Ids
  PROVE  Opposite(id) \in Ids /\ Opposite(id) # id /\ Opposite(Opposite(id)) = id
BY DEF Ids, Opposite

\* What a list does to an entry.
LEMMA RefreshedType ==
  ASSUME ChannelsTypeOK, NEW listed, IsList(listed), NEW id \in Ids
  PROVE  /\ Refreshed(listed, id) \in Entries \cup {Absent}
         /\ Channels[id] # Absent =>
              /\ Refreshed(listed, id) # Absent
              /\ Refreshed(listed, id).LastUpdate >= Channels[id].LastUpdate
              /\ Refreshed(listed, id).Liquidity = Channels[id].Liquidity
              /\ Refreshed(listed, id).Upper = Channels[id].Upper
              /\ Refreshed(listed, id).Timestamp = Channels[id].Timestamp
         /\ Channels[id] = Absent /\ Refreshed(listed, id) # Absent =>
              /\ Refreshed(listed, id).Upper = FALSE
              /\ Refreshed(listed, id).Timestamp = 0
<1>1. id \in DOMAIN listed => listed[id] \in Nat
  BY DEF IsList
<1>2. Channels[id] \in Entries \cup {Absent}
  BY DEF ChannelsTypeOK
<1>3. CASE id \notin DOMAIN listed
  BY <1>2, <1>3 DEF Refreshed, Entries
<1>4. CASE id \in DOMAIN listed /\ Channels[id] = Absent
  BY <1>1, <1>4, DefaultType DEF Refreshed, NewChannel, Entries
<1>5. CASE id \in DOMAIN listed /\ Channels[id] # Absent
  BY <1>1, <1>2, <1>5 DEF Refreshed, Entries
<1> QED
  BY <1>3, <1>4, <1>5
-----------------------------------------------------------------------------
(***************************************************************************)
(* What each operation on the graph does to an entry e, which becomes x.   *)
(***************************************************************************)
GraphDated == \A id \in InGraph : Channels[id].Timestamp <= now

\* A channel that stays does not go back, in its policy or in what it learned.
Moves(e, x) ==
  /\ x \in Entries \cup {Absent}
  /\ x # Absent => x.Timestamp <= now
  /\ e # Absent /\ x # Absent =>
       x.LastUpdate >= e.LastUpdate /\ x.Timestamp >= e.Timestamp

\* It has a bound only if it had one, at most as loose.
Loosens(e, x) ==
  x # Absent => (x.Upper => e # Absent /\ e.Upper /\ e.Liquidity <= x.Liquidity)

AllMove == \A id \in Ids : Moves(Channels[id], Channels'[id])
AllLoosen == \A id \in Ids : Loosens(Channels[id], Channels'[id])

\* Nothing leaves the graph.
AllStay == \A id \in Ids : Channels[id] # Absent => Channels'[id] # Absent

IsGraph == Channels \in [Ids -> Entries \cup {Absent}] /\ lastDecay \in Nat

LEMMA EntryOf ==
  ASSUME ChannelsTypeOK, GraphDated, NEW id \in Ids
  PROVE  /\ Channels[id] \in Entries \cup {Absent}
         /\ Moves(Channels[id], Channels[id]) /\ Loosens(Channels[id], Channels[id])
BY DEF ChannelsTypeOK, GraphDated, InGraph, Moves, Loosens, Entries

LEMMA UnchangedMoves ==
  ASSUME ChannelsTypeOK, GraphDated, UNCHANGED channelVars
  PROVE  IsGraph' /\ AllMove /\ AllLoosen /\ AllStay
<1>1. Channels' = Channels /\ lastDecay' = lastDecay
  BY DEF channelVars
<1>2. AllMove /\ AllLoosen /\ AllStay
  BY <1>1, EntryOf DEF AllMove, AllLoosen, AllStay
<1>3. IsGraph'
  BY <1>1 DEF IsGraph, ChannelsTypeOK
<1> QED
  BY <1>2, <1>3

LEMMA GoneMoves ==
  ASSUME NEW e
  PROVE  Moves(e, Absent) /\ Loosens(e, Absent)
BY DEF Moves, Loosens

LEMMA ListedMoves ==
  ASSUME ChannelsTypeOK, GraphDated, NEW listed, IsList(listed), NEW id \in Ids
  PROVE  /\ Moves(Channels[id], Refreshed(listed, id))
         /\ Loosens(Channels[id], Refreshed(listed, id))
<1> DEFINE x == Refreshed(listed, id)
<1>1. CASE Channels[id] = Absent
  <2> HIDE DEF x
  <2>1. /\ x \in Entries \cup {Absent}
        /\ x # Absent => x.Upper = FALSE /\ x.Timestamp = 0
    BY <1>1, RefreshedType DEF x
  <2>2. now \in Nat
    BY DEF ChannelsTypeOK
  <2> QED
    BY <1>1, <2>1, <2>2 DEF Moves, Loosens, x
<1>2. CASE Channels[id] # Absent
  <2>1. /\ Channels[id] \in Entries /\ Channels[id].Timestamp <= now
        /\ Channels[id].Upper \in BOOLEAN /\ Channels[id].Liquidity \in 0 .. Cap
        /\ Channels[id].Timestamp \in Nat
    BY <1>2, EntryOf, EntryFields DEF GraphDated, InGraph
  <2> HIDE DEF x
  <2>2. /\ x \in Entries \cup {Absent} /\ x # Absent
        /\ x.LastUpdate >= Channels[id].LastUpdate
        /\ x.Liquidity = Channels[id].Liquidity
        /\ x.Upper = Channels[id].Upper
        /\ x.Timestamp = Channels[id].Timestamp
    BY <1>2, RefreshedType DEF x
  <2> QED
    BY <1>2, <2>1, <2>2 DEF Moves, Loosens, x
<1> QED
  BY <1>1, <1>2

LEMMA RefreshChannelsMoves ==
  ASSUME ChannelsTypeOK, GraphDated, NEW listed, IsList(listed), RefreshChannels(listed)
  PROVE  IsGraph' /\ AllMove /\ AllLoosen /\ AllStay
<1>1. /\ Channels' = [id \in Ids |-> Refreshed(listed, id)]
      /\ lastDecay' = lastDecay
  BY DEF RefreshChannels
<1>2. AllMove /\ AllLoosen
  BY <1>1, ListedMoves DEF AllMove, AllLoosen
<1>3. AllStay
  BY <1>1, RefreshedType DEF AllStay
<1>4. IsGraph'
  BY <1>1, RefreshedType DEF IsGraph, ChannelsTypeOK
<1> QED
  BY <1>2, <1>3, <1>4

LEMMA SyncChannelsMoves ==
  ASSUME ChannelsTypeOK, GraphDated, NEW listed, IsList(listed), NEW asked, SyncChannels(listed, asked)
  PROVE  IsGraph' /\ AllMove /\ AllLoosen
<1>1. lastDecay' = lastDecay /\ lastDecay \in Nat
  BY DEF SyncChannels, ChannelsTypeOK
<1>2. ASSUME NEW id \in Ids
      PROVE  Channels'[id] \in {Refreshed(listed, id), Absent}
  BY <1>2 DEF SyncChannels
<1>3. DOMAIN Channels' = Ids /\ Channels' = [id \in Ids |-> Channels'[id]]
  BY DEF SyncChannels
<1>4. AllMove /\ AllLoosen
  BY <1>2, ListedMoves, GoneMoves DEF AllMove, AllLoosen
<1>5. \A id \in Ids : Channels'[id] \in Entries \cup {Absent}
  BY <1>4 DEF AllMove, Moves
<1> QED
  BY <1>1, <1>3, <1>4, <1>5 DEF IsGraph

LEMMA PruneChannelsMoves ==
  ASSUME ChannelsTypeOK, GraphDated, PruneChannels
  PROVE  IsGraph' /\ AllMove /\ AllLoosen
<1>1. lastDecay' = lastDecay /\ lastDecay \in Nat
  BY DEF PruneChannels, ChannelsTypeOK
<1>2. ASSUME NEW id \in Ids
      PROVE  Channels'[id] \in {Channels[id], Absent}
  BY <1>2 DEF PruneChannels
<1>3. Channels' = [id \in Ids |-> Channels'[id]]
  BY DEF PruneChannels
<1>4. AllMove /\ AllLoosen
  BY <1>2, EntryOf, GoneMoves DEF AllMove, AllLoosen
<1>5. \A id \in Ids : Channels'[id] \in Entries \cup {Absent}
  BY <1>4 DEF AllMove, Moves
<1> QED
  BY <1>1, <1>3, <1>4, <1>5 DEF IsGraph

LEMMA ApplyChannelUpdateMoves ==
  ASSUME ChannelsTypeOK, GraphDated, NEW id \in Ids, NEW policy \in Nat,
         ApplyChannelUpdate(id, policy)
  PROVE  /\ IsGraph' /\ AllMove /\ AllLoosen /\ AllStay
         /\ Channels[id] # Absent => Channels'[id].LastUpdate >= policy
<1>1. lastDecay' = lastDecay /\ lastDecay \in Nat
  BY DEF ApplyChannelUpdate, ChannelsTypeOK
<1> DEFINE e == Channels[id]
           x == IF e = Absent \/ policy <= e.LastUpdate THEN e
                ELSE [e EXCEPT !.LastUpdate = policy]
<1>2. Channels' = [Channels EXCEPT ![id] = x]
  BY DEF ApplyChannelUpdate
<1>3. /\ x \in Entries \cup {Absent}
      /\ Moves(e, x) /\ Loosens(e, x)
      /\ e # Absent => x # Absent /\ x.LastUpdate >= policy
  <2>1. CASE e = Absent
    BY <2>1, GoneMoves
  <2>2. CASE e # Absent
    <3>1. e \in Entries /\ e.Timestamp <= now
      BY <2>2, EntryOf DEF GraphDated, InGraph
    <3> HIDE DEF e
    <3> QED
      BY <3>1, <2>2 DEF Moves, Loosens, Entries
  <2> QED
    BY <2>1, <2>2
<1> HIDE DEF x
<1>4. Channels \in [Ids -> Entries \cup {Absent}]
  BY DEF ChannelsTypeOK
<1>5. IsGraph'
  BY <1>1, <1>2, <1>3, <1>4 DEF IsGraph
<1>6. Channels'[id] = x /\ \A i \in Ids \ {id} : Channels'[i] = Channels[i]
  BY <1>2, <1>4
<1>7. AllMove /\ AllLoosen /\ AllStay
  BY <1>3, <1>6, EntryOf DEF AllMove, AllLoosen, AllStay
<1> QED
  BY <1>3, <1>5, <1>6, <1>7
-----------------------------------------------------------------------------
\* An entry with other beliefs.
With(e, l, b, t) == [e EXCEPT !.Liquidity = l, !.Upper = b, !.Timestamp = t]

LEMMA EntryWith ==
  ASSUME NEW e \in Entries, NEW l \in 0 .. Cap, NEW b \in BOOLEAN, NEW t \in Nat
  PROVE  /\ With(e, l, b, t) \in Entries
         /\ With(e, l, b, t).LastUpdate = e.LastUpdate
         /\ With(e, l, b, t).Liquidity = l
         /\ With(e, l, b, t).Upper = b
         /\ With(e, l, b, t).Timestamp = t
BY DEF Entries, With

LEMMA EntryWithMoves ==
  ASSUME ChannelsTypeOK, NEW e \in Entries, e.Timestamp <= now,
         NEW l \in 0 .. Cap, NEW b \in BOOLEAN
  PROVE  /\ Moves(e, With(e, l, b, now)) /\ With(e, l, b, now) # Absent
         /\ With(e, l, b, now).Liquidity = l
         /\ With(e, l, b, now).Upper = b
         /\ With(e, l, b, now).Timestamp = now
<1>1. now \in Nat
  BY DEF ChannelsTypeOK
<1> DEFINE x == With(e, l, b, now)
<1>2. x \in Entries /\ x.LastUpdate = e.LastUpdate /\ x.Timestamp = now
  BY <1>1, EntryWith
<1>3. x.Liquidity = l
  BY <1>1, EntryWith
<1>5. x.Upper = b
  BY DEF With, Entries
<1> HIDE DEF x
<1>4. x # Absent /\ Moves(e, x)
  BY <1>1, <1>2, EntryFields DEF Moves
<1> QED
  BY <1>2, <1>3, <1>4, <1>5, Zenon DEF x

\* What is learned of one entry.
LEMMA AtMostEntry ==
  ASSUME ChannelsTypeOK, NEW e \in Entries, e.Timestamp <= now, NEW a \in 0 .. Cap
  PROVE  /\ Moves(e, AtMost(e, a)) /\ AtMost(e, a) # Absent
         /\ AtMost(e, a).Timestamp = now
         /\ AtMost(e, a).Upper =>
              AtMost(e, a).Liquidity = a \/ (e.Upper /\ AtMost(e, a).Liquidity = e.Liquidity)
<1> DEFINE l == Least(e.Liquidity, a)
           b == e.Upper \/ e.Liquidity > a
<1>1. l \in 0 .. Cap /\ b \in BOOLEAN /\ (b => l = a \/ (e.Upper /\ l = e.Liquidity))
  BY EntryFields DEF Least
<1>2. AtMost(e, a) = With(e, l, b, now)
  BY DEF AtMost, With, Entries
<1> HIDE DEF l, b
<1> QED
  BY <1>1, <1>2, EntryWithMoves

LEMMA AtLeastEntry ==
  ASSUME ChannelsTypeOK, NEW e \in Entries, e.Timestamp <= now, NEW a \in 0 .. Cap
  PROVE  /\ Moves(e, AtLeast(e, a)) /\ AtLeast(e, a) # Absent
         /\ AtLeast(e, a).Timestamp = now
         /\ AtLeast(e, a).Upper => e.Upper /\ e.Liquidity = AtLeast(e, a).Liquidity
         /\ AtLeast(e, a).Liquidity >= a
<1> DEFINE l == Most(e.Liquidity, a)
           b == e.Upper /\ e.Liquidity >= a
<1>1. l \in 0 .. Cap /\ b \in BOOLEAN /\ l >= a /\ (b => e.Upper /\ l = e.Liquidity)
  BY EntryFields DEF Most
<1>2. AtLeast(e, a) = With(e, l, b, now)
  BY DEF AtLeast, With, Entries
<1> HIDE DEF l, b
<1> QED
  BY <1>1, <1>2, EntryWithMoves

LEMMA ReceivedEntry ==
  ASSUME ChannelsTypeOK, NEW e \in Entries, e.Timestamp <= now, NEW a \in 0 .. Cap
  PROVE  /\ Moves(e, Received(e, a)) /\ Received(e, a) # Absent
         /\ Received(e, a).Timestamp = now
         /\ Received(e, a).Upper =>
              e.Upper /\ Received(e, a).Liquidity \in {e.Liquidity + a, Cap}
<1> DEFINE l == Least(e.Liquidity + a, Cap)
<1>1. l \in 0 .. Cap /\ l \in {e.Liquidity + a, Cap} /\ e.Upper \in BOOLEAN
  BY EntryFields DEF Least
<1>2. Received(e, a) = With(e, l, e.Upper, now)
  BY DEF Received, With, Entries
<1> HIDE DEF l
<1> QED
  BY <1>1, <1>2, EntryWithMoves

LEMMA SpentEntry ==
  ASSUME ChannelsTypeOK, NEW e \in Entries, e.Timestamp <= now, NEW a \in 1 .. Cap
  PROVE  /\ Moves(e, Spent(e, a)) /\ Spent(e, a) # Absent
         /\ Spent(e, a).Timestamp = now
         /\ Spent(e, a).Upper =>
              e.Upper /\ e.Liquidity >= a /\ Spent(e, a).Liquidity >= e.Liquidity - a
<1> DEFINE x == AtLeast(e, a)
<1>1. /\ x \in Entries /\ Moves(e, x) /\ x.Timestamp = now /\ x.Liquidity >= a
      /\ x.Upper => e.Upper /\ e.Liquidity = x.Liquidity
  BY AtLeastEntry DEF Moves
<1> HIDE DEF x
<1>2. Spent(e, a) = [x EXCEPT !.Liquidity = IF @ = a THEN 1 ELSE @ - a]
  BY DEF Spent, x
<1>3. Spent(e, a) \in Entries
  BY <1>1, <1>2 DEF Entries
<1> QED
  BY <1>1, <1>2, <1>3, EntryFields DEF Entries, Moves

LEMMA UnusableEntry ==
  ASSUME ChannelsTypeOK, NEW e \in Entries, e.Timestamp <= now
  PROVE  /\ Moves(e, With(e, 0, FALSE, now)) /\ With(e, 0, FALSE, now) # Absent
         /\ Loosens(e, With(e, 0, FALSE, now))
<1>1. 0 \in 0 .. Cap
  OBVIOUS
<1> QED
  BY <1>1, EntryWithMoves DEF Loosens

LEMMA LearnMoves ==
  ASSUME ChannelsTypeOK, GraphDated, NEW id \in Ids, NEW here, NEW there,
         Channels[id] # Absent => Moves(Channels[id], here) /\ here # Absent,
         Other(id) # Absent => Moves(Other(id), there) /\ there # Absent,
         Learn(id, here, there)
  PROVE  /\ IsGraph' /\ AllMove /\ AllStay
         /\ Channels'[id] = IF Channels[id] = Absent THEN Absent ELSE here
         /\ Channels'[Opposite(id)] = IF Other(id) = Absent THEN Absent ELSE there
         /\ \A i \in Ids \ {id, Opposite(id)} : Channels'[i] = Channels[i]
<1> DEFINE x == IF Channels[id] = Absent THEN Absent ELSE here
           y == IF Other(id) = Absent THEN Absent ELSE there
<1>1. /\ Channels \in [Ids -> Entries \cup {Absent}]
      /\ Opposite(id) \in Ids /\ Opposite(id) # id
  BY OppositeType DEF ChannelsTypeOK
<1>2. Channels' = [Channels EXCEPT ![id] = x, ![Opposite(id)] = y]
  BY <1>1 DEF Learn, Other
<1>3. /\ Moves(Channels[id], x) /\ Moves(Channels[Opposite(id)], y)
      /\ Channels[id] # Absent => x # Absent
      /\ Channels[Opposite(id)] # Absent => y # Absent
  BY GoneMoves DEF Other
<1> HIDE DEF x, y
<1>4. /\ Channels'[id] = x /\ Channels'[Opposite(id)] = y
      /\ \A i \in Ids \ {id, Opposite(id)} : Channels'[i] = Channels[i]
  BY <1>1, <1>2
<1>5. AllMove /\ AllStay
  BY <1>3, <1>4, EntryOf DEF AllMove, AllStay
<1>6. Channels' \in [Ids -> Entries \cup {Absent}]
  BY <1>1, <1>2, <1>3 DEF Moves
<1>7. lastDecay' \in Nat
  BY DEF Learn, ChannelsTypeOK
<1> QED
  BY <1>4, <1>5, <1>6, <1>7 DEF IsGraph, x, y
-----------------------------------------------------------------------------
\* Decays and resets.
LEMMA FadedMoves ==
  ASSUME ChannelsTypeOK, NEW e \in Entries, e.Timestamp <= now, NEW x \in Faded(e)
  PROVE  Moves(e, x) /\ Loosens(e, x) /\ x # Absent
<1>1. now \in Nat /\ Cap \in Nat
  BY DEF ChannelsTypeOK
<1>2. CASE e.Upper
  <2>1. PICK l \in e.Liquidity .. Cap :
          x = IF l = Cap THEN [e EXCEPT !.Liquidity = Default, !.Upper = FALSE]
              ELSE [e EXCEPT !.Liquidity = l]
    BY <1>2 DEF Faded
  <2>2. l \in 0 .. Cap /\ e.Liquidity <= l
    BY <2>1, <1>1, EntryFields
  <2>3. CASE l = Cap
    <3>1. /\ x \in Entries /\ x.Upper = FALSE
          /\ x.LastUpdate = e.LastUpdate /\ x.Timestamp = e.Timestamp
      BY <2>1, <2>3, DefaultType DEF Entries
    <3> QED
      BY <1>1, <3>1, EntryFields DEF Moves, Loosens
  <2>4. CASE l # Cap
    <3>1. /\ x \in Entries /\ x.Liquidity = l
          /\ x.LastUpdate = e.LastUpdate /\ x.Timestamp = e.Timestamp
      BY <2>1, <2>2, <2>4 DEF Entries
    <3> QED
      BY <1>1, <1>2, <2>2, <3>1, EntryFields DEF Moves, Loosens
  <2> QED
    BY <2>3, <2>4
<1>3. CASE ~e.Upper
  <2>1. PICK l \in Least(e.Liquidity, Default) .. Most(e.Liquidity, Default) :
          x = [e EXCEPT !.Liquidity = l]
    BY <1>3 DEF Faded
  <2>2. l \in 0 .. Cap
    BY <2>1, <1>1, EntryFields, DefaultType DEF Least, Most
  <2>3. x \in Entries /\ x.LastUpdate = e.LastUpdate /\ x.Timestamp = e.Timestamp
    BY <2>1, <2>2 DEF Entries
  <2>4. ~x.Upper
    BY <1>3, <2>1 DEF Entries
  <2> QED
    BY <1>1, <2>3, <2>4, EntryFields DEF Moves, Loosens
<1> QED
  BY <1>2, <1>3

LEMMA DecayMoves ==
  ASSUME ChannelsTypeOK, GraphDated, DecayLiquidity
  PROVE  IsGraph' /\ AllMove /\ AllLoosen /\ AllStay
<1>1. PICK f :
        /\ \A id \in InGraph :
             IF Fades(Channels[id]) THEN f[id] \in Faded(Channels[id])
             ELSE f[id] = Channels[id]
        /\ Channels' = [id \in Ids |-> IF id \in InGraph THEN f[id] ELSE Absent]
  BY DEF DecayLiquidity
<1>2. lastDecay' \in Nat
  BY DEF DecayLiquidity, ChannelsTypeOK
<1>3. ASSUME NEW id \in Ids
      PROVE  /\ Moves(Channels[id], Channels'[id]) /\ Loosens(Channels[id], Channels'[id])
             /\ Channels[id] # Absent => Channels'[id] # Absent
  <2>1. CASE id \notin InGraph
    BY <1>1, <2>1, GoneMoves DEF InGraph
  <2>2. CASE id \in InGraph /\ Channels'[id] = Channels[id]
    BY <2>2, EntryOf DEF InGraph
  <2>3. CASE id \in InGraph /\ Channels'[id] \in Faded(Channels[id])
    <3>1. Channels[id] \in Entries /\ Channels[id].Timestamp <= now
      BY <2>3, EntryOf DEF InGraph, GraphDated
    <3> QED
      BY <2>3, <3>1, FadedMoves
  <2> QED
    BY <1>1, <2>1, <2>2, <2>3
<1>4. AllMove /\ AllLoosen /\ AllStay
  BY <1>3 DEF AllMove, AllLoosen, AllStay
<1>5. Channels' = [id \in Ids |-> Channels'[id]]
  BY <1>1
<1>6. \A id \in Ids : Channels'[id] \in Entries \cup {Absent}
  BY <1>3 DEF Moves
<1> QED
  BY <1>2, <1>4, <1>5, <1>6 DEF IsGraph

LEMMA RefreshLiquidityMoves ==
  ASSUME ChannelsTypeOK, GraphDated, RefreshLiquidity
  PROVE  IsGraph' /\ AllMove /\ AllLoosen /\ AllStay
<1>1. lastDecay' \in Nat
  BY DEF RefreshLiquidity, ChannelsTypeOK
<1>2. ASSUME NEW id \in Ids
      PROVE  /\ Moves(Channels[id], Channels'[id]) /\ Loosens(Channels[id], Channels'[id])
             /\ Channels[id] # Absent => Channels'[id] # Absent
  <2>1. \/ Channels'[id] = Channels[id]
        \/ /\ id \in InGraph
           /\ Channels'[id] = With(Channels[id], Default, FALSE, now)
    BY DEF RefreshLiquidity, With
  <2>2. CASE Channels'[id] = Channels[id]
    BY <2>2, EntryOf
  <2>3. CASE /\ id \in InGraph
             /\ Channels'[id] = With(Channels[id], Default, FALSE, now)
    <3>1. Channels[id] \in Entries /\ Channels[id].Timestamp <= now
      BY <2>3, EntryOf DEF InGraph, GraphDated
    <3> DEFINE e == Channels[id]
               x == With(e, Default, FALSE, now)
    <3> HIDE DEF e
    <3>2. Moves(e, x) /\ x # Absent /\ ~x.Upper
      BY <3>1, EntryWithMoves, DefaultType DEF e
    <3> QED
      BY <2>3, <3>2 DEF Loosens, e
  <2> QED
    BY <2>1, <2>2, <2>3
<1>3. AllMove /\ AllLoosen /\ AllStay
  BY <1>2 DEF AllMove, AllLoosen, AllStay
<1>4. Channels' = [id \in Ids |-> Channels'[id]]
  BY DEF RefreshLiquidity
<1>5. \A id \in Ids : Channels'[id] \in Entries \cup {Absent}
  BY <1>2 DEF Moves
<1> QED
  BY <1>1, <1>3, <1>4, <1>5 DEF IsGraph

\* What a save kept is applied to the channels in the graph.
DatedBy(beliefs, t) == \A id \in DOMAIN beliefs : beliefs[id].Timestamp \in 1 .. t

Dated(beliefs) == DatedBy(beliefs, now)

LEMMA ApplyBeliefsMoves ==
  ASSUME ChannelsTypeOK, GraphDated, NEW beliefs, IsState(beliefs), Dated(beliefs),
         ApplyBeliefs(beliefs)
  PROVE  /\ IsGraph' /\ AllMove /\ AllStay
         /\ \A id \in Ids :
              \/ Channels'[id] = Channels[id]
              \/ /\ id \in InGraph /\ id \in DOMAIN beliefs
                 /\ beliefs[id].Timestamp > Channels[id].Timestamp
                 /\ Channels'[id].Upper = beliefs[id].Upper
                 /\ Channels'[id].Liquidity = beliefs[id].Liquidity
<1>1. lastDecay' \in Nat /\ now \in Nat
  BY DEF ApplyBeliefs, ChannelsTypeOK
<1>2. ASSUME NEW id \in Ids, Applies(beliefs, id)
      PROVE  /\ Moves(Channels[id], Channels'[id]) /\ Channels'[id] # Absent
             /\ id \in InGraph /\ id \in DOMAIN beliefs
             /\ beliefs[id].Timestamp > Channels[id].Timestamp
             /\ Channels'[id].Upper = beliefs[id].Upper
             /\ Channels'[id].Liquidity = beliefs[id].Liquidity
  <2>1. /\ id \in InGraph /\ id \in DOMAIN beliefs
        /\ beliefs[id].Timestamp > Channels[id].Timestamp
    BY <1>2 DEF Applies
  <2>2. Channels[id] \in Entries /\ Channels[id].Timestamp <= now
    BY <2>1, EntryOf DEF InGraph, GraphDated
  <2>3. beliefs[id] \in Beliefs /\ beliefs[id].Timestamp \in 1 .. now
    BY <2>1 DEF IsState, Dated, DatedBy
  <2> DEFINE x == [LastUpdate |-> Channels[id].LastUpdate,
                   Liquidity |-> beliefs[id].Liquidity,
                   Upper |-> beliefs[id].Upper,
                   Timestamp |-> beliefs[id].Timestamp]
  <2>4. Channels'[id] = x
    BY <1>2 DEF ApplyBeliefs
  <2>5. x \in Entries /\ x.LastUpdate = Channels[id].LastUpdate
        /\ x.Timestamp = beliefs[id].Timestamp
    BY <2>2, <2>3 DEF Entries, Beliefs
  <2>6. x.Upper = beliefs[id].Upper /\ x.Liquidity = beliefs[id].Liquidity
    OBVIOUS
  <2> HIDE DEF x
  <2>7. Moves(Channels[id], x) /\ x # Absent
    BY <1>1, <2>1, <2>2, <2>3, <2>5, EntryFields DEF Moves
  <2> QED
    BY <2>1, <2>4, <2>6, <2>7
<1>3. ASSUME NEW id \in Ids, ~Applies(beliefs, id)
      PROVE  Channels'[id] = Channels[id]
  BY <1>3 DEF ApplyBeliefs
<1>4. AllMove /\ AllStay
  BY <1>2, <1>3, EntryOf DEF AllMove, AllStay
<1>5. Channels' = [id \in Ids |-> Channels'[id]]
  BY DEF ApplyBeliefs
<1>6. \A id \in Ids : Channels'[id] \in Entries \cup {Absent}
  BY <1>4 DEF AllMove, Moves
<1> QED
  BY <1>1, <1>2, <1>3, <1>4, <1>5, <1>6 DEF IsGraph
-----------------------------------------------------------------------------
(***************************************************************************)
(* Payments: what they add up to.                                          *)
(***************************************************************************)
\* No channel carries more than it holds.
Afforded == \A id \in Ids : Amount(id, Carried) <= Holds(id)

LEMMA HtlcFields ==
  ASSUME NEW x \in Htlcs
  PROVE  /\ x.id \in Ids /\ x.amount \in 1 .. Cap - 1 /\ x.amount \in Nat
         /\ x.state \in Carried \cup Over \cup Failed
         /\ x # Absent
BY DEF Htlcs

LEMMA HoldsType ==
  ASSUME LearningTypeOK, NEW id \in Ids
  PROVE  Holds(id) \in 0 .. Cap /\ Holds(Opposite(id)) = Cap - Holds(id)
<1>1. /\ id[1] \in Scids /\ id[2] \in {0, 1}
      /\ Opposite(id)[1] = id[1] /\ Opposite(id)[2] = 1 - id[2]
  BY DEF Ids, Opposite
<1>2. balance[id[1]] \in 0 .. Cap
  BY <1>1 DEF LearningTypeOK
<1> QED
  BY <1>1, <1>2 DEF Holds

\* id and its opposite are the directions of their channel.
LEMMA Directions ==
  ASSUME NEW id \in Ids, NEW i \in Ids
  PROVE  i[1] = id[1] <=> i = id \/ i = Opposite(id)
BY DEF Ids, Opposite

LEMMA MovedHolds ==
  ASSUME LearningTypeOK, NEW id \in Ids, NEW a \in 1 .. Cap - 1, Holds(id) >= a, Moved(id, a)
  PROVE  /\ balance' \in [Scids -> 0 .. Cap]
         /\ Holds(id)' = Holds(id) - a
         /\ Holds(Opposite(id))' = Holds(Opposite(id)) + a
         /\ \A i \in Ids \ {id, Opposite(id)} : Holds(i)' = Holds(i)
<1> DEFINE s == id[1]
           b == balance[s]
<1>1. /\ s \in Scids /\ id[2] \in {0, 1}
      /\ Opposite(id)[1] = s /\ Opposite(id)[2] = 1 - id[2]
  BY DEF Ids, Opposite
<1>2. b \in 0 .. Cap /\ balance \in [Scids -> 0 .. Cap]
  BY <1>1 DEF LearningTypeOK
<1> DEFINE c == IF id[2] = 0 THEN b - a ELSE b + a
<1>3. balance' = [balance EXCEPT ![s] = c]
  BY DEF Moved
<1>4. c \in 0 .. Cap
  BY <1>1, <1>2 DEF Holds
<1> HIDE DEF c
<1>5. balance' \in [Scids -> 0 .. Cap] /\ balance'[s] = c
      /\ \A t \in Scids \ {s} : balance'[t] = balance[t]
  BY <1>1, <1>2, <1>3, <1>4
<1>6. Holds(id)' = Holds(id) - a /\ Holds(Opposite(id))' = Holds(Opposite(id)) + a
  BY <1>1, <1>2, <1>5 DEF Holds, c
<1>7. ASSUME NEW i \in Ids \ {id, Opposite(id)}
      PROVE  Holds(i)' = Holds(i)
  <2>1. i[1] \in Scids \ {s}
    BY <1>7, Directions DEF Ids
  <2> QED
    BY <1>5, <2>1 DEF Holds
<1> QED
  BY <1>5, <1>6, <1>7

\* The sums, as functions of what the splits pay.
PayingIn(f, id, S) == {p \in Splits : f[p] # Absent /\ f[p].id = id /\ f[p].state \in S}

AmountOf(f, P) == SumOver([p \in P |-> f[p].amount], P)

AmountIn(f, id, S) == AmountOf(f, PayingIn(f, id, S))

Payments == [Splits -> Htlcs \cup {Absent}]

\* What one payment adds.
Weight(x, id, S) == IF x # Absent /\ x.id = id /\ x.state \in S THEN x.amount ELSE 0

LEMMA WeightType ==
  ASSUME NEW x \in Htlcs \cup {Absent}, NEW id, NEW S
  PROVE  Weight(x, id, S) \in Nat
BY HtlcFields DEF Weight

LEMMA PayingFinite ==
  ASSUME NEW f \in Payments, NEW id, NEW S, NEW P, P \subseteq PayingIn(f, id, S)
  PROVE  IsFiniteSet(P) /\ \A p \in P : f[p].amount \in Nat
<1>1. P \subseteq Splits /\ \A p \in P : f[p] \in Htlcs
  BY DEF PayingIn, Payments
<1> QED
  BY <1>1, FS_Subset, HtlcFields

\* The other payments that count.
Rest(f, id, S, p) == PayingIn(f, id, S) \ {p}

LEMMA AmountParts ==
  ASSUME NEW f \in Payments, NEW id, NEW S, NEW p \in Splits
  PROVE  /\ AmountOf(f, Rest(f, id, S, p)) \in Nat
         /\ AmountIn(f, id, S) = AmountOf(f, Rest(f, id, S, p)) + Weight(f[p], id, S)
<1> DEFINE All == PayingIn(f, id, S)
           P == Rest(f, id, S, p)
           h == [q \in All |-> f[q].amount]
           g == [q \in P |-> f[q].amount]
<1>1. /\ IsFiniteSet(P) /\ \A q \in P : f[q].amount \in Nat
      /\ \A q \in All : f[q].amount \in Nat
  BY PayingFinite DEF Rest
<1>2. AmountOf(f, P) = SumOver(g, P) /\ SumOver(g, P) \in Nat
  BY <1>1, SumIsNat DEF AmountOf
<1>3. AmountOf(f, P) \in Nat
  BY <1>2
<1>4. SumOver(h, P) = SumOver(g, P)
  BY SumAgree DEF Rest
<1>5. CASE p \in All
  <2>1. SumOver(h, P \cup {p}) = SumOver(h, P) + h[p]
    BY <1>1, <1>5, SumAdd DEF Rest
  <2>2. P \cup {p} = All /\ Weight(f[p], id, S) = h[p]
    BY <1>5 DEF PayingIn, Weight, Rest
  <2> QED
    BY <1>2, <1>3, <1>4, <2>1, <2>2 DEF AmountIn, AmountOf
<1>6. CASE p \notin All
  <2>1. P = All /\ Weight(f[p], id, S) = 0
    BY <1>6 DEF PayingIn, Weight, Rest
  <2>2. AmountIn(f, id, S) = AmountOf(f, P)
    BY <2>1, Zenon DEF AmountIn
  <2> QED
    BY <1>3, <2>1, <2>2
<1> QED
  BY <1>3, <1>5, <1>6

LEMMA AmountChanges ==
  ASSUME NEW f \in Payments, NEW p \in Splits, NEW r \in Htlcs \cup {Absent},
         NEW g \in Payments, g[p] = r, \A q \in Splits \ {p} : g[q] = f[q], NEW id, NEW S
  PROVE  /\ AmountIn(f, id, S) \in Nat /\ AmountIn(g, id, S) \in Nat
         /\ Weight(f[p], id, S) <= AmountIn(f, id, S)
         /\ AmountIn(g, id, S) = AmountIn(f, id, S) - Weight(f[p], id, S) + Weight(r, id, S)
<1> DEFINE P == Rest(f, id, S, p)
<1>1. f[p] \in Htlcs \cup {Absent}
  BY DEF Payments
<1>2. P = Rest(g, id, S, p) /\ P \subseteq Splits \ {p}
  BY DEF PayingIn, Rest
<1>3. [q \in P |-> f[q].amount] = [q \in P |-> g[q].amount]
  BY <1>2
<1>4. AmountOf(f, P) \in Nat /\ AmountIn(f, id, S) = AmountOf(f, P) + Weight(f[p], id, S)
  BY AmountParts
<1>5. AmountIn(g, id, S) = AmountOf(g, Rest(g, id, S, p)) + Weight(g[p], id, S)
  BY AmountParts
<1>6. Weight(f[p], id, S) \in Nat /\ Weight(r, id, S) \in Nat
  BY <1>1, WeightType
<1>7. AmountOf(f, P) = AmountOf(g, P)
  BY <1>3 DEF AmountOf
<1> HIDE DEF P
<1>8. AmountIn(g, id, S) = AmountOf(f, P) + Weight(r, id, S)
  BY <1>2, <1>5, <1>7
<1> QED
  BY <1>4, <1>6, <1>8

LEMMA AmountType ==
  ASSUME NEW f \in Payments, NEW id, NEW S
  PROVE  AmountIn(f, id, S) \in Nat
<1>1. IsFiniteSet(PayingIn(f, id, S)) /\ \A p \in PayingIn(f, id, S) : f[p].amount \in Nat
  BY PayingFinite
<1> QED
  BY <1>1, SumIsNat DEF AmountIn, AmountOf

LEMMA AmountIsIn ==
  ASSUME NEW id, NEW S
  PROVE  /\ Paying(id, S) = PayingIn(split, id, S)
         /\ Amount(id, S) = AmountIn(split, id, S)
         /\ Amount(id, S)' = AmountIn(split', id, S)
BY DEF Amount, AmountIn, AmountOf, Paying, PayingIn

\* What one payment adds to what id would hold by what was learned.
Share(x, id) ==
  Weight(x, id, {"paid"}) - Weight(x, Opposite(id), {"paid"})
    - Weight(x, id, {"late"}) + Weight(x, Opposite(id), {"late"})

\* What i holds more when a moves through id.
Gain(i, id, a) == IF i = id THEN -a ELSE IF i = Opposite(id) THEN a ELSE 0

LEMMA ShareIs ==
  ASSUME NEW x \in Htlcs, NEW i \in Ids
  PROVE  /\ x.state = "paid" => Share(x, i) = 0 - Gain(i, x.id, x.amount)
         /\ x.state = "late" => Share(x, i) = Gain(i, x.id, x.amount)
         /\ x.state \notin {"paid", "late"} => Share(x, i) = 0
<1>1. x.id \in Ids /\ x.amount \in Nat /\ x # Absent
  BY HtlcFields
<1>2. /\ Opposite(x.id) # x.id /\ Opposite(i) # i
      /\ x.id = Opposite(i) <=> i = Opposite(x.id)
  BY <1>1, OppositeType
<1> QED
  BY <1>1, <1>2 DEF Share, Weight, Gain

LEMMA ShareType ==
  ASSUME NEW x \in Htlcs \cup {Absent}, NEW id
  PROVE  Share(x, id) \in Int
<1>1. \A i, S : Weight(x, i, S) \in Nat
  BY WeightType
<1> QED
  BY <1>1 DEF Share

LEMMA NoShare == \A i : Share(Absent, i) = 0
BY DEF Share, Weight

LEMMA ToldType ==
  ASSUME LearningTypeOK, NEW id \in Ids
  PROVE  Told(id) \in Int
<1>1. \A i, S : Amount(i, S) \in Nat
  BY AmountIsIn, AmountType DEF LearningTypeOK, Payments
<1> QED
  BY <1>1, HoldsType DEF Told

\* A step of one split.
LEMMA SplitChanges ==
  ASSUME LearningTypeOK, NEW p \in Splits, NEW r \in Htlcs \cup {Absent},
         split' = [split EXCEPT ![p] = r], balance' \in [Scids -> 0 .. Cap], NEW id \in Ids
  PROVE  /\ split' \in Payments
         /\ Amount(id, Carried) \in Nat /\ Amount(id, Carried)' \in Nat
         /\ Weight(split[p], id, Carried) <= Amount(id, Carried)
         /\ Amount(id, Carried)' =
              Amount(id, Carried) - Weight(split[p], id, Carried) + Weight(r, id, Carried)
         /\ Told(id)' = Told(id) + (Holds(id)' - Holds(id)) + Share(r, id) - Share(split[p], id)
<1>1. split \in Payments
  BY DEF LearningTypeOK, Payments
<1>2. /\ split' \in Payments
      /\ \A i, S : /\ Amount(i, S) \in Nat /\ Amount(i, S)' \in Nat
                   /\ Weight(split[p], i, S) <= Amount(i, S)
                   /\ Amount(i, S)' = Amount(i, S) - Weight(split[p], i, S) + Weight(r, i, S)
  <2>1. ASSUME NEW i, NEW S
        PROVE  /\ split' \in Payments
               /\ AmountIn(split, i, S) \in Nat /\ AmountIn(split', i, S) \in Nat
               /\ Weight(split[p], i, S) <= AmountIn(split, i, S)
               /\ AmountIn(split', i, S) =
                    AmountIn(split, i, S) - Weight(split[p], i, S) + Weight(r, i, S)
    <3> DEFINE g == split'
    <3>1. g \in Payments /\ g[p] = r /\ \A q \in Splits \ {p} : g[q] = split[q]
      BY <1>1 DEF Payments
    <3> HIDE DEF g
    <3>2. /\ AmountIn(split, i, S) \in Nat /\ AmountIn(g, i, S) \in Nat
          /\ Weight(split[p], i, S) <= AmountIn(split, i, S)
          /\ AmountIn(g, i, S) =
               AmountIn(split, i, S) - Weight(split[p], i, S) + Weight(r, i, S)
      BY <1>1, <3>1, AmountChanges
    <3> QED
      BY <3>1, <3>2 DEF g
  <2>2. \A i, S : Amount(i, S) = AmountIn(split, i, S) /\ Amount(i, S)' = AmountIn(split', i, S)
    BY AmountIsIn
  <2> QED
    BY <2>1, <2>2
<1>3. \A i, S : Weight(split[p], i, S) \in Nat /\ Weight(r, i, S) \in Nat
  BY <1>1, WeightType DEF Payments
<1>4. Holds(id) \in Int /\ Holds(id)' \in Int
  <2>1. id[1] \in Scids
    BY DEF Ids
  <2> QED
    BY <2>1 DEF Holds, LearningTypeOK
<1>5. Told(id)' =
        Holds(id)' + Amount(id, {"paid"})' - Amount(Opposite(id), {"paid"})'
                   - Amount(id, {"late"})' + Amount(Opposite(id), {"late"})'
  BY DEF Told
<1> QED
  BY <1>2, <1>3, <1>4, <1>5 DEF Told, Share
\* The same payments add up to the same.
LEMMA AmountSame ==
  ASSUME NEW f \in Payments, NEW g \in Payments, NEW id, NEW S, NEW T,
         PayingIn(f, id, S) = PayingIn(g, id, T),
         \A p \in PayingIn(f, id, S) : f[p].amount = g[p].amount
  PROVE  AmountIn(f, id, S) = AmountIn(g, id, T)
<1>1. [p \in PayingIn(f, id, S) |-> f[p].amount] = [p \in PayingIn(g, id, T) |-> g[p].amount]
  OBVIOUS
<1> QED
  BY <1>1 DEF AmountIn, AmountOf

LEMMA AmountNone ==
  ASSUME NEW f, NEW id, NEW S, PayingIn(f, id, S) = {}
  PROVE  AmountIn(f, id, S) = 0
BY SumEmpty DEF AmountIn, AmountOf

\* Some of them add up to no more than all.
LEMMA AmountGrows ==
  ASSUME NEW f \in Payments, NEW id, NEW S, NEW T, S \subseteq T
  PROVE  AmountIn(f, id, S) <= AmountIn(f, id, T)
<1> DEFINE P == PayingIn(f, id, S)
           Q == PayingIn(f, id, T)
           g == [p \in P |-> f[p].amount]
           h == [p \in Q |-> f[p].amount]
<1>1. P \subseteq Q
  BY DEF PayingIn
<1>2. IsFiniteSet(Q) /\ \A p \in Q : h[p] \in Nat
  BY PayingFinite
<1>3. SumOver(g, P) = SumOver(h, P)
  <2>1. \A p \in P : g[p] = h[p]
    BY <1>1
  <2> QED
    BY <2>1, SumAgree
<1> HIDE DEF P, Q, g, h
<1>4. SumOver(h, P) <= SumOver(h, Q)
  BY <1>1, <1>2, SumGrows
<1> QED
  BY <1>3, <1>4 DEF AmountIn, AmountOf, P, Q, g, h
-----------------------------------------------------------------------------
(***************************************************************************)
(* Payments: what each step does to what the channels hold.                *)
(***************************************************************************)
LEMMA SplitFields ==
  ASSUME LearningTypeOK, NEW p \in Splits, split[p] # Absent
  PROVE  /\ split[p] \in Htlcs /\ split[p].id \in Ids /\ split[p].amount \in 1 .. Cap - 1
         /\ \A r \in Carried \cup Over \cup Failed :
              /\ [split[p] EXCEPT !.state = r] \in Htlcs
              /\ [split[p] EXCEPT !.state = r].id = split[p].id
              /\ [split[p] EXCEPT !.state = r].amount = split[p].amount
              /\ [split[p] EXCEPT !.state = r].state = r
<1>1. split[p] \in Htlcs
  BY DEF LearningTypeOK
<1>2. ASSUME NEW x \in Htlcs, NEW r \in Carried \cup Over \cup Failed
      PROVE  /\ [x EXCEPT !.state = r] \in Htlcs
             /\ [x EXCEPT !.state = r].id = x.id
             /\ [x EXCEPT !.state = r].amount = x.amount
             /\ [x EXCEPT !.state = r].state = r
  BY DEF Htlcs
<1> QED
  BY <1>1, <1>2, HtlcFields

\* What a channel carries, it holds.
LEMMA CarriedIsHeld ==
  ASSUME LearningTypeOK, Afforded, NEW p \in Splits, split[p] # Absent,
         split[p].state \in Carried
  PROVE  split[p].amount <= Holds(split[p].id)
<1>1. split[p].id \in Ids /\ split[p].amount \in Nat /\ split \in Payments
  BY SplitFields DEF LearningTypeOK, Payments
<1>2. Weight(split[p], split[p].id, Carried) = split[p].amount
  BY DEF Weight
<1>3. split[p] \in Htlcs \cup {Absent} /\ split' = split'
  BY SplitFields
<1>4. /\ AmountIn(split, split[p].id, Carried) \in Nat
      /\ Weight(split[p], split[p].id, Carried) <= AmountIn(split, split[p].id, Carried)
  BY <1>1, <1>3, AmountChanges
<1> QED
  BY <1>1, <1>2, <1>4, AmountIsIn, HoldsType DEF Afforded

\* A step of one split that moves nothing.
LEMMA NothingMoves ==
  ASSUME LearningTypeOK, Afforded, NEW p \in Splits, NEW r \in Htlcs \cup {Absent},
         split' = [split EXCEPT ![p] = r], balance' = balance,
         \A id \in Ids : \/ Weight(r, id, Carried) <= Weight(split[p], id, Carried)
                         \/ split[p] = Absent /\ Weight(r, id, Carried) <= Spendable(id)
  PROVE  /\ split' \in Payments /\ Afforded'
         /\ \A id \in Ids : Told(id)' = Told(id) + Share(r, id) - Share(split[p], id)
<1>1. balance' \in [Scids -> 0 .. Cap]
  BY DEF LearningTypeOK
<1>2. \A id \in Ids : Holds(id)' = Holds(id) /\ Holds(id) \in 0 .. Cap
  BY HoldsType DEF Holds
<1>3. split[p] \in Htlcs \cup {Absent}
  BY DEF LearningTypeOK
<1>4. \A id \in Ids :
        Weight(r, id, Carried) \in Nat /\ Weight(split[p], id, Carried) \in Nat
  BY <1>3, WeightType
<1>5. ASSUME NEW id \in Ids
      PROVE  /\ Amount(id, Carried)' <= Holds(id)'
             /\ Told(id)' = Told(id) + Share(r, id) - Share(split[p], id)
  <2>1. /\ Amount(id, Carried) \in Nat
        /\ Amount(id, Carried)' =
             Amount(id, Carried) - Weight(split[p], id, Carried) + Weight(r, id, Carried)
        /\ Told(id)' = Told(id) + (Holds(id)' - Holds(id)) + Share(r, id) - Share(split[p], id)
    BY <1>1, SplitChanges
  <2>2. Amount(id, Carried) <= Holds(id)
    BY DEF Afforded
  <2>3. split[p] = Absent => Weight(split[p], id, Carried) = 0
    BY DEF Weight
  <2>4. Amount(id, Carried)' <= Holds(id)'
    BY <1>2, <1>4, <2>1, <2>2, <2>3 DEF Spendable
  <2>5. Told(id) \in Int /\ Share(r, id) \in Int /\ Share(split[p], id) \in Int
    BY <1>3, ToldType, ShareType
  <2> QED
    BY <1>2, <2>1, <2>4, <2>5
<1>6. split' \in Payments
  BY DEF LearningTypeOK, Payments
<1> QED
  BY <1>5, <1>6 DEF Afforded

\* A payment that succeeds moves what its channel carried.
LEMMA PaymentMoves ==
  ASSUME LearningTypeOK, Afforded, NEW p \in Splits, split[p] # Absent,
         split[p].state \in Carried, NEW r \in Htlcs \cup {Absent},
         r = Absent \/ r.state \notin Carried,
         split' = [split EXCEPT ![p] = r], Moved(split[p].id, split[p].amount)
  PROVE  /\ balance' \in [Scids -> 0 .. Cap] /\ split' \in Payments /\ Afforded'
         /\ \A i \in Ids :
              Told(i)' = Told(i) + Gain(i, split[p].id, split[p].amount)
                                 + Share(r, i) - Share(split[p], i)
<1>1. PICK id \in Ids, a \in 1 .. Cap - 1 :
        /\ split[p].id = id /\ split[p].amount = a
        /\ split[p] \in Htlcs /\ Holds(id) >= a /\ Moved(id, a)
  <2>1. /\ split[p].id \in Ids /\ split[p].amount \in 1 .. Cap - 1
        /\ split[p] \in Htlcs
    BY SplitFields
  <2>2. split[p].amount <= Holds(split[p].id) /\ Holds(split[p].id) \in 0 .. Cap
    BY <2>1, CarriedIsHeld, HoldsType
  <2> QED
    BY <2>1, <2>2
<1>2. /\ balance' \in [Scids -> 0 .. Cap]
      /\ Holds(id)' = Holds(id) - a
      /\ Holds(Opposite(id))' = Holds(Opposite(id)) + a
      /\ \A i \in Ids \ {id, Opposite(id)} : Holds(i)' = Holds(i)
  BY <1>1, MovedHolds
<1>3. split' \in Payments
  BY DEF LearningTypeOK, Payments
<1>4. ASSUME NEW i \in Ids
      PROVE  Holds(i)' = Holds(i) + Gain(i, id, a) /\ Holds(i) \in 0 .. Cap
  <2>1. Holds(i) \in 0 .. Cap
    BY HoldsType
  <2>2. CASE i = id
    BY <1>1, <1>2, <2>1, <2>2 DEF Gain
  <2>3. CASE i = Opposite(id)
    BY <1>1, <1>2, <2>1, <2>3, OppositeType DEF Gain
  <2>4. CASE i \notin {id, Opposite(id)}
    BY <1>2, <2>1, <2>4 DEF Gain
  <2> QED
    BY <2>2, <2>3, <2>4
<1>5. ASSUME NEW i \in Ids
      PROVE  Amount(i, Carried)' <= Holds(i)'
  <2>1. /\ Amount(i, Carried) \in Nat
        /\ Amount(i, Carried)' =
             Amount(i, Carried) - Weight(split[p], i, Carried) + Weight(r, i, Carried)
    BY <1>2, SplitChanges
  <2>2. Amount(i, Carried) <= Holds(i)
    BY DEF Afforded
  <2>3. Weight(r, i, Carried) = 0
    BY DEF Weight
  <2>4. Weight(split[p], i, Carried) = IF i = id THEN a ELSE 0
    BY <1>1 DEF Weight
  <2>5. Gain(i, id, a) >= 0 - Weight(split[p], i, Carried) /\ Gain(i, id, a) \in Int
    BY <1>1, <2>4 DEF Gain
  <2>6. Weight(split[p], i, Carried) \in Nat
    BY <1>1, <2>4
  <2> QED
    BY <1>4, <2>1, <2>2, <2>3, <2>5, <2>6
<1>6. ASSUME NEW i \in Ids
      PROVE  Told(i)' = Told(i) + Gain(i, id, a) + Share(r, i) - Share(split[p], i)
  <2>1. Told(i)' = Told(i) + (Holds(i)' - Holds(i)) + Share(r, i) - Share(split[p], i)
    BY <1>2, SplitChanges
  <2>2. Told(i) \in Int /\ Share(r, i) \in Int /\ Share(split[p], i) \in Int
    BY <1>1, ToldType, ShareType
  <2>3. Gain(i, id, a) \in Int
    BY <1>1 DEF Gain
  <2> QED
    BY <1>4, <2>1, <2>2, <2>3
<1> QED
  BY <1>1, <1>2, <1>3, <1>5, <1>6 DEF Afforded

\* An HTLC reaches a channel: what it was told of stays as it is.
LEMMA SendPayMoves ==
  ASSUME LearningTypeOK, Afforded, NEW p \in Splits, NEW id \in Ids, NEW a \in 1 .. Cap - 1,
         SendPay(p, id, a)
  PROVE  /\ LearningTypeOK' /\ Afforded'
         /\ \A i \in Ids : Told(i)' = Told(i)
<1>1. PICK state \in {"carried", "refused", "unusable"} :
        Reaches(p, id, a, state) /\ (state = "carried" => Spendable(id) >= a)
  BY DEF SendPay
<1> DEFINE r == [id |-> id, amount |-> a, state |-> state]
<1>2. /\ r \in Htlcs /\ split[p] = Absent /\ split' = [split EXCEPT ![p] = r]
      /\ balance' = balance /\ behind' = behind /\ doubted' = doubted
      /\ shared' \subseteq Splits
  BY <1>1 DEF Reaches, Htlcs, Carried, Failed, LearningTypeOK, Of
<1>3. r.id = id /\ r.amount = a /\ r.state = state /\ r # Absent
  BY <1>2, HtlcFields
<1> HIDE DEF r
<1>4. \A i \in Ids : \/ Weight(r, i, Carried) <= Weight(split[p], i, Carried)
                     \/ split[p] = Absent /\ Weight(r, i, Carried) <= Spendable(i)
  <2>1. CASE state = "carried"
    <3> SUFFICES ASSUME NEW i \in Ids
                 PROVE  \/ Weight(r, i, Carried) <= Weight(split[p], i, Carried)
                        \/ Weight(r, i, Carried) <= Spendable(i)
      BY <1>2
    <3>1. Spendable(id) >= a /\ Spendable(id) \in Int
      <4>1. Amount(id, Carried) \in Nat
        BY AmountIsIn, AmountType DEF LearningTypeOK, Payments
      <4> QED
        BY <1>1, <2>1, <4>1, HoldsType DEF Spendable
    <3> QED
      BY <1>2, <1>3, <3>1 DEF Weight
  <2>2. CASE state # "carried"
    <3>1. r.state \notin Carried
      BY <1>1, <1>3, <2>2 DEF Carried
    <3> QED
      BY <1>2, <3>1 DEF Weight
  <2> QED
    BY <2>1, <2>2
<1>5. /\ split' \in Payments /\ Afforded'
      /\ \A i \in Ids : Told(i)' = Told(i) + Share(r, i) - Share(split[p], i)
  BY <1>2, <1>4, NothingMoves
<1>6. \A i \in Ids : Share(r, i) = 0 /\ Share(split[p], i) = 0 /\ Told(i) \in Int
  BY <1>2, <1>3, ShareIs, NoShare, ToldType
<1> QED
  BY <1>2, <1>5, <1>6 DEF LearningTypeOK, Payments

LEMMA SettleMoves ==
  ASSUME LearningTypeOK, Afforded, NEW p \in Splits, Settle(p)
  PROVE  /\ LearningTypeOK' /\ Afforded'
         /\ \A i \in Ids : Told(i)' = Told(i)
<1> DEFINE x == split[p]
<1>1. /\ x \in Htlcs /\ x.id \in Ids /\ x.state = "carried" /\ x.state \in Carried
      /\ x # Absent /\ x.amount \in 1 .. Cap - 1
      /\ shared' = shared /\ behind' = behind /\ doubted' = doubted
  BY SplitFields DEF Settle, Carried
<1>2. \A i \in Ids : Told(i) \in Int /\ Share(x, i) = 0
  BY <1>1, ToldType, ShareIs
<1>3. CASE Becomes(p, "paid") /\ Moved(x.id, x.amount)
  <2> DEFINE r == [x EXCEPT !.state = "paid"]
  <2>1. /\ r \in Htlcs /\ r.id = x.id /\ r.amount = x.amount /\ r.state = "paid"
        /\ r.state \notin Carried
    BY <1>1, SplitFields DEF Over, Carried
  <2>2. split' = [split EXCEPT ![p] = r]
    BY <1>3 DEF Becomes
  <2> HIDE DEF r
  <2>3. /\ balance' \in [Scids -> 0 .. Cap] /\ split' \in Payments /\ Afforded'
        /\ \A i \in Ids :
             Told(i)' = Told(i) + Gain(i, x.id, x.amount) + Share(r, i) - Share(x, i)
    BY <1>1, <1>3, <2>1, <2>2, PaymentMoves
  <2>4. \A i \in Ids : Share(r, i) = 0 - Gain(i, x.id, x.amount)
    BY <2>1, ShareIs
  <2>5. \A i \in Ids : Gain(i, x.id, x.amount) \in Int
    BY <1>1 DEF Gain
  <2> QED
    BY <1>1, <1>2, <2>3, <2>4, <2>5 DEF LearningTypeOK, Payments
<1>4. CASE Becomes(p, "failed") /\ balance' = balance
  <2> DEFINE r == [x EXCEPT !.state = "failed"]
  <2>1. r \in Htlcs /\ r.state = "failed" /\ r.state \notin Carried
    BY <1>1, SplitFields DEF Over, Carried
  <2>2. split' = [split EXCEPT ![p] = r]
    BY <1>4 DEF Becomes
  <2> HIDE DEF r
  <2>3. \A i \in Ids : Weight(r, i, Carried) <= Weight(x, i, Carried)
    BY <1>1, <2>1, HtlcFields DEF Weight
  <2>4. /\ split' \in Payments /\ Afforded'
        /\ \A i \in Ids : Told(i)' = Told(i) + Share(r, i) - Share(x, i)
    BY <1>4, <2>1, <2>2, <2>3, NothingMoves
  <2>5. \A i \in Ids : Share(r, i) = 0
    BY <2>1, ShareIs
  <2> QED
    BY <1>1, <1>2, <1>4, <2>4, <2>5 DEF LearningTypeOK, Payments
<1> QED
  BY <1>3, <1>4 DEF Settle

\* If nobody learned of a success, the other direction holds more than it was
\* told of.
LEMMA SettleAloneMoves ==
  ASSUME LearningTypeOK, Afforded, NEW p \in Splits, SettleAlone(p)
  PROVE  /\ LearningTypeOK' /\ Afforded' /\ behind' = behind /\ doubted \subseteq doubted'
         /\ \A i \in Ids : Told(i)' <= Told(i) \/ i \in doubted'
<1> DEFINE x == split[p]
<1>1. /\ x \in Htlcs /\ x.id \in Ids /\ x.state \in {"late", "lost"} /\ x.state \in Carried
      /\ x # Absent /\ x.amount \in 1 .. Cap - 1
      /\ split' = [split EXCEPT ![p] = Absent]
      /\ shared' \subseteq Splits /\ behind' = behind
      /\ doubted' \subseteq Ids /\ doubted \subseteq doubted'
  BY SplitFields, OppositeType DEF SettleAlone, Ends, Carried, LearningTypeOK
<1>2. \A i \in Ids : Told(i) \in Int /\ Share(Absent, i) = 0 /\ Gain(i, x.id, x.amount) \in Int
  BY <1>1, ToldType, NoShare DEF Gain
<1>3. CASE Moved(x.id, x.amount) /\ (x.state = "late" \/ Opposite(x.id) \in doubted')
  <2>1. /\ balance' \in [Scids -> 0 .. Cap] /\ split' \in Payments /\ Afforded'
        /\ \A i \in Ids :
             Told(i)' = Told(i) + Gain(i, x.id, x.amount) + Share(Absent, i) - Share(x, i)
    BY <1>1, <1>3, PaymentMoves
  <2>2. CASE x.state = "late"
    <3>1. \A i \in Ids : Told(i)' = Told(i)
      BY <1>1, <1>2, <2>1, <2>2, ShareIs
    <3> QED
      BY <1>1, <1>2, <2>1, <3>1 DEF LearningTypeOK, Payments
  <2>3. CASE x.state = "lost" /\ Opposite(x.id) \in doubted'
    <3>1. \A i \in Ids : Share(x, i) = 0
      BY <1>1, <2>3, ShareIs
    <3>2. \A i \in Ids : Told(i)' = Told(i) + Gain(i, x.id, x.amount)
      BY <1>2, <2>1, <3>1
    <3>3. \A i \in Ids : Gain(i, x.id, x.amount) <= 0 \/ i = Opposite(x.id)
      BY <1>1 DEF Gain
    <3>4. \A i \in Ids : Told(i)' <= Told(i) \/ i \in doubted'
      BY <1>2, <2>3, <3>2, <3>3
    <3> QED
      BY <1>1, <2>1, <3>4 DEF LearningTypeOK, Payments
  <2> QED
    BY <1>1, <1>3, <2>2, <2>3
<1>4. CASE x.state = "lost" /\ balance' = balance
  <2>1. \A i \in Ids : Weight(Absent, i, Carried) <= Weight(x, i, Carried)
    BY <1>1, HtlcFields DEF Weight
  <2>2. /\ split' \in Payments /\ Afforded'
        /\ \A i \in Ids : Told(i)' = Told(i) + Share(Absent, i) - Share(x, i)
    BY <1>1, <1>4, <2>1, NothingMoves
  <2>3. \A i \in Ids : Share(x, i) = 0
    BY <1>1, <1>4, ShareIs
  <2> QED
    BY <1>1, <1>2, <1>4, <2>2, <2>3 DEF LearningTypeOK, Payments
<1> QED
  BY <1>3, <1>4 DEF SettleAlone
-----------------------------------------------------------------------------
(***************************************************************************)
(* Payments: what each step of learning does to what was learned.          *)
(***************************************************************************)
HistoryGrows ==
  /\ doubted \subseteq doubted'
  /\ \A w \in Saves : behind[w] \subseteq behind'[w]

\* A success is learned, once waitsendpay has returned or as it times out.
SuccessLearned(p) ==
  /\ split[p] # Absent /\ LearnFromSuccess(p)
  /\ \/ split[p].state = "paid" /\ Ends(p)
     \/ split[p].state = "carried" /\ Becomes(p, "late") /\ UNCHANGED shared

LEMMA SuccessMoves ==
  ASSUME LearningTypeOK, Afforded, NEW p \in Splits, SuccessLearned(p)
  PROVE  /\ LearningTypeOK' /\ Afforded' /\ HistoryGrows
         /\ \A i \in Ids : Told(i)' = Told(i) + Gain(i, split[p].id, split[p].amount)
         /\ \A i \in Ids :
              i = Opposite(split[p].id) /\ Paying(i, {"paid"}) = {} => Told(i)' <= Cap
<1> DEFINE x == split[p]
<1>1. /\ x \in Htlcs /\ x.id \in Ids /\ x # Absent /\ x.amount \in 1 .. Cap - 1
      /\ Opposite(x.id) \in Ids /\ balance' = balance
      /\ shared' \subseteq Splits
  BY SplitFields, OppositeType DEF SuccessLearned, LearnFromSuccess, Ends, LearningTypeOK
<1>2. PICK r \in Htlcs \cup {Absent} :
        /\ split' = [split EXCEPT ![p] = r]
        /\ \/ r = Absent /\ x.state = "paid"
           \/ r # Absent /\ r.id = x.id /\ r.amount = x.amount /\ r.state = "late"
              /\ x.state = "carried"
  <2>1. CASE x.state = "paid" /\ Ends(p)
    BY <2>1 DEF Ends
  <2>2. CASE x.state = "carried" /\ Becomes(p, "late")
    <3> DEFINE r == [x EXCEPT !.state = "late"]
    <3>1. r \in Htlcs /\ r.id = x.id /\ r.amount = x.amount /\ r.state = "late"
      BY <1>1, SplitFields DEF Carried
    <3>2. r # Absent /\ split' = [split EXCEPT ![p] = r]
      BY <2>2, <3>1, HtlcFields DEF Becomes
    <3> HIDE DEF r
    <3> QED
      BY <2>2, <3>1, <3>2
  <2> QED
    BY <2>1, <2>2 DEF SuccessLearned
<1>3. \A i \in Ids : Weight(r, i, Carried) <= Weight(x, i, Carried)
  BY <1>1, <1>2 DEF Weight, Carried
<1>4. /\ split' \in Payments /\ Afforded'
      /\ \A i \in Ids : Told(i)' = Told(i) + Share(r, i) - Share(x, i)
  BY <1>1, <1>2, <1>3, NothingMoves
<1>5. \A i \in Ids : Told(i)' = Told(i) + Gain(i, x.id, x.amount)
  <2>1. \A i \in Ids : Told(i) \in Int /\ Gain(i, x.id, x.amount) \in Int
    BY <1>1, ToldType DEF Gain
  <2>2. CASE r = Absent /\ x.state = "paid"
    <3>1. \A i \in Ids : Share(r, i) = 0 /\ Share(x, i) = 0 - Gain(i, x.id, x.amount)
      BY <1>1, <2>2, ShareIs, NoShare
    <3> QED
      BY <1>4, <2>1, <3>1
  <2>3. CASE r # Absent /\ r.id = x.id /\ r.amount = x.amount /\ r.state = "late"
             /\ x.state = "carried"
    <3>1. \A i \in Ids : Share(r, i) = Gain(i, x.id, x.amount) /\ Share(x, i) = 0
      BY <1>1, <1>2, <2>3, ShareIs
    <3> QED
      BY <1>4, <2>1, <3>1
  <2> QED
    BY <1>2, <2>2, <2>3
<1>6. ASSUME NEW i \in Ids, i = Opposite(x.id), Paying(i, {"paid"}) = {}
      PROVE  Told(i)' <= Cap
  <2> DEFINE j == Opposite(i)
             g == split'
  <2>1. j \in Ids /\ j = x.id /\ i # j
    BY <1>1, <1>6, OppositeType
  <2>2. g \in Payments /\ g[p] = r /\ \A q \in Splits \ {p} : g[q] = split[q]
    BY <1>2, <1>4 DEF LearningTypeOK
  <2>3. PayingIn(g, i, {"paid"}) = {}
    BY <1>2, <1>6, <2>1, <2>2 DEF PayingIn, Paying
  <2> HIDE DEF g
  <2>4. /\ AmountIn(g, i, {"paid"}) = 0
        /\ AmountIn(g, j, {"paid"}) \in Nat /\ AmountIn(g, i, {"late"}) \in Nat
        /\ AmountIn(g, j, {"late"}) \in Nat /\ AmountIn(g, j, Carried) \in Nat
        /\ AmountIn(g, j, {"late"}) <= AmountIn(g, j, Carried)
    BY <2>2, <2>3, AmountNone, AmountType, AmountGrows DEF Carried
  <2>5. \A S : Amount(i, S)' = AmountIn(g, i, S) /\ Amount(j, S)' = AmountIn(g, j, S)
    BY AmountIsIn DEF g
  <2>6. Holds(i)' = Holds(i) /\ Holds(j)' = Holds(j)
    BY <1>1 DEF Holds
  <2>7. Holds(i) \in 0 .. Cap /\ Holds(j) = Cap - Holds(i)
    BY HoldsType
  <2>8. Amount(j, Carried)' <= Holds(j)'
    BY <1>4, <2>1 DEF Afforded
  <2>9. Told(i)' = Holds(i)' + Amount(i, {"paid"})' - Amount(j, {"paid"})'
                             - Amount(i, {"late"})' + Amount(j, {"late"})'
    BY DEF Told
  <2> HIDE DEF j
  <2> QED
    BY <2>4, <2>5, <2>6, <2>7, <2>8, <2>9
<1>7. HistoryGrows /\ behind' \in [Saves -> SUBSET Ids] /\ doubted' \subseteq Ids
  BY <1>1 DEF SuccessLearned, LearnFromSuccess, HistoryGrows, LearningTypeOK
<1> QED
  BY <1>1, <1>4, <1>5, <1>6, <1>7 DEF LearningTypeOK, Payments

\* Nothing moves with a failure, or with a payment nobody learns of.
FailureLearned(p) == split[p] # Absent /\ LearnFromFailure(p) /\ Ends(p)

Unlearned(p) ==
  /\ split[p] # Absent /\ split[p].state = "carried" /\ Becomes(p, "lost")
  /\ UNCHANGED <<channelVars, balance, shared, behind, doubted>>

LEMMA FailureMoves ==
  ASSUME LearningTypeOK, Afforded, NEW p \in Splits, FailureLearned(p)
  PROVE  /\ LearningTypeOK' /\ Afforded' /\ HistoryGrows
         /\ \A i \in Ids : Told(i)' = Told(i)
<1> DEFINE x == split[p]
<1>1. /\ x \in Htlcs /\ x.id \in Ids /\ x # Absent /\ x.state \in {"failed", "refused", "unusable"}
      /\ Opposite(x.id) \in Ids
      /\ balance' = balance /\ behind' = behind
      /\ split' = [split EXCEPT ![p] = Absent] /\ shared' \subseteq Splits
      /\ doubted \subseteq doubted'
  BY SplitFields, OppositeType DEF FailureLearned, LearnFromFailure, Ends, LearningTypeOK
<1>2. doubted' \subseteq Ids
  BY <1>1 DEF FailureLearned, LearnFromFailure, LearningTypeOK
<1>3. \A i \in Ids : Weight(Absent, i, Carried) <= Weight(x, i, Carried)
  BY <1>1, HtlcFields DEF Weight
<1>4. /\ split' \in Payments /\ Afforded'
      /\ \A i \in Ids : Told(i)' = Told(i) + Share(Absent, i) - Share(x, i)
  BY <1>1, <1>3, NothingMoves
<1>5. \A i \in Ids : Share(x, i) = 0 /\ Share(Absent, i) = 0 /\ Told(i) \in Int
  BY <1>1, ShareIs, NoShare, ToldType
<1> QED
  BY <1>1, <1>2, <1>4, <1>5 DEF LearningTypeOK, Payments, HistoryGrows

LEMMA UnlearnedMoves ==
  ASSUME LearningTypeOK, Afforded, NEW p \in Splits, Unlearned(p)
  PROVE  /\ LearningTypeOK' /\ Afforded' /\ HistoryGrows
         /\ \A i \in Ids : Told(i)' = Told(i)
<1> DEFINE x == split[p]
           r == [x EXCEPT !.state = "lost"]
<1>1. /\ x \in Htlcs /\ x # Absent /\ x.state = "carried"
      /\ r \in Htlcs /\ r.id = x.id /\ r.amount = x.amount /\ r.state = "lost"
      /\ split' = [split EXCEPT ![p] = r] /\ balance' = balance
      /\ shared' = shared /\ behind' = behind /\ doubted' = doubted
  BY SplitFields DEF Unlearned, Becomes, Carried
<1> HIDE DEF r
<1>2. \A i \in Ids : Weight(r, i, Carried) <= Weight(x, i, Carried)
  BY <1>1, HtlcFields DEF Weight, Carried
<1>3. /\ split' \in Payments /\ Afforded'
      /\ \A i \in Ids : Told(i)' = Told(i) + Share(r, i) - Share(x, i)
  BY <1>1, <1>2, NothingMoves
<1>4. \A i \in Ids : Share(x, i) = 0 /\ Share(r, i) = 0 /\ Told(i) \in Int
  BY <1>1, ShareIs, ToldType
<1> QED
  BY <1>1, <1>3, <1>4 DEF LearningTypeOK, Payments, HistoryGrows

LEMMA LearningSteps ==
  ASSUME NEW p \in Splits, Learns(p) \/ TimesOut(p)
  PROVE  SuccessLearned(p) \/ FailureLearned(p) \/ Unlearned(p)
BY DEF Learns, TimesOut, SuccessLearned, FailureLearned, Unlearned

\* The process is gone: what a direction was told of only grows if another
\* success over its channel was not learned.
LEMMA StopMoves ==
  ASSUME LearningTypeOK, Afforded, SplitsStop
  PROVE  /\ LearningTypeOK' /\ Afforded'
         /\ doubted \cup behind["saved"] \subseteq doubted'
         /\ \A w \in Saves : behind'[w] = {}
         /\ \A i \in Ids : Told(i)' <= Told(i) \/ i \in doubted'
<1> DEFINE g == split'
<1>1. split \in Payments /\ balance' = balance /\ "saved" \in Saves
  BY DEF LearningTypeOK, Payments, SplitsStop, Saves
<1>2. ASSUME NEW p \in Splits
      PROVE  /\ g[p] \in Htlcs \cup {Absent}
             /\ split[p] = Absent => g[p] = Absent
             /\ split[p] # Absent =>
                  \/ /\ split[p].state = "carried"
                     /\ g[p] # Absent /\ g[p].id = split[p].id
                     /\ g[p].amount = split[p].amount /\ g[p].state = "lost"
                  \/ split[p].state \in {"late", "lost"} /\ g[p] = split[p]
                  \/ split[p].state \notin Carried /\ g[p] = Absent
  <2>1. g[p] = IF split[p] = Absent THEN Absent
               ELSE CASE split[p].state = "carried" -> [split[p] EXCEPT !.state = "lost"]
                      [] split[p].state \in {"late", "lost"} -> split[p]
                      [] OTHER -> Absent
    BY DEF SplitsStop
  <2>2. CASE split[p] # Absent /\ split[p].state = "carried"
    <3> DEFINE r == [split[p] EXCEPT !.state = "lost"]
    <3>1. r \in Htlcs /\ r.id = split[p].id /\ r.amount = split[p].amount /\ r.state = "lost"
      BY <2>2, SplitFields DEF Carried
    <3>2. g[p] = r
      BY <2>1, <2>2
    <3> HIDE DEF r, g
    <3> QED
      BY <2>2, <3>1, <3>2, HtlcFields
  <2>3. CASE split[p] # Absent /\ split[p].state \in {"late", "lost"}
    BY <1>1, <2>1, <2>3 DEF Payments
  <2>4. CASE split[p] = Absent \/ split[p].state \notin Carried
    BY <2>1, <2>4 DEF Carried
  <2> QED
    BY <2>2, <2>3, <2>4 DEF Carried
<1>3. g \in Payments
  <2>1. g = [p \in Splits |-> g[p]]
    BY DEF SplitsStop
  <2> HIDE DEF g
  <2> QED
    BY <1>2, <2>1 DEF Payments
<1> HIDE DEF g
<1>4. ASSUME NEW i \in Ids
      PROVE  /\ PayingIn(g, i, Carried) = PayingIn(split, i, Carried)
             /\ PayingIn(g, i, {"late"}) = PayingIn(split, i, {"late"})
             /\ PayingIn(g, i, {"paid"}) = {}
             /\ \A p \in PayingIn(split, i, Carried) : g[p].amount = split[p].amount
  BY <1>2 DEF PayingIn, Carried
<1>5. ASSUME NEW i \in Ids
      PROVE  /\ AmountIn(g, i, Carried) = AmountIn(split, i, Carried)
             /\ AmountIn(g, i, {"late"}) = AmountIn(split, i, {"late"})
             /\ AmountIn(g, i, {"paid"}) = 0
             /\ Paying(i, {"paid"}) = {} => AmountIn(split, i, {"paid"}) = 0
             /\ AmountIn(split, i, {"late"}) \in Nat /\ AmountIn(split, i, {"paid"}) \in Nat
             /\ Amount(i, {"late"})' = AmountIn(g, i, {"late"})
             /\ Amount(i, {"paid"})' = AmountIn(g, i, {"paid"})
             /\ Amount(i, Carried)' = AmountIn(g, i, Carried)
  <2>1. PayingIn(g, i, {"late"}) \subseteq PayingIn(g, i, Carried)
    BY DEF PayingIn, Carried
  <2>2. /\ AmountIn(g, i, Carried) = AmountIn(split, i, Carried)
        /\ AmountIn(g, i, {"late"}) = AmountIn(split, i, {"late"})
    BY <1>1, <1>3, <1>4, <2>1, AmountSame
  <2>3. AmountIn(g, i, {"paid"}) = 0
    BY <1>4, AmountNone
  <2>4. Paying(i, {"paid"}) = {} => AmountIn(split, i, {"paid"}) = 0
    BY AmountNone DEF Paying, PayingIn
  <2>5. AmountIn(split, i, {"late"}) \in Nat /\ AmountIn(split, i, {"paid"}) \in Nat
    BY <1>1, AmountType
  <2>6. /\ Amount(i, {"late"})' = AmountIn(g, i, {"late"})
        /\ Amount(i, {"paid"})' = AmountIn(g, i, {"paid"})
        /\ Amount(i, Carried)' = AmountIn(g, i, Carried)
    BY AmountIsIn DEF g
  <2> QED
    BY <2>2, <2>3, <2>4, <2>5, <2>6
<1>6. \A i \in Ids : Holds(i)' = Holds(i) /\ Holds(i) \in 0 .. Cap
  BY <1>1, HoldsType DEF Holds
<1>7. Afforded'
  BY <1>5, <1>6, AmountIsIn DEF Afforded
<1>8. ASSUME NEW i \in Ids
      PROVE  Told(i)' <= Told(i) \/ i \in doubted'
  <2> DEFINE j == Opposite(i)
  <2>1. j \in Ids
    BY OppositeType
  <2>2. Paying(j, {"paid"}) # {} => i \in doubted'
    BY DEF SplitsStop
  <2>3. /\ Told(i) = Holds(i) + AmountIn(split, i, {"paid"}) - AmountIn(split, j, {"paid"})
                              - AmountIn(split, i, {"late"}) + AmountIn(split, j, {"late"})
        /\ Told(i)' = Holds(i)' + Amount(i, {"paid"})' - Amount(j, {"paid"})'
                                - Amount(i, {"late"})' + Amount(j, {"late"})'
    BY AmountIsIn DEF Told
  <2> HIDE DEF j
  <2> QED
    BY <1>5, <1>6, <2>1, <2>2, <2>3
<1>9. /\ doubted \cup behind["saved"] \subseteq doubted' /\ doubted' \subseteq Ids
      /\ \A w \in Saves : behind'[w] = {}
      /\ behind' \in [Saves -> SUBSET Ids] /\ shared' \subseteq Splits
  BY <1>1 DEF SplitsStop, LearningTypeOK
<1> QED
  BY <1>1, <1>3, <1>7, <1>8, <1>9 DEF LearningTypeOK, Payments, g
-----------------------------------------------------------------------------
\* While no other payment crosses the channel of one that failed, what it
\* showed of the channel stays true.
AloneInv ==
  \A p \in Splits \ shared : split[p] # Absent =>
    /\ Crossed(split[p].id[1]) \subseteq {p}
    /\ split[p].state = "refused" => Holds(split[p].id) < split[p].amount
    /\ split[p].state = "failed" => Holds(split[p].id) >= split[p].amount

LEMMA AloneTold ==
  ASSUME LearningTypeOK, AloneInv, NEW p \in Splits \ shared, split[p] # Absent,
         split[p].state \in {"refused", "failed"}
  PROVE  \A i \in {split[p].id, Opposite(split[p].id)} : Told(i) = Holds(i)
<1>1. split[p] \in Htlcs /\ split[p].id \in Ids /\ Opposite(split[p].id) \in Ids
  BY SplitFields, OppositeType
<1>2. Crossed(split[p].id[1]) \subseteq {p}
  BY DEF AloneInv
<1>3. ASSUME NEW i \in Ids, i[1] = split[p].id[1], NEW s \in {"paid", "late"}
      PROVE  Amount(i, {s}) = 0
  <2>1. Paying(i, {s}) \subseteq Crossed(i[1]) \ {p}
    BY DEF Paying, Crossed, Of, Failed
  <2>2. PayingIn(split, i, {s}) = {}
    BY <1>2, <1>3, <2>1, AmountIsIn
  <2>3. AmountIn(split, i, {s}) = 0
    BY <2>2, AmountNone
  <2> QED
    BY <2>3 DEF Amount, AmountIn, AmountOf, Paying, PayingIn
<1>4. ASSUME NEW i \in {split[p].id, Opposite(split[p].id)}
      PROVE  Told(i) = Holds(i)
  <2>1. i \in Ids /\ Opposite(i) \in Ids /\ i[1] = split[p].id[1]
        /\ Opposite(i)[1] = split[p].id[1]
    BY <1>1, OppositeType DEF Opposite
  <2> QED
    BY <1>3, <2>1, HoldsType DEF Told
<1> QED
  BY <1>4

\* Steps that take splits from the channels.
LEMMA AloneStays ==
  ASSUME AloneInv, balance' = balance,
         \A p \in Splits : split'[p] # Absent =>
           /\ split[p] # Absent /\ split'[p].id = split[p].id
           /\ split'[p].amount = split[p].amount
           /\ \/ split'[p].state = split[p].state
              \/ split'[p].state \notin Failed \cup {"failed"} /\ split[p].state \notin Failed
           /\ p \in shared => p \in shared'
  PROVE  AloneInv'
<1>1. ASSUME NEW p \in Splits \ shared', split'[p] # Absent
      PROVE  /\ Crossed(split[p].id[1])' \subseteq {p}
             /\ (split[p].state = "refused" => Holds(split[p].id) < split[p].amount)'
             /\ (split[p].state = "failed" => Holds(split[p].id) >= split[p].amount)'
  <2>1. /\ p \notin shared /\ split[p] # Absent /\ split'[p].id = split[p].id
        /\ split'[p].amount = split[p].amount
    BY <1>1
  <2>2. Crossed(split[p].id[1]) \subseteq {p}
    BY <2>1 DEF AloneInv
  <2>3. Crossed(split[p].id[1])' \subseteq {p}
    BY <2>1, <2>2 DEF Crossed, Of
  <2>4. (split[p].state = "refused" => Holds(split[p].id) < split[p].amount)'
    BY <1>1, <2>1 DEF AloneInv, Failed, Holds
  <2>5. (split[p].state = "failed" => Holds(split[p].id) >= split[p].amount)'
    BY <1>1, <2>1 DEF AloneInv, Failed, Holds
  <2> QED
    BY <2>3, <2>4, <2>5
<1> QED
  BY <1>1 DEF AloneInv

LEMMA AloneSendPay ==
  ASSUME LearningTypeOK, AloneInv, NEW p \in Splits, NEW id \in Ids, NEW a \in 1 .. Cap - 1,
         SendPay(p, id, a)
  PROVE  AloneInv'
<1>1. PICK state \in {"carried", "refused", "unusable"} :
        /\ Reaches(p, id, a, state)
        /\ state = "refused" => Spendable(id) < a
  BY DEF SendPay
<1> DEFINE r == [id |-> id, amount |-> a, state |-> state]
<1>2. /\ split[p] = Absent /\ split'[p] = r /\ balance' = balance
      /\ \A q \in Splits \ {p} : split'[q] = split[q]
      /\ shared \subseteq shared'
      /\ Crossed(id[1]) # {} => p \in shared'
      /\ state \notin Failed => Of(id[1]) \subseteq shared'
  BY <1>1 DEF Reaches, LearningTypeOK
<1>3. r.id = id /\ r.amount = a /\ r.state = state
  OBVIOUS
<1> HIDE DEF r
<1>4. ASSUME NEW q \in Splits \ shared', split'[q] # Absent, q # p
      PROVE  /\ Crossed(split[q].id[1])' \subseteq {q}
             /\ (split[q].state = "refused" => Holds(split[q].id) < split[q].amount)'
             /\ (split[q].state = "failed" => Holds(split[q].id) >= split[q].amount)'
  <2>1. split'[q] = split[q] /\ split[q] # Absent /\ q \notin shared
    BY <1>2, <1>4
  <2>2. Crossed(split[q].id[1]) \subseteq {q}
    BY <2>1 DEF AloneInv
  <2>3. state \in Failed \/ split[q].id[1] # id[1]
    BY <1>2, <1>4, <2>1 DEF Of
  <2>4. Crossed(split[q].id[1])' \subseteq {q}
    BY <1>2, <1>3, <2>1, <2>2, <2>3 DEF Crossed, Of
  <2>5. (split[q].state = "refused" => Holds(split[q].id) < split[q].amount)'
    BY <1>2, <2>1 DEF AloneInv, Holds
  <2>6. (split[q].state = "failed" => Holds(split[q].id) >= split[q].amount)'
    BY <1>2, <2>1 DEF AloneInv, Holds
  <2> QED
    BY <2>4, <2>5, <2>6
<1>5. ASSUME p \notin shared'
      PROVE  /\ Crossed(split[p].id[1])' \subseteq {p}
             /\ (split[p].state = "refused" => Holds(split[p].id) < split[p].amount)'
             /\ (split[p].state = "failed" => Holds(split[p].id) >= split[p].amount)'
  <2>1. Crossed(id[1]) = {}
    BY <1>2, <1>5
  <2>2. Crossed(split[p].id[1])' \subseteq {p}
    BY <1>2, <1>3, <2>1 DEF Crossed, Of
  <2>3. state = "refused" => Holds(id) < a
    <3> SUFFICES ASSUME state = "refused"
                 PROVE  Holds(id) < a
      OBVIOUS
    <3>1. PayingIn(split, id, Carried) = {}
      BY <2>1 DEF PayingIn, Crossed, Of, Carried, Failed
    <3>2. AmountIn(split, id, Carried) = 0
      BY <3>1, AmountNone
    <3>3. Amount(id, Carried) = 0
      BY <3>2 DEF Amount, AmountIn, AmountOf, Paying, PayingIn
    <3> QED
      BY <1>1, <3>3, HoldsType DEF Spendable
  <2>4. (split[p].state = "refused" => Holds(split[p].id) < split[p].amount)'
    BY <1>2, <1>3, <2>3 DEF Holds
  <2>5. (split[p].state = "failed" => Holds(split[p].id) >= split[p].amount)'
    BY <1>1, <1>2, <1>3
  <2> QED
    BY <2>2, <2>4, <2>5
<1> QED
  BY <1>4, <1>5 DEF AloneInv

\* Those that cross the channel of one that settles are shared.
LEMMA AloneElsewhere ==
  ASSUME LearningTypeOK, AloneInv, NEW p \in Splits, split[p] # Absent,
         split[p].state \in Carried,
         NEW r, split' = [split EXCEPT ![p] = r],
         r = Absent \/ r.id = split[p].id,
         \A s \in Scids \ {split[p].id[1]} : balance'[s] = balance[s],
         shared \ {p} \subseteq shared',
         NEW q \in Splits \ shared', q # p, split'[q] # Absent
  PROVE  /\ Crossed(split[q].id[1])' \subseteq {q}
         /\ (split[q].state = "refused" => Holds(split[q].id) < split[q].amount)'
         /\ (split[q].state = "failed" => Holds(split[q].id) >= split[q].amount)'
<1>1. split'[q] = split[q] /\ split[q] # Absent /\ q \notin shared
  BY DEF LearningTypeOK
<1>2. Crossed(split[q].id[1]) \subseteq {q}
  BY <1>1 DEF AloneInv
<1>3. split[q].id[1] # split[p].id[1]
  BY <1>2 DEF Crossed, Of, Carried, Failed
<1>4. split[q].id \in Ids /\ split[q].id[1] \in Scids
  BY <1>1, SplitFields DEF Ids
<1>5. \A t \in Splits \ {p} : split'[t] = split[t]
  BY DEF LearningTypeOK
<1>6. split'[p] = r
  BY DEF LearningTypeOK
<1>7. Crossed(split[q].id[1])' \subseteq {q}
  BY <1>1, <1>2, <1>3, <1>5, <1>6 DEF Crossed, Of
<1>8. balance'[split[q].id[1]] = balance[split[q].id[1]]
  BY <1>3, <1>4
<1>9. (split[q].state = "refused" => Holds(split[q].id) < split[q].amount)'
  BY <1>1, <1>8 DEF AloneInv, Holds
<1>10. (split[q].state = "failed" => Holds(split[q].id) >= split[q].amount)'
  BY <1>1, <1>8 DEF AloneInv, Holds
<1> QED
  BY <1>7, <1>9, <1>10

LEMMA MovedElsewhere ==
  ASSUME LearningTypeOK, NEW id \in Ids, NEW a, Moved(id, a)
  PROVE  \A s \in Scids \ {id[1]} : balance'[s] = balance[s]
BY DEF Moved, LearningTypeOK

LEMMA AloneSettle ==
  ASSUME LearningTypeOK, Afforded, AloneInv, NEW p \in Splits, Settle(p)
  PROVE  AloneInv'
<1>1. /\ split[p] \in Htlcs /\ split[p].id \in Ids /\ split[p] # Absent
      /\ split[p].state \in Carried /\ split[p].state = "carried" /\ shared' = shared
  BY SplitFields DEF Settle, Carried
<1>2. PICK state \in {"paid", "failed"} :
        /\ Becomes(p, state)
        /\ \A s \in Scids \ {split[p].id[1]} : balance'[s] = balance[s]
        /\ state = "failed" => balance' = balance
  BY <1>1, MovedElsewhere DEF Settle
<1> DEFINE r == [split[p] EXCEPT !.state = state]
<1>3. /\ r.id = split[p].id /\ r.amount = split[p].amount /\ r.state = state
      /\ split' = [split EXCEPT ![p] = r] /\ split'[p] = r
  BY <1>1, <1>2, SplitFields DEF Becomes, Over, LearningTypeOK
<1> HIDE DEF r
<1>4. ASSUME NEW q \in Splits \ shared', q # p, split'[q] # Absent
      PROVE  /\ Crossed(split[q].id[1])' \subseteq {q}
             /\ (split[q].state = "refused" => Holds(split[q].id) < split[q].amount)'
             /\ (split[q].state = "failed" => Holds(split[q].id) >= split[q].amount)'
  BY <1>1, <1>2, <1>3, <1>4, AloneElsewhere
<1>5. ASSUME p \notin shared'
      PROVE  /\ Crossed(split[p].id[1])' \subseteq {p}
             /\ (split[p].state = "refused" => Holds(split[p].id) < split[p].amount)'
             /\ (split[p].state = "failed" => Holds(split[p].id) >= split[p].amount)'
  <2>1. Crossed(split[p].id[1]) \subseteq {p}
    BY <1>1, <1>5 DEF AloneInv
  <2>2. \A t \in Splits \ {p} : split'[t] = split[t]
    BY <1>3 DEF LearningTypeOK
  <2>3. Crossed(split[p].id[1])' \subseteq {p}
    BY <1>3, <2>1, <2>2 DEF Crossed, Of
  <2>4. split[p].amount <= Holds(split[p].id) /\ Holds(split[p].id) \in 0 .. Cap
        /\ split[p].amount \in 1 .. Cap - 1
    BY <1>1, CarriedIsHeld, SplitFields, HoldsType
  <2>5. (split[p].state = "failed" => Holds(split[p].id) >= split[p].amount)'
    BY <1>2, <1>3, <2>4 DEF Holds
  <2>6. (split[p].state = "refused" => Holds(split[p].id) < split[p].amount)'
    BY <1>2, <1>3
  <2> QED
    BY <2>3, <2>5, <2>6
<1> QED
  BY <1>4, <1>5 DEF AloneInv

LEMMA AloneSettleAlone ==
  ASSUME LearningTypeOK, AloneInv, NEW p \in Splits, SettleAlone(p)
  PROVE  AloneInv'
<1>1. /\ split[p].id \in Ids /\ split[p] # Absent /\ split[p].state \in Carried
      /\ split' = [split EXCEPT ![p] = Absent] /\ split'[p] = Absent
      /\ shared \ {p} \subseteq shared'
  BY SplitFields DEF SettleAlone, Ends, Carried, LearningTypeOK
<1>2. \A s \in Scids \ {split[p].id[1]} : balance'[s] = balance[s]
  BY <1>1, MovedElsewhere DEF SettleAlone
<1>3. ASSUME NEW q \in Splits \ shared', split'[q] # Absent
      PROVE  /\ Crossed(split[q].id[1])' \subseteq {q}
             /\ (split[q].state = "refused" => Holds(split[q].id) < split[q].amount)'
             /\ (split[q].state = "failed" => Holds(split[q].id) >= split[q].amount)'
  BY <1>1, <1>2, <1>3, AloneElsewhere
<1> QED
  BY <1>3 DEF AloneInv

LEMMA AloneLearns ==
  ASSUME LearningTypeOK, AloneInv, NEW p \in Splits, Learns(p) \/ TimesOut(p)
  PROVE  AloneInv'
<1>1. split[p] # Absent /\ balance' = balance /\ split \in [Splits -> Htlcs \cup {Absent}]
  BY DEF Learns, TimesOut, LearnFromSuccess, LearnFromFailure, LearningTypeOK
<1>2. CASE Learns(p)
  BY <1>1, <1>2, AloneStays DEF Learns, Ends
<1>3. CASE TimesOut(p)
  <2>1. PICK state \in {"late", "lost"} :
          split' = [split EXCEPT ![p] = [split[p] EXCEPT !.state = state]]
    BY <1>3 DEF TimesOut, Becomes
  <2> DEFINE r == [split[p] EXCEPT !.state = state]
  <2>2. /\ r.id = split[p].id /\ r.amount = split[p].amount /\ r.state = state
        /\ split'[p] = r /\ \A q \in Splits \ {p} : split'[q] = split[q]
        /\ shared' = shared /\ split[p].state = "carried"
    BY <1>1, <1>3, <2>1, SplitFields DEF TimesOut, Carried
  <2> HIDE DEF r
  <2> QED
    BY <1>1, <2>2, AloneStays DEF Failed
<1> QED
  BY <1>2, <1>3

LEMMA AloneStop ==
  ASSUME LearningTypeOK, AloneInv, SplitsStop
  PROVE  AloneInv'
<1>1. ASSUME NEW p \in Splits, split'[p] # Absent
      PROVE  /\ split[p] # Absent /\ split'[p].id = split[p].id
             /\ split'[p].amount = split[p].amount
             /\ split'[p].state \in Carried /\ split[p].state \in Carried
             /\ p \in shared => p \in shared'
  <2>1. /\ split[p] # Absent /\ (p \in shared => p \in shared')
        /\ \/ /\ split[p].state = "carried"
              /\ split'[p] = [split[p] EXCEPT !.state = "lost"]
           \/ split[p].state \in {"late", "lost"} /\ split'[p] = split[p]
    BY <1>1 DEF SplitsStop
  <2>2. CASE /\ split[p].state = "carried"
             /\ split'[p] = [split[p] EXCEPT !.state = "lost"]
    <3> DEFINE r == [split[p] EXCEPT !.state = "lost"]
    <3>1. r.id = split[p].id /\ r.amount = split[p].amount /\ r.state = "lost"
      BY <2>1, SplitFields DEF Carried
    <3> HIDE DEF r
    <3> QED
      BY <2>1, <2>2, <3>1 DEF Carried, r
  <2>3. CASE split[p].state \in {"late", "lost"} /\ split'[p] = split[p]
    BY <2>1, <2>3 DEF Carried
  <2> QED
    BY <2>1, <2>2, <2>3
<1>2. balance' = balance
  BY DEF SplitsStop
<1> QED
  BY <1>1, <1>2, AloneStays DEF Carried, Failed
-----------------------------------------------------------------------------
(***************************************************************************)
(* What is learned, and the bounds.                                        *)
(***************************************************************************)
\* A direction that was told to hold more came after what was saved, and the
\* graph learned of it, unless nothing older can come back.
Noted(i) ==
  /\ \A w \in Saves : i \in behind'[w]
  /\ \/ pendingBeliefs = NoFile
     \/ Channels'[i] # Absent /\ Channels'[i].Timestamp = now

MovesAreNoted == \A i \in Ids \ doubted' : Told(i)' <= Told(i) \/ Noted(i)

\* What both directions of a channel learn keeps the bounds, if it keeps theirs.
Keeps(id, x) ==
  \/ id \in doubted'
  \/ /\ Channels[id].Upper => Told(id) <= Channels[id].Liquidity
     /\ x.Upper
     => Told(id)' <= x.Liquidity

LEMMA LearnKeeps ==
  ASSUME ChannelsTypeOK, GraphDated, NEW id \in Ids, NEW here, NEW there,
         Channels[id] # Absent => Moves(Channels[id], here) /\ here # Absent /\ Keeps(id, here),
         Other(id) # Absent =>
           Moves(Other(id), there) /\ there # Absent /\ Keeps(Opposite(id), there),
         Learn(id, here, there),
         BoundHolds, doubted \subseteq doubted',
         \A i \in Ids \ {id, Opposite(id)} : Told(i)' = Told(i)
  PROVE  BoundHolds'
<1> SUFFICES ASSUME NEW i \in InGraph' \ doubted', Channels'[i].Upper
             PROVE  Told(i)' <= Channels'[i].Liquidity
  BY DEF BoundHolds
<1>1. i \in Ids /\ i \notin doubted /\ Channels'[i] # Absent /\ Opposite(id) \in Ids
  BY OppositeType DEF InGraph
<1>2. /\ Channels'[id] = IF Channels[id] = Absent THEN Absent ELSE here
      /\ Channels'[Opposite(id)] = IF Other(id) = Absent THEN Absent ELSE there
      /\ \A j \in Ids \ {id, Opposite(id)} : Channels'[j] = Channels[j]
  BY LearnMoves
<1>3. Channels[i] # Absent /\ Channels[i].Upper => Told(i) <= Channels[i].Liquidity
  BY <1>1 DEF BoundHolds, InGraph
<1>4. CASE i = id
  BY <1>1, <1>2, <1>3, <1>4 DEF Keeps
<1>5. CASE i = Opposite(id)
  <2>1. /\ Channels'[i] = there /\ Channels[i] # Absent /\ Keeps(i, there)
        /\ Channels'[i].Upper
    BY <1>1, <1>2, <1>5 DEF Other
  <2> QED
    BY <1>3, <2>1 DEF Keeps
<1>6. CASE i \notin {id, Opposite(id)}
  BY <1>1, <1>2, <1>3, <1>6
<1> QED
  BY <1>4, <1>5, <1>6

LEMMA SuccessTeaches ==
  ASSUME ChannelsTypeOK, GraphDated, LearningTypeOK, Afforded, NEW p \in Splits, SuccessLearned(p)
  PROVE  /\ IsGraph' /\ AllMove /\ AllStay
         /\ BoundHolds => BoundHolds'
         /\ MovesAreNoted
<1>1. PICK id \in Ids, a \in 1 .. Cap - 1 :
        /\ split[p].id = id /\ split[p].amount = a
        /\ LearnPayment(id, a)
        /\ behind' = [w \in Saves |-> behind[w] \cup {Opposite(id)}]
        /\ \/ Paying(Opposite(id), {"paid"}) # {}
           \/ pendingBeliefs # NoFile /\ Opposite(id) \notin InGraph
           => Opposite(id) \in doubted'
        /\ doubted \subseteq doubted'
  BY SplitFields DEF SuccessLearned, LearnFromSuccess
<1> DEFINE other == Opposite(id)
           e == Channels[id]
           o == Channels[other]
           here == Spent(e, a)
           there == Received(o, a)
<1>2. /\ other \in Ids /\ other # id /\ now \in Nat /\ Cap \in Nat
      /\ a \in 1 .. Cap /\ a \in 0 .. Cap
      /\ Told(id) \in Int /\ Told(other) \in Int
  BY OppositeType, ToldType DEF ChannelsTypeOK
<1>3. /\ e # Absent => e \in Entries /\ e.Timestamp <= now /\ e.Liquidity \in 0 .. Cap
      /\ o # Absent => o \in Entries /\ o.Timestamp <= now /\ o.Liquidity \in 0 .. Cap
  BY <1>2, EntryOf, EntryFields DEF GraphDated, InGraph
<1>4. /\ Told(id)' = Told(id) - a /\ Told(other)' = Told(other) + a
      /\ \A i \in Ids \ {id, other} : Told(i)' = Told(i)
      /\ Paying(other, {"paid"}) = {} => Told(other)' <= Cap
  <2>1. /\ \A i \in Ids : Told(i)' = Told(i) + Gain(i, id, a)
        /\ \A i \in Ids : i = other /\ Paying(i, {"paid"}) = {} => Told(i)' <= Cap
    BY <1>1, SuccessMoves
  <2>2. \A i \in Ids : Told(i) \in Int
    BY ToldType
  <2> HIDE DEF e, o, here, there
  <2>3. /\ Gain(id, id, a) = -a /\ Gain(other, id, a) = a
        /\ \A i \in Ids \ {id, other} : Gain(i, id, a) = 0
    BY <1>2 DEF Gain
  <2> QED
    BY <1>2, <2>1, <2>2, <2>3
<1>5. Learn(id, here, there)
  BY <1>1 DEF LearnPayment, Other
<1>6. e # Absent =>
        /\ Moves(e, here) /\ here # Absent /\ here.Timestamp = now
        /\ here.Upper => e.Upper /\ e.Liquidity >= a /\ here.Liquidity >= e.Liquidity - a
  <2> HIDE DEF e
  <2> QED
    BY <1>2, <1>3, SpentEntry
<1>7. o # Absent =>
        /\ Moves(o, there) /\ there # Absent /\ there.Timestamp = now
        /\ there.Upper => o.Upper /\ there.Liquidity \in {o.Liquidity + a, Cap}
  <2> HIDE DEF o
  <2> QED
    BY <1>2, <1>3, ReceivedEntry
<1> HIDE DEF here, there
<1>8. /\ IsGraph' /\ AllMove /\ AllStay
      /\ Channels'[other] = IF o = Absent THEN Absent ELSE there
  BY <1>5, <1>6, <1>7, LearnMoves DEF Other
<1>9. e # Absent => Keeps(id, here)
  <2>1. e # Absent => here.Liquidity \in Int
    BY <1>6 DEF Moves, Entries
  <2> QED
    BY <1>2, <1>3, <1>4, <1>6, <2>1 DEF Keeps
<1>10. o # Absent => Keeps(other, there)
  <2>1. other \in doubted' \/ Told(other)' <= Cap
    BY <1>1, <1>4
  <2> QED
    BY <1>2, <1>3, <1>4, <1>7, <2>1 DEF Keeps
<1>11. BoundHolds => BoundHolds'
  BY <1>1, <1>4, <1>5, <1>6, <1>7, <1>9, <1>10, LearnKeeps DEF Other
<1>12. ASSUME NEW i \in Ids \ doubted'
       PROVE  Told(i)' <= Told(i) \/ Noted(i)
  <2>1. CASE i # other
    <3>1. Told(i) \in Int
      BY ToldType
    <3> QED
      BY <1>2, <1>4, <2>1, <3>1
  <2>2. CASE i = other
    BY <1>1, <1>7, <1>8, <1>12, <2>2 DEF Noted, InGraph
  <2> QED
    BY <2>1, <2>2
<1> QED
  BY <1>8, <1>11, <1>12 DEF MovesAreNoted

LEMMA FailureTeaches ==
  ASSUME ChannelsTypeOK, GraphDated, LearningTypeOK, Afforded, AloneInv, NEW p \in Splits,
         FailureLearned(p)
  PROVE  /\ IsGraph' /\ AllMove /\ AllStay
         /\ BoundHolds => BoundHolds'
         /\ MovesAreNoted
<1>1. PICK id \in Ids, a \in 1 .. Cap - 1 : split[p].id = id /\ split[p].amount = a
  BY SplitFields DEF FailureLearned
<1> DEFINE other == Opposite(id)
           e == Channels[id]
           o == Channels[other]
<1>2. /\ other \in Ids /\ other # id /\ now \in Nat /\ Cap \in Nat
      /\ a \in 0 .. Cap /\ a - 1 \in 0 .. Cap /\ Cap - a \in 0 .. Cap
      /\ Told(id) \in Int /\ Told(other) \in Int
  BY OppositeType, ToldType DEF ChannelsTypeOK
<1>3. /\ e # Absent => e \in Entries /\ e.Timestamp <= now /\ e.Liquidity \in 0 .. Cap
      /\ o # Absent => o \in Entries /\ o.Timestamp <= now /\ o.Liquidity \in 0 .. Cap
  BY <1>2, EntryOf, EntryFields DEF GraphDated, InGraph
<1>4. /\ \A i \in Ids : Told(i)' = Told(i) /\ Told(i) \in Int
      /\ doubted \subseteq doubted' /\ split[p] # Absent
  BY FailureMoves, ToldType DEF HistoryGrows, FailureLearned
<1>5. MovesAreNoted
  BY <1>4 DEF MovesAreNoted
\* Of a split that shared its channel, nothing is promised; of another, the
\* channel holds what it did.
<1>6. /\ split[p].state = "failed" => other \in doubted' \/ Told(other) <= Cap - a
      /\ split[p].state = "refused" => id \in doubted' \/ Told(id) <= a - 1
  <2>1. CASE p \in shared
    BY <1>1, <2>1 DEF FailureLearned, LearnFromFailure
  <2>2. CASE p \notin shared /\ split[p].state \in {"failed", "refused"}
    <3>1. Told(id) = Holds(id) /\ Told(other) = Holds(other)
      BY <1>1, <1>4, <2>2, AloneTold
    <3>2. /\ split[p].state = "refused" => Holds(id) < a
          /\ split[p].state = "failed" => Holds(id) >= a
      BY <1>1, <1>4, <2>2 DEF AloneInv
    <3> QED
      BY <1>2, <3>1, <3>2, HoldsType
  <2> QED
    BY <2>1, <2>2
<1> HIDE DEF e, o
<1>7. CASE split[p].state = "failed" /\ LearnLowerBound(id, a)
  <2> DEFINE here == AtLeast(e, a)
             there == AtMost(o, Cap - a)
  <2>1. Learn(id, here, there)
    BY <1>7 DEF LearnLowerBound, Other, e, o
  <2>2. e # Absent =>
          /\ Moves(e, here) /\ here # Absent
          /\ (here.Upper => e.Upper /\ e.Liquidity = here.Liquidity)
    BY <1>2, <1>3, AtLeastEntry
  <2>3. o # Absent =>
          /\ Moves(o, there) /\ there # Absent
          /\ there.Upper =>
               there.Liquidity = Cap - a \/ (o.Upper /\ there.Liquidity = o.Liquidity)
    BY <1>2, <1>3, AtMostEntry
  <2> HIDE DEF here, there
  <2>4. e # Absent => Keeps(id, here)
    BY <1>2, <1>4, <2>2 DEF Keeps, e
  <2>5. o # Absent => Keeps(other, there)
    BY <1>2, <1>4, <1>6, <1>7, <2>3 DEF Keeps, o
  <2>6. IsGraph' /\ AllMove /\ AllStay
    BY <2>1, <2>2, <2>3, LearnMoves DEF Other, e, o
  <2>7. BoundHolds => BoundHolds'
    BY <1>4, <2>1, <2>2, <2>3, <2>4, <2>5, LearnKeeps DEF Other, e, o
  <2> QED
    BY <1>5, <2>6, <2>7
<1>8. CASE UNCHANGED channelVars
  <2>1. IsGraph' /\ AllMove /\ AllStay /\ Channels' = Channels
    BY <1>8, UnchangedMoves DEF channelVars
  <2> QED
    BY <1>4, <1>5, <2>1 DEF BoundHolds, InGraph
<1>9. CASE split[p].state = "refused" /\ LearnUpperBound(id, a)
  <2> DEFINE here == AtMost(e, a - 1)
             there == AtLeast(o, Cap - a)
  <2>1. Learn(id, here, there)
    BY <1>9 DEF LearnUpperBound, Other, e, o
  <2>2. e # Absent =>
          /\ Moves(e, here) /\ here # Absent
          /\ (here.Upper =>
                here.Liquidity = a - 1 \/ (e.Upper /\ here.Liquidity = e.Liquidity))
    BY <1>2, <1>3, AtMostEntry
  <2>3. o # Absent =>
          /\ Moves(o, there) /\ there # Absent
          /\ there.Upper => o.Upper /\ o.Liquidity = there.Liquidity
    BY <1>2, <1>3, AtLeastEntry
  <2> HIDE DEF here, there
  <2>4. e # Absent => Keeps(id, here)
    BY <1>2, <1>4, <1>6, <1>9, <2>2 DEF Keeps, e
  <2>5. o # Absent => Keeps(other, there)
    BY <1>2, <1>4, <2>3 DEF Keeps, o
  <2>6. IsGraph' /\ AllMove /\ AllStay
    BY <2>1, <2>2, <2>3, LearnMoves DEF Other, e, o
  <2>7. BoundHolds => BoundHolds'
    BY <1>4, <2>1, <2>2, <2>3, <2>4, <2>5, LearnKeeps DEF Other, e, o
  <2> QED
    BY <1>5, <2>6, <2>7
<1>10. CASE MarkUnusable(id)
  <2> DEFINE here == With(e, 0, FALSE, now)
  <2>1. Learn(id, here, o)
    BY <1>10 DEF MarkUnusable, With, Other, e, o
  <2>2. e # Absent =>
          /\ Moves(e, here) /\ here # Absent /\ Loosens(e, here)
    BY <1>3, UnusableEntry
  <2>3. o # Absent => Moves(o, o)
    BY <1>2, EntryOf DEF o
  <2> HIDE DEF here
  <2>4. e # Absent => Keeps(id, here)
    <3>1. e # Absent => here.Liquidity \in Int
      BY <2>2 DEF Moves, Entries
    <3> QED
      BY <1>3, <1>4, <2>2, <3>1 DEF Keeps, Loosens, e
  <2>5. o # Absent => Keeps(other, o)
    BY <1>2, <1>4 DEF Keeps, o
  <2>6. IsGraph' /\ AllMove /\ AllStay
    BY <2>1, <2>2, <2>3, LearnMoves DEF Other, e, o
  <2>7. BoundHolds => BoundHolds'
    BY <1>4, <2>1, <2>2, <2>3, <2>4, <2>5, LearnKeeps DEF Other, e, o
  <2> QED
    BY <1>5, <2>6, <2>7
<1> QED
  BY <1>1, <1>7, <1>8, <1>9, <1>10 DEF FailureLearned, LearnFromFailure

\* A step of a split that learns, or times out.
LEMMA SplitLearnsMoves ==
  ASSUME ChannelsTypeOK, GraphDated, LearningTypeOK, Afforded, AloneInv, NEW p \in Splits,
         Learns(p) \/ TimesOut(p)
  PROVE  /\ IsGraph' /\ AllMove /\ AllStay
         /\ LearningTypeOK' /\ Afforded' /\ AloneInv'
         /\ BoundHolds => BoundHolds'
         /\ MovesAreNoted /\ HistoryGrows
<1>1. AloneInv'
  BY AloneLearns
<1>2. CASE SuccessLearned(p)
  BY <1>1, <1>2, SuccessMoves, SuccessTeaches
<1>3. CASE FailureLearned(p)
  BY <1>1, <1>3, FailureMoves, FailureTeaches
<1>4. CASE Unlearned(p)
  <2>1. /\ LearningTypeOK' /\ Afforded' /\ HistoryGrows
        /\ \A i \in Ids : Told(i)' = Told(i) /\ Told(i) \in Int
    BY <1>4, UnlearnedMoves, ToldType
  <2>2. UNCHANGED channelVars /\ Channels' = Channels
    BY <1>4 DEF Unlearned, channelVars
  <2>3. IsGraph' /\ AllMove /\ AllStay
    BY <2>2, UnchangedMoves
  <2>4. (BoundHolds => BoundHolds') /\ MovesAreNoted
    BY <2>1, <2>2 DEF BoundHolds, MovesAreNoted, HistoryGrows, InGraph
  <2> QED
    BY <1>1, <2>1, <2>3, <2>4
<1> QED
  BY <1>2, <1>3, <1>4, LearningSteps
-----------------------------------------------------------------------------
(***************************************************************************)
(* What each step does to the graph.                                       *)
(***************************************************************************)
DatedFile(x) == x # NoFile => Dated(x)

\* Nothing is learned ahead of time, in the graph or in what is kept of it.
Timely ==
  /\ now # 0 /\ GraphDated
  /\ Dated(data) /\ DatedFile(pendingBeliefs) /\ DatedFile(saved)
  /\ \A f \in Files : DatedFile(files[f])

\* The types, with what a step needs to keep them: a balance stays in its range
\* because no channel carries more than it holds.
TypeInv == TypeOK /\ Timely /\ Afforded /\ AloneInv

LEMMA ApplyMoves ==
  ASSUME TypeInv, Apply
  PROVE  /\ IsGraph' /\ AllMove /\ AllStay
         /\ \A id \in Ids :
              \/ Channels'[id] = Channels[id]
              \/ /\ id \in InGraph /\ pendingBeliefs # NoFile
                 /\ id \in DOMAIN pendingBeliefs
                 /\ pendingBeliefs[id].Timestamp > Channels[id].Timestamp
                 /\ Channels'[id].Upper = pendingBeliefs[id].Upper
                 /\ Channels'[id].Liquidity = pendingBeliefs[id].Liquidity
<1>1. /\ ChannelsTypeOK /\ GraphDated
      /\ pendingBeliefs # NoFile => IsState(pendingBeliefs) /\ Dated(pendingBeliefs)
  BY DEF TypeInv, TypeOK, Timely, StoreTypeOK, IsFile, DatedFile
<1>2. CASE pendingBeliefs = NoFile
  <2>1. UNCHANGED channelVars
    BY <1>2 DEF Apply, ApplyPending
  <2> QED
    BY <1>1, <2>1, UnchangedMoves DEF channelVars
<1>3. CASE pendingBeliefs # NoFile
  <2>1. ApplyBeliefs(pendingBeliefs)
    BY <1>3 DEF Apply, ApplyPending
  <2> QED
    BY <1>1, <1>3, <2>1, ApplyBeliefsMoves
<1> QED
  BY <1>2, <1>3

LEMMA FileType ==
  ASSUME GossipTypeOK
  PROVE  /\ File \in Seq(Records) /\ Len(File) \in Nat
         /\ \A i \in 1 .. Len(File) :
              /\ File[i] \in Records /\ File[i].id \in Ids /\ File[i].policy \in Nat
              /\ File[i].completed \in BOOLEAN /\ File[i].deleted \in BOOLEAN
<1>1. File \in Seq(Records) /\ Len(File) \in Nat
  BY DEF GossipTypeOK, File
<1>2. \A i \in 1 .. Len(File) : File[i] \in Records
  BY <1>1
<1>3. \A r \in Records :
        /\ r.id \in Ids /\ r.policy \in Nat
        /\ r.completed \in BOOLEAN /\ r.deleted \in BOOLEAN
  BY DEF Records
<1> QED
  BY <1>1, <1>2, <1>3

LEMMA FollowMoves ==
  ASSUME TypeInv, Follow
  PROVE  IsGraph' /\ AllMove /\ AllLoosen /\ AllStay
<1>1. ChannelsTypeOK /\ GraphDated /\ GossipTypeOK
  BY DEF TypeInv, TypeOK, Timely
<1>2. CASE UNCHANGED channelVars
  BY <1>1, <1>2, UnchangedMoves
<1>3. CASE FollowRecord /\ ~UNCHANGED channelVars
  <2> DEFINE r == File[offset + 1]
  <2>1. ApplyChannelUpdate(r.id, r.policy)
    BY <1>3 DEF FollowRecord
  <2>2. offset + 1 \in 1 .. Len(File)
    BY <1>1, <1>3, FileType DEF FollowRecord, HasRecord, GossipTypeOK
  <2>3. r.id \in Ids /\ r.policy \in Nat
    BY <1>1, <2>2, FileType
  <2> QED
    BY <1>1, <2>1, <2>3, ApplyChannelUpdateMoves
<1> QED
  BY <1>2, <1>3 DEF Follow, OpenStore, Reopen

LEMMA GraphStepsMove ==
  ASSUME TypeInv, GraphSteps
  PROVE  now' = now /\ IsGraph' /\ AllMove
<1>1. /\ ChannelsTypeOK /\ GraphDated /\ TypeOK
      /\ IsList(list) /\ (reread # NoFile => IsList(reread))
  BY DEF TypeInv, TypeOK, Timely
<1>2. CASE Sync
  BY <1>1, <1>2, SyncChannelsMoves DEF Sync
<1>3. CASE Prune
  BY <1>1, <1>3, PruneChannelsMoves DEF Prune
<1>4. CASE Apply
  BY <1>4, ApplyMoves DEF Apply
<1>5. CASE FollowGossip
  BY <1>5, FollowMoves DEF FollowGossip
<1>6. CASE RefreshChannel
  BY <1>1, <1>6, RefreshChannelsMoves DEF RefreshChannel
<1>7. CASE SplitLearns
  BY <1>1, <1>7, SplitLearnsMoves DEF SplitLearns, TypeInv, TypeOK
<1>8. CASE Fade
  BY <1>1, <1>8, DecayMoves, RefreshLiquidityMoves DEF Fade
<1> QED
  BY <1>2, <1>3, <1>4, <1>5, <1>6, <1>7, <1>8 DEF GraphSteps

LEMMA OtherStepsKeep ==
  ASSUME RefreshWaits \/ MoneySteps \/ StoreSteps \/ WorldSteps \/ UNCHANGED vars
  PROVE  UNCHANGED channelVars /\ now' \in {now, now + 1}
<1>1. CASE RefreshWaits
  BY <1>1 DEF RefreshWaits, StartRefresh, StartPartialRefresh, RefreshFails, EndRefresh
<1>2. CASE StoreSteps
  BY <1>2 DEF StoreSteps, Save, SaveError, Close
<1>3. CASE WorldSteps
  BY <1>3 DEF WorldSteps, GossipEvent, GossipFails, ReadError, Complete, ReadChannel, Tick
<1>4. CASE MoneySteps
  BY <1>4 DEF MoneySteps, Pay, Network
<1>5. CASE UNCHANGED vars
  BY <1>5 DEF vars
<1> QED
  BY <1>1, <1>2, <1>3, <1>4, <1>5

LEMMA RestartEmpties ==
  ASSUME Restarts
  PROVE  Restart /\ now' = now /\ Channels' = [id \in Ids |-> Absent] /\ lastDecay' = 0
BY DEF Restarts, Crash, Exit, Restart

\* The graph is as it should be after any step.
LEMMA GraphType ==
  ASSUME TypeInv, [Next]_vars
  PROVE  ChannelsTypeOK' /\ GraphDated' /\ now' \in {now, now + 1}
<1>1. now \in Nat /\ ChannelsTypeOK /\ GraphDated
  BY DEF TypeInv, TypeOK, Timely, ChannelsTypeOK
<1>2. CASE GraphSteps
  <2>1. now' = now /\ IsGraph' /\ AllMove
    BY <1>2, GraphStepsMove
  <2>2. GraphDated'
    BY <2>1 DEF GraphDated, AllMove, Moves, InGraph
  <2> QED
    BY <1>1, <2>1, <2>2 DEF IsGraph, ChannelsTypeOK
<1>3. CASE RefreshWaits \/ MoneySteps \/ StoreSteps \/ WorldSteps \/ UNCHANGED vars
  <2>1. Channels' = Channels /\ lastDecay' = lastDecay /\ now' \in {now, now + 1}
    BY <1>3, OtherStepsKeep DEF channelVars
  <2>2. \A id \in InGraph : Channels[id].Timestamp \in Nat
    BY <1>1, EntryOf, EntryFields DEF InGraph
  <2> QED
    BY <1>1, <2>1, <2>2 DEF ChannelsTypeOK, GraphDated, InGraph
<1>4. CASE Restarts
  BY <1>1, <1>4, RestartEmpties DEF ChannelsTypeOK, GraphDated, InGraph
<1> QED
  BY <1>2, <1>3, <1>4, StepKinds
-----------------------------------------------------------------------------
(***************************************************************************)
(* What each step does to what is kept on disk.                            *)
(***************************************************************************)
StoreKept == UNCHANGED storeVars

StartReads == LoadLearned /\ UNCHANGED <<files, saved>>

\* The steps by what they do to it.
LEMMA StoreMoves ==
  ASSUME [Next]_vars
  PROVE  \/ StoreKept
         \/ ApplyPending /\ Apply
         \/ SaveStep /\ Save
         \/ SaveFails /\ SaveError
         \/ CloseSaves /\ Close
         \/ StartReads /\ Restart
<1>1. CASE GraphSteps
  BY <1>1 DEF GraphSteps, Sync, Prune, Apply, FollowGossip, RefreshChannel, SplitLearns, Fade,
             StoreKept
<1>2. CASE RefreshWaits
  BY <1>2 DEF RefreshWaits, StartRefresh, StartPartialRefresh, RefreshFails, EndRefresh, StoreKept
<1>3. CASE StoreSteps
  BY <1>3 DEF StoreSteps, Save, SaveError, Close, StoreKept
<1>4. CASE WorldSteps
  BY <1>4 DEF WorldSteps, GossipEvent, GossipFails, Complete, ReadChannel, Tick, StoreKept
<1>5. CASE Restarts
  BY <1>5 DEF Restarts, Crash, Exit, Restart, StartReads
<1>6. CASE MoneySteps
  BY <1>6 DEF MoneySteps, Pay, Network, StoreKept
<1>7. CASE UNCHANGED vars
  BY <1>7 DEF vars, StoreKept
<1> QED
  BY <1>1, <1>2, <1>3, <1>4, <1>5, <1>6, <1>7, StepKinds

LEMMA NothingType == IsState(Nothing) /\ \A t : DatedBy(Nothing, t)
<1>1. Nothing \in [{} -> Beliefs] /\ DOMAIN Nothing = {}
  BY DEF Nothing
<1> QED
  BY <1>1 DEF IsState, DatedBy

\* What the graph learned, as it is saved.
LEMMA SnapshotType ==
  ASSUME ChannelsTypeOK, GraphDated
  PROVE  /\ IsState(Snapshot) /\ Dated(Snapshot)
         /\ \A id \in DOMAIN Snapshot :
              /\ id \in InGraph
              /\ Snapshot[id].Upper = Channels[id].Upper
              /\ Snapshot[id].Liquidity = Channels[id].Liquidity
<1>1. DOMAIN Snapshot = LearnedIds /\ LearnedIds \subseteq InGraph /\ InGraph \subseteq Ids
  BY DEF Snapshot, LearnedIds, InGraph
<1>2. ASSUME NEW id \in LearnedIds
      PROVE  /\ Snapshot[id] \in Beliefs /\ Snapshot[id].Timestamp \in 1 .. now
             /\ Snapshot[id].Upper = Channels[id].Upper
             /\ Snapshot[id].Liquidity = Channels[id].Liquidity
  <2> DEFINE e == Channels[id]
  <2>1. /\ e \in Entries /\ e.Timestamp <= now /\ e.Timestamp # 0 /\ now \in Nat
    BY <1>1, EntryOf DEF LearnedIds, Learned, InGraph, GraphDated, ChannelsTypeOK
  <2>2. Snapshot[id] = [Liquidity |-> e.Liquidity, Upper |-> e.Upper, Timestamp |-> e.Timestamp]
    BY DEF Snapshot, Belief
  <2> HIDE DEF e
  <2>3. e.Liquidity \in 0 .. Cap /\ e.Upper \in BOOLEAN /\ e.Timestamp \in Nat
    BY <2>1, EntryFields
  <2>4. Snapshot[id] \in Beliefs
    BY <2>2, <2>3 DEF Beliefs
  <2>5. Snapshot[id].Timestamp \in 1 .. now
    BY <2>1, <2>2, <2>3
  <2> QED
    BY <2>2, <2>4, <2>5 DEF e
<1>3. Snapshot \in [LearnedIds -> Beliefs]
  BY <1>2 DEF Snapshot
<1> QED
  BY <1>1, <1>2, <1>3 DEF IsState, Dated, DatedBy

\* A file that is written or removed.
LEMMA FileWritten ==
  ASSUME NEW fs, fs = [f \in Files |-> fs[f]], NEW g \in Files, NEW x
  PROVE  LET w == [fs EXCEPT ![g] = x]
         IN  /\ w = [f \in Files |-> w[f]]
             /\ w[g] = x /\ \A f \in Files \ {g} : w[f] = fs[f]
OBVIOUS

\* Every state kept is one of beliefs, none of which is dated after t.
KeptBy(fs, pending, d, sv, t) ==
  /\ fs = [f \in Files |-> fs[f]]
  /\ \A f \in Files : IsFile(fs[f]) /\ (fs[f] # NoFile => DatedBy(fs[f], t))
  /\ IsFile(pending) /\ (pending # NoFile => DatedBy(pending, t))
  /\ IsState(d) /\ DatedBy(d, t)
  /\ IsFile(sv) /\ (sv # NoFile => DatedBy(sv, t))

SaveTypes ==
  /\ migrateLegacy \in BOOLEAN /\ learnedApplied \in BOOLEAN
  /\ saver \in Savers \cup {"nobody"}
  /\ saving \in {"marshal", "write", "rotate", "rename", "legacy"}

Kept == KeptBy(files, pendingBeliefs, data, saved, now)

LEMMA KeptIsTyped ==
  TypeInv <=> /\ TypeOK /\ now # 0 /\ GraphDated /\ Kept /\ Afforded /\ AloneInv
BY DEF TypeInv, Timely, TypeOK, StoreTypeOK, Kept, KeptBy, Dated, DatedFile

LEMMA KeptLater ==
  ASSUME NEW fs, NEW p, NEW d, NEW sv, NEW t \in Nat, NEW u \in Nat, t <= u, KeptBy(fs, p, d, sv, t)
  PROVE  KeptBy(fs, p, d, sv, u)
BY DEF KeptBy, DatedBy

LEMMA StoreType ==
  ASSUME TypeInv, [Next]_vars
  PROVE  KeptBy(files', pendingBeliefs', data', saved', now) /\ SaveTypes'
<1>1. /\ Kept /\ SaveTypes /\ ChannelsTypeOK /\ GraphDated
  BY KeptIsTyped DEF TypeInv, TypeOK, StoreTypeOK, SaveTypes
<1>2. /\ {"current", "old", "tmp", "legacy"} = Files
      /\ files = [f \in Files |-> files[f]]
      /\ \A f \in Files : IsFile(files[f]) /\ (files[f] # NoFile => DatedBy(files[f], now))
  BY <1>1 DEF Kept, KeptBy, Files
<1>3. IsState(Nothing) /\ DatedBy(Nothing, now)
  BY NothingType
<1>4. IsState(data) /\ DatedBy(data, now) /\ IsFile(data)
  BY <1>1 DEF Kept, KeptBy, IsFile
<1>5. CASE StoreKept
  BY <1>1, <1>5 DEF StoreKept, storeVars, SaveTypes, Kept
<1>6. CASE ApplyPending
  BY <1>1, <1>6 DEF ApplyPending, SaveTypes, Kept, KeptBy, IsFile, Savers
<1>7. CASE Marshal
  <2>1. IsState(Snapshot) /\ DatedBy(Snapshot, now)
    BY <1>1, SnapshotType DEF Dated
  <2> QED
    BY <1>1, <1>7, <2>1 DEF Marshal, SaveTypes, Kept, KeptBy
<1>8. CASE SaveFails
  <2>1. /\ files' = [f \in Files |-> files'[f]]
        /\ \A f \in Files : files'[f] \in {files[f], NoFile}
    BY <1>2, <1>8 DEF SaveFails
  <2> QED
    BY <1>1, <1>2, <1>3, <1>8, <2>1 DEF SaveFails, EndSave, SaveTypes, Kept, KeptBy, IsFile
<1>9. CASE WriteSynced
  <2>1. /\ files' = [f \in Files |-> files'[f]]
        /\ \A f \in Files : files'[f] \in {files[f], data}
    BY <1>2, <1>9 DEF WriteSynced
  <2> QED
    BY <1>1, <1>2, <1>4, <1>9, <2>1 DEF WriteSynced, SaveTypes, Kept, KeptBy, IsFile
<1>10. CASE Rotate
  <2>1. /\ files' = [f \in Files |-> files'[f]]
        /\ \A f \in Files : files'[f] \in {files[f], files["current"], NoFile}
    BY <1>2, <1>10 DEF Rotate
  <2> QED
    BY <1>1, <1>2, <1>10, <2>1 DEF Rotate, SaveTypes, Kept, KeptBy, IsFile
<1>11. CASE Rename
  <2>1. /\ files' = [f \in Files |-> files'[f]]
        /\ \A f \in Files : files'[f] \in {files[f], files["tmp"], NoFile}
    BY <1>2, <1>11 DEF Rename
  <2>2. saved' = data /\ data' \in {data, Nothing}
    BY <1>11 DEF Rename, EndSave
  <2>3. KeptBy(files', pendingBeliefs', data', saved', now)
    BY <1>1, <1>2, <1>3, <1>4, <1>11, <2>1, <2>2 DEF Rename, Kept, KeptBy, IsFile
  <2> QED
    BY <1>1, <1>11, <2>3 DEF Rename, EndSave, SaveTypes
<1>12. CASE RemoveLegacyGraph
  <2>1. /\ files' = [f \in Files |-> files'[f]]
        /\ \A f \in Files : files'[f] \in {files[f], NoFile}
    BY <1>2, <1>12 DEF RemoveLegacyGraph
  <2> QED
    BY <1>1, <1>2, <1>3, <1>12, <2>1 DEF RemoveLegacyGraph, EndSave, SaveTypes, Kept, KeptBy, IsFile
<1>13. CASE CloseSaves
  BY <1>1, <1>13 DEF CloseSaves, SaveTypes, Kept, Savers
<1>14. CASE StartReads
  <2>1. IsFile(Readable) /\ (Readable # NoFile => DatedBy(Readable, now))
    BY <1>2 DEF Readable
  <2>2. migrateLegacy' \in BOOLEAN /\ learnedApplied' = FALSE /\ saver' = "nobody"
        /\ saving' = "marshal" /\ data' = Nothing /\ pendingBeliefs' = Readable
        /\ files' = files /\ saved' = saved
    BY <1>14 DEF StartReads, LoadLearned
  <2> QED
    BY <1>1, <1>3, <2>1, <2>2 DEF SaveTypes, Kept, KeptBy
<1> QED
  BY <1>5, <1>6, <1>7, <1>8, <1>9, <1>10, <1>11, <1>12, <1>13, <1>14, StoreMoves DEF SaveStep
-----------------------------------------------------------------------------
(***************************************************************************)
(* What each step does to the store of gossip and to its follower.         *)
(***************************************************************************)
LEMMA AppendedType ==
  ASSUME GossipTypeOK, NEW id \in Ids, Announce(id)
  PROVE  /\ store' \in Seq(Records) /\ Len(store') = Len(store) + 1
         /\ \A i \in 1 .. Len(store) : store'[i] = store[i]
<1> DEFINE r == [id |-> id, policy |-> known[id] + 1, completed |-> FALSE, deleted |-> FALSE]
<1>1. r \in Records /\ store \in Seq(Records)
  BY DEF GossipTypeOK, Records
<1>2. store' = Append(store, r)
  BY DEF Announce
<1> HIDE DEF r
<1> QED
  BY <1>1, <1>2

\* A record that is completed, or marked deleted, is otherwise the same.
SameRecord(r, q) ==
  /\ q \in Records /\ q.id = r.id /\ q.policy = r.policy
  /\ r.completed => q.completed
  /\ r.deleted => q.deleted

LEMMA CompletedType ==
  ASSUME GossipTypeOK, CompleteRecord
  PROVE  /\ store' \in Seq(Records) /\ Len(store') = Len(store)
         /\ \A i \in 1 .. Len(store) : SameRecord(store[i], store'[i])
         /\ known' \in [Ids -> Nat]
<1> DEFINE n == Len(store)
           last == store[n]
<1>1. store \in Seq(Records) /\ n \in Nat /\ DOMAIN store = 1 .. n
      /\ \A i \in 1 .. n : store[i] \in Records
  BY DEF GossipTypeOK
<1>2. n \in 1 .. n
  BY <1>1 DEF CompleteRecord, AllCompleted
<1>3. last \in Records /\ last.id \in Ids /\ last.policy \in Nat
  BY <1>1, <1>2 DEF Records
<1>4. known' = [known EXCEPT ![last.id] = last.policy]
  BY DEF CompleteRecord
<1>5. known' \in [Ids -> Nat]
  BY <1>3, <1>4 DEF GossipTypeOK
<1>6. store' = [i \in 1 .. n |->
                  IF i = n THEN [last EXCEPT !.completed = TRUE]
                  ELSE [store[i] EXCEPT !.deleted = @ \/ store[i].id = last.id]]
  BY <1>1 DEF CompleteRecord
<1>7. ASSUME NEW i \in 1 .. n
      PROVE  SameRecord(store[i], store'[i])
  <2> DEFINE r == store[i]
             d == r.deleted \/ r.id = last.id
  <2>1. r \in Records /\ d \in BOOLEAN /\ (r.deleted => d)
    BY <1>1 DEF Records
  <2>2. CASE i = n
    <3>1. store'[i] = [r EXCEPT !.completed = TRUE]
      BY <1>6, <2>2
    <3> QED
      BY <2>1, <3>1 DEF SameRecord, Records
  <2>3. CASE i # n
    <3>1. store'[i] = [r EXCEPT !.deleted = d]
      BY <1>6, <2>3
    <3> HIDE DEF r, d
    <3>2. /\ store'[i] \in Records /\ store'[i].id = r.id /\ store'[i].policy = r.policy
          /\ store'[i].completed = r.completed
      BY <2>1, <3>1 DEF Records
    <3>3. r.deleted => store'[i].deleted
      BY <2>1, <3>1 DEF Records
    <3> QED
      BY <3>2, <3>3 DEF SameRecord, r
  <2> QED
    BY <2>2, <2>3
<1>8. store' \in [1 .. n -> Records]
  BY <1>6, <1>7 DEF SameRecord
<1>9. store' \in Seq(Records) /\ Len(store') = n
  BY <1>1, <1>8
<1> QED
  BY <1>5, <1>7, <1>9

LEMMA CompactedType ==
  ASSUME GossipTypeOK, Compact
  PROVE  store' \in Seq(Records)
<1>1. store \in Seq(Records) /\ Live \subseteq 1 .. Len(store) /\ Len(store) \in Nat
  BY DEF GossipTypeOK, Live
<1>2. IsFiniteSet(Live)
  <2>1. IsFiniteSet(1 .. Len(store))
    BY <1>1, FS_Interval
  <2> QED
    BY <1>1, <2>1, FS_Subset
<1>3. Cardinality(Live) \in Nat
  BY <1>2, FS_CardinalityType
<1>4. PICK at \in [1 .. Cardinality(Live) -> Live] :
        store' = [k \in DOMAIN at |-> store[at[k]]]
  BY DEF Compact
<1>5. store' \in [1 .. Cardinality(Live) -> Records]
  <2>1. \A i \in Live : store[i] \in Records
    BY <1>1
  <2>2. DOMAIN at = 1 .. Cardinality(Live) /\ \A k \in DOMAIN at : at[k] \in Live
    OBVIOUS
  <2> HIDE DEF Live
  <2> QED
    BY <1>4, <2>1, <2>2
<1> QED
  BY <1>3, <1>5

\* The steps by what they do to the follower's state.
LEMMA GossipMoves ==
  ASSUME TypeInv, [Next]_vars
  PROVE  \/ UNCHANGED gossipVars /\ AllMove /\ AllStay
         \/ Drop /\ AllMove
         \/ Follow
         \/ (\E id \in Ids : Announce(id)) /\ UNCHANGED channelVars
         \/ Compact /\ UNCHANGED channelVars
         \/ CompleteRecord /\ UNCHANGED channelVars
         \/ CloseStore /\ UNCHANGED storeFileVars
<1>1. ChannelsTypeOK /\ GraphDated /\ TypeOK /\ (reread # NoFile => IsList(reread))
  BY DEF TypeInv, TypeOK, Timely
<1>2. CASE Sync \/ Prune
  BY <1>2, GraphStepsMove DEF GraphSteps, Sync, Prune
<1>3. CASE Apply
  BY <1>3, ApplyMoves DEF Apply
<1>4. CASE FollowGossip
  BY <1>4 DEF FollowGossip
<1>5. CASE RefreshChannel
  BY <1>1, <1>5, RefreshChannelsMoves DEF RefreshChannel
<1>6. CASE SplitLearns
  BY <1>1, <1>6, SplitLearnsMoves DEF SplitLearns, TypeInv, TypeOK
<1>7. CASE Fade
  BY <1>1, <1>7, DecayMoves, RefreshLiquidityMoves DEF Fade
<1>8. CASE (RefreshWaits \/ MoneySteps \/ StoreSteps \/ UNCHANGED vars \/ ReadChannel \/ Tick)
  <2>1. UNCHANGED channelVars
    BY <1>8, OtherStepsKeep DEF WorldSteps
  <2>2. UNCHANGED gossipVars
    BY <1>8 DEF RefreshWaits, StartRefresh, StartPartialRefresh, RefreshFails, EndRefresh,
                MoneySteps, Pay, Network, StoreSteps, Save, SaveError, Close, ReadChannel, Tick,
                vars
  <2> QED
    BY <1>1, <2>1, <2>2, UnchangedMoves
<1>9. CASE GossipEvent \/ Complete
  BY <1>9 DEF GossipEvent, Complete
<1>10. CASE GossipFails
  BY <1>10 DEF GossipFails, ReadError
<1>11. CASE Restarts
  BY <1>11, RestartEmpties DEF Restart
<1> QED
  BY <1>2, <1>3, <1>4, <1>5, <1>6, <1>7, <1>8, <1>9, <1>10, <1>11, StepKinds
     DEF GraphSteps, WorldSteps

LEMMA GossipType ==
  ASSUME TypeInv, [Next]_vars
  PROVE  GossipTypeOK'
<1>1. GossipTypeOK /\ InGraph \subseteq Ids /\ <<>> \in Seq(Records)
  BY DEF TypeInv, TypeOK, InGraph
<1>2. CASE UNCHANGED gossipVars
  BY <1>1, <1>2 DEF gossipVars, storeFileVars, followVars, GossipTypeOK
<1>3. CASE Drop
  BY <1>1, <1>3 DEF Drop, storeFileVars, GossipTypeOK
<1>4. CASE Follow
  <2>1. CASE OpenStore
    BY <1>1, <2>1 DEF OpenStore, storeFileVars, GossipTypeOK
  <2>2. CASE FollowRecord
    BY <1>1, <2>2 DEF FollowRecord, storeFileVars, GossipTypeOK
  <2>3. CASE Reopen
    BY <1>1, <2>3 DEF Reopen, CloseStore, storeFileVars, GossipTypeOK
  <2> QED
    BY <1>4, <2>1, <2>2, <2>3 DEF Follow
<1>5. ASSUME NEW id \in Ids, Announce(id)
      PROVE  GossipTypeOK'
  BY <1>1, <1>5, AppendedType DEF Announce, followVars, GossipTypeOK
<1>6. CASE Compact
  BY <1>1, <1>6, CompactedType DEF Compact, GossipTypeOK
<1>7. CASE CompleteRecord
  BY <1>1, <1>7, CompletedType DEF CompleteRecord, followVars, GossipTypeOK
<1>8. CASE CloseStore /\ UNCHANGED storeFileVars
  BY <1>1, <1>8 DEF CloseStore, storeFileVars, GossipTypeOK
<1> QED
  BY <1>2, <1>3, <1>4, <1>5, <1>6, <1>7, <1>8, GossipMoves
-----------------------------------------------------------------------------
LEMMA EventType ==
  ASSUME left \in [Kinds -> Nat], NEW kind \in Kinds, Event(kind)
  PROVE  left' \in [Kinds -> Nat]
<1>1. left[kind] - 1 \in Nat
  BY DEF Event
<1> QED
  BY <1>1 DEF Event

LEMMA LeftType ==
  ASSUME left \in [Kinds -> Nat], [Next]_vars
  PROVE  left' \in [Kinds -> Nat]
<1>1. {"payment", "tick", "gossip", "read", "stop", "failure"} = Kinds
  BY DEF Kinds
<1>2. CASE GraphSteps
  BY <1>1, <1>2, EventType DEF GraphSteps, Sync, Prune, Apply, FollowGossip, RefreshChannel,
                               SplitLearns, Fade
<1>3. CASE RefreshWaits
  BY <1>1, <1>3, EventType DEF RefreshWaits, StartRefresh, StartPartialRefresh, RefreshFails, EndRefresh
<1>4. CASE StoreSteps
  BY <1>1, <1>4, EventType DEF StoreSteps, Save, SaveError, Close
<1>5. CASE WorldSteps
  BY <1>1, <1>5, EventType DEF WorldSteps, GossipEvent, GossipFails, Complete, ReadChannel, Tick
<1>6. CASE Restarts
  BY <1>1, <1>6, EventType DEF Restarts, Crash, Exit
<1>7. CASE MoneySteps
  BY <1>1, <1>7, EventType DEF MoneySteps, Pay, Network
<1>8. CASE UNCHANGED vars
  BY <1>8 DEF vars
<1> QED
  BY <1>2, <1>3, <1>4, <1>5, <1>6, <1>7, <1>8, StepKinds

\* A list is of what lightningd knows.
LEMMA ListType ==
  ASSUME GossipTypeOK, NEW S \in SUBSET Ids
  PROVE  IsList(ListOf(S))
<1>1. ListOf(S) \in [S -> Nat]
  BY DEF ListOf, GossipTypeOK
<1> QED
  BY <1>1 DEF IsList

LEMMA NothingListed == IsList(Nothing)
<1>1. Nothing \in [{} -> Nat]
  BY DEF Nothing
<1> QED
  BY <1>1 DEF IsList

NodeTypes ==
  /\ phase \in {"boot", "run", "closing"}
  /\ refresh \in {"idle", "listed", "synced", "pruned", "saving"}
  /\ IsList(list) /\ asOf \in Nat /\ (reread = NoFile \/ IsList(reread))

LEMMA NodeType ==
  ASSUME TypeInv, [Next]_vars
  PROVE  NodeTypes'
<1>1. /\ TypeOK /\ NodeTypes /\ GossipTypeOK /\ now \in Nat
      /\ IsList(ListOf(Ids)) /\ IsList(Nothing)
  BY ListType, NothingListed DEF TypeInv, TypeOK, NodeTypes, ChannelsTypeOK
<1>2. CASE GraphSteps
  BY <1>1, <1>2 DEF GraphSteps, Sync, Prune, Apply, FollowGossip, RefreshChannel, SplitLearns,
                    Fade, NodeTypes, threadVars, nodeVars
<1>3. CASE MoneySteps
  BY <1>1, <1>3 DEF MoneySteps, Pay, Network, NodeTypes, threadVars
<1>4. CASE StartRefresh \/ RefreshFails \/ EndRefresh
  BY <1>1, <1>4 DEF StartRefresh, RefreshFails, EndRefresh, NodeTypes, threadVars, nodeVars
<1>5. CASE StartPartialRefresh
  <2>1. IsList(list')
    BY <1>1, <1>5, ListType DEF StartPartialRefresh
  <2> QED
    BY <1>1, <1>5, <2>1 DEF StartPartialRefresh, NodeTypes, nodeVars
<1>6. CASE StoreSteps
  BY <1>1, <1>6 DEF StoreSteps, Save, SaveError, Close, NodeTypes, threadVars, nodeVars
<1>7. CASE GossipEvent \/ GossipFails \/ Complete \/ Tick
  BY <1>1, <1>7 DEF GossipEvent, GossipFails, Complete, Tick, NodeTypes, threadVars, nodeVars
<1>8. CASE ReadChannel
  <2>1. \A s \in Scids : {s} \X {0, 1} \in SUBSET Ids
    BY DEF Ids
  <2>2. IsList(reread')
    BY <1>1, <1>8, <2>1, ListType DEF ReadChannel
  <2> QED
    BY <1>1, <1>8, <2>2 DEF ReadChannel, NodeTypes, nodeVars
<1>9. CASE Restarts
  BY <1>1, <1>9, RestartEmpties DEF Restart, NodeTypes
<1>10. CASE UNCHANGED vars
  BY <1>1, <1>10 DEF vars, threadVars, nodeVars, NodeTypes
<1> QED
  BY <1>2, <1>3, <1>4, <1>5, <1>6, <1>7, <1>8, <1>9, <1>10, StepKinds
     DEF RefreshWaits, WorldSteps
-----------------------------------------------------------------------------
(***************************************************************************)
(* What each step does to the payments.                                    *)
(***************************************************************************)
\* What a step may add to what a direction was told of, it notes or doubts.
ToldGrows == \A i \in Ids \ doubted' : Told(i)' <= Told(i)

LearningInv == LearningTypeOK /\ Afforded /\ AloneInv

\* Steps of no split.
LEMMA LearningStays ==
  ASSUME LearningInv, UNCHANGED <<balance, split, shared>>,
         behind' \in [Saves -> SUBSET Ids], doubted' \subseteq Ids
  PROVE  LearningInv' /\ \A i \in Ids : Told(i)' = Told(i) /\ Told(i) \in Int
<1>1. LearningTypeOK'
  BY DEF LearningInv, LearningTypeOK
<1>2. ASSUME NEW i \in Ids
      PROVE  Holds(i)' = Holds(i) /\ \A S : Amount(i, S)' = Amount(i, S)
  BY DEF Holds, Amount, Paying
<1>3. Afforded'
  BY <1>2 DEF LearningInv, Afforded
<1>4. \A i \in Ids : Told(i)' = Told(i) /\ Told(i) \in Int
  BY ToldType DEF Told, Holds, Amount, Paying, LearningInv
<1>5. AloneInv'
  BY AloneStays DEF LearningInv
<1> QED
  BY <1>1, <1>3, <1>4, <1>5 DEF LearningInv

LEMMA MoneyMoves ==
  ASSUME LearningInv, MoneySteps
  PROVE  LearningInv' /\ ToldGrows /\ HistoryGrows
<1>1. \A i \in Ids : Told(i) \in Int
  BY ToldType DEF LearningInv
<1>2. CASE Pay
  <2>1. PICK p \in Splits, id \in Ids, a \in 1 .. Cap - 1 : SendPay(p, id, a)
    <3>1. Idle # {} => (CHOOSE q \in Idle : TRUE) \in Splits
      BY DEF Idle
    <3> QED
      BY <1>2, <3>1 DEF Pay, InGraph
  <2>2. /\ LearningTypeOK' /\ Afforded' /\ AloneInv'
        /\ \A i \in Ids : Told(i)' = Told(i)
    BY <2>1, SendPayMoves, AloneSendPay DEF LearningInv
  <2>3. HistoryGrows
    BY <2>1 DEF SendPay, Reaches, HistoryGrows
  <2> QED
    BY <1>1, <2>2, <2>3 DEF LearningInv, ToldGrows
<1>3. ASSUME NEW p \in Splits, Settle(p)
      PROVE  LearningInv' /\ ToldGrows /\ HistoryGrows
  <2>1. /\ LearningTypeOK' /\ Afforded' /\ AloneInv'
        /\ \A i \in Ids : Told(i)' = Told(i)
    BY <1>3, SettleMoves, AloneSettle DEF LearningInv
  <2>2. HistoryGrows
    BY <1>3 DEF Settle, HistoryGrows
  <2> QED
    BY <1>1, <2>1, <2>2 DEF LearningInv, ToldGrows
<1>4. ASSUME NEW p \in Splits, SettleAlone(p)
      PROVE  LearningInv' /\ ToldGrows /\ HistoryGrows
  BY <1>4, SettleAloneMoves, AloneSettleAlone DEF LearningInv, ToldGrows, HistoryGrows
<1> QED
  BY <1>2, <1>3, <1>4 DEF MoneySteps, Network

LEMMA LearningNext ==
  ASSUME TypeInv, [Next]_vars
  PROVE  LearningInv'
<1>1. /\ ChannelsTypeOK /\ GraphDated /\ LearningInv
      /\ behind \in [Saves -> SUBSET Ids] /\ doubted \subseteq Ids
  BY DEF TypeInv, TypeOK, Timely, LearningInv, LearningTypeOK
<1>2. CASE MoneySteps
  BY <1>1, <1>2, MoneyMoves
<1>3. CASE SplitLearns
  BY <1>1, <1>3, SplitLearnsMoves DEF SplitLearns, LearningInv
<1>4. CASE Sync \/ Prune
  <2>1. /\ UNCHANGED <<balance, split, shared>> /\ behind' = behind
        /\ doubted' \subseteq doubted \cup InGraph
    BY <1>4 DEF Sync, Prune, Drop
  <2> QED
    BY <1>1, <2>1, LearningStays DEF InGraph
<1>5. CASE Save
  <2>1. UNCHANGED <<balance, split, shared>> /\ doubted' = doubted
    BY <1>5 DEF Save
  <2>2. behind' \in [Saves -> SUBSET Ids]
    BY <1>1, <1>5 DEF Save, Saves
  <2> QED
    BY <1>1, <2>1, <2>2, LearningStays
<1>6. CASE Restarts
  BY <1>1, <1>6, StopMoves, AloneStop, RestartEmpties DEF Restart, LearningInv
<1>7. CASE \/ Apply \/ FollowGossip \/ RefreshChannel \/ Fade \/ RefreshWaits
           \/ SaveError \/ Close \/ WorldSteps \/ UNCHANGED vars
  <2>1. UNCHANGED learningVars
    BY <1>7 DEF Apply, FollowGossip, RefreshChannel, Fade, RefreshWaits, StartRefresh,
                StartPartialRefresh, RefreshFails, EndRefresh, SaveError, Close, WorldSteps,
                GossipEvent, GossipFails, Complete, ReadChannel, Tick, vars, nodeVars
  <2> QED
    BY <1>1, <2>1, LearningStays DEF learningVars
<1> QED
  BY <1>2, <1>3, <1>4, <1>5, <1>6, <1>7, StepKinds DEF GraphSteps, StoreSteps

LEMMA TypeInvNext ==
  TypeInv /\ [Next]_vars => TypeInv'
<1> SUFFICES ASSUME TypeInv, [Next]_vars
             PROVE  TypeInv'
  OBVIOUS
<1>1. /\ ChannelsTypeOK' /\ GraphDated' /\ now' \in {now, now + 1}
      /\ now \in Nat /\ now # 0 /\ left \in [Kinds -> Nat]
  BY GraphType DEF TypeInv, Timely, TypeOK, ChannelsTypeOK
<1>2. KeptBy(files', pendingBeliefs', data', saved', now') /\ SaveTypes'
  BY <1>1, StoreType, KeptLater
<1>3. TypeOK'
  BY <1>1, <1>2, GossipType, LeftType, NodeType, LearningNext
     DEF TypeOK, StoreTypeOK, SaveTypes, KeptBy, NodeTypes, LearningInv
<1> QED
  BY <1>1, <1>2, <1>3, LearningNext DEF TypeInv, Timely, KeptBy, Dated, DatedFile, LearningInv

LEMMA FirstStore ==
  ASSUME GossipInit
  PROVE  store \in Seq(Records)
<1> DEFINE first == [id : Ids, policy : {1}, completed : {TRUE}, deleted : {FALSE}]
<1>1. IsFiniteSet(Ids)
  <2>1. IsFiniteSet({0}) /\ {0} \cup {1} = {0, 1}
    BY FS_Singleton
  <2>2. IsFiniteSet({0} \cup {1})
    BY <2>1, FS_AddElement
  <2>3. IsFiniteSet({0, 1})
    BY <2>1, <2>2
  <2> QED
    BY <2>3, FS_Product DEF Ids
<1>2. IsFiniteSet(first)
  <2> DEFINE f == [i \in Ids |-> [id |-> i, policy |-> 1, completed |-> TRUE, deleted |-> FALSE]]
  <2>1. f \in Surjection(Ids, first)
    <3>1. f \in [Ids -> first]
      OBVIOUS
    <3>2. ASSUME NEW r \in first
          PROVE  r.id \in Ids /\ f[r.id] = r
      OBVIOUS
    <3> HIDE DEF f, first
    <3> QED
      BY <3>1, <3>2 DEF Surjection
  <2> HIDE DEF f, first
  <2> QED
    BY <1>1, <2>1, FS_Surjection
<1>3. first \subseteq Records
  <2>1. ASSUME NEW r \in first
        PROVE  r \in Records
    <3>1. \A i \in Ids :
            [id |-> i, policy |-> 1, completed |-> TRUE, deleted |-> FALSE] \in Records
      BY DEF Records
    <3>2. r = [id |-> r.id, policy |-> 1, completed |-> TRUE, deleted |-> FALSE] /\ r.id \in Ids
      OBVIOUS
    <3> QED
      BY <3>1, <3>2, Zenon
  <2> QED
    BY <2>1
<1>4. SetToSeq(first) \in Seq(Records)
  <2> HIDE DEF first
  <2>1. SetToSeq(first) \in Seq(first)
    BY <1>2, SetToSeqType
  <2> QED
    BY <1>3, <2>1
<1>5. <<>> \in Seq(Records) /\ store \in {<<>>, SetToSeq(first)}
  BY DEF GossipInit
<1> HIDE DEF first
<1> QED
  BY <1>4, <1>5

LEMMA TypeInvInit == Init => TypeInv
<1> SUFFICES ASSUME Init
             PROVE  TypeInv
  OBVIOUS
<1>1. ChannelsTypeOK /\ GraphDated /\ now # 0
  BY DEF Init, ChannelsInit, ChannelsTypeOK, GraphDated, InGraph
<1>2. GossipTypeOK
  <2>1. GossipInit /\ store \in Seq(Records) /\ <<>> \in Seq(Records)
    BY FirstStore DEF Init
  <2> QED
    BY <2>1 DEF GossipInit, GossipTypeOK
<1>3. left \in [Kinds -> Nat]
  BY DEF Init
<1>4. NodeTypes
  BY NothingListed DEF Init, NodeTypes
<1>5. IsFile(saved) /\ DatedFile(saved)
  <2>1. CASE saved = NoFile
    BY <2>1 DEF IsFile, DatedFile
  <2>2. CASE \E i \in Ids :
               saved = [id \in {i} |-> [Liquidity |-> 1, Upper |-> FALSE, Timestamp |-> 1]]
    <3>1. PICK i \in Ids :
               saved = [id \in {i} |-> [Liquidity |-> 1, Upper |-> FALSE, Timestamp |-> 1]]
      BY <2>2
    <3> DEFINE b == [Liquidity |-> 1, Upper |-> FALSE, Timestamp |-> 1]
    <3>2. b \in Beliefs /\ b.Timestamp = 1
      BY DEF Beliefs
    <3> HIDE DEF b
    <3>3. saved = [id \in {i} |-> b]
      BY <3>1 DEF b
    <3>4. saved \in [{i} -> Beliefs] /\ DOMAIN saved = {i} /\ saved[i].Timestamp = 1
      BY <3>2, <3>3
    <3>5. now = 1
      BY DEF Init, ChannelsInit
    <3> QED
      BY <3>4, <3>5 DEF IsFile, IsState, DatedFile, Dated, DatedBy
  <2> QED
    BY <2>1, <2>2 DEF Init, StoreInit
<1>6. IsState(data) /\ Dated(data)
  BY NothingType DEF Init, StoreInit, Dated
<1>7. StoreTypeOK
  BY <1>5, <1>6 DEF Init, StoreInit, StoreTypeOK, IsFile
<1>8. DatedFile(pendingBeliefs) /\ \A f \in Files : DatedFile(files[f])
  BY <1>5 DEF Init, StoreInit, DatedFile
<1>9. LearningTypeOK
  <2>1. balance \in [Scids -> 0 .. Cap]
    <3>1. {0} \subseteq 0 .. Cap /\ Holdings \subseteq 0 .. Cap
      BY ChannelsAssumption, NodeAssumption
    <3> QED
      BY <3>1 DEF Init
  <2> QED
    BY <2>1 DEF Init, LearningInit, LearningTypeOK
<1>10. Afforded
  <2> SUFFICES ASSUME NEW id \in Ids
               PROVE  Amount(id, Carried) <= Holds(id)
    BY DEF Afforded
  <2>1. PayingIn(split, id, Carried) = {}
    BY DEF Init, LearningInit, PayingIn
  <2>2. Amount(id, Carried) = 0
    BY <2>1, AmountNone, AmountIsIn
  <2> QED
    BY <1>9, <2>2, HoldsType
<1>11. AloneInv
  BY DEF Init, LearningInit, AloneInv
<1>12. TypeOK
  BY <1>1, <1>2, <1>3, <1>4, <1>7, <1>9 DEF TypeOK, NodeTypes
<1>13. Timely
  BY <1>1, <1>5, <1>6, <1>8 DEF Timely
<1> QED
  BY <1>10, <1>11, <1>12, <1>13 DEF TypeInv

LEMMA TypeInvariant == Spec => []TypeInv
BY TypeInvInit, TypeInvNext, PTL DEF Spec

\* The state has its type, whatever the channels and the bounds on the events:
\* no operation on the graph, the files or the store makes of an entry, a
\* belief, a record or a list something else.
THEOREM TypeCorrect == Spec => []TypeOK
<1>1. TypeInv => TypeOK
  BY DEF TypeInv
<1> QED
  BY <1>1, TypeInvariant, PTL
-----------------------------------------------------------------------------
(***************************************************************************)
(* Policies.                                                               *)
(***************************************************************************)
LEMMA NoStepGoesBack ==
  ASSUME TypeInv, [Next]_vars, NEW id \in InGraph, Channels'[id] # Absent
  PROVE  Channels'[id].LastUpdate >= Channels[id].LastUpdate
<1>1. id \in Ids /\ Channels[id] # Absent
  BY DEF InGraph
<1>2. CASE GraphSteps
  BY <1>1, <1>2, GraphStepsMove DEF AllMove, Moves
<1>3. CASE RefreshWaits \/ MoneySteps \/ StoreSteps \/ WorldSteps \/ UNCHANGED vars
  <2>1. Channels' = Channels
    BY <1>3, OtherStepsKeep DEF channelVars
  <2>2. Channels[id].LastUpdate \in Nat
    BY <1>1, EntryOf, EntryFields DEF TypeInv, TypeOK, Timely
  <2> QED
    BY <2>1, <2>2
<1>4. CASE Restarts
  BY <1>1, <1>4, RestartEmpties
<1> QED
  BY <1>2, <1>3, <1>4, StepKinds

\* refreshChannels, ApplyChannelUpdate: whole lists, single reads and gossip,
\* each read at one time and applied at another, never take a channel back to
\* an older policy.
THEOREM NeverOlder == Spec => PolicyNeverOlder
<1>1. TypeInv /\ [Next]_vars =>
        [\A id \in InGraph :
           Channels'[id] # Absent => Channels'[id].LastUpdate >= Channels[id].LastUpdate]_vars
  BY NoStepGoesBack
<1> QED
  BY <1>1, TypeInvariant, PTL DEF Spec, PolicyNeverOlder
-----------------------------------------------------------------------------
(***************************************************************************)
(* Files.                                                                  *)
(***************************************************************************)
\* Between any two file operations: what is being saved is aside, complete,
\* before learned.json is moved; graph.json goes only once learned.json is
\* there; and nothing is saved before what the start read was applied.
SaveInv ==
  /\ SavedIsNeverLost
  /\ learnedApplied => pendingBeliefs = NoFile
  /\ saver # "nobody" => learnedApplied
  /\ saving # "marshal" => saver # "nobody"
  /\ saving \in {"rotate", "rename"} => files["tmp"] = data
  /\ saving = "rename" => files["current"] = NoFile
  /\ saving = "legacy" => files["current"] # NoFile

LEMMA SaveInvInit == Init => SaveInv
BY DEF Init, StoreInit, SaveInv, SavedIsNeverLost, Readable, Files

LEMMA SaveInvNext ==
  ASSUME TypeInv, SaveInv, [Next]_vars
  PROVE  SaveInv'
<1>1. /\ files = [f \in Files |-> files[f]] /\ IsState(data) /\ data # NoFile
      /\ {"current", "old", "tmp", "legacy"} = Files
  BY DEF TypeInv, TypeOK, StoreTypeOK, Files
<1>2. CASE StoreKept
  BY <1>2 DEF StoreKept, storeVars, SaveInv, SavedIsNeverLost, Readable
<1>3. CASE ApplyPending
  BY <1>3 DEF ApplyPending, SaveInv, SavedIsNeverLost, Readable
<1>4. CASE Marshal
  BY <1>4 DEF Marshal, SaveInv, SavedIsNeverLost, Readable
<1>5. CASE SaveFails
  <2>1. \A f \in Files \ {"tmp"} : files'[f] = files[f]
    BY <1>1, <1>5 DEF SaveFails
  <2>2. Readable' = Readable
    BY <1>1, <2>1 DEF Readable
  <2> QED
    BY <1>5, <2>2 DEF SaveFails, EndSave, SaveInv, SavedIsNeverLost
<1>6. CASE WriteSynced
  <2>1. files'["tmp"] = data /\ \A f \in Files \ {"tmp"} : files'[f] = files[f]
    BY <1>1, <1>6 DEF WriteSynced
  <2>2. Readable' = Readable
    BY <1>1, <2>1 DEF Readable
  <2> QED
    BY <1>6, <2>1, <2>2 DEF WriteSynced, SaveInv, SavedIsNeverLost
<1>7. CASE Rotate
  <2>1. files'["current"] = NoFile /\ files'["tmp"] = files["tmp"]
    BY <1>1, <1>7 DEF Rotate
  <2>2. Readable' = Readable
    <3>1. CASE files["current"] = NoFile
      BY <1>7, <3>1 DEF Rotate, Readable
    <3>2. CASE files["current"] # NoFile
      <4>1. files'["old"] = files["current"]
        BY <1>1, <1>7, <3>2 DEF Rotate
      <4> QED
        BY <2>1, <3>2, <4>1 DEF Readable
    <3> QED
      BY <3>1, <3>2
  <2> QED
    BY <1>7, <2>1, <2>2 DEF Rotate, SaveInv, SavedIsNeverLost
<1>8. CASE Rename
  <2>1. files'["current"] = files["tmp"] /\ files["tmp"] = data
    BY <1>1, <1>8 DEF Rename, SaveInv
  <2>2. Readable' = data /\ saved' = data
    BY <1>1, <1>8, <2>1 DEF Readable, Rename
  <2> QED
    BY <1>1, <1>8, <2>1, <2>2 DEF Rename, EndSave, SaveInv, SavedIsNeverLost
<1>9. CASE RemoveLegacyGraph
  <2>1. \A f \in Files \ {"legacy"} : files'[f] = files[f]
    BY <1>1, <1>9 DEF RemoveLegacyGraph
  <2>2. files["current"] # NoFile
    BY <1>9 DEF RemoveLegacyGraph, SaveInv
  <2>3. Readable' = Readable
    BY <1>1, <2>1, <2>2 DEF Readable
  <2> QED
    BY <1>9, <2>3 DEF RemoveLegacyGraph, EndSave, SaveInv, SavedIsNeverLost
<1>10. CASE CloseSaves
  BY <1>10 DEF CloseSaves, SaveInv, SavedIsNeverLost, Readable
<1>11. CASE StartReads
  BY <1>11 DEF StartReads, LoadLearned, SaveInv, SavedIsNeverLost, Readable
<1> QED
  BY <1>2, <1>3, <1>4, <1>5, <1>6, <1>7, <1>8, <1>9, <1>10, <1>11, StoreMoves DEF SaveStep

LEMMA SaveInvariant == Spec => []SaveInv
<1>1. TypeInv /\ SaveInv /\ [Next]_vars => SaveInv'
  BY SaveInvNext
<1> QED
  BY <1>1, SaveInvInit, TypeInvariant, PTL DEF Spec

\* SaveLearned, LoadLearned, Close, applyLearned: a crash between any two file
\* operations, a save that fails, a stop before the first refresh: a start
\* always reads what the last completed save wrote.
THEOREM SavedKept == Spec => []SavedIsNeverLost
<1>1. SaveInv => SavedIsNeverLost
  BY DEF SaveInv
<1> QED
  BY <1>1, SaveInvariant, PTL
-----------------------------------------------------------------------------
(***************************************************************************)
(* Gossip.                                                                 *)
(***************************************************************************)
\* The follower passed complete records only, of the file it has open; and it
\* is not to be blamed for the channels that are not in the graph.
FollowInv ==
  /\ ~opened => offset = 0 /\ ~replaced
  /\ offset <= Len(File)
  /\ \A i \in 1 .. offset : File[i].completed
  /\ opened => Ids \ InGraph \subseteq missed

GossipInv == FollowInv /\ GossipApplied

LEMMA GossipInvInit == Init => GossipInv
<1> SUFFICES ASSUME Init
             PROVE  GossipInv
  OBVIOUS
<1>1. offset = 0 /\ ~opened /\ ~replaced /\ Len(File) \in Nat
  BY TypeInvInit, FileType DEF Init, GossipInit, TypeInv, TypeOK
<1> QED
  BY <1>1 DEF GossipInv, FollowInv, GossipApplied

\* Records passed, the same or marked deleted, with what the graph does.
LEMMA AppliedStays ==
  ASSUME TypeInv, GossipInv, AllMove,
         offset' = offset, missed \subseteq missed',
         \A i \in 1 .. offset :
           /\ File'[i].id = File[i].id /\ File'[i].policy = File[i].policy
           /\ File'[i].completed
           /\ File[i].deleted => File'[i].deleted
  PROVE  GossipApplied' /\ \A i \in 1 .. offset' : File'[i].completed
<1> SUFFICES ASSUME NEW i \in 1 .. offset', ~File'[i].deleted,
                    File'[i].id \in InGraph' \ missed'
             PROVE  Channels'[File'[i].id].LastUpdate >= File'[i].policy
  BY DEF GossipApplied
<1>1. /\ offset \in Nat /\ i \in 1 .. offset /\ Len(File) \in Nat /\ offset <= Len(File)
      /\ i \in 1 .. Len(File)
  BY FileType DEF TypeInv, TypeOK, GossipTypeOK, GossipInv, FollowInv
<1> DEFINE id == File[i].id
<1>2. /\ id \in Ids /\ File[i].policy \in Nat
      /\ File'[i].id = id /\ File'[i].policy = File[i].policy
      /\ File[i].completed /\ ~File[i].deleted
  BY <1>1, FileType DEF TypeInv, TypeOK, GossipInv, FollowInv
<1>3. opened
  BY <1>1 DEF GossipInv, FollowInv
<1>4. id \in InGraph \ missed /\ Channels'[id] # Absent
  BY <1>2, <1>3 DEF GossipInv, FollowInv, InGraph
<1>5. Channels[id].LastUpdate >= File[i].policy
  BY <1>1, <1>2, <1>4 DEF GossipInv, GossipApplied
<1>6. Channels'[id].LastUpdate >= Channels[id].LastUpdate
  BY <1>2, <1>4 DEF AllMove, Moves, InGraph
<1>7. Channels[id].LastUpdate \in Nat /\ Channels'[id].LastUpdate \in Nat
  <2>1. Channels[id] \in Entries /\ Channels'[id] \in Entries
    BY <1>2, <1>4, EntryOf DEF AllMove, Moves, InGraph, TypeInv, TypeOK, Timely
  <2> QED
    BY <2>1, EntryFields
<1> QED
  BY <1>2, <1>5, <1>6, <1>7

LEMMA GossipInvNext ==
  ASSUME TypeInv, GossipInv, [Next]_vars
  PROVE  GossipInv'
<1>1. /\ ChannelsTypeOK /\ GraphDated /\ GossipTypeOK /\ GossipTypeOK' /\ offset \in Nat
      /\ FollowInv
  BY GossipType DEF TypeInv, TypeOK, Timely, GossipTypeOK, GossipInv
<1>2. /\ Len(File) \in Nat
      /\ \A i \in 1 .. offset : i \in 1 .. Len(File) /\ File[i].completed
  BY <1>1, FileType DEF FollowInv
<1>3. CASE UNCHANGED gossipVars /\ AllMove /\ AllStay
  <2>1. /\ File' = File /\ offset' = offset /\ missed' = missed
        /\ opened' = opened /\ replaced' = replaced
    BY <1>3 DEF gossipVars, storeFileVars, followVars, File
  <2>2. GossipApplied'
    BY <1>2, <1>3, <2>1, AppliedStays
  <2>3. Ids \ InGraph' \subseteq Ids \ InGraph
    BY <1>3 DEF AllStay, InGraph
  <2> QED
    BY <1>1, <2>1, <2>2, <2>3 DEF GossipInv, FollowInv
<1>4. CASE Drop /\ AllMove
  <2>1. /\ File' = File /\ offset' = offset /\ opened' = opened /\ replaced' = replaced
        /\ missed' = missed \cup {id \in InGraph : Channels'[id] = Absent}
    BY <1>4 DEF Drop, storeFileVars, File
  <2>2. GossipApplied'
    BY <1>2, <1>4, <2>1, AppliedStays
  <2>3. opened => Ids \ InGraph' \subseteq missed'
    BY <1>1, <2>1 DEF FollowInv, InGraph
  <2> QED
    BY <1>1, <2>1, <2>2, <2>3 DEF GossipInv, FollowInv
<1>5. CASE OpenStore
  <2>1. /\ ~replaced /\ ~replaced' /\ offset' = 0 /\ opened'
        /\ missed' = Ids \ InGraph /\ Channels' = Channels
    BY <1>1, <1>5 DEF OpenStore, FollowInv, channelVars
  <2>2. Len(File') \in Nat
    BY <1>1, FileType, <1>5 DEF OpenStore, storeFileVars, File
  <2> QED
    BY <2>1, <2>2 DEF GossipInv, FollowInv, GossipApplied, InGraph
<1>6. CASE FollowRecord
  <2> DEFINE n == offset + 1
             r == File[n]
  <2>1. /\ opened /\ opened' /\ offset' = n /\ n \in 1 .. Len(File) /\ r.completed
        /\ File' = File /\ missed' = missed /\ replaced' = replaced
    BY <1>1, <1>2, <1>6 DEF FollowRecord, HasRecord, storeFileVars, File
  <2>2. r.id \in Ids /\ r.policy \in Nat /\ r.deleted \in BOOLEAN
    BY <1>1, <2>1, FileType
  <2>3. /\ AllMove /\ AllStay
        /\ ~r.deleted /\ Channels[r.id] # Absent => Channels'[r.id].LastUpdate >= r.policy
    <3>1. CASE r.deleted
      BY <1>1, <1>6, <3>1, UnchangedMoves DEF FollowRecord
    <3>2. CASE ~r.deleted
      <4>1. ApplyChannelUpdate(r.id, r.policy)
        BY <1>6, <3>2 DEF FollowRecord
      <4> QED
        BY <1>1, <2>2, <4>1, ApplyChannelUpdateMoves
    <3> QED
      BY <3>1, <3>2
  <2>4. opened' => Ids \ InGraph' \subseteq missed'
    BY <1>1, <2>1, <2>3 DEF FollowInv, AllStay, InGraph
  <2>5. ASSUME NEW i \in 1 .. offset', ~File'[i].deleted, File'[i].id \in InGraph' \ missed'
        PROVE  Channels'[File'[i].id].LastUpdate >= File'[i].policy
    <3>1. i \in 1 .. Len(File) /\ File'[i] = File[i] /\ File[i].policy \in Nat
          /\ File[i].id \in Ids
      BY <1>1, <2>1, FileType
    <3>2. File[i].id \in InGraph
      BY <1>1, <2>1, <2>5, <3>1 DEF FollowInv
    <3>3. CASE i = n
      BY <2>1, <2>3, <2>5, <3>1, <3>2, <3>3 DEF InGraph
    <3>4. CASE i # n
      <4>1. i \in 1 .. offset
        BY <1>1, <2>1, <3>4
      <4>2. Channels[File[i].id].LastUpdate >= File[i].policy
        BY <1>2, <2>1, <2>5, <3>1, <3>2, <4>1 DEF GossipInv, GossipApplied
      <4>3. Channels'[File[i].id].LastUpdate >= Channels[File[i].id].LastUpdate
        BY <2>3, <3>1, <3>2 DEF AllMove, AllStay, Moves, InGraph
      <4>4. Channels[File[i].id] \in Entries /\ Channels'[File[i].id] \in Entries
        BY <1>1, <2>3, <3>1, <3>2, EntryOf DEF AllMove, AllStay, Moves, InGraph
      <4>5. /\ Channels[File[i].id].LastUpdate \in Nat
            /\ Channels'[File[i].id].LastUpdate \in Nat
        BY <4>4, EntryFields
      <4> QED
        BY <3>1, <4>2, <4>3, <4>5
    <3> QED
      BY <3>3, <3>4
  <2>6. GossipApplied'
    BY <2>5 DEF GossipApplied
  <2>7. \A i \in 1 .. offset' : File'[i].completed
    BY <1>1, <1>2, <2>1
  <2> HIDE DEF r
  <2> QED
    BY <2>1, <2>4, <2>6, <2>7 DEF GossipInv, FollowInv
<1>7. CASE CloseStore /\ UNCHANGED storeFileVars
  <2>1. ~opened' /\ ~replaced' /\ offset' = 0
    BY <1>7 DEF CloseStore
  <2>2. Len(File') \in Nat
    BY <1>1, FileType
  <2> QED
    BY <2>1, <2>2 DEF GossipInv, FollowInv, GossipApplied
<1>8. ASSUME UNCHANGED channelVars, opened' = opened, replaced' = replaced, offset' = offset,
             missed' = missed,
             Len(File') >= Len(File),
             \A i \in 1 .. Len(File) :
               /\ File'[i].id = File[i].id /\ File'[i].policy = File[i].policy
               /\ File[i].completed => File'[i].completed
               /\ File[i].deleted => File'[i].deleted
      PROVE  GossipInv'
  <2>1. AllMove /\ AllStay /\ Channels' = Channels
    BY <1>1, <1>8, UnchangedMoves DEF channelVars
  <2>2. GossipApplied' /\ \A i \in 1 .. offset' : File'[i].completed
    BY <1>2, <1>8, <2>1, AppliedStays
  <2>3. Len(File') \in Nat
    BY <1>1, FileType
  <2> QED
    BY <1>1, <1>2, <1>8, <2>1, <2>2, <2>3 DEF GossipInv, FollowInv, InGraph
<1>9. ASSUME NEW id \in Ids, Announce(id), UNCHANGED channelVars
      PROVE  GossipInv'
  <2>1. /\ opened' = opened /\ replaced' = replaced /\ oldStore' = oldStore
        /\ offset' = offset /\ missed' = missed
    BY <1>9 DEF Announce, followVars
  <2>2. CASE replaced
    <3>1. File' = File
      BY <2>1, <2>2 DEF File
    <3> QED
      BY <1>2, <1>8, <1>9, <2>1, <3>1
  <2>3. CASE ~replaced
    <3>1. File = store /\ File' = store'
      BY <2>1, <2>3 DEF File
    <3>2. /\ Len(File') = Len(File) + 1
          /\ \A i \in 1 .. Len(File) : File'[i] = File[i]
      BY <1>1, <1>9, <3>1, AppendedType
    <3> QED
      BY <1>2, <1>8, <1>9, <2>1, <3>2
  <2> QED
    BY <2>2, <2>3
<1>10. CASE CompleteRecord /\ UNCHANGED channelVars
  <2>1. /\ opened' = opened /\ replaced' = replaced /\ oldStore' = oldStore
        /\ offset' = offset /\ missed' = missed
    BY <1>10 DEF CompleteRecord, followVars
  <2>2. CASE replaced
    <3>1. File' = File
      BY <2>1, <2>2 DEF File
    <3> QED
      BY <1>2, <1>8, <1>10, <2>1, <3>1
  <2>3. CASE ~replaced
    <3>1. File = store /\ File' = store'
      BY <2>1, <2>3 DEF File
    <3>2. /\ Len(File') = Len(File)
          /\ \A i \in 1 .. Len(File) : SameRecord(File[i], File'[i])
      BY <1>1, <1>10, <3>1, CompletedType
    <3> QED
      BY <1>2, <1>8, <1>10, <2>1, <3>2 DEF SameRecord
  <2> QED
    BY <2>2, <2>3
<1>11. CASE Compact /\ UNCHANGED channelVars
  <2>1. opened' = opened /\ offset' = offset /\ missed' = missed
    BY <1>11 DEF Compact
  <2>2. CASE opened
    <3>1. File' = File /\ replaced'
      BY <1>11, <2>2 DEF Compact, File
    <3>2. AllMove /\ Channels' = Channels
      BY <1>1, <1>11, UnchangedMoves DEF channelVars
    <3>3. GossipApplied'
      BY <1>2, <2>1, <3>1, <3>2, AppliedStays
    <3> QED
      BY <1>1, <2>1, <2>2, <3>1, <3>2, <3>3 DEF GossipInv, FollowInv, InGraph
  <2>3. CASE ~opened
    <3>1. offset' = 0 /\ ~replaced' /\ ~opened'
      BY <1>1, <1>11, <2>1, <2>3 DEF Compact, FollowInv
    <3>2. Len(File') \in Nat
      BY <1>1, FileType
    <3> QED
      BY <3>1, <3>2 DEF GossipInv, FollowInv, GossipApplied
  <2> QED
    BY <2>2, <2>3
<1>12. CASE Reopen
  BY <1>7, <1>12 DEF Reopen
<1> QED
  BY <1>3, <1>4, <1>5, <1>6, <1>7, <1>9, <1>10, <1>11, <1>12, GossipMoves DEF Follow

LEMMA GossipInvariant == Spec => []GossipInv
<1>1. TypeInv /\ GossipInv /\ [Next]_vars => GossipInv'
  BY GossipInvNext
<1> QED
  BY <1>1, GossipInvInit, TypeInvariant, PTL DEF Spec

\* followGossipStore: while lightningd appends, completes, deletes and compacts,
\* and lists and single reads are applied in between, every record the follower
\* passed is in force in the graph.
THEOREM GossipInForce == Spec => []GossipApplied
<1>1. GossipInv => GossipApplied
  BY DEF GossipInv
<1> QED
  BY <1>1, GossipInvariant, PTL
-----------------------------------------------------------------------------
(***************************************************************************)
(* Bounds.                                                                 *)
(***************************************************************************)
\* The bounds among these beliefs are ones the channels respect, but for the
\* ids that received since.
Sound(beliefs, newer) ==
  \A id \in DOMAIN beliefs \ (newer \cup doubted) :
    beliefs[id].Upper => Told(id) <= beliefs[id].Liquidity

\* Those the start read, unless the graph learned better since.
PendingSound ==
  \A id \in DOMAIN pendingBeliefs \ doubted :
    \/ pendingBeliefs[id].Upper => Told(id) <= pendingBeliefs[id].Liquidity
    \/ id \in InGraph /\ Channels[id].Timestamp >= pendingBeliefs[id].Timestamp

\* A bound may be saved, left behind by a payment, read again and applied: it
\* holds at each of these places.
BoundInv ==
  /\ BoundHolds
  /\ Sound(data, behind["data"])
  /\ saved # NoFile => Sound(saved, behind["saved"])
  /\ pendingBeliefs # NoFile => PendingSound

LEMMA BoundInvInit == Init => BoundInv
<1> SUFFICES ASSUME Init
             PROVE  BoundInv
  OBVIOUS
<1>1. BoundHolds /\ DOMAIN data = {} /\ pendingBeliefs = saved
  BY NothingType DEF Init, ChannelsInit, StoreInit, BoundHolds, InGraph, Nothing
<1>2. ASSUME saved # NoFile, NEW id \in DOMAIN saved
      PROVE  ~saved[id].Upper
  <2>1. PICK i \in Ids :
             saved = [j \in {i} |-> [Liquidity |-> 1, Upper |-> FALSE, Timestamp |-> 1]]
    BY <1>2 DEF Init, StoreInit
  <2> QED
    BY <1>2, <2>1
<1> QED
  BY <1>1, <1>2 DEF BoundInv, Sound, PendingSound

LEMMA ToldTypes == LearningTypeOK => \A id \in Ids : Told(id) \in Int
BY ToldType

LEMMA ToldTypesNext == LearningTypeOK' => \A id \in Ids : Told(id)' \in Int
<1>1. LearningTypeOK' => (\A id \in Ids : Told(id) \in Int)'
  BY ToldTypes, PTL
<1> QED
  BY <1>1

LEMMA LoosenKeepsBounds ==
  ASSUME TypeInv, LearningTypeOK', BoundHolds, AllMove, AllLoosen, ToldGrows,
         doubted \subseteq doubted'
  PROVE  BoundHolds'
<1> SUFFICES ASSUME NEW id \in InGraph' \ doubted', Channels'[id].Upper
             PROVE  Told(id)' <= Channels'[id].Liquidity
  BY DEF BoundHolds
<1>1. /\ id \in Ids /\ Channels[id] # Absent /\ Channels[id].Upper
      /\ Channels[id].Liquidity <= Channels'[id].Liquidity
      /\ Channels'[id] \in Entries
  BY DEF AllLoosen, Loosens, AllMove, Moves, InGraph
<1>2. Told(id) <= Channels[id].Liquidity /\ Told(id)' <= Told(id)
  BY <1>1 DEF BoundHolds, InGraph, ToldGrows
<1>3. /\ Channels[id].Liquidity \in 0 .. Cap /\ Channels'[id].Liquidity \in 0 .. Cap
      /\ Told(id) \in Int /\ Told(id)' \in Int
  <2>1. Channels[id].Liquidity \in 0 .. Cap /\ Channels'[id].Liquidity \in 0 .. Cap
    BY <1>1, EntryOf, EntryFields DEF TypeInv, Timely, TypeOK
  <2>2. Told(id) \in Int /\ Told(id)' \in Int
    BY <1>1, ToldType, ToldTypesNext DEF TypeInv, TypeOK
  <2> QED
    BY <2>1, <2>2
<1> QED
  BY <1>1, <1>2, <1>3

\* What is kept of the bounds stays sound if what a channel is told to hold more
\* is noted.
LEMMA SoundStays ==
  ASSUME LearningTypeOK, LearningTypeOK', HistoryGrows, MovesAreNoted,
         NEW beliefs, IsState(beliefs), NEW w \in Saves,
         \A id \in DOMAIN beliefs \ (behind[w] \cup doubted) :
           beliefs[id].Upper => Told(id) <= beliefs[id].Liquidity
  PROVE  \A id \in DOMAIN beliefs \ (behind'[w] \cup doubted') :
           beliefs[id].Upper => Told(id)' <= beliefs[id].Liquidity
<1> SUFFICES ASSUME NEW id \in DOMAIN beliefs \ (behind'[w] \cup doubted'), beliefs[id].Upper
             PROVE  Told(id)' <= beliefs[id].Liquidity
  OBVIOUS
<1>1. /\ id \in Ids /\ beliefs[id].Liquidity \in Int
      /\ Told(id) \in Int /\ Told(id)' \in Int
  <2>1. id \in Ids /\ beliefs[id] \in Beliefs
    BY DEF IsState
  <2>2. beliefs[id].Liquidity \in Int
    BY <2>1, ChannelsAssumption DEF Beliefs
  <2> QED
    BY <2>1, <2>2, ToldTypes, ToldTypesNext
<1>2. Told(id) <= beliefs[id].Liquidity
  BY DEF HistoryGrows
<1>3. Told(id)' <= Told(id)
  BY <1>1 DEF MovesAreNoted, Noted
<1> QED
  BY <1>1, <1>2, <1>3

LEMMA PendingStays ==
  ASSUME TypeInv, LearningTypeOK', HistoryGrows, MovesAreNoted, AllMove,
         pendingBeliefs # NoFile, PendingSound, pendingBeliefs' = pendingBeliefs,
         \A id \in InGraph \ doubted' : Channels'[id] # Absent \/ Channels[id].Timestamp = 0
  PROVE  PendingSound'
<1> SUFFICES ASSUME NEW id \in DOMAIN pendingBeliefs \ doubted'
             PROVE  \/ pendingBeliefs[id].Upper => Told(id)' <= pendingBeliefs[id].Liquidity
                    \/ /\ id \in InGraph'
                       /\ Channels'[id].Timestamp >= pendingBeliefs[id].Timestamp
  BY DEF PendingSound
<1>1. /\ id \in Ids /\ pendingBeliefs[id] \in Beliefs
      /\ pendingBeliefs[id].Timestamp \in 1 .. now
      /\ now \in Nat /\ id \notin doubted
  BY DEF TypeInv, Timely, TypeOK, ChannelsTypeOK, StoreTypeOK, IsFile, IsState, DatedFile, Dated,
         DatedBy, HistoryGrows
<1>2. /\ pendingBeliefs[id].Liquidity \in Int
      /\ Told(id) \in Int /\ Told(id)' \in Int
  <2>1. pendingBeliefs[id].Liquidity \in Int
    BY <1>1, ChannelsAssumption DEF Beliefs
  <2> QED
    BY <1>1, <2>1, ToldTypes, ToldTypesNext DEF TypeInv, TypeOK
<1>3. CASE id \in InGraph /\ Channels[id].Timestamp >= pendingBeliefs[id].Timestamp
  <2>1. Channels[id] # Absent /\ Channels[id].Timestamp \in Nat
    BY <1>1, <1>3, EntryOf, EntryFields DEF TypeInv, Timely, TypeOK, InGraph
  <2>2. Channels'[id] # Absent
    BY <1>1, <1>3, <2>1
  <2>3. /\ Channels'[id].Timestamp >= Channels[id].Timestamp
        /\ Channels'[id] \in Entries /\ Channels'[id].Timestamp \in Nat
    BY <1>1, <2>1, <2>2, EntryFields DEF AllMove, Moves
  <2> QED
    BY <1>1, <1>3, <2>1, <2>2, <2>3 DEF InGraph
<1>4. CASE pendingBeliefs[id].Upper => Told(id) <= pendingBeliefs[id].Liquidity
  <2>1. CASE Told(id)' <= Told(id)
    BY <1>2, <1>4, <2>1
  <2>2. CASE Noted(id)
    BY <1>1, <2>2 DEF InGraph, Noted
  <2> QED
    BY <1>1, <2>1, <2>2 DEF MovesAreNoted
<1> QED
  BY <1>1, <1>3, <1>4 DEF PendingSound

\* Steps that save nothing and read nothing.
LEMMA StepKeeps ==
  ASSUME TypeInv, LearningTypeOK', BoundInv, BoundHolds', HistoryGrows, MovesAreNoted, AllMove,
         \/ pendingBeliefs = NoFile
         \/ \A id \in InGraph \ doubted' :
              Channels'[id] # Absent \/ Channels[id].Timestamp = 0,
         data' = data \/ data' = Nothing, saved' = saved, pendingBeliefs' = pendingBeliefs
  PROVE  BoundInv'
<1>1. /\ LearningTypeOK /\ IsState(data) /\ (saved # NoFile => IsState(saved))
      /\ "data" \in Saves /\ "saved" \in Saves /\ DOMAIN Nothing = {}
  BY DEF TypeInv, TypeOK, StoreTypeOK, IsFile, Saves, Nothing
<1>2. Sound(data, behind["data"])'
  BY <1>1, SoundStays DEF BoundInv, Sound
<1>3. saved' # NoFile => Sound(saved, behind["saved"])'
  BY <1>1, SoundStays DEF BoundInv, Sound
<1>4. pendingBeliefs' # NoFile => PendingSound'
  BY PendingStays DEF BoundInv
<1> QED
  BY <1>2, <1>3, <1>4 DEF BoundInv

LEMMA LooseStepKeeps ==
  ASSUME TypeInv, LearningTypeOK', BoundInv, HistoryGrows, ToldGrows, AllMove, AllLoosen,
         \/ pendingBeliefs = NoFile
         \/ \A id \in InGraph \ doubted' :
              Channels'[id] # Absent \/ Channels[id].Timestamp = 0,
         data' = data \/ data' = Nothing, saved' = saved, pendingBeliefs' = pendingBeliefs
  PROVE  BoundInv'
<1>1. BoundHolds'
  BY LoosenKeepsBounds DEF BoundInv, HistoryGrows
<1>2. MovesAreNoted
  BY DEF ToldGrows, MovesAreNoted
<1> QED
  BY <1>1, <1>2, StepKeeps

\* No split moves anything: what the channels are told to hold stays.
LEMMA NobodyLearns ==
  ASSUME TypeInv, UNCHANGED <<balance, split, shared>>
  PROVE  \A i \in Ids : Told(i)' = Told(i) /\ Told(i) \in Int
<1>1. \A i \in Ids : Told(i)' = Told(i)
  BY DEF Told, Holds, Amount, Paying
<1> QED
  BY <1>1, ToldTypes DEF TypeInv, TypeOK

LEMMA ApplyKeepsBounds ==
  ASSUME TypeInv, BoundInv, Apply
  PROVE  BoundInv'
<1>1. /\ pendingBeliefs' = NoFile /\ data' = data /\ saved' = saved
      /\ UNCHANGED <<balance, split, shared>> /\ behind' = behind /\ doubted' = doubted
  BY DEF Apply, ApplyPending, nodeVars, learningVars
<1>2. /\ AllMove /\ AllStay
      /\ \A id \in Ids :
           \/ Channels'[id] = Channels[id]
           \/ /\ id \in InGraph /\ pendingBeliefs # NoFile
              /\ id \in DOMAIN pendingBeliefs
              /\ pendingBeliefs[id].Timestamp > Channels[id].Timestamp
              /\ Channels'[id].Upper = pendingBeliefs[id].Upper
              /\ Channels'[id].Liquidity = pendingBeliefs[id].Liquidity
  BY ApplyMoves
<1>3. \A id \in Ids : Told(id)' = Told(id)
  BY <1>1, NobodyLearns
<1>4. BoundHolds'
  <2> SUFFICES ASSUME NEW id \in InGraph' \ doubted, Channels'[id].Upper
               PROVE  Told(id)' <= Channels'[id].Liquidity
    BY <1>1 DEF BoundHolds
  <2>1. id \in Ids /\ Channels'[id] # Absent
    BY DEF InGraph
  <2>2. CASE Channels'[id] = Channels[id]
    BY <1>3, <2>1, <2>2 DEF BoundInv, BoundHolds, InGraph
  <2>3. CASE Channels'[id] # Channels[id]
    <3>1. /\ id \in InGraph /\ pendingBeliefs # NoFile /\ id \in DOMAIN pendingBeliefs
          /\ pendingBeliefs[id].Timestamp > Channels[id].Timestamp
          /\ Channels'[id].Upper = pendingBeliefs[id].Upper
          /\ Channels'[id].Liquidity = pendingBeliefs[id].Liquidity
      BY <1>2, <2>1, <2>3
    <3>2. Channels[id].Timestamp \in Nat /\ pendingBeliefs[id].Timestamp \in Nat
      <4>1. Channels[id] \in Entries
        BY <2>1, <3>1, EntryOf DEF TypeInv, Timely, TypeOK, InGraph
      <4>2. pendingBeliefs[id] \in Beliefs
        BY <3>1 DEF TypeInv, TypeOK, StoreTypeOK, IsFile, IsState
      <4> QED
        BY <4>1, <4>2, EntryFields DEF Beliefs
    <3>3. pendingBeliefs[id].Upper => Told(id) <= pendingBeliefs[id].Liquidity
      BY <3>1, <3>2 DEF BoundInv, PendingSound
    <3> QED
      BY <1>3, <2>1, <3>1, <3>3
  <2> QED
    BY <2>2, <2>3
<1>5. \A id \in DOMAIN data \ (behind["data"] \cup doubted) : id \in Ids
  BY DEF TypeInv, TypeOK, StoreTypeOK, IsState
<1>6. saved # NoFile => \A id \in DOMAIN saved : id \in Ids
  BY DEF TypeInv, TypeOK, StoreTypeOK, IsFile, IsState
<1> QED
  BY <1>1, <1>3, <1>4, <1>5, <1>6 DEF BoundInv, Sound

LEMMA SaveKeepsBounds ==
  ASSUME TypeInv, BoundInv, Save
  PROVE  BoundInv'
<1>1. /\ ChannelsTypeOK /\ GraphDated /\ Channels' = Channels
      /\ UNCHANGED <<balance, split, shared>> /\ doubted' = doubted
      /\ pendingBeliefs' = pendingBeliefs
      /\ behind \in [Saves -> SUBSET Ids] /\ "data" \in Saves /\ "saved" \in Saves
      /\ behind' = CASE saving = "marshal" -> [behind EXCEPT !["data"] = {}]
                     [] saving = "rename" -> [behind EXCEPT !["saved"] = behind["data"]]
                     [] OTHER -> behind
  BY DEF TypeInv, Timely, TypeOK, LearningTypeOK, Save, SaveStep, Marshal, WriteSynced, Rotate,
         Rename, RemoveLegacyGraph, channelVars, Saves
<1>2. \A id \in Ids : Told(id)' = Told(id)
  BY <1>1, NobodyLearns
<1>3. InGraph \subseteq Ids /\ (pendingBeliefs # NoFile => DOMAIN pendingBeliefs \subseteq Ids)
      /\ DOMAIN data \subseteq Ids /\ (saved # NoFile => DOMAIN saved \subseteq Ids)
  BY DEF InGraph, TypeInv, TypeOK, StoreTypeOK, IsFile, IsState
<1>4. BoundHolds'
  BY <1>1, <1>2, <1>3 DEF BoundInv, BoundHolds, InGraph
<1>5. pendingBeliefs' # NoFile => PendingSound'
  BY <1>1, <1>2, <1>3 DEF BoundInv, PendingSound, InGraph
<1>6. DOMAIN Nothing = {}
  BY DEF Nothing
<1>7. CASE Marshal
  <2>1. /\ data' = Snapshot /\ saved' = saved
        /\ behind'["data"] = {} /\ behind'["saved"] = behind["saved"]
    BY <1>1, <1>7 DEF Marshal
  <2>2. Sound(data, behind["data"])'
    BY <1>1, <1>2, <1>3, <2>1, SnapshotType DEF BoundInv, BoundHolds, Sound
  <2>3. saved' # NoFile => Sound(saved, behind["saved"])'
    BY <1>1, <1>2, <1>3, <2>1 DEF BoundInv, Sound
  <2> QED
    BY <1>4, <1>5, <2>2, <2>3 DEF BoundInv
<1>8. CASE WriteSynced \/ Rotate
  <2>1. data' = data /\ saved' = saved /\ behind' = behind
    BY <1>1, <1>8 DEF WriteSynced, Rotate
  <2> QED
    BY <1>1, <1>2, <1>3, <1>4, <1>5, <2>1 DEF BoundInv, Sound
<1>9. CASE Rename
  <2>1. /\ saved' = data /\ data' \in {data, Nothing}
        /\ behind'["saved"] = behind["data"] /\ behind'["data"] = behind["data"]
    BY <1>1, <1>9 DEF Rename, EndSave
  <2>2. Sound(data, behind["data"])' /\ Sound(saved, behind["saved"])'
    BY <1>1, <1>2, <1>3, <1>6, <2>1 DEF BoundInv, Sound
  <2> QED
    BY <1>4, <1>5, <2>2 DEF BoundInv
<1>10. CASE RemoveLegacyGraph
  <2>1. data' = Nothing /\ saved' = saved /\ behind' = behind
    BY <1>1, <1>10 DEF RemoveLegacyGraph, EndSave
  <2> QED
    BY <1>1, <1>2, <1>3, <1>4, <1>5, <1>6, <2>1 DEF BoundInv, Sound
<1> QED
  BY <1>7, <1>8, <1>9, <1>10 DEF Save, SaveStep

\* What payments taught since the save is lost, and what the channels are told
\* to hold changes with those nobody learned of: they are doubted.
LEMMA RestartKeepsBounds ==
  ASSUME TypeInv, SaveInv, BoundInv, Restarts
  PROVE  BoundInv'
<1>1. /\ Channels' = [id \in Ids |-> Absent]
      /\ pendingBeliefs' = Readable /\ Readable = saved
      /\ data' = Nothing /\ saved' = saved /\ SplitsStop
  BY RestartEmpties DEF Restart, LoadLearned, SaveInv, SavedIsNeverLost
<1>2. /\ doubted \cup behind["saved"] \subseteq doubted'
      /\ \A i \in Ids : Told(i)' <= Told(i) \/ i \in doubted'
      /\ LearningTypeOK /\ LearningTypeOK'
  BY <1>1, StopMoves DEF TypeInv, TypeOK
<1>3. BoundHolds'
  BY <1>1 DEF BoundHolds, InGraph
<1>4. Sound(data, behind["data"])'
  BY <1>1 DEF Sound, Nothing
<1>5. ASSUME saved # NoFile, NEW id \in DOMAIN saved \ doubted', saved[id].Upper
      PROVE  Told(id)' <= saved[id].Liquidity
  <2>1. id \in Ids /\ saved[id] \in Beliefs
    BY <1>5 DEF TypeInv, TypeOK, StoreTypeOK, IsFile, IsState
  <2>2. saved[id].Liquidity \in Int /\ Told(id) \in Int /\ Told(id)' \in Int
    BY <1>2, <2>1, ChannelsAssumption, ToldTypes, ToldTypesNext DEF Beliefs
  <2>3. Told(id) <= saved[id].Liquidity /\ Told(id)' <= Told(id)
    BY <1>2, <1>5, <2>1 DEF BoundInv, Sound
  <2> QED
    BY <2>2, <2>3
<1>6. saved # NoFile => Sound(saved, behind["saved"])' /\ PendingSound'
  BY <1>1, <1>5 DEF Sound, PendingSound
<1> QED
  BY <1>1, <1>3, <1>4, <1>6 DEF BoundInv

\* What a refresh drops is only doubted if it may be learned again from what the
\* start read.
LEMMA DropKeepsBounds ==
  ASSUME TypeInv, LearningTypeOK', BoundInv, Sync \/ Prune
  PROVE  BoundInv'
<1>1. /\ ChannelsTypeOK /\ GraphDated /\ IsList(list)
      /\ UNCHANGED storeVars /\ UNCHANGED <<balance, split, shared>> /\ behind' = behind /\ Drop
  BY DEF TypeInv, Timely, TypeOK, Sync, Prune, Drop
<1>2. AllMove /\ AllLoosen
  BY <1>1, SyncChannelsMoves, PruneChannelsMoves DEF Sync, Prune
<1>3. doubted' = doubted \cup (IF pendingBeliefs = NoFile THEN {}
                              ELSE {id \in {j \in InGraph : Channels'[j] = Absent} :
                                      Channels[id].Timestamp # 0})
  BY <1>1 DEF Drop
<1>4. \/ pendingBeliefs = NoFile
      \/ \A id \in InGraph \ doubted' : Channels'[id] # Absent \/ Channels[id].Timestamp = 0
  BY <1>3
<1>5. HistoryGrows
  BY <1>1, <1>3 DEF HistoryGrows
<1>6. ToldGrows
  BY <1>1, NobodyLearns DEF ToldGrows
<1> QED
  BY <1>1, <1>2, <1>4, <1>5, <1>6, LooseStepKeeps DEF storeVars

LEMMA BoundInvNext ==
  ASSUME TypeInv, SaveInv, BoundInv, [Next]_vars
  PROVE  BoundInv'
<1>1. /\ ChannelsTypeOK /\ GraphDated /\ LearningInv /\ LearningTypeOK'
      /\ reread # NoFile => IsList(reread)
  BY LearningNext DEF TypeInv, Timely, TypeOK, LearningInv
<1>2. CASE Sync \/ Prune
  BY <1>1, <1>2, DropKeepsBounds
<1>3. CASE Apply
  BY <1>3, ApplyKeepsBounds
<1>4. CASE FollowGossip \/ RefreshChannel \/ Fade
  <2>1. AllMove /\ AllLoosen /\ AllStay
    BY <1>1, <1>4, FollowMoves, RefreshChannelsMoves, DecayMoves, RefreshLiquidityMoves
       DEF FollowGossip, RefreshChannel, Fade
  <2>2. UNCHANGED <<storeVars, learningVars>>
    BY <1>4 DEF FollowGossip, RefreshChannel, Fade, nodeVars
  <2>3. HistoryGrows /\ ToldGrows
    BY <2>2, NobodyLearns DEF learningVars, HistoryGrows, ToldGrows
  <2> QED
    BY <1>1, <2>1, <2>2, <2>3, LooseStepKeeps DEF storeVars, AllStay, InGraph
<1>5. CASE SplitLearns
  <2>1. /\ AllMove /\ AllStay /\ BoundHolds' /\ MovesAreNoted /\ HistoryGrows
    BY <1>1, <1>5, SplitLearnsMoves DEF SplitLearns, LearningInv, BoundInv
  <2>2. UNCHANGED storeVars
    BY <1>5 DEF SplitLearns
  <2> QED
    BY <1>1, <2>1, <2>2, StepKeeps DEF storeVars, AllStay, InGraph
<1>6. CASE Save
  BY <1>6, SaveKeepsBounds
<1>7. CASE MoneySteps
  <2>1. ToldGrows /\ HistoryGrows
    BY <1>1, <1>7, MoneyMoves
  <2>2. UNCHANGED <<channelVars, storeVars>>
    BY <1>7 DEF MoneySteps, Pay, Network
  <2>3. AllMove /\ AllLoosen /\ AllStay
    BY <1>1, <2>2, UnchangedMoves
  <2> QED
    BY <1>1, <2>1, <2>2, <2>3, LooseStepKeeps DEF storeVars, AllStay, InGraph
<1>8. CASE RefreshWaits \/ SaveError \/ Close \/ WorldSteps \/ UNCHANGED vars
  <2>1. UNCHANGED channelVars
    BY <1>8, OtherStepsKeep DEF StoreSteps
  <2>2. AllMove /\ AllLoosen /\ AllStay
    BY <1>1, <2>1, UnchangedMoves
  <2>3. UNCHANGED learningVars
    BY <1>8 DEF RefreshWaits, StartRefresh, StartPartialRefresh, RefreshFails, EndRefresh,
                SaveError, Close, WorldSteps, GossipEvent, GossipFails, Complete, ReadChannel,
                Tick, vars, nodeVars
  <2>4. /\ data' = data \/ data' = Nothing
        /\ saved' = saved /\ pendingBeliefs' = pendingBeliefs
    BY <1>8 DEF RefreshWaits, StartRefresh, StartPartialRefresh, RefreshFails, EndRefresh,
                SaveError, SaveFails, EndSave, Close, CloseSaves, WorldSteps, GossipEvent,
                GossipFails, Complete, ReadChannel, Tick, vars, storeVars
  <2>5. HistoryGrows /\ ToldGrows
    BY <2>3, NobodyLearns DEF learningVars, HistoryGrows, ToldGrows
  <2> QED
    BY <1>1, <2>2, <2>4, <2>5, LooseStepKeeps DEF AllStay, InGraph
<1>9. CASE Restarts
  BY <1>9, RestartKeepsBounds
<1> QED
  BY <1>2, <1>3, <1>4, <1>5, <1>6, <1>7, <1>8, <1>9, StepKinds DEF GraphSteps, StoreSteps

LEMMA BoundInvariant == Spec => []BoundInv
<1>1. TypeInv /\ SaveInv /\ BoundInv /\ [Next]_vars => BoundInv'
  BY BoundInvNext
<1> QED
  BY <1>1, BoundInvInit, TypeInvariant, SaveInvariant, PTL DEF Spec

\* Channel.Upper, with payments that overlap: wherever their HTLCs, what they
\* teach, decays, resets, lists, saves and restarts come between one another, a
\* bound is one its channel respects, as far as the payments learned tell.  The
\* ids whose bounds may be too low are excused (doubted): a failure learned
\* after its channel carried another payment, a success learned before
\* another one the other way, and what was taught and lost.
THEOREM BoundsKept == Spec => []BoundHolds
<1>1. BoundInv => BoundHolds
  BY DEF BoundInv
<1> QED
  BY <1>1, BoundInvariant, PTL
=============================================================================
