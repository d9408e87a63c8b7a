------------------------------ MODULE Channels ------------------------------
(***************************************************************************)
(* The channels of other nodes in the graph (graph/graph.go, beliefs.go):  *)
(* by channel id (a scid and a direction), the policy last read and what   *)
(* payments showed of its liquidity.                                       *)
(*                                                                         *)
(* Three writers bring policies: whole lists of channels (SyncChannels),   *)
(* the channel_updates of the gossip store (ApplyChannelUpdate) and single *)
(* channels read again after a failure (RefreshChannels).  Each holds      *)
(* channelsLock for the whole of its change, so each is one step.  A       *)
(* policy is abstracted to its timestamp, LastUpdate; liquidity is in      *)
(* units of which a channel holds Cap.  Our own channels are in PeerTable. *)
(***************************************************************************)
EXTENDS Integers, FiniteSets

CONSTANTS
  Scids,        \* the channels
  Cap,          \* capacity of a channel (AmountMsat), in units
  PruneAfter,   \* PRUNING_INTERVAL
  ResetAfter,   \* circular-liquidity-refresh
  Absent        \* not in the map

ASSUME ChannelsAssumption ==
  /\ IsFiniteSet(Scids)
  /\ Cap \in Nat \ {0} /\ PruneAfter \in Nat /\ ResetAfter \in Nat

VARIABLES
  now,        \* time.Now().Unix()
  Channels,   \* by id, its entry or Absent
  lastDecay   \* time of the last DecayLiquidity

channelVars == <<Channels, lastDecay>>

Ids == Scids \X {0, 1}

Opposite(id) == <<id[1], 1 - id[2]>>

Least(a, b) == IF a < b THEN a ELSE b
Most(a, b) == IF a < b THEN b ELSE a

Entries ==
  [LastUpdate : Nat, Liquidity : 0 .. Cap, Upper : BOOLEAN, Timestamp : Nat]

ASSUME AbsentAssumption == Absent \notin Entries

ChannelsTypeOK ==
  /\ now \in Nat /\ lastDecay \in Nat
  /\ Channels \in [Ids -> Entries \cup {Absent}]

InGraph == {id \in Ids : Channels[id] # Absent}

\* The belief before any payment: half the capacity.
Default == Cap \div 2

ChannelsInit ==
  /\ now = 1 /\ lastDecay = 0
  /\ Channels = [id \in Ids |-> Absent]
-----------------------------------------------------------------------------
(***************************************************************************)
(* Policies.  A list is a function from the ids it has to their policies.  *)
(***************************************************************************)
IsList(x) == \E S \in SUBSET Ids : x \in [S -> Nat]

NewChannel(policy) ==
  [LastUpdate |-> policy, Liquidity |-> Default, Upper |-> FALSE, Timestamp |-> 0]

\* Slip: the list wins over a newer update from gossip.
RefreshedByList(list, id) ==
  IF id \notin DOMAIN list THEN Channels[id]
  ELSE IF Channels[id] = Absent THEN NewChannel(list[id])
  ELSE [Channels[id] EXCEPT !.LastUpdate = list[id]]

\* refreshChannels: a listed channel is added, or gets the listed policy unless
\* it has a newer one; what was learned of its liquidity stays.
Refreshed(list, id) ==
  IF id \notin DOMAIN list THEN Channels[id]
  ELSE IF Channels[id] = Absent THEN NewChannel(list[id])
  ELSE IF Channels[id].LastUpdate > list[id] THEN Channels[id]
  ELSE [Channels[id] EXCEPT !.LastUpdate = list[id]]

RefreshChannels(list) ==
  /\ Channels' = [id \in Ids |-> Refreshed(list, id)]
  /\ UNCHANGED lastDecay

\* The list holds less than half of the channels: it is likely incomplete.
Incomplete(list) == Cardinality(DOMAIN list) < Cardinality(InGraph) \div 2

\* A list read at asOf: channels it lacks are removed, unless they were updated
\* since, or the list is incomplete.
SyncChannels(list, asOf) ==
  /\ Channels' =
       [id \in Ids |->
          IF \/ id \in DOMAIN list \/ Channels[id] = Absent
             \/ Incomplete(list) \/ Channels[id].LastUpdate >= asOf
          THEN Refreshed(list, id)
          ELSE Absent]
  /\ UNCHANGED lastDecay

PruneChannels ==
  /\ Channels' =
       [id \in Ids |->
          IF id \in InGraph /\ Channels[id].LastUpdate + PruneAfter < now
          THEN Absent
          ELSE Channels[id]]
  /\ UNCHANGED lastDecay

\* A channel_update gives a known channel its policy, if newer.
ApplyChannelUpdate(id, policy) ==
  /\ Channels' = [Channels EXCEPT ![id] =
       IF @ = Absent \/ policy <= @.LastUpdate THEN @
       ELSE [@ EXCEPT !.LastUpdate = policy]]
  /\ UNCHANGED lastDecay
-----------------------------------------------------------------------------
(***************************************************************************)
(* Liquidity.                                                              *)
(***************************************************************************)
\* It holds at most a: a bound.
AtMost(e, a) ==
  [e EXCEPT !.Liquidity = Least(@, a), !.Upper = @ \/ e.Liquidity > a,
            !.Timestamp = now]

\* It holds at least a: no bound any more, if that raises the belief.
AtLeast(e, a) ==
  [e EXCEPT !.Liquidity = Most(@, a), !.Upper = @ /\ e.Liquidity >= a,
            !.Timestamp = now]

\* Used up, it keeps 1: a belief of 0 is an unusable channel.
Spent(e, a) ==
  [AtLeast(e, a) EXCEPT !.Liquidity = IF @ = a THEN 1 ELSE @ - a]

Received(e, a) ==
  [e EXCEPT !.Liquidity = Least(@ + a, Cap), !.Timestamp = now]

\* Both directions of id learn, those in the graph.
Learn(id, here, there) ==
  /\ Channels' = [Channels EXCEPT
       ![id] = IF @ = Absent THEN @ ELSE here,
       ![Opposite(id)] = IF @ = Absent THEN @ ELSE there]
  /\ UNCHANGED lastDecay

Other(id) == Channels[Opposite(id)]

\* id could not forward a for lack of liquidity.
LearnUpperBound(id, a) ==
  Learn(id, AtMost(Channels[id], a - 1), AtLeast(Other(id), Cap - a))

\* id forwarded a, and the payment failed further on.
LearnLowerBound(id, a) ==
  Learn(id, AtLeast(Channels[id], a), AtMost(Other(id), Cap - a))

\* id forwarded a, which moved to the other side.
LearnPayment(id, a) ==
  Learn(id, Spent(Channels[id], a), Received(Other(id), a))

\* id is disabled, closed or unknown to its node.
MarkUnusable(id) ==
  Learn(id, [Channels[id] EXCEPT !.Liquidity = 0, !.Upper = FALSE, !.Timestamp = now],
        Other(id))

\* A belief that DecayLiquidity moves: learned before now, and not 0.
Fades(e) ==
  /\ e.Timestamp # 0 /\ Most(e.Timestamp, lastDecay) < now
  /\ e.Liquidity # 0 /\ (e.Upper \/ e.Liquidity # Default)

\* Slip: a bound fades toward the default, as an estimate does.
FadedAsEstimate(e) ==
  {[e EXCEPT !.Liquidity = x] :
     x \in Least(e.Liquidity, Default) .. Most(e.Liquidity, Default)}

\* What e may fade to, whatever the half-life: a bound loosens toward the
\* capacity, where it becomes the default; an estimate goes to the default.
Faded(e) ==
  IF e.Upper
  THEN {IF x = Cap THEN [e EXCEPT !.Liquidity = Default, !.Upper = FALSE]
        ELSE [e EXCEPT !.Liquidity = x] : x \in e.Liquidity .. Cap}
  ELSE {[e EXCEPT !.Liquidity = x] :
          x \in Least(e.Liquidity, Default) .. Most(e.Liquidity, Default)}

DecayLiquidity ==
  /\ lastDecay' = now
  /\ \E f \in [InGraph -> UNION {Faded(Channels[id]) : id \in InGraph} \cup
                          {Channels[id] : id \in InGraph}] :
       /\ \A id \in InGraph :
            IF Fades(Channels[id]) THEN f[id] \in Faded(Channels[id])
            ELSE f[id] = Channels[id]
       /\ Channels' = [id \in Ids |-> IF id \in InGraph THEN f[id] ELSE Absent]

\* RefreshLiquidity: beliefs nothing confirmed for long are reset.
RefreshLiquidity ==
  /\ Channels' =
       [id \in Ids |->
          IF id \in InGraph /\ Channels[id].Timestamp + ResetAfter < now
          THEN [Channels[id] EXCEPT !.Liquidity = Default, !.Upper = FALSE,
                                    !.Timestamp = now]
          ELSE Channels[id]]
  /\ UNCHANGED lastDecay
-----------------------------------------------------------------------------
(***************************************************************************)
(* What is kept of the beliefs across restarts.                            *)
(***************************************************************************)
Beliefs == [Liquidity : 0 .. Cap, Upper : BOOLEAN, Timestamp : Nat]

IsState(x) == \E S \in SUBSET Ids : x \in [S -> Beliefs]

Learned(e) == e.Timestamp # 0 /\ (e.Upper \/ e.Liquidity # Default)

LearnedIds == {id \in InGraph : Learned(Channels[id])}

Belief(e) ==
  [Liquidity |-> e.Liquidity, Upper |-> e.Upper, Timestamp |-> e.Timestamp]

\* Beliefs(): what the graph learned.
Snapshot == [id \in LearnedIds |-> Belief(Channels[id])]

\* ApplyBeliefs: not those that are too old, or older than what the graph has.
Applies(beliefs, id) ==
  /\ id \in DOMAIN beliefs /\ id \in InGraph
  /\ beliefs[id].Timestamp >= now - ResetAfter
  /\ beliefs[id].Timestamp > Channels[id].Timestamp

ApplyBeliefs(beliefs) ==
  /\ Channels' =
       [id \in Ids |->
          IF Applies(beliefs, id)
          THEN [LastUpdate |-> Channels[id].LastUpdate,
                Liquidity |-> beliefs[id].Liquidity,
                Upper |-> beliefs[id].Upper,
                Timestamp |-> beliefs[id].Timestamp]
          ELSE Channels[id]]
  /\ UNCHANGED lastDecay
=============================================================================
