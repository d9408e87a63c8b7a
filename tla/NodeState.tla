----------------------------- MODULE NodeState -----------------------------
(***************************************************************************)
(* The node's knowledge of the network, put together: the graph's channels *)
(* (Channels), the gossip follower that updates them (Gossip), the cron    *)
(* jobs that refresh and fade them (node/cron.go), what the splits'        *)
(* payments do and teach (Learning), and what survives a restart           *)
(* (LearnedStore).                                                         *)
(*                                                                         *)
(* Threads: the graph refresh, at the start and then as a cron job that is *)
(* never run twice at once; the follower; the liquidity job; rebalances'   *)
(* goroutines, which learn and read single channels again; Close.  The     *)
(* process may crash at any step and is started again.                     *)
(*                                                                         *)
(* What happens from outside is bounded by kind; Mixes holds the bounds an *)
(* instance explores.  Refreshes, jobs and the follower are not bounded.   *)
(***************************************************************************)
EXTENDS Learning, Gossip

CONSTANTS
  Mixes,      \* bounds: how many events of each kind may come
  Holdings    \* what direction 0 of a channel may hold at the start

\* Payments; ticks of the clock; changes of the gossip store; channels read
\* again; crashes and stops; failures of an RPC, a file or a read.
Kinds == {"payment", "tick", "gossip", "read", "stop", "failure"}

ASSUME NodeAssumption == Mixes \subseteq [Kinds -> Nat] /\ Holdings \subseteq 0 .. Cap

VARIABLES
  phase,      \* "boot" (Init), "run", "closing"
  refresh,    \* where refreshGraph is
  list, asOf, \* what listchannels returned to it, and when it was asked
  reread,     \* what a goroutine read of one channel again, or NoFile
  left        \* bounds: the events that may still come

threadVars  == <<refresh, list, asOf, reread>>
nodeVars    == <<phase, learningVars>>

vars == <<now, channelVars, storeVars, gossipVars, threadVars, nodeVars, left>>

TypeOK ==
  /\ ChannelsTypeOK /\ StoreTypeOK /\ GossipTypeOK /\ LearningTypeOK
  /\ phase \in {"boot", "run", "closing"}
  /\ refresh \in {"idle", "listed", "synced", "pruned", "saving"}
  /\ IsList(list) /\ asOf \in Nat /\ (reread = NoFile \/ IsList(reread))
  /\ left \in [Kinds -> Nat]

Event(kind) == left[kind] > 0 /\ left' = [left EXCEPT ![kind] = @ - 1]

Running == phase = "run"
-----------------------------------------------------------------------------
(***************************************************************************)
(* refreshGraph.                                                           *)
(***************************************************************************)
\* A list of what lightningd knows, of the ids in S.
ListOf(S) == [id \in S |-> known[id]]

\* listchannels answers.
StartRefresh ==
  /\ refresh = "idle" /\ phase # "closing"
  /\ refresh' = "listed" /\ list' = ListOf(Ids) /\ asOf' = now
  /\ UNCHANGED <<now, channelVars, storeVars, gossipVars, reread, nodeVars, left>>

\* It answers with a part, or says there are no channels.
StartPartialRefresh ==
  /\ Event("failure")
  /\ refresh = "idle" /\ phase # "closing"
  /\ refresh' = "listed" /\ asOf' = now
  /\ \E S \in SUBSET Ids : S # Ids /\ list' = ListOf(S)
  /\ UNCHANGED <<now, channelVars, storeVars, gossipVars, reread, nodeVars>>

\* It fails: at the start, the node runs with what it has.
RefreshFails ==
  /\ Event("failure")
  /\ refresh = "idle" /\ phase = "boot"
  /\ phase' = "run"
  /\ UNCHANGED <<now, channelVars, storeVars, gossipVars, threadVars, learningVars>>

\* What the graph loses now, the follower is not to be blamed for.  If it had
\* learned of it, older beliefs may be applied to it when it is back.
Drop ==
  LET gone == {id \in InGraph : Channels'[id] = Absent} IN
    /\ missed' = missed \cup gone
    /\ doubted' = doubted \cup
         (IF pendingBeliefs = NoFile THEN {}
          ELSE {id \in gone : Channels[id].Timestamp # 0})
    /\ UNCHANGED <<storeFileVars, opened, replaced, oldStore, offset,
                   balance, split, shared, behind>>

Sync ==
  /\ refresh = "listed"
  /\ SyncChannels(list, asOf) /\ Drop
  /\ refresh' = "synced"
  /\ list' = Nothing /\ asOf' = 0
  /\ UNCHANGED <<now, storeVars, reread, phase, left>>

Prune ==
  /\ refresh = "synced"
  /\ PruneChannels /\ Drop
  /\ refresh' = "pruned"
  /\ UNCHANGED <<now, storeVars, list, asOf, reread, phase, left>>

Apply ==
  /\ refresh = "pruned"
  /\ ApplyPending
  /\ refresh' = "saving"
  /\ UNCHANGED <<now, gossipVars, list, asOf, reread, nodeVars, left>>

\* Slip: the job stays marked as running, and every later one is skipped.
EndRefreshStuck ==
  /\ refresh = "saving" /\ saver # "refresh"
  /\ refresh' = refresh
  /\ phase' = IF phase = "boot" THEN "run" ELSE phase
  /\ UNCHANGED <<now, channelVars, storeVars, gossipVars, list, asOf, reread,
                 learningVars, left>>

\* The refresh ends with its save; at the start, so does Init.
EndRefresh ==
  /\ refresh = "saving" /\ saver # "refresh"
  /\ refresh' = "idle"
  /\ phase' = IF phase = "boot" THEN "run" ELSE phase
  /\ UNCHANGED <<now, channelVars, storeVars, gossipVars, list, asOf, reread,
                 learningVars, left>>

\* What comes after a save has read the graph is not in it.
Save ==
  /\ SaveStep
  /\ behind' = CASE saving = "marshal" -> [behind EXCEPT !["data"] = {}]
                 [] saving = "rename" -> [behind EXCEPT !["saved"] = behind["data"]]
                 [] OTHER -> behind
  /\ UNCHANGED <<now, channelVars, gossipVars, threadVars, phase,
                 balance, split, shared, doubted, left>>

SaveError ==
  /\ Event("failure") /\ SaveFails
  /\ UNCHANGED <<now, channelVars, gossipVars, threadVars, nodeVars>>

RefreshGraph == StartRefresh \/ Sync \/ Prune \/ Apply \/ EndRefresh
-----------------------------------------------------------------------------
(***************************************************************************)
(* Gossip and single channels.                                             *)
(***************************************************************************)
\* StartGossipParser: started once Init is done, stopped by Close.
FollowGossip ==
  /\ Running /\ Follow
  /\ UNCHANGED <<now, storeVars, threadVars, nodeVars, left>>

GossipEvent ==
  /\ Event("gossip")
  /\ \/ \E id \in Ids : Announce(id)
     \/ Compact
  /\ UNCHANGED <<now, channelVars, storeVars, threadVars, nodeVars>>

GossipFails ==
  /\ Event("failure") /\ Running /\ ReadError
  /\ UNCHANGED <<now, storeVars, threadVars, nodeVars>>

Complete ==
  /\ CompleteRecord
  /\ UNCHANGED <<now, channelVars, storeVars, threadVars, nodeVars, left>>

\* refreshPolicy: a goroutine reads one channel again, and applies it later.
ReadChannel ==
  /\ Event("read") /\ Running /\ reread = NoFile
  /\ \E s \in Scids : reread' = ListOf({s} \X {0, 1})
  /\ UNCHANGED <<now, channelVars, storeVars, gossipVars, refresh, list, asOf, nodeVars>>

RefreshChannel ==
  /\ reread # NoFile
  /\ RefreshChannels(reread)
  /\ reread' = NoFile
  /\ UNCHANGED <<now, storeVars, gossipVars, refresh, list, asOf, nodeVars, left>>
-----------------------------------------------------------------------------
(***************************************************************************)
(* Payments.                                                               *)
(***************************************************************************)
\* A split pays over a route of the graph.  It may have looked at Stopped just
\* before a stop.
Pay ==
  /\ Event("payment") /\ phase # "boot"
  /\ \E id \in InGraph, a \in 1 .. Cap - 1 :
       LET p == CHOOSE q \in Idle : TRUE
       IN  Idle # {} /\ SendPay(p, id, a)
  /\ UNCHANGED <<now, channelVars, storeVars, gossipVars, threadVars, phase>>

Network ==
  /\ \E p \in Splits : Settle(p) \/ SettleAlone(p)
  /\ UNCHANGED <<now, channelVars, storeVars, gossipVars, threadVars, phase, left>>

SplitLearns ==
  /\ \E p \in Splits : Learns(p) \/ TimesOut(p)
  /\ UNCHANGED <<now, storeVars, gossipVars, threadVars, phase, left>>

\* refreshLiquidity, one call of it at a time.
Fade ==
  /\ Running
  /\ DecayLiquidity \/ RefreshLiquidity
  /\ UNCHANGED <<now, storeVars, gossipVars, threadVars, nodeVars, left>>

Tick ==
  /\ Event("tick")
  /\ now' = now + 1
  /\ UNCHANGED <<channelVars, storeVars, gossipVars, threadVars, nodeVars>>
-----------------------------------------------------------------------------
(***************************************************************************)
(* Stops and starts.                                                       *)
(***************************************************************************)
\* The process is gone; the next one begins.
Restart ==
  /\ phase' = "boot"
  /\ Channels' = [id \in Ids |-> Absent] /\ lastDecay' = 0
  /\ LoadLearned /\ UNCHANGED <<files, saved>>
  /\ refresh' = "idle" /\ list' = Nothing /\ asOf' = 0 /\ reread' = NoFile
  /\ CloseStore
  /\ SplitsStop
  /\ UNCHANGED <<now, storeFileVars>>

Crash == Event("stop") /\ Restart

\* Close: no save if what the start read was not applied yet.
Close ==
  /\ Event("stop") /\ Running
  /\ phase' = "closing"
  /\ \/ CloseSaves
     \/ ~learnedApplied /\ UNCHANGED storeVars
  /\ UNCHANGED <<now, channelVars, gossipVars, threadVars, learningVars>>

\* Close returned, and lightningd starts the plugin again.
Exit ==
  /\ phase = "closing" /\ saver = "nobody"
  /\ Restart
  /\ UNCHANGED left
-----------------------------------------------------------------------------
Init ==
  /\ ChannelsInit /\ StoreInit /\ GossipInit /\ LearningInit
  /\ phase = "boot" /\ refresh = "idle" /\ list = Nothing /\ asOf = 0
  /\ reread = NoFile
  /\ left \in Mixes
  /\ balance \in [Scids -> IF left["payment"] = 0 THEN {0} ELSE Holdings]
  /\ left["payment"] # 1 => saved = NoFile
  /\ left["gossip"] = 0 <=> store = <<>>

Next ==
  \/ RefreshGraph \/ StartPartialRefresh \/ RefreshFails \/ Save \/ SaveError
  \/ FollowGossip \/ GossipEvent \/ GossipFails \/ Complete
  \/ ReadChannel \/ RefreshChannel
  \/ Pay \/ Network \/ SplitLearns \/ Fade \/ Tick
  \/ Crash \/ Close \/ Exit

\* The cron job comes again and again, the follower reads what is there,
\* lightningd completes the record it writes, and goroutines go on.
Fairness ==
  /\ WF_vars(RefreshGraph) /\ WF_vars(Save) /\ WF_vars(FollowGossip)
  /\ WF_vars(Complete) /\ WF_vars(RefreshChannel) /\ WF_vars(Exit)

Spec == Init /\ [][Next]_vars

FairSpec == Spec /\ Fairness
-----------------------------------------------------------------------------
\* SaveLearned, LoadLearned, Close: a start at any moment reads what the last
\* completed save wrote, until a newer one completes; and what was read at the
\* start is still on disk until it is applied.
SavedIsNeverLost ==
  /\ Readable = saved
  /\ pendingBeliefs # NoFile => pendingBeliefs = saved

\* Channel.Upper: a bound is one the channel's balance respects, as far as the
\* payments learned tell (Told; the balance itself, when none is in flight over
\* the channel), through payments, decays, resets, saves and restarts in any
\* order, if only our payments move the balance.  It is not promised of an id
\* whose bound may be too low (doubted): a payment failed and was learned after
\* its channel had carried another; a success was learned before another one
\* the other way; or what a payment taught was lost, by a timeout, by a stop
\* before it was saved, or with a channel the graph lacked while what the start
\* read was not applied yet.
BoundHolds ==
  \A id \in InGraph \ doubted :
    Channels[id].Upper => Told(id) <= Channels[id].Liquidity

\* refreshChannels, ApplyChannelUpdate: lists, single reads and gossip are read
\* and applied in any order; a channel never goes back to an older policy.
PolicyNeverOlder ==
  [][\A id \in InGraph :
       Channels'[id] # Absent => Channels'[id].LastUpdate >= Channels[id].LastUpdate]_vars

\* followGossipStore: what it read of the store, once written and unless
\* superseded, is in force in the graph: no record is passed before it is
\* complete, or skipped by a compaction, and no list read earlier undoes it.
GossipApplied ==
  \A i \in 1 .. offset :
    LET r == File[i] IN
    r.completed /\ ~r.deleted /\ r.id \in InGraph \ missed =>
      Channels[r.id].LastUpdate >= r.policy

\* StartGossipParser, refreshGraph: whatever was incomplete, deleted, compacted
\* or failed meanwhile, the channels in the graph come to have the policies
\* lightningd knows.
PoliciesCatchUp ==
  <>[](\A id \in InGraph : Channels[id].LastUpdate = known[id])
=============================================================================
