------------------------------- MODULE Gossip -------------------------------
(***************************************************************************)
(* The gossip_store follower (node/gossip.go): it reads the file from its  *)
(* start, waits for lightningd to append, and reopens it once it was       *)
(* replaced (compaction) and read to its end.  A record that is not        *)
(* complete yet is read again from its start.                              *)
(*                                                                         *)
(* A record is a channel_update: an id and the timestamp of its policy.    *)
(* Its bytes (readGossipRecord, parseChannelUpdate) are left out, and so   *)
(* are inbound fees.  lightningd's side, which appends, marks superseded   *)
(* records deleted and compacts, is modelled from how the follower relies  *)
(* on it.                                                                  *)
(***************************************************************************)
EXTENDS Channels, Sequences, SequencesExt

VARIABLES
  store,      \* the records of gossip_store; none: there is no such file
  known,      \* by id, the policy lightningd knows
  opened,     \* the follower has a file open
  replaced,   \* the file it has open is not gossip_store any more
  oldStore,   \* that file's records, then
  offset,     \* the records it read of it
  missed      \* history: ids that were not in the graph at some time since it
              \* opened the file

storeFileVars == <<store, known>>
followVars    == <<opened, replaced, oldStore, offset, missed>>
gossipVars    == <<storeFileVars, followVars>>

Records ==
  [id : Ids, policy : Nat, completed : BOOLEAN, deleted : BOOLEAN]

GossipTypeOK ==
  /\ store \in Seq(Records) /\ oldStore \in Seq(Records)
  /\ known \in [Ids -> Nat]
  /\ opened \in BOOLEAN /\ replaced \in BOOLEAN /\ offset \in Nat
  /\ missed \subseteq Ids

\* One policy per id, in the store; or the follower finds no store.
GossipInit ==
  /\ known = [id \in Ids |-> 1]
  /\ store \in
       {<<>>, SetToSeq([id : Ids, policy : {1}, completed : {TRUE}, deleted : {FALSE}])}
  /\ opened = FALSE /\ replaced = FALSE /\ oldStore = <<>> /\ offset = 0
  /\ missed = {}
-----------------------------------------------------------------------------
(***************************************************************************)
(* lightningd's side.                                                      *)
(***************************************************************************)
AllCompleted == \A i \in DOMAIN store : store[i].completed

\* A newer policy begins to be appended.
Announce(id) ==
  /\ AllCompleted
  /\ store' = Append(store, [id |-> id, policy |-> known[id] + 1,
                             completed |-> FALSE, deleted |-> FALSE])
  /\ UNCHANGED <<known, followVars>>

\* It is complete, and the one it replaces is marked deleted.
CompleteRecord ==
  /\ ~AllCompleted
  /\ LET last == store[Len(store)] IN
       /\ known' = [known EXCEPT ![last.id] = last.policy]
       /\ store' = [i \in DOMAIN store |->
            IF i = Len(store) THEN [last EXCEPT !.completed = TRUE]
            ELSE [store[i] EXCEPT !.deleted = @ \/ store[i].id = last.id]]
  /\ UNCHANGED followVars

Live == {i \in DOMAIN store : ~store[i].deleted}

\* The store is written again without what was deleted, in the same order, and
\* renamed into place.
Compact ==
  /\ AllCompleted /\ Live # DOMAIN store
  /\ \E at \in [1 .. Cardinality(Live) -> Live] :
       /\ \A j, k \in DOMAIN at : j < k => at[j] < at[k]
       /\ store' = [k \in DOMAIN at |-> store[at[k]]]
  /\ IF opened /\ ~replaced
     THEN replaced' = TRUE /\ oldStore' = store
     ELSE UNCHANGED <<replaced, oldStore>>
  /\ UNCHANGED <<known, opened, offset, missed>>
-----------------------------------------------------------------------------
(***************************************************************************)
(* The follower.                                                           *)
(***************************************************************************)
File == IF replaced THEN oldStore ELSE store

\* readGossipRecord finds a whole record.
HasRecord == offset < Len(File) /\ File[offset + 1].completed

\* followGossipStore reads from the start.
OpenStore ==
  /\ ~opened /\ store # <<>>
  /\ opened' = TRUE /\ offset' = 0 /\ missed' = Ids \ InGraph
  /\ UNCHANGED <<replaced, oldStore, storeFileVars, channelVars>>

CloseStore ==
  /\ opened' = FALSE /\ replaced' = FALSE /\ oldStore' = <<>> /\ offset' = 0
  /\ missed' = {}

\* Slip: a record is read whether or not it is complete, and nothing of an
\* incomplete one can be used.
SkipIncomplete ==
  /\ opened /\ offset < Len(File)
  /\ offset' = offset + 1
  /\ LET r == File[offset + 1] IN
       IF r.deleted \/ ~r.completed THEN UNCHANGED channelVars
       ELSE ApplyChannelUpdate(r.id, r.policy)
  /\ UNCHANGED <<opened, replaced, oldStore, missed, storeFileVars>>

\* The next record is complete: unless deleted, its policy is applied.
FollowRecord ==
  /\ opened /\ HasRecord
  /\ offset' = offset + 1
  /\ LET r == File[offset + 1] IN
       IF r.deleted THEN UNCHANGED channelVars ELSE ApplyChannelUpdate(r.id, r.policy)
  /\ UNCHANGED <<opened, replaced, oldStore, missed, storeFileVars>>

\* Caught up with a file that was replaced: reopen.
Reopen ==
  /\ opened /\ replaced /\ ~HasRecord
  /\ CloseStore
  /\ UNCHANGED <<storeFileVars, channelVars>>

\* A read fails: the store is opened again.
ReadError ==
  /\ opened
  /\ CloseStore
  /\ UNCHANGED <<storeFileVars, channelVars>>

Follow == OpenStore \/ FollowRecord \/ Reopen
=============================================================================
