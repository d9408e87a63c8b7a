--------------------------- MODULE PeerTableProofs ---------------------------
(***************************************************************************)
(* The table of our peers, for any peers, any number of goroutines and any *)
(* order of reads, notifications and applications: it is as fresh as what  *)
(* was read, it does not undo what it was told, its index follows it, and  *)
(* our channels stay in the graph.                                         *)
(***************************************************************************)
EXTENDS PeerTable, TLAPS

USE PeerTableAssumption

\* The steps by the threads' part they play.
LightningSteps == \E p \in PeerIds : ChannelChanges(p) \/ ConnectionChanges(p)
ReadSteps ==
  \/ ListPeers \/ WholeReadAt \/ ListPeerChannels
  \/ \E r \in Readers : \E p \in PeerIds : SingleReadAt(r, p)
  \/ \E r \in Readers : ListPeerChannelsOf(r)
GraphSteps ==
  \/ AddWhole \/ ListChannels \/ LocalChannelIds \/ SyncChannels
  \/ \E r \in Readers : AddSingle(r)
TableSteps == setConnected \/ setPeers \/ \E r \in Readers : setPeerChannels(r)

LEMMA StepKinds ==
  Next => LightningSteps \/ ReadSteps \/ GraphSteps \/ TableSteps
BY Zenon DEF Next, LightningSteps, ReadSteps, GraphSteps, TableSteps
-----------------------------------------------------------------------------
(***************************************************************************)
(* Types.                                                                  *)
(***************************************************************************)
\* What is known of the threads from the steps they are at.
LEMMA WholeFields ==
  ASSUME TypeOK
  PROVE  /\ whole.step \in {"idle", "peers", "asked", "read", "add"}
         /\ whole.step \in {"peers", "asked", "read"} => whole.peers \in Listings
         /\ whole.step \in {"asked", "read"} => whole.readAt \in Times
         /\ whole.step = "read" => whole.channels \in [PeerIds -> States]
         /\ whole.step = "add" => whole.open \in SUBSET PeerIds
<1>1. whole \in WholeThreads
  BY DEF TypeOK
<1>2. CASE whole = Idle
  BY <1>2 DEF Idle
<1>3. CASE whole \in [step : {"peers"}, peers : Listings]
  BY <1>3
<1>4. CASE whole \in [step : {"asked"}, peers : Listings, readAt : Times]
  BY <1>4
<1>5. CASE whole \in [step : {"read"}, peers : Listings, readAt : Times,
                      channels : [PeerIds -> States]]
  BY <1>5
<1>6. CASE whole \in [step : {"add"}, open : SUBSET PeerIds]
  BY <1>6
<1> QED
  BY <1>1, <1>2, <1>3, <1>4, <1>5, <1>6 DEF WholeThreads

LEMMA SingleFields ==
  ASSUME TypeOK, NEW r \in Readers
  PROVE  /\ single[r].step \in {"idle", "asked", "read", "add"}
         /\ single[r].step \in {"asked", "read"} =>
              single[r].peer \in PeerIds /\ single[r].readAt \in Times
         /\ single[r].step = "read" => single[r].channel \in States
         /\ single[r].step = "add" => single[r].open \in SUBSET PeerIds
<1> DEFINE t == single[r]
<1>1. t \in SingleThreads
  BY DEF TypeOK
<1> HIDE DEF t
<1>2. CASE t = Idle
  BY <1>2 DEF Idle, t
<1>3. CASE t \in [step : {"asked"}, peer : PeerIds, readAt : Times]
  BY <1>3 DEF t
<1>4. CASE t \in [step : {"read"}, peer : PeerIds, readAt : Times, channel : States]
  BY <1>4 DEF t
<1>5. CASE t \in [step : {"add"}, open : SUBSET PeerIds]
  BY <1>5 DEF t
<1> QED
  BY <1>1, <1>2, <1>3, <1>4, <1>5 DEF SingleThreads

LEMMA SyncFields ==
  ASSUME TypeOK
  PROVE  /\ sync.step \in {"idle", "listed", "keep"}
         /\ sync.step \in {"listed", "keep"} =>
              sync.asOf \in Times /\ sync.list \in SUBSET PeerIds
         /\ sync.step = "keep" => sync.keep \in SUBSET PeerIds
<1>1. sync \in SyncThreads
  BY DEF TypeOK
<1>2. CASE sync = Idle
  BY <1>2 DEF Idle
<1>3. CASE sync \in [step : {"listed"}, asOf : Times, list : SUBSET PeerIds]
  BY <1>3
<1>4. CASE sync \in [step : {"keep"}, asOf : Times, list : SUBSET PeerIds, keep : SUBSET PeerIds]
  BY <1>4
<1> QED
  BY <1>1, <1>2, <1>3, <1>4 DEF SyncThreads

\* The whole read, and the table made of it, say of each peer what they should.
LEMMA FreshTypes ==
  ASSUME TypeOK, whole.step = "read", NEW p \in PeerIds
  PROVE  AsRead(p) \in Table /\ Fresh(p) \in Table
<1>1. /\ whole.channels[p] \in States /\ whole.peers \in Listings
      /\ Peers[p] \in Table
  BY WholeFields DEF TypeOK
<1>2. PICK S \in SUBSET PeerIds : whole.peers \in [S -> BOOLEAN]
  BY <1>1 DEF Listings
<1>3. p \in DOMAIN whole.peers => whole.peers[p] \in BOOLEAN
  BY <1>2
<1>4. whole.channels[p].conn \in BOOLEAN /\ whole.channels[p].open \in BOOLEAN
      /\ whole.channels[p].ver \in Times
  BY <1>1 DEF States
<1> DEFINE k == p \in DOMAIN whole.peers \/ whole.channels[p].open
           n == IF whole.channels[p].open THEN whole.channels[p].conn
                ELSE p \in DOMAIN whole.peers /\ whole.peers[p]
<1>5. k \in BOOLEAN /\ n \in BOOLEAN
  BY <1>3, <1>4
<1>6. AsRead(p) = [known |-> k, conn |-> n, open |-> whole.channels[p].open,
                   ver |-> whole.channels[p].ver]
  BY DEF AsRead
<1> HIDE DEF k, n
<1>7. AsRead(p) \in Table
  BY <1>4, <1>5, <1>6 DEF Table
<1> HIDE DEF AsRead
<1>8. /\ [AsRead(p) EXCEPT !.conn = Peers[p].conn] \in Table
      /\ \A e \in Table : [e EXCEPT !.open = Peers[p].open, !.ver = Peers[p].ver] \in Table
  BY <1>1, <1>7 DEF Table
<1>9. Fresh(p) \in Table
  BY <1>1, <1>7, <1>8 DEF Fresh
<1> QED
  BY <1>7, <1>9

\* The next time is one, when there is one.
LEMMA TickTypes == TypeOK /\ Tick => Now \in Times /\ Now = clock + 1 /\ clock' = Now /\ clock' \in Times
BY DEF TypeOK, Tick, Now, Times

LEMMA TypesLightning ==
  ASSUME TypeOK, NEW p \in PeerIds, ChannelChanges(p) \/ ConnectionChanges(p)
  PROVE  TypeOK'
<1> USE DEF tableVars, graphVars
<1>1. Now \in Times /\ clock' \in Times
  BY TickTypes DEF ChannelChanges, ConnectionChanges
<1>2. CASE ChannelChanges(p)
  <2>1. PICK o \in BOOLEAN : real' = [real EXCEPT ![p].open = o, ![p].ver = Now]
    BY <1>2 DEF ChannelChanges
  <2>2. real' \in [PeerIds -> States]
    BY <1>1, <2>1 DEF TypeOK, States
  <2>3. changes' \in [PeerIds -> SUBSET Times]
    BY <1>1, <1>2 DEF ChannelChanges, TypeOK
  <2> QED
    BY <1>1, <1>2, <2>2, <2>3 DEF ChannelChanges, TypeOK
<1>3. CASE ConnectionChanges(p)
  <2>1. real[p].conn \in BOOLEAN /\ (~real[p].conn) \in BOOLEAN
    BY DEF TypeOK, States
  <2>2. real' \in [PeerIds -> States]
    <3>1. real' = [real EXCEPT ![p].conn = ~real[p].conn]
      BY <1>3 DEF ConnectionChanges
    <3> QED
      BY <2>1, <3>1 DEF TypeOK, States
  <2>3. notifications' \subseteq [peer : PeerIds, conn : BOOLEAN]
    <3> DEFINE n == [peer |-> p, conn |-> ~real[p].conn]
    <3>1. n \in [peer : PeerIds, conn : BOOLEAN]
      BY <2>1
    <3>2. notifications' = notifications \cup {n}
      BY <1>3 DEF ConnectionChanges
    <3> HIDE DEF n
    <3> QED
      BY <3>1, <3>2 DEF TypeOK
  <2> QED
    BY <1>1, <1>3, <2>2, <2>3 DEF ConnectionChanges, TypeOK
<1> QED
  BY <1>2, <1>3

\* replacePeer: the peer and the index stay of their types.
LEMMA ReplaceTypes ==
  ASSUME TypeOK, NEW p \in PeerIds, NEW e \in Table, replacePeer(p, e)
  PROVE  Peers' \in [PeerIds -> Table] /\ scidToPeer' \in [PeerIds -> Table \cup {None}]
BY DEF TypeOK, replacePeer

LEMMA TypesTable ==
  ASSUME TypeOK, TableSteps
  PROVE  TypeOK'
<1> USE DEF lightningVars, tableVars, graphVars
<1>1. CASE setConnected
  <2>1. PICK n \in notifications :
          /\ notifications' = notifications \ {n}
          /\ IF Peers[n.peer].known
             THEN /\ Tick
                  /\ replacePeer(n.peer, [Peers[n.peer] EXCEPT !.conn = n.conn])
                  /\ connectedAt' = [connectedAt EXCEPT ![n.peer] = Now]
                  /\ told' = [told EXCEPT ![n.peer] = n.conn]
             ELSE UNCHANGED <<clock, Peers, scidToPeer, connectedAt, told>>
          /\ UNCHANGED <<real, changes, peersReadAt, channelsReadAt, whole, single, graphVars>>
    BY <1>1 DEF setConnected
  <2>2. n.peer \in PeerIds /\ n.conn \in BOOLEAN
    BY DEF TypeOK
  <2>3. CASE Peers[n.peer].known
    <3>1. [Peers[n.peer] EXCEPT !.conn = n.conn] \in Table
      BY <2>2 DEF TypeOK, Table
    <3>2. Peers' \in [PeerIds -> Table] /\ scidToPeer' \in [PeerIds -> Table \cup {None}]
      BY <2>1, <2>2, <2>3, <3>1, ReplaceTypes
    <3>3. clock' \in Times /\ connectedAt' \in [PeerIds -> Times] /\ told' \in [PeerIds -> BOOLEAN]
      BY <2>1, <2>2, <2>3, TickTypes DEF TypeOK
    <3> QED
      BY <2>1, <3>2, <3>3 DEF TypeOK
  <2>4. CASE ~Peers[n.peer].known
    BY <2>1, <2>4 DEF TypeOK
  <2> QED
    BY <2>3, <2>4
<1>2. CASE setPeers
  <2>1. whole.step = "read" /\ UNCHANGED <<clock, lightningVars, single, graphVars>>
    BY <1>2 DEF setPeers
  <2>2. CASE whole.readAt <= peersReadAt
    <3>1. whole' = Idle /\ UNCHANGED tableVars
      BY <1>2, <2>2 DEF setPeers
    <3> QED
      BY <2>1, <3>1 DEF TypeOK, WholeThreads
  <2>3. CASE ~(whole.readAt <= peersReadAt)
    <3>1. /\ Peers' = [p \in PeerIds |-> Fresh(p)]
          /\ scidToPeer' = [p \in PeerIds |-> Indexed(Fresh(p))]
          /\ peersReadAt' = whole.readAt
          /\ connectedAt' = [p \in PeerIds |-> IF NewerConnection(p) THEN connectedAt[p] ELSE 0]
          /\ channelsReadAt' = [p \in PeerIds |-> IF NewerChannels(p) THEN channelsReadAt[p] ELSE 0]
          /\ whole' = [step |-> "add",
                       open |-> {p \in PeerIds : Fresh(p).known /\ Fresh(p).open}]
          /\ UNCHANGED told
      BY <1>2, <2>3 DEF setPeers
    <3>2. Peers' \in [PeerIds -> Table]
      BY <2>1, <3>1, FreshTypes
    <3>3. scidToPeer' \in [PeerIds -> Table \cup {None}]
      <4>1. \A p \in PeerIds : Indexed(Fresh(p)) \in Table \cup {None}
        BY <2>1, FreshTypes DEF Indexed
      <4> QED
        BY <3>1, <4>1
    <3>4. peersReadAt' \in Times
      BY <2>1, <3>1, WholeFields
    <3>5. connectedAt' \in [PeerIds -> Times] /\ channelsReadAt' \in [PeerIds -> Times]
      <4>1. 0 \in Times
        BY DEF Times
      <4> QED
        BY <3>1, <4>1 DEF TypeOK
    <3>6. whole' \in WholeThreads
      BY <3>1 DEF WholeThreads
    <3> QED
      BY <2>1, <3>1, <3>2, <3>3, <3>4, <3>5, <3>6 DEF TypeOK
  <2> QED
    BY <2>2, <2>3
<1>3. ASSUME NEW r \in Readers, setPeerChannels(r)
      PROVE  TypeOK'
  <2> DEFINE t == single[r]
             p == t.peer
             e == [Peers[p] EXCEPT !.open = t.channel.open, !.ver = t.channel.ver]
  <2>1. /\ t.step = "read" /\ p \in PeerIds /\ t.readAt \in Times /\ t.channel \in States
        /\ UNCHANGED <<clock, lightningVars, peersReadAt, connectedAt, told, whole, graphVars>>
    BY <1>3, SingleFields DEF setPeerChannels
  <2>2. CASE ~Peers[p].known \/ t.readAt <= peersReadAt \/ t.readAt <= channelsReadAt[p]
    <3>1. single' = [single EXCEPT ![r] = Idle] /\ UNCHANGED <<Peers, scidToPeer, channelsReadAt>>
      BY <1>3, <2>2 DEF setPeerChannels
    <3>2. Idle \in SingleThreads
      BY DEF SingleThreads
    <3> QED
      BY <2>1, <3>1, <3>2 DEF TypeOK
  <2>3. CASE ~(~Peers[p].known \/ t.readAt <= peersReadAt \/ t.readAt <= channelsReadAt[p])
    <3>1. /\ replacePeer(p, e)
          /\ channelsReadAt' = [channelsReadAt EXCEPT ![p] = t.readAt]
          /\ single' = [single EXCEPT ![r] =
               IF t.channel.open THEN [step |-> "add", open |-> {p}] ELSE Idle]
      BY <1>3, <2>3 DEF setPeerChannels
    <3>2. e \in Table
      <4>1. Peers[p] \in Table /\ t.channel.open \in BOOLEAN /\ t.channel.ver \in Times
        BY <2>1 DEF TypeOK, States
      <4>2. \A q \in Table, o \in BOOLEAN, v \in Times :
              [q EXCEPT !.open = o, !.ver = v] \in Table
        BY DEF Table
      <4> HIDE DEF t, p
      <4> QED
        BY <4>1, <4>2
    <3>3. Peers' \in [PeerIds -> Table] /\ scidToPeer' \in [PeerIds -> Table \cup {None}]
      BY <2>1, <3>1, <3>2, ReplaceTypes
    <3>4. channelsReadAt' \in [PeerIds -> Times]
      BY <2>1, <3>1 DEF TypeOK
    <3>5. single' \in [Readers -> SingleThreads]
      <4>1. (IF t.channel.open THEN [step |-> "add", open |-> {p}] ELSE Idle) \in SingleThreads
        BY <2>1 DEF SingleThreads
      <4> QED
        BY <3>1, <4>1 DEF TypeOK
    <3> QED
      BY <2>1, <3>3, <3>4, <3>5 DEF TypeOK
  <2> QED
    BY <2>2, <2>3
<1> QED
  BY <1>1, <1>2, <1>3 DEF TableSteps

LEMMA TypesReads ==
  ASSUME TypeOK, ReadSteps
  PROVE  TypeOK'
<1> USE DEF lightningVars, tableVars, graphVars
<1>1. CASE ListPeers
  <2> DEFINE l == [p \in {q \in PeerIds : Listed(q)} |-> real[p].conn]
  <2>1. l \in Listings
    <3>1. l \in [{q \in PeerIds : Listed(q)} -> BOOLEAN]
      BY DEF TypeOK, States
    <3>2. {q \in PeerIds : Listed(q)} \in SUBSET PeerIds
      OBVIOUS
    <3> HIDE DEF l
    <3> QED
      BY <3>1, <3>2 DEF Listings
  <2>2. whole' = [step |-> "peers", peers |-> l]
    BY <1>1 DEF ListPeers
  <2> HIDE DEF l
  <2>3. whole' \in WholeThreads
    BY <2>1, <2>2 DEF WholeThreads
  <2> QED
    BY <1>1, <2>3 DEF ListPeers, TypeOK
<1>2. CASE WholeReadAt
  <2>1. whole' \in WholeThreads /\ clock' \in Times
    BY <1>2, WholeFields, TickTypes DEF WholeReadAt, WholeThreads
  <2> QED
    BY <1>2, <2>1 DEF WholeReadAt, TypeOK
<1>3. CASE ListPeerChannels
  <2>1. real \in [PeerIds -> States]
    BY DEF TypeOK
  <2>2. whole' \in WholeThreads
    BY <1>3, <2>1, WholeFields DEF ListPeerChannels, WholeThreads
  <2> QED
    BY <1>3, <2>2 DEF ListPeerChannels, TypeOK
<1>4. ASSUME NEW r \in Readers, NEW p \in PeerIds, SingleReadAt(r, p)
      PROVE  TypeOK'
  <2>1. [step |-> "asked", peer |-> p, readAt |-> Now] \in SingleThreads /\ clock' \in Times
    BY <1>4, TickTypes DEF SingleReadAt, SingleThreads
  <2>2. single' \in [Readers -> SingleThreads]
    BY <1>4, <2>1 DEF SingleReadAt, TypeOK
  <2> QED
    BY <1>4, <2>1, <2>2 DEF SingleReadAt, TypeOK
<1>5. ASSUME NEW r \in Readers, ListPeerChannelsOf(r)
      PROVE  TypeOK'
  <2> DEFINE t == [step |-> "read", peer |-> single[r].peer, readAt |-> single[r].readAt,
                   channel |-> real[single[r].peer]]
  <2>1. single[r].peer \in PeerIds /\ single[r].readAt \in Times
        /\ real[single[r].peer] \in States
    BY <1>5, SingleFields DEF ListPeerChannelsOf, TypeOK
  <2>2. t \in SingleThreads
    BY <2>1 DEF SingleThreads
  <2>3. single' = [single EXCEPT ![r] = t]
    BY <1>5 DEF ListPeerChannelsOf, TypeOK
  <2> HIDE DEF t
  <2>4. single' \in [Readers -> SingleThreads]
    BY <2>2, <2>3 DEF TypeOK
  <2> QED
    BY <1>5, <2>4 DEF ListPeerChannelsOf, TypeOK
<1> QED
  BY <1>1, <1>2, <1>3, <1>4, <1>5 DEF ReadSteps

LEMMA TypesGraph ==
  ASSUME TypeOK, GraphSteps
  PROVE  TypeOK'
<1> USE DEF lightningVars, tableVars, graphVars
<1>1. \A S : Added(S) \in [PeerIds -> Times \cup {None}]
  BY DEF Added, TypeOK
<1>2. Idle \in WholeThreads /\ Idle \in SingleThreads /\ Idle \in SyncThreads
  BY DEF WholeThreads, SingleThreads, SyncThreads
<1>3. CASE AddWhole
  BY <1>1, <1>2, <1>3 DEF AddWhole, TypeOK
<1>4. ASSUME NEW r \in Readers, AddSingle(r)
      PROVE  TypeOK'
  <2>1. single' \in [Readers -> SingleThreads]
    BY <1>2, <1>4 DEF AddSingle, TypeOK
  <2> QED
    BY <1>1, <1>4, <2>1 DEF AddSingle, TypeOK
<1>5. CASE ListChannels
  <2>1. PICK S \in SUBSET {p \in PeerIds : real[p].open} :
          sync' = [step |-> "listed", asOf |-> clock, list |-> S]
    BY <1>5 DEF ListChannels
  <2>2. sync' \in SyncThreads
    BY <2>1 DEF SyncThreads, TypeOK
  <2> QED
    BY <1>5, <2>2 DEF ListChannels, TypeOK
<1>6. CASE LocalChannelIds
  <2>1. sync' \in SyncThreads
    BY <1>6, SyncFields DEF LocalChannelIds, SyncThreads
  <2> QED
    BY <1>6, <2>1 DEF LocalChannelIds, TypeOK
<1>7. CASE SyncChannels
  <2>1. 0 \in Times
    BY DEF Times
  <2>2. Channels' \in [PeerIds -> Times \cup {None}]
    BY <1>7, <2>1 DEF SyncChannels, TypeOK
  <2> QED
    BY <1>2, <1>7, <2>2 DEF SyncChannels, TypeOK
<1> QED
  BY <1>3, <1>4, <1>5, <1>6, <1>7 DEF GraphSteps

LEMMA TypesInit == Init => TypeOK
<1> SUFFICES ASSUME Init PROVE TypeOK
  OBVIOUS
<1>1. 0 \in Times
  BY DEF Times
<1>2. real \in [PeerIds -> States]
  BY <1>1 DEF Init, States
<1>3. Idle \in WholeThreads /\ Idle \in SingleThreads /\ Idle \in SyncThreads
  BY DEF WholeThreads, SingleThreads, SyncThreads
<1>4. Peers \in [PeerIds -> Table]
  BY <1>1 DEF Init, Table
<1> QED
  BY <1>1, <1>2, <1>3, <1>4 DEF Init, TypeOK

LEMMA TypesStutter == TypeOK /\ UNCHANGED vars => TypeOK'
BY DEF TypeOK, vars, lightningVars, tableVars, graphVars

\* Whatever is read, told and applied, in any order, the table, its index, the
\* graph's entries and the threads stay of their types (peers.go, cron.go).
THEOREM TableTypes == Spec => []TypeOK
<1>1. TypeOK /\ [Next]_vars => TypeOK'
  BY StepKinds, TypesLightning, TypesReads, TypesGraph, TypesTable, TypesStutter
     DEF LightningSteps
<1> QED
  BY <1>1, TypesInit, PTL DEF Spec
-----------------------------------------------------------------------------
(***************************************************************************)
(* The index.                                                              *)
(***************************************************************************)
LEMMA IndexReplaced ==
  ASSUME TypeOK, IndexIsTheTable, NEW p \in PeerIds, NEW e \in Table, e.known,
         replacePeer(p, e)
  PROVE  IndexIsTheTable'
<1>1. scidToPeer[p] = Indexed(Peers[p])
  BY DEF IndexIsTheTable
<1>2. scidToPeer'[p] = Indexed(e) /\ Peers'[p] = e
  BY <1>1 DEF replacePeer, Indexed, TypeOK
<1>3. \A q \in PeerIds \ {p} : scidToPeer'[q] = scidToPeer[q] /\ Peers'[q] = Peers[q]
  BY DEF replacePeer, TypeOK
<1> QED
  BY <1>2, <1>3 DEF IndexIsTheTable, Indexed

\* What setConnected and setPeerChannels write is the entry of a known peer.
LEMMA EntriesReplaced ==
  ASSUME TypeOK, NEW p \in PeerIds, Peers[p].known
  PROVE  /\ \A c \in BOOLEAN :
              /\ [Peers[p] EXCEPT !.conn = c] \in Table
              /\ [Peers[p] EXCEPT !.conn = c].known
              /\ [Peers[p] EXCEPT !.conn = c].conn = c
              /\ [Peers[p] EXCEPT !.conn = c].open = Peers[p].open
              /\ [Peers[p] EXCEPT !.conn = c].ver = Peers[p].ver
         /\ \A o \in BOOLEAN, v \in Times :
              /\ [Peers[p] EXCEPT !.open = o, !.ver = v] \in Table
              /\ [Peers[p] EXCEPT !.open = o, !.ver = v].known
              /\ [Peers[p] EXCEPT !.open = o, !.ver = v].conn = Peers[p].conn
              /\ [Peers[p] EXCEPT !.open = o, !.ver = v].open = o
              /\ [Peers[p] EXCEPT !.open = o, !.ver = v].ver = v
<1>1. Peers[p] \in Table
  BY DEF TypeOK
<1> QED
  BY <1>1 DEF Table

\* A notification handled, in one formula.
LEMMA Notified ==
  ASSUME TypeOK, setConnected
  PROVE  /\ UNCHANGED <<real, changes, peersReadAt, channelsReadAt, whole, single, Channels, sync>>
         /\ \/ UNCHANGED <<clock, Peers, scidToPeer, connectedAt, told>>
            \/ \E p \in PeerIds, c \in BOOLEAN :
                 /\ Peers[p].known
                 /\ Tick
                 /\ replacePeer(p, [Peers[p] EXCEPT !.conn = c])
                 /\ connectedAt' = [connectedAt EXCEPT ![p] = Now]
                 /\ told' = [told EXCEPT ![p] = c]
<1>1. PICK n \in notifications :
        /\ IF Peers[n.peer].known
           THEN /\ Tick
                /\ replacePeer(n.peer, [Peers[n.peer] EXCEPT !.conn = n.conn])
                /\ connectedAt' = [connectedAt EXCEPT ![n.peer] = Now]
                /\ told' = [told EXCEPT ![n.peer] = n.conn]
           ELSE UNCHANGED <<clock, Peers, scidToPeer, connectedAt, told>>
        /\ UNCHANGED <<real, changes, peersReadAt, channelsReadAt, whole, single, graphVars>>
  BY DEF setConnected
<1>2. n.peer \in PeerIds /\ n.conn \in BOOLEAN
  BY DEF TypeOK
<1> QED
  BY <1>1, <1>2 DEF graphVars

\* One peer's channels applied, in one formula.
LEMMA SingleApplied ==
  ASSUME TypeOK, NEW r \in Readers, setPeerChannels(r)
  PROVE  /\ UNCHANGED <<clock, real, changes, peersReadAt, connectedAt, told, whole, Channels, sync>>
         /\ single[r].step = "read" /\ single[r].peer \in PeerIds
         /\ single[r].channel \in States /\ single[r].readAt \in Times
         /\ \/ /\ UNCHANGED <<Peers, scidToPeer, channelsReadAt>>
               /\ single' = [single EXCEPT ![r] = Idle]
            \/ /\ Peers[single[r].peer].known
               /\ single[r].readAt > peersReadAt
               /\ single[r].readAt > channelsReadAt[single[r].peer]
               /\ replacePeer(single[r].peer,
                    [Peers[single[r].peer] EXCEPT !.open = single[r].channel.open,
                                                  !.ver = single[r].channel.ver])
               /\ channelsReadAt' = [channelsReadAt EXCEPT ![single[r].peer] = single[r].readAt]
               /\ single' = [single EXCEPT ![r] =
                    IF single[r].channel.open
                    THEN [step |-> "add", open |-> {single[r].peer}] ELSE Idle]
<1>1. single[r].step = "read"
  BY DEF setPeerChannels
<1>2. /\ single[r].peer \in PeerIds /\ single[r].channel \in States
      /\ single[r].readAt \in Times
  BY <1>1, SingleFields
<1>3. single[r].readAt \in Int /\ peersReadAt \in Int /\ channelsReadAt[single[r].peer] \in Int
  BY <1>2 DEF TypeOK, Times
<1> QED
  BY <1>1, <1>2, <1>3 DEF setPeerChannels, lightningVars, graphVars

\* A whole read applied, in one formula.
LEMMA WholeApplied ==
  ASSUME TypeOK, setPeers
  PROVE  /\ UNCHANGED <<clock, real, changes, told, single, Channels, sync>>
         /\ whole.step = "read" /\ whole.readAt \in Times
         /\ \/ /\ whole' = Idle
               /\ UNCHANGED <<Peers, scidToPeer, peersReadAt, channelsReadAt, connectedAt>>
            \/ /\ whole.readAt > peersReadAt
               /\ Peers' = [p \in PeerIds |-> Fresh(p)]
               /\ scidToPeer' = [p \in PeerIds |-> Indexed(Fresh(p))]
               /\ peersReadAt' = whole.readAt
               /\ connectedAt' = [p \in PeerIds |-> IF NewerConnection(p) THEN connectedAt[p] ELSE 0]
               /\ channelsReadAt' = [p \in PeerIds |-> IF NewerChannels(p) THEN channelsReadAt[p] ELSE 0]
               /\ whole' = [step |-> "add",
                            open |-> {p \in PeerIds : Fresh(p).known /\ Fresh(p).open}]
<1>1. whole.step = "read"
  BY DEF setPeers
<1>2. whole.readAt \in Times
  BY <1>1, WholeFields
<1>3. whole.readAt \in Int /\ peersReadAt \in Int
  BY <1>2 DEF TypeOK, Times
<1> QED
  BY <1>1, <1>2, <1>3 DEF setPeers, lightningVars, tableVars, graphVars

LEMMA IndexNext ==
  ASSUME TypeOK, IndexIsTheTable, [Next]_vars
  PROVE  IndexIsTheTable'
<1>1. ASSUME UNCHANGED <<Peers, scidToPeer>>
      PROVE  IndexIsTheTable'
  BY <1>1 DEF IndexIsTheTable, Indexed
<1>2. CASE LightningSteps
  BY <1>1, <1>2 DEF LightningSteps, ChannelChanges, ConnectionChanges, tableVars
<1>3. CASE ReadSteps
  BY <1>1, <1>3 DEF ReadSteps, ListPeers, WholeReadAt, ListPeerChannels, SingleReadAt,
                    ListPeerChannelsOf, tableVars
<1>4. CASE GraphSteps
  BY <1>1, <1>4 DEF GraphSteps, AddWhole, ListChannels, LocalChannelIds, SyncChannels,
                    AddSingle, tableVars
<1>5. CASE setConnected
  <2>1. CASE UNCHANGED <<Peers, scidToPeer>>
    BY <1>1, <2>1
  <2>2. ASSUME NEW p \in PeerIds, NEW c \in BOOLEAN, Peers[p].known,
               replacePeer(p, [Peers[p] EXCEPT !.conn = c])
        PROVE  IndexIsTheTable'
    BY <2>2, IndexReplaced, EntriesReplaced
  <2> QED
    BY <1>5, <2>1, <2>2, Notified
<1>6. CASE setPeers
  <2>1. CASE UNCHANGED <<Peers, scidToPeer>>
    BY <1>1, <2>1
  <2>2. ASSUME Peers' = [p \in PeerIds |-> Fresh(p)],
               scidToPeer' = [p \in PeerIds |-> Indexed(Fresh(p))]
        PROVE  IndexIsTheTable'
    BY <2>2 DEF IndexIsTheTable, Indexed
  <2> QED
    BY <1>6, <2>1, <2>2, WholeApplied
<1>7. ASSUME NEW r \in Readers, setPeerChannels(r)
      PROVE  IndexIsTheTable'
  <2>1. CASE UNCHANGED <<Peers, scidToPeer>>
    BY <1>1, <2>1
  <2>2. ASSUME Peers[single[r].peer].known,
               replacePeer(single[r].peer,
                 [Peers[single[r].peer] EXCEPT !.open = single[r].channel.open,
                                               !.ver = single[r].channel.ver])
        PROVE  IndexIsTheTable'
    <3>1. /\ single[r].peer \in PeerIds /\ single[r].channel.open \in BOOLEAN
          /\ single[r].channel.ver \in Times
      BY <1>7, SingleApplied DEF States
    <3> QED
      BY <2>2, <3>1, IndexReplaced, EntriesReplaced
  <2> QED
    BY <1>7, <2>1, <2>2, SingleApplied
<1>8. CASE UNCHANGED vars
  BY <1>1, <1>8 DEF vars, tableVars
<1> QED
  BY <1>2, <1>3, <1>4, <1>5, <1>6, <1>7, <1>8, StepKinds DEF TableSteps

\* Whoever replaces a peer, the index leads to the peer of the table and to no
\* copy that was replaced (peers.go replacePeer, setPeers).
THEOREM IndexKept == Spec => []IndexIsTheTable
<1>1. Init => IndexIsTheTable
  BY DEF Init, IndexIsTheTable, Indexed
<1> QED
  BY <1>1, IndexNext, TableTypes, PTL DEF Spec
-----------------------------------------------------------------------------
(***************************************************************************)
(* The order of reads, changes and notifications.                          *)
(***************************************************************************)
Asking == whole.step \in {"asked", "read"}

\* Nothing that has happened is in the future.
NothingAhead ==
  /\ peersReadAt <= clock
  /\ \A p \in PeerIds :
       /\ channelsReadAt[p] <= clock /\ connectedAt[p] <= clock
       /\ \A t \in changes[p] : t <= clock
  /\ Asking => whole.readAt <= clock
  /\ \A r \in Readers : single[r].step \in {"asked", "read"} => single[r].readAt <= clock
  /\ sync.step \in {"listed", "keep"} => sync.asOf <= clock

\* What was told or read of a peer after a whole refresh began to read is of a
\* peer that the table knows until that refresh is applied.
LaterAreKnown ==
  Asking => \A p \in PeerIds :
    connectedAt[p] > whole.readAt \/ channelsReadAt[p] > whole.readAt => Peers[p].known

\* What lightningd says has every change, and what was read has those before
\* the read began.
ReadsHaveChanges ==
  \A p \in PeerIds : \A t \in changes[p] :
    /\ t <= real[p].ver
    /\ whole.step = "read" /\ t <= whole.readAt => t <= whole.channels[p].ver
    /\ \A r \in Readers :
         single[r].step = "read" /\ single[r].peer = p /\ t <= single[r].readAt =>
           t <= single[r].channel.ver

\* When the graph refresh has taken the channels to keep, those of the table
\* are among them or were added to the graph since.
KeepOrAdded ==
  sync.step = "keep" => \A p \in PeerIds :
    Peers[p].known /\ Peers[p].open /\ ~Adding(p) =>
      p \in sync.keep \/ (Channels[p] # None /\ Channels[p] >= sync.asOf)

\* The times the threads and the table hold are numbers.
LEMMA TimesAreNumbers ==
  ASSUME TypeOK
  PROVE  /\ clock \in Nat /\ peersReadAt \in Nat
         /\ \A p \in PeerIds :
              /\ channelsReadAt[p] \in Nat /\ connectedAt[p] \in Nat
              /\ Peers[p].ver \in Nat /\ real[p].ver \in Nat
              /\ \A t \in changes[p] : t \in Nat
              /\ Channels[p] # None => Channels[p] \in Nat
         /\ Asking => whole.readAt \in Nat
         /\ whole.step = "read" => \A p \in PeerIds : whole.channels[p].ver \in Nat
         /\ \A r \in Readers :
              /\ single[r].step \in {"asked", "read"} => single[r].readAt \in Nat
              /\ single[r].step = "read" => single[r].channel.ver \in Nat
         /\ sync.step \in {"listed", "keep"} => sync.asOf \in Nat
<1>1. Times \subseteq Nat
  BY DEF Times
<1>2. /\ clock \in Nat /\ peersReadAt \in Nat
      /\ \A p \in PeerIds :
           /\ channelsReadAt[p] \in Nat /\ connectedAt[p] \in Nat
           /\ \A t \in changes[p] : t \in Nat
           /\ Channels[p] # None => Channels[p] \in Nat
  BY <1>1 DEF TypeOK
<1>3. \A p \in PeerIds : Peers[p].ver \in Nat /\ real[p].ver \in Nat
  BY <1>1 DEF TypeOK, Table, States
<1>4. /\ Asking => whole.readAt \in Nat
      /\ whole.step = "read" => \A p \in PeerIds : whole.channels[p].ver \in Nat
  BY <1>1, WholeFields DEF Asking, States
<1>5. \A r \in Readers :
        /\ single[r].step \in {"asked", "read"} => single[r].readAt \in Nat
        /\ single[r].step = "read" => single[r].channel.ver \in Nat
  BY <1>1, SingleFields DEF States
<1>6. sync.step \in {"listed", "keep"} => sync.asOf \in Nat
  BY <1>1, SyncFields
<1> QED
  BY <1>2, <1>3, <1>4, <1>5, <1>6

OrderInv ==
  /\ TypeOK /\ NothingAhead
  /\ LaterAreKnown /\ NotificationNotUndone
  /\ ReadsHaveChanges /\ FreshAsRead

LEMMA OrderLightning ==
  ASSUME OrderInv, NEW p \in PeerIds, ChannelChanges(p) \/ ConnectionChanges(p)
  PROVE  /\ NothingAhead' /\ LaterAreKnown' /\ NotificationNotUndone'
         /\ ReadsHaveChanges' /\ FreshAsRead'
<1> USE DEF OrderInv
<1>1. /\ UNCHANGED <<Peers, peersReadAt, channelsReadAt, connectedAt, told, whole, single, sync>>
      /\ clock' = clock + 1
  BY TickTypes DEF ChannelChanges, ConnectionChanges, tableVars, graphVars
<1>2. \A q \in PeerIds : \A t \in changes'[q] :
        /\ t \in changes[q] \/ t = clock + 1
        /\ t <= real'[q].ver
        /\ t \in Nat /\ t <= clock + 1
  <2>1. CASE ChannelChanges(p)
    <3>1. PICK o \in BOOLEAN : real' = [real EXCEPT ![p].open = o, ![p].ver = Now]
      BY <2>1 DEF ChannelChanges
    <3>2. real'[p].ver = Now
      BY <3>1 DEF TypeOK, States
    <3>3. \A q \in PeerIds \ {p} : real'[q] = real[q] /\ changes'[q] = changes[q]
      BY <2>1, <3>1 DEF ChannelChanges, TypeOK
    <3>4. changes'[p] = changes[p] \cup {clock + 1}
      BY <2>1 DEF ChannelChanges, TypeOK, Now
    <3> QED
      BY <3>2, <3>3, <3>4, TimesAreNumbers DEF NothingAhead, ReadsHaveChanges, Now
  <2>2. CASE ConnectionChanges(p)
    <3>1. changes' = changes /\ \A q \in PeerIds : real'[q].ver = real[q].ver
      BY <2>2 DEF ConnectionChanges, TypeOK, States
    <3> QED
      BY <3>1, TimesAreNumbers DEF NothingAhead, ReadsHaveChanges
  <2> QED
    BY <2>1, <2>2
<1>3. NothingAhead'
  BY <1>1, <1>2, TimesAreNumbers DEF NothingAhead, Asking
<1>4. LaterAreKnown' /\ NotificationNotUndone'
  BY <1>1 DEF LaterAreKnown, NotificationNotUndone, Asking
<1>5. ReadsHaveChanges'
  BY <1>1, <1>2, TimesAreNumbers DEF ReadsHaveChanges, NothingAhead, Asking
<1>6. FreshAsRead'
  BY <1>1, <1>2, TimesAreNumbers DEF FreshAsRead, NothingAhead
<1> QED
  BY <1>3, <1>4, <1>5, <1>6

LEMMA OrderReads ==
  ASSUME OrderInv, ReadSteps
  PROVE  /\ NothingAhead' /\ LaterAreKnown' /\ NotificationNotUndone'
         /\ ReadsHaveChanges' /\ FreshAsRead'
<1> USE DEF OrderInv
<1>1. /\ UNCHANGED <<real, changes, Peers, peersReadAt, channelsReadAt, connectedAt, told, sync>>
      /\ clock' \in {clock, clock + 1}
  BY TickTypes DEF ReadSteps, ListPeers, WholeReadAt, ListPeerChannels, SingleReadAt,
                   ListPeerChannelsOf, lightningVars, tableVars, graphVars
<1>2. NotificationNotUndone' /\ FreshAsRead'
  BY <1>1 DEF NotificationNotUndone, FreshAsRead
<1>3. /\ Asking' => whole'.readAt <= clock'
      /\ \A p \in PeerIds : Asking' =>
           (connectedAt[p] > whole'.readAt \/ channelsReadAt[p] > whole'.readAt => Peers[p].known)
      /\ \A p \in PeerIds : \A t \in changes[p] :
           whole'.step = "read" /\ t <= whole'.readAt => t <= whole'.channels[p].ver
  <2>1. CASE UNCHANGED whole
    BY <1>1, <2>1, TimesAreNumbers DEF NothingAhead, LaterAreKnown, ReadsHaveChanges, Asking
  <2>2. CASE ListPeers
    BY <2>2 DEF ListPeers, Asking
  <2>3. CASE WholeReadAt
    <3>1. whole'.step = "asked" /\ whole'.readAt = clock + 1 /\ clock' = clock + 1
      BY <2>3, TickTypes DEF WholeReadAt
    <3> QED
      BY <3>1, TimesAreNumbers DEF NothingAhead
  <2>4. CASE ListPeerChannels
    <3>1. /\ whole.step = "asked" /\ whole'.step = "read" /\ whole'.readAt = whole.readAt
          /\ whole'.channels = real /\ clock' = clock
      BY <2>4 DEF ListPeerChannels
    <3> QED
      BY <3>1 DEF NothingAhead, LaterAreKnown, ReadsHaveChanges, Asking
  <2> QED
    BY <2>1, <2>2, <2>3, <2>4 DEF ReadSteps, SingleReadAt, ListPeerChannelsOf
<1> DEFINE ReadWell(r) ==
      /\ single'[r].step \in {"asked", "read"} => single'[r].readAt <= clock'
      /\ single'[r].step = "read" => \A p \in PeerIds : \A t \in changes[p] :
           single'[r].peer = p /\ t <= single'[r].readAt => t <= single'[r].channel.ver
<1>4. \A r \in Readers : ReadWell(r)
  <2>1. CASE UNCHANGED single
    BY <1>1, <2>1, TimesAreNumbers DEF NothingAhead, ReadsHaveChanges
  <2>2. ASSUME NEW r \in Readers, NEW p \in PeerIds, SingleReadAt(r, p)
        PROVE  \A q \in Readers : ReadWell(q)
    <3>1. /\ single'[r] = [step |-> "asked", peer |-> p, readAt |-> clock + 1]
          /\ clock' = clock + 1
          /\ \A q \in Readers \ {r} : single'[q] = single[q]
      BY <2>2, TickTypes DEF SingleReadAt, TypeOK
    <3> QED
      BY <3>1, TimesAreNumbers DEF NothingAhead, ReadsHaveChanges
  <2>3. ASSUME NEW r \in Readers, ListPeerChannelsOf(r)
        PROVE  \A q \in Readers : ReadWell(q)
    <3>1. /\ single'[r] = [step |-> "read", peer |-> single[r].peer,
                           readAt |-> single[r].readAt, channel |-> real[single[r].peer]]
          /\ single[r].step = "asked" /\ clock' = clock
          /\ \A q \in Readers \ {r} : single'[q] = single[q]
      BY <2>3 DEF ListPeerChannelsOf, TypeOK
    <3> QED
      BY <3>1 DEF NothingAhead, ReadsHaveChanges
  <2> QED
    BY <2>1, <2>2, <2>3 DEF ReadSteps, ListPeers, WholeReadAt, ListPeerChannels
<1>5. NothingAhead'
  BY <1>1, <1>3, <1>4, TimesAreNumbers DEF NothingAhead
<1>6. LaterAreKnown'
  BY <1>1, <1>3 DEF LaterAreKnown, Asking
<1>7. ReadsHaveChanges'
  BY <1>1, <1>3, <1>4 DEF ReadsHaveChanges
<1> QED
  BY <1>2, <1>5, <1>6, <1>7

LEMMA OrderGraph ==
  ASSUME OrderInv, GraphSteps
  PROVE  /\ NothingAhead' /\ LaterAreKnown' /\ NotificationNotUndone'
         /\ ReadsHaveChanges' /\ FreshAsRead'
<1> USE DEF OrderInv
<1>1. UNCHANGED <<clock, real, changes, Peers, peersReadAt, channelsReadAt, connectedAt, told>>
  BY DEF GraphSteps, AddWhole, ListChannels, LocalChannelIds, SyncChannels, AddSingle,
         lightningVars, tableVars
<1>2. whole' \in {whole, Idle}
  BY DEF GraphSteps, AddWhole, ListChannels, LocalChannelIds, SyncChannels, AddSingle
<1>3. \A r \in Readers : single'[r] \in {single[r], Idle}
  BY DEF GraphSteps, AddWhole, ListChannels, LocalChannelIds, SyncChannels, AddSingle, TypeOK
<1>4. sync'.step \in {"listed", "keep"} =>
        \/ sync'.asOf = clock
        \/ sync.step \in {"listed", "keep"} /\ sync'.asOf = sync.asOf
  BY DEF GraphSteps, AddWhole, ListChannels, LocalChannelIds, SyncChannels, AddSingle, Idle
<1>5. whole'.step # "idle" => whole' = whole
  BY <1>2 DEF Idle
<1>6. \A r \in Readers : single'[r].step # "idle" => single'[r] = single[r]
  BY <1>3 DEF Idle
<1>7. NothingAhead'
  BY <1>1, <1>4, <1>5, <1>6, TimesAreNumbers DEF NothingAhead, Asking
<1>8. LaterAreKnown' /\ NotificationNotUndone'
  BY <1>1, <1>5 DEF LaterAreKnown, NotificationNotUndone, Asking
<1>9. ReadsHaveChanges' /\ FreshAsRead'
  BY <1>1, <1>5, <1>6 DEF ReadsHaveChanges, FreshAsRead
<1> QED
  BY <1>7, <1>8, <1>9

\* replacePeer: the entry, and no other peer's.
LEMMA EntryReplaced ==
  ASSUME TypeOK, NEW p \in PeerIds, NEW e \in Table, replacePeer(p, e)
  PROVE  Peers'[p] = e /\ \A q \in PeerIds \ {p} : Peers'[q] = Peers[q]
BY DEF TypeOK, replacePeer

LEMMA OrderNotified ==
  ASSUME OrderInv, setConnected
  PROVE  /\ NothingAhead' /\ LaterAreKnown' /\ NotificationNotUndone'
         /\ ReadsHaveChanges' /\ FreshAsRead'
<1> USE DEF OrderInv
<1>1. UNCHANGED <<real, changes, peersReadAt, channelsReadAt, whole, single, sync>>
  BY Notified
<1>2. CASE UNCHANGED <<clock, Peers, scidToPeer, connectedAt, told>>
  <2>1. NothingAhead' /\ LaterAreKnown' /\ NotificationNotUndone'
    BY <1>1, <1>2 DEF NothingAhead, LaterAreKnown, NotificationNotUndone, Asking
  <2>2. ReadsHaveChanges' /\ FreshAsRead'
    BY <1>1, <1>2 DEF ReadsHaveChanges, FreshAsRead
  <2> QED
    BY <2>1, <2>2
<1>3. ASSUME NEW p \in PeerIds, NEW c \in BOOLEAN, Peers[p].known, Tick,
             replacePeer(p, [Peers[p] EXCEPT !.conn = c]),
             connectedAt' = [connectedAt EXCEPT ![p] = Now],
             told' = [told EXCEPT ![p] = c]
      PROVE  /\ NothingAhead' /\ LaterAreKnown' /\ NotificationNotUndone'
             /\ ReadsHaveChanges' /\ FreshAsRead'
  <2>1. clock' = clock + 1 /\ Now = clock + 1
    BY <1>3, TickTypes
  <2>2. /\ Peers'[p].known /\ Peers'[p].conn = c /\ Peers'[p].ver = Peers[p].ver
        /\ \A q \in PeerIds \ {p} : Peers'[q] = Peers[q]
    <3> DEFINE e == [Peers[p] EXCEPT !.conn = c]
    <3>1. e \in Table /\ e.known /\ e.conn = c /\ e.ver = Peers[p].ver
      BY <1>3, EntriesReplaced
    <3>2. replacePeer(p, e)
      BY <1>3
    <3> HIDE DEF e
    <3> QED
      BY <3>1, <3>2, EntryReplaced
  <2>3. /\ connectedAt'[p] = clock + 1 /\ told'[p] = c
        /\ \A q \in PeerIds \ {p} : connectedAt'[q] = connectedAt[q] /\ told'[q] = told[q]
    BY <1>3, <2>1 DEF TypeOK
  <2>4. NothingAhead'
    BY <1>1, <2>1, <2>3, TimesAreNumbers DEF NothingAhead, Asking
  <2>5. LaterAreKnown' /\ NotificationNotUndone'
    BY <1>1, <2>2, <2>3 DEF LaterAreKnown, NotificationNotUndone, Asking
  <2>6. ReadsHaveChanges' /\ FreshAsRead'
    BY <1>1, <2>2 DEF ReadsHaveChanges, FreshAsRead
  <2> QED
    BY <2>4, <2>5, <2>6
<1> QED
  BY <1>2, <1>3, Notified

\* What setPeers makes of a peer, by what is later than the whole read.
LEMMA FreshParts ==
  ASSUME OrderInv, whole.step = "read", NEW p \in PeerIds
  PROVE  /\ NewerConnection(p) /\ Fresh(p).known => Fresh(p).conn = Peers[p].conn
         /\ NewerConnection(p) \/ NewerChannels(p) => Peers[p].known
         /\ NewerChannels(p) => Fresh(p).ver = Peers[p].ver
         /\ ~NewerChannels(p) => Fresh(p).ver = whole.channels[p].ver
<1> DEFINE a == AsRead(p)
           n == IF NewerConnection(p) /\ Peers[p].known /\ a.known
                THEN [a EXCEPT !.conn = Peers[p].conn] ELSE a
<1>1. /\ a \in Table /\ a.ver = whole.channels[p].ver /\ Peers[p] \in Table
  BY FreshTypes DEF OrderInv, TypeOK, AsRead
<1>2. NewerConnection(p) \/ NewerChannels(p) => Peers[p].known
  BY DEF OrderInv, LaterAreKnown, NewerConnection, NewerChannels, Asking
<1>3. Fresh(p) = IF ~(NewerChannels(p) /\ Peers[p].known) THEN n
                 ELSE IF ~n.known THEN Peers[p]
                 ELSE [n EXCEPT !.open = Peers[p].open, !.ver = Peers[p].ver]
  BY DEF Fresh
<1> HIDE DEF a
<1>4. /\ n \in Table /\ n.known = a.known /\ n.ver = a.ver
      /\ NewerConnection(p) /\ n.known => n.conn = Peers[p].conn
  BY <1>1, <1>2 DEF Table
<1> HIDE DEF n
<1>5. /\ [n EXCEPT !.open = Peers[p].open, !.ver = Peers[p].ver].ver = Peers[p].ver
      /\ [n EXCEPT !.open = Peers[p].open, !.ver = Peers[p].ver].conn = n.conn
  BY <1>4 DEF Table
<1> QED
  BY <1>1, <1>2, <1>3, <1>4, <1>5

LEMMA OrderWhole ==
  ASSUME OrderInv, setPeers
  PROVE  /\ NothingAhead' /\ LaterAreKnown' /\ NotificationNotUndone'
         /\ ReadsHaveChanges' /\ FreshAsRead'
<1> USE DEF OrderInv
<1>1. /\ UNCHANGED <<clock, real, changes, told, single, sync>>
      /\ whole.step = "read" /\ Asking
  BY WholeApplied DEF Asking
<1>2. CASE whole' = Idle /\ UNCHANGED <<Peers, scidToPeer, peersReadAt, channelsReadAt, connectedAt>>
  <2>1. whole'.step = "idle"
    BY <1>2 DEF Idle
  <2>2. NothingAhead' /\ LaterAreKnown' /\ NotificationNotUndone'
    BY <1>1, <1>2, <2>1 DEF NothingAhead, LaterAreKnown, NotificationNotUndone, Asking
  <2>3. ReadsHaveChanges' /\ FreshAsRead'
    BY <1>1, <1>2, <2>1 DEF ReadsHaveChanges, FreshAsRead
  <2> QED
    BY <2>2, <2>3
<1>3. CASE /\ whole.readAt > peersReadAt
           /\ Peers' = [p \in PeerIds |-> Fresh(p)]
           /\ peersReadAt' = whole.readAt
           /\ connectedAt' = [p \in PeerIds |-> IF NewerConnection(p) THEN connectedAt[p] ELSE 0]
           /\ channelsReadAt' = [p \in PeerIds |-> IF NewerChannels(p) THEN channelsReadAt[p] ELSE 0]
           /\ whole'.step = "add"
  <2>1. whole.readAt \in Nat /\ whole.readAt <= clock /\ clock \in Nat
    BY <1>1, TimesAreNumbers DEF NothingAhead
  <2>2. ASSUME NEW p \in PeerIds
        PROVE  /\ Peers'[p] = Fresh(p)
               /\ connectedAt'[p] = IF NewerConnection(p) THEN connectedAt[p] ELSE 0
               /\ channelsReadAt'[p] = IF NewerChannels(p) THEN channelsReadAt[p] ELSE 0
    BY <1>3
  <2>3. NothingAhead'
    BY <1>1, <1>3, <2>1, <2>2 DEF NothingAhead, Asking
  <2>4. LaterAreKnown'
    BY <1>3 DEF LaterAreKnown, Asking
  <2>5. NotificationNotUndone'
    <3> SUFFICES ASSUME NEW p \in PeerIds, Peers'[p].known, connectedAt'[p] > peersReadAt'
                 PROVE  Peers'[p].conn = told'[p]
      BY DEF NotificationNotUndone
    <3>1. NewerConnection(p)
      BY <1>3, <2>1, <2>2
    <3>2. connectedAt[p] > peersReadAt
      BY <1>3, <2>1, <3>1, TimesAreNumbers DEF NewerConnection
    <3> QED
      BY <1>1, <2>2, <3>1, <3>2, FreshParts DEF NotificationNotUndone
  <2>6. ReadsHaveChanges'
    BY <1>1, <1>3 DEF ReadsHaveChanges
  <2>7. FreshAsRead'
    <3> SUFFICES ASSUME NEW p \in PeerIds, NEW t \in changes[p],
                        t <= peersReadAt' \/ t <= channelsReadAt'[p]
                 PROVE  t <= Peers'[p].ver
      BY <1>1 DEF FreshAsRead
    <3>1. t \in Nat
      BY TimesAreNumbers
    <3>2. CASE NewerChannels(p)
      <4>1. t <= channelsReadAt[p]
        BY <1>3, <2>1, <2>2, <3>1, <3>2, TimesAreNumbers DEF NewerChannels
      <4> QED
        BY <1>1, <2>2, <3>2, <4>1, FreshParts DEF FreshAsRead
    <3>3. CASE ~NewerChannels(p)
      <4>1. t <= whole.readAt
        BY <1>3, <2>1, <2>2, <3>1, <3>3
      <4> QED
        BY <1>1, <2>2, <3>3, <4>1, FreshParts DEF ReadsHaveChanges
    <3> QED
      BY <3>2, <3>3
  <2> QED
    BY <2>3, <2>4, <2>5, <2>6, <2>7
<1> QED
  BY <1>2, <1>3, WholeApplied

LEMMA OrderSingle ==
  ASSUME OrderInv, NEW r \in Readers, setPeerChannels(r)
  PROVE  /\ NothingAhead' /\ LaterAreKnown' /\ NotificationNotUndone'
         /\ ReadsHaveChanges' /\ FreshAsRead'
<1> USE DEF OrderInv
<1>1. /\ UNCHANGED <<clock, real, changes, peersReadAt, connectedAt, told, whole, sync>>
      /\ single[r].step = "read" /\ single[r].peer \in PeerIds
      /\ single[r].channel \in States /\ single[r].readAt \in Nat
  BY SingleApplied, TimesAreNumbers
<1>2. /\ single'[r].step \in {"idle", "add"}
      /\ \A q \in Readers \ {r} : single'[q] = single[q]
  <2>1. PICK t : t.step \in {"idle", "add"} /\ single' = [single EXCEPT ![r] = t]
    <3> DEFINE a == [step |-> "add", open |-> {single[r].peer}]
    <3>1. Idle.step = "idle" /\ a.step = "add"
      BY DEF Idle
    <3>2. \/ single' = [single EXCEPT ![r] = Idle]
          \/ single' = [single EXCEPT ![r] = IF single[r].channel.open THEN a ELSE Idle]
      BY SingleApplied
    <3> HIDE DEF a
    <3> QED
      BY <3>1, <3>2
  <2> QED
    BY <2>1 DEF TypeOK
<1>3. ReadsHaveChanges'
  BY <1>1, <1>2 DEF ReadsHaveChanges
<1>4. CASE UNCHANGED <<Peers, channelsReadAt>>
  <2>1. NothingAhead' /\ LaterAreKnown' /\ NotificationNotUndone' /\ FreshAsRead'
    BY <1>1, <1>2, <1>4
       DEF NothingAhead, LaterAreKnown, NotificationNotUndone, FreshAsRead, Asking
  <2> QED
    BY <1>3, <2>1
<1>5. ASSUME NEW p \in PeerIds, p = single[r].peer, Peers[p].known,
             single[r].readAt > peersReadAt, single[r].readAt > channelsReadAt[p],
             replacePeer(p, [Peers[p] EXCEPT !.open = single[r].channel.open,
                                             !.ver = single[r].channel.ver]),
             channelsReadAt' = [channelsReadAt EXCEPT ![p] = single[r].readAt]
      PROVE  NothingAhead' /\ LaterAreKnown' /\ NotificationNotUndone' /\ FreshAsRead'
  <2>1. /\ Peers'[p].known /\ Peers'[p].conn = Peers[p].conn
        /\ Peers'[p].ver = single[r].channel.ver
        /\ \A q \in PeerIds \ {p} : Peers'[q] = Peers[q]
    <3> DEFINE o == single[r].channel.open
               v == single[r].channel.ver
               e == [Peers[p] EXCEPT !.open = o, !.ver = v]
    <3>1. o \in BOOLEAN /\ v \in Times
      BY <1>1 DEF States
    <3>2. replacePeer(p, e)
      BY <1>5
    <3> HIDE DEF o, v
    <3>3. e \in Table /\ e.known /\ e.conn = Peers[p].conn /\ e.ver = v
      <4>1. Peers[p].known /\ Peers[p] \in Table
        BY <1>5 DEF TypeOK
      <4> QED
        BY <3>1, <4>1 DEF Table
    <3> HIDE DEF e
    <3> QED
      BY <3>2, <3>3, EntryReplaced DEF v
  <2>2. /\ channelsReadAt'[p] = single[r].readAt
        /\ \A q \in PeerIds \ {p} : channelsReadAt'[q] = channelsReadAt[q]
    BY <1>5 DEF TypeOK
  <2>3. NothingAhead'
    BY <1>1, <1>2, <2>2 DEF NothingAhead, Asking
  <2>4. LaterAreKnown' /\ NotificationNotUndone'
    <3>1. LaterAreKnown'
      BY <1>1, <2>1, <2>2 DEF LaterAreKnown, Asking
    <3>2. \A q \in PeerIds : Peers'[q].conn = Peers[q].conn /\ (Peers'[q].known => Peers[q].known)
      BY <1>5, <2>1
    <3> QED
      BY <1>1, <3>1, <3>2 DEF NotificationNotUndone
  <2>5. FreshAsRead'
    <3>1. \A t \in changes[p] :
            t <= peersReadAt' \/ t <= channelsReadAt'[p] => t <= Peers'[p].ver
      <4>1. \A t \in changes[p] : t <= single[r].readAt => t <= single[r].channel.ver
        BY <1>1, <1>5 DEF ReadsHaveChanges
      <4> QED
        BY <1>1, <1>5, <2>1, <2>2, <4>1, TimesAreNumbers
    <3> QED
      BY <1>1, <2>1, <2>2, <3>1 DEF FreshAsRead
  <2> QED
    BY <2>3, <2>4, <2>5
<1> QED
  BY <1>1, <1>3, <1>4, <1>5, SingleApplied

LEMMA OrderInit == Init => OrderInv
<1> SUFFICES ASSUME Init PROVE OrderInv
  OBVIOUS
<1>1. NothingAhead
  BY DEF Init, NothingAhead, Asking, Idle
<1>2. LaterAreKnown /\ NotificationNotUndone
  BY DEF Init, LaterAreKnown, NotificationNotUndone, Asking, Idle
<1>3. ReadsHaveChanges /\ FreshAsRead
  BY DEF Init, ReadsHaveChanges, FreshAsRead
<1> QED
  BY <1>1, <1>2, <1>3, TypesInit DEF OrderInv

LEMMA OrderStutter ==
  ASSUME OrderInv, UNCHANGED vars
  PROVE  /\ NothingAhead' /\ LaterAreKnown' /\ NotificationNotUndone'
         /\ ReadsHaveChanges' /\ FreshAsRead'
BY DEF OrderInv, vars, lightningVars, tableVars, graphVars, NothingAhead, LaterAreKnown,
       NotificationNotUndone, ReadsHaveChanges, FreshAsRead, Asking

\* The inductive invariant of the table: no time is in the future, what came
\* later than a whole read is of a known peer, and reads have the changes
\* that came before them.
THEOREM OrderInvariant == Spec => []OrderInv
<1>1. OrderInv /\ [Next]_vars =>
        /\ NothingAhead' /\ LaterAreKnown' /\ NotificationNotUndone'
        /\ ReadsHaveChanges' /\ FreshAsRead'
  BY StepKinds, OrderLightning, OrderReads, OrderGraph, OrderNotified, OrderWhole,
     OrderSingle, OrderStutter
     DEF LightningSteps, TableSteps
<1>2. OrderInv /\ TypeOK' /\ [Next]_vars => OrderInv'
  BY <1>1 DEF OrderInv
<1> QED
  BY <1>2, OrderInit, TableTypes, PTL DEF Spec

\* Whatever was read and applied in between, the table shows every change that
\* came before the latest applied read of a peer began (peers.go setPeers,
\* setPeerChannels).
THEOREM TableIsFresh == Spec => []FreshAsRead
<1>1. OrderInv => FreshAsRead
  BY DEF OrderInv
<1> QED
  BY <1>1, OrderInvariant, PTL

\* A refresh that began to read before a notification was handled does not
\* undo it (peers.go setConnected, setPeers).
THEOREM NotificationsHold == Spec => []NotificationNotUndone
<1>1. OrderInv => NotificationNotUndone
  BY DEF OrderInv
<1> QED
  BY <1>1, OrderInvariant, PTL
-----------------------------------------------------------------------------
(***************************************************************************)
(* Our channels in the graph.                                              *)
(***************************************************************************)
KnownOpen(p) == Peers[p].known /\ Peers[p].open

GraphInv == OrderInv /\ KeepOrAdded /\ OwnChannelsStay

\* What a step must do to keep the two parts: it makes no channel of the table
\* without keeping it on its way to the graph, or in it.
LEMMA GraphKept ==
  ASSUME GraphInv, UNCHANGED sync,
         \A p \in PeerIds : KnownOpen(p)' /\ ~Adding(p)' =>
           \/ KnownOpen(p) /\ ~Adding(p) /\ Channels'[p] = Channels[p]
           \/ Channels'[p] # None /\ (sync.step = "keep" => Channels'[p] >= sync.asOf)
  PROVE  KeepOrAdded' /\ OwnChannelsStay'
<1>1. KeepOrAdded'
  BY DEF GraphInv, KeepOrAdded, KnownOpen
<1>2. OwnChannelsStay'
  BY DEF GraphInv, OwnChannelsStay, KnownOpen
<1> QED
  BY <1>1, <1>2

\* Threads that neither have nor get channels to add leave those on their way.
LEMMA AddingUnchanged ==
  ASSUME UNCHANGED whole \/ (whole.step # "add" /\ whole'.step # "add"),
         \A r \in Readers : single'[r] = single[r]
                            \/ (single[r].step # "add" /\ single'[r].step # "add")
  PROVE  \A p \in PeerIds : Adding(p)' <=> Adding(p)
BY DEF Adding

LEMMA GraphReads ==
  ASSUME GraphInv, LightningSteps \/ ReadSteps \/ UNCHANGED vars
  PROVE  KeepOrAdded' /\ OwnChannelsStay'
<1> USE DEF vars, lightningVars, tableVars, graphVars
<1>1. UNCHANGED <<Peers, Channels, sync>>
  BY DEF LightningSteps, ReadSteps, ChannelChanges, ConnectionChanges, ListPeers,
         WholeReadAt, ListPeerChannels, SingleReadAt, ListPeerChannelsOf
<1>2. UNCHANGED whole \/ (whole.step # "add" /\ whole'.step # "add")
  BY DEF LightningSteps, ReadSteps, ChannelChanges, ConnectionChanges, ListPeers,
         WholeReadAt, ListPeerChannels, SingleReadAt, ListPeerChannelsOf
<1>3. \A r \in Readers : single'[r] = single[r]
                         \/ (single[r].step # "add" /\ single'[r].step # "add")
  <2>1. CASE UNCHANGED single
    BY <2>1
  <2>2. ASSUME NEW r \in Readers, NEW p \in PeerIds, SingleReadAt(r, p)
        PROVE  \A q \in Readers : single'[q] = single[q]
                                  \/ (single[q].step # "add" /\ single'[q].step # "add")
    BY <2>2 DEF SingleReadAt, GraphInv, OrderInv, TypeOK
  <2>3. ASSUME NEW r \in Readers, ListPeerChannelsOf(r)
        PROVE  \A q \in Readers : single'[q] = single[q]
                                  \/ (single[q].step # "add" /\ single'[q].step # "add")
    BY <2>3 DEF ListPeerChannelsOf, GraphInv, OrderInv, TypeOK
  <2> QED
    BY <2>1, <2>2, <2>3
       DEF LightningSteps, ReadSteps, ChannelChanges, ConnectionChanges, ListPeers,
           WholeReadAt, ListPeerChannels
<1>4. \A p \in PeerIds : KnownOpen(p)' /\ ~Adding(p)' =>
        KnownOpen(p) /\ ~Adding(p) /\ Channels'[p] = Channels[p]
  BY <1>1, <1>2, <1>3, AddingUnchanged DEF KnownOpen
<1> QED
  BY <1>1, <1>4, GraphKept

LEMMA GraphTable ==
  ASSUME GraphInv, TableSteps
  PROVE  KeepOrAdded' /\ OwnChannelsStay'
<1> USE DEF GraphInv, OrderInv
<1>1. CASE setConnected
  <2>1. UNCHANGED <<whole, single, Channels, sync>>
    BY <1>1, Notified
  <2>2. \A p \in PeerIds : KnownOpen(p)' => KnownOpen(p)
    <3>1. ASSUME NEW p \in PeerIds, NEW c \in BOOLEAN, Peers[p].known,
                 replacePeer(p, [Peers[p] EXCEPT !.conn = c])
          PROVE  \A q \in PeerIds : KnownOpen(q)' => KnownOpen(q)
      <4> DEFINE e == [Peers[p] EXCEPT !.conn = c]
      <4>1. e \in Table /\ e.open = Peers[p].open
        BY <3>1, EntriesReplaced
      <4>2. replacePeer(p, e)
        BY <3>1
      <4> HIDE DEF e
      <4>3. Peers'[p].open = Peers[p].open /\ \A q \in PeerIds \ {p} : Peers'[q] = Peers[q]
        BY <4>1, <4>2, EntryReplaced
      <4> QED
        BY <3>1, <4>3 DEF KnownOpen
    <3> QED
      BY <1>1, <3>1, Notified DEF KnownOpen
  <2>3. \A p \in PeerIds : Adding(p)' <=> Adding(p)
    BY <2>1, AddingUnchanged
  <2> QED
    BY <2>1, <2>2, <2>3, GraphKept
<1>2. CASE setPeers
  <2>1. UNCHANGED <<single, Channels, sync>> /\ whole.step = "read"
    BY <1>2, WholeApplied
  <2>2. CASE whole' = Idle /\ UNCHANGED Peers
    <3>1. \A p \in PeerIds : Adding(p)' <=> Adding(p)
      <4>1. whole'.step # "add"
        BY <2>2 DEF Idle
      <4> QED
        BY <2>1, <4>1, AddingUnchanged
    <3> QED
      BY <2>1, <2>2, <3>1, GraphKept DEF KnownOpen
  <2>3. CASE /\ Peers' = [p \in PeerIds |-> Fresh(p)]
             /\ whole' = [step |-> "add",
                          open |-> {p \in PeerIds : Fresh(p).known /\ Fresh(p).open}]
    <3>1. \A p \in PeerIds : KnownOpen(p)' => Adding(p)'
      BY <2>3 DEF KnownOpen, Adding
    <3> QED
      BY <2>1, <3>1, GraphKept
  <2> QED
    BY <1>2, <2>2, <2>3, WholeApplied
<1>3. ASSUME NEW r \in Readers, setPeerChannels(r)
      PROVE  KeepOrAdded' /\ OwnChannelsStay'
  <2>1. /\ UNCHANGED <<whole, Channels, sync>> /\ single[r].step = "read"
        /\ single[r].peer \in PeerIds /\ single[r].channel.open \in BOOLEAN
        /\ single[r].channel.ver \in Times
    BY <1>3, SingleApplied DEF States
  <2>p. PICK p \in PeerIds, o \in BOOLEAN, v \in Times :
          p = single[r].peer /\ o = single[r].channel.open /\ v = single[r].channel.ver
    BY <2>1
  <2> DEFINE a == [step |-> "add", open |-> {p}]
  <2>2. \/ UNCHANGED Peers /\ single' = [single EXCEPT ![r] = Idle]
        \/ /\ Peers[p].known
           /\ replacePeer(p, [Peers[p] EXCEPT !.open = o, !.ver = v])
           /\ single' = [single EXCEPT ![r] = IF o THEN a ELSE Idle]
    BY <1>3, <2>p, SingleApplied
  <2>3. Idle.step = "idle" /\ a.step = "add" /\ p \in a.open
    BY DEF Idle
  <2>4. r \in Readers /\ single \in [Readers -> SingleThreads]
    BY DEF TypeOK
  <2>5. \A q \in Readers \ {r} : single'[q] = single[q]
    BY <2>2, <2>4
  <2>6. \A q \in PeerIds : Adding(q) => Adding(q)'
    BY <2>1, <2>5 DEF Adding
  <2>7. \A q \in PeerIds : KnownOpen(q)' => KnownOpen(q) \/ Adding(q)'
    <3>1. CASE UNCHANGED Peers
      BY <3>1 DEF KnownOpen
    <3>2. CASE /\ Peers[p].known
               /\ replacePeer(p, [Peers[p] EXCEPT !.open = o, !.ver = v])
               /\ single' = [single EXCEPT ![r] = IF o THEN a ELSE Idle]
      <4> HIDE DEF a
      <4> DEFINE e == [Peers[p] EXCEPT !.open = o, !.ver = v]
      <4>1. Peers[p] \in Table
        BY DEF TypeOK
      <4>2. e \in Table /\ e.open = o
        BY <4>1 DEF Table
      <4>3. replacePeer(p, e)
        BY <3>2
      <4> HIDE DEF e
      <4>4. Peers'[p].open = o /\ \A q \in PeerIds \ {p} : Peers'[q] = Peers[q]
        BY <4>2, <4>3, EntryReplaced
      <4>5. o => Adding(p)'
        <5>1. o => single'[r] = a
          BY <2>4, <3>2
        <5> QED
          BY <2>3, <2>4, <5>1 DEF Adding
      <4> QED
        BY <3>2, <4>4, <4>5 DEF KnownOpen
    <3> QED
      BY <2>2, <3>1, <3>2
  <2> QED
    BY <2>1, <2>6, <2>7, GraphKept
<1> QED
  BY <1>1, <1>2, <1>3 DEF TableSteps

LEMMA GraphAdds ==
  ASSUME GraphInv, AddWhole \/ \E r \in Readers : AddSingle(r)
  PROVE  KeepOrAdded' /\ OwnChannelsStay'
<1> USE DEF GraphInv, OrderInv
<1>1. UNCHANGED <<Peers, sync>>
  BY DEF AddWhole, AddSingle, tableVars
<1>2. PICK S : /\ Channels' = Added(S)
               /\ \A p \in PeerIds : Adding(p) => Adding(p)' \/ p \in S
  <2>1. CASE AddWhole
    <3>1. /\ Channels' = Added(whole.open) /\ UNCHANGED single
      BY <2>1 DEF AddWhole
    <3> QED
      BY <3>1 DEF Adding
  <2>2. ASSUME NEW r \in Readers, AddSingle(r)
        PROVE  \E S : /\ Channels' = Added(S)
                      /\ \A p \in PeerIds : Adding(p) => Adding(p)' \/ p \in S
    <3>1. /\ Channels' = Added(single[r].open) /\ UNCHANGED whole
          /\ \A q \in Readers \ {r} : single'[q] = single[q]
      BY <2>2 DEF AddSingle, TypeOK
    <3> QED
      BY <3>1 DEF Adding
  <2> QED
    BY <2>1, <2>2
<1>3. \A p \in PeerIds : Channels'[p] = IF p \in S THEN clock ELSE Channels[p]
  BY <1>2 DEF Added
<1>4. clock # None /\ (sync.step = "keep" => clock >= sync.asOf)
  BY TimesAreNumbers DEF NothingAhead, TypeOK
<1> QED
  BY <1>1, <1>2, <1>3, <1>4, GraphKept DEF KnownOpen

LEMMA GraphSyncs ==
  ASSUME GraphInv, ListChannels \/ LocalChannelIds \/ SyncChannels
  PROVE  KeepOrAdded' /\ OwnChannelsStay'
<1> USE DEF GraphInv, OrderInv
<1>1. UNCHANGED <<Peers, whole, single>>
  BY DEF ListChannels, LocalChannelIds, SyncChannels, tableVars
<1>2. \A p \in PeerIds : Adding(p)' <=> Adding(p)
  BY <1>1, AddingUnchanged
<1>3. CASE ListChannels
  <2>1. sync'.step # "keep" /\ UNCHANGED Channels
    BY <1>3 DEF ListChannels
  <2> QED
    BY <1>1, <1>2, <2>1 DEF KeepOrAdded, OwnChannelsStay
<1>4. CASE LocalChannelIds
  <2>1. sync'.keep = {p \in PeerIds : KnownOpen(p)} /\ UNCHANGED Channels
    BY <1>4 DEF LocalChannelIds, KnownOpen
  <2> QED
    BY <1>1, <1>2, <2>1 DEF KeepOrAdded, OwnChannelsStay, KnownOpen
<1>5. CASE SyncChannels
  <2>1. sync'.step # "keep" /\ sync.step = "keep"
    BY <1>5 DEF SyncChannels, Idle
  <2>2. 0 # None
    BY DEF Times
  <2>3. ASSUME NEW p \in PeerIds, Peers[p].known, Peers[p].open, ~Adding(p)
        PROVE  Channels'[p] # None
    <3>1. Channels[p] # None /\ Stays(p)
      BY <2>1, <2>3 DEF KeepOrAdded, OwnChannelsStay, Stays
    <3> QED
      BY <1>5, <2>2, <3>1 DEF SyncChannels
  <2> QED
    BY <1>1, <1>2, <2>1, <2>3 DEF KeepOrAdded, OwnChannelsStay
<1> QED
  BY <1>3, <1>4, <1>5

\* An open channel of the table, once added to the graph, stays in it, announced
\* or not, wherever its addition comes in a graph refresh (cron.go refreshGraph,
\* graph.go SyncChannels).
THEOREM OwnChannelsKept == Spec => []OwnChannelsStay
<1>1. Init => KeepOrAdded /\ OwnChannelsStay
  BY DEF Init, KeepOrAdded, OwnChannelsStay, Idle
<1>2. GraphInv /\ [Next]_vars => KeepOrAdded' /\ OwnChannelsStay'
  BY StepKinds, GraphReads, GraphTable, GraphAdds, GraphSyncs DEF GraphSteps
<1>3. GraphInv /\ OrderInv' /\ [Next]_vars => GraphInv'
  BY <1>2 DEF GraphInv
<1>4. Init => GraphInv
  BY <1>1, OrderInit DEF GraphInv
<1>5. Spec => []GraphInv
  BY <1>3, <1>4, OrderInvariant, PTL DEF Spec
<1>6. GraphInv => OwnChannelsStay
  BY DEF GraphInv
<1> QED
  BY <1>5, <1>6, PTL
=============================================================================
