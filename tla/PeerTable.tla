------------------------------ MODULE PeerTable ------------------------------
(***************************************************************************)
(* Our peers and the channels with them (node/cron.go, node/peers.go), and *)
(* their entries in the graph.                                             *)
(*                                                                         *)
(* Three kinds of threads replace what the table says of a peer: the whole *)
(* refresh, a cron job that never runs twice at once; single refreshes, by *)
(* rebalances that just moved liquidity, any number at once; connect and   *)
(* disconnect notifications, each in a goroutine, in any order.  Reads and *)
(* their application are apart: the table orders them by the time a read   *)
(* began.  The graph refresh removes channels that are not listed, unless  *)
(* the table had them.                                                     *)
(*                                                                         *)
(* A peer has at most one channel.  What lightningd says of it is its      *)
(* version: the time of its last change (opened, closed, balance, fees).   *)
(***************************************************************************)
EXTENDS Integers, FiniteSets

CONSTANTS
  PeerIds,    \* our peers
  Readers,    \* goroutines that refresh single peers
  None,       \* no entry
  MaxClock    \* bound: the clock

Times == 0 .. MaxClock

ASSUME PeerTableAssumption ==
  /\ IsFiniteSet(PeerIds)
  /\ MaxClock \in Nat
  /\ None \notin Times

VARIABLES
  clock,           \* time.Now(): every event and every reading of it is a tick
  real,            \* what lightningd would answer about each peer
  changes,         \* history: by peer, when its channel changed
  notifications,   \* on their way
  Peers, scidToPeer, peersReadAt, channelsReadAt, connectedAt,
  told,            \* history: what the last notification handled said
  whole,           \* the thread of refreshPeers
  single,          \* by reader, the thread of RefreshPeerChannels
  Channels,        \* the graph: by peer, when our channel with it was added
  sync             \* the thread of refreshGraph

lightningVars == <<real, changes, notifications>>
tableVars     == <<Peers, scidToPeer, peersReadAt, channelsReadAt, connectedAt, told>>
graphVars     == <<Channels, sync>>

vars == <<clock, lightningVars, tableVars, whole, single, graphVars>>

States == [conn : BOOLEAN, open : BOOLEAN, ver : Times]

\* A table without an entry for a peer is a table that knows of no channel.
Table == [known : BOOLEAN, conn : BOOLEAN, open : BOOLEAN, ver : Times]

Idle == [step |-> "idle"]

\* A whole refresh: the peers listed, when it began to ask for the channels,
\* the channels listed, and those it still has to add to the graph.
Listings == UNION {[S -> BOOLEAN] : S \in SUBSET PeerIds}

WholeThreads ==
  {Idle} \cup [step : {"peers"}, peers : Listings]
    \cup [step : {"asked"}, peers : Listings, readAt : Times]
    \cup [step : {"read"}, peers : Listings, readAt : Times,
          channels : [PeerIds -> States]]
    \cup [step : {"add"}, open : SUBSET PeerIds]

\* The refresh of one peer.
SingleThreads ==
  {Idle} \cup [step : {"asked"}, peer : PeerIds, readAt : Times]
    \cup [step : {"read"}, peer : PeerIds, readAt : Times, channel : States]
    \cup [step : {"add"}, open : SUBSET PeerIds]

\* The graph refresh: which of our channels are listed, and are to be kept.
SyncThreads ==
  {Idle} \cup [step : {"listed"}, asOf : Times, list : SUBSET PeerIds]
    \cup [step : {"keep"}, asOf : Times, list : SUBSET PeerIds,
          keep : SUBSET PeerIds]

TypeOK ==
  /\ clock \in Times
  /\ real \in [PeerIds -> States]
  /\ changes \in [PeerIds -> SUBSET Times]
  /\ notifications \subseteq [peer : PeerIds, conn : BOOLEAN]
  /\ Peers \in [PeerIds -> Table] /\ scidToPeer \in [PeerIds -> Table \cup {None}]
  /\ peersReadAt \in Times
  /\ channelsReadAt \in [PeerIds -> Times] /\ connectedAt \in [PeerIds -> Times]
  /\ told \in [PeerIds -> BOOLEAN]
  /\ whole \in WholeThreads /\ single \in [Readers -> SingleThreads]
  /\ Channels \in [PeerIds -> Times \cup {None}] /\ sync \in SyncThreads

\* The time a thread reads from the clock, or the time of an event.
Tick == clock < MaxClock /\ clock' = clock + 1
Now == clock + 1
-----------------------------------------------------------------------------
(***************************************************************************)
(* lightningd.                                                             *)
(***************************************************************************)
ChannelChanges(p) ==
  /\ Tick
  /\ \E o \in BOOLEAN :
       /\ o \/ real[p].open
       /\ real' = [real EXCEPT ![p].open = o, ![p].ver = Now]
  /\ changes' = [changes EXCEPT ![p] = @ \cup {Now}]
  /\ UNCHANGED <<notifications, tableVars, whole, single, graphVars>>

ConnectionChanges(p) ==
  /\ Tick
  /\ real' = [real EXCEPT ![p].conn = ~@]
  /\ notifications' = notifications \cup {[peer |-> p, conn |-> ~real[p].conn]}
  /\ UNCHANGED <<changes, tableVars, whole, single, graphVars>>

\* listpeers has the peers that are connected or have a channel.
Listed(p) == real[p].conn \/ real[p].open
-----------------------------------------------------------------------------
(***************************************************************************)
(* The table, with PeersLock held.                                         *)
(***************************************************************************)
Indexed(peer) == IF peer.known /\ peer.open THEN peer ELSE None

\* Slip: the index keeps the peer that was replaced.
ReplacePeerOnly(p, peer) ==
  /\ Peers' = [Peers EXCEPT ![p] = peer]
  /\ UNCHANGED scidToPeer

\* The index forgets the entries of the peer replaced, then has the new one's.
replacePeer(p, peer) ==
  /\ Peers' = [Peers EXCEPT ![p] = peer]
  /\ scidToPeer' = [scidToPeer EXCEPT ![p] =
       IF peer.open THEN peer ELSE IF @ = Peers[p] THEN None ELSE @]

\* A notification about a known peer.
setConnected ==
  \E n \in notifications :
    /\ notifications' = notifications \ {n}
    /\ IF Peers[n.peer].known
       THEN /\ Tick
            /\ replacePeer(n.peer, [Peers[n.peer] EXCEPT !.conn = n.conn])
            /\ connectedAt' = [connectedAt EXCEPT ![n.peer] = Now]
            /\ told' = [told EXCEPT ![n.peer] = n.conn]
       ELSE UNCHANGED <<clock, Peers, scidToPeer, connectedAt, told>>
    /\ UNCHANGED <<real, changes, peersReadAt, channelsReadAt, whole, single, graphVars>>

\* What the whole read says of p: the peers of open channels take their
\* connection from them, which were read later.
AsRead(p) ==
  LET c == whole.channels[p] IN
  [known |-> p \in DOMAIN whole.peers \/ c.open,
   conn  |-> IF c.open THEN c.conn
             ELSE p \in DOMAIN whole.peers /\ whole.peers[p],
   open  |-> c.open,
   ver   |-> c.ver]

NewerConnection(p) == connectedAt[p] > whole.readAt
NewerChannels(p)   == channelsReadAt[p] > whole.readAt

\* Slip: it replaces channels that were read later.
FreshWhole(p) ==
  IF NewerConnection(p) /\ Peers[p].known /\ AsRead(p).known
  THEN [AsRead(p) EXCEPT !.conn = Peers[p].conn]
  ELSE AsRead(p)

\* Slip: it replaces what a notification said since.
FreshUntold(p) ==
  IF ~(NewerChannels(p) /\ Peers[p].known) THEN AsRead(p)
  ELSE IF ~AsRead(p).known THEN Peers[p]
  ELSE [AsRead(p) EXCEPT !.open = Peers[p].open, !.ver = Peers[p].ver]

\* Later notifications and later reads of a known peer win over the whole read.
Fresh(p) ==
  LET newer == IF NewerConnection(p) /\ Peers[p].known /\ AsRead(p).known
                THEN [AsRead(p) EXCEPT !.conn = Peers[p].conn]
                ELSE AsRead(p)
  IN IF ~(NewerChannels(p) /\ Peers[p].known) THEN newer
     ELSE IF ~newer.known THEN Peers[p]
     ELSE [newer EXCEPT !.open = Peers[p].open, !.ver = Peers[p].ver]

\* setPeers, unless a later refresh was applied: the channels go to the graph
\* once PeersLock is released.
setPeers ==
  /\ whole.step = "read"
  /\ IF whole.readAt <= peersReadAt
     THEN whole' = Idle /\ UNCHANGED tableVars
     ELSE /\ Peers' = [p \in PeerIds |-> Fresh(p)]
          /\ scidToPeer' = [p \in PeerIds |-> Indexed(Fresh(p))]
          /\ peersReadAt' = whole.readAt
          /\ connectedAt' = [p \in PeerIds |-> IF NewerConnection(p) THEN connectedAt[p] ELSE 0]
          /\ channelsReadAt' = [p \in PeerIds |-> IF NewerChannels(p) THEN channelsReadAt[p] ELSE 0]
          /\ whole' = [step |-> "add",
                       open |-> {p \in PeerIds : Fresh(p).known /\ Fresh(p).open}]
          /\ UNCHANGED told
  /\ UNCHANGED <<clock, lightningVars, single, graphVars>>

\* setPeerChannels: unless the channels of the peer were read since.
setPeerChannels(r) ==
  LET t == single[r]
      p == t.peer
  IN /\ t.step = "read"
     /\ IF ~Peers[p].known \/ t.readAt <= peersReadAt \/ t.readAt <= channelsReadAt[p]
        THEN /\ single' = [single EXCEPT ![r] = Idle]
             /\ UNCHANGED <<Peers, scidToPeer, channelsReadAt>>
        ELSE /\ replacePeer(p, [Peers[p] EXCEPT !.open = t.channel.open, !.ver = t.channel.ver])
             /\ channelsReadAt' = [channelsReadAt EXCEPT ![p] = t.readAt]
             /\ single' = [single EXCEPT ![r] =
                  IF t.channel.open
                  THEN [step |-> "add", open |-> {p}]
                  ELSE Idle]
     /\ UNCHANGED <<clock, lightningVars, peersReadAt, connectedAt, told, whole, graphVars>>
-----------------------------------------------------------------------------
(***************************************************************************)
(* refreshPeers and RefreshPeerChannels.                                   *)
(***************************************************************************)
ListPeers ==
  /\ whole.step = "idle"
  /\ whole' = [step |-> "peers",
               peers |-> [p \in {q \in PeerIds : Listed(q)} |-> real[p].conn]]
  /\ UNCHANGED <<clock, lightningVars, tableVars, single, graphVars>>

\* readAt is taken before the channels are asked for.
WholeReadAt ==
  /\ whole.step = "peers"
  /\ Tick
  /\ whole' = [step |-> "asked", peers |-> whole.peers, readAt |-> Now]
  /\ UNCHANGED <<lightningVars, tableVars, single, graphVars>>

ListPeerChannels ==
  /\ whole.step = "asked"
  /\ whole' = [step |-> "read", peers |-> whole.peers, readAt |-> whole.readAt,
               channels |-> real]
  /\ UNCHANGED <<clock, lightningVars, tableVars, single, graphVars>>

SingleReadAt(r, p) ==
  /\ single[r].step = "idle"
  /\ Tick
  /\ single' = [single EXCEPT ![r] = [step |-> "asked", peer |-> p, readAt |-> Now]]
  /\ UNCHANGED <<lightningVars, tableVars, whole, graphVars>>

ListPeerChannelsOf(r) ==
  /\ single[r].step = "asked"
  /\ single' = [single EXCEPT ![r] =
       [step |-> "read", peer |-> @.peer, readAt |-> @.readAt, channel |-> real[@.peer]]]
  /\ UNCHANGED <<clock, lightningVars, tableVars, whole, graphVars>>

\* addLocalChannelsToGraph: entries as of now.
Added(open) ==
  [p \in PeerIds |-> IF p \in open THEN clock ELSE Channels[p]]

AddWhole ==
  /\ whole.step = "add"
  /\ Channels' = Added(whole.open) /\ whole' = Idle
  /\ UNCHANGED <<clock, lightningVars, tableVars, single, sync>>

AddSingle(r) ==
  /\ single[r].step = "add"
  /\ Channels' = Added(single[r].open)
  /\ single' = [single EXCEPT ![r] = Idle]
  /\ UNCHANGED <<clock, lightningVars, tableVars, whole, sync>>
-----------------------------------------------------------------------------
(***************************************************************************)
(* The graph refresh, for our channels.                                    *)
(***************************************************************************)
\* asOf, then listchannels: which of our channels it has is any of them, those
\* that are not announced are not in it.
ListChannels ==
  /\ sync.step = "idle"
  /\ \E S \in SUBSET {p \in PeerIds : real[p].open} :
       sync' = [step |-> "listed", asOf |-> clock, list |-> S]
  /\ UNCHANGED <<clock, lightningVars, tableVars, whole, single, Channels>>

\* localChannelIds, with PeersLock, before SyncChannels takes the graph's locks.
LocalChannelIds ==
  /\ sync.step = "listed"
  /\ sync' = [step |-> "keep", asOf |-> sync.asOf, list |-> sync.list,
              keep |-> {p \in PeerIds : Peers[p].known /\ Peers[p].open}]
  /\ UNCHANGED <<clock, lightningVars, tableVars, whole, single, Channels>>

\* Slip: an entry newer than the list is removed too.
StaysIfKept(p) == p \in sync.list \/ p \in sync.keep

Stays(p) ==
  \/ p \in sync.list \/ p \in sync.keep
  \/ Channels[p] # None /\ Channels[p] >= sync.asOf

\* A listed channel the graph lacks is added, with the list's older policy.
SyncChannels ==
  /\ sync.step = "keep"
  /\ Channels' = [p \in PeerIds |->
       IF Channels[p] = None /\ p \in sync.list THEN 0
       ELSE IF Stays(p) THEN Channels[p]
       ELSE None]
  /\ sync' = Idle
  /\ UNCHANGED <<clock, lightningVars, tableVars, whole, single>>
-----------------------------------------------------------------------------
Init ==
  /\ clock = 0
  /\ real \in [PeerIds -> [conn : BOOLEAN, open : BOOLEAN, ver : {0}]]
  /\ changes = [p \in PeerIds |-> {}] /\ notifications = {}
  /\ Peers = [p \in PeerIds |-> [known |-> FALSE, conn |-> FALSE, open |-> FALSE, ver |-> 0]]
  /\ scidToPeer = [p \in PeerIds |-> None]
  /\ peersReadAt = 0 /\ channelsReadAt = [p \in PeerIds |-> 0]
  /\ connectedAt = [p \in PeerIds |-> 0] /\ told = [p \in PeerIds |-> FALSE]
  /\ whole = Idle /\ single = [r \in Readers |-> Idle]
  /\ Channels = [p \in PeerIds |-> None] /\ sync = Idle

Next ==
  \/ \E p \in PeerIds : ChannelChanges(p) \/ ConnectionChanges(p)
  \/ setConnected
  \/ ListPeers \/ WholeReadAt \/ ListPeerChannels \/ setPeers \/ AddWhole
  \/ \E r \in Readers : \E p \in PeerIds : SingleReadAt(r, p)
  \/ \E r \in Readers : ListPeerChannelsOf(r) \/ setPeerChannels(r) \/ AddSingle(r)
  \/ ListChannels \/ LocalChannelIds \/ SyncChannels

Spec == Init /\ [][Next]_vars
-----------------------------------------------------------------------------
\* setPeers, setPeerChannels: whatever was read and applied in between, the
\* table shows every change of a peer's channel that came before the latest
\* read of it that was applied began.
FreshAsRead ==
  \A p \in PeerIds : \A t \in changes[p] :
    t <= peersReadAt \/ t <= channelsReadAt[p] => t <= Peers[p].ver

\* setConnected, setPeers: a refresh that began to read before a notification
\* was handled does not undo it.
NotificationNotUndone ==
  \A p \in PeerIds :
    Peers[p].known /\ connectedAt[p] > peersReadAt => Peers[p].conn = told[p]

\* replacePeer, setPeers: the index leads to the peers of the table, and to no
\* copy that was replaced (IsPeerConnected reads the connection there).
IndexIsTheTable ==
  \A p \in PeerIds : scidToPeer[p] = Indexed(Peers[p])

Adding(p) ==
  \/ whole.step = "add" /\ p \in whole.open
  \/ \E r \in Readers : single[r].step = "add" /\ p \in single[r].open

\* SyncChannels: an open channel of the table, added to the graph, stays in it,
\* announced or not, wherever its addition comes in a graph refresh.
OwnChannelsStay ==
  \A p \in PeerIds :
    Peers[p].known /\ Peers[p].open /\ ~Adding(p) => Channels[p] # None
=============================================================================
