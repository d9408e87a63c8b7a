----------------------------- MODULE MCNodeState -----------------------------
(***************************************************************************)
(* Small instances of NodeState for TLC: one channel, both directions.  On *)
(* a node without a gossip store, two payments that overlap in any way,    *)
(* one of them across a stop or a tick; one payment through two ticks,     *)
(* when what it taught is faded, reset or pruned, or through two stops and *)
(* a failure.  Without payments: gossip, single reads, ticks, a stop and   *)
(* failures.                                                               *)
(***************************************************************************)
EXTENDS NodeState

CONSTANTS s1, p1, p2
MCScids == {s1}
MCSplits == {p1, p2}

\* One direction holds all of the capacity; payments reach the other balances.
MCHoldings == {3}

Mix(p, t, g, r, s, f) ==
  [payment |-> p, tick |-> t, gossip |-> g, read |-> r, stop |-> s, failure |-> f]

MCMixes ==
  {Mix(2, 0, 0, 0, 1, 0), Mix(2, 1, 0, 0, 0, 0), Mix(1, 2, 0, 0, 0, 0),
   Mix(1, 0, 0, 0, 2, 1), Mix(0, 2, 1, 0, 0, 0), Mix(0, 1, 2, 0, 0, 1),
   Mix(0, 0, 2, 1, 1, 0)}
=============================================================================
