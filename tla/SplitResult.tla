----------------------------- MODULE SplitResult -----------------------------
(***************************************************************************)
(* The results a split (rebalance.Rebalance.Run) can return: what the run  *)
(* that fired it relies on (ParallelRun), and what the split is checked    *)
(* against (Split).  Amounts are in sats, fees in msat.                    *)
(***************************************************************************)
EXTENDS Integers

CONSTANTS
  MinSplit,   \* the least a shrunk split moves; 0: no shrinking
  MaxPPM      \* maxppm

ASSUME SplitAssumption == MinSplit \in Nat /\ MaxPPM \in Nat

Least(a, b) == IF a < b THEN a ELSE b

\* graph.MaxFeeForPPM: the most a payment of that many sats may cost, msat.
WorstFee(sats) == ((MaxPPM + 1) * sats * 1000 - 1) \div 1000000

\* a, its half, the half of that, and so on.
Halves(a) == LET h[j \in Nat] == IF j = 0 THEN a ELSE h[j - 1] \div 2 IN h

\* A split delivers what it was asked for or, short of liquidity, a half of
\* it again and again, down to MinSplit.
Delivered(a) ==
  {m \in 1 .. a : \/ m = a
                  \/ /\ MinSplit > 0 /\ m >= Least(MinSplit, a)
                     /\ \E j \in 1 .. a : m = Halves(a)[j]}

\* How a split can fail: where, whether the failure may pass, and whether it
\* is a precheck of our own copy of the channel.  Only our in channel's fee
\* is read again (retry "now"), after a payment failed on it.  Side "none" is
\* also a split ended by circular-stop or by the run's halt, or a panic.
FailureKinds ==
  [failedAt : {"none", "route"}, retry : {"no"}, precheck : {FALSE}]
    \cup [failedAt : {"out", "in"}, retry : {"no"}, precheck : {FALSE}]
    \cup [failedAt : {"out", "in"}, retry : {"whenFree"}, precheck : BOOLEAN]
    \cup [failedAt : {"in"}, retry : {"now"}, precheck : {FALSE}]

\* A payment failed before a stale policy could be read again.
CanHappen(r) == r.status = "failure" /\ r.retry = "now" => r.payments > 0
=============================================================================
