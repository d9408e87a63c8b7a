---------------------------- MODULE RunRegistry ----------------------------
(***************************************************************************)
(* The runs circular-results lists (rebalance/parallel/runs.go): kept in   *)
(* memory for callers that lost their connection.  Runs start and end      *)
(* concurrently, each under the lock of the list.  The list is in the      *)
(* order of the starts, and trimming it keeps that order: it is the set of *)
(* the runs listed, each known by the rank of its start.                   *)
(***************************************************************************)
EXTENDS Naturals, FiniteSets

CONSTANTS
  RUNS_KEPT,  \* 20 in the code
  MaxRuns     \* bound: the runs started

VARIABLES
  started,    \* how many runs were started
  running,    \* those that have not ended
  listed,     \* runs.list
  lastEnded   \* the run that ended last; 0 for none

vars == <<started, running, listed, lastEnded>>

TypeOK ==
  /\ started \in 0 .. MaxRuns
  /\ running \subseteq 1 .. started
  /\ listed \subseteq 1 .. started
  /\ lastEnded \in 0 .. started

Init == started = 0 /\ running = {} /\ listed = {} /\ lastEnded = 0

startRun ==
  /\ started < MaxRuns
  /\ started' = started + 1
  /\ running' = running \cup {started'}
  /\ listed' = listed \cup {started'}
  /\ UNCHANGED lastEnded

\* The running runs of a list and, of its finished ones, the RUNS_KEPT that
\* started last.
Kept(list) ==
  {x \in list : \/ x \in running'
                \/ Cardinality({y \in list \ running' : y > x}) < RUNS_KEPT}

endRun(r) ==
  /\ r \in running
  /\ running' = running \ {r}
  /\ listed' = Kept(listed)
  /\ lastEnded' = r
  /\ UNCHANGED started

Next == startRun \/ \E r \in running : endRun(r)

Spec == Init /\ [][Next]_vars
-----------------------------------------------------------------------------
(***************************************************************************)
(* Properties.                                                             *)
(***************************************************************************)
\* endRun: "keeps only the last RUNS_KEPT finished runs": the run that ended
\* last is one of them, and its caller can read its result.
LastEndedListed == lastEnded # 0 => lastEnded \in listed
=============================================================================
