---------------------------- MODULE TargetLimit ----------------------------
(***************************************************************************)
(* The limit on splits at once that a parallel run learns from its target  *)
(* channel (rebalance/parallel/result.go, from judgeCandidate down to      *)
(* backoff).  The target, the channel every split of the run uses, has few *)
(* HTLC slots and a finite balance: a refusal for that reason sets the     *)
(* limit to the splits it still held, successes raise it by one, and the   *)
(* split fired up to the new limit (the probe) judges the growth.          *)
(*                                                                         *)
(* The operators here are the parts of a step; ParallelRun composes them   *)
(* with the queue, the counters and the stops of the run.                  *)
(***************************************************************************)
EXTENDS Integers

CONSTANTS
  Candidates,        \* the candidate channels, by id
  Splits,            \* the most splits in flight at once (splits)
  MaxCapBackoff,     \* maxCapBackoff: 64 in the code
  MaxBusyRefusals    \* maxBusyRefusals: 3 in the code

ASSUME LimitAssumption ==
  /\ Splits \in Nat \ {0}
  /\ MaxCapBackoff \in Nat \ {0}
  /\ MaxBusyRefusals \in Nat

VARIABLES
  targetCap,      \* the limit; 0 while the target refused nothing
  capSuccesses,   \* successes since the limit last changed
  capSetAt,       \* the number of splits fired by then
  probing,        \* the limit grew, and the growth is not judged yet
  probeSeq,       \* the number of the split that judges it; 0 until fired
  capBackoff,     \* multiplies the successes a growth needs; 0 counts as 1
  fireSeq,        \* the splits fired so far
  firedAt,        \* by candidate, the number of its last split; 0 for none
  busyRefusals    \* by candidate, the refusals the limit did not explain

capVars   == <<targetCap, capSuccesses, capSetAt>>
probeVars == <<probing, probeSeq, capBackoff>>
fireVars  == <<fireSeq, firedAt>>
limitVars == <<capVars, probeVars, fireVars, busyRefusals>>

LimitTypeOK ==
  /\ targetCap \in Nat
  /\ capSuccesses \in Nat
  /\ capSetAt \in Nat
  /\ probing \in BOOLEAN
  /\ probeSeq \in Nat
  /\ capBackoff \in Nat
  /\ fireSeq \in Nat
  /\ firedAt \in [Candidates -> Nat]
  /\ busyRefusals \in [Candidates -> Nat]

LimitInit ==
  /\ targetCap = 0 /\ capSuccesses = 0 /\ capSetAt = 0
  /\ probing = FALSE /\ probeSeq = 0 /\ capBackoff = 0
  /\ fireSeq = 0 /\ firedAt = [c \in Candidates |-> 0]
  /\ busyRefusals = [c \in Candidates |-> 0]
-----------------------------------------------------------------------------
\* The split in flight for c is the probe of the last growth.
IsProbe(c) == probing /\ probeSeq # 0 /\ firedAt[c] = probeSeq

\* A backoff of 0 is one never set.
Backoff(b) == IF b < 1 THEN 1 ELSE b

SetTargetCap(cap) ==
  /\ targetCap' = cap
  /\ capSetAt' = fireSeq
  /\ capSuccesses' = 0

\* Slip: one more than the limit.
RoomForOneMore(inFlight) == targetCap = 0 \/ inFlight <= targetCap

\* Another split may be fired as far as the target is concerned.
RoomAtTarget(inFlight) == targetCap = 0 \/ inFlight < targetCap

\* The split about to be fired for c is numbered.  atTarget is how many
\* others the target still holds: those whose results wait in the channel
\* have left it.
NoteFired(c, atTarget) ==
  /\ fireSeq' = fireSeq + 1
  /\ firedAt' = [firedAt EXCEPT ![c] = fireSeq + 1]
  /\ probeSeq' = IF probing /\ probeSeq = 0 /\ atTarget + 1 >= targetCap
                 THEN fireSeq + 1
                 ELSE probeSeq
  /\ UNCHANGED <<capVars, probing, capBackoff, busyRefusals>>

\* The successes a growth of the limit takes, once the probe of the last one
\* succeeded (halving the backoff) if c was it.
HalvedBackoff(c) ==
  IF IsProbe(c) /\ capBackoff > 1 THEN capBackoff \div 2 ELSE capBackoff

\* The success of c lets the limit grow by one.
LimitGrows(c) ==
  /\ ~probing \/ IsProbe(c)
  /\ targetCap < Splits
  /\ capSuccesses + 1 >= targetCap * Backoff(HalvedBackoff(c))

TargetSucceeded(c) ==
  /\ UNCHANGED <<fireVars, busyRefusals>>
  /\ \/ /\ targetCap = 0
        /\ UNCHANGED <<capVars, probeVars>>
     \/ /\ targetCap # 0
        /\ capBackoff' = HalvedBackoff(c)
        /\ \/ /\ LimitGrows(c)
              /\ SetTargetCap(targetCap + 1)
              /\ probing' = TRUE
              /\ probeSeq' = 0
           \/ /\ ~LimitGrows(c)
              /\ capSuccesses' = capSuccesses + 1
              /\ probing' = (probing /\ ~IsProbe(c))
              /\ probeSeq' = IF IsProbe(c) THEN 0 ELSE probeSeq
              /\ UNCHANGED <<targetCap, capSetAt>>

\* Slip: a probe that told nothing goes on being waited for.
ProbeStillAwaited(c) ==
  UNCHANGED <<probeSeq, capVars, probing, capBackoff, fireVars, busyRefusals>>

\* c failed for a reason that says nothing of the target's limit: if it was
\* the probe, the next split fired up to the limit probes instead.
ProbeToldNothing(c) ==
  /\ probeSeq' = IF IsProbe(c) THEN 0 ELSE probeSeq
  /\ UNCHANGED <<capVars, probing, capBackoff, fireVars, busyRefusals>>

\* The limit explains the refusal of c: there was none yet, c was fired
\* before it took its value, or it grew and has not proved itself.
Explained(c) == targetCap = 0 \/ firedAt[c] <= capSetAt \/ probing

\* c was refused too often without the limit explaining it: the other
\* candidates go first.
OftenRefused(c) == ~Explained(c) /\ busyRefusals[c] + 1 > MaxBusyRefusals

\* The target refused c as busy, with others splits still in flight: it takes
\* no more than those.  A growth still to be judged was one too many.
TargetBusy(c, others) ==
  /\ busyRefusals' = IF Explained(c) THEN busyRefusals
                     ELSE [busyRefusals EXCEPT ![c] = @ + 1]
  /\ UNCHANGED fireVars
  /\ IF RoomAtTarget(others)
     THEN /\ SetTargetCap(others)
          /\ probing' = FALSE
          /\ probeSeq' = IF probing THEN 0 ELSE probeSeq
          /\ capBackoff' = IF probing /\ capBackoff < MaxCapBackoff
                           THEN Backoff(capBackoff) * 2
                           ELSE capBackoff
     ELSE /\ probeSeq' = IF IsProbe(c) THEN 0 ELSE probeSeq
          /\ UNCHANGED <<capVars, probing, capBackoff>>
=============================================================================
