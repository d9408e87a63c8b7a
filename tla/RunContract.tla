---------------------------- MODULE RunContract ----------------------------
(***************************************************************************)
(* What a parallel run promises, whatever it does inside: it asks its      *)
(* candidates for amounts, one split each, within what is left of the      *)
(* amount and of the fee budget if every split delivers all it was asked   *)
(* for and costs the most it may; a split delivers some of it or nothing;  *)
(* and once the run stops, it asks for nothing more.  No queue, no result  *)
(* channel, no counters: ParallelRun implements it (RunKeepsContract).     *)
(***************************************************************************)
EXTENDS SplitResult, Tally

CONSTANTS
  Candidates,   \* the channels the run may use
  Splits,       \* how many splits may be in flight
  Amount,       \* what the run is asked to move
  SplitAmount,  \* the most one split moves
  MaxFee        \* the fee budget, msat; 0: none

VARIABLES
  promised,  \* by candidate, what its split in flight was asked for; 0: none
  moved,     \* what the run moved
  paid,      \* the fees it paid
  open       \* the run has not stopped

cvars == <<promised, moved, paid, open>>

Engaged == {c \in Candidates : promised[c] > 0}

AtStake == SumOver(promised, Engaged)

WorstCase == SumOver([c \in Candidates |-> WorstFee(promised[c])], Engaged)

Init ==
  /\ promised = [c \in Candidates |-> 0]
  /\ moved = 0 /\ paid = 0
  /\ open = TRUE

Ask(c, a) ==
  /\ open
  /\ promised[c] = 0 /\ Cardinality(Engaged) < Splits
  /\ moved + AtStake + a <= Amount
  /\ MaxFee > 0 => paid + WorstCase + WorstFee(a) <= MaxFee
  /\ promised' = [promised EXCEPT ![c] = a]
  /\ UNCHANGED <<moved, paid, open>>

\* A split ends; its failure may stop the run.
Settle(c) ==
  /\ promised[c] > 0
  /\ promised' = [promised EXCEPT ![c] = 0]
  /\ \/ /\ \E m \in Delivered(promised[c]) :
             /\ moved' = moved + m
             /\ \E f \in 0 .. WorstFee(m) : paid' = paid + f
        /\ UNCHANGED open
     \/ UNCHANGED <<moved, paid>> /\ open' \in {open, FALSE}

Stop == open /\ open' = FALSE /\ UNCHANGED <<promised, moved, paid>>

Next ==
  \/ \E c \in Candidates :
       \/ \E a \in 1 .. SplitAmount : Ask(c, a)
       \/ Settle(c)
  \/ Stop

Spec == Init /\ [][Next]_cvars
=============================================================================
