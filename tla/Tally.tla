------------------------------- MODULE Tally -------------------------------
(***************************************************************************)
(* What the splits in flight add up to.  The run keeps its totals in plain *)
(* counters (InFlightAmount, feeReserved); the invariants compare them     *)
(* with the sum over the splits themselves.  The sum is stated by counting *)
(* units, so that it needs no recursion and its lemmas, in                 *)
(* CollectionProofs, hold for every finite set.                            *)
(***************************************************************************)
EXTENDS Integers, FiniteSets

\* One token for each unit f gives to each member of S.
Tokens(f, S) == UNION {{x} \X (1 .. f[x]) : x \in S}

\* The sum of f over the finite set S.
SumOver(f, S) == Cardinality(Tokens(f, S))
=============================================================================
