--------------------------- MODULE MCParallelRun ---------------------------
(* Small instances of ParallelRun for TLC. *)
EXTENDS ParallelRun, TLC

CONSTANTS c1, c2, c3

MCTwo == {c1, c2}
MCThree == {c1, c2, c3}

\* A fail streak below 0 is no limit.
MCNoLimit == -1

\* The candidates are interchangeable: their rank is any order in Init.
MCSymmetry == Permutations(Candidates)
=============================================================================
