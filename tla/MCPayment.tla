----------------------------- MODULE MCPayment -----------------------------
(* Small instances of Payment for TLC. *)
EXTENDS Payment, TLC

CONSTANTS p1, p2

MCTwo == {p1, p2}
MCOne == {p1}

\* Payments do not touch each other's invoice, HTLC or keys.
MCSymmetry == Permutations(Payments)
=============================================================================
