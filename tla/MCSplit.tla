------------------------------ MODULE MCSplit ------------------------------
(* Small instances of Split for TLC. *)
EXTENDS Split, TLC

CONSTANTS a, b, c, d, e, o, m, n, q

\* From the out-peer o to the in-peer q: over a to m, which has two channels
\* to q; over b to n, which has one.
MCChannels == {a, b, c, d, e}
MCNodes    == {o, m, n, q}
MCSource   == [x \in MCChannels |-> CASE x \in {a, b} -> o [] x \in {c, d} -> m [] OTHER -> n]
MCRoutes   == {<<a, c>>, <<a, d>>, <<b, e>>}
MCKnown    == <<a, c>>
MCAvoided  == {n}
=============================================================================
