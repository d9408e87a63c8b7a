----------------------------- MODULE MCPeerTable -----------------------------
(* A small instance of PeerTable for TLC. *)
EXTENDS PeerTable, TLC

CONSTANTS p1, r1, r2
MCPeers == {p1}
MCReaders == {r1, r2}
Symmetry == Permutations(MCReaders)
=============================================================================
