---------------------------- MODULE MCPeerSession ----------------------------
(* Small instances of PeerSession for TLC. *)
EXTENDS PeerSession, TLC

Sym == Permutations(Shares)
=============================================================================
