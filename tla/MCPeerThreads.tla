---------------------------- MODULE MCPeerThreads ----------------------------
(* Two connections; one configured peer, two, or one listed twice. *)
EXTENDS PeerThreads, TLC

CONSTANTS n1, n2, s1, s2

MCNode == {n1, n2}
MCOnePeer == <<s1>>
MCTwoPeers == <<s1, s2>>
MCTwice == <<s1, s1>>
MCSymmetry == Permutations(MCNode)
==============================================================================
