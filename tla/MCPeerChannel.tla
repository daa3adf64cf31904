---------------------------- MODULE MCPeerChannel ----------------------------
(* Messages without content and with one byte of content. *)
EXTENDS PeerChannel

MCSize == {3, 4}
==============================================================================
