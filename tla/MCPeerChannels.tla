--------------------------- MODULE MCPeerChannels ---------------------------
(* Instances of PeerChannels for TLC.                                      *)
EXTENDS PeerChannels
=============================================================================
