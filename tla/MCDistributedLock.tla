--------------------------- MODULE MCDistributedLock ---------------------------
(* Two committing peers with the same identity.                            *)
EXTENDS DistributedLock

CONSTANTS p1, p2

MCPeers == {p1, p2}
=============================================================================
