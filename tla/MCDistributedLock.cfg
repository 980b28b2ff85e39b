CONSTANTS
  p1 = p1
  p2 = p2
  Peers <- MCPeers
  NoPeer = NoPeer
  Expiry = 7
  Refresh = 3
  MaxDelta = 1
  PassiveRetry = 4
  MaxLag = 2
  MaxFault = 3
  MaxStop = 2
SPECIFICATION FairSpec
INVARIANTS TypeOK HoldsWhileServing
PROPERTY Takeover
