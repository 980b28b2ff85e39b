CONSTANTS
  Peer = {1, 2}
  Call = {1, 2, 3}
  TxOf <- MCTxOf
  Block <- MCBlockLate
  Retention = 1
  QueueSize = 1
  MaxFault = 2
SPECIFICATION FairSpec
INVARIANTS TypeOK PurgeIsBehind
PROPERTIES DeletedWhenDone EveryCallReturns
CHECK_DEADLOCK FALSE
