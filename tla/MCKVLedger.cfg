CONSTANTS
  Key = {"a", "p"}
  PvtKey = {"p"}
  Chain <- MCChain
  Request = {2, 3}
  MaxCrash = 2
  MaxRollback = 1
SPECIFICATION FairSpec
INVARIANTS TypeOK Recoverable StateIsReplay SnapshotIsState HistoryIsComplete
PROPERTIES PrivateNeverOlder NextCommitted
CHECK_DEADLOCK FALSE
