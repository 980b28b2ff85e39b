CONSTANTS
  Key = {"a", "p"}
  PvtKey = {"p"}
  Chain <- MCChainLean
  Request = {}
  MaxCrash = 1
  MaxRollback = 0
SPECIFICATION FairSpec
PROPERTY LeanCommitted
CHECK_DEADLOCK FALSE
