CONSTANTS
  Key = {"a", "p"}
  PvtKey = {"p"}
  Chain <- MCChain
  Request = {}
  MaxCrash = 0
  MaxRollback = 0
SPECIFICATION Spec
INVARIANT StoredIsReadable
CHECK_DEADLOCK FALSE
