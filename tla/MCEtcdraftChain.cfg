CONSTANTS
  t1 = t1
  t2 = t2
  t3 = t3
  t4 = t4
  c1 = c1
  c2 = c2
  Nil = Nil
  Node = {n1, n2}
  ConfigTx = {c1, c2}
  MemberTx = {c1}
  NormalTx = {t1, t2, t3, t4}
  Outdated = {c2}
  Settings <- MCSettings
  MessageSize <- MCSizes
  PreferredMaxBytes = 2
  MaxMessageCount = 2
  MaxInflightBlocks = 2
  MaxTerm = 2
SPECIFICATION Spec
SYMMETRY MCSymmetry
CONSTRAINT SnapshotsRead
INVARIANTS TypeOK OneChain NoGap ConfChangeFirst OutdatedNotOrdered BatchLimits
CHECK_DEADLOCK FALSE
