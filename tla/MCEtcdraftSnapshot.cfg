CONSTANTS
  t1 = t1
  t2 = t2
  t3 = t3
  t4 = t4
  c1 = c1
  c2 = c2
  Nil = Nil
  Node = {n1, n2}
  ConfigTx = {c1, c2}
  MemberTx = {c1}
  NormalTx = {t1, t2, t3, t4}
  Outdated = {c2}
  Settings <- MCSnapshot
  MessageSize <- MCSizes
  PreferredMaxBytes = 2
  MaxMessageCount = 1
  MaxInflightBlocks = 2
  MaxTerm = 2
SPECIFICATION Spec
SYMMETRY MCSymmetry
INVARIANT NoGap
CHECK_DEADLOCK FALSE
