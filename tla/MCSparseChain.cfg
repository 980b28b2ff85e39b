CONSTANTS
  chan = chan
  lpeer = lpeer
  org1 = org1
  k1 = k1
  k2 = k2
  h1 = h1
  Chains <- MCChains
  ChannelChain = chan
  LitePeerChain = lpeer
  PublicKeys <- MCPublicKeys
  HashedKeys <- MCHashedKeys
  Txns <- MCTxns
  GenesisBody <- MCGenesis
  Bodies <- MCBodies
  VanillaLedgers <- MCLedgers
  MvccApplicable = TRUE
  QuietSwitch = TRUE
  ChanCap = 2
  MaxFat = 4
  MaxCrash = 2
  MaxFault = 1
SPECIFICATION Spec
INVARIANTS TypeOK Retrievable HashLinked LastConfigIsConfig IInv
PROPERTIES SavedBlocksImmutable ImplementsOrgChains
CHECK_DEADLOCK FALSE
