CONSTANTS
  chan = chan
  lpeer = lpeer
  org1 = org1
  k1 = k1
  k2 = k2
  h1 = h1
  Chains <- MCChainsOrg
  ChannelChain = chan
  LitePeerChain = lpeer
  PublicKeys <- MCPublicKeysTwo
  HashedKeys <- MCHashedKeys
  Txns <- MCTxnsMvcc
  GenesisBody <- MCGenesis
  Bodies <- MCBodiesMvcc
  VanillaLedgers <- MCLedgersMvcc
  MvccApplicable = TRUE
  QuietSwitch = TRUE
  ChanCap = 1
  MaxFat = 4
  MaxCrash = 1
  MaxFault = 0
SPECIFICATION FairSpec
INVARIANT NoLostUpdate
PROPERTY CaughtUp
CHECK_DEADLOCK FALSE
