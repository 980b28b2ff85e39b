CONSTANTS
  chan = chan
  lpeer = lpeer
  k1 = k1
  h1 = h1
  Chains <- MCChains
  ChannelChain = chan
  LitePeerChain = lpeer
  PublicKeys <- MCPublicKeys
  HashedKeys <- MCHashedKeys
  Txns <- MCTxns
  GenesisBody <- MCGenesis
  Bodies <- MCBodiesLive
  VanillaLedgers <- MCNewLedger
  MvccApplicable = TRUE
  QuietSwitch = TRUE
  ChanCap = 2
  MaxFat = 2
  MaxCrash = 0
  MaxFault = 0
  Readers = {r1}
  MaxUint64 = 7
  MaxSeen = 0
SPECIFICATION FairDSpec
PROPERTY WaitEnds
CHECK_DEADLOCK FALSE
