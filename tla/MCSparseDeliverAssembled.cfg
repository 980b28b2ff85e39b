CONSTANTS
  chan = chan
  lpeer = lpeer
  k1 = k1
  h1 = h1
  Chains <- MCChains
  ChannelChain = chan
  LitePeerChain = lpeer
  PublicKeys <- MCPublicKeys
  HashedKeys <- MCHashedKeys
  Txns <- MCTxns
  GenesisBody <- MCGenesis
  Bodies <- MCBodiesTwo
  VanillaLedgers <- MCLedgers
  MvccApplicable = TRUE
  QuietSwitch = TRUE
  ChanCap = 2
  MaxFat = 3
  MaxCrash = 1
  MaxFault = 0
  Readers = {r1}
  MaxUint64 = 7
  MaxSeen = 1
SPECIFICATION DSpec
INVARIANT AssembledIsSameBlock
CHECK_DEADLOCK FALSE
