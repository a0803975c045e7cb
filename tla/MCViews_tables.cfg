CONSTANTS
  Txids <- MCTxids
  Inputs <- MCInputs
  Outputs <- MCOutputs
  CoinBase <- MCCoinBase
  CoinStake <- MCCoinStake
  MaxChain = 5
  Absent = Absent
  alice = alice
  bob = bob
SPECIFICATION MCSpec
INVARIANTS
  CoinsAreRight
  NamesFollowChain
  TokensFollowChain
  DeploymentsFollowChain
PROPERTIES
  UtxoSpec
  OwnerConsents
  FlushIsInvisible
