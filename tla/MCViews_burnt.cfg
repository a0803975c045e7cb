CONSTANTS
  Txids <- MCTxids
  Inputs <- MCInputs
  Outputs <- MCOutputs
  CoinBase <- MCCoinBase
  CoinStake <- MCCoinStake
  MaxChain = 5
  Absent = Absent
  alice = alice
  bob = bob
SPECIFICATION BurntSpec
INVARIANT TokenFollowsChain
