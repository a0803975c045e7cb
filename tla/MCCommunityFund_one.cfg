SPECIFICATION Spec
CONSTANTS
  Proposals = {1}
  Requests = {11, 12}
  Amount <- mc1_Amount
  Parent <- mc1_Parent
  Deadline <- mc1_Deadline
  Version <- mc1_Version
  MaxAmount = 3
  CycleLength = 2
  ProposalMaxCycles = 1
  RequestMaxCycles = 1
  MinQuorum <- mc_MinQuorum
  MinAccept <- mc_Share
  MinReject <- mc_Share
  QuorumFirstHalf = 5000
  QuorumSecondHalf = 4000
  MinAge = 0
  Tallies <- mc_Tallies
  Excludes = {0}
  Contributions = {0, 3}
  TimeSteps = {1}
  Forks = {1}
  MaxHeight = 10
  MaxGiven = 3
INVARIANTS
  TypeOK
  LockedIsCommitted
  FundConserved
  NotOverdrawn
  FundSolvent
  PendingIsCovered
  HistoryOnChain
  RequestsFollowApproval
  VotingIsBounded
PROPERTIES
  LedgerSpec
CHECK_DEADLOCK FALSE
