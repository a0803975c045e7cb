CONSTANTS
  Absent = Absent
  alice = alice
  bob = bob
  prop = prop
  supp = supp
  c1 = c1
  c2 = c2
  a1 = a1
  a2 = a2
SPECIFICATION Spec
INVARIANTS
  VotesFollowChain
  ConsultationsFollowChain
  PhasesEnd
PROPERTIES
  PassedWereVoted
CHECK_DEADLOCK FALSE
