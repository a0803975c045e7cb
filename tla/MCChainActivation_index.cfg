CONSTANTS
  Absent = Absent
  t1 = t1
  t2 = t2
SPECIFICATION Spec
INVARIANTS
  IndexIsRight
  ActiveChainIsValid
  BestChainIsActive
PROPERTIES
  ActivationReturns
CHECK_DEADLOCK FALSE
