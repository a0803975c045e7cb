SPECIFICATION Spec
INVARIANTS
  FundsAreSound
CHECK_DEADLOCK FALSE
