SPECIFICATION Spec
INVARIANTS
  CountsAreRight
  NodesAgree
  HashesAgree
CHECK_DEADLOCK FALSE
