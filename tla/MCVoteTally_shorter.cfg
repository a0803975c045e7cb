SPECIFICATION ShorterSpec
INVARIANT
  NodesAgree
CHECK_DEADLOCK FALSE
