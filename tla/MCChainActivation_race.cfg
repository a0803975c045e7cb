CONSTANTS
  Absent = Absent
  t1 = t1
  t2 = t2
SPECIFICATION RaceSpec
INVARIANT BestChainIsActive
CHECK_DEADLOCK FALSE
