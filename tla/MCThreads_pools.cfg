CONSTANTS
  Absent = Absent
  Master = Master
  w1 = w1
  w2 = w2
  a = a
  b = b
  c = c
SPECIFICATION Spec
INVARIANTS
  ChecksAreComplete
  TasksAreInTime
PROPERTIES
  WaitReturns
  TasksEnd
