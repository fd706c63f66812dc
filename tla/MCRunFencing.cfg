SPECIFICATION ManagerSpec
CONSTANTS
  Mission = {m1}
  Worker = {w1, w2}
  NoOwner = NoOwner
  LeaseTicks = 2
  ClaimLimit = 1
  TraceLimit = 2
  MaxToken = 5
  MaxEvents = 4
  MaxFaults = 1
SYMMETRY Symmetry
INVARIANT
  StaleWorkerCannotCommit
CHECK_DEADLOCK FALSE
