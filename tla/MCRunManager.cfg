SPECIFICATION ManagerSpec
CONSTANTS
  Mission = {m1}
  Worker = {w1, w2}
  NoOwner = NoOwner
  LeaseTicks = 2
  ClaimLimit = 1
  TraceLimit = 1
  MaxToken = 5
  MaxEvents = 3
  MaxFaults = 2
SYMMETRY Symmetry
INVARIANTS
  TokensNameClaims
  HistoryFollowsRun
CHECK_DEADLOCK FALSE
