SPECIFICATION PartsSpec
CONSTANTS
  Mission = {m1, m2}
  Worker = {w1, w2}
  NoOwner = NoOwner
  LeaseTicks = 1
  ClaimLimit = 2
  TraceLimit = 2
  MaxToken = 2
  MaxEvents = 2
  o1 = o1
  o2 = o2
  r1 = r1
  r2 = r2
  r3 = r3
  Order = {o1, o2}
  Request = {r1, r2, r3}
  OrderOf <- MCOrderOf
  Tx = {t1, t2}
  Answer = {a1, a2}
  None = None
  Callers = {c1, c2}
  RunKeys = {k1}
  ReceiptKeys = {x1}
  FileOwner0 = nobody
  MaxCalls = 3
  MaxTrace = 3
  MaxDrops = 3
  AnyReplica = FALSE
  Buyers = {p1, p2}
  q1 = q1
  q2 = q2
  Orders = {q1, q2}
  AmountOf <- MCAmountOf
  SpendLimit = 2
  ChunkSize = 2
  MaxDay = 1
  MaxDeaths = 1
  Recoverers = {c1, c2}
  Verifiers = {v1}
  MaxAttempts = 4
  Tabs = {b1, b2}
  MaxSent = 7
  MaxHalts = 1
  a1 = a1
  a2 = a2
  Nothing = Nothing
  Authority = {a1, a2}
  MaxFaults = 2
  of1 = of1
  of2 = of2
  Jobs = {j1, j2}
  Offers = {of1, of2}
  Dynamic = {of2}
  FeeOf <- MCFeeOf
  Grades = {10, 95}
  MinimumSamples = 2
  MaxExecutions = 2
SYMMETRY Symmetry
INVARIANTS
  EpochsInOrder JournalsAgree
  NothingSkipped
  InFlightWithinLimit
  VerifierPaidOnce HistoriesAgree
  UsableWhileBacked CertifiedKeyIsDead
  QualifiedByMissions
  UsableIsBacked LiveKeyIsKept CertificateIsTrue
PROPERTIES KeepsContract PaymentIsFinal KeepsRecords ReceiptKeepsPayment
CHECK_DEADLOCK FALSE
