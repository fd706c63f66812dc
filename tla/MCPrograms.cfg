SPECIFICATION PartsSpec
CONSTANTS
  h1 = h1
  h2 = h2
  t1 = t1
  t2 = t2
  Hire = {h1, h2}
  Fallback = fallback
  Plain = {plain}
  Auditor = {auditor}
  Investigator = {investigator}
  Reviewer = {reviewer}
  RiskReviewer = {riskReviewer}
  X402 = {auditor, reviewer, investigator}
  Price <- Prices
  Task = {t1, t2}
  None = None
  MaxTotal = 4
  MaxPerPhase = 3
  MaxPhases = 2
  Parallel = FALSE
  MaxRestarts = 1
  Importers = {i1, i2}
  Missions = {f1}
  MaxChanges = 2
  Holders = {e1, e2}
  Chunk = 2
  SmallRange = 1
  Concurrency = 2
  Created = 2
  MaxBlock = 3
  Studies = {s1, s2}
  ImplementationOf <- MCImplementationOf
  Opinions = {y}
  CountOf <- MCCountOf
  Silent = Silent
  Held = s1
  MaxLaunches = 2
  MaxStale = 1
  sv1 = sv1
  sv2 = sv2
  wr1 = wr1
  wr2 = wr2
  Services = {sv1, sv2}
  Writers = {wr1, wr2}
  ProviderOf <- MCProviderOf
  Unset = Unset
  MaxSteps = 4
  Overlap = 2
  MaxTransfers = 2
  MaxWriterRestarts = 1
  Takes = {v1, v2}
  First = v1
  SizeOf <- MCSizeOf
  Torn = Torn
  MaxScripts = 2
  MaxReplaced = 1
  Wallets = {wa}
  NoWallet = NoWallet
  NoIdentity = NoIdentity
  MaxPrograms = 3
  Runs = 3
  PriceOf <- MCPriceOf
  MaxStarts <- MCMaxStarts
  MaxMissions <- MCMaxMissions
  MaxDays <- MCMaxDays
  Audits = {au1}
  Tokens = {tk1, tk2}
  Sources = {src1, src2}
  Standings = {1}
  MaxEnded = 2
  MaxReplacements = 1
SYMMETRY Interchangeable
INVARIANTS
  PhaseWithinLimit PaidOncePerService
  ImportIsWhole SnapshotIsExact AcceptedIsOneStudy AcceptedReportIsOneReading
  VerifiedIsPaidFor ServedOncePerPayment DuplicatesAreErrors
  AcceptedSpendIsWhole PageIsOfItsMissions
CHECK_DEADLOCK FALSE
