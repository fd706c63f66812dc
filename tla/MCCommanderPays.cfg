SPECIFICATION Spec
CONSTANTS
  h1 = h1
  h2 = h2
  h3 = h3
  Hire = {h1, h2, h3}
  Fallback = fallback
  Plain = {plain}
  Auditor = {auditor}
  Investigator = {investigator}
  Reviewer = {reviewer}
  RiskReviewer = {riskReviewer}
  X402 = {auditor, reviewer, investigator}
  Price <- Prices
  Task = {t1, t2}
  None = None
  MaxTotal = 4
  MaxPerPhase = 3
  MaxPhases = 2
  Parallel = FALSE
  MaxRestarts = 0
SYMMETRY Interchangeable
INVARIANTS PaidWithinTotal
CHECK_DEADLOCK FALSE
