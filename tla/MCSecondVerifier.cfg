SPECIFICATION RecoverySpec
CONSTANTS
  Recoverers = {c1}
  Verifiers = {v1, v2}
  MaxAttempts = 2
INVARIANTS VerifierPaidOnce
CHECK_DEADLOCK FALSE
