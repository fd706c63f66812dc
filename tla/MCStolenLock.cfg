SPECIFICATION DynamicSpec
CONSTANTS
  Providers = {p1, p2}
  Lister = reg
  MaxKills = 2
INVARIANTS Serialized
CHECK_DEADLOCK FALSE
