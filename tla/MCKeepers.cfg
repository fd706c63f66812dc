SPECIFICATION PartsSpec
CONSTANTS
  a1 = a1
  a2 = a2
  Nothing = Nothing
  Authority = {a1, a2}
  MaxFaults = 1
  Providers = {p1}
  Lister = reg
  MaxKills = 2
  Replicas = {w1, w2}
  SeedEndpoint = w1
  NoEndpoint = nowhere
  MaxBoots = 3
PROPERTIES RevocationCompletes ListedAgain OfferedAgain
CHECK_DEADLOCK FALSE
