SPECIFICATION SpendSpec
CONSTANTS
  Buyers = {p1}
  o1 = o1
  o2 = o2
  o3 = o3
  Orders = {o1, o2, o3}
  AmountOf <- OrderPrices
  SpendLimit = 3
  ChunkSize = 2
  MaxDay = 0
  MaxDeaths = 0
PROPERTIES RejectsWhenConsumed
CHECK_DEADLOCK FALSE
