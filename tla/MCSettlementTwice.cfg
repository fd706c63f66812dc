SPECIFICATION Spec
CONSTANTS
  o1 = o1
  r1 = r1
  r2 = r2
  h1 = h1
  h2 = h2
  c1 = c1
  c2 = c2
  m1 = m1
  m2 = m2
  Order = {o1}
  Request = {r1, r2}
  OrderOf <- MCOrderOf
  Tx = {r1, r2}
  Answer = {a1, a2}
  None = None
  Hunter = {h1, h2}
  Merchant = {m1, m2}
  Call = {c1, c2}
  MaxDeliveries = 2
  MaxFaults = 0
SYMMETRY Interchangeable
PROPERTIES AnswersStand
CHECK_DEADLOCK FALSE
