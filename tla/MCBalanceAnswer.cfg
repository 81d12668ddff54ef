SPECIFICATION FairSpec

CONSTANTS
  a = a
  b = b
  u = u
  v = v
  j1 = j1
  j2 = j2
  j3 = j3
  q1 = q1
  q2 = q2
  Positions = {a, b}
  Partitions = {q1}
  Units = {u, v}
  Quantities = {1}
  None = None
  Jobs = {j1, j2}
  ScopeOf <- FullRebuilds
  Lines <- AllLines
  MaxNumbers = 3

PROPERTY EventuallyAnswered

CHECK_DEADLOCK FALSE
