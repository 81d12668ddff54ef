SPECIFICATION Spec

CONSTANTS
  a = a
  b = b
  u = u
  v = v
  j1 = j1
  j2 = j2
  j3 = j3
  q1 = q1
  q2 = q2
  Positions = {a, b}
  Partitions = {q1, q2}
  Units = {u, v}
  Quantities = {1}
  None = None
  Jobs = {j1, j2, j3}
  ScopeOf <- OnePartial
  Lines <- OneUnit
  MaxNumbers = 2

SYMMETRY Interchangeable

INVARIANT RebuildInv
PROPERTY ImplementsProjection
PROPERTY FreshRebuildIsExact

CHECK_DEADLOCK FALSE
