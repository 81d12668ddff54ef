SPECIFICATION Spec
CONSTANTS
  None = None
  n1 = n1
  n2 = n2
  steel = steel
  Notices = {n1, n2}
  OrderLines = {steel}
  Ordered <- MCOrdered
  Quantities = {1, 2}
  Workers = {w1, w2}
  Schedulable = {}
  CreatedAt <- OneAge
  BatchSize = 1
  MaxRevisions = 2
CHECK_DEADLOCK FALSE
SYMMETRY Symmetry
INVARIANTS
  TypeOK
  AllocationsMatchLines
PROPERTIES
  ImplementsOrderedQuantity
  JobSparesLiveNotices
