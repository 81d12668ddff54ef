SPECIFICATION FairSpec
CONSTANTS
  None = None
  n1 = n1
  n2 = n2
  steel = steel
  Notices = {n1, n2}
  OrderLines = {steel}
  Ordered <- MCOrdered
  Quantities = {1}
  Workers = {w1, w2}
  Schedulable = {n1}
  CreatedAt <- YoungerN1
  BatchSize = 1
  MaxRevisions = 1
CHECK_DEADLOCK FALSE
PROPERTIES
  RequestEnds
  CancelledLetsGo
