SPECIFICATION Spec

CONSTANTS
  r1 = r1
  r2 = r2
  r3 = r3
  p1 = p1
  p2 = p2
  s1 = s1
  s2 = s2
  s3 = s3
  k1 = k1
  k2 = k2
  k3 = k3
  h1 = h1
  h2 = h2
  h3 = h3
  Requests = {r1, r2, r3}
  Partitions = {p1, p2}
  Sites = {s1, s2, s3}
  Keys = {k1, k2, k3}
  Payloads = {h1, h2, h3}
  Clients = {w1, w2}
  Runners = {w1, w2}
  PartitionOf <- TwoPartitions
  SiteOf <- OwnSites
  KeyOf <- OwnKeys
  HashOf <- OwnPayloads
  DefectOf <- NoDefects
  Rejectable = {r2}
  RequestedAt <- Forwards
  BatchSize = 3
  MaxSeq = 3
  MaxAborts = 0
  None = None

INVARIANT TypeOK
INVARIANT SoundInv
INVARIANT WholeInv
INVARIANT BookSound
INVARIANT AllOrNothing
PROPERTY ImplementsBook

CHECK_DEADLOCK FALSE
