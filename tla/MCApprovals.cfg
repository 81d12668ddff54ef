SPECIFICATION Spec
CONSTANTS
  None = None
  ana = ana
  ben = ben
  cora = cora
  Requests = {r1}
  Revisions = {rev}
  Users = {ana, ben, cora}
  Creators = {ana, cora}
  Ballot <- MCBallot
  Chains <- MCChains
  Workers = {w1, w2}
CHECK_DEADLOCK FALSE
SYMMETRY Symmetry
INVARIANTS
  TypeOK
  OutcomeEarned
  RefusalSettles
  InProgressHasActiveStep
  SealLacksOneDecision
PROPERTIES
  ImplementsApprovalRule
