SPECIFICATION Spec
CONSTANTS
  None = None
  n1 = n1
  n2 = n2
  van = van
  yard = yard
  Calendars = {yard}
  Notices = {n1, n2}
  Slots = {1}
  Hours = {1}
  Span <- MCSpan
  Home <- MCHome
  Vehicles = {van}
  VehicleOf <- MCNoVehicles
  NoVehicle = none
  Workers = {w1, w2}
  Limits = {1}
  Targets = {"ACTIVE"}
  Blackouts = {}
  Passing = {}
  MaxHolds = 2
  MaxAppointments = 2
  MaxRefreshes = 0
CHECK_DEADLOCK FALSE
SYMMETRY Symmetry
INVARIANTS
  TypeOK
  OneClaimPerNotice
  RescheduleUnreachable
  DeadlockNeedsNewHold
PROPERTIES
  ImplementsSlotBook
