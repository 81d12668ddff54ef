SPECIFICATION FairSpec
CONSTANTS
  None = None
  n1 = n1
  n2 = n2
  van = van
  yard = yard
  Calendars = {yard}
  Notices = {n1}
  Slots = {1}
  Hours = {1}
  Span <- MCSpan
  Home <- MCHome
  Vehicles = {van}
  VehicleOf <- MCVehicleOf
  NoVehicle = none
  Workers = {w1, w2}
  Limits = {1, 2}
  Targets = {"ACTIVE", "INACTIVE", "ARCHIVED"}
  Blackouts = {1}
  Passing = {1}
  MaxHolds = 1
  MaxAppointments = 1
  MaxRefreshes = 1
PROPERTIES
  RequestEnds
  HoldReleasesSlot
CHECK_DEADLOCK FALSE
