SPECIFICATION Spec
CONSTANTS
  Sender = {s1}
  Profile = {"none"}
  MaxFaults = 2
  MaxAlerts = 2
  MaxIncidents = 2
  MaxPresses = 1
  MaxAttempts = 2
  DispatchLimit = 2
  Outcome = {"failed"}
INVARIANTS
  TypeOK
  SingleUse
  OneActiveAlert
PROPERTIES
  LapsedStaysUnsent
CHECK_DEADLOCK FALSE
