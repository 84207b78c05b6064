SPECIFICATION Spec
CONSTANTS
  Sender = {s1}
  Profile = {"none", "expected"}
  MaxFaults = 0
  MaxAlerts = 1
  MaxIncidents = 1
  MaxPresses = 1
  MaxAttempts = 1
  DispatchLimit = 1
  Outcome = {"quarantined", "failed", "released"}
PROPERTIES
  NoAlertForExempt
CHECK_DEADLOCK FALSE
