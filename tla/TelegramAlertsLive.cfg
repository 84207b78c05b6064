SPECIFICATION FairSpec
CONSTANTS
  Sender = {s1}
  Profile = {"none", "expected"}
  MaxFaults = 2
  MaxAlerts = 1
  MaxIncidents = 1
  MaxPresses = 1
  MaxAttempts = 1
  DispatchLimit = 1
  Outcome = {"quarantined", "released"}
PROPERTIES
  OutcomeTold
  AlertsFollowRisk
CHECK_DEADLOCK FALSE
