SPECIFICATION Spec
CONSTANTS
  edge = edge
  bob = bob
  stranger = stranger
  unlisted = unlisted
  malware = malware
  nothing = nothing
  failed = failed
  Edge = edge
  Scope = {"exact"}
  Node = {edge}
  Answer = {"done"}
  Evidence = {unlisted, malware}
  Signals <- MCSignals
  Nothing = nothing
  Failed = failed
  TrackingRow <- MCTrackingRow
  Inside = {bob}
  ManyMessages = 1
  ManyRecipients = 1
  Hits = {3}
  MaxEventLines = 1
  MaxEvents = 2
  MaxCommands = 2
  MaxRequests = 1
  MaxHandouts = 2
  MaxWork = 3
INVARIANTS
  TypeOK
  FilterFollowsNewest
  TrustedNotBlocked
  AdviceNeedsEvidence
PROPERTIES
  DecisionStands
CHECK_DEADLOCK FALSE
