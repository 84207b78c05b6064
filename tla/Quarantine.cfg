SPECIFICATION Spec
CONSTANTS
  Mailbox = mailbox
  Edge = edge
  Node = {mailbox, edge}
  Answer = {"on", "off", "unknown"}
  MaxCommands = 5
  MaxIncidents = 2
  MaxHandouts = 2
  MaxWork = 5
INVARIANTS
  TypeOK
  ContainmentHolds
  OutcomeMatchesReports
  ReleaseRestores
PROPERTIES
  ReleaseIsFinal
CHECK_DEADLOCK FALSE
