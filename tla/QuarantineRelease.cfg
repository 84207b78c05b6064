SPECIFICATION Spec
CONSTANTS
  Mailbox = mailbox
  Edge = edge
  Node = {mailbox, edge}
  Answer = {"on", "off", "unknown"}
  MaxCommands = 3
  MaxIncidents = 1
  MaxHandouts = 2
  MaxWork = 5
INVARIANTS
  ReleaseAlwaysRestores
CHECK_DEADLOCK FALSE
