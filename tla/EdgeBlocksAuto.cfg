SPECIFICATION Spec
CONSTANTS
  Edge = edge
  Node = {edge}
  Answer = {"done"}
  MaxCommands = 3
  MaxRequests = 2
  MaxHandouts = 2
  MaxWork = 3
PROPERTIES
  AutoBlockRespectsTrust
CHECK_DEADLOCK FALSE
