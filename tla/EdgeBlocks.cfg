SPECIFICATION Spec
CONSTANTS
  Edge = edge
  Node = {edge}
  Answer = {"done"}
  MaxCommands = 3
  MaxRequests = 1
  MaxHandouts = 2
  MaxWork = 3
INVARIANTS
  TypeOK
  UnblockHolds
  TrustHolds
  EdgeFollowsAllowlist
CHECK_DEADLOCK FALSE
