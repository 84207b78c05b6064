SPECIFICATION FairSpec
CONSTANTS
  agent = agent
  alice = alice
  standard = standard
  organization = organization
  Agent = agent
  Node = {agent}
  Mailbox = {alice}
  Policy = {standard}
  Default = organization
  Answer <- MCAnswer
  BatchLimit = 1
  EveryRun = TRUE
  MaxCommands = 2
  MaxRequests = 1
  MaxHandouts = 2
  MaxInventories = 1
  MaxWork = 2
INVARIANTS
  TypeOK
  PageTellsTruth
  NewestRequestWins
PROPERTIES
  InventoryConverges
CHECK_DEADLOCK FALSE
