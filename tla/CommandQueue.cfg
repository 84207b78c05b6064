SPECIFICATION FairSpec
CONSTANTS
  Node = {edge, mailbox}
  Answer = {nothing}
  MaxCommands = 2
  TTL = 1
  Stale = 0
  BatchLimit = 1
INVARIANTS
  TypeOK
  HeldNotOffered
  BoundedRedelivery
PROPERTIES
  ClosedNeverReopened
  NoOvertaking
  ImplementsService
  ImplementsLifecycle
  EventuallyClosed
