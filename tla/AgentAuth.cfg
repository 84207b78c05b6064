SPECIFICATION Spec
CONSTANTS
  Node = {edge, mailbox}
  Nonce = {x, y}
  Stamp <- Seconds
  Skew = 1
  Retention = 2
  MaxClock = 4
INVARIANTS
  TypeOK
  AtMostOnce
  RefusedOnlyIfHandled
CHECK_DEADLOCK FALSE
