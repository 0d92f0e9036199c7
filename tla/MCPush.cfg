\* Two subscribers, one of an edge that excludes e2; a LIMIT that shows two
\* of three rows; a request that outlives its client.
SPECIFICATION FairSpec
CONSTANTS
  p1 = p1  p2 = p2  e1 = e1  e2 = e2  e3 = e3
  none = none  task = task  entity = entity
  Broadcast = Broadcast  NoPeer = NoPeer
  Peer <- TwoPeers
  Event <- ThreeEvents
  RidType = {none, task, entity}
  NoType = none
  TypeOf <- TasksAndEntity
  TargetOf <- TwoUnicasts
  Scope <- NarrowAndWide
  Limit = 2
  MaxStrays = 1
INVARIANTS TypeOK MarkedIsReceived
PROPERTIES HeadIsReceived
CHECK_DEADLOCK FALSE
