\* One peer, requests that overlap after a timeout, an excluded event in the middle.
SPECIFICATION FairSpec
CONSTANTS
  p1 = p1  p2 = p2  e1 = e1  e2 = e2  e3 = e3
  none = none  task = task  entity = entity  Broadcast = Broadcast
  Peer <- OnePeer
  Event <- ThreeEvents
  RidType = {none, task, entity}
  NoType = none
  TypeOf <- MixedTypes
  TargetOf <- AllBroadcast
  Provided = {task}
  Edited = {}
  VaultEvents = {e1}
  Slot = {1, 2}
  Limit = 2
  Strict = TRUE
  MaxEdits = 0
  MaxCrashes = 0
INVARIANTS AtMostOnce
PROPERTIES InQueueOrder HandsOverOnce NoStarvation
CHECK_DEADLOCK FALSE
