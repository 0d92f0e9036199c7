\* The poller says a failed event is delivered again.
SPECIFICATION FairSpec
CONSTANTS
  p1 = p1  p2 = p2  e1 = e1  e2 = e2  e3 = e3
  none = none  task = task  entity = entity  Broadcast = Broadcast
  Peer <- OnePeer
  Event <- TwoEvents
  RidType = {none, task, entity}
  NoType = none
  TypeOf <- OneExcluded
  TargetOf <- BothBroadcast
  Provided = {task}
  Edited = {}
  VaultEvents = {e1}
  Slot = {1}
  Limit = 1
  Strict = TRUE
  MaxEdits = 0
  MaxCrashes = 0
PROPERTIES FailedIsRedelivered
CHECK_DEADLOCK FALSE
