\* Two peers that share a queue, under strict edges; one declares nothing.
SPECIFICATION Spec
CONSTANTS
  p1 = p1  p2 = p2  e1 = e1  e2 = e2  e3 = e3
  none = none  task = task  entity = entity  Broadcast = Broadcast
  Peer <- TwoPeers
  Event <- TwoEvents
  RidType = {none, task, entity}
  NoType = none
  TypeOf <- TwoTypes
  TargetOf <- Addressed
  Provided = {task, entity}
  Edited <- Emptied
  VaultEvents = {e2}
  Slot = {1}
  Limit = 1
  Strict = TRUE
  MaxEdits = 1
  MaxCrashes = 1
INVARIANTS TypeOK ConfirmedWasProcessed
PROPERTIES Confinement InQueueOrder
CHECK_DEADLOCK FALSE
