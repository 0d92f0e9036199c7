\* Two nodes with people on both, a lost event and two failures.
SPECIFICATION Spec
CONSTANTS
  a = a  b = b  c = c
  Absent = Absent  NoNode = NoNode
  Node <- Pair
  PeersOf <- PairPeers
  Editor <- Pair
  Concurrent = FALSE
  MaxEdits = 3  MaxRemovals = 1  MaxLosses = 1  MaxFailures = 2
INVARIANTS TypeOK ScannedIsKept ForgetsAreEarned
PROPERTY RemovedStaysRemoved
CHECK_DEADLOCK FALSE
SYMMETRY Nodes
