\* One author, a relay between the nodes.
SPECIFICATION FairSpec
CONSTANTS
  a = a  b = b  c = c
  Absent = Absent  NoNode = NoNode
  Node <- Trio
  PeersOf <- LinePeers
  Editor <- JustA
  Concurrent = FALSE
  MaxEdits = 3  MaxRemovals = 2  MaxLosses = 0  MaxFailures = 0
PROPERTIES NodesConverge
CHECK_DEADLOCK FALSE
