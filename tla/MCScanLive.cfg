\* Caps that suffice and a restart: what the cache hides, what peers learn.
SPECIFICATION FairSpec
CONSTANTS
  f1 = f1  f2 = f2  x = x  y = y
  Absent = Absent  NoRow = NoRow  Tombstone = Tombstone  NoPath = NoPath
  Path <- TwoPaths
  Content <- TwoContents
  MaxFiles = 2  CreateBudget = 2  MaxEvents = 3
  MaxHiccups = 1  MaxRestarts = 1  MaxFailures = 0  MaxRepairs = 0
PROPERTY PeersLearn
INVARIANT SkippedIsRecorded
CHECK_DEADLOCK FALSE
