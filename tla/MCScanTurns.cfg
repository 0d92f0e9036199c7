\* Caps that bite, failures; scans and a repair take turns with the lock.
SPECIFICATION Spec
CONSTANTS
  f1 = f1  f2 = f2  x = x  y = y
  Absent = Absent  NoRow = NoRow  Tombstone = Tombstone  NoPath = NoPath
  Path <- TwoPaths
  Content <- TwoContents
  MaxFiles = 1  CreateBudget = 1  MaxEvents = 1
  MaxHiccups = 1  MaxRestarts = 0  MaxFailures = 1  MaxRepairs = 1
INVARIANTS TypeOK RecordedIsTold
SYMMETRY Symmetric
CHECK_DEADLOCK FALSE
