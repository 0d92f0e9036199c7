\* One user whose requests overlap, two processes, two faults.
SPECIFICATION FairSpec
CONSTANTS
  u1 = u1
  p1 = p1
  p2 = p2
  w1 = w1
  w2 = w2
  Nobody = Nobody
  User <- OneUser
  Url <- TwoUrls
  Proc <- TwoProcs
  MaxJobs = 2
  Cap = 1
  MaxFaults = 2
INVARIANTS TypeOK UserCap
PROPERTIES ResultsStay JobsEnd
CHECK_DEADLOCK FALSE
