\* One share, two processes, retries that run out, aborted transactions.
SPECIFICATION FairSpec
CONSTANTS
  s1 = s1
  c1 = c1
  c2 = c2
  w1 = w1
  w2 = w2
  Nobody = Nobody
  NoShare = NoShare
  Share <- OneShare
  Candidate <- TwoCandidates
  Worker <- TwoWorkers
  MaxRetries = 1
  MaxDecisions = 2
  MaxFailures = 3
INVARIANTS TypeOK NoDoubleIngest RetriesAreBounded IngestedIsWritten
PROPERTY SettledInTheEnd
CHECK_DEADLOCK FALSE
