\* A crash, a successor that restores before the lease expires.
SPECIFICATION FairSpec
CONSTANTS
  Worker = {w1, w2}
  Instance = {i1}
  NoWorker = NoWorker
  TTL = 2
  SweepPeriod = 1
  Outage = 1
  JoinTimesOut = FALSE
  PauseTimesOut = FALSE
  MaxGone = 1
  MaxFailures = 1
PROPERTIES
  SuccessorTakesOver
CHECK_DEADLOCK FALSE
