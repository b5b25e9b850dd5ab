\* Two process runs under the fairness of the code's own threads.
SPECIFICATION FairSpec
CONSTANTS
  Worker = {w1, w2}
  Instance = {i1}
  NoWorker = NoWorker
  TTL = 2
  SweepPeriod = 1
  Outage = 1
  JoinTimesOut = TRUE
  PauseTimesOut = TRUE
  MaxGone = 1
  MaxFailures = 1
PROPERTIES
  SupervisedInstanceRuns
CHECK_DEADLOCK FALSE
