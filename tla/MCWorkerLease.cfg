\* Three process runs, one instance, renewals that may raise for one time unit.
SPECIFICATION Spec
CONSTANTS
  Worker = {w1, w2, w3}
  Instance = {i1}
  NoWorker = NoWorker
  TTL = 3
  SweepPeriod = 2
  Outage = 1
  JoinTimesOut = FALSE
  PauseTimesOut = FALSE
  MaxGone = 2
  MaxFailures = 2
SYMMETRY Symmetry
INVARIANTS
  TypeOK
  OneExecutionOwner
  LiveWorkerHoldsLease
PROPERTIES
  TakeoverAfterExpiry
CHECK_DEADLOCK FALSE
