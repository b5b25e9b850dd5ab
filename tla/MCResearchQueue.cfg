\* Two workers, two jobs of two attempts, one active lease at a time.
SPECIFICATION FairSpec
CONSTANTS
  Job = {j1, j2}
  Worker = {w1, w2}
  NoJob = NoJob
  MaxAttempts = 2
  MaxActive = 1
INVARIANTS
  TypeOK
  ActiveLimit
PROPERTIES
  StaleWorkersAreFenced
  CancellationsAreConfirmed
  JobsSettle
  ImplementsLifecycle
CHECK_DEADLOCK FALSE
