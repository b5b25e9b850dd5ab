\* Two instances, one slot, a process restart, threads that outlive the join.
SPECIFICATION Spec
CONSTANTS
  Instance = {i1, i2}
  Caller = {c1}
  Supervisor = Supervisor
  Nobody = Nobody
  NoEngine = NoEngine
  NoInstance = NoInstance
  Engine = {e1, e2}
  MaxSlots = 1
  Requests = {"start", "stop", "resume"}
  MaxReboots = 0
  MaxResets = 0
  MaxRestarts = 1
  JoinTimesOut = TRUE
SYMMETRY Symmetry
INVARIANTS
  SlotLimit
  OneWorkerPerAccount
CHECK_DEADLOCK FALSE
