\* One instance, two operator calls at a time, a Full Bot Reboot.
SPECIFICATION Spec
CONSTANTS
  Instance = {i1}
  Caller = {c1, c2}
  Supervisor = Supervisor
  Nobody = Nobody
  NoEngine = NoEngine
  NoInstance = NoInstance
  Engine = {e1, e2}
  MaxSlots = 1
  Requests = {"start", "stop", "pause", "resume", "update", "reboot"}
  MaxReboots = 1
  MaxResets = 0
  MaxRestarts = 0
  JoinTimesOut = FALSE
SYMMETRY Symmetry
INVARIANTS
  TypeOK
  OneWorkerPerAccount
PROPERTIES
  AnswersAreTrue
CHECK_DEADLOCK FALSE
