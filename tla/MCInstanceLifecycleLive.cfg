\* The threads' fairness: reboots and account resets.
SPECIFICATION FairSpec
CONSTANTS
  Instance = {i1}
  Caller = {c1}
  Supervisor = Supervisor
  Nobody = Nobody
  NoEngine = NoEngine
  NoInstance = NoInstance
  Engine = {e1, e2}
  MaxSlots = 1
  Requests = {"start", "reset", "reboot"}
  MaxReboots = 1
  MaxResets = 1
  MaxRestarts = 0
  JoinTimesOut = FALSE
PROPERTIES
  CallsReturn
  RebootsEnd
CHECK_DEADLOCK FALSE
