\* Two instances, three operations at a time: every lock order but the account restart's.
SPECIFICATION Spec
CONSTANTS
  Caller = {c1, c2, c3}
  Worker = {w1, w2}
  State = State
  Nobody = Nobody
  Requests = {"start", "stop", "update", "resume", "reboot"}
SYMMETRY Symmetry
INVARIANTS
  NoDeadlock
  JoinsAreAnswered
