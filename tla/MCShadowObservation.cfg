\* Two workers; the registration is disturbed, or a worker fails, once.
SPECIFICATION Spec
CONSTANTS
    Workers = {w1, w2}
    Period = 2
    Lease = 2
    MaxTime = 2
    MaxEvents = 1
CHECK_DEADLOCK FALSE
INVARIANTS
    TypeOK
    NoSilentHole
PROPERTIES
    DecidesOnlyObserved
    Adopted
