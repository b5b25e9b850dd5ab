SPECIFICATION Spec
CONSTANTS
    Closes = 3
    MaxFaults = 2
CHECK_DEADLOCK FALSE
INVARIANTS
    TypeOK
    ReliableIsComplete
    FanOutKeepsOrder
PROPERTIES
    LabCatchesUp
    EngineSeesEveryCandle
