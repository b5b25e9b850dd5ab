SPECIFICATION Spec
CONSTANTS
    Last = 2
    MaxFaults = 2
    NoIntent = NoIntent
INVARIANTS
    TypeOK
    DecisionsLeaveRows
    ClaimsAreTransient
    ParkedIsClaimed
PROPERTIES
    ExecutesOnce
    FaultFreeProgress
    ParkedIsSettled
