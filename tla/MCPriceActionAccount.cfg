SPECIFICATION Spec
CONSTANTS
    Proposals = {p1, p2}
    MaxOrders = 2
    MaxFaults = 1
INVARIANTS
    TypeOK
    PlacedOnce
    OneStrategyExposure
PROPERTIES
    MetadataSettles
