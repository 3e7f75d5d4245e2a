SPECIFICATION Spec
CONSTANTS
    SegmentCapacity = 9
    SyncBatch = 2
    IndexStride = 2
    MaxAppends = 5
    MaxKills = 2
    MaxPowerLosses = 2
INVARIANTS
    TypeOK
    ReturnedSurvives
PROPERTY
    ImplementsDurableLog
