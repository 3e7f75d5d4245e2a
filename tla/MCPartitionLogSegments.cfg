SPECIFICATION Spec
CONSTANTS
    SegmentCapacity = 2
    SyncBatch = 3
    IndexStride = 2
    MaxAppends = 6
    MaxKills = 1
    MaxPowerLosses = 2
INVARIANTS
    FetchFindsRecord
    SyncedSurvives
