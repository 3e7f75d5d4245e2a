SPECIFICATION BatchSpec
CONSTANTS
    m1 = m1
    x1 = x1
    x2 = x2
    Brokers <- MCBrokers
    InitialLeader = 1
    Messages <- OneBatchOneSingle
    Batches <- OneBatch
    BatchSize = 2
    MaxRecords = 3
    MaxCrashes = 1
    MaxRestarts = 1
    MaxGlitches = 0
INVARIANTS
    BatchTypeOK
    BatchInv
    SinglesHeldByMajority
    BatchHeldByMajority
    
    BatchOrder
    OrderInv
    CommitInv
