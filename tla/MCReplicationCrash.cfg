SPECIFICATION FairSpec
CONSTANTS
    m1 = m1
    m2 = m2
    m3 = m3
    Brokers <- MCBrokers
    Messages <- MCMessages2
    InitialLeader = 1
    MaxRecords = 2
    MaxCrashes = 1
    MaxRestarts = 1
    MaxGlitches = 0
INVARIANTS
    TypeOK
    IndInv
    CommitIndexJustified
    AckedOffsetsUnique
PROPERTIES
    ImplementsAckedLog
    
