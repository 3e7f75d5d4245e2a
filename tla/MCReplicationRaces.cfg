SPECIFICATION Spec
CONSTANTS
    m1 = m1
    m2 = m2
    m3 = m3
    Brokers <- MCBrokers
    InitialLeader = 1
    Messages <- MCMessages3
    MaxRecords = 3
    MaxCrashes = 0
    MaxRestarts = 0
    MaxGlitches = 1
SYMMETRY Symmetry3
INVARIANTS
    AckedHeldByMajority
    ReadYourWrite
