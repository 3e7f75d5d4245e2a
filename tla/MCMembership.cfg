SPECIFICATION MemFairSpec
CONSTANTS
    Brokers <- MCBrokers
    InitialLeader = 1
    MaxCrashes = 2
    MaxRestarts = 2
    MaxGlitches = 2
INVARIANTS
    MemTypeOK
    
PROPERTY
    LowestLiveLeads
    AgreeAfterCrashes
