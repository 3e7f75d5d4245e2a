SPECIFICATION FairSpec
CONSTANTS
    Capacity = 6
    MaxFrames = 2
    kMaxStringBytes = 3
    kMaxBatchMessages = 2
    Requests <- MCRequests
    Responses <- MCResponses
CHECK_DEADLOCK FALSE
INVARIANTS
    FrameTypeOK
    RequestsArrive
    ResponsesArrive
    NoPartialRequest
PROPERTIES
    DeliversFrames
    
