SPECIFICATION FairSpec
CONSTANTS
    m0 = m0
    m2 = m2
    m3 = m3
    NoHeader = NoHeader
    Messages <- ThreeMessages
    Size <- Sizes
    HeaderLen = 2
    MaxFrameLength = 2
    Boundary = 3
    MaxSends = 3
PROPERTIES
    ImplementsQueue
    FlushedIsReceived
INVARIANTS
    FramesIntact
    WithinLimit
CHECK_DEADLOCK FALSE
