SPECIFICATION FairSpec
CONSTANTS
    t1 = t1
    t2 = t2
    n1 = n1
    n2 = n2
    q1 = q1
    q2 = q2
    Threads <- TwoThreads
    Names <- TwoNames
    Requests <- TwoRequests
    NameOf <- OwnName
    Workers = 1
    NoOne = NoOne
INVARIANTS
    NoServiceMissed
PROPERTIES
    RequestAnswered
    CallComesBack
    ServeReturns
