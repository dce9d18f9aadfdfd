SPECIFICATION Spec
CONSTANTS
    k1 = k1
    k2 = k2
    f1 = f1
    f2 = f2
    n1 = n1
    s1 = s1
    s2 = s2
    s3 = s3
    Pairs <- SomePairs
    MaxU32 = 2
    MaxVarInt = 4
    MaxU64 = 6
    ServerOptions <- SomeServers
    ClientOptions <- SomeClients
    NotGiven = NotGiven
    Promises <- TwoPromises
    NodeNames <- OneName
    JsOptions <- SomeJsOptions
    Starts <- ThreeStarts
    InitialDelays <- SomeInitial
    MaxDelays <- SomeMax
    MaxRetries <- SomeRetries
    PerMilli = 2
INVARIANTS
    EndedClientIsClosed
    PairFailsWhenDisturbed
    GivesUpInTime
    SleepIsBounded
PROPERTIES
    BacksOff
    PromisesSettle
CHECK_DEADLOCK FALSE
