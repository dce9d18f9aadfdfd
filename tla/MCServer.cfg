SPECIFICATION FairSpec
CONSTANTS
    n1 = n1
    r1 = r1
    s1 = s1
    s2 = s2
    Names <- OneName
    Registrars <- OneRegistrar
    NameOf <- OnlyName
    Sessions <- TwoSessions
    Readers <- TwoSessions
    MaxRequests <- TwoOfS2
    Window = 1
    Malformed = Malformed
    Garbage = Garbage
    NoOne = NoOne
INVARIANTS
    TypeOK
    RepliesInOrder
    GuardsAreLive
    RequestSeesRegistration
PROPERTIES
    ImplementsPromise
    RegisterCompletes
    RequestAnswered
