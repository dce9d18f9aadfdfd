SPECIFICATION Spec
CONSTANTS
    s1 = s1
    s2 = s2
    m1 = m1
    m2 = m2
    r1 = r1
    r2 = r2
    r3 = r3
    q1 = q1
    q2 = q2
    Services <- TwoServices
    Methods <- TwoMethods
    Callbacks <- ThreeCallbacks
    ServiceOf <- TheServices
    MethodOf <- TheMethods
    Calls <- TwoCalls
    NoOne = NoOne
INVARIANTS
    ServicesApart
