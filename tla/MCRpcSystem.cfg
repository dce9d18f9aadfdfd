SPECIFICATION SystemSpec
CONSTANTS
    c1 = c1
    c2 = c2
    p1 = p1
    x1 = x1
    n1 = n1
    r1 = r1
    Calls <- TwoCalls
    Connects <- OneConnect
    Closes <- OneClose
    IdSpace = 2
    Window = 1
    NoOne = NoOne
    Names <- OneName
    Registrars <- OneRegistrar
    NameOf <- OnlyName
    Malformed = Malformed
    Undecodable = Undecodable
SYMMETRY CallSymmetry
INVARIANTS
    AnswersInOrder
PROPERTIES
    ImplementsRemoteCall
