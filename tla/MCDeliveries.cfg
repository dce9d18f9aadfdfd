SPECIFICATION DeliverySpec
CONSTANTS
    c1 = c1
    c2 = c2
    p1 = p1
    p2 = p2
    x1 = x1
    Calls <- TwoCalls
    Connects <- TwoConnects
    Closes <- OneClose
    IdSpace = 2
    Window = 1
    NoOne = NoOne
SYMMETRY Symmetry
INVARIANTS
    AtMostOnceDelivery
