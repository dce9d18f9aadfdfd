SPECIFICATION Spec
CONSTANTS
    c1 = c1
    c2 = c2
    p1 = p1
    x1 = x1
    Calls <- OneCall
    Connects <- OneConnect
    Closes <- NoCloses
    IdSpace = 2
    Window = 1
    NoOne = NoOne
PROPERTIES
    ConnectedCallIsSent
