SPECIFICATION ReadingPeerSpec
CONSTANTS
    c1 = c1
    c2 = c2
    p1 = p1
    x1 = x1
    Calls <- TwoCalls
    Connects <- OneConnect
    Closes <- OneClose
    IdSpace = 2
    Window = 1
    NoOne = NoOne
INVARIANTS
    TypeOK
    ResponseMatchesCall
    WaiterIsPending
    SenderHoldsStream
PROPERTIES
    CloseWakesEveryWaiter
    CallReturns
    CloseReturns
    HandlersExitAfterDrop
