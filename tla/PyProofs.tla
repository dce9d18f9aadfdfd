------------------------------ MODULE PyProofs ------------------------------
(***************************************************************************)
(* Proof that a PyServer has no service that its running server lacks, for *)
(* any number of threads, services and requests.                           *)
(*                                                                         *)
(* The argument is that of a lock: whoever serves holds the mutable borrow *)
(* of the PyServer from before the services are copied until serve has     *)
(* returned, and a registration needs that borrow.                         *)
(***************************************************************************)
EXTENDS PyServer, TLAPS

\* Where a thread is from the copy of the services to the end of the server.
Serving == {"starting", "serving", "launching", "joining"}

Places ==
    Serving \cup {"outside", "script", "blocked", "calling", "cut off",
                  "returning", "gone"}

\* A server is open only while a thread runs it, such a thread has the
\* borrow, and what it copied is still what is registered.
BorrowInv ==
    /\ pc \in [Threads -> Places]
    /\ borrowed \in Threads \cup {NoOne}
    /\ \A t \in Threads : pc[t] \in Serving =>
           borrowed = t /\ served = services
    /\ endpoint = "open" => \E t \in Threads : pc[t] \in {"serving", "joining"}

LEMMA BorrowInit == Init => BorrowInv
BY DEF Init, BorrowInv, Serving, Places

\* The steps of the sessions leave the threads alone, or cut calls off.
LEMMA BorrowRequest ==
    ASSUME BorrowInv, NEW q \in Requests, RequestStep(q)
    PROVE  BorrowInv'
BY DEF BorrowInv, RequestStep, Arrive, Poll, Enter, ServiceReturns, Leave,
    serverVars, Serving

LEMMA BorrowClose ==
    ASSUME BorrowInv, CloseEndpoint
    PROVE  BorrowInv'
BY DEF BorrowInv, CloseEndpoint, Serving, Places

\* A crash leaves no thread and no server.
LEMMA BorrowCrash ==
    ASSUME BorrowInv, Crash
    PROVE  BorrowInv'
BY DEF BorrowInv, Crash, Serving, Places

\* No thread has the borrow while a registration has it.
LEMMA BorrowThread ==
    ASSUME BorrowInv, PyServerAssumption, NEW t \in Threads, ThreadStep(t)
    PROVE  BorrowInv'
<1> USE DEF BorrowInv, Serving, Places, serverVars
<1>1. CASE TakeGil(t)
    BY <1>1 DEF TakeGil
<1>2. CASE YieldGil(t)
    BY <1>2 DEF YieldGil
<1>3. CASE Block(t) \/ Unblock(t)
    BY <1>3 DEF Block, Unblock
<1>4. CASE Call(t)
    BY <1>4 DEF Call, Asks
<1>5. CASE CallAnswered(t) \/ CallTimesOut(t)
    BY <1>5 DEF CallAnswered, CallTimesOut, CallEnds
<1>6. CASE Register(t)
    <2>1. \A u \in Threads : pc[u] \notin Serving
        BY <1>6 DEF Register, PyServerAssumption
    <2> QED
        BY <1>6, <2>1 DEF Register
<1>7. CASE Serve(t)
    BY <1>7 DEF Serve, PyServerAssumption
<1>8. CASE Start(t)
    BY <1>8 DEF Start
<1>9. CASE StartFails(t)
    BY <1>9 DEF StartFails
<1>10. CASE ServeEnds(t)
    BY <1>10 DEF ServeEnds
<1>11. CASE Return(t)
    BY <1>11 DEF Return, PyServerAssumption
<1>12. CASE ServeInBackground(t)
    BY <1>12 DEF ServeInBackground, PyServerAssumption
<1>13. CASE Launch(t)
    BY <1>13 DEF Launch
<1>14. CASE LaunchFails(t)
    BY <1>14 DEF LaunchFails
<1>15. CASE Join(t)
    BY <1>15 DEF Join
<1> QED
    BY <1>1, <1>2, <1>3, <1>4, <1>5, <1>6, <1>7, <1>8, <1>9, <1>10, <1>11,
       <1>12, <1>13, <1>14, <1>15
    DEF ThreadStep, ServeStep, LaunchStep

\* A running server has every service that was registered with its PyServer,
\* whoever registers and serves.
THEOREM NoServiceMissedCorrect == Spec => []NoServiceMissed
<1>1. BorrowInv /\ [Next]_vars => BorrowInv'
    <2> SUFFICES ASSUME BorrowInv, [Next]_vars PROVE BorrowInv'
        OBVIOUS
    <2>1. CASE UNCHANGED vars
        BY <2>1 DEF vars, serverVars, BorrowInv
    <2>2. CASE Next
        <3>1. CASE Gone
            BY <3>1 DEF Gone, vars, serverVars, BorrowInv
        <3> QED
            BY <2>2, <3>1, BorrowThread, BorrowRequest, BorrowClose,
               BorrowCrash, PyServerAssumption DEF Next
    <2> QED
        BY <2>1, <2>2
<1>2. BorrowInv => NoServiceMissed
    BY DEF BorrowInv, NoServiceMissed, Serving
<1> QED
    BY <1>1, <1>2, BorrowInit, PTL DEF Spec

=============================================================================
