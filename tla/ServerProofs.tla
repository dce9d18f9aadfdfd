---------------------------- MODULE ServerProofs ----------------------------
(***************************************************************************)
(* Proofs about Server, for any number of services, registrations,         *)
(* sessions and requests.                                                  *)
(***************************************************************************)
EXTENDS Server, TLAPS, SequenceTheorems

-----------------------------------------------------------------------------
(* The lock queue as a sequence.                                           *)

In(e, q)   == \E i \in 1 .. Len(q) : q[i] = e
Once(D, q) == \A i, j \in 1 .. Len(q) : q[i] \in D /\ q[i] = q[j] => i = j

LEMMA InAppend ==
    ASSUME NEW S, NEW q \in Seq(S), NEW e \in S
    PROVE  \A f : In(f, Append(q, e)) <=> In(f, q) \/ f = e
<1> SUFFICES ASSUME NEW f PROVE In(f, Append(q, e)) <=> In(f, q) \/ f = e
  OBVIOUS
<1> DEFINE a == Append(q, e)
<1>1. /\ Len(q) \in Nat /\ Len(a) = Len(q) + 1
      /\ \A i \in 1 .. Len(q) : a[i] = q[i]
      /\ a[Len(q) + 1] = e
  BY AppendProperties, LenProperties
<1> HIDE DEF a
<1> QED
  BY <1>1 DEF In

LEMMA OnceAppend ==
    ASSUME NEW S, NEW q \in Seq(S), NEW e \in S, NEW D, Once(D, q), ~ In(e, q)
    PROVE  Once(D, Append(q, e))
<1> DEFINE a == Append(q, e)
<1>1. /\ Len(q) \in Nat /\ Len(a) = Len(q) + 1
      /\ \A i \in 1 .. Len(q) : a[i] = q[i]
      /\ a[Len(q) + 1] = e
  BY AppendProperties, LenProperties
<1> HIDE DEF a
<1> QED
  BY <1>1 DEF In, Once

LEMMA TailElements ==
    ASSUME NEW S, NEW q \in Seq(S), q # <<>>
    PROVE  /\ Len(q) \in Nat \ {0}
           /\ Len(Tail(q)) = Len(q) - 1
           /\ Head(q) = q[1]
           /\ \A i \in 1 .. Len(q) - 1 : Tail(q)[i] = q[i + 1]
<1>1. Len(q) \in Nat \ {0}
  BY EmptySeq
<1>2. Len(Tail(q)) = Len(q) - 1
  BY HeadTailProperties
<1>3. \A i \in 1 .. Len(q) - 1 : Tail(q)[i] = q[i + 1]
  BY <1>2, HeadTailProperties
<1> QED
  BY <1>1, <1>2, <1>3

LEMMA InTail ==
    ASSUME NEW S, NEW q \in Seq(S), q # <<>>, NEW D, Once(D, q)
    PROVE  \A e \in D : In(e, Tail(q)) <=> In(e, q) /\ e # Head(q)
<1> SUFFICES ASSUME NEW e \in D
             PROVE  In(e, Tail(q)) <=> In(e, q) /\ e # Head(q)
  OBVIOUS
<1> DEFINE t == Tail(q)
           h == Head(q)
           n == Len(q)
<1>1. /\ n \in Nat \ {0} /\ Len(t) = n - 1 /\ h = q[1]
      /\ \A i \in 1 .. n - 1 : t[i] = q[i + 1]
  BY TailElements
<1>2. ASSUME In(e, t) PROVE In(e, q) /\ e # h
  <2> HIDE DEF t, h
  <2> PICK i \in 1 .. n - 1 : q[i + 1] = e
    BY <1>1, <1>2 DEF In
  <2>1. In(e, q)
    BY <1>1 DEF In
  <2>2. e # h
    BY <1>1 DEF Once
  <2> QED
    BY <2>1, <2>2
<1>3. ASSUME In(e, q), e # h PROVE In(e, t)
  <2> HIDE DEF t, h
  <2> PICK i \in 1 .. n : q[i] = e
    BY <1>3 DEF In
  <2> i # 1
    BY <1>1, <1>3
  <2> i - 1 \in 1 .. n - 1 /\ t[i - 1] = e
    BY <1>1
  <2> QED
    BY <1>1 DEF In
<1> QED
  BY <1>2, <1>3

LEMMA OnceTail ==
    ASSUME NEW S, NEW q \in Seq(S), q # <<>>, NEW D, Once(D, q)
    PROVE  Once(D, Tail(q))
<1> DEFINE t == Tail(q)
           n == Len(q)
<1>1. /\ n \in Nat \ {0} /\ Len(t) = n - 1
      /\ \A i \in 1 .. n - 1 : t[i] = q[i + 1]
  BY TailElements
<1> HIDE DEF t, n
<1>2. \A i, j \in 1 .. n : q[i] \in D /\ q[i] = q[j] => i = j
  BY DEF Once, n
<1> QED
  BY <1>1, <1>2 DEF Once

-----------------------------------------------------------------------------
(* The inductive invariant.                                                *)

\* What a session remembers of the request in hand at each point of its loop.
\* RepliesInOrder gives the number of that request.
RequestInHand(s) ==
    /\ taken[s] <= Len(sent[s])
    /\ sessionPc[s] = "accepting" => taken[s] = 0 /\ Len(replies[s]) = 0
    /\ sessionPc[s] \in {"queued", "calling"} => Wanted(s) \in Names
    /\ sessionPc[s] = "sending" => response[s] \in Tags
    /\ sessionPc[s] # "sending" => response[s] = "none"

InHand == \A s \in Sessions : RequestInHand(s)

\* A session waits for the lock once at most.
QueuedOnce == Once(Sessions, lockQueue)

\* The inductive invariant.  TypeOK is not inductive alone: that Found reads
\* the registry at a name, and Reply sends one of Tags, is InHand; that the
\* head of the queue is a session in state "queued" is GuardsAreLive; that it
\* leaves the queue with its turn is QueuedOnce.
Inv ==
    /\ TypeOK
    /\ InHand
    /\ RepliesInOrder
    /\ GuardsAreLive
    /\ QueuedOnce

\* GuardsAreLive in terms of In.
LEMMA GuardsIn ==
    GuardsAreLive <=>
        \A s \in Sessions :
            /\ s \in readers <=>
                   sessionPc[s] = "sending" /\ response[s] = "not_found"
            /\ In(s, lockQueue) <=> sessionPc[s] = "queued"
BY Zenon DEF GuardsAreLive, In

LEMMA GuardsInNext ==
    GuardsAreLive' <=>
        \A s \in Sessions :
            /\ s \in readers' <=>
                   sessionPc'[s] = "sending" /\ response'[s] = "not_found"
            /\ In(s, lockQueue') <=> sessionPc'[s] = "queued"
BY Zenon DEF GuardsAreLive, In

LEMMA InvInit == Init => Inv
<1> SUFFICES ASSUME Init PROVE Inv
  OBVIOUS
<1> USE ServerAssumption DEF Init
<1>1. TypeOK
  BY DEF TypeOK
<1>2. InHand /\ RepliesInOrder
  BY DEF InHand, RequestInHand, RepliesInOrder
<1>3. GuardsAreLive /\ QueuedOnce
  BY DEF GuardsAreLive, QueuedOnce, Once
<1> QED
  BY <1>1, <1>2, <1>3 DEF Inv

-----------------------------------------------------------------------------
(* Each step preserves the invariant.                                      *)

LEMMA ClientInv ==
    ASSUME Inv, NEW s \in Sessions, ClientStep(s) PROVE Inv'
<1> USE DEF Inv, registryVars, sessionVars
<1>1. TypeOK'
  <2>1. CASE OpenStream(s)
    BY <2>1 DEF OpenStream, TypeOK
  <2>2. CASE Send(s)
    BY <2>2 DEF Send, TypeOK
  <2>3. CASE Read(s)
    BY <2>3 DEF Read, TypeOK
  <2>4. CASE Finish(s)
    BY <2>4 DEF Finish, TypeOK
  <2>5. CASE Break(s)
    BY <2>5 DEF Break, TypeOK
  <2> QED
    BY <2>1, <2>2, <2>3, <2>4, <2>5 DEF ClientStep
<1>2. UNCHANGED <<registryVars, sessionVars>>
  BY DEF ClientStep, OpenStream, Send, Read, Finish, Break
<1>3. \A t \in Sessions :
         /\ Len(sent[t]) <= Len(sent'[t])
         /\ \A i \in 1 .. Len(sent[t]) : sent'[t][i] = sent[t][i]
  <2>1. CASE Send(s)
    <3> PICK m \in Methods : sent' = [sent EXCEPT ![s] = Append(@, m)]
      BY <2>1 DEF Send
    <3>1. /\ Len(Append(sent[s], m)) = Len(sent[s]) + 1
          /\ \A i \in 1 .. Len(sent[s]) : Append(sent[s], m)[i] = sent[s][i]
      BY AppendProperties DEF TypeOK
    <3> QED
      BY <3>1 DEF TypeOK
  <2>2. CASE sent' = sent
    BY <2>2 DEF TypeOK
  <2> QED
    BY <2>1, <2>2 DEF ClientStep, OpenStream, Read, Finish, Break
<1>4. InHand'
  <2> SUFFICES ASSUME NEW t \in Sessions PROVE RequestInHand(t)'
    BY DEF InHand
  <2>1. RequestInHand(t)
    BY DEF InHand
  <2>2. sessionPc[t] \in {"queued", "calling"} => taken[t] \in 1 .. Len(sent[t])
    BY <2>1 DEF RequestInHand, RepliesInOrder, TypeOK
  <2>3. sessionPc[t] \in {"queued", "calling"} => Wanted(t)' = Wanted(t)
    BY <1>2, <1>3, <2>2 DEF Wanted
  <2>4. Len(sent[t]) \in Nat /\ Len(sent'[t]) \in Nat /\ taken[t] \in Nat
    <3>1. sent[t] \in Seq(Methods) /\ sent'[t] \in Seq(Methods)
      BY <1>1 DEF TypeOK
    <3> QED
      BY <3>1, LenProperties DEF TypeOK
  <2> QED
    BY <1>2, <1>3, <2>1, <2>3, <2>4 DEF RequestInHand
<1>5. RepliesInOrder' /\ GuardsAreLive' /\ QueuedOnce'
  BY <1>2 DEF RepliesInOrder, GuardsAreLive, QueuedOnce, Once
<1> QED
  BY <1>1, <1>4, <1>5

LEMMA RegisterInv ==
    ASSUME Inv, NEW r \in Registrars, RegisterStep(r) PROVE Inv'
<1> USE DEF Inv, sessionVars, clientVars
<1>1. UNCHANGED <<readers, sessionVars, clientVars>>
  BY DEF RegisterStep, RequestWrite, Insert
<1>2. InHand' /\ RepliesInOrder'
  BY <1>1 DEF InHand, RequestInHand, RepliesInOrder, Wanted
<1>3. r \notin Sessions /\ lockQueue \in Seq(Registrars \cup Sessions)
  BY ServerAssumption DEF TypeOK
<1>4. CASE RequestWrite(r)
  <2>1. TypeOK'
    BY <1>4 DEF RequestWrite, TypeOK
  <2>2. \A t \in Sessions : In(t, lockQueue') <=> In(t, lockQueue)
    BY <1>3, <1>4, InAppend DEF RequestWrite
  <2>3. GuardsAreLive'
    BY <1>1, <2>2, GuardsIn, GuardsInNext
  <2>4. QueuedOnce'
    <3> DEFINE a == Append(lockQueue, r)
    <3>1. /\ Len(lockQueue) \in Nat /\ Len(a) = Len(lockQueue) + 1
          /\ \A i \in 1 .. Len(lockQueue) : a[i] = lockQueue[i]
          /\ a[Len(lockQueue) + 1] = r
      BY <1>3, AppendProperties, LenProperties
    <3>2. lockQueue' = a
      BY <1>4 DEF RequestWrite
    <3> HIDE DEF a
    <3> QED
      BY <1>3, <3>1, <3>2 DEF QueuedOnce, Once
  <2> QED
    BY <1>2, <2>1, <2>3, <2>4
<1>5. CASE Insert(r)
  <2>1. TypeOK'
    <3>1. NameOf[r] \in Names
      BY ServerAssumption
    <3>2. services' \in [Names -> Registrars \cup {NoOne}]
      BY <1>5, <3>1 DEF Insert, TypeOK
    <3>3. lockQueue' \in Seq(Registrars \cup Sessions)
      BY <1>3, <1>5, HeadTailProperties DEF Insert
    <3>4. order' \in Seq(Registrars)
      BY <1>5, AppendProperties DEF Insert, TypeOK
    <3>5. registerPc' \in [Registrars -> {"idle", "queued", "registered"}]
      BY <1>5 DEF Insert, TypeOK
    <3> QED
      BY <1>1, <3>2, <3>3, <3>4, <3>5 DEF TypeOK
  <2>2. \A t \in Sessions : In(t, lockQueue') <=> In(t, lockQueue)
    BY <1>3, <1>5, InTail DEF Insert, QueuedOnce
  <2>3. GuardsAreLive'
    BY <1>1, <2>2, GuardsIn, GuardsInNext
  <2>4. QueuedOnce'
    BY <1>3, <1>5, OnceTail DEF Insert, QueuedOnce
  <2> QED
    BY <1>2, <2>1, <2>3, <2>4
<1> QED
  BY <1>4, <1>5 DEF RegisterStep

\* The steps of a session that leave the lock's queue alone.
LEMMA ReplyInv ==
    ASSUME Inv, NEW s \in Sessions, Reply(s) PROVE Inv'
<1> USE DEF Inv, clientVars
<1> DEFINE reply == [id |-> taken[s], tag |-> response[s]]
<1>1. reply \in Response
  BY DEF Reply, TypeOK, InHand, RequestInHand, Response
<1>2. TypeOK'
  BY <1>1 DEF Reply, TypeOK
<1>3. InHand'
  BY DEF Reply, TypeOK, InHand, RequestInHand, Wanted
<1>4. /\ replies[s] \in Seq(Response)
      /\ replies' = [replies EXCEPT ![s] = Append(@, reply)]
  BY DEF Reply, TypeOK
<1>5. /\ Len(replies[s]) \in Nat
      /\ Len(replies'[s]) = Len(replies[s]) + 1
      /\ \A k \in 1 .. Len(replies[s]) : replies'[s][k] = replies[s][k]
      /\ replies'[s][Len(replies[s]) + 1] = reply
  <2>1. replies'[s] = Append(replies[s], reply)
    BY <1>4 DEF TypeOK
  <2> HIDE DEF reply
  <2> QED
    BY <1>1, <1>4, <2>1, AppendProperties, LenProperties
<1>6. \A t \in Sessions \ {s} : replies'[t] = replies[t]
  BY <1>4 DEF TypeOK
<1>7. taken[s] = Len(replies[s]) + 1
  BY <1>5 DEF RepliesInOrder, Reply, TypeOK
<1>8. RepliesInOrder'
  <2> SUFFICES ASSUME NEW t \in Sessions
               PROVE  /\ \A k \in 1 .. Len(replies'[t]) : replies'[t][k].id = k
                      /\ sessionPc'[t] = "receiving"
                            => Len(replies'[t]) = taken'[t]
                      /\ sessionPc'[t] \in {"queued", "calling", "sending"}
                            => Len(replies'[t]) + 1 = taken'[t]
    BY DEF RepliesInOrder
  <2>1. CASE t = s
    <3>1. \A k \in 1 .. Len(replies'[s]) : replies'[s][k].id = k
      <4>1. \A k \in 1 .. Len(replies[s]) : replies[s][k].id = k
        BY DEF RepliesInOrder
      <4>2. reply.id = Len(replies[s]) + 1
        BY <1>7
      <4> HIDE DEF reply
      <4> QED
        BY <1>5, <4>1, <4>2
    <3>2. sessionPc'[s] = "receiving" /\ Len(replies'[s]) = taken'[s]
      BY <1>5, <1>7 DEF Reply, TypeOK
    <3> QED
      BY <2>1, <3>1, <3>2
  <2>2. CASE t # s
    BY <1>6, <2>2 DEF RepliesInOrder, Reply, TypeOK
  <2> QED
    BY <2>1, <2>2
<1>9. GuardsAreLive'
  BY DEF GuardsAreLive, Reply, TypeOK
<1>10. QueuedOnce'
  BY DEF QueuedOnce, Once, Reply
<1> QED
  BY <1>2, <1>3, <1>8, <1>9, <1>10

LEMMA EndInv ==
    ASSUME Inv, NEW s \in Sessions, sessionPc[s] # "queued", End(s) PROVE Inv'
<1> USE DEF Inv, clientVars
<1>1. TypeOK'
  BY DEF End, TypeOK
<1>2. InHand'
  BY DEF End, TypeOK, InHand, RequestInHand, Wanted
<1>3. RepliesInOrder'
  BY DEF End, TypeOK, RepliesInOrder
<1>4. GuardsAreLive'
  BY DEF GuardsAreLive, End, TypeOK
<1>5. QueuedOnce'
  BY DEF QueuedOnce, Once, End
<1> QED
  BY <1>1, <1>2, <1>3, <1>4, <1>5

\* What holds of a session about to take up a request.
LEMMA ReceivableFacts ==
    ASSUME Inv, NEW s \in Sessions, Receivable(s)
    PROVE  /\ taken[s] \in Nat /\ Len(sent[s]) \in Nat
           /\ taken[s] + 1 <= Len(sent[s])
           /\ Len(replies[s]) = taken[s]
           /\ Len(order) \in Nat
BY LenProperties DEF Inv, Receivable, TypeOK, RepliesInOrder

LEMMA TakeUpInv ==
    ASSUME Inv, NEW s \in Sessions,
           AcceptStream(s) \/ ReceiveGarbage(s) \/ ReceiveMalformed(s)
              \/ CallDone(s)
    PROVE  Inv'
<1> USE DEF Inv, registryVars, clientVars
<1>1. CASE AcceptStream(s)
  <2>1. TypeOK'
    BY <1>1 DEF AcceptStream, TypeOK
  <2>2. InHand' /\ RepliesInOrder'
    BY <1>1 DEF AcceptStream, TypeOK, InHand, RequestInHand, Wanted,
                RepliesInOrder
  <2>3. GuardsAreLive' /\ QueuedOnce'
    BY <1>1 DEF AcceptStream, TypeOK, GuardsAreLive, QueuedOnce, Once
  <2> QED
    BY <2>1, <2>2, <2>3
<1>2. CASE ReceiveGarbage(s)
  <2> USE DEF ReceiveGarbage, Take
  <2>1. TypeOK'
    BY <1>2, ReceivableFacts DEF TypeOK
  <2>2. InHand' /\ RepliesInOrder'
    BY <1>2, ReceivableFacts DEF Receivable, TypeOK, InHand, RequestInHand,
                                 Wanted, RepliesInOrder
  <2>3. GuardsAreLive' /\ QueuedOnce'
    BY <1>2 DEF Receivable, TypeOK, GuardsAreLive, QueuedOnce, Once
  <2> QED
    BY <2>1, <2>2, <2>3
<1>3. CASE ReceiveMalformed(s)
  <2> USE DEF ReceiveMalformed, Take
  <2>1. TypeOK'
    BY <1>3, ReceivableFacts DEF TypeOK, Tags
  <2>2. InHand'
    BY <1>3, ReceivableFacts DEF Receivable, TypeOK, InHand, RequestInHand,
                                 Wanted, Tags
  <2>3. RepliesInOrder'
    BY <1>3, ReceivableFacts DEF Receivable, TypeOK, RepliesInOrder
  <2>4. GuardsAreLive' /\ QueuedOnce'
    BY <1>3 DEF Receivable, TypeOK, GuardsAreLive, QueuedOnce, Once
  <2> QED
    BY <2>1, <2>2, <2>3, <2>4
<1>4. CASE CallDone(s)
  <2>1. TypeOK'
    BY <1>4 DEF CallDone, TypeOK, Tags
  <2>2. InHand' /\ RepliesInOrder'
    BY <1>4 DEF CallDone, TypeOK, InHand, RequestInHand, Wanted,
                RepliesInOrder, Tags
  <2>3. GuardsAreLive' /\ QueuedOnce'
    BY <1>4 DEF CallDone, TypeOK, GuardsAreLive, QueuedOnce, Once
  <2> QED
    BY <2>1, <2>2, <2>3
<1> QED
  BY <1>1, <1>2, <1>3, <1>4

LEMMA QueueInv ==
    ASSUME Inv, NEW s \in Sessions, Receive(s) PROVE Inv'
<1> USE DEF Inv, clientVars, Receive, Take
<1>1. lockQueue \in Seq(Registrars \cup Sessions) /\ ~ In(s, lockQueue)
  BY GuardsIn DEF TypeOK, Receivable
<1>2. TypeOK'
  <2>1. lockQueue' \in Seq(Registrars \cup Sessions)
    BY <1>1, AppendProperties
  <2> QED
    BY <2>1, ReceivableFacts DEF TypeOK
<1>3. InHand'
  BY ReceivableFacts
  DEF Receivable, Incoming, TypeOK, InHand, RequestInHand, Wanted
<1>4. RepliesInOrder'
  BY ReceivableFacts DEF Receivable, TypeOK, RepliesInOrder
<1>5. \A t \in Sessions : In(t, lockQueue') <=> In(t, lockQueue) \/ t = s
  BY <1>1, InAppend
<1>6. GuardsAreLive'
  BY <1>5, GuardsIn, GuardsInNext DEF Receivable, TypeOK
<1>7. QueuedOnce'
  BY <1>1, OnceAppend DEF QueuedOnce
<1> QED
  BY <1>2, <1>3, <1>4, <1>6, <1>7

\* What holds of a session at the head of the queue.
LEMMA HeadFacts ==
    ASSUME Inv, NEW s \in Sessions, lockQueue # <<>>, Head(lockQueue) = s
    PROVE  /\ lockQueue \in Seq(Registrars \cup Sessions)
           /\ sessionPc[s] = "queued"
           /\ Wanted(s) \in Names
           /\ \A t \in Sessions :
                 In(t, Tail(lockQueue)) <=> In(t, lockQueue) /\ t # s
           /\ Once(Sessions, Tail(lockQueue))
<1>1. lockQueue \in Seq(Registrars \cup Sessions)
  BY DEF Inv, TypeOK
<1>2. In(s, lockQueue)
  BY <1>1, TailElements DEF In
<1>3. sessionPc[s] = "queued"
  BY <1>2, GuardsIn DEF Inv
<1>4. Wanted(s) \in Names
  BY <1>3 DEF Inv, InHand, RequestInHand
<1> QED
  BY <1>1, <1>3, <1>4, InTail, OnceTail DEF Inv, QueuedOnce

LEMMA LookupInv ==
    ASSUME Inv, NEW s \in Sessions, Found(s) \/ NotFound(s) PROVE Inv'
<1> USE DEF Inv, clientVars
<1>1. lockQueue # <<>> /\ Head(lockQueue) = s /\ lockQueue' = Tail(lockQueue)
  BY DEF Found, NotFound
<1>2. /\ lockQueue \in Seq(Registrars \cup Sessions)
      /\ sessionPc[s] = "queued"
      /\ Wanted(s) \in Names
      /\ \A t \in Sessions : In(t, lockQueue') <=> In(t, lockQueue) /\ t # s
      /\ QueuedOnce'
  BY <1>1, HeadFacts DEF QueuedOnce
<1>3. lockQueue' \in Seq(Registrars \cup Sessions)
  BY <1>1, <1>2, HeadTailProperties
<1>4. TypeOK'
  <2>1. CASE Found(s)
    <3>1. services[Wanted(s)] \in Registrars \cup {NoOne}
      BY <1>2 DEF TypeOK
    <3> QED
      BY <1>3, <2>1, <3>1 DEF Found, TypeOK
  <2>2. CASE NotFound(s)
    BY <1>3, <2>2 DEF NotFound, TypeOK, Tags
  <2> QED
    BY <2>1, <2>2
<1>5. InHand'
  BY <1>2 DEF Found, NotFound, TypeOK, InHand, RequestInHand, Wanted, Tags
<1>6. RepliesInOrder'
  BY <1>2 DEF Found, NotFound, TypeOK, RepliesInOrder
<1>7. GuardsAreLive'
  <2>1. CASE Found(s)
    BY <1>2, <2>1, GuardsIn, GuardsInNext DEF Found, TypeOK
  <2>2. CASE NotFound(s)
    BY <1>2, <2>2, GuardsIn, GuardsInNext DEF NotFound, TypeOK
  <2> QED
    BY <2>1, <2>2
<1> QED
  BY <1>2, <1>4, <1>5, <1>6, <1>7

LEMMA SessionInv ==
    ASSUME Inv, NEW s \in Sessions, SessionStep(s) PROVE Inv'
<1>1. CASE /\ End(s)
           /\ sessionPc[s] \in {"accepting", "receiving", "calling", "sending"}
  BY <1>1, EndInv
<1> QED
  BY <1>1, TakeUpInv, QueueInv, LookupInv, ReplyInv
  DEF SessionStep, SessionProgress, AcceptFail, EndOfStream, CallPanics,
      ReplyFails, ReplyTooLong

LEMMA InvStep == Inv /\ [Next]_vars => Inv'
<1> USE DEF vars, registryVars, sessionVars, clientVars
<1>1. ASSUME Inv, UNCHANGED vars PROVE Inv'
  BY <1>1 DEF Inv, TypeOK, InHand, RequestInHand, Wanted, RepliesInOrder,
              GuardsAreLive, QueuedOnce, Once
<1>2. ASSUME Inv, Next PROVE Inv'
  BY <1>1, <1>2, ClientInv, SessionInv, RegisterInv DEF Next, Quiescent
<1> QED
  BY <1>1, <1>2

THEOREM Invariance == Spec => []Inv
BY InvInit, InvStep, PTL DEF Spec

\* Type correctness of the server and its sessions: in particular a lookup
\* only ever asks for a name, and a response that is sent has a tag.
THEOREM TypeCorrect == Spec => []TypeOK
BY Invariance, PTL DEF Inv

\* Each session answers its requests one at a time and in their order, on
\* whatever path each of them takes through handle_session.
THEOREM RepliesInOrderCorrect == Spec => []RepliesInOrder
BY Invariance, PTL DEF Inv

\* A session that has ended, or that runs a service, neither holds the
\* registry's lock nor waits for it.
THEOREM GuardsAreLiveCorrect == Spec => []GuardsAreLive
BY Invariance, PTL DEF Inv

-----------------------------------------------------------------------------
(* A request sees the registrations that took effect before it.            *)

\* The registry holds the latest registration of each name.
RegistryIsLatest ==
    \A i \in 1 .. Len(order) : \E j \in i .. Len(order) :
        services[NameOf[order[i]]] = order[j]

FloorInOrder == \A s \in Sessions : floor[s] <= Len(order)

\* RequestSeesRegistration of one session.
Sees(s) ==
    \A i \in 1 .. floor[s] :
        taken[s] > 0 /\ NameOf[order[i]] = Wanted(s) =>
            /\ response[s] # "not_found"
            /\ sessionPc[s] = "calling" =>
                  \E j \in i .. Len(order) : order[j] = service[s]

\* RequestSeesRegistration is not inductive alone: that a lookup finds what
\* the registrations before it left is RegistryIsLatest.
SeesInv ==
    /\ Inv
    /\ RegistryIsLatest
    /\ FloorInOrder
    /\ \A s \in Sessions : Sees(s)

LEMMA SeesInit == Init => SeesInv
  BY InvInit DEF Init, SeesInv, RegistryIsLatest, FloorInOrder, Sees

\* Neither a client nor a registration that only queues disturbs it.
LEMMA SeesUnchanged ==
    ASSUME SeesInv, UNCHANGED <<services, order, sessionVars>>,
           \A s \in Sessions : taken[s] > 0 => Wanted(s)' = Wanted(s)
    PROVE  RegistryIsLatest' /\ FloorInOrder' /\ \A s \in Sessions : Sees(s)'
  BY DEF SeesInv, RegistryIsLatest, FloorInOrder, Sees, sessionVars

LEMMA ClientSees ==
    ASSUME SeesInv, NEW s \in Sessions, ClientStep(s)
    PROVE  RegistryIsLatest' /\ FloorInOrder' /\ \A t \in Sessions : Sees(t)'
<1>1. UNCHANGED <<services, order, sessionVars>>
  BY DEF ClientStep, OpenStream, Send, Read, Finish, Break, registryVars
<1>2. ASSUME NEW t \in Sessions, taken[t] > 0 PROVE Wanted(t)' = Wanted(t)
  <2>1. taken[t] \in 1 .. Len(sent[t]) /\ taken' = taken
    BY <1>1, <1>2
    DEF SeesInv, Inv, InHand, RequestInHand, TypeOK, sessionVars
  <2>2. CASE Send(s)
    <3> PICK m \in Methods : sent' = [sent EXCEPT ![s] = Append(@, m)]
      BY <2>2 DEF Send
    <3>1. \A i \in 1 .. Len(sent[s]) : Append(sent[s], m)[i] = sent[s][i]
      BY AppendProperties DEF SeesInv, Inv, TypeOK
    <3> QED
      BY <2>1, <3>1 DEF Wanted, SeesInv, Inv, TypeOK
  <2>3. CASE sent' = sent
    BY <2>1, <2>3 DEF Wanted
  <2> QED
    BY <2>2, <2>3 DEF ClientStep, OpenStream, Read, Finish, Break
<1> QED
  BY <1>1, <1>2, SeesUnchanged

LEMMA InsertSees ==
    ASSUME SeesInv, NEW r \in Registrars, Insert(r)
    PROVE  RegistryIsLatest' /\ FloorInOrder' /\ \A s \in Sessions : Sees(s)'
<1> DEFINE n == Len(order)
<1>1. order \in Seq(Registrars) /\ n \in Nat
  BY LenProperties DEF SeesInv, Inv, TypeOK
<1>2. /\ Len(order') = n + 1
      /\ \A i \in 1 .. n : order'[i] = order[i]
      /\ order'[n + 1] = r
  BY <1>1, AppendProperties DEF Insert
<1>3. /\ \A m \in Names :
            services'[m] = IF m = NameOf[r] THEN r ELSE services[m]
      /\ UNCHANGED <<sessionVars, clientVars>>
  BY DEF Insert, SeesInv, Inv, TypeOK
<1>4. \A i \in 1 .. n : order[i] \in Registrars /\ NameOf[order[i]] \in Names
  BY <1>1, ServerAssumption
<1>5. NameOf[r] \in Names
  BY ServerAssumption
<1> HIDE DEF n
<1>6. RegistryIsLatest'
  <2> SUFFICES ASSUME NEW i \in 1 .. n + 1
               PROVE  \E j \in i .. n + 1 :
                          services'[NameOf[order'[i]]] = order'[j]
    BY <1>2 DEF RegistryIsLatest
  <2>1. CASE NameOf[order'[i]] = NameOf[r]
    BY <1>1, <1>2, <1>3, <1>5, <2>1
  <2>2. CASE NameOf[order'[i]] # NameOf[r]
    <3>1. i \in 1 .. n /\ order'[i] = order[i]
      BY <1>1, <1>2, <2>2
    <3>2. PICK j \in i .. n : services[NameOf[order[i]]] = order[j]
      BY <3>1 DEF SeesInv, RegistryIsLatest, n
    <3>3. services'[NameOf[order'[i]]] = order'[j]
      BY <1>1, <1>2, <1>3, <1>4, <2>2, <3>1, <3>2
    <3> QED
      BY <1>1, <3>1, <3>3
  <2> QED
    BY <2>1, <2>2
<1>7. \A s \in Sessions : floor[s] \in Nat /\ floor[s] <= n
  BY DEF SeesInv, Inv, TypeOK, FloorInOrder, n
<1>8. FloorInOrder'
  BY <1>1, <1>2, <1>3, <1>7 DEF FloorInOrder, sessionVars
<1>9. ASSUME NEW s \in Sessions PROVE Sees(s)'
  <2>1. Sees(s) /\ Wanted(s)' = Wanted(s)
    BY <1>3 DEF SeesInv, Wanted, sessionVars, clientVars
  <2>2. \A i \in 1 .. floor[s] : i \in 1 .. n /\ order'[i] = order[i]
    BY <1>1, <1>2, <1>7
  <2>3. ASSUME NEW i \in 1 .. floor[s], \E j \in i .. n : order[j] = service[s]
        PROVE  \E j \in i .. n + 1 : order'[j] = service[s]
    <3> PICK j \in i .. n : order[j] = service[s]
      BY <2>3
    <3>1. j \in i .. n + 1 /\ j \in 1 .. n
      BY <1>1
    <3> QED
      BY <1>2, <3>1
  <2> QED
    BY <1>2, <1>3, <2>1, <2>2, <2>3 DEF Sees, sessionVars, n
<1> QED
  BY <1>6, <1>8, <1>9

LEMMA SessionSees ==
    ASSUME SeesInv, NEW s \in Sessions, SessionStep(s)
    PROVE  RegistryIsLatest' /\ FloorInOrder' /\ \A t \in Sessions : Sees(t)'
<1>0. UNCHANGED <<services, order, sent>>
  BY DEF SessionStep, SessionProgress, AcceptStream, AcceptFail, EndOfStream,
         ReceiveGarbage, ReceiveMalformed, Receive, Found, NotFound, CallDone,
         Reply, ReplyFails, CallPanics, ReplyTooLong, End, registryVars,
         clientVars
<1>1. RegistryIsLatest'
  <2> RegistryIsLatest /\ services' = services /\ order' = order
    BY <1>0 DEF SeesInv
  <2> QED
    BY DEF RegistryIsLatest
<1>2. /\ \A t \in Sessions \ {s} :
            /\ sessionPc'[t] = sessionPc[t] /\ taken'[t] = taken[t]
            /\ service'[t] = service[t] /\ response'[t] = response[t]
            /\ floor'[t] = floor[t]
      /\ floor'[s] \in {floor[s], Len(order)}
  BY DEF SessionStep, SessionProgress, AcceptStream, AcceptFail, EndOfStream,
         ReceiveGarbage, ReceiveMalformed, Receive, Found, NotFound, CallDone,
         Reply, ReplyFails, CallPanics, ReplyTooLong, End, Take, SeesInv, Inv,
         TypeOK
<1>3. /\ Len(order) \in Nat
      /\ \A t \in Sessions : floor[t] \in Nat /\ floor[t] <= Len(order)
  BY LenProperties DEF SeesInv, Inv, TypeOK, FloorInOrder
<1>4. FloorInOrder'
  <2> \A t \in Sessions : floor'[t] \in {floor[t], Len(order)}
    BY <1>2
  <2> \A t \in Sessions : floor'[t] <= Len(order)
    BY <1>3
  <2> QED
    BY <1>0 DEF FloorInOrder
<1>5. ASSUME NEW t \in Sessions \ {s} PROVE Sees(t)'
  <2>1. Sees(t) /\ Wanted(t)' = Wanted(t)
    BY <1>0, <1>2 DEF SeesInv, Wanted
  <2> QED
    BY <1>0, <1>2, <2>1 DEF Sees
<1>6. Sees(s)'
  <2>1. CASE Found(s)
    <3>1. /\ floor' = floor /\ taken' = taken /\ response' = response
          /\ response[s] = "none" /\ service'[s] = services[Wanted(s)]
      BY <2>1, HeadFacts DEF Found, SeesInv, Inv, TypeOK, InHand, RequestInHand
    <3>2. ASSUME NEW i \in 1 .. floor[s], NameOf[order[i]] = Wanted(s)
          PROVE  \E j \in i .. Len(order) : order[j] = service'[s]
      <4>1. i \in 1 .. Len(order)
        BY <1>3
      <4> QED
        BY <3>1, <3>2, <4>1 DEF SeesInv, RegistryIsLatest
    <3> QED
      BY <1>0, <3>1, <3>2 DEF Sees, Wanted
  <2>2. CASE NotFound(s)
    <3>1. /\ floor' = floor /\ taken' = taken /\ services[Wanted(s)] = NoOne
      BY <2>2 DEF NotFound
    <3>2. ASSUME NEW i \in 1 .. floor[s], NameOf[order[i]] = Wanted(s)
          PROVE  FALSE
      <4>1. i \in 1 .. Len(order)
        BY <1>3
      <4>2. PICK j \in i .. Len(order) : services[Wanted(s)] = order[j]
        BY <3>2, <4>1 DEF SeesInv, RegistryIsLatest
      <4>3. order[j] \in Registrars
        BY <1>3, <4>1 DEF SeesInv, Inv, TypeOK
      <4> QED
        BY <3>1, <4>2, <4>3, ServerAssumption
    <3> QED
      BY <1>0, <3>1, <3>2 DEF Sees, Wanted
  <2>3. CASE ~ Found(s) /\ ~ NotFound(s)
    <3>1. sessionPc'[s] # "calling"
      BY <2>3 DEF SessionStep, SessionProgress, AcceptStream, AcceptFail,
         EndOfStream, ReceiveGarbage, ReceiveMalformed, Receive, CallDone,
         Reply, ReplyFails, CallPanics, ReplyTooLong, End, Take, SeesInv, Inv,
         TypeOK
    <3>2. response'[s] # "not_found"
      BY <2>3 DEF SessionStep, SessionProgress, AcceptStream, AcceptFail,
         EndOfStream, Receivable, ReceiveGarbage, ReceiveMalformed, Receive,
         CallDone, Reply, ReplyFails, CallPanics, ReplyTooLong, End, InHand,
         RequestInHand, SeesInv, Inv, TypeOK
    <3> QED
      BY <3>1, <3>2 DEF Sees
  <2> QED
    BY <2>1, <2>2, <2>3
<1> QED
  BY <1>1, <1>4, <1>5, <1>6

LEMMA SeesStep == SeesInv /\ [Next]_vars => SeesInv'
<1>1. ASSUME SeesInv, UNCHANGED <<services, order, sessionVars, sent>>
      PROVE  RegistryIsLatest' /\ FloorInOrder' /\ \A s \in Sessions : Sees(s)'
  BY <1>1, SeesUnchanged DEF Wanted, sessionVars
<1>2. ASSUME SeesInv, Next
      PROVE  RegistryIsLatest' /\ FloorInOrder' /\ \A s \in Sessions : Sees(s)'
  BY <1>1, <1>2, ClientSees, SessionSees, InsertSees
  DEF Next, RegisterStep, RequestWrite, Quiescent, vars, registryVars,
      sessionVars, clientVars
<1>3. ASSUME SeesInv, UNCHANGED vars
      PROVE  RegistryIsLatest' /\ FloorInOrder' /\ \A s \in Sessions : Sees(s)'
  BY <1>1, <1>3 DEF vars, registryVars, clientVars
<1> QED
  BY <1>2, <1>3, InvStep DEF SeesInv

\* A lookup sees every registration that had taken effect when its request
\* was received, however the sessions and registrations queue for the lock.
THEOREM RequestSeesRegistrationCorrect == Spec => []RequestSeesRegistration
<1>1. SeesInv => RequestSeesRegistration
  BY DEF SeesInv, Sees, RequestSeesRegistration
<1> QED
  BY SeesInit, SeesStep, <1>1, PTL DEF Spec

-----------------------------------------------------------------------------
(* The server implements RpcService.                                       *)

Registered == {n \in Names : services[n] # NoOne}
Current    == [s \in Sessions |-> KindOf(s)]
Over       == {s \in Sessions : sessionPc[s] = "ended"}

\* KindOf of a session depends on two of its variables.
LEMMA KindValues ==
    ASSUME NEW s \in Sessions
    PROVE  /\ sessionPc[s] = "calling" => KindOf(s) = "found"
           /\ sessionPc[s] = "sending" =>
                 KindOf(s) = IF response[s] = "invalid" THEN "malformed"
                             ELSE IF response[s] = "not_found" THEN "missing"
                             ELSE "found"
           /\ sessionPc[s] \notin {"calling", "sending"} => KindOf(s) = "none"
BY DEF KindOf

LEMMA KindValuesNext ==
    ASSUME NEW s \in Sessions
    PROVE  /\ sessionPc'[s] = "calling" => KindOf(s)' = "found"
           /\ sessionPc'[s] = "sending" =>
                 KindOf(s)' = IF response'[s] = "invalid" THEN "malformed"
                              ELSE IF response'[s] = "not_found" THEN "missing"
                              ELSE "found"
           /\ sessionPc'[s] \notin {"calling", "sending"}
                 => KindOf(s)' = "none"
BY DEF KindOf

\* A step that changes the loop of one session at most.
LEMMA CurrentNext ==
    ASSUME NEW s \in Sessions,
           \A t \in Sessions \ {s} : /\ sessionPc'[t] = sessionPc[t]
                                     /\ response'[t] = response[t]
    PROVE  Current' = [Current EXCEPT ![s] = KindOf(s)']
<1>1. \A t \in Sessions \ {s} : KindOf(t)' = KindOf(t)
  BY DEF KindOf
<1> DEFINE k == KindOf(s)'
<1>2. Current' = [t \in Sessions |-> IF t = s THEN k ELSE KindOf(t)]
  BY <1>1 DEF Current
<1> HIDE DEF k
<1> QED
  BY <1>2 DEF Current

LEMMA PromiseInit == Init => Promise!Init
<1> SUFFICES ASSUME Init PROVE Promise!Init
  OBVIOUS
<1>1. Registered = {}
  BY DEF Init, Registered
<1>2. Current = [s \in Sessions |-> "none"]
  BY KindValues DEF Init, Current
<1>3. Over = {}
  BY DEF Init, Over
<1> QED
  BY <1>1, <1>2, <1>3 DEF Promise!Init, Init, Registered, Current, Over

\* A step that the promise does not see.
Unseen == UNCHANGED <<Registered, sent, Current, replies, Over>>

LEMMA ClientPromise ==
    ASSUME Inv, NEW s \in Sessions, ClientStep(s)
    PROVE  Promise!Ask(s) \/ Unseen
<1> USE DEF registryVars, sessionVars
<1>1. UNCHANGED <<Registered, Current, replies, Over>>
  <2>1. UNCHANGED <<services, sessionPc, response, replies>>
    BY DEF ClientStep, OpenStream, Send, Read, Finish, Break
  <2> QED
    BY <2>1 DEF Registered, Current, Over, KindOf
<1>2. CASE Send(s)
  BY <1>1, <1>2
  DEF Send, Methods, Promise!Ask, Registered, Current, Over
<1>3. CASE sent' = sent
  BY <1>1, <1>3 DEF Unseen
<1> QED
  BY <1>2, <1>3 DEF ClientStep, OpenStream, Read, Finish, Break

LEMMA RegisterPromise ==
    ASSUME Inv, NEW r \in Registrars, RegisterStep(r)
    PROVE  (\E n \in Names : Promise!Register(n)) \/ Unseen
<1> USE DEF sessionVars, clientVars
<1>1. UNCHANGED <<sent, Current, replies, Over>>
  <2>1. UNCHANGED <<sent, sessionPc, response, replies>>
    BY DEF RegisterStep, RequestWrite, Insert
  <2> QED
    BY <2>1 DEF Current, Over, KindOf
<1>2. CASE RequestWrite(r)
  BY <1>1, <1>2 DEF RequestWrite, Unseen, Registered
<1>3. CASE Insert(r)
  <2>1. NameOf[r] \in Names /\ r # NoOne
    BY ServerAssumption
  <2>2. Registered' = Registered \cup {NameOf[r]}
    BY <1>3, <2>1 DEF Insert, Registered, Inv, TypeOK
  <2>3. Promise!Register(NameOf[r])
    BY <1>1, <2>2 DEF Promise!Register, Registered, Current, Over
  <2> QED
    BY <2>1, <2>3
<1> QED
  BY <1>2, <1>3 DEF RegisterStep

\* The session ends, or is taken to have ended, on a path of its own.
LEMMA StopPromise ==
    ASSUME Inv, NEW s \in Sessions, sessionPc[s] # "ended",
           sessionPc' = [sessionPc EXCEPT ![s] = "ended"],
           \A t \in Sessions \ {s} : response'[t] = response[t],
           UNCHANGED <<services, sent, replies>>
    PROVE  Promise!Stop(s)
<1>1. s \notin Over /\ Over' = Over \cup {s}
  BY DEF Over, Inv, TypeOK
<1>2. \A t \in Sessions \ {s} : sessionPc'[t] = sessionPc[t]
  BY DEF Inv, TypeOK
<1>3. sessionPc'[s] = "ended"
  BY DEF Inv, TypeOK
<1>4. KindOf(s)' = "none"
  BY <1>3, KindValuesNext
<1>5. Current' = [Current EXCEPT ![s] = "none"]
  BY <1>2, <1>4, CurrentNext
<1>6. UNCHANGED <<Registered, sent, replies>>
  BY DEF Registered
<1> QED
  BY <1>1, <1>5, <1>6 DEF Promise!Stop, Registered, Current, Over

\* The session takes up a request, or finds out about it.
LEMMA BeginPromise ==
    ASSUME Inv, NEW s \in Sessions,
           ReceiveMalformed(s) \/ Found(s) \/ NotFound(s)
    PROVE  Promise!Begin(s)
<1> USE DEF registryVars, clientVars
<1> DEFINE n == Len(replies[s]) + 1
           Kind == IF sent[s][n] = Malformed THEN "malformed"
                   ELSE IF sent[s][n] \in Registered THEN "found" ELSE "missing"
<1>1. /\ sessionPc[s] \in {"receiving", "queued"}
      /\ Len(replies[s]) < Len(sent[s])
      /\ sent[s][n] # Garbage
      /\ KindOf(s)' = Kind
  <2>1. CASE ReceiveMalformed(s)
    <3>1. sent[s][n] = Malformed /\ Len(replies[s]) < Len(sent[s])
      BY <2>1, ReceivableFacts DEF ReceiveMalformed, Incoming
    <3>2. sessionPc'[s] = "sending" /\ response'[s] = "invalid"
      BY <2>1 DEF ReceiveMalformed, Inv, TypeOK
    <3>3. KindOf(s)' = "malformed"
      BY <3>2, KindValuesNext
    <3> QED
      BY <2>1, <3>1, <3>3, ServerAssumption DEF ReceiveMalformed, Receivable
  <2>2. CASE Found(s) \/ NotFound(s)
    <3>1. /\ sessionPc[s] = "queued" /\ Wanted(s) \in Names
      BY <2>2, HeadFacts DEF Found, NotFound
    <3>2. /\ n = taken[s] /\ Wanted(s) = sent[s][n]
          /\ Len(replies[s]) < Len(sent[s])
      <4>1. n = taken[s] /\ taken[s] <= Len(sent[s])
        BY <3>1 DEF Inv, RepliesInOrder, InHand, RequestInHand
      <4>2. Len(replies[s]) \in Nat /\ Len(sent[s]) \in Nat
        BY LenProperties DEF Inv, TypeOK
      <4> QED
        BY <4>1, <4>2 DEF Wanted
    <3>3. sent[s][n] \notin {Malformed, Garbage}
      BY <3>1, <3>2, ServerAssumption
    <3>4. KindOf(s)' = IF sent[s][n] \in Registered THEN "found" ELSE "missing"
      <4>1. CASE Found(s)
        <5>1. sessionPc'[s] = "calling" /\ sent[s][n] \in Registered
          BY <3>1, <3>2, <4>1 DEF Found, Registered, Inv, TypeOK
        <5> QED
          BY <5>1, KindValuesNext
      <4>2. CASE NotFound(s)
        <5>1. /\ sessionPc'[s] = "sending" /\ response'[s] = "not_found"
              /\ sent[s][n] \notin Registered
          BY <3>1, <3>2, <4>2 DEF NotFound, Registered, Inv, TypeOK
        <5> QED
          BY <5>1, KindValuesNext
      <4> QED
        BY <2>2, <4>1, <4>2
    <3> QED
      BY <3>1, <3>2, <3>3, <3>4
  <2> QED
    BY <2>1, <2>2
<1>2. UNCHANGED <<services, sent, replies>>
  BY DEF ReceiveMalformed, Found, NotFound, Take
<1>3. s \notin Over /\ Over' = Over
  <2>1. \/ sessionPc' = [sessionPc EXCEPT ![s] = "sending"]
        \/ sessionPc' = [sessionPc EXCEPT ![s] = "calling"]
    BY DEF ReceiveMalformed, Found, NotFound
  <2> QED
    BY <1>1, <2>1 DEF Over, Inv, TypeOK
<1>4. \A t \in Sessions \ {s} : /\ sessionPc'[t] = sessionPc[t]
                                /\ response'[t] = response[t]
  BY DEF ReceiveMalformed, Found, NotFound, Inv, TypeOK
<1>5. Current[s] = "none" /\ Current' = [Current EXCEPT ![s] = Kind]
  BY <1>1, <1>4, KindValues, CurrentNext DEF Current
<1> QED
  BY <1>1, <1>2, <1>3, <1>5
  DEF Promise!Begin, Promise!Upcoming, Registered, Current, Over

LEMMA AnswerPromise ==
    ASSUME Inv, NEW s \in Sessions, Reply(s) PROVE Promise!Answer(s)
<1> USE DEF clientVars
<1>1. response[s] \in Tags /\ sessionPc[s] = "sending"
  BY DEF Reply, Inv, InHand, RequestInHand
<1>2. response[s] \in Promise!TagsFor(Current[s])
  BY <1>1, KindValues DEF Current, Tags, Promise!TagsFor
<1>3. replies' = [replies EXCEPT
          ![s] = Append(@, [id |-> Len(@) + 1, tag |-> response[s]])]
  BY <1>1 DEF Reply, Inv, RepliesInOrder
<1>4. s \notin Over /\ Over' = Over
  BY <1>1 DEF Reply, Over, Inv, TypeOK
<1>5. /\ sessionPc'[s] = "receiving"
      /\ \A t \in Sessions \ {s} : /\ sessionPc'[t] = sessionPc[t]
                                   /\ response'[t] = response[t]
  BY DEF Reply, Inv, TypeOK
<1>6. Current' = [Current EXCEPT ![s] = "none"]
  BY <1>5, KindValuesNext, CurrentNext
<1>7. UNCHANGED <<Registered, sent>>
  BY DEF Reply, Registered
<1> QED
  BY <1>2, <1>3, <1>4, <1>6, <1>7
  DEF Promise!Answer, Registered, Current, Over

LEMMA SessionPromise ==
    ASSUME Inv, NEW s \in Sessions, SessionStep(s)
    PROVE  Promise!Begin(s) \/ Promise!Answer(s) \/ Promise!Stop(s) \/ Unseen
<1> USE DEF registryVars, clientVars
<1>1. CASE /\ End(s)
           /\ sessionPc[s] \in {"accepting", "receiving", "calling", "sending"}
  <2>1. \A t \in Sessions \ {s} : response'[t] = response[t]
    BY <1>1 DEF End, Inv, TypeOK
  <2> QED
    BY <1>1, <2>1, StopPromise DEF End
<1>2. CASE ReceiveGarbage(s)
  BY <1>2, StopPromise DEF ReceiveGarbage, Receivable, Take
<1>3. CASE ReceiveMalformed(s) \/ Found(s) \/ NotFound(s)
  BY <1>3, BeginPromise
<1>4. CASE Reply(s)
  BY <1>4, AnswerPromise
<1>5. CASE AcceptStream(s) \/ Receive(s) \/ CallDone(s)
  <2>1. /\ UNCHANGED <<services, sent, replies>>
        /\ sessionPc[s] # "ended" /\ sessionPc'[s] # "ended"
        /\ \A t \in Sessions \ {s} : /\ sessionPc'[t] = sessionPc[t]
                                     /\ response'[t] = response[t]
    BY <1>5
    DEF AcceptStream, Receive, Receivable, Take, CallDone, Inv, TypeOK
  <2>2. KindOf(s)' = KindOf(s)
    <3>1. CASE AcceptStream(s) \/ Receive(s)
      <4>1. /\ sessionPc[s] \in {"accepting", "receiving"}
            /\ sessionPc'[s] \in {"receiving", "queued"}
        BY <3>1 DEF AcceptStream, Receive, Receivable, Inv, TypeOK
      <4> QED
        BY <4>1, KindValues, KindValuesNext
    <3>2. CASE CallDone(s)
      <4>1. /\ sessionPc[s] = "calling" /\ sessionPc'[s] = "sending"
            /\ response'[s] \in {"ok", "error", "timeout"}
        BY <3>2 DEF CallDone, Inv, TypeOK
      <4> QED
        BY <4>1, KindValues, KindValuesNext
    <3> QED
      BY <1>5, <3>1, <3>2
  <2>3. Current' = Current
    BY <2>1, <2>2, CurrentNext DEF Current
  <2>4. Over' = Over
    BY <2>1 DEF Over
  <2>5. Registered' = Registered
    BY <2>1 DEF Registered
  <2> QED
    BY <2>1, <2>3, <2>4, <2>5 DEF Unseen
<1> QED
  BY <1>1, <1>2, <1>3, <1>4, <1>5
  DEF SessionStep, SessionProgress, AcceptFail, EndOfStream, CallPanics,
      ReplyFails, ReplyTooLong

LEMMA PromiseStep == Inv /\ [Next]_vars => [Promise!Next]_Promise!vars
<1>1. Unseen <=> UNCHANGED Promise!vars
  BY DEF Unseen, Promise!vars, Registered, Current, Over
<1>2. ASSUME Inv, UNCHANGED vars PROVE Unseen
  BY <1>2 DEF Unseen, vars, registryVars, sessionVars, clientVars, Registered,
              Current, Over, KindOf
<1>3. ASSUME Inv, Next PROVE [Promise!Next]_Promise!vars
  <2>1. CASE \E s \in Sessions : ClientStep(s)
    BY <1>1, <1>3, <2>1, ClientPromise DEF Promise!Next
  <2>2. CASE \E s \in Sessions : SessionStep(s)
    BY <1>1, <1>3, <2>2, SessionPromise DEF Promise!Next
  <2>3. CASE \E r \in Registrars : RegisterStep(r)
    BY <1>1, <1>3, <2>3, RegisterPromise DEF Promise!Next
  <2>4. CASE Quiescent
    BY <1>1, <1>2, <1>3, <2>4 DEF Quiescent
  <2> QED
    BY <1>3, <2>1, <2>2, <2>3, <2>4 DEF Next
<1> QED
  BY <1>1, <1>2, <1>3

\* The server implements RpcService: the lock and its queue, the read guard
\* held over a send, calls in flight while a service is replaced, and
\* sessions that end half way change nothing a client can tell.
THEOREM PromiseCorrect == Spec => ImplementsPromise
<1>1. Spec => []Inv
  BY Invariance
<1>2. Init => Promise!Init
  BY PromiseInit
<1>3. Inv /\ [Next]_vars => [Promise!Next]_Promise!vars
  BY PromiseStep
<1> QED
  BY <1>1, <1>2, <1>3, PTL DEF Spec, ImplementsPromise, Promise!Spec

=============================================================================
