--------------------------- MODULE ProgramProofs ---------------------------
(***************************************************************************)
(* Proofs about the programs: that a client leaves no endpoint open, and   *)
(* what it takes to leave a pair of files that fails, for any options,     *)
(* widths of numbers, files and number of starts.                          *)
(***************************************************************************)
EXTENDS Programs, TLAPS

USE DEF serverVars, clientVars, commandLineVars, nodeVars, exampleVars,
        programVars

-----------------------------------------------------------------------------
(* The command line.                                                       *)

\* A client has an endpoint from its creation on, and loses it by a drop.
EndpointInv ==
    /\ clientPc \in {"idle", "creating"} => clientEndpoint = "none"
    /\ EndedClientIsClosed

LEMMA EndpointStep ==
    ASSUME EndpointInv, CommandLineNext
    PROVE  EndpointInv'
<1> USE DEF EndpointInv, EndedClientIsClosed
<1>1. CASE ServerStarts \/ ServerCreated \/ ServerNotBound \/ ServeEnds
               \/ ServerStops
    BY <1>1 DEF ServerStarts, ServerCreated, ServerNotBound, ServeEnds,
        ServerStops
<1>2. CASE ClientStarts
    BY <1>2 DEF ClientStarts
<1>3. CASE ClientCreated
    BY <1>3 DEF ClientCreated, Outcome
<1>4. CASE ClientConnects \/ ClientGoesOn \/ ClientKilled
    BY <1>4 DEF ClientConnects, ClientGoesOn, ClientKilled
<1>5. CASE ClientCloses \/ ClientFails
    BY <1>5 DEF ClientCloses, ClientFails, DropsClient
<1> QED
    BY <1>1, <1>2, <1>3, <1>4, <1>5 DEF CommandLineNext

\* However run_client ends by itself, its endpoint is closed.
THEOREM EndedClientIsClosedCorrect == Spec => []EndedClientIsClosed
<1>1. Init => EndpointInv
    BY DEF Init, CommandLineInit, EndpointInv, EndedClientIsClosed
<1>2. EndpointInv /\ [Next]_programVars => EndpointInv'
    <2> SUFFICES ASSUME EndpointInv, [Next]_programVars PROVE EndpointInv'
        OBVIOUS
    <2>1. CASE CommandLineNext
        BY <2>1, EndpointStep
    <2>2. CASE UNCHANGED commandLineVars
        BY <2>2 DEF EndpointInv, EndedClientIsClosed
    <2> QED
        BY <2>1, <2>2 DEF Next
<1>3. EndpointInv => EndedClientIsClosed
    BY DEF EndpointInv
<1> QED
    BY <1>1, <1>2, <1>3, PTL DEF Spec

-----------------------------------------------------------------------------
(* The files of the example server.                                        *)

\* What one start finds in the files at each point, if nothing disturbs it.
FilesOf(p) ==
    CASE startPc[p] = "create crt" -> "absent" \in {crt, key}
      [] startPc[p] = "fill crt"   -> crt = "empty"
      [] startPc[p] = "create key" -> crt = p
      [] startPc[p] = "fill key"   -> crt = p /\ key = "empty"
      [] startPc[p] = "read crt"   -> crt \in Pairs /\ key = crt
      [] startPc[p] = "read key"   -> chain[p] \in Pairs /\ key = chain[p]
                                          /\ crt = key
      [] OTHER -> TRUE

\* Between the writings two files that are there are whole and belong
\* together; one without the other may be anything.
FilesAtRest == "absent" \notin {crt, key} => crt \in Pairs /\ crt = key

StartPlaces ==
    Starting \cup {"idle", "serving", "not bound", "failed", "panicked",
                   "not written", "dead"}

\* With files that do, or without, and undisturbed, a start that writes is
\* alone, every start finds what it relies on, and the files are at rest when
\* nobody writes.
PairInv ==
    /\ startPc \in [Starts -> StartPlaces]
    /\ chain \in [Starts -> Files]
    /\ {crt, key} \subseteq Files
    /\ disturbed \in BOOLEAN /\ unfit \in BOOLEAN
    /\ ~ disturbed /\ ~ unfit =>
        /\ ~ Overlap(startPc)
        /\ \A p \in Starts : FilesOf(p)
        /\ (\A p \in Starts : startPc[p] \notin Writing) => FilesAtRest
        /\ PairFailsWhenDisturbed

LEMMA PairInit == Init => PairInv
<1> SUFFICES ASSUME Init PROVE PairInv
    OBVIOUS
<1>1. /\ startPc \in [Starts -> StartPlaces] /\ chain \in [Starts -> Files]
      /\ \A p \in Starts : startPc[p] = "idle"
    BY DEF Init, ExampleInit, StartPlaces, Files
<1>2. /\ {crt, key} \subseteq Files
      /\ disturbed \in BOOLEAN /\ unfit \in BOOLEAN
    BY DEF Init, ExampleInit, FirstFiles
<1>3. ~ Overlap(startPc)
    BY <1>1 DEF Overlap, Writing
<1>4. ~ unfit => FilesAtRest
    <2> SUFFICES ASSUME ~ unfit, "absent" \notin {crt, key}
                 PROVE  crt \in Pairs /\ crt = key
        BY DEF FilesAtRest
    <2>1. LoadPair(crt, key) = "ok"
        BY DEF Init, ExampleInit
    <2>2. crt = key /\ key \notin {"unset", "absent", "torn", "empty", "other"}
        BY <2>1 DEF LoadPair
    <2> QED
        BY <1>2, <2>2 DEF Files
<1>5. PairFailsWhenDisturbed /\ \A p \in Starts : FilesOf(p)
    BY <1>1 DEF PairFailsWhenDisturbed, FilesOf
<1> QED
    BY <1>1, <1>2, <1>3, <1>4, <1>5 DEF PairInv

\* What a step to another place leaves to be shown of PairInv.
LEMMA PairGoes ==
    ASSUME PairInv, NEW p \in Starts, NEW to \in StartPlaces, Goes(p, to),
           {crt', key'} \subseteq Files,
           chain' \in [Starts -> Files],
           ASSUME ~ disturbed, ~ unfit, ~ Overlap(startPc'),
                  \A q \in Starts \ {p} : startPc'[q] = startPc[q],
                  startPc'[p] = to
           PROVE  /\ FilesOf(p)'
                  /\ \A q \in Starts \ {p} : FilesOf(q)'
                  /\ (\A q \in Starts : startPc'[q] \notin Writing)
                        => FilesAtRest'
                  /\ to \notin {"failed", "panicked"}
    PROVE  PairInv'
<1>1. /\ startPc' \in [Starts -> StartPlaces]
      /\ \A q \in Starts \ {p} : startPc'[q] = startPc[q]
      /\ startPc'[p] = to
    BY DEF PairInv, Goes
<1>2. /\ disturbed' \in BOOLEAN /\ unfit' = unfit
      /\ ~ disturbed' => ~ disturbed /\ ~ Overlap(startPc')
    BY DEF PairInv, Goes, Overlap
<1>3. ASSUME ~ disturbed', ~ unfit'
      PROVE  /\ \A q \in Starts : FilesOf(q)'
             /\ (\A q \in Starts : startPc'[q] \notin Writing)
                    => FilesAtRest'
             /\ PairFailsWhenDisturbed'
    <2>1. PairFailsWhenDisturbed
        BY <1>2, <1>3 DEF PairInv
    <2>2. to \notin {"failed", "panicked"}
        BY <1>1, <1>2, <1>3
    <2>3. PairFailsWhenDisturbed'
        BY <1>1, <1>2, <1>3, <2>1, <2>2 DEF PairFailsWhenDisturbed
    <2> QED
        BY <1>1, <1>2, <1>3, <2>3
<1> QED
    BY <1>1, <1>2, <1>3 DEF PairInv

\* A start that writes is alone, so that the others rely on no file.
LEMMA OthersRelyOnNothing ==
    ASSUME NEW p \in Starts, ~ Overlap(startPc),
           startPc[p] \in Writing,
           NEW q \in Starts \ {p}
    PROVE  startPc[q] \notin Starting
BY DEF Overlap

LEMMA LookStep ==
    ASSUME PairInv, NEW p \in Starts, LookForFiles(p)
    PROVE  PairInv'
<1> DEFINE to == IF "absent" \in {crt, key} THEN "create crt" ELSE "read crt"
<1>1. /\ Goes(p, to) /\ startPc[p] = "idle"
      /\ crt' = crt /\ key' = key /\ chain' = chain
      /\ to \in StartPlaces
    BY DEF LookForFiles, StartPlaces, Starting, Writing
<1>2. ASSUME ~ disturbed, ~ unfit, ~ Overlap(startPc'),
             startPc'[p] = to,
             \A q \in Starts \ {p} : startPc'[q] = startPc[q]
      PROVE  /\ FilesOf(p)'
             /\ \A q \in Starts \ {p} : FilesOf(q)'
             /\ (\A q \in Starts : startPc'[q] \notin Writing) => FilesAtRest'
             /\ to \notin {"failed", "panicked"}
    <2>1. \A q \in Starts \ {p} : startPc[q] \notin Writing
        BY <1>2 DEF Overlap, Starting, Writing
    <2>2. FilesAtRest
        BY <1>1, <1>2, <2>1 DEF PairInv, Writing
    <2>3. FilesOf(p)'
        BY <1>1, <1>2, <2>2 DEF FilesOf, FilesAtRest
    <2>4. \A q \in Starts \ {p} : FilesOf(q)'
        BY <1>1, <1>2 DEF PairInv, FilesOf
    <2> QED
        BY <1>1, <2>2, <2>3, <2>4 DEF FilesAtRest
<1>3. {crt', key'} \subseteq Files /\ chain' \in [Starts -> Files]
    BY <1>1 DEF PairInv
<1> HIDE DEF to
<1> QED
    BY <1>1, <1>2, <1>3, PairGoes

\* The four steps that write.
LEMMA WriteStep ==
    ASSUME PairInv, NEW p \in Starts,
           CreateCrt(p) \/ FillCrt(p) \/ CreateKey(p) \/ FillKey(p)
    PROVE  PairInv'
<1>1. PICK to \in StartPlaces :
            /\ Goes(p, to)
            /\ to \in Starting
            /\ startPc[p] \in Writing
            /\ chain' = chain
            /\ \/ /\ startPc[p] = "create crt" /\ to = "fill crt"
                  /\ crt' = "empty" /\ key' = key
               \/ /\ startPc[p] = "fill crt" /\ to = "create key"
                  /\ crt' = p /\ key' = key
               \/ /\ startPc[p] = "create key" /\ to = "fill key"
                  /\ crt' = crt /\ key' = "empty"
               \/ /\ startPc[p] = "fill key" /\ to = "read crt"
                  /\ crt' = crt /\ key' = p
    BY DEF CreateCrt, FillCrt, CreateKey, FillKey, StartPlaces, Starting,
        Writing
<1>2. p \in Pairs /\ {crt', key'} \subseteq Files
    BY <1>1, StartsAssumption DEF PairInv, Files
<1>3. ASSUME ~ disturbed, ~ unfit, ~ Overlap(startPc'),
             startPc'[p] = to,
             \A q \in Starts \ {p} : startPc'[q] = startPc[q]
      PROVE  /\ FilesOf(p)'
             /\ \A q \in Starts \ {p} : FilesOf(q)'
             /\ (\A q \in Starts : startPc'[q] \notin Writing) => FilesAtRest'
             /\ to \notin {"failed", "panicked"}
    <2>1. \A q \in Starts \ {p} : startPc[q] \notin Starting
        BY <1>1, <1>3, OthersRelyOnNothing DEF PairInv
    <2>2. \A q \in Starts \ {p} : FilesOf(q)'
        BY <1>3, <2>1 DEF FilesOf, Starting, Writing
    <2>3. FilesOf(p)
        BY <1>3 DEF PairInv
    <2>4. FilesOf(p)'
        BY <1>1, <1>2, <1>3, <2>3 DEF FilesOf
    <2>5. (\A q \in Starts : startPc'[q] \notin Writing) => FilesAtRest'
        <3>1. startPc[p] = "fill key" => crt = p
            BY <2>3 DEF FilesOf
        <3>2. ASSUME startPc[p] = "fill key" PROVE FilesAtRest'
            BY <1>1, <1>2, <3>1, <3>2 DEF FilesAtRest
        <3>3. startPc[p] # "fill key" => startPc'[p] \in Writing
            BY <1>1, <1>3 DEF Writing
        <3> QED
            BY <3>2, <3>3
    <2> QED
        BY <1>1, <2>2, <2>4, <2>5 DEF Starting, Writing
<1>4. chain' \in [Starts -> Files]
    BY <1>1 DEF PairInv
<1> QED
    BY <1>1, <1>2, <1>3, <1>4, PairGoes

LEMMA ReadStep ==
    ASSUME PairInv, NEW p \in Starts, ReadCrt(p) \/ ReadKey(p)
    PROVE  PairInv'
<1>1. ASSUME NEW q \in Starts \ {p}, startPc'[q] = startPc[q],
             FilesOf(q), crt' = crt, key' = key, chain'[q] = chain[q]
      PROVE  FilesOf(q)'
    BY <1>1 DEF FilesOf
<1>2. CASE ReadCrt(p)
    <2>1. /\ Goes(p, "read key") /\ startPc[p] = "read crt"
          /\ crt' = crt /\ key' = key /\ chain' = [chain EXCEPT ![p] = crt]
          /\ "read key" \in StartPlaces
        BY <1>2 DEF ReadCrt, StartPlaces, Starting, Writing
    <2>2. /\ {crt', key'} \subseteq Files /\ chain' \in [Starts -> Files]
          /\ chain'[p] = crt
          /\ \A q \in Starts \ {p} : chain'[q] = chain[q]
        BY <2>1 DEF PairInv
    <2>3. ASSUME ~ disturbed, ~ unfit, ~ Overlap(startPc'),
                 startPc'[p] = "read key",
                 \A q \in Starts \ {p} : startPc'[q] = startPc[q]
          PROVE  /\ FilesOf(p)'
                 /\ \A q \in Starts \ {p} : FilesOf(q)'
                 /\ (\A q \in Starts : startPc'[q] \notin Writing)
                        => FilesAtRest'
        <3>1. /\ \A q \in Starts : FilesOf(q)
              /\ (\A q \in Starts : startPc[q] \notin Writing) => FilesAtRest
            BY <2>3 DEF PairInv
        <3>2. FilesOf(p)'
            BY <2>1, <2>2, <2>3, <3>1 DEF FilesOf
        <3>3. \A q \in Starts \ {p} : FilesOf(q)'
            BY <1>1, <2>1, <2>2, <2>3, <3>1
        <3>4. (\A q \in Starts : startPc'[q] \notin Writing) => FilesAtRest'
            BY <2>1, <2>3, <3>1 DEF FilesAtRest, Writing
        <3> QED
            BY <3>2, <3>3, <3>4
    <2> QED
        BY <2>1, <2>2, <2>3, PairGoes
<1>3. CASE ReadKey(p)
    <2> DEFINE to == CASE LoadPair(chain[p], key) = "error" -> "failed"
                       [] LoadPair(chain[p], key) = "panic" -> "panicked"
                       [] OTHER -> IF \E q \in Starts : startPc[q] = "serving"
                                   THEN "not bound" ELSE "serving"
    <2>1. /\ Goes(p, to) /\ startPc[p] = "read key"
          /\ crt' = crt /\ key' = key /\ chain' = chain
          /\ to \in {"failed", "panicked", "not bound", "serving"}
        BY <1>3 DEF ReadKey
    <2>2. {crt', key'} \subseteq Files /\ chain' \in [Starts -> Files]
        BY <2>1 DEF PairInv
    <2>3. ASSUME ~ disturbed, ~ unfit, ~ Overlap(startPc'),
                 startPc'[p] = to,
                 \A q \in Starts \ {p} : startPc'[q] = startPc[q]
          PROVE  /\ FilesOf(p)'
                 /\ \A q \in Starts \ {p} : FilesOf(q)'
                 /\ (\A q \in Starts : startPc'[q] \notin Writing)
                        => FilesAtRest'
                 /\ to \notin {"failed", "panicked"}
        <3>1. /\ \A q \in Starts : FilesOf(q)
              /\ (\A q \in Starts : startPc[q] \notin Writing) => FilesAtRest
            BY <2>3 DEF PairInv
        <3>2. chain[p] \in Pairs /\ key = chain[p]
            BY <2>1, <3>1 DEF FilesOf
        <3>3. LoadPair(chain[p], key) = "ok"
            BY <3>2, ConfigAssumption DEF LoadPair
        <3>4. to \notin {"failed", "panicked"}
            BY <3>3
        <3>5. FilesOf(p)'
            BY <2>1, <2>3 DEF FilesOf
        <3>6. \A q \in Starts \ {p} : FilesOf(q)'
            BY <1>1, <2>1, <2>3, <3>1
        <3>7. (\A q \in Starts : startPc'[q] \notin Writing) => FilesAtRest'
            BY <2>1, <2>3, <3>1 DEF FilesAtRest, Writing
        <3> QED
            BY <3>4, <3>5, <3>6, <3>7
    <2>4. to \in StartPlaces
        BY <2>1 DEF StartPlaces
    <2> HIDE DEF to
    <2> QED
        BY <2>1, <2>2, <2>3, <2>4, PairGoes
<1> QED
    BY <1>2, <1>3

\* A start that is stopped disturbs the others if it wrote, and leaves the
\* files alone if it did not.
LEMMA StopsStep ==
    ASSUME PairInv, NEW p \in Starts, WriteFails(p) \/ Die(p)
    PROVE  PairInv'
<1> PICK as \in {"not written", "dead"} : Stops(p, as)
    BY DEF WriteFails, Die
<1>1. /\ startPc' = [startPc EXCEPT ![p] = as]
      /\ disturbed' = (disturbed \/ startPc[p] \in Writing)
      /\ chain' = chain /\ unfit' = unfit
      /\ {crt', key'} \subseteq Files
    BY DEF Stops, PairInv, Files
<1>2. /\ startPc' \in [Starts -> StartPlaces]
      /\ startPc'[p] = as
      /\ \A q \in Starts \ {p} : startPc'[q] = startPc[q]
    BY <1>1 DEF PairInv, StartPlaces
<1>3. disturbed' \in BOOLEAN /\ unfit' \in BOOLEAN
    BY <1>1 DEF PairInv
<1>4. ASSUME ~ disturbed', ~ unfit'
      PROVE  /\ ~ Overlap(startPc')
             /\ \A q \in Starts : FilesOf(q)'
             /\ (\A q \in Starts : startPc'[q] \notin Writing) => FilesAtRest'
             /\ PairFailsWhenDisturbed'
    <2>1. ~ disturbed /\ ~ unfit /\ startPc[p] \notin Writing
        BY <1>1, <1>4
    <2>2. crt' = crt /\ key' = key
        BY <2>1 DEF Stops, Writing
    <2>3. /\ ~ Overlap(startPc)
          /\ \A q \in Starts : FilesOf(q)
          /\ (\A q \in Starts : startPc[q] \notin Writing) => FilesAtRest
          /\ PairFailsWhenDisturbed
        BY <2>1 DEF PairInv
    <2>4. ~ Overlap(startPc')
        BY <1>2, <2>3 DEF Overlap, Writing, Starting
    <2>5. \A q \in Starts : FilesOf(q)'
        BY <1>1, <1>2, <2>2, <2>3 DEF FilesOf
    <2>6. (\A q \in Starts : startPc'[q] \notin Writing) => FilesAtRest'
        BY <1>2, <2>1, <2>2, <2>3 DEF FilesAtRest
    <2>7. PairFailsWhenDisturbed'
        BY <1>2, <2>1, <2>3 DEF PairFailsWhenDisturbed
    <2> QED
        BY <2>4, <2>5, <2>6, <2>7
<1> QED
    BY <1>1, <1>2, <1>3, <1>4 DEF PairInv

\* However many starts there are and whichever files they meet, a pair that
\* fails was there at first, or takes a start that was killed or failed to
\* write while it wrote, or that ran while another wrote.
THEOREM PairFailsWhenDisturbedCorrect == Spec => []PairFailsWhenDisturbed
<1>1. Init => PairInv
    BY PairInit
<1>2. PairInv /\ [Next]_programVars => PairInv'
    <2> SUFFICES ASSUME PairInv, [Next]_programVars PROVE PairInv'
        OBVIOUS
    <2>1. CASE ExampleNext
        <3> PICK p \in Starts :
                \/ LookForFiles(p)
                \/ CreateCrt(p) \/ FillCrt(p) \/ CreateKey(p) \/ FillKey(p)
                \/ ReadCrt(p) \/ ReadKey(p)
                \/ WriteFails(p) \/ Die(p)
            BY <2>1 DEF ExampleNext
        <3> QED
            BY LookStep, WriteStep, ReadStep, StopsStep
    <2>2. CASE UNCHANGED exampleVars
        <3>1. \A p \in Starts : FilesOf(p)' <=> FilesOf(p)
            BY <2>2 DEF FilesOf
        <3>2. FilesAtRest' <=> FilesAtRest
            BY <2>2 DEF FilesAtRest
        <3>3. PairFailsWhenDisturbed' <=> PairFailsWhenDisturbed
            BY <2>2 DEF PairFailsWhenDisturbed
        <3>4. Overlap(startPc') <=> Overlap(startPc)
            BY <2>2
        <3> QED
            BY <2>2, <3>1, <3>2, <3>3, <3>4 DEF PairInv
    <2> QED
        BY <2>1, <2>2 DEF Next
<1>3. PairInv => PairFailsWhenDisturbed
    BY DEF PairInv, PairFailsWhenDisturbed
<1> QED
    BY <1>1, <1>2, <1>3, PTL DEF Spec

=============================================================================
