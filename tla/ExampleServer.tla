--------------------------- MODULE ExampleServer ---------------------------
(***************************************************************************)
(* The start of the example server of src/examples/rpc_server.rs: it looks *)
(* for its certificate and its key, generates both when one is missing,    *)
(* and serves with what it then reads.  The files outlive the programs     *)
(* that are started, which may be killed at any point, and may have been   *)
(* there before: scripts/generate_certificates.sh writes the same two.     *)
(***************************************************************************)
EXTENDS Config

CONSTANT
    Starts  \* starts of the program; each has a key pair that it generates

ASSUME StartsAssumption == Starts \subseteq Pairs

VARIABLES
    crt, key,   \* certs/server.crt and certs/server.key, as in Config
    startPc,    \* where each start is
    chain,      \* the certificate it has read
    unfit,      \* history: two files were there at first that do not do
    disturbed   \* history: a start was stopped while it wrote, by its end or
                \* an error, or another overlapped with it

exampleVars == <<crt, key, startPc, chain, unfit, disturbed>>

Writing  == {"create crt", "fill crt", "create key", "fill key"}
Starting == Writing \cup {"read crt", "read key"}

\* What anyone else may have put there.
FirstFiles == Files \ (Starts \cup {"unset"})

ExampleInit ==
    /\ crt \in FirstFiles
    /\ key \in FirstFiles
    /\ startPc = [p \in Starts |-> "idle"]
    /\ chain = [p \in Starts |-> "unset"]
    /\ unfit = ("absent" \notin {crt, key} /\ LoadPair(crt, key) # "ok")
    /\ disturbed = FALSE

\* One start writes while another writes or reads.
Overlap(pc) ==
    \E p, q \in Starts : p # q /\ pc[p] \in Writing /\ pc[q] \in Starting

Goes(p, to) ==
    /\ startPc' = [startPc EXCEPT ![p] = to]
    /\ disturbed' = (disturbed \/ Overlap(startPc'))
    /\ unfit' = unfit

-----------------------------------------------------------------------------
(* main and generate_self_signed_cert.                                     *)

\* Mutant of LookForFiles: only what is missing is generated.
LookForEachFile(p) ==
    /\ startPc[p] = "idle"
    /\ Goes(p, IF crt = "absent" THEN "create crt"
               ELSE IF key = "absent" THEN "create key" ELSE "read crt")
    /\ UNCHANGED <<crt, key, chain>>

LookForFiles(p) ==
    /\ startPc[p] = "idle"
    /\ Goes(p, IF "absent" \in {crt, key} THEN "create crt" ELSE "read crt")
    /\ UNCHANGED <<crt, key, chain>>

\* std::fs::write creates or truncates the file and then writes to it.
CreateCrt(p) ==
    /\ startPc[p] = "create crt"
    /\ crt' = "empty"
    /\ Goes(p, "fill crt")
    /\ UNCHANGED <<key, chain>>

FillCrt(p) ==
    /\ startPc[p] = "fill crt"
    /\ crt' = p
    /\ Goes(p, "create key")
    /\ UNCHANGED <<key, chain>>

CreateKey(p) ==
    /\ startPc[p] = "create key"
    /\ key' = "empty"
    /\ Goes(p, "fill key")
    /\ UNCHANGED <<crt, chain>>

FillKey(p) ==
    /\ startPc[p] = "fill key"
    /\ key' = p
    /\ Goes(p, "read crt")
    /\ UNCHANGED <<crt, chain>>

\* build_server_config, in Server::new.
ReadCrt(p) ==
    /\ startPc[p] = "read crt"
    /\ chain' = [chain EXCEPT ![p] = crt]
    /\ Goes(p, "read key")
    /\ UNCHANGED <<crt, key>>

\* The address is fixed: one program at a time can bind it.
ReadKey(p) ==
    /\ startPc[p] = "read key"
    /\ Goes(p, CASE LoadPair(chain[p], key) = "error" -> "failed"
                 [] LoadPair(chain[p], key) = "panic" -> "panicked"
                 [] OTHER -> IF \E q \in Starts : startPc[q] = "serving"
                             THEN "not bound" ELSE "serving")
    /\ UNCHANGED <<crt, key, chain>>

\* Perhaps in the middle of what it writes.
Stops(p, as) ==
    /\ crt' \in IF startPc[p] = "fill crt" THEN {crt, "torn"} ELSE {crt}
    /\ key' \in IF startPc[p] = "fill key" THEN {key, "torn"} ELSE {key}
    /\ startPc' = [startPc EXCEPT ![p] = as]
    /\ disturbed' = (disturbed \/ startPc[p] \in Writing)
    /\ UNCHANGED <<chain, unfit>>

\* The file cannot be created, or the disk is full: ? returns.
WriteFails(p) ==
    /\ startPc[p] \in Writing
    /\ Stops(p, "not written")

\* Killed, at any point.
Die(p) ==
    /\ startPc[p] \in Starting \cup {"serving"}
    /\ Stops(p, "dead")

ExampleNext ==
    \E p \in Starts :
        \/ LookForFiles(p)
        \/ CreateCrt(p) \/ FillCrt(p) \/ CreateKey(p) \/ FillKey(p)
        \/ ReadCrt(p) \/ ReadKey(p)
        \/ WriteFails(p) \/ Die(p)

-----------------------------------------------------------------------------
(* Properties.                                                             *)

\* Whichever files are there at first, one without the other or none too, a
\* start that gets to read them finds a certificate and a key that belong
\* together, unless both were there and do not, or a start was killed or
\* failed to write while it wrote them, or ran while another wrote: nothing
\* else can leave a pair that fails.
PairFailsWhenDisturbed ==
    \A p \in Starts :
        startPc[p] \in {"failed", "panicked"} => unfit \/ disturbed

=============================================================================
