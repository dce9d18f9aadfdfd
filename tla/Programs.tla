------------------------------ MODULE Programs ------------------------------
(***************************************************************************)
(* The programs that come with the library, and one that calls its         *)
(* retry_with_backoff, of which a run is one.  They share Config and       *)
(* nothing else.                                                           *)
(***************************************************************************)
EXTENDS CommandLine, NodeBinding, ExampleServer, RetryBackoff

VARIABLE program  \* the one that runs

programVars ==
    <<commandLineVars, nodeVars, exampleVars, retryVars, program>>

\* The files in certs matter to the example server only.
Init ==
    /\ program \in {"quicserve", "node", "rpc_server", "retry"}
    /\ CommandLineInit
    /\ NodeInit
    /\ ExampleInit
    /\ program # "rpc_server" => crt = "absent" /\ key = "absent"
    /\ RetryInit

Next ==
    /\ \/ /\ program = "quicserve"
          /\ CommandLineNext
          /\ UNCHANGED <<nodeVars, exampleVars, retryVars>>
       \/ /\ program = "node"
          /\ NodeNext
          /\ UNCHANGED <<commandLineVars, exampleVars, retryVars>>
       \/ /\ program = "rpc_server"
          /\ ExampleNext
          /\ UNCHANGED <<commandLineVars, nodeVars, retryVars>>
       \/ /\ program = "retry"
          /\ RetryNext
          /\ UNCHANGED <<commandLineVars, nodeVars, exampleVars>>
    /\ UNCHANGED program

Spec == Init /\ [][Next]_programVars /\ NodeFairness

=============================================================================
