----------------------------- MODULE RemoteCall -----------------------------
(***************************************************************************)
(* What a caller of src/src/client.rs may rely on when the server of       *)
(* src/src/server.rs is at the other end, whatever becomes of the streams  *)
(* between them: its request is taken up at most once, an answer it gets   *)
(* is the outcome of that one execution, and only an error of the client   *)
(* leaves open what the server has done or will still do.                  *)
(***************************************************************************)
CONSTANT Calls

VARIABLES
    execution, \* what the server has done about the request of each call
    outcome    \* what each call has returned

vars == <<execution, outcome>>

Init ==
    /\ execution = [c \in Calls |-> "none"]
    /\ outcome = [c \in Calls |-> "none"]

\* The request is refused: no such method, no such service.
Reject(c) ==
    /\ execution[c] = "none"
    /\ execution' = [execution EXCEPT ![c] = "rejected"]
    /\ UNCHANGED outcome

Begin(c) ==
    /\ execution[c] = "none"
    /\ execution' = [execution EXCEPT ![c] = "running"]
    /\ UNCHANGED outcome

End(c) ==
    /\ execution[c] = "running"
    /\ \E how \in {"ok", "error", "timeout", "panicked"} :
          execution' = [execution EXCEPT ![c] = how]
    /\ UNCHANGED outcome

\* The answers that what has been done allows.
AnswersTo(c) ==
    CASE execution[c] = "ok" -> {"ok"}
      [] execution[c] \in {"error", "timeout", "rejected"} -> {"rpc_failed"}
      [] OTHER -> {}

Return(c) ==
    /\ outcome[c] = "none"
    /\ \E o \in AnswersTo(c)
                \cup {"connection_closed", "timeout", "web_transport"} :
          outcome' = [outcome EXCEPT ![c] = o]
    /\ UNCHANGED execution

Next == \E c \in Calls : Reject(c) \/ Begin(c) \/ End(c) \/ Return(c)

Spec == Init /\ [][Next]_vars

=============================================================================
