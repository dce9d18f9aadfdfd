----------------------------- MODULE RpcService -----------------------------
(***************************************************************************)
(* What the server of src/src/server.rs promises the clients behind its    *)
(* sessions and the program that registers services, without locks, tasks  *)
(* or transport: each session's requests are taken up one at a time in the *)
(* order they were sent, the registry is consulted at one instant, and     *)
(* each request is answered at most once before the next is taken up.      *)
(***************************************************************************)
EXTENDS Naturals, Sequences

CONSTANTS Names, Sessions, Malformed, Garbage

VARIABLES
    registered, \* the names that have a service
    sent,       \* the methods each client has asked for
    current,    \* what the request taken up by each session turned out to be
    replies,    \* the responses of each session
    over        \* the sessions that have ended

vars == <<registered, sent, current, replies, over>>

Init ==
    /\ registered = {}
    /\ sent = [s \in Sessions |-> <<>>]
    /\ current = [s \in Sessions |-> "none"]
    /\ replies = [s \in Sessions |-> <<>>]
    /\ over = {}

Register(n) ==
    /\ registered' = registered \cup {n}
    /\ UNCHANGED <<sent, current, replies, over>>

Ask(s) ==
    /\ \E m \in Names \cup {Malformed, Garbage} :
          sent' = [sent EXCEPT ![s] = Append(@, m)]
    /\ UNCHANGED <<registered, current, replies, over>>

Upcoming(s) == sent[s][Len(replies[s]) + 1]

Begin(s) ==
    /\ s \notin over
    /\ current[s] = "none"
    /\ Len(replies[s]) < Len(sent[s])
    /\ Upcoming(s) # Garbage
    /\ current' = [current EXCEPT ![s] =
            IF Upcoming(s) = Malformed THEN "malformed"
            ELSE IF Upcoming(s) \in registered THEN "found" ELSE "missing"]
    /\ UNCHANGED <<registered, sent, replies, over>>

\* The tags of the responses that a request may get.
TagsFor(kind) ==
    CASE kind = "malformed" -> {"invalid"}
      [] kind = "missing"   -> {"not_found"}
      [] kind = "found"     -> {"ok", "error", "timeout"}
      [] OTHER              -> {}

Answer(s) ==
    /\ s \notin over
    /\ \E tag \in TagsFor(current[s]) :
          replies' = [replies EXCEPT
            ![s] = Append(@, [id |-> Len(@) + 1, tag |-> tag])]
    /\ current' = [current EXCEPT ![s] = "none"]
    /\ UNCHANGED <<registered, sent, over>>

\* A session may end at any time, with a request in hand or not.
Stop(s) ==
    /\ s \notin over
    /\ over' = over \cup {s}
    /\ current' = [current EXCEPT ![s] = "none"]
    /\ UNCHANGED <<registered, sent, replies>>

Next ==
    \/ \E n \in Names : Register(n)
    \/ \E s \in Sessions : Ask(s) \/ Begin(s) \/ Answer(s) \/ Stop(s)

Spec == Init /\ [][Next]_vars

=============================================================================
