----------------------------- MODULE MCPrograms -----------------------------
(* Programs with small widths and a choice of options, for TLC. *)
EXTENDS Programs

CONSTANTS k1, k2, f1, f2, n1, s1, s2, s3

TwoPromises == {f1, f2}
OneName     == {n1}
ThreeStarts == {s1, s2, s3}
SomePairs   == {k1, k2} \cup ThreeStarts

ServerOf(c, k, n, i) ==
    [addr |-> "ip:port", format |-> "protobuf", cert |-> c, key |-> k,
     streams |-> n, idle |-> i]
ClientOf(c, i, m, f) ==
    [addr |-> "ip:port", format |-> "json", ca |-> c, idle |-> i,
     method |-> m, input |-> f]

\* Half a millisecond to eight milliseconds; caps below, within and above.
SomeInitial == {0, 1, 2, 3, 6, 16}
SomeMax     == {0, 3, 9, 20, 100}
SomeRetries == {0, 1, 2, 4}

\* Good ones with each boundary of the numbers, and one for each other fault.
SomeServers ==
    {ServerOf(k1, k1, n, i) :
        n \in {1, MaxVarInt}, i \in {0, 1, MaxVarInt, MaxU64}}
    \cup {ServerOf(k1, k1, MaxU64, 1), ServerOf(k1, "empty", 1, 1),
          ServerOf(k1, "other", 1, 1), ServerOf("other", k1, 1, 1),
          ServerOf("empty", k1, 1, 1), ServerOf(k1, "torn", 1, 1),
          ServerOf("absent", k1, 1, 1), ServerOf(k1, k2, 1, 1)}
    \cup {[ServerOf(k1, k1, 1, 1) EXCEPT !.addr = a] : a \in Addresses}
    \cup {[ServerOf(k1, k1, 1, 1) EXCEPT !.format = f] : f \in Formats}

SomeClients ==
    {ClientOf("unset", i, m, "unset") :
        i \in {0, 1, MaxVarInt, MaxU64}, m \in BOOLEAN}
    \cup {ClientOf("der", 1, TRUE, "absent"),
          ClientOf("pem", 1, FALSE, "unset"),
          ClientOf("absent", 1, FALSE, "unset")}

SomeJsOptions ==
    {[o EXCEPT !.addr = a, !.format = f, !.idle = i] :
        o \in {[addr |-> "ip:port", format |-> "json", cert |-> c, key |-> k1,
                ca |-> ca, streams |-> MaxU64, idle |-> 0] :
                    c \in {"unset", k1}, ca \in {"unset", "pem"}},
        a \in {"ip:port", "ipv4"}, f \in {"json", "proto"},
        i \in {1, MaxU32 + 1, MaxU64}}

=============================================================================
