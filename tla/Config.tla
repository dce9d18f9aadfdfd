------------------------------- MODULE Config -------------------------------
(***************************************************************************)
(* Config of src/src/config.rs and the ways to it: what becomes of the     *)
(* options of a program before it has an endpoint.                         *)
(*                                                                         *)
(* A file is "unset" (no path is given), "absent", "torn" (it ends within  *)
(* a PEM section), "empty" (it has no PEM section), "other" (whole PEM     *)
(* sections, but none of those that are looked for: a key in PKCS#1 or     *)
(* SEC1 form, a certificate in place of a key or a key in place of a       *)
(* certificate) or has a member of Pairs: the certificate of that key pair *)
(* in one file, its key in PKCS#8 form in the other.  Building a           *)
(* configuration ends in "ok", in "error" (an Err that the program         *)
(* returns) or "panic".                                                    *)
(***************************************************************************)
EXTENDS Naturals

CONSTANTS
    Pairs,      \* key pairs, each a certificate with its private key
    MaxU32,     \* u32::MAX, what a number of the JavaScript options keeps
    MaxVarInt,  \* 2^62 - 1, the largest VarInt of QUIC
    MaxU64      \* u64::MAX, what a number of the command line keeps

ASSUME ConfigAssumption ==
    /\ {MaxU32, MaxVarInt, MaxU64} \subseteq Nat
    /\ MaxU32 < MaxVarInt /\ MaxVarInt < MaxU64
    /\ Pairs \cap {"unset", "absent", "torn", "empty", "other"} = {}

Files == Pairs \cup {"unset", "absent", "torn", "empty", "other"}

\* With and without a port.  A bare IPv6 address has colons and no port; a
\* host name is no SocketAddr.
Addresses == {"ip:port", "ipv4", "ipv6", "name"}
Formats   == {"protobuf", "json", "proto", "PROTOBUF", "other"}

\* str::parse::<SocketAddr>.
Parses(addr) == addr = "ip:port"

\* The default port is added to what has no colon.
parse_socket_addr(addr) == Parses(addr) \/ addr = "ipv4"

\* The lower case of a name is compared; the bindings compare the name.
parse_format(format) == format \in Formats \ {"other"}
JsFormat(format)     == format \in {"protobuf", "json"}

\* js_config_to_config: numbers are taken modulo 2^32.
JsNumber(n) == n % (MaxU32 + 1)

\* try_into().unwrap() does not panic.
ToVarInt(n) == n <= MaxVarInt

\* The certificate and the key of a server.  Both files are parsed, then the
\* first of the PKCS#8 keys is removed from a list that may be empty; rustls
\* refuses an empty chain and a key of another certificate.
LoadPair(cert, key) ==
    IF {cert, key} \cap {"unset", "absent", "torn"} # {} THEN "error"
    ELSE IF key \in {"empty", "other"} THEN "panic"
    ELSE IF cert = key THEN "ok" ELSE "error"

build_server_config(o) ==
    IF LoadPair(o.cert, o.key) # "ok" THEN LoadPair(o.cert, o.key)
    ELSE IF ToVarInt(o.idle) /\ ToVarInt(o.streams) THEN "ok" ELSE "panic"

\* The bytes of the CA file are taken for one DER certificate: a PEM file,
\* whatever its contents, is an error.
build_client_config(o) ==
    IF o.ca \notin {"unset", "der"} THEN "error"
    ELSE IF ToVarInt(o.idle) THEN "ok" ELSE "panic"

=============================================================================
