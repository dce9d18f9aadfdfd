---------------------------- MODULE StreamProofs ----------------------------
(***************************************************************************)
(* Proofs about MessageStream: frames come out whole and in order, and the *)
(* stream is a queue of messages, for any messages, limits and buffers and *)
(* however the bytes are cut.                                              *)
(*                                                                         *)
(* The read buffer, the transport and the write buffer are taken as one    *)
(* pipe.  What bytes follow a byte in the pipe is said of all of them and  *)
(* not only of the next, so that no induction over the bytes is needed.    *)
(***************************************************************************)
EXTENDS MessageStream, SequenceTheorems, TLAPS

Bytes == [frame : Nat, at : Nat]

FrameLen(s, f) == HeaderLen + Size[s[f]]

\* A byte belongs to a frame that has been sent; the rest of its frame follows
\* it, as far as the pipe reaches, and then the next frame.
ChainAt(p, s, i) ==
    /\ p[i].frame \in 1 .. Len(s)
    /\ p[i].at \in 1 .. FrameLen(s, p[i].frame)
    /\ \A k \in 1 .. Len(p) - i :
        /\ p[i].at + k <= FrameLen(s, p[i].frame) =>
              p[i + k] = Byte(p[i].frame, p[i].at + k)
        /\ p[i].at + k = FrameLen(s, p[i].frame) + 1 =>
              p[i + k] = Byte(p[i].frame + 1, 1)

Chain(p, s) == \A i \in 1 .. Len(p) : ChainAt(p, s, i)

\* The frame of a byte is complete, and more follows unless it is the last
\* that was sent.
CompleteAt(p, s, i) ==
    LET rest == FrameLen(s, p[i].frame) - p[i].at
    IN  /\ rest <= Len(p) - i
        /\ rest = Len(p) - i => p[i].frame = Len(s)

Complete(p, s) == \A i \in 1 .. Len(p) : CompleteAt(p, s, i)

-----------------------------------------------------------------------------
(* Sequences of bytes.                                                     *)

LEMMA DropBytes ==
    ASSUME NEW p \in Seq(Bytes), NEW n \in 0 .. Len(p)
    PROVE  /\ Drop(p, n) \in Seq(Bytes)
           /\ Len(Drop(p, n)) = Len(p) - n
           /\ \A i \in 1 .. Len(p) - n : Drop(p, n)[i] = p[i + n]
<1>1. /\ n + 1 \in Int /\ Len(p) \in Int
      /\ \A i \in n + 1 .. Len(p) : p[i] \in Bytes
    OBVIOUS
<1>2. /\ SubSeq(p, n + 1, Len(p)) \in Seq(Bytes)
      /\ Len(SubSeq(p, n + 1, Len(p))) =
            IF n + 1 <= Len(p) THEN Len(p) - (n + 1) + 1 ELSE 0
      /\ \A i \in 1 .. Len(p) - (n + 1) + 1 :
            SubSeq(p, n + 1, Len(p))[i] = p[(n + 1) + i - 1]
    BY <1>1, SubSeqProperties
<1> QED
    BY <1>2 DEF Drop

LEMMA TakeBytes ==
    ASSUME NEW p \in Seq(Bytes), NEW n \in 0 .. Len(p)
    PROVE  /\ Take(p, n) \in Seq(Bytes)
           /\ Len(Take(p, n)) = n
           /\ \A i \in 1 .. n : Take(p, n)[i] = p[i]
<1>1. \A i \in 1 .. n : p[i] \in Bytes
    OBVIOUS
<1>2. /\ SubSeq(p, 1, n) \in Seq(Bytes)
      /\ Len(SubSeq(p, 1, n)) = IF 1 <= n THEN n - 1 + 1 ELSE 0
      /\ \A i \in 1 .. n - 1 + 1 : SubSeq(p, 1, n)[i] = p[1 + i - 1]
    BY <1>1, SubSeqProperties
<1> QED
    BY <1>2 DEF Take

\* Concatenation by a name, which the provers need not look behind.
Cat(p, q) == p \o q

LEMMA Associate ==
    \A p, q, r \in Seq(Bytes) :
        /\ Cat(p, q) \in Seq(Bytes)
        /\ Cat(p, Cat(q, r)) = Cat(Cat(p, q), r)
<1> TAKE p, q, r \in Seq(Bytes)
<1>1. p \o q \in Seq(Bytes)
    OBVIOUS
<1>2. p \o (q \o r) = (p \o q) \o r
    BY ConcatAssociative
<1> QED
    BY <1>1, <1>2 DEF Cat

\* Bytes that move from one buffer to the next stay where they are in the
\* pipe.
LEMMA MoveBytes ==
    ASSUME NEW p \in Seq(Bytes), NEW q \in Seq(Bytes), NEW n \in 0 .. Len(q)
    PROVE  (p \o Take(q, n)) \o Drop(q, n) = p \o q
<1> DEFINE a == Take(q, n)
           b == Drop(q, n)
<1>1. /\ a \in Seq(Bytes) /\ b \in Seq(Bytes)
      /\ Len(a) = n /\ Len(b) = Len(q) - n
      /\ \A i \in 1 .. n : a[i] = q[i]
      /\ \A i \in 1 .. Len(q) - n : b[i] = q[i + n]
    BY TakeBytes, DropBytes
<1> HIDE DEF a, b
<1>2. a \o b = q
    <2>1. /\ a \o b \in Seq(Bytes)
          /\ Len(a \o b) = Len(q)
          /\ \A i \in 1 .. Len(q) :
                (a \o b)[i] = IF i <= n THEN a[i] ELSE b[i - n]
        BY <1>1, ConcatProperties
    <2>2. \A i \in 1 .. Len(q) : (a \o b)[i] = q[i]
        BY <1>1, <2>1
    <2> QED
        BY <2>1, <2>2, SeqEqual
<1>3. (p \o a) \o b = p \o (a \o b)
    <2>1. Cat(Cat(p, a), b) = Cat(p, Cat(a, b))
        BY <1>1, Associate
    <2> QED
        BY <2>1 DEF Cat
<1> QED
    BY <1>2, <1>3 DEF a, b

\* The first bytes of a pipe are those of its first part.
LEMMA FirstPart ==
    ASSUME NEW p \in Seq(Bytes), NEW q \in Seq(Bytes), NEW n \in 0 .. Len(p)
    PROVE  /\ p \o q \in Seq(Bytes)
           /\ Len(p \o q) = Len(p) + Len(q)
           /\ \A i \in 1 .. Len(p) : (p \o q)[i] = p[i]
           /\ Drop(p, n) \o q = Drop(p \o q, n)
<1> DEFINE a == p \o q
           b == Drop(p, n)
           c == Drop(a, n)
           d == b \o q
<1>1. /\ a \in Seq(Bytes)
      /\ Len(a) = Len(p) + Len(q)
      /\ \A i \in 1 .. Len(p) + Len(q) :
            a[i] = IF i <= Len(p) THEN p[i] ELSE q[i - Len(p)]
    BY ConcatProperties
<1>2. /\ b \in Seq(Bytes) /\ Len(b) = Len(p) - n
      /\ \A i \in 1 .. Len(p) - n : b[i] = p[i + n]
    BY DropBytes
<1>3. Len(p) \in Nat /\ Len(q) \in Nat
    OBVIOUS
<1> HIDE DEF a, b
<1>4. n \in 0 .. Len(a)
    BY <1>1, <1>3
<1>5. /\ c \in Seq(Bytes) /\ Len(c) = Len(a) - n
      /\ \A i \in 1 .. Len(a) - n : c[i] = a[i + n]
    BY <1>1, <1>4, DropBytes
<1>6. /\ d \in Seq(Bytes) /\ Len(d) = Len(b) + Len(q)
      /\ \A i \in 1 .. Len(b) + Len(q) :
            d[i] = IF i <= Len(b) THEN b[i] ELSE q[i - Len(b)]
    BY <1>2, ConcatProperties
<1> HIDE DEF c, d
<1>7. Len(d) = Len(c)
    BY <1>1, <1>2, <1>3, <1>5, <1>6
<1>8. \A i \in 1 .. Len(d) : d[i] = c[i]
    <2> TAKE i \in 1 .. Len(d)
    <2>1. c[i] = a[i + n] /\ i + n \in 1 .. Len(p) + Len(q)
        BY <1>1, <1>2, <1>3, <1>5, <1>6
    <2>2. CASE i <= Len(b)
        BY <1>1, <1>2, <1>3, <1>6, <2>1, <2>2
    <2>3. CASE ~ (i <= Len(b))
        <3>1. d[i] = q[i - Len(b)] /\ ~ (i + n <= Len(p))
            BY <1>2, <1>3, <1>6, <2>3
        <3>2. i - Len(b) = (i + n) - Len(p)
            BY <1>2, <1>3
        <3> QED
            BY <1>1, <2>1, <3>1, <3>2
    <2> QED
        BY <2>2, <2>3
<1>9. d = c
    BY <1>5, <1>6, <1>7, <1>8, SeqEqual
<1>10. \A i \in 1 .. Len(p) : a[i] = p[i]
    BY <1>1, <1>3
<1> QED
    BY <1>1, <1>9, <1>10 DEF a, b, c, d

LEMMA FrameBytes ==
    ASSUME NEW f \in Nat, NEW m \in Messages
    PROVE  /\ HeaderLen \in Nat \ {0} /\ Size[m] \in Nat
           /\ Frame(f, m) \in Seq(Bytes)
           /\ Len(Frame(f, m)) = HeaderLen + Size[m]
           /\ \A k \in 1 .. HeaderLen + Size[m] : Frame(f, m)[k] = Byte(f, k)
<1> DEFINE n == HeaderLen + Size[m]
<1>1. HeaderLen \in Nat \ {0} /\ Size[m] \in Nat
    BY StreamAssumption
<1>2. n \in Nat
    BY <1>1
<1>3. Frame(f, m) = [k \in 1 .. n |-> Byte(f, k)]
    BY DEF Frame
<1> HIDE DEF n
<1>4. \A k \in 1 .. n : Byte(f, k) \in Bytes
    BY <1>2 DEF Byte, Bytes
<1>5. Frame(f, m) \in Seq(Bytes) /\ Len(Frame(f, m)) = n
    BY <1>2, <1>3, <1>4
<1> QED
    BY <1>1, <1>3, <1>5 DEF n

-----------------------------------------------------------------------------
(* Chains.                                                                 *)

LEMMA ChainDrop ==
    ASSUME NEW p \in Seq(Bytes), NEW s, NEW n \in 0 .. Len(p), Chain(p, s)
    PROVE  Chain(Drop(p, n), s)
<1> DEFINE d == Drop(p, n)
<1>1. /\ Len(p) \in Nat /\ n \in Nat
      /\ Len(d) = Len(p) - n
      /\ \A i \in 1 .. Len(p) - n : d[i] = p[i + n]
    <2>1. Len(p) \in Nat /\ n \in Nat
        OBVIOUS
    <2>2. Len(d) = Len(p) - n
        BY DropBytes
    <2>3. \A i \in 1 .. Len(p) - n : d[i] = p[i + n]
        BY DropBytes
    <2> QED
        BY <2>1, <2>2, <2>3
<1> HIDE DEF d
<1>2. ASSUME NEW i \in 1 .. Len(d)
      PROVE  ChainAt(d, s, i)
    <2>1. PICK j \in 1 .. Len(p) : j = i + n
        BY <1>1
    <2>2. d[i] = p[j] /\ Len(d) - i = Len(p) - j
        BY <1>1, <2>1
    <2>3. \A k \in 1 .. Len(p) - j : d[i + k] = p[j + k]
        <3> TAKE k \in 1 .. Len(p) - j
        <3>1. i + k \in 1 .. Len(p) - n /\ (i + k) + n = j + k
            BY <1>1, <2>1
        <3> QED
            BY <1>1, <3>1
    <2>4. ChainAt(p, s, j)
        BY DEF Chain
    <2> QED
        BY <2>2, <2>3, <2>4 DEF ChainAt
<1>3. Chain(d, s)
    BY <1>2 DEF Chain
<1> QED
    BY <1>3 DEF d

\* The end of the pipe may be lost.
LEMMA ChainPrefix ==
    ASSUME NEW p \in Seq(Bytes), NEW q \in Seq(Bytes), NEW s, Chain(p, s),
           Len(q) <= Len(p), \A i \in 1 .. Len(q) : q[i] = p[i]
    PROVE  Chain(q, s)
<1>1. Len(p) \in Nat /\ Len(q) \in Nat
    OBVIOUS
<1>2. ASSUME NEW i \in 1 .. Len(q)
      PROVE  ChainAt(q, s, i)
    <2>1. i \in 1 .. Len(p) /\ q[i] = p[i]
        BY <1>1
    <2>2. \A k \in 1 .. Len(q) - i :
            k \in 1 .. Len(p) - i /\ q[i + k] = p[i + k]
        BY <1>1
    <2> QED
        BY <2>1, <2>2 DEF Chain, ChainAt
<1> QED
    BY <1>2 DEF Chain

LEMMA CompleteDrop ==
    ASSUME NEW p \in Seq(Bytes), NEW s, NEW n \in 0 .. Len(p), Complete(p, s)
    PROVE  Complete(Drop(p, n), s)
<1> DEFINE d == Drop(p, n)
<1>1. /\ Len(p) \in Nat /\ n \in Nat
      /\ Len(d) = Len(p) - n
      /\ \A i \in 1 .. Len(p) - n : d[i] = p[i + n]
    <2>1. Len(p) \in Nat /\ n \in Nat
        OBVIOUS
    <2>2. Len(d) = Len(p) - n
        BY DropBytes
    <2>3. \A i \in 1 .. Len(p) - n : d[i] = p[i + n]
        BY DropBytes
    <2> QED
        BY <2>1, <2>2, <2>3
<1> HIDE DEF d
<1>2. ASSUME NEW i \in 1 .. Len(d)
      PROVE  CompleteAt(d, s, i)
    <2>1. PICK j \in 1 .. Len(p) : j = i + n
        BY <1>1
    <2>2. d[i] = p[j] /\ Len(d) - i = Len(p) - j
        BY <1>1, <2>1
    <2> QED
        BY <2>2 DEF Complete, CompleteAt
<1>3. Complete(d, s)
    BY <1>2 DEF Complete
<1> QED
    BY <1>3 DEF d

\* A frame more, at the end of a pipe with nothing missing.
LEMMA ChainAppend ==
    ASSUME NEW p \in Seq(Bytes), NEW s \in Seq(Messages), NEW m \in Messages,
           Chain(p, s), Complete(p, s)
    PROVE  LET q == p \o Frame(Len(s) + 1, m)
               t == Append(s, m)
           IN  /\ q \in Seq(Bytes)
               /\ Len(q) > Len(p)
               /\ \A i \in 1 .. Len(p) : q[i] = p[i]
               /\ q[Len(p) + 1] = Byte(Len(s) + 1, 1)
               /\ Chain(q, t)
               /\ Complete(q, t)
<1> DEFINE f == Len(s) + 1
           n == HeaderLen + Size[m]
           q == p \o Frame(f, m)
           t == Append(s, m)
<1>1. /\ Len(s) \in Nat /\ Len(p) \in Nat /\ f \in Nat /\ f = Len(s) + 1
      /\ Len(t) = f /\ t[f] = m /\ \A j \in 1 .. Len(s) : t[j] = s[j]
    OBVIOUS
<1>2. /\ Frame(f, m) \in Seq(Bytes) /\ Len(Frame(f, m)) = n /\ n \in Nat \ {0}
      /\ \A k \in 1 .. n : Frame(f, m)[k] = Byte(f, k)
    <2>1. /\ HeaderLen \in Nat \ {0} /\ Size[m] \in Nat
          /\ Frame(f, m) \in Seq(Bytes)
          /\ Len(Frame(f, m)) = HeaderLen + Size[m]
          /\ \A k \in 1 .. HeaderLen + Size[m] : Frame(f, m)[k] = Byte(f, k)
        <3> HIDE DEF f
        <3> QED
            BY <1>1, FrameBytes
    <2>2. n \in Nat \ {0}
        BY <2>1
    <2> QED
        BY <2>1, <2>2
<1>3. /\ FrameLen(t, f) = n
      /\ \A j \in 1 .. Len(s) : FrameLen(t, j) = FrameLen(s, j)
    BY <1>1 DEF FrameLen
<1> HIDE DEF f, n, t
<1>4. /\ q \in Seq(Bytes) /\ Len(q) = Len(p) + n
      /\ \A i \in 1 .. Len(p) + n :
            q[i] = IF i <= Len(p) THEN p[i] ELSE Frame(f, m)[i - Len(p)]
    BY <1>2, ConcatProperties
<1> HIDE DEF q
<1>5. \A i \in 1 .. Len(p) : q[i] = p[i]
    BY <1>1, <1>2, <1>4
<1>6. \A i \in 1 .. Len(q) : ~ (i <= Len(p)) => q[i] = Byte(f, i - Len(p))
    BY <1>1, <1>2, <1>4
<1>7. ASSUME NEW i \in 1 .. Len(p)
      PROVE  ChainAt(q, t, i) /\ CompleteAt(q, t, i)
    <2> DEFINE a == p[i].at
               g == p[i].frame
               l == FrameLen(s, g)
    <2>1. g \in 1 .. Len(s) /\ a \in 1 .. l /\ p[i] \in Bytes
        BY DEF Chain, ChainAt
    <2>2. l \in Nat /\ a \in Nat
        <3>1. s[g] \in Messages
            BY <2>1
        <3>2. Size[s[g]] \in Nat /\ HeaderLen \in Nat
            BY <3>1, StreamAssumption
        <3> QED
            BY <2>1, <3>2 DEF FrameLen, Bytes
    <2>3. /\ \A k \in 1 .. Len(p) - i :
                /\ a + k <= l => p[i + k] = Byte(g, a + k)
                /\ a + k = l + 1 => p[i + k] = Byte(g + 1, 1)
          /\ l - a <= Len(p) - i
          /\ l - a = Len(p) - i => g = Len(s)
        BY DEF Chain, ChainAt, Complete, CompleteAt
    <2>4. q[i].at = a /\ q[i].frame = g /\ FrameLen(t, g) = l
        BY <1>3, <1>5, <2>1
    <2> HIDE DEF a, g, l
    <2>5. ASSUME NEW k \in 1 .. Len(q) - i
          PROVE  /\ a + k <= l => q[i + k] = Byte(g, a + k)
                 /\ a + k = l + 1 => q[i + k] = Byte(g + 1, 1)
        <3>1. CASE k <= Len(p) - i
            <4>1. k \in 1 .. Len(p) - i /\ i + k \in 1 .. Len(p)
                BY <1>1, <3>1
            <4> QED
                BY <1>5, <2>3, <4>1
        <3>2. CASE ~ (k <= Len(p) - i)
            <4>1. i + k \in 1 .. Len(q) /\ ~ (i + k <= Len(p))
                BY <1>1, <1>2, <1>4, <3>2
            <4>2. q[i + k] = Byte(f, (i + k) - Len(p))
                BY <1>6, <4>1
            <4>3. ~ (a + k <= l)
                BY <1>1, <2>2, <2>3, <3>2
            <4>4. ASSUME a + k = l + 1
                  PROVE  (i + k) - Len(p) = 1 /\ g + 1 = f
                <5>1. l - a <= Len(p) - i /\ k \in Int
                    BY <2>3
                <5>2. l - a = k - 1 /\ k - 1 = Len(p) - i
                    BY <1>1, <2>2, <3>2, <4>4, <5>1
                <5>3. g = Len(s)
                    BY <2>3, <5>2
                <5>4. (i + k) - Len(p) = 1
                    BY <1>1, <5>1, <5>2
                <5> QED
                    BY <1>1, <5>3, <5>4
            <4> QED
                BY <4>2, <4>3, <4>4
        <3> QED
            BY <3>1, <3>2
    <2>6. l - a < Len(q) - i /\ l - a \in Int /\ Len(q) - i \in Int
        BY <1>1, <1>2, <1>4, <2>2, <2>3
    <2>7. CompleteAt(q, t, i)
        <3>1. l - a <= Len(q) - i /\ l - a # Len(q) - i
            BY <2>6
        <3> QED
            BY <2>4, <3>1 DEF CompleteAt
    <2>8. ChainAt(q, t, i)
        <3>1. g \in 1 .. Len(t)
            BY <1>1, <2>1
        <3> QED
            BY <2>1, <2>4, <2>5, <3>1 DEF ChainAt
    <2> QED
        BY <2>7, <2>8
<1>8. ASSUME NEW i \in 1 .. Len(q), ~ (i <= Len(p))
      PROVE  ChainAt(q, t, i) /\ CompleteAt(q, t, i)
    <2> DEFINE a == i - Len(p)
    <2>1. a \in 1 .. n /\ a = i - Len(p)
        BY <1>1, <1>2, <1>4, <1>8
    <2>2. q[i].frame = f /\ q[i].at = a
        <3>1. q[i] = Byte(f, a)
            BY <1>6, <1>8
        <3> HIDE DEF a
        <3> QED
            BY <3>1 DEF Byte
    <2> HIDE DEF a
    <2>3. ASSUME NEW k \in 1 .. Len(q) - i
          PROVE  q[i + k] = Byte(f, a + k) /\ a + k # n + 1
        <3>1. /\ i + k \in 1 .. Len(q) /\ ~ (i + k <= Len(p))
              /\ (i + k) - Len(p) = a + k
              /\ a + k # n + 1
            BY <1>1, <1>2, <1>4, <1>8, <2>1
        <3> QED
            BY <1>6, <3>1
    <2>4. n - a = Len(q) - i /\ Len(q) - i \in Nat
        BY <1>1, <1>2, <1>4, <2>1
    <2>5. f \in 1 .. Len(t)
        BY <1>1
    <2>6. ChainAt(q, t, i)
        BY <1>3, <2>1, <2>2, <2>3, <2>5 DEF ChainAt
    <2>7. CompleteAt(q, t, i)
        BY <1>1, <1>3, <2>2, <2>4 DEF CompleteAt
    <2> QED
        BY <2>6, <2>7
<1>9. \A i \in 1 .. Len(q) : i <= Len(p) => i \in 1 .. Len(p)
    BY <1>1
<1>10. Chain(q, t) /\ Complete(q, t)
    BY <1>7, <1>8, <1>9 DEF Chain, Complete
<1>11. Len(q) > Len(p) /\ q[Len(p) + 1] = Byte(f, 1)
    <2>1. Len(p) + 1 \in 1 .. Len(q) /\ ~ (Len(p) + 1 <= Len(p))
          /\ (Len(p) + 1) - Len(p) = 1
        BY <1>1, <1>2, <1>4
    <2>2. q[Len(p) + 1] = Byte(f, (Len(p) + 1) - Len(p))
        BY <1>6, <2>1
    <2> QED
        BY <1>1, <1>2, <1>4, <2>1, <2>2
<1> QED
    BY <1>4, <1>5, <1>10, <1>11 DEF q, t, f

-----------------------------------------------------------------------------
(* The invariant.                                                          *)

Pipe == rbuf \o (wire \o wbuf)

StreamType ==
    /\ sent \in Seq(Messages)
    /\ rbuf \in Seq(Bytes) /\ wire \in Seq(Bytes) /\ wbuf \in Seq(Bytes)
    /\ received \in Seq(Seq(Bytes))
    /\ need \in Nat \cup {NoHeader}
    /\ finished \in BOOLEAN

\* The byte that the decoder waits for.
Expected ==
    IF need = NoHeader THEN Byte(Len(received) + 1, 1)
    ELSE IF need = 0 THEN Byte(Len(received) + 2, 1)
    ELSE Byte(Len(received) + 1, HeaderLen + 1)

\* The length that it has read is that of the next message.
HeaderIsNext ==
    need # NoHeader =>
        /\ Len(received) + 1 \in 1 .. Len(sent)
        /\ need = Size[sent[Len(received) + 1]]
        /\ need <= MaxFrameLength

\* If the pipe is empty, all that was sent has been received.
EmptyIsDone ==
    Len(Pipe) = 0 =>
        IF need = NoHeader THEN Len(received) = Len(sent)
        ELSE need = 0 /\ Len(received) + 1 = Len(sent)

StreamInv ==
    /\ StreamType
    /\ Chain(Pipe, sent)
    /\ Len(Pipe) > 0 => Pipe[1] = Expected
    /\ HeaderIsNext
    /\ ~ finished => Complete(Pipe, sent) /\ EmptyIsDone
    /\ FramesIntact
    /\ WithinLimit

LEMMA PipeType ==
    ASSUME StreamType
    PROVE  /\ Pipe \in Seq(Bytes) /\ Len(Pipe) \in Nat
           /\ wire \o wbuf \in Seq(Bytes)
           /\ Len(wire) \in Nat /\ Len(wbuf) \in Nat /\ Len(rbuf) \in Nat
           /\ Len(sent) \in Nat /\ Len(received) \in Nat
BY DEF StreamType, Pipe

LEMMA StreamInit == Init => StreamInv
<1> SUFFICES ASSUME Init PROVE StreamInv
    OBVIOUS
<1>1. StreamType
    <2>1. << >> \in Seq(Bytes) /\ << >> \in Seq(Messages)
          /\ << >> \in Seq(Seq(Bytes))
        BY EmptySeq
    <2> QED
        BY <2>1 DEF Init, StreamType
<1>2. Len(Pipe) = 0
    BY DEF Init, Pipe
<1> QED
    BY <1>1, <1>2 DEF Init, StreamInv, Chain, Complete, HeaderIsNext,
        EmptyIsDone, FramesIntact, WithinLimit

\* Steps that leave the pipe as it is.
LEMMA PipeStays ==
    ASSUME StreamInv, StreamType', Pipe' = Pipe,
           UNCHANGED <<sent, need, received, finished>>
    PROVE  StreamInv'
BY DEF StreamInv, Expected, HeaderIsNext, EmptyIsDone, FramesIntact,
    WithinLimit, Payload

\* Steps that lose the end of it.
LEMMA PipeEnds ==
    ASSUME StreamInv, StreamType', finished',
           Len(Pipe') <= Len(Pipe),
           \A i \in 1 .. Len(Pipe') : Pipe'[i] = Pipe[i],
           UNCHANGED <<sent, need, received>>
    PROVE  StreamInv'
<1>1. Pipe \in Seq(Bytes) /\ Pipe' \in Seq(Bytes)
    BY PipeType DEF StreamInv, StreamType, Pipe
<1>2. Chain(Pipe', sent)
    BY <1>1, ChainPrefix DEF StreamInv
<1>3. Len(Pipe') > 0 => Len(Pipe) > 0 /\ Pipe'[1] = Pipe[1]
    BY <1>1
<1> QED
    BY <1>2, <1>3 DEF StreamInv, Expected, HeaderIsNext, FramesIntact,
        WithinLimit, Payload

\* Bytes behind the write buffer are behind the pipe.
LEMMA PipeGrows ==
    ASSUME StreamType, NEW g \in Seq(Bytes)
    PROVE  Cat(rbuf, Cat(wire, Cat(wbuf, g))) = Cat(Pipe, g)
<1>1. rbuf \in Seq(Bytes) /\ wire \in Seq(Bytes) /\ wbuf \in Seq(Bytes)
    BY DEF StreamType
<1>2. Cat(wire, Cat(wbuf, g)) = Cat(Cat(wire, wbuf), g)
    BY <1>1, Associate
<1>3. Cat(wire, wbuf) \in Seq(Bytes)
    BY <1>1, Associate
<1>4. Cat(rbuf, Cat(Cat(wire, wbuf), g)) = Cat(Cat(rbuf, Cat(wire, wbuf)), g)
    BY <1>1, <1>3, Associate
<1>5. Pipe = Cat(rbuf, Cat(wire, wbuf))
    BY DEF Pipe, Cat
<1> QED
    BY <1>2, <1>4, <1>5

LEMMA EncodeStep ==
    ASSUME StreamInv, NEW m \in Messages, ~ finished, Encode(m),
           UNCHANGED <<wire, rbuf, need, received, finished>>
    PROVE  StreamInv'
<1> DEFINE f == Frame(Len(sent) + 1, m)
           q == Pipe \o f
<1>1. /\ Pipe \in Seq(Bytes) /\ Len(Pipe) \in Nat
      /\ wire \o wbuf \in Seq(Bytes)
      /\ Len(sent) \in Nat /\ Len(received) \in Nat
    BY PipeType DEF StreamInv
<1>2. f \in Seq(Bytes)
    <2>1. Len(sent) + 1 \in Nat
        BY <1>1
    <2> QED
        BY <2>1, FrameBytes
<1>3. /\ sent' = Append(sent, m) /\ sent' \in Seq(Messages)
      /\ Len(sent') = Len(sent) + 1
      /\ \A i \in 1 .. Len(sent) : sent'[i] = sent[i]
    BY DEF Encode, StreamInv, StreamType
<1>4. wbuf' = wbuf \o f
    BY <1>3 DEF Encode
<1> HIDE DEF f
<1>5. StreamType'
    BY <1>2, <1>3, <1>4 DEF StreamInv, StreamType
<1>6. Pipe' = q
    <2>1. StreamType
        BY DEF StreamInv
    <2>2. Cat(rbuf, Cat(wire, Cat(wbuf, f))) = Cat(Pipe, f)
        BY <1>2, <2>1, PipeGrows
    <2>3. Pipe' = Cat(rbuf, Cat(wire, Cat(wbuf, f)))
        BY <1>4 DEF Pipe, Cat
    <2>4. q = Cat(Pipe, f)
        BY DEF Cat
    <2> QED
        BY <2>2, <2>3, <2>4
<1>7. /\ Len(q) > Len(Pipe) /\ q \in Seq(Bytes)
      /\ \A i \in 1 .. Len(Pipe) : q[i] = Pipe[i]
      /\ q[Len(Pipe) + 1] = Byte(Len(sent) + 1, 1)
      /\ Chain(q, sent') /\ Complete(q, sent')
    <2>1. sent \in Seq(Messages) /\ Chain(Pipe, sent) /\ Complete(Pipe, sent)
        BY DEF StreamInv, StreamType
    <2> QED
        BY <1>1, <1>3, <2>1, ChainAppend DEF f
<1> HIDE DEF q
<1>8. q[1] = Expected
    <2>1. CASE Len(Pipe) > 0
        BY <1>1, <1>7, <2>1 DEF StreamInv
    <2>2. CASE Len(Pipe) = 0
        <3>1. q[1] = Byte(Len(sent) + 1, 1)
            BY <1>7, <2>2
        <3>2. EmptyIsDone
            BY DEF StreamInv
        <3> QED
            BY <1>1, <2>2, <3>1, <3>2 DEF EmptyIsDone, Expected
    <2> QED
        BY <1>1, <2>1, <2>2
<1>9. HeaderIsNext'
    BY <1>1, <1>3 DEF StreamInv, HeaderIsNext
<1>10. Len(q) # 0
    BY <1>1, <1>7
<1>11. FramesIntact'
    <2>1. FramesIntact
        BY DEF StreamInv
    <2>2. ASSUME NEW i \in 1 .. Len(received) PROVE Payload(i)' = Payload(i)
        <3>1. i \in 1 .. Len(sent)
            BY <1>1, <2>1 DEF FramesIntact
        <3> QED
            BY <1>3, <3>1 DEF Payload
    <2> QED
        BY <1>1, <1>3, <2>1, <2>2 DEF FramesIntact
<1>12. WithinLimit'
    BY DEF StreamInv, WithinLimit
<1>13. Expected' = Expected
    BY DEF Expected
<1> QED
    BY <1>5, <1>6, <1>7, <1>8, <1>9, <1>10, <1>11, <1>12, <1>13
    DEF StreamInv, EmptyIsDone

LEMMA DecodeHeadStep == StreamInv /\ DecodeHead => StreamInv'
<1> SUFFICES ASSUME StreamInv, DecodeHead PROVE StreamInv'
    OBVIOUS
<1> DEFINE r == Len(received)
           n == Size[sent[rbuf[1].frame]]
<1>1. /\ Pipe \in Seq(Bytes) /\ Len(Pipe) \in Nat
      /\ wire \o wbuf \in Seq(Bytes)
      /\ rbuf \in Seq(Bytes) /\ Len(rbuf) \in Nat
      /\ Len(sent) \in Nat /\ Len(received) \in Nat
      /\ HeaderLen \in Nat \ {0} /\ NoHeader \notin Nat
    BY PipeType, StreamAssumption DEF StreamInv, StreamType
<1>2. need = NoHeader /\ HeaderLen \in 0 .. Len(rbuf) /\ 1 \in 1 .. Len(rbuf)
    BY <1>1 DEF DecodeHead, HasHeader
<1>3. CASE n > MaxFrameLength
    <2>1. UNCHANGED <<rbuf, need, received, wire, wbuf, sent, finished>>
        BY <1>3 DEF DecodeHead, sender
    <2> QED
        BY <2>1, PipeStays DEF StreamInv, StreamType, Pipe
<1>4. CASE ~ (n > MaxFrameLength)
    <2>1. /\ need' = n /\ rbuf' = Drop(rbuf, HeaderLen)
          /\ UNCHANGED <<received, wire, wbuf, sent, finished>>
        BY <1>4 DEF DecodeHead, sender
    <2>2. /\ Len(Pipe) = Len(rbuf) + Len(wire \o wbuf)
          /\ \A i \in 1 .. Len(rbuf) : Pipe[i] = rbuf[i]
          /\ Pipe' = Drop(Pipe, HeaderLen)
        BY <1>1, <1>2, <2>1, FirstPart DEF Pipe
    <2>3. HeaderLen \in 0 .. Len(Pipe) /\ 1 \in 1 .. Len(Pipe)
        BY <1>1, <1>2, <2>2
    <2>4. rbuf[1] = Byte(r + 1, 1) /\ Pipe[1] = Byte(r + 1, 1)
        BY <1>2, <2>2, <2>3 DEF StreamInv, Expected
    <2>5. Pipe[1].frame = r + 1 /\ Pipe[1].at = 1 /\ n = Size[sent[r + 1]]
        BY <2>4 DEF Byte
    <2>6. ChainAt(Pipe, sent, 1)
        BY <2>3 DEF StreamInv, Chain
    <2>7. r + 1 \in 1 .. Len(sent)
        BY <2>5, <2>6 DEF ChainAt
    <2>8. /\ n \in Nat /\ n <= MaxFrameLength
          /\ FrameLen(sent, r + 1) = HeaderLen + n
        BY <1>4, <2>5, <2>7, StreamAssumption
        DEF StreamInv, StreamType, FrameLen
    <2> HIDE DEF n
    <2>9. /\ Pipe' \in Seq(Bytes) /\ Len(Pipe') = Len(Pipe) - HeaderLen
          /\ \A i \in 1 .. Len(Pipe) - HeaderLen :
                Pipe'[i] = Pipe[i + HeaderLen]
        BY <1>1, <2>2, <2>3, DropBytes
    <2>10. StreamType'
        <3>1. rbuf' \in Seq(Bytes)
            BY <1>1, <1>2, <2>1, DropBytes
        <3> QED
            BY <2>1, <2>8, <3>1 DEF StreamInv, StreamType
    <2>11. Chain(Pipe, sent)'
        BY <1>1, <2>1, <2>2, <2>3, ChainDrop DEF StreamInv
    <2>12. Len(Pipe') > 0 => Pipe'[1] = Expected'
        <3> SUFFICES ASSUME Len(Pipe') > 0 PROVE Pipe'[1] = Expected'
            OBVIOUS
        <3>1. /\ HeaderLen \in 1 .. Len(Pipe) - 1
              /\ Pipe'[1] = Pipe[1 + HeaderLen]
            BY <1>1, <2>3, <2>9
        <3>2. CASE n = 0
            <4>1. /\ 1 + HeaderLen = FrameLen(sent, r + 1) + 1
                  /\ (r + 1) + 1 = r + 2
                BY <1>1, <2>8, <3>2
            <4>2. Pipe[1 + HeaderLen] = Byte((r + 1) + 1, 1)
                BY <2>5, <2>6, <3>1, <4>1 DEF ChainAt
            <4> QED
                BY <1>1, <2>1, <3>1, <3>2, <4>1, <4>2 DEF Expected
        <3>3. CASE n # 0
            <4>1. 1 + HeaderLen <= FrameLen(sent, r + 1)
                BY <1>1, <2>8, <3>3
            <4>2. Pipe[1 + HeaderLen] = Byte(r + 1, 1 + HeaderLen)
                BY <2>5, <2>6, <3>1, <4>1 DEF ChainAt
            <4>3. 1 + HeaderLen = HeaderLen + 1 /\ n # NoHeader
                BY <1>1, <2>8
            <4> QED
                BY <2>1, <3>1, <3>3, <4>2, <4>3 DEF Expected
        <3> QED
            BY <3>2, <3>3
    <2>13. HeaderIsNext'
        BY <2>1, <2>5, <2>7, <2>8 DEF HeaderIsNext
    <2>14. ASSUME ~ finished'
           PROVE  Complete(Pipe, sent)' /\ EmptyIsDone'
        <3>1. Complete(Pipe, sent)
            BY <2>1, <2>14 DEF StreamInv
        <3>2. Complete(Pipe, sent)'
            BY <1>1, <2>1, <2>2, <2>3, <3>1, CompleteDrop
        <3>3. ASSUME Len(Pipe') = 0 PROVE n = 0 /\ r + 1 = Len(sent)
            <4>1. /\ (HeaderLen + n) - 1 <= Len(Pipe) - 1
                  /\ (HeaderLen + n) - 1 = Len(Pipe) - 1 => r + 1 = Len(sent)
                BY <2>3, <2>5, <2>8, <3>1 DEF Complete, CompleteAt
            <4>2. Len(Pipe) = HeaderLen
                BY <1>1, <2>9, <3>3
            <4> QED
                BY <1>1, <2>8, <4>1, <4>2
        <3>4. EmptyIsDone'
            BY <1>1, <2>1, <3>3 DEF EmptyIsDone
        <3> QED
            BY <3>2, <3>4
    <2>15. (FramesIntact /\ WithinLimit)'
        BY <2>1 DEF StreamInv, FramesIntact, WithinLimit, Payload
    <2> QED
        BY <2>10, <2>11, <2>12, <2>13, <2>14, <2>15 DEF StreamInv
<1> QED
    BY <1>3, <1>4

LEMMA DecodePayloadStep == StreamInv /\ DecodePayload => StreamInv'
<1> SUFFICES ASSUME StreamInv, DecodePayload PROVE StreamInv'
    OBVIOUS
<1> DEFINE r == Len(received)
           g == Take(rbuf, need)
<1>1. /\ Pipe \in Seq(Bytes) /\ Len(Pipe) \in Nat
      /\ wire \o wbuf \in Seq(Bytes)
      /\ rbuf \in Seq(Bytes) /\ Len(rbuf) \in Nat
      /\ Len(sent) \in Nat /\ r \in Nat
      /\ HeaderLen \in Nat \ {0} /\ NoHeader \notin Nat
    BY PipeType, StreamAssumption DEF StreamInv, StreamType
<1>2. /\ need \in 0 .. Len(rbuf) /\ need # NoHeader
      /\ received' = Append(received, g)
      /\ rbuf' = Drop(rbuf, need)
      /\ need' = NoHeader
      /\ UNCHANGED <<wire, wbuf, sent, finished>>
    BY <1>1 DEF DecodePayload, HasPayload, StreamInv, StreamType, sender
<1>3. /\ r + 1 \in 1 .. Len(sent) /\ need = Size[sent[r + 1]]
      /\ need <= MaxFrameLength
      /\ FrameLen(sent, r + 1) = HeaderLen + need
    BY <1>2 DEF StreamInv, HeaderIsNext, FrameLen
<1>4. /\ Len(Pipe) = Len(rbuf) + Len(wire \o wbuf)
      /\ \A i \in 1 .. Len(rbuf) : Pipe[i] = rbuf[i]
      /\ Pipe' = Drop(Pipe, need)
    BY <1>1, <1>2, FirstPart DEF Pipe
<1>5. need \in 0 .. Len(Pipe) /\ need \in Nat
    BY <1>1, <1>2, <1>4
<1>6. /\ Pipe' \in Seq(Bytes) /\ Len(Pipe') = Len(Pipe) - need
      /\ \A i \in 1 .. Len(Pipe) - need : Pipe'[i] = Pipe[i + need]
    BY <1>1, <1>4, <1>5, DropBytes
<1>7. g \in Seq(Bytes) /\ Len(g) = need /\ \A i \in 1 .. need : g[i] = rbuf[i]
    BY <1>1, <1>2, TakeBytes
<1> HIDE DEF g
\* With a payload that is not empty, its first byte leads the pipe.
<1>8. ASSUME need # 0, 1 \in 1 .. Len(Pipe)
      PROVE  /\ Pipe[1].frame = r + 1 /\ Pipe[1].at = HeaderLen + 1
             /\ ChainAt(Pipe, sent, 1)
    <2>1. Pipe[1] = Byte(r + 1, HeaderLen + 1)
        BY <1>2, <1>8 DEF StreamInv, Expected
    <2> QED
        BY <1>8, <2>1 DEF Byte, StreamInv, Chain
<1>9. g = Payload(r + 1)
    <2>1. Payload(r + 1) = [k \in 1 .. need |-> Byte(r + 1, HeaderLen + k)]
        BY <1>3 DEF Payload
    <2>2. \A k \in 1 .. need : Byte(r + 1, HeaderLen + k) \in Bytes
        BY <1>1 DEF Byte, Bytes
    <2>3. Payload(r + 1) \in Seq(Bytes) /\ Len(Payload(r + 1)) = need
        BY <1>5, <2>1, <2>2
    <2>4. ASSUME NEW k \in 1 .. need
          PROVE  g[k] = Byte(r + 1, HeaderLen + k)
        <3>1. /\ k \in 1 .. Len(rbuf) /\ need # 0 /\ 1 \in 1 .. Len(Pipe)
              /\ k - 1 \in 0 .. Len(Pipe) - 1 /\ k <= need
            BY <1>1, <1>2, <1>4, <1>5
        <3>2. g[k] = Pipe[k]
            BY <1>4, <1>7, <3>1
        <3>3. Pipe[1] = Byte(r + 1, HeaderLen + 1)
            BY <1>2, <3>1 DEF StreamInv, Expected
        <3>4. CASE k = 1
            BY <3>2, <3>3, <3>4
        <3>5. CASE k # 1
            <4>1. PICK j \in 1 .. Len(Pipe) - 1 : j = k - 1
                BY <3>1, <3>5
            <4>2. /\ (HeaderLen + 1) + j <= FrameLen(sent, r + 1)
                  /\ 1 + j = k /\ (HeaderLen + 1) + j = HeaderLen + k
                BY <1>1, <1>3, <1>5, <3>1, <4>1
            <4>3. Pipe[1 + j] = Byte(r + 1, (HeaderLen + 1) + j)
                BY <1>8, <3>1, <4>2 DEF ChainAt
            <4> QED
                BY <3>2, <4>2, <4>3
        <3> QED
            BY <3>4, <3>5
    <2>5. \A k \in 1 .. need : Payload(r + 1)[k] = Byte(r + 1, HeaderLen + k)
        BY <2>1
    <2> QED
        BY <1>7, <2>3, <2>4, <2>5, SeqEqual
<1>10. /\ received' \in Seq(Seq(Bytes)) /\ Len(received') = r + 1
       /\ received'[r + 1] = g
       /\ \A i \in 1 .. r : received'[i] = received[i]
    BY <1>2, <1>7, AppendProperties DEF StreamInv, StreamType
<1>11. StreamType'
    <2>1. rbuf' \in Seq(Bytes)
        BY <1>1, <1>2, DropBytes
    <2> QED
        BY <1>2, <1>10, <2>1 DEF StreamInv, StreamType
<1>12. Chain(Pipe, sent)'
    BY <1>1, <1>2, <1>4, <1>5, ChainDrop DEF StreamInv
<1>13. Expected' = Byte(r + 2, 1)
    BY <1>1, <1>2, <1>10 DEF Expected
<1>14. Len(Pipe') > 0 => Pipe'[1] = Expected'
    <2> SUFFICES ASSUME Len(Pipe') > 0 PROVE Pipe'[1] = Expected'
        OBVIOUS
    <2>1. /\ need \in 0 .. Len(Pipe) - 1 /\ 1 \in 1 .. Len(Pipe)
          /\ Pipe'[1] = Pipe[1 + need]
        BY <1>1, <1>5, <1>6
    <2>2. CASE need = 0
        BY <1>1, <1>2, <1>13, <2>1, <2>2 DEF StreamInv, Expected
    <2>3. CASE need # 0
        <3>1. /\ need \in 1 .. Len(Pipe) - 1
              /\ (HeaderLen + 1) + need = FrameLen(sent, r + 1) + 1
              /\ (r + 1) + 1 = r + 2
            <4>1. need \in 1 .. Len(Pipe) - 1
                BY <1>5, <2>1, <2>3
            <4>2. (HeaderLen + 1) + need = FrameLen(sent, r + 1) + 1
                <5>1. HeaderLen \in Nat /\ need \in Nat
                    BY <1>1, <1>5
                <5>2. FrameLen(sent, r + 1) = HeaderLen + need
                    BY <1>3
                <5> QED
                    BY <5>1, <5>2
            <4>3. (r + 1) + 1 = r + 2
                BY <1>1
            <4> QED
                BY <4>1, <4>2, <4>3
        <3>2. Pipe[1 + need] = Byte((r + 1) + 1, 1)
            BY <1>8, <2>1, <2>3, <3>1 DEF ChainAt
        <3> QED
            BY <1>13, <2>1, <3>1, <3>2
    <2> QED
        BY <2>2, <2>3
<1>15. HeaderIsNext'
    BY <1>2 DEF HeaderIsNext
<1>16. ASSUME ~ finished'
       PROVE  Complete(Pipe, sent)' /\ EmptyIsDone'
    <2>1. Complete(Pipe, sent) /\ EmptyIsDone
        BY <1>2, <1>16 DEF StreamInv
    <2>2. Complete(Pipe, sent)'
        BY <1>1, <1>2, <1>4, <1>5, <2>1, CompleteDrop
    <2>3. ASSUME Len(Pipe') = 0 PROVE r + 1 = Len(sent)
        <3>1. Len(Pipe) = need
            BY <1>1, <1>5, <1>6, <2>3
        <3>2. CASE need = 0
            BY <1>2, <2>1, <3>1, <3>2 DEF EmptyIsDone
        <3>3. CASE need # 0
            <4>1. 1 \in 1 .. Len(Pipe)
                BY <1>1, <1>5, <3>1, <3>3
            <4>2. (HeaderLen + need) - (HeaderLen + 1) = Len(Pipe) - 1
                BY <1>1, <1>5, <3>1
            <4> QED
                BY <1>3, <1>8, <2>1, <3>3, <4>1, <4>2
                DEF Complete, CompleteAt
        <3> QED
            BY <3>2, <3>3
    <2>4. EmptyIsDone'
        BY <1>2, <1>10, <2>3 DEF EmptyIsDone
    <2> QED
        BY <2>2, <2>4
<1>17. FramesIntact'
    <2>1. \A i \in 1 .. r : received[i] = Payload(i)
        BY DEF StreamInv, FramesIntact
    <2>2. \A i \in 1 .. r + 1 : Payload(i)' = Payload(i)
        BY <1>2 DEF Payload
    <2>3. \A i \in 1 .. r + 1 : i \in 1 .. r \/ i = r + 1
        BY <1>1
    <2>4. \A i \in 1 .. r + 1 : received'[i] = Payload(i)
        BY <1>9, <1>10, <2>1, <2>3
    <2> QED
        BY <1>1, <1>2, <1>3, <1>10, <2>2, <2>4 DEF FramesIntact
<1>18. WithinLimit'
    <2>1. \A i \in 1 .. r + 1 : i \in 1 .. r \/ i = r + 1
        BY <1>1
    <2> QED
        BY <1>3, <1>7, <1>10, <2>1 DEF StreamInv, WithinLimit
<1> QED
    BY <1>11, <1>12, <1>14, <1>15, <1>16, <1>17, <1>18 DEF StreamInv

LEMMA WriteStep == StreamInv /\ Write => StreamInv'
<1> SUFFICES ASSUME StreamInv, Write PROVE StreamInv'
    OBVIOUS
<1>1. PICK n \in 1 .. Len(wbuf) :
            wire' = wire \o Take(wbuf, n) /\ wbuf' = Drop(wbuf, n)
    BY DEF Write
<1>2. UNCHANGED <<rbuf, sent, need, received, finished>>
    BY DEF Write, receiver
<1>3. wire \in Seq(Bytes) /\ wbuf \in Seq(Bytes) /\ n \in 0 .. Len(wbuf)
    BY DEF StreamInv, StreamType
<1>4. wire' \o wbuf' = wire \o wbuf
    BY <1>1, <1>3, MoveBytes
<1>5. wire' \in Seq(Bytes) /\ wbuf' \in Seq(Bytes)
    <2>1. Take(wbuf, n) \in Seq(Bytes) /\ Drop(wbuf, n) \in Seq(Bytes)
        BY <1>3, TakeBytes, DropBytes
    <2> QED
        BY <1>1, <1>3, <2>1, ConcatProperties
<1> QED
    BY <1>2, <1>4, <1>5, PipeStays DEF StreamInv, StreamType, Pipe

LEMMA ReadStep == StreamInv /\ Read => StreamInv'
<1> SUFFICES ASSUME StreamInv, Read PROVE StreamInv'
    OBVIOUS
<1>1. PICK n \in 1 .. Len(wire) :
            rbuf' = rbuf \o Take(wire, n) /\ wire' = Drop(wire, n)
    BY DEF Read
<1>2. UNCHANGED <<wbuf, sent, need, received, finished>>
    BY DEF Read, sender
<1>3. /\ rbuf \in Seq(Bytes) /\ wire \in Seq(Bytes) /\ wbuf \in Seq(Bytes)
      /\ n \in 0 .. Len(wire)
    BY DEF StreamInv, StreamType
<1>4. rbuf' \in Seq(Bytes) /\ wire' \in Seq(Bytes)
    <2>1. Take(wire, n) \in Seq(Bytes) /\ Drop(wire, n) \in Seq(Bytes)
        BY <1>3, TakeBytes, DropBytes
    <2> QED
        BY <1>1, <1>3, <2>1, ConcatProperties
<1>5. rbuf' \o wire' = rbuf \o wire
    BY <1>1, <1>3, MoveBytes
<1>6. /\ Cat(rbuf', Cat(wire', wbuf)) = Cat(Cat(rbuf', wire'), wbuf)
      /\ Cat(rbuf, Cat(wire, wbuf)) = Cat(Cat(rbuf, wire), wbuf)
    BY <1>3, <1>4, Associate
<1>7. Pipe' = Cat(rbuf', Cat(wire', wbuf))
    BY <1>2 DEF Pipe, Cat
<1>8. Pipe = Cat(rbuf, Cat(wire, wbuf)) /\ Cat(rbuf', wire') = Cat(rbuf, wire)
    BY <1>5 DEF Pipe, Cat
<1>9. Pipe' = Pipe
    BY <1>6, <1>7, <1>8
<1> QED
    BY <1>2, <1>4, <1>9, PipeStays DEF StreamInv, StreamType

LEMMA FinishStep == StreamInv /\ Finish => StreamInv'
<1> SUFFICES ASSUME StreamInv, Finish PROVE StreamInv'
    OBVIOUS
<1>1. /\ wbuf' = <<>> /\ finished'
      /\ UNCHANGED <<rbuf, wire, sent, need, received>>
    BY DEF Finish, receiver
<1>2. rbuf \in Seq(Bytes) /\ wire \in Seq(Bytes) /\ wbuf \in Seq(Bytes)
    BY DEF StreamInv, StreamType
<1>3. Pipe' = rbuf \o wire
    BY <1>1, <1>2 DEF Pipe
<1>4. Pipe = (rbuf \o wire) \o wbuf
    <2>1. Cat(rbuf, Cat(wire, wbuf)) = Cat(Cat(rbuf, wire), wbuf)
        BY <1>2, Associate
    <2> QED
        BY <2>1 DEF Pipe, Cat
<1> DEFINE p == rbuf \o wire
<1>5. p \in Seq(Bytes) /\ Len(p) \in Nat /\ Len(wbuf) \in Nat
    BY <1>2
<1> HIDE DEF p
<1>6. 0 \in 0 .. Len(p)
    BY <1>5
<1>7. Len(p) <= Len(p \o wbuf) /\ \A i \in 1 .. Len(p) : (p \o wbuf)[i] = p[i]
    BY <1>2, <1>5, <1>6, FirstPart
<1>8. StreamType'
    BY <1>1, EmptySeq DEF StreamInv, StreamType, Finish
<1> QED
    BY <1>1, <1>3, <1>4, <1>7, <1>8, PipeEnds DEF p

LEMMA LoseStep == StreamInv /\ Lose => StreamInv'
<1> SUFFICES ASSUME StreamInv, Lose PROVE StreamInv'
    OBVIOUS
<1>1. /\ wbuf' = <<>> /\ wire' = <<>> /\ finished'
      /\ UNCHANGED <<rbuf, sent, need, received>>
    BY DEF Lose
<1>2. /\ rbuf \in Seq(Bytes) /\ Len(rbuf) \in Nat
      /\ wire \o wbuf \in Seq(Bytes) /\ Len(wire \o wbuf) \in Nat
    BY DEF StreamInv, StreamType
<1>3. Pipe' = rbuf
    BY <1>1, <1>2 DEF Pipe
<1>4. 0 \in 0 .. Len(rbuf)
    BY <1>2
<1>5. Len(rbuf) <= Len(Pipe) /\ \A i \in 1 .. Len(rbuf) : Pipe[i] = rbuf[i]
    <2>1. /\ Len(Pipe) = Len(rbuf) + Len(wire \o wbuf)
          /\ \A i \in 1 .. Len(rbuf) : Pipe[i] = rbuf[i]
        BY <1>2, <1>4, FirstPart DEF Pipe
    <2> QED
        BY <1>2, <2>1
<1>6. StreamType'
    BY <1>1, EmptySeq DEF StreamInv, StreamType, Lose
<1> QED
    BY <1>1, <1>3, <1>5, <1>6, PipeEnds

LEMMA StreamStep == StreamInv /\ [Next]_vars => StreamInv'
<1> SUFFICES ASSUME StreamInv, [Next]_vars PROVE StreamInv'
    OBVIOUS
<1>1. ASSUME NEW m \in Messages, Send(m) \/ SendUnlimited(m)
      PROVE  StreamInv'
    BY <1>1, EncodeStep DEF Send, SendUnlimited, receiver
<1>2. ASSUME SendDone \/ Cancel \/ ReadEnd \/ UNCHANGED vars
      PROVE  StreamInv'
    <2>1. UNCHANGED <<rbuf, wire, wbuf, sent, need, received, finished>>
        BY <1>2 DEF SendDone, Cancel, ReadEnd, vars, sender, receiver
    <2> QED
        BY <2>1, PipeStays DEF StreamInv, StreamType, Pipe
<1> QED
    BY <1>1, <1>2, WriteStep, ReadStep, FinishStep, LoseStep,
        DecodeHeadStep, DecodePayloadStep DEF Next, Decode

\* What is in the pipe is the rest of what was sent, in order; and as long as
\* the sender is there, nothing is missing at its end.
THEOREM StreamInvariant == Spec => []StreamInv
BY StreamInit, StreamStep, PTL DEF Spec

\* For any messages, limits and buffers, the messages received are the first
\* of those sent, byte for byte.
THEOREM FramesIntactCorrect == Spec => []FramesIntact
<1>1. StreamInv => FramesIntact
    BY DEF StreamInv
<1> QED
    BY <1>1, StreamInvariant, PTL

\* For any limit, no message above it is received, whoever sends it.
THEOREM WithinLimitCorrect == Spec => []WithinLimit
<1>1. StreamInv => WithinLimit
    BY DEF StreamInv
<1> QED
    BY <1>1, StreamInvariant, PTL

-----------------------------------------------------------------------------
(* The stream is a queue of messages.                                      *)

\* The messages at the places received are those sent there.
ReceivedAreSent ==
    /\ Len(received) \in Nat /\ Len(sent) \in Nat
    /\ Len(received) <= Len(sent)
    /\ [i \in 1 .. Len(received) |-> MessageAt(i)] =
            [i \in 1 .. Len(received) |-> sent[i]]

LEMMA MessagesReceived == StreamInv => ReceivedAreSent
<1> SUFFICES ASSUME StreamInv PROVE ReceivedAreSent
    OBVIOUS
<1>1. /\ Len(received) \in Nat /\ Len(sent) \in Nat
      /\ FramesIntact
    BY PipeType DEF StreamInv
<1>2. \A i \in 1 .. Len(received) : MessageAt(i) = sent[i]
    BY <1>1 DEF FramesIntact, MessageAt
<1> QED
    BY <1>1, <1>2 DEF FramesIntact, ReceivedAreSent

LEMMA MessagesReceivedNext == StreamInv' => ReceivedAreSent'
BY MessagesReceived, PTL

LEMMA QueueInit == Init => Queue!Init
<1> SUFFICES ASSUME Init PROVE Queue!Init
    OBVIOUS
<1>1. Len(received) = 0
    BY DEF Init
<1>2. [i \in 1 .. Len(received) |-> MessageAt(i)] = << >>
    BY <1>1
<1> QED
    BY <1>2 DEF Init, Queue!Init

\* A step that sends nothing and receives nothing is none of the queue's, but
\* for the end of receiving.
LEMMA QueueStays ==
    ASSUME UNCHANGED <<sent, received>>,
           state' = state \/ (state = "open" /\ state' # "open")
    PROVE  [Queue!Next]_Queue!vars
<1>1. [i \in 1 .. Len(received) |-> MessageAt(i)]' =
            [i \in 1 .. Len(received) |-> MessageAt(i)]
    BY DEF MessageAt, Payload
<1>2. CASE state' = state
    BY <1>1, <1>2 DEF Queue!vars
<1>3. CASE state = "open" /\ state' # "open"
    BY <1>1, <1>3 DEF Queue!Next, Queue!End
<1> QED
    BY <1>2, <1>3

LEMMA QueueSend ==
    ASSUME StreamInv, StreamInv', NEW m \in Messages,
           sent' = Append(sent, m), UNCHANGED <<received, state>>
    PROVE  Queue!Next
<1>1. \A i \in 1 .. Len(received) : sent'[i] = sent[i]
    <2>1. sent \in Seq(Messages)
        BY DEF StreamInv, StreamType
    <2> QED
        BY <2>1, MessagesReceived DEF ReceivedAreSent
<1>2. [i \in 1 .. Len(received) |-> MessageAt(i)] =
            [i \in 1 .. Len(received) |-> sent[i]]
    BY MessagesReceived DEF ReceivedAreSent
<1>3. [i \in 1 .. Len(received) |-> MessageAt(i)]' =
            [i \in 1 .. Len(received') |-> sent'[i]]
    BY MessagesReceivedNext DEF ReceivedAreSent
<1>4. [i \in 1 .. Len(received) |-> MessageAt(i)]' =
            [i \in 1 .. Len(received) |-> MessageAt(i)]
    BY <1>1, <1>2, <1>3
<1>5. Queue!Send(m)
    BY <1>4 DEF Queue!Send
<1> QED
    BY <1>5 DEF Queue!Next

LEMMA QueueReceive ==
    ASSUME StreamInv, StreamInv', DecodePayload
    PROVE  Queue!Next
<1> DEFINE r == Len(received)
           g == [i \in 1 .. r |-> sent[i]]
<1>1. /\ r \in Nat /\ Len(sent) \in Nat /\ r <= Len(sent)
      /\ [i \in 1 .. Len(received) |-> MessageAt(i)] = g
    BY MessagesReceived DEF ReceivedAreSent
<1>2. /\ Len(received') <= Len(sent')
      /\ [i \in 1 .. Len(received) |-> MessageAt(i)]' =
            [i \in 1 .. Len(received') |-> sent'[i]]
    BY MessagesReceivedNext DEF ReceivedAreSent
<1>3. /\ state = "open" /\ state' = state /\ sent' = sent
      /\ Len(received') = r + 1
    <2>1. received \in Seq(Seq(Bytes))
        BY DEF StreamInv, StreamType
    <2> QED
        BY <2>1 DEF DecodePayload, sender
<1>4. /\ Len(g) = r
      /\ [i \in 1 .. r + 1 |-> sent[i]] = Append(g, sent[r + 1])
    <2>1. sent \in Seq(Messages)
        BY DEF StreamInv, StreamType
    <2>2. g \in Seq(Messages) /\ Len(g) = r
        BY <1>1, <2>1
    <2> QED
        BY <1>1, <1>2, <1>3, <2>1, <2>2
<1>5. Queue!Receive
    BY <1>1, <1>2, <1>3, <1>4 DEF Queue!Receive
<1> QED
    BY <1>5 DEF Queue!Next

LEMMA QueueStep ==
    StreamInv /\ StreamInv' /\ [Next]_vars => [Queue!Next]_Queue!vars
<1> SUFFICES ASSUME StreamInv, StreamInv', [Next]_vars
             PROVE  [Queue!Next]_Queue!vars
    OBVIOUS
<1>1. ASSUME NEW m \in Messages, Send(m) \/ SendUnlimited(m)
      PROVE  Queue!Next
    <2>1. sent' = Append(sent, m) /\ UNCHANGED <<received, state>>
        BY <1>1 DEF Send, SendUnlimited, Encode, receiver
    <2> QED
        BY <2>1, QueueSend
<1>2. CASE Write \/ SendDone \/ Cancel \/ Finish \/ Read \/ DecodeHead
            \/ ReadEnd \/ Lose \/ UNCHANGED vars
    <2>1. UNCHANGED <<sent, received>>
        BY <1>2 DEF Write, SendDone, Cancel, Finish, Read, DecodeHead,
            ReadEnd, Lose, vars, sender, receiver
    <2>2. state' = state \/ (state = "open" /\ state' # "open")
        BY <1>2 DEF Write, SendDone, Cancel, Finish, Read, DecodeHead,
            ReadEnd, Lose, vars, sender, receiver
    <2> QED
        BY <2>1, <2>2, QueueStays
<1> QED
    BY <1>1, <1>2, QueueReceive DEF Next, Decode

\* For any messages, limits and buffers, the stream is a queue: messages come
\* out once each, in the order they were sent, up to a point where receiving
\* ends.
THEOREM ImplementsQueueCorrect == Spec => ImplementsQueue
<1>1. Init => Queue!Init
    BY QueueInit
<1>2. StreamInv /\ StreamInv' /\ [Next]_vars => [Queue!Next]_Queue!vars
    BY QueueStep
<1> QED
    BY <1>1, <1>2, StreamInvariant, PTL DEF Spec, ImplementsQueue, Queue!Spec

=============================================================================
