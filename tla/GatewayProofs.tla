--------------------------- MODULE GatewayProofs ----------------------------
(***************************************************************************)
(* Proofs about PacketStream, for all packets whose length fits in the     *)
(* length field, any number of them, and any pieces recv may give; and     *)
(* about Gateway and SessionMgr, for any packets and commands and any      *)
(* number of sessions and calls of cleanup_timeout.                        *)
(***************************************************************************)
EXTENDS Integers, MCGateway, PacketStream, WellFoundedInduction, FiniteSetTheorems, TLAPS

-----------------------------------------------------------------------------
(***************************************************************************)
(* Numbers, and functions defined by recursion                             *)
(***************************************************************************)

\* A set of numbers that is not empty has a least one: what takes the place of
\* induction below.
LEMMA LeastNumber ==
    ASSUME NEW X \in SUBSET Nat, X # {}
    PROVE  \E x \in X : \A y \in X : x <= y
<1> DEFINE Less == {ss \in Nat \X Nat : ss[1] < ss[2]}
<1>1. IsWellFoundedOn(Less, Nat)
  BY NatLessThanWellFounded DEF OpToRel
<1>2. \A x, y \in Nat : <<y, x>> \in Less <=> y < x
  OBVIOUS
<1> HIDE DEF Less
<1>3. PICK x \in X : \A y \in X : ~(<<y, x>> \in Less)
  BY <1>1, WFMin
<1>4. \A y \in X : x <= y
  <2> TAKE y \in X
  <2>1. x \in Nat /\ y \in Nat /\ ~(y < x)
    BY <1>2, <1>3
  <2> QED
    BY <2>1
<1> QED
  BY <1>4

\* Steps 1 to N, each of them a function of the result before it, and what they
\* make of x one after the other.
Steps(N, T) == [1..N -> [T -> T]]
Taken(step, N, T, x, f) ==
    /\ f \in [0..N -> T] /\ f[0] = x
    /\ \A n \in 1..N : f[n] = step[n][f[n - 1]]

\* Steps can be taken one after the other: a recursion over 0..N has a solution.
LEMMA StepsTaken ==
    ASSUME NEW T, NEW x \in T, NEW N \in Nat, NEW step \in Steps(N, T)
    PROVE  \E f : Taken(step, N, T, x, f)
<1> DEFINE Solves(f, n) == Taken(step, n, T, x, f)
           Solvable(n) == \E f : Solves(f, n)
<1>1. Solvable(0)
  <2> DEFINE f == [k \in 0..0 |-> x]
  <2>1. Solves(f, 0)
    BY DEF Taken
  <2> QED
    BY <2>1
<1>2. ASSUME NEW n \in 1..N, Solvable(n - 1) PROVE Solvable(n)
  <2>1. PICK f : Solves(f, n - 1)
    BY <1>2
  <2> DEFINE g == [k \in 0..n |-> IF k = n THEN step[n][f[n - 1]] ELSE f[k]]
  <2>2. f[n - 1] \in T /\ step[n][f[n - 1]] \in T
    BY <2>1 DEF Taken, Steps
  <2>3. g \in [0..n -> T] /\ g[0] = x
    BY <2>1, <2>2 DEF Taken
  <2>4. ASSUME NEW k \in 1..n PROVE g[k] = step[k][g[k - 1]]
    <3>1. k - 1 \in 0..(n - 1) /\ g[k - 1] = f[k - 1]
      OBVIOUS
    <3>2. CASE k = n
      BY <3>1, <3>2
    <3>3. CASE k # n
      <4>1. k \in 1..(n - 1) /\ g[k] = f[k]
        BY <3>3
      <4> QED
        BY <2>1, <3>1, <4>1 DEF Taken
    <3> QED
      BY <3>2, <3>3
  <2>5. Solves(g, n)
    BY <2>3, <2>4 DEF Taken
  <2> QED
    BY <2>5
<1>3. Solvable(N)
  <2> HIDE DEF Solvable
  <2> DEFINE X == {n \in 0..N : ~Solvable(n)}
  <2> SUFFICES ASSUME X # {} PROVE FALSE
    OBVIOUS
  <2>1. X \in SUBSET Nat
    OBVIOUS
  <2>2. PICK n \in X : \A m \in X : n <= m
    BY <2>1, LeastNumber
  <2>3. n \in 1..N /\ n - 1 \in 0..N /\ n - 1 \notin X
    BY <1>1, <2>2
  <2> QED
    BY <1>2, <2>3
<1> QED
  BY <1>3

-----------------------------------------------------------------------------
(***************************************************************************)
(* Sequences                                                               *)
(***************************************************************************)

\* A sequence is a function on the numbers up to its length.
LEMMA SeqFacts ==
    ASSUME NEW T, NEW q \in Seq(T)
    PROVE  Len(q) \in Nat /\ DOMAIN q = 1..Len(q) /\ \A i \in 1..Len(q) : q[i] \in T
OBVIOUS

\* Sequences with the same elements are the same.
LEMMA SameSeq ==
    ASSUME NEW T, NEW q \in Seq(T), NEW r \in Seq(T), Len(q) = Len(r),
           \A i \in 1..Len(r) : q[i] = r[i]
    PROVE  q = r
OBVIOUS

\* Two sequences one after the other.
LEMMA ConcatFacts ==
    ASSUME NEW T, NEW q \in Seq(T), NEW r \in Seq(T)
    PROVE  /\ q \o r \in Seq(T) /\ Len(q \o r) = Len(q) + Len(r)
           /\ \A i \in 1..(Len(q) + Len(r)) :
                 (q \o r)[i] = IF i <= Len(q) THEN q[i] ELSE r[i - Len(q)]
OBVIOUS

\* A part of a sequence.
LEMMA PartFacts ==
    ASSUME NEW T, NEW q, NEW m \in Int, NEW n \in Int, \A i \in m..n : q[i] \in T
    PROVE  /\ SubSeq(q, m, n) \in Seq(T)
           /\ Len(SubSeq(q, m, n)) = IF m <= n THEN n - m + 1 ELSE 0
           /\ \A i \in 1..(n - m + 1) : SubSeq(q, m, n)[i] = q[m + i - 1]
OBVIOUS

\* A sequence without its first element.
LEMMA TailFacts ==
    ASSUME NEW T, NEW q \in Seq(T), q # <<>>
    PROVE  /\ Len(q) \in Nat \ {0} /\ Head(q) = q[1] /\ Head(q) \in T /\ Tail(q) \in Seq(T)
           /\ Len(Tail(q)) = Len(q) - 1
           /\ \A i \in 1..Len(Tail(q)) : i + 1 \in 1..Len(q) /\ Tail(q)[i] = q[i + 1]
OBVIOUS

\* A sequence with an element put behind it.
LEMMA BackFacts ==
    ASSUME NEW T, NEW q \in Seq(T), NEW x \in T
    PROVE  /\ Append(q, x) \in Seq(T) /\ Len(q) \in Nat /\ Len(Append(q, x)) = Len(q) + 1
           /\ Append(q, x)[Len(q) + 1] = x
           /\ \A i \in 1..Len(q) : Append(q, x)[i] = q[i]
OBVIOUS

-----------------------------------------------------------------------------
(***************************************************************************)
(* The format                                                              *)
(***************************************************************************)

\* Division by 256.
LEMMA DivFacts ==
    ASSUME NEW v \in Nat
    PROVE  v \div 256 \in Nat /\ v % 256 \in uint8_t /\ v = 256 * (v \div 256) + (v % 256)
  BY SMT DEF uint8_t

\* ntohl undoes htonl on the numbers of 32 bits.
LEMMA LengthBytes ==
    ASSUME NEW v \in Nat, ((v \div 256) \div 256) \div 256 \in uint8_t
    PROVE  /\ htonl(v) \in Seq(uint8_t) /\ Len(htonl(v)) = 4
           /\ ((htonl(v)[1] * 256 + htonl(v)[2]) * 256 + htonl(v)[3]) * 256 + htonl(v)[4] = v
<1> DEFINE a == v \div 256
           b == a \div 256
           c == b \div 256
<1>1. a \in Nat /\ v % 256 \in uint8_t /\ v = 256 * a + (v % 256)
  BY DivFacts
<1>2. b \in Nat /\ a % 256 \in uint8_t /\ a = 256 * b + (a % 256)
  BY <1>1, DivFacts
<1>3. c \in Nat /\ b % 256 \in uint8_t /\ b = 256 * c + (b % 256)
  BY <1>2, DivFacts
<1> HIDE DEF a, b, c
<1>4. c \in uint8_t /\ htonl(v) = <<c % 256, b % 256, a % 256, v % 256>>
  BY DEF a, b, c, htonl
<1>5. c % 256 = c /\ c \in uint8_t
  BY <1>3, <1>4 DEF uint8_t
<1>6. htonl(v) \in Seq(uint8_t) /\ Len(htonl(v)) = 4
  BY <1>1, <1>2, <1>3, <1>4, <1>5
<1>7. htonl(v)[1] = c /\ htonl(v)[2] = b % 256 /\ htonl(v)[3] = a % 256 /\ htonl(v)[4] = v % 256
  BY <1>4, <1>5
<1>8. ((c * 256 + (b % 256)) * 256 + (a % 256)) * 256 + (v % 256) = v
  BY <1>1, <1>2, <1>3 DEF uint8_t
<1> QED
  BY <1>6, <1>7, <1>8

\* ntohs undoes htons on the numbers of 16 bits.
LEMMA CmdBytes ==
    ASSUME NEW v \in uint16_t
    PROVE  /\ htons(v) \in Seq(uint8_t) /\ Len(htons(v)) = 2
           /\ htons(v)[1] * 256 + htons(v)[2] = v
<1>1. PICK h \in uint8_t, l \in uint8_t : v = 256 * h + l
  BY DEF uint16_t
<1>2. v \div 256 = h /\ v % 256 = l /\ h % 256 = h
  BY <1>1 DEF uint8_t
<1>3. htons(v) = <<h, l>>
  BY <1>2 DEF htons
<1>4. htons(v) \in Seq(uint8_t) /\ Len(htons(v)) = 2 /\ htons(v)[1] = h /\ htons(v)[2] = l
  BY <1>3
<1>5. h * 256 + l = v
  BY <1>1 DEF uint8_t
<1> QED
  BY <1>4, <1>5

\* What encode lays out: the header in the first six bytes, then the data.
LEMMA EncodeFacts ==
    ASSUME NEW p \in Packet, LengthFits(p)
    PROVE  /\ encode(p) \in Seq(uint8_t)
           /\ Len(encode(p)) = 6 + Len(p.data) /\ Len(p.data) \in Nat
           /\ peek_packet_length(encode(p)) = Len(encode(p))
           /\ encode(p)[5] * 256 + encode(p)[6] = p.cmd
           /\ \A i \in 1..Len(p.data) : encode(p)[6 + i] = p.data[i]
<1> DEFINE v == 6 + Len(p.data)
           l == htonl(v)
           c == htons(p.cmd)
<1>1. p.data \in Seq(uint8_t) /\ Len(p.data) \in Nat /\ p.cmd \in uint16_t
  BY DEF Packet
<1>2. v \in Nat
  BY <1>1
<1>2a. ((v \div 256) \div 256) \div 256 \in uint8_t
  BY Zenon DEF LengthFits
<1>3. l \in Seq(uint8_t) /\ Len(l) = 4
  BY <1>2, <1>2a, LengthBytes
<1>4. c \in Seq(uint8_t) /\ Len(c) = 2
  BY <1>1, CmdBytes
<1>5. ((l[1] * 256 + l[2]) * 256 + l[3]) * 256 + l[4] = v
  BY <1>2, <1>2a, LengthBytes
<1>6. c[1] * 256 + c[2] = p.cmd
  BY <1>1, CmdBytes
<1> DEFINE h == l \o c
<1>7. encode(p) = h \o p.data
  BY DEF encode
<1> HIDE DEF v, l, c
<1>8. /\ h \in Seq(uint8_t) /\ Len(h) = 6
      /\ \A i \in 1..4 : h[i] = l[i]
      /\ \A i \in 1..2 : h[4 + i] = c[i]
  <2>1. /\ l \o c \in Seq(uint8_t) /\ Len(l \o c) = Len(l) + Len(c)
        /\ \A i \in 1..(Len(l) + Len(c)) :
              (l \o c)[i] = IF i <= Len(l) THEN l[i] ELSE c[i - Len(l)]
    BY <1>3, <1>4, ConcatFacts
  <2> QED
    BY <1>3, <1>4, <2>1
<1>9. h[1] = l[1] /\ h[2] = l[2] /\ h[3] = l[3] /\ h[4] = l[4] /\ h[5] = c[1] /\ h[6] = c[2]
  BY <1>8
<1> HIDE DEF h
<1>10. /\ encode(p) \in Seq(uint8_t) /\ Len(encode(p)) = 6 + Len(p.data)
       /\ \A i \in 1..6 : encode(p)[i] = h[i]
       /\ \A i \in 1..Len(p.data) : encode(p)[6 + i] = p.data[i]
  <2>1. /\ h \o p.data \in Seq(uint8_t) /\ Len(h \o p.data) = Len(h) + Len(p.data)
        /\ \A i \in 1..(Len(h) + Len(p.data)) :
              (h \o p.data)[i] = IF i <= Len(h) THEN h[i] ELSE p.data[i - Len(h)]
    BY <1>1, <1>8, ConcatFacts
  <2> QED
    BY <1>1, <1>7, <1>8, <2>1
<1>11. /\ encode(p)[1] = l[1] /\ encode(p)[2] = l[2] /\ encode(p)[3] = l[3]
       /\ encode(p)[4] = l[4] /\ encode(p)[5] = c[1] /\ encode(p)[6] = c[2]
  BY <1>9, <1>10
<1>12. ~(Len(encode(p)) < 4)
  BY <1>1, <1>10
<1>13. peek_packet_length(encode(p)) = v
  BY <1>5, <1>11, <1>12 DEF peek_packet_length
<1> QED
  BY <1>1, <1>6, <1>10, <1>11, <1>13 DEF v

-----------------------------------------------------------------------------
(***************************************************************************)
(* The stream                                                              *)
(***************************************************************************)

\* The packets sent are packets whose length fits.
LEMMA SentFacts ==
    ASSUME outbox \in Seq(Packets)
    PROVE  /\ Len(outbox) \in Nat
           /\ \A n \in 1..Len(outbox) : /\ outbox[n] \in Packet /\ LengthFits(outbox[n])
                                        /\ encode(outbox[n]) \in Seq(uint8_t)
<1>1. Len(outbox) \in Nat /\ \A n \in 1..Len(outbox) : outbox[n] \in Packets
  BY SeqFacts
<1>2. \A n \in 1..Len(outbox) : outbox[n] \in Packet /\ LengthFits(outbox[n])
  BY <1>1, StreamAssumption
<1> QED
  BY <1>1, <1>2, EncodeFacts

\* The bytes of n packets are those of the packets before the last, and its own.
LEMMA BytesFacts ==
    ASSUME outbox \in Seq(Packets)
    PROVE  /\ Bytes(0) = <<>>
           /\ \A n \in 1..Len(outbox) : Bytes(n) = Bytes(n - 1) \o encode(outbox[n])
           /\ \A n \in 0..Len(outbox) : Bytes(n) \in Seq(uint8_t)
<1> DEFINE N == Len(outbox)
           T == Seq(uint8_t)
           Solves(f) == f = [k \in 0..N |-> IF k = 0 THEN <<>> ELSE f[k - 1] \o encode(outbox[k])]
           step == [k \in 1..N |-> [s \in T |-> s \o encode(outbox[k])]]
           B == CHOOSE f : Solves(f)
<1>1. N \in Nat /\ \A n \in 1..N : encode(outbox[n]) \in T
  BY SentFacts
<1>2. \A s, e \in T : s \o e \in T
  BY ConcatFacts
<1>3. <<>> \in T
  OBVIOUS
<1>4. \A n \in 0..N : Bytes(n) = B[n]
  BY DEF Bytes
<1> HIDE DEF T
<1>5. step \in Steps(N, T)
  BY <1>1, <1>2 DEF Steps
<1> HIDE DEF step
<1>6. PICK g : Taken(step, N, T, <<>>, g)
  BY <1>1, <1>3, <1>5, StepsTaken
<1>7. \A n \in 1..N : g[n] = g[n - 1] \o encode(outbox[n])
  <2> TAKE n \in 1..N
  <2>1. n - 1 \in 0..N
    BY <1>1
  <2>2. g[n - 1] \in T /\ g[n] = step[n][g[n - 1]]
    BY <1>6, <2>1 DEF Taken
  <2> QED
    BY <2>2 DEF step
<1>8. Solves(g)
  <2>1. g = [k \in 0..N |-> g[k]] /\ g[0] = <<>>
    BY <1>6 DEF Taken
  <2>2. \A k \in 0..N : g[k] = IF k = 0 THEN <<>> ELSE g[k - 1] \o encode(outbox[k])
    <3> TAKE k \in 0..N
    <3>1. k = 0 \/ k \in 1..N
      BY <1>1
    <3> QED
      BY <1>7, <2>1, <3>1
  <2> QED
    BY <2>1, <2>2
<1>9. Solves(B)
  BY <1>8
<1> HIDE DEF B
<1>10. B[0] = <<>> /\ \A n \in 1..N : B[n] = B[n - 1] \o encode(outbox[n])
  BY <1>1, <1>9
<1>11. \A n \in 0..N : B[n] \in T
  <2> DEFINE X == {n \in 0..N : B[n] \notin T}
  <2> SUFFICES ASSUME X # {} PROVE FALSE
    OBVIOUS
  <2>1. X \in SUBSET Nat
    BY <1>1
  <2>2. PICK n \in X : \A m \in X : n <= m
    BY <2>1, LeastNumber
  <2>3. n \in 1..N /\ n - 1 \in 0..N /\ n - 1 \notin X
    BY <1>1, <1>3, <1>10, <2>2
  <2>4. B[n] = B[n - 1] \o encode(outbox[n])
    BY <1>10, <2>3
  <2> QED
    BY <1>1, <1>2, <2>3, <2>4
<1>12. \A n \in 1..N : n - 1 \in 0..N /\ n \in 0..N
  BY <1>1
<1>13. Bytes(0) = B[0]
  BY <1>1, <1>4
<1>14. \A n \in 1..N : Bytes(n) = B[n] /\ Bytes(n - 1) = B[n - 1]
  BY <1>4, <1>12
<1>15. \A n \in 0..N : Bytes(n) \in Seq(uint8_t)
  BY <1>4, <1>11 DEF T
<1> QED
  BY <1>10, <1>13, <1>14, <1>15

\* The bytes of fewer packets are the first ones of those of more.
LEMMA BytesPrefix ==
    ASSUME outbox \in Seq(Packets), NEW m \in 0..Len(outbox)
    PROVE  \A n \in m..Len(outbox) :
               /\ Len(Bytes(m)) <= Len(Bytes(n))
               /\ \A i \in 1..Len(Bytes(m)) : Bytes(n)[i] = Bytes(m)[i]
<1> DEFINE N == Len(outbox)
           Extends(n) == /\ Len(Bytes(m)) <= Len(Bytes(n))
                         /\ \A i \in 1..Len(Bytes(m)) : Bytes(n)[i] = Bytes(m)[i]
           X == {n \in m..N : ~Extends(n)}
<1> SUFFICES ASSUME X # {} PROVE FALSE
  OBVIOUS
<1>1. N \in Nat /\ \A n \in 0..N : Bytes(n) \in Seq(uint8_t) /\ Len(Bytes(n)) \in Nat
  BY SentFacts, BytesFacts, SeqFacts
<1>2. X \in SUBSET Nat
  BY <1>1
<1>3. PICK n \in X : \A k \in X : n <= k
  BY <1>2, LeastNumber
<1>4. n # m
  BY <1>1
<1>5. n \in 1..N /\ n - 1 \in m..N /\ n - 1 \in 0..N /\ n - 1 \notin X
  BY <1>1, <1>3, <1>4
<1>6. Extends(n - 1)
  BY <1>5
<1>7. Bytes(n) = Bytes(n - 1) \o encode(outbox[n]) /\ encode(outbox[n]) \in Seq(uint8_t)
  BY <1>5, BytesFacts, SentFacts
<1> DEFINE b == Bytes(n - 1)
           e == encode(outbox[n])
<1>8. b \in Seq(uint8_t) /\ Len(b) \in Nat /\ e \in Seq(uint8_t) /\ Len(e) \in Nat
  BY <1>1, <1>5, <1>7, SeqFacts
<1>9. Bytes(n) = b \o e
  BY <1>7
<1> HIDE DEF b, e
<1>10. /\ Len(b \o e) = Len(b) + Len(e)
       /\ \A i \in 1..(Len(b) + Len(e)) : (b \o e)[i] = IF i <= Len(b) THEN b[i] ELSE e[i - Len(b)]
  BY <1>8, ConcatFacts
<1>11. Len(Bytes(n)) >= Len(b) /\ \A i \in 1..Len(b) : Bytes(n)[i] = b[i]
  BY <1>8, <1>9, <1>10
<1>12. Extends(n)
  BY <1>1, <1>5, <1>6, <1>8, <1>11 DEF b
<1> QED
  BY <1>12

\* Where a packet is in the stream.
LEMMA PacketInStream ==
    ASSUME outbox \in Seq(Packets), NEW d \in Nat, d < Len(outbox)
    PROVE  LET e == encode(outbox[d + 1])
           IN  /\ Len(Bytes(d + 1)) = Len(Bytes(d)) + Len(e)
               /\ Len(Bytes(d + 1)) <= Len(Stream)
               /\ \A i \in 1..Len(e) : Stream[Len(Bytes(d)) + i] = e[i]
<1> DEFINE N == Len(outbox)
           b == Bytes(d)
           e == encode(outbox[d + 1])
<1>1. N \in Nat /\ d \in 0..N /\ d + 1 \in 1..N /\ d + 1 \in 0..N /\ (d + 1) - 1 = d /\ N \in (d + 1)..N
  BY SentFacts
<1>2. Bytes(d + 1) = b \o e /\ b \in Seq(uint8_t)
  BY <1>1, BytesFacts
<1>3. e \in Seq(uint8_t)
  BY <1>1, SentFacts
<1>4. Len(b) \in Nat /\ Len(e) \in Nat
  BY <1>2, <1>3, SeqFacts
<1>5. /\ Len(Bytes(d + 1)) <= Len(Stream)
      /\ \A i \in 1..Len(Bytes(d + 1)) : Stream[i] = Bytes(d + 1)[i]
  BY <1>1, BytesPrefix DEF Stream
<1> HIDE DEF b, e
<1>6. /\ Len(b \o e) = Len(b) + Len(e)
      /\ \A i \in 1..(Len(b) + Len(e)) : (b \o e)[i] = IF i <= Len(b) THEN b[i] ELSE e[i - Len(b)]
  BY <1>2, <1>3, ConcatFacts
<1>7. Len(Bytes(d + 1)) = Len(b) + Len(e)
  BY <1>2, <1>6
<1>8. \A i \in 1..Len(e) : Stream[Len(b) + i] = e[i]
  <2> TAKE i \in 1..Len(e)
  <2>1. Len(b) + i \in 1..(Len(b) + Len(e)) /\ ~(Len(b) + i <= Len(b)) /\ (Len(b) + i) - Len(b) = i
    BY <1>4
  <2>2. (b \o e)[Len(b) + i] = e[i]
    BY <1>6, <2>1
  <2> QED
    BY <1>2, <1>5, <1>7, <2>1, <2>2
<1> QED
  BY <1>5, <1>7, <1>8 DEF b, e

-----------------------------------------------------------------------------
(***************************************************************************)
(* The readers                                                             *)
(***************************************************************************)

\* Where in the stream read_buf_ begins: after the packets delivered.
Cut == Len(Bytes(Len(delivered)))

Typed ==
    /\ side \in {"server", "client"} /\ outbox \in Seq(Packets)
    /\ received \in 0..Len(Stream)
    /\ read_buf_ \in Seq(uint8_t)
    /\ delivered \in Seq(IF side = "server" THEN Packet ELSE Seq(uint8_t))
    /\ phase \in {"recv", "parse"}

\* The packets delivered are the first ones sent.
RightSoFar ==
    /\ Len(delivered) <= Len(outbox)
    /\ \A i \in 1..Len(delivered) :
           delivered[i] = IF side = "server" THEN outbox[i] ELSE outbox[i].data

\* read_buf_ is what has arrived behind them.
BufferRight ==
    /\ received = Cut + Len(read_buf_)
    /\ \A i \in 1..Len(read_buf_) : read_buf_[i] = Stream[Cut + i]

\* Before recv is called, read_buf_ does not hold a whole packet.
NothingWaits ==
    phase = "recv" => \/ Len(delivered) = Len(outbox)
                       \/ received < Len(Bytes(Len(delivered) + 1))

StreamInv == Typed /\ RightSoFar /\ BufferRight /\ NothingWaits

\* The lengths are numbers, and the bytes delivered have been received.
LEMMA LengthFacts ==
    ASSUME StreamInv
    PROVE  /\ Len(outbox) \in Nat /\ Len(delivered) \in 0..Len(outbox)
           /\ Len(read_buf_) \in Nat /\ Cut \in Nat /\ received \in Nat /\ Len(Stream) \in Nat
           /\ Stream \in Seq(uint8_t)
<1>1. Len(outbox) \in Nat /\ Len(delivered) \in Nat /\ Len(read_buf_) \in Nat
  BY SeqFacts DEF StreamInv, Typed
<1>2. Len(delivered) \in 0..Len(outbox)
  BY <1>1 DEF StreamInv, RightSoFar
<1>3. Stream \in Seq(uint8_t) /\ Bytes(Len(delivered)) \in Seq(uint8_t)
  BY <1>1, <1>2, BytesFacts DEF StreamInv, Typed, Stream
<1>4. Len(Stream) \in Nat /\ Cut \in Nat
  BY <1>3, SeqFacts DEF Cut
<1> QED
  BY <1>1, <1>2, <1>3, <1>4 DEF StreamInv, Typed

\* While there are packets to come, read_buf_ begins like the encoding of the
\* next one, as far as it goes.
LEMMA NextInBuffer ==
    ASSUME StreamInv, Len(delivered) < Len(outbox)
    PROVE  LET e == encode(outbox[Len(delivered) + 1])
           IN  /\ Len(e) \in Nat /\ Len(Bytes(Len(delivered) + 1)) = Cut + Len(e)
               /\ Cut + Len(e) <= Len(Stream)
               /\ \A i \in 1..Len(read_buf_) : i <= Len(e) => read_buf_[i] = e[i]
<1> DEFINE d == Len(delivered)
           e == encode(outbox[d + 1])
<1>1. d \in Nat /\ Len(read_buf_) \in Nat /\ Cut \in Nat /\ Len(outbox) \in Nat
      /\ outbox \in Seq(Packets)
  BY LengthFacts DEF StreamInv, Typed
<1>2. /\ Len(Bytes(d + 1)) = Len(Bytes(d)) + Len(e) /\ Len(Bytes(d + 1)) <= Len(Stream)
      /\ \A i \in 1..Len(e) : Stream[Len(Bytes(d)) + i] = e[i]
  BY <1>1, PacketInStream
<1>3. e \in Seq(uint8_t)
  BY <1>1, SentFacts
<1>4. Len(e) \in Nat
  BY <1>3, SeqFacts
<1>5. Len(Bytes(d)) = Cut
  BY DEF Cut
<1> HIDE DEF d, e
<1>6. \A i \in 1..Len(read_buf_) : i <= Len(e) => read_buf_[i] = e[i]
  BY <1>1, <1>2, <1>4, <1>5 DEF StreamInv, BufferRight
<1> QED
  BY <1>2, <1>4, <1>5, <1>6 DEF d, e

\* When the length of the next packet has arrived, peek_packet_length reads it,
\* and when the packet has, the two readers cut out the packet and its data.
LEMMA NextDecoded ==
    ASSUME StreamInv, Len(read_buf_) >= 4
    PROVE  LET p == outbox[Len(delivered) + 1]
               len == peek_packet_length(read_buf_)
           IN  /\ Len(delivered) < Len(outbox)
               /\ len = Len(encode(p)) /\ len \in Nat /\ len >= 6
               /\ Len(read_buf_) >= len =>
                      Decoded(read_buf_) = p /\ SubSeq(read_buf_, 7, len) = p.data
<1> DEFINE p == outbox[Len(delivered) + 1]
           e == encode(p)
           len == peek_packet_length(read_buf_)
<1>1. Len(delivered) < Len(outbox)
  <2> SUFFICES ASSUME Len(delivered) = Len(outbox) PROVE FALSE
    BY LengthFacts
  <2>1. Cut = Len(Stream)
    BY DEF Cut, Stream
  <2> QED
    BY <2>1, LengthFacts DEF StreamInv, Typed, BufferRight
<1>2. p \in Packet /\ LengthFits(p)
  <2>1. Len(delivered) + 1 \in 1..Len(outbox)
    BY <1>1, LengthFacts
  <2> QED
    BY <2>1, SentFacts DEF StreamInv, Typed
<1>3. /\ e \in Seq(uint8_t) /\ Len(e) = 6 + Len(p.data) /\ Len(p.data) \in Nat
      /\ peek_packet_length(e) = Len(e) /\ e[5] * 256 + e[6] = p.cmd
      /\ \A i \in 1..Len(p.data) : e[6 + i] = p.data[i]
  BY <1>2, EncodeFacts
<1>4. \A i \in 1..Len(read_buf_) : i <= Len(e) => read_buf_[i] = e[i]
  BY <1>1, NextInBuffer
<1>5. Len(read_buf_) \in Nat
  BY LengthFacts
<1> HIDE DEF p, e
<1>6. len = Len(e)
  <2>1. read_buf_[1] = e[1] /\ read_buf_[2] = e[2] /\ read_buf_[3] = e[3] /\ read_buf_[4] = e[4]
    <3>1. ASSUME NEW i \in 1..4 PROVE i \in 1..Len(read_buf_) /\ i <= Len(e)
      BY <1>3, <1>5
    <3>2. \A i \in 1..4 : read_buf_[i] = e[i]
      BY <1>4, <3>1
    <3> QED
      BY <3>2
  <2>2. ~(Len(read_buf_) < 4) /\ ~(Len(e) < 4)
    BY <1>3, <1>5
  <2> QED
    BY <1>3, <2>1, <2>2 DEF peek_packet_length
<1> HIDE DEF len
<1>7. ASSUME Len(read_buf_) >= len PROVE SubSeq(read_buf_, 7, len) = p.data
  <2>1. p.data \in Seq(uint8_t)
    BY <1>2 DEF Packet
  <2>2. \A i \in 7..len : i \in 1..Len(read_buf_)
    BY <1>3, <1>5, <1>6, <1>7
  <2>3. \A i \in 7..len : read_buf_[i] \in uint8_t
    BY <2>2, SeqFacts DEF StreamInv, Typed
  <2> DEFINE cut == SubSeq(read_buf_, 7, len)
  <2>4. /\ cut \in Seq(uint8_t) /\ Len(cut) = Len(p.data)
        /\ \A i \in 1..Len(p.data) : cut[i] = read_buf_[6 + i]
    <3>1. 7 \in Int /\ len \in Int /\ (7 <= len => len - 7 + 1 = Len(p.data)) /\ len >= 6
      BY <1>3, <1>6
    <3>2. /\ cut \in Seq(uint8_t) /\ Len(cut) = IF 7 <= len THEN len - 7 + 1 ELSE 0
          /\ \A i \in 1..(len - 7 + 1) : cut[i] = read_buf_[7 + i - 1]
      BY <2>3, <3>1, PartFacts
    <3> HIDE DEF cut
    <3>3. Len(cut) = Len(p.data) /\ len - 7 + 1 = Len(p.data)
      BY <1>3, <1>6, <3>1, <3>2
    <3>4. \A i \in 1..Len(p.data) : 7 + i - 1 = 6 + i
      BY <1>3
    <3> QED
      BY <3>2, <3>3, <3>4
  <2> HIDE DEF cut
  <2>5. \A i \in 1..Len(p.data) : cut[i] = p.data[i]
    <3> TAKE i \in 1..Len(p.data)
    <3>1. 6 + i \in 1..Len(read_buf_) /\ 6 + i <= Len(e)
      BY <1>3, <1>5, <1>6, <1>7
    <3> QED
      BY <1>3, <1>4, <2>4, <3>1
  <2>6. cut = p.data
    BY <2>1, <2>4, <2>5, SameSeq
  <2> QED
    BY <2>6 DEF cut
<1>8. ASSUME Len(read_buf_) >= len PROVE Decoded(read_buf_) = p
  <2>1. read_buf_[5] = e[5] /\ read_buf_[6] = e[6]
    BY <1>3, <1>4, <1>5, <1>6, <1>8
  <2>2. SubSeq(read_buf_, 7, peek_packet_length(read_buf_)) = p.data
    BY <1>7, <1>8 DEF len
  <2>3. Decoded(read_buf_) = [cmd |-> p.cmd, data |-> p.data]
    BY <1>3, <2>1, <2>2 DEF Decoded
  <2> QED
    BY <1>2, <2>3 DEF Packet
<1> QED
  BY <1>1, <1>3, <1>6, <1>7, <1>8 DEF p, e, len

-----------------------------------------------------------------------------
(***************************************************************************)
(* The steps                                                               *)
(***************************************************************************)

\* What is the same as long as outbox and delivered are.
LEMMA SameStream ==
    ASSUME outbox' = outbox
    PROVE  Stream' = Stream /\ (delivered' = delivered => Cut' = Cut)
  BY DEF Stream, Cut, Bytes

\* At the start nothing is delivered and nothing waits.
LEMMA InitInv == ASSUME StreamInit PROVE StreamInv
<1>1. outbox \in Seq(Packets) /\ Len(outbox) >= 1 /\ Len(outbox) \in Nat
  BY StreamAssumption DEF StreamInit
<1>2. Bytes(0) = <<>> /\ Stream \in Seq(uint8_t)
  BY <1>1, BytesFacts DEF Stream
<1>3. Len(Stream) \in Nat
  BY <1>2, SeqFacts
<1>4. Len(delivered) = 0 /\ Len(read_buf_) = 0
  BY DEF StreamInit
<1>5. Cut = 0
  BY <1>2, <1>4 DEF Cut
<1>6. Typed
  BY <1>1, <1>3 DEF StreamInit, Typed
<1>7. RightSoFar /\ BufferRight
  BY <1>1, <1>4, <1>5 DEF StreamInit, RightSoFar, BufferRight
<1>8. received < Len(Bytes(Len(delivered) + 1))
  <2>1. 0 \in Nat /\ 0 < Len(outbox) /\ 0 + 1 = 1 /\ 1 \in 1..Len(outbox)
    BY <1>1
  <2>2. outbox[1] \in Packet /\ LengthFits(outbox[1])
    BY <1>1, <2>1, SentFacts
  <2>3. Len(encode(outbox[1])) >= 6
    BY <2>2, EncodeFacts
  <2>4. Len(Bytes(1)) = Len(Bytes(0)) + Len(encode(outbox[1]))
    BY <1>1, <2>1, PacketInStream
  <2>5. Len(encode(outbox[1])) \in Nat
    BY <1>1, <2>1, SentFacts, SeqFacts
  <2> QED
    BY <1>2, <1>4, <2>3, <2>4, <2>5 DEF StreamInit
<1> QED
  BY <1>6, <1>7, <1>8 DEF StreamInv, NothingWaits

\* recv puts the next bytes of the stream behind those in read_buf_.
LEMMA RecvStep == ASSUME StreamInv, NEW n \in 1..MaxRecv, Recv(n) PROVE StreamInv'
<1> DEFINE piece == SubSeq(Stream, received + 1, received + n)
<1>1. /\ n \in Nat /\ received \in Nat /\ received + n <= Len(Stream) /\ Len(Stream) \in Nat
      /\ Len(read_buf_) \in Nat /\ Cut \in Nat /\ Stream \in Seq(uint8_t)
      /\ read_buf_ \in Seq(uint8_t) /\ received = Cut + Len(read_buf_)
  BY StreamAssumption, LengthFacts DEF Recv, StreamInv, Typed, BufferRight
<1>2. read_buf_' = read_buf_ \o piece
  BY DEF Recv
<1>3. /\ piece \in Seq(uint8_t) /\ Len(piece) = n
      /\ \A i \in 1..n : piece[i] = Stream[received + i]
  <2>1. received + 1 \in Int /\ received + n \in Int /\ received + 1 <= received + n
        /\ (received + n) - (received + 1) + 1 = n
    BY <1>1
  <2>2. \A i \in (received + 1)..(received + n) : Stream[i] \in uint8_t
    BY <1>1, SeqFacts
  <2>3. /\ piece \in Seq(uint8_t) /\ Len(piece) = (received + n) - (received + 1) + 1
        /\ \A i \in 1..((received + n) - (received + 1) + 1) :
              piece[i] = Stream[(received + 1) + i - 1]
    BY <2>1, <2>2, PartFacts
  <2>4. \A i \in 1..n : (received + 1) + i - 1 = received + i
    BY <1>1
  <2> HIDE DEF piece
  <2> QED
    BY <2>1, <2>3, <2>4
<1> HIDE DEF piece
<1>4. /\ read_buf_' \in Seq(uint8_t) /\ Len(read_buf_') = Len(read_buf_) + n
      /\ \A i \in 1..(Len(read_buf_) + n) :
            read_buf_'[i] = IF i <= Len(read_buf_) THEN read_buf_[i] ELSE piece[i - Len(read_buf_)]
  <2>1. /\ read_buf_ \o piece \in Seq(uint8_t) /\ Len(read_buf_ \o piece) = Len(read_buf_) + Len(piece)
        /\ \A i \in 1..(Len(read_buf_) + Len(piece)) : (read_buf_ \o piece)[i] =
              IF i <= Len(read_buf_) THEN read_buf_[i] ELSE piece[i - Len(read_buf_)]
    BY <1>1, <1>3, ConcatFacts
  <2> QED
    BY <1>2, <1>3, <2>1
<1>5. ASSUME NEW i \in 1..(Len(read_buf_) + n) PROVE read_buf_'[i] = Stream[Cut + i]
  <2>1. CASE i <= Len(read_buf_)
    <3>1. i \in 1..Len(read_buf_) /\ read_buf_'[i] = read_buf_[i]
      BY <1>1, <1>4, <2>1
    <3>2. read_buf_[i] = Stream[Cut + i]
      BY <3>1 DEF StreamInv, BufferRight
    <3> QED
      BY <3>1, <3>2
  <2>2. CASE ~(i <= Len(read_buf_))
    <3>1. i - Len(read_buf_) \in 1..n /\ received + (i - Len(read_buf_)) = Cut + i
      BY <1>1, <2>2
    <3> QED
      BY <1>3, <1>4, <2>2, <3>1
  <2> QED
    BY <2>1, <2>2
<1>6. Cut' = Cut /\ Stream' = Stream
  BY SameStream DEF Recv
<1>7. Typed'
  BY <1>1, <1>4, <1>6 DEF Recv, StreamInv, Typed
<1>8. RightSoFar'
  BY DEF Recv, StreamInv, RightSoFar
<1>9. BufferRight'
  <2>1. received' = Cut + (Len(read_buf_) + n)
    BY <1>1 DEF Recv
  <2> QED
    BY <1>4, <1>5, <1>6, <2>1 DEF BufferRight
<1>10. NothingWaits'
  BY DEF Recv, NothingWaits
<1> QED
  BY <1>7, <1>8, <1>9, <1>10 DEF StreamInv

\* What process_read and the client's loop have in common: the first packet of
\* read_buf_ is cut off and goes to on_message_, in the form x.
Takes(x) ==
    /\ phase = "parse" /\ Len(read_buf_) >= 4
    /\ Len(read_buf_) >= peek_packet_length(read_buf_)
    /\ x = IF side = "server" THEN Decoded(read_buf_)
           ELSE SubSeq(read_buf_, 7, peek_packet_length(read_buf_))
    /\ read_buf_' = SubSeq(read_buf_, peek_packet_length(read_buf_) + 1, Len(read_buf_))
    /\ delivered' = Append(delivered, x)
    /\ UNCHANGED <<side, outbox, received, phase>>

\* What is cut off is the next packet sent, and read_buf_ goes on behind it.
LEMMA TakesStep == ASSUME StreamInv, NEW x, Takes(x) PROVE StreamInv'
<1> DEFINE d == Len(delivered)
           p == outbox[d + 1]
           e == encode(p)
           len == peek_packet_length(read_buf_)
           T == IF side = "server" THEN Packet ELSE Seq(uint8_t)
<1>1. /\ d < Len(outbox) /\ len = Len(e) /\ len \in Nat /\ len >= 6 /\ Len(read_buf_) >= len
      /\ Decoded(read_buf_) = p /\ SubSeq(read_buf_, 7, len) = p.data
  BY NextDecoded DEF Takes
<1>2. /\ d \in Nat /\ Len(outbox) \in Nat /\ Len(read_buf_) \in Nat /\ Cut \in Nat
      /\ received = Cut + Len(read_buf_) /\ read_buf_ \in Seq(uint8_t)
      /\ \A i \in 1..Len(read_buf_) : read_buf_[i] = Stream[Cut + i]
  BY LengthFacts DEF StreamInv, Typed, BufferRight
<1>3. Len(Bytes(d + 1)) = Cut + len
  BY <1>1, NextInBuffer
<1>4. p \in Packet
  <2>1. d + 1 \in 1..Len(outbox)
    BY <1>1, <1>2
  <2> QED
    BY <2>1, SentFacts DEF StreamInv, Typed
<1>5. x = IF side = "server" THEN p ELSE p.data
  BY <1>1 DEF Takes
<1> HIDE DEF len, e
<1>6. /\ delivered' \in Seq(T) /\ Len(delivered') = d + 1 /\ delivered'[d + 1] = x
      /\ \A i \in 1..d : delivered'[i] = delivered[i]
  <2>1. x \in T
    BY <1>4, <1>5 DEF Packet
  <2>2. delivered \in Seq(T) /\ delivered' = Append(delivered, x)
    BY DEF StreamInv, Typed, Takes
  <2> HIDE DEF T
  <2> QED
    BY <2>1, <2>2, BackFacts
<1> HIDE DEF d, p
<1>7. /\ read_buf_' \in Seq(uint8_t) /\ Len(read_buf_') = Len(read_buf_) - len
      /\ \A i \in 1..(Len(read_buf_) - len) : read_buf_'[i] = read_buf_[len + i]
  <2>1. read_buf_' = SubSeq(read_buf_, len + 1, Len(read_buf_))
    BY DEF Takes, len
  <2>2. \A i \in (len + 1)..Len(read_buf_) : read_buf_[i] \in uint8_t
    BY <1>1, <1>2, SeqFacts
  <2>3. /\ SubSeq(read_buf_, len + 1, Len(read_buf_)) \in Seq(uint8_t)
        /\ Len(SubSeq(read_buf_, len + 1, Len(read_buf_))) =
              IF len + 1 <= Len(read_buf_) THEN Len(read_buf_) - (len + 1) + 1 ELSE 0
        /\ \A i \in 1..(Len(read_buf_) - (len + 1) + 1) :
              SubSeq(read_buf_, len + 1, Len(read_buf_))[i] = read_buf_[(len + 1) + i - 1]
    <3>1. len + 1 \in Int /\ Len(read_buf_) \in Int
      BY <1>1, <1>2
    <3> QED
      BY <2>2, <3>1, PartFacts
  <2>4. Len(read_buf_) - (len + 1) + 1 = Len(read_buf_) - len
    BY <1>1, <1>2
  <2>5. \A i \in 1..(Len(read_buf_) - len) : (len + 1) + i - 1 = len + i
    BY <1>1, <1>2
  <2>6. ~(len + 1 <= Len(read_buf_)) => Len(read_buf_) - len = 0
    BY <1>1, <1>2
  <2> QED
    BY <2>1, <2>3, <2>4, <2>5, <2>6
<1>8. Stream' = Stream /\ Cut' = Cut + len
  <2>1. outbox' = outbox
    BY DEF Takes
  <2>2. Stream' = Stream
    BY <2>1, SameStream
  <2>3. Bytes(Len(delivered))' = Bytes(d + 1)
    BY <1>6, <2>1 DEF Bytes
  <2> QED
    BY <1>3, <2>2, <2>3 DEF Cut
<1>9. Typed'
  BY <1>6, <1>7, <1>8 DEF StreamInv, Typed, Takes
<1>10. RightSoFar'
  <2>1. Len(delivered') <= Len(outbox')
    BY <1>1, <1>2, <1>6 DEF Takes, d
  <2>2. ASSUME NEW i \in 1..(d + 1)
        PROVE  delivered'[i] = IF side = "server" THEN outbox[i] ELSE outbox[i].data
    <3>1. CASE i = d + 1
      BY <1>5, <1>6, <3>1 DEF p
    <3>2. CASE i # d + 1
      <4>1. i \in 1..d
        BY <1>2, <3>2
      <4>2. delivered[i] = IF side = "server" THEN outbox[i] ELSE outbox[i].data
        BY <4>1 DEF StreamInv, RightSoFar, d
      <4> QED
        BY <1>6, <4>1, <4>2
    <3> QED
      BY <3>1, <3>2
  <2>3. side' = side /\ outbox' = outbox
    BY DEF Takes
  <2> QED
    BY <1>6, <2>1, <2>2, <2>3 DEF RightSoFar
<1>11. BufferRight'
  <2>1. received' = (Cut + len) + (Len(read_buf_) - len)
    BY <1>1, <1>2 DEF Takes
  <2>2. ASSUME NEW i \in 1..(Len(read_buf_) - len) PROVE read_buf_'[i] = Stream[(Cut + len) + i]
    <3>1. len + i \in 1..Len(read_buf_) /\ Cut + (len + i) = (Cut + len) + i
      BY <1>1, <1>2
    <3> QED
      BY <1>2, <1>7, <3>1
  <2> QED
    BY <1>7, <1>8, <2>1, <2>2 DEF BufferRight
<1>12. NothingWaits'
  BY DEF Takes, NothingWaits
<1> QED
  BY <1>9, <1>10, <1>11, <1>12 DEF StreamInv

\* process_read decodes only what has its length.
LEMMA ProcessReadStep == ASSUME StreamInv, ProcessRead PROVE StreamInv'
<1>1. Len(read_buf_) \in Nat
  BY LengthFacts
<1>2. Len(read_buf_) >= 4 /\ Len(read_buf_) >= peek_packet_length(read_buf_)
  BY <1>1 DEF ProcessRead, Decodable, peek_packet_length
<1>3. Takes(Decoded(read_buf_))
  BY <1>2 DEF ProcessRead, Takes
<1> QED
  BY <1>3, TakesStep

\* The client's loop looks for the four bytes itself.
LEMMA ClientParseStep == ASSUME StreamInv, ClientParse PROVE StreamInv'
<1>1. Takes(SubSeq(read_buf_, 7, peek_packet_length(read_buf_)))
  BY DEF ClientParse, ClientComplete, Takes
<1> QED
  BY <1>1, TakesStep

\* The readers give up only when the next packet is not whole: a length that
\* has arrived is not 0.
LEMMA ProcessNothingStep == ASSUME StreamInv, ProcessNothing PROVE StreamInv'
<1>1. Typed' /\ RightSoFar' /\ BufferRight'
  <2>1. Stream' = Stream /\ Cut' = Cut
    BY SameStream DEF ProcessNothing
  <2> QED
    BY <2>1 DEF ProcessNothing, StreamInv, Typed, RightSoFar, BufferRight
<1>2. /\ Len(read_buf_) \in Nat /\ Cut \in Nat /\ Len(delivered) \in 0..Len(outbox)
      /\ Len(outbox) \in Nat /\ received = Cut + Len(read_buf_)
  BY LengthFacts DEF StreamInv, BufferRight
<1>3. ASSUME Len(delivered) # Len(outbox) PROVE received < Len(Bytes(Len(delivered) + 1))
  <2> DEFINE p == outbox[Len(delivered) + 1]
             e == encode(p)
  <2>1. Len(delivered) < Len(outbox) /\ Len(delivered) + 1 \in 1..Len(outbox)
    BY <1>2, <1>3
  <2>2. Len(e) \in Nat /\ Len(Bytes(Len(delivered) + 1)) = Cut + Len(e)
    BY <2>1, NextInBuffer
  <2>3. Len(e) >= 6
    <3>1. p \in Packet /\ LengthFits(p)
      BY <2>1, SentFacts DEF StreamInv, Typed
    <3> HIDE DEF p
    <3>2. Len(e) = 6 + Len(p.data) /\ Len(p.data) \in Nat
      BY <3>1, EncodeFacts
    <3> QED
      BY <3>2
  <2> HIDE DEF e
  <2>4. Len(read_buf_) < Len(e)
    <3>1. CASE Len(read_buf_) < 4
      BY <1>2, <2>2, <2>3, <3>1
    <3>2. CASE Len(read_buf_) >= 4
      <4>1. peek_packet_length(read_buf_) = Len(e)
        BY <3>2, NextDecoded DEF e
      <4>2. peek_packet_length(read_buf_) # 0
        BY <2>2, <2>3, <4>1
      <4>3. ~(Len(read_buf_) >= peek_packet_length(read_buf_))
        BY <3>2, <4>2 DEF ProcessNothing, Decodable, ClientComplete
      <4> QED
        BY <1>2, <2>2, <4>1, <4>3
    <3> QED
      BY <1>2, <3>1, <3>2
  <2> QED
    BY <1>2, <2>2, <2>4
<1>4. NothingWaits'
  <2>1. delivered' = delivered /\ outbox' = outbox /\ received' = received
    BY DEF ProcessNothing
  <2>2. Bytes(Len(delivered) + 1)' = Bytes(Len(delivered) + 1)
    BY <2>1 DEF Bytes
  <2> QED
    BY <1>3, <2>1, <2>2 DEF NothingWaits
<1> QED
  BY <1>1, <1>4 DEF StreamInv

\* Every step keeps the invariant.
LEMMA NextStep == ASSUME StreamInv, [StreamNext]_stream_vars PROVE StreamInv'
<1>1. ASSUME NEW n \in 1..MaxRecv, Recv(n) PROVE StreamInv'
  BY <1>1, RecvStep
<1>2. CASE ProcessRead
  BY <1>2, ProcessReadStep
<1>3. CASE ClientParse
  BY <1>3, ClientParseStep
<1>4. CASE ProcessNothing
  BY <1>4, ProcessNothingStep
<1>5. CASE UNCHANGED stream_vars
  <2>1. /\ side' = side /\ outbox' = outbox /\ received' = received /\ read_buf_' = read_buf_
        /\ delivered' = delivered /\ phase' = phase
    BY <1>5 DEF stream_vars
  <2>2. Stream' = Stream /\ Cut' = Cut
    BY <2>1, SameStream
  <2>3. Bytes(Len(delivered) + 1)' = Bytes(Len(delivered) + 1)
    BY <2>1 DEF Bytes
  <2> QED
    BY <2>1, <2>2, <2>3 DEF StreamInv, Typed, RightSoFar, BufferRight, NothingWaits
<1> QED
  BY <1>1, <1>2, <1>3, <1>4, <1>5 DEF StreamNext

\* read_buf_ is always what has arrived of the packets not delivered yet.
THEOREM StreamFollowed == StreamSpec => []StreamInv
<1>1. StreamInit => StreamInv
  BY InitInv
<1>2. StreamInv /\ [StreamNext]_stream_vars => StreamInv'
  BY NextStep
<1> QED
  BY <1>1, <1>2, PTL DEF StreamSpec

\* process_read and the client's loop deliver the packets sent, in their order,
\* each with its cmd and its data, wherever recv cuts the stream.
THEOREM PacketsAsSent == StreamSpec => []DeliveredAsSent
<1>1. StreamInv => DeliveredAsSent
  BY DEF StreamInv, Typed, RightSoFar, DeliveredAsSent, StreamTypeOK
<1> QED
  BY <1>1, StreamFollowed, PTL

\* No packet waits in read_buf_ for the next one to arrive.
THEOREM PacketsPromptly == StreamSpec => []DeliveredPromptly
<1>1. ASSUME StreamInv PROVE DeliveredPromptly
  <2> SUFFICES ASSUME phase = "recv", NEW n \in 1..Len(outbox), Len(Bytes(n)) <= received,
                      ~(n <= Len(delivered))
               PROVE  FALSE
    BY DEF DeliveredPromptly
  <2> DEFINE d == Len(delivered)
  <2>1. /\ d \in 0..Len(outbox) /\ Len(outbox) \in Nat /\ received \in Nat
        /\ outbox \in Seq(Packets)
    BY <1>1, LengthFacts DEF StreamInv, Typed
  <2>2. d + 1 \in 0..Len(outbox) /\ n \in (d + 1)..Len(outbox) /\ n \in 0..Len(outbox)
        /\ d # Len(outbox)
    BY <2>1
  <2>3. received < Len(Bytes(d + 1))
    BY <1>1, <2>2 DEF StreamInv, NothingWaits
  <2>4. Len(Bytes(d + 1)) <= Len(Bytes(n))
    BY <2>1, <2>2, BytesPrefix
  <2>5. Len(Bytes(d + 1)) \in Nat /\ Len(Bytes(n)) \in Nat
    BY <2>1, <2>2, BytesFacts, SeqFacts
  <2> QED
    BY <2>1, <2>3, <2>4, <2>5
<1> QED
  BY <1>1, StreamFollowed, PTL

-----------------------------------------------------------------------------
(***************************************************************************)
(* The gateway.  The types, and what makes RepliesRight inductive: a job   *)
(* whose session has never connected is new, so that a session that        *)
(* connects owes no answer; and only a job that ran was answered for, so   *)
(* that the one answer of a job is not followed by another.                *)
(***************************************************************************)

Mutexes == {"conn_mutex_", "queue_mutex_", "log"}

ServerTyped ==
    /\ connections_ \subseteq Sessions /\ left \subseteq Sessions
    /\ mutex_ \in Jobs \cup {None} /\ missed \in BOOLEAN

MainTyped ==
    /\ main \in Seq(Mutexes)
    /\ handler \in {"none", "log", "stop", "shutdown", "join", "exited"}

JobsTyped ==
    /\ state \in [Jobs -> Pool!States]
    /\ cmd \in [Jobs -> Cmds \cup {None}]
    /\ replies \in [Sessions -> Seq(Jobs)]

Wanted(j) == cmd[j] \in {"LOGIN", "DATA"}

AnswerInv ==
    /\ \A j \in Jobs : state[j] # "new" => j[1] \in connections_ \cup left
    /\ \A s \in Sessions : IsInjective(replies[s])
    /\ \A s \in Sessions : \A i \in 1..Len(replies[s]) :
           /\ replies[s][i][1] = s /\ Wanted(replies[s][i])
           /\ state[replies[s][i]] = "ran"
    /\ \A j \in Jobs : state[j] = "ran" /\ Wanted(j) /\ j[1] \in connections_
           => \E i \in 1..Len(replies[j[1]]) : replies[j[1]][i] = j

GatewayInv == ServerTyped /\ MainTyped /\ JobsTyped /\ AnswerInv

\* A job is of one of the sessions.
LEMMA JobSession == \A j \in Jobs : j[1] \in Sessions
BY DEF Sessions

\* The elements of a sequence by their places.
LEMMA PlacesOf ==
    ASSUME NEW T, NEW q \in Seq(T)
    PROVE  Range(q) = {q[i] : i \in 1..Len(q)} /\ \A x : x \in Range(q) <=> \E i \in 1..Len(q) : q[i] = x
BY SeqFacts DEF Range

\* An element put behind a sequence that does not have it keeps it injective.
LEMMA InjectiveAppend ==
    ASSUME NEW T, NEW q \in Seq(T), NEW x \in T, IsInjective(q), \A i \in 1..Len(q) : q[i] # x
    PROVE  IsInjective(Append(q, x))
<1>1. /\ Append(q, x) \in Seq(T) /\ Len(Append(q, x)) = Len(q) + 1 /\ Len(q) \in Nat
      /\ \A i \in 1..Len(q) : Append(q, x)[i] = q[i]
      /\ Append(q, x)[Len(q) + 1] = x
      /\ DOMAIN Append(q, x) = 1..(Len(q) + 1) /\ DOMAIN q = 1..Len(q)
  BY BackFacts, SeqFacts
<1> QED
  BY <1>1 DEF IsInjective

\* The steps that submit, start and end no job: sessions come and go, the
\* mutex of Router is taken, the main thread reports or stops the gateway.  A
\* session that comes has not been there before.
Quiet ==
    /\ UNCHANGED <<state, cmd, replies>>
    /\ connections_ \cup left \subseteq connections_' \cup left'
    /\ \A s \in connections_' : s \in connections_ \/ s \notin connections_ \cup left

\* Every step of the gateway but three is quiet.
LEMMA QuietSteps ==
    ASSUME ServerTyped, Next
    PROVE  \/ Quiet
           \/ \E j \in Jobs : Begin(j) \/ Handle(j) \/ \E c \in Cmds : OnMessage(j, c)
<1> USE DEF Quiet, pvars
<1>1. CASE Report \/ Signal
  BY <1>1 DEF Report, Signal
<1>2. CASE HandlerLog \/ HandlerStop
  BY <1>2 DEF HandlerLog, HandlerStop
<1>3. CASE HandlerShutdown \/ HandlerExit
  BY <1>3 DEF HandlerShutdown, HandlerExit, Pool!BeginClose, Pool!EndClose
<1>4. ASSUME NEW s \in Sessions, Connect(s) \/ Disconnect(s) PROVE Quiet
  BY <1>4 DEF Connect, Disconnect
<1>5. ASSUME NEW j \in Jobs, route(j) PROVE Quiet
  BY <1>5 DEF route
<1> QED
  BY <1>1, <1>2, <1>3, <1>4, <1>5 DEF Next, Handler

\* The sessions of the server and the holder of the mutex.
LEMMA ServerKept == ServerTyped /\ Next => ServerTyped'
<1> SUFFICES ASSUME ServerTyped, Next PROVE ServerTyped'
  OBVIOUS
<1> USE DEF ServerTyped, pvars
<1>1. CASE Report \/ Signal \/ HandlerLog
  BY <1>1 DEF Report, Signal, HandlerLog
<1>2. CASE HandlerStop
  BY <1>2 DEF HandlerStop
<1>3. CASE HandlerShutdown \/ HandlerExit
  BY <1>3 DEF HandlerShutdown, HandlerExit
<1>4. ASSUME NEW s \in Sessions, Connect(s) \/ Disconnect(s) PROVE ServerTyped'
  BY <1>4 DEF Connect, Disconnect
<1>5. ASSUME NEW j \in Jobs, Begin(j) \/ route(j) \/ Handle(j) PROVE ServerTyped'
  BY <1>5 DEF Begin, route, Handle
<1>6. ASSUME NEW j \in Jobs, NEW c \in Cmds, OnMessage(j, c) PROVE ServerTyped'
  BY <1>6 DEF OnMessage
<1> QED
  BY <1>1, <1>2, <1>3, <1>4, <1>5, <1>6 DEF Next, Handler

\* The mutexes that main still takes, and the place of the signal handler.
LEMMA MainKept == MainTyped /\ Next => MainTyped'
<1> SUFFICES ASSUME MainTyped, Next PROVE MainTyped'
  OBVIOUS
<1> USE DEF MainTyped
<1>1. CASE Report
  <2>1. CASE main = <<>>
    <3>1. \A x, y, z \in Mutexes : <<x, y, z>> \in Seq(Mutexes)
      OBVIOUS
    <3>2. "conn_mutex_" \in Mutexes /\ "queue_mutex_" \in Mutexes /\ "log" \in Mutexes
      BY DEF Mutexes
    <3>3. main' \in Seq(Mutexes)
      BY <1>1, <2>1, <3>1, <3>2 DEF Report
    <3> QED
      BY <1>1, <3>3 DEF Report
  <2>2. CASE main # <<>>
    BY <1>1, <2>2, TailFacts DEF Report
  <2> QED
    BY <2>1, <2>2
<1>2. CASE Signal \/ Handler
  BY <1>2 DEF Signal, Handler, HandlerLog, HandlerStop, HandlerShutdown, HandlerExit
<1>3. ASSUME NEW s \in Sessions, Connect(s) \/ Disconnect(s) PROVE MainTyped'
  BY <1>3 DEF Connect, Disconnect
<1>4. ASSUME NEW j \in Jobs, Begin(j) \/ route(j) \/ Handle(j) PROVE MainTyped'
  BY <1>4 DEF Begin, route, Handle
<1>5. ASSUME NEW j \in Jobs, NEW c \in Cmds, OnMessage(j, c) PROVE MainTyped'
  BY <1>5 DEF OnMessage
<1> QED
  BY <1>1, <1>2, <1>3, <1>4, <1>5 DEF Next

\* A quiet step keeps the jobs, their commands and the answers.
LEMMA QuietKeeps == JobsTyped /\ AnswerInv /\ Quiet => JobsTyped' /\ AnswerInv'
BY DEF JobsTyped, AnswerInv, Quiet, Wanted

\* What was answered has run.
LEMMA Answered ==
    ASSUME JobsTyped, AnswerInv, NEW j \in Jobs, state[j] # "ran"
    PROVE  \A s \in Sessions : \A i \in 1..Len(replies[s]) : replies[s][i] \in Jobs /\ replies[s][i] # j
<1> TAKE s \in Sessions
<1> TAKE i \in 1..Len(replies[s])
<1>1. replies[s] \in Seq(Jobs)
  BY DEF JobsTyped
<1>2. state[replies[s][i]] = "ran"
  BY DEF AnswerInv
<1> QED
  BY <1>1, <1>2

\* A packet arrives: its job was new, and no answer mentions it.
LEMMA MessageKeeps ==
    ASSUME JobsTyped, AnswerInv, NEW j \in Jobs, NEW c \in Cmds, OnMessage(j, c)
    PROVE  JobsTyped' /\ AnswerInv'
<1>1. /\ state[j] = "new" /\ state' = [state EXCEPT ![j] = "pending"]
      /\ cmd' = [cmd EXCEPT ![j] = c]
      /\ j[1] \in connections_ \cup left /\ UNCHANGED <<connections_, left, replies>>
  BY DEF OnMessage, Pool!Accept
<1>2. JobsTyped'
  BY <1>1 DEF JobsTyped, Pool!States
<1>3. \A k \in Jobs : k # j => state'[k] = state[k] /\ cmd'[k] = cmd[k]
  BY <1>1 DEF JobsTyped
<1>4. state'[j] = "pending"
  BY <1>1 DEF JobsTyped
<1>5. \A s \in Sessions : \A i \in 1..Len(replies[s]) : replies[s][i] \in Jobs /\ replies[s][i] # j
  BY <1>1, Answered
<1>6. AnswerInv'
  <2>1. (\A k \in Jobs : state[k] # "new" => k[1] \in connections_ \cup left)'
    BY <1>1, <1>3 DEF AnswerInv
  <2>2. (\A s \in Sessions : IsInjective(replies[s]))'
    BY <1>1 DEF AnswerInv
  <2>3. (\A s \in Sessions : \A i \in 1..Len(replies[s]) :
          replies[s][i][1] = s /\ Wanted(replies[s][i]) /\ state[replies[s][i]] = "ran")'
    BY <1>1, <1>3, <1>5 DEF AnswerInv, Wanted
  <2>4. (\A k \in Jobs : state[k] = "ran" /\ Wanted(k) /\ k[1] \in connections_
          => \E i \in 1..Len(replies[k[1]]) : replies[k[1]][i] = k)'
    BY <1>1, <1>3, <1>4 DEF AnswerInv, Wanted
  <2> QED
    BY <2>1, <2>2, <2>3, <2>4 DEF AnswerInv
<1> QED
  BY <1>2, <1>6

\* A worker begins a job.
LEMMA BeginKeeps ==
    ASSUME JobsTyped, AnswerInv, NEW j \in Jobs, Begin(j)
    PROVE  JobsTyped' /\ AnswerInv'
<1>1. /\ state[j] = "pending" /\ state' = [state EXCEPT ![j] = "running"]
      /\ UNCHANGED <<connections_, left, replies, cmd>>
  BY DEF Begin, Pool!Start, Pool!Move
<1>2. JobsTyped'
  BY <1>1 DEF JobsTyped, Pool!States
<1>3. (\A k \in Jobs : k # j => state'[k] = state[k]) /\ state'[j] = "running"
  BY <1>1 DEF JobsTyped
<1>4. \A s \in Sessions : \A i \in 1..Len(replies[s]) : replies[s][i] \in Jobs /\ replies[s][i] # j
  BY <1>1, Answered
<1> QED
  BY <1>1, <1>2, <1>3, <1>4 DEF AnswerInv, Wanted

\* A handler answers, if its command wants it and the session is still there.
LEMMA HandleKeeps ==
    ASSUME JobsTyped, AnswerInv, NEW j \in Jobs, Handle(j)
    PROVE  JobsTyped' /\ AnswerInv'
<1>1. /\ state[j] = "running" /\ state' = [state EXCEPT ![j] = "ran"]
      /\ UNCHANGED <<connections_, left, cmd>>
      /\ IF Wanted(j) THEN Reply(j) ELSE UNCHANGED replies
  BY DEF Handle, Pool!Finish, Pool!Move, Wanted
<1>2. (\A k \in Jobs : k # j => state'[k] = state[k]) /\ state'[j] = "ran"
  BY <1>1 DEF JobsTyped
<1>3. \A s \in Sessions : \A i \in 1..Len(replies[s]) : replies[s][i] \in Jobs /\ replies[s][i] # j
  BY <1>1, Answered
<1>4. state' \in [Jobs -> Pool!States] /\ cmd' \in [Jobs -> Cmds \cup {None}]
  BY <1>1 DEF JobsTyped, Pool!States
<1>5. CASE UNCHANGED replies /\ ~(Wanted(j) /\ j[1] \in connections_)
  <2>1. (\A k \in Jobs : state[k] # "new" => k[1] \in connections_ \cup left)'
    BY <1>1, <1>2 DEF AnswerInv
  <2>2. (\A s \in Sessions : IsInjective(replies[s]))'
    BY <1>5 DEF AnswerInv
  <2>3. (\A s \in Sessions : \A i \in 1..Len(replies[s]) :
          replies[s][i][1] = s /\ Wanted(replies[s][i]) /\ state[replies[s][i]] = "ran")'
    BY <1>1, <1>2, <1>3, <1>5 DEF AnswerInv, Wanted
  <2>4. (\A k \in Jobs : state[k] = "ran" /\ Wanted(k) /\ k[1] \in connections_
          => \E i \in 1..Len(replies[k[1]]) : replies[k[1]][i] = k)'
    BY <1>1, <1>2, <1>5 DEF AnswerInv, Wanted
  <2> QED
    BY <2>1, <2>2, <2>3, <2>4, <1>4, <1>5 DEF AnswerInv, JobsTyped
<1>6. CASE Wanted(j) /\ j[1] \in connections_ /\ replies' = [replies EXCEPT ![j[1]] = Append(@, j)]
  <2>1. j[1] \in Sessions /\ replies[j[1]] \in Seq(Jobs)
    BY JobSession DEF JobsTyped
  <2>2. replies'[j[1]] = Append(replies[j[1]], j)
        /\ \A s \in Sessions : s # j[1] => replies'[s] = replies[s]
    BY <1>6, <2>1 DEF JobsTyped
  <2>3. /\ replies'[j[1]] \in Seq(Jobs) /\ Len(replies[j[1]]) \in Nat
        /\ Len(replies'[j[1]]) = Len(replies[j[1]]) + 1
        /\ \A i \in 1..Len(replies[j[1]]) : replies'[j[1]][i] = replies[j[1]][i]
        /\ replies'[j[1]][Len(replies[j[1]]) + 1] = j
    BY <2>1, <2>2, BackFacts, SeqFacts
  <2>4. JobsTyped'
    BY <1>4, <1>6, <2>1, <2>3 DEF JobsTyped
  <2>5. \A s \in Sessions : IsInjective(replies'[s])
    <3>1. IsInjective(replies'[j[1]])
      <4>1. IsInjective(replies[j[1]]) /\ \A i \in 1..Len(replies[j[1]]) : replies[j[1]][i] # j
        BY <1>3, <2>1 DEF AnswerInv
      <4> QED
        BY <2>1, <2>2, <4>1, InjectiveAppend
    <3> QED
      BY <2>2, <3>1 DEF AnswerInv
  <2>6. \A s \in Sessions : \A i \in 1..Len(replies'[s]) :
           replies'[s][i][1] = s /\ Wanted(replies'[s][i]) /\ state'[replies'[s][i]] = "ran"
    <3> TAKE s \in Sessions
    <3> TAKE i \in 1..Len(replies'[s])
    <3>0. \A k \in 1..Len(replies[s]) :
             replies[s][k][1] = s /\ Wanted(replies[s][k]) /\ state'[replies[s][k]] = "ran"
      <4>1. \A k \in 1..Len(replies[s]) :
               replies[s][k][1] = s /\ Wanted(replies[s][k]) /\ state[replies[s][k]] = "ran"
        BY DEF AnswerInv
      <4> QED
        BY <1>2, <1>3, <4>1
    <3>1. CASE s # j[1]
      <4>1. replies'[s] = replies[s]
        BY <2>2, <3>1
      <4> QED
        BY <3>0, <4>1
    <3>2. CASE s = j[1] /\ i \in 1..Len(replies[s])
      <4>1. replies'[s][i] = replies[s][i]
        BY <2>3, <3>2
      <4> QED
        BY <3>0, <3>2, <4>1
    <3>3. CASE s = j[1] /\ i = Len(replies[s]) + 1
      BY <1>2, <1>6, <2>3, <3>3
    <3>4. s = j[1] => i \in 1..Len(replies[s]) \/ i = Len(replies[s]) + 1
      BY <2>3
    <3> QED
      BY <3>1, <3>2, <3>3, <3>4
  <2>7. \A k \in Jobs : state'[k] = "ran" /\ Wanted(k) /\ k[1] \in connections_
           => \E i \in 1..Len(replies'[k[1]]) : replies'[k[1]][i] = k
    <3> SUFFICES ASSUME NEW k \in Jobs, state'[k] = "ran", Wanted(k), k[1] \in connections_
                 PROVE  \E i \in 1..Len(replies'[k[1]]) : replies'[k[1]][i] = k
      OBVIOUS
    <3>1. CASE k = j
      <4>1. Len(replies[j[1]]) + 1 \in 1..Len(replies'[j[1]])
        BY <2>3
      <4> QED
        BY <2>3, <3>1, <4>1
    <3>2. CASE k # j
      <4>1. PICK i \in 1..Len(replies[k[1]]) : replies[k[1]][i] = k
        BY <1>2, <3>2 DEF AnswerInv
      <4>2. CASE k[1] = j[1]
        <5>1. i \in 1..Len(replies'[k[1]])
          BY <2>3, <4>2
        <5> QED
          BY <2>3, <4>1, <4>2, <5>1
      <4>3. CASE k[1] # j[1]
        BY <2>2, <4>1, <4>3, JobSession
      <4> QED
        BY <4>2, <4>3
    <3> QED
      BY <3>1, <3>2
  <2>8. \A k \in Jobs : state'[k] # "new" => k[1] \in connections_ \cup left
    BY <1>1, <1>2 DEF AnswerInv
  <2>9. AnswerInv'
    <3>1. (\A k \in Jobs : state[k] # "new" => k[1] \in connections_ \cup left)'
      BY <1>1, <2>8
    <3>2. (\A s \in Sessions : IsInjective(replies[s]))'
      BY <2>5
    <3>3. (\A s \in Sessions : \A i \in 1..Len(replies[s]) :
            replies[s][i][1] = s /\ Wanted(replies[s][i]) /\ state[replies[s][i]] = "ran")'
      BY <1>1, <2>6 DEF Wanted
    <3>4. (\A k \in Jobs : state[k] = "ran" /\ Wanted(k) /\ k[1] \in connections_
            => \E i \in 1..Len(replies[k[1]]) : replies[k[1]][i] = k)'
      BY <1>1, <2>7 DEF Wanted
    <3> QED
      BY <3>1, <3>2, <3>3, <3>4 DEF AnswerInv
  <2> QED
    BY <2>4, <2>9
<1> QED
  BY <1>1, <1>5, <1>6 DEF Reply

\* A session is answered only for packets of its own that want an answer, once
\* each, and a session that is still there has the answer of every job of its
\* own that went through its handler.
THEOREM AnswersRight == MCSpec => []RepliesRight
<1>1. MCInit => GatewayInv
  <2> SUFFICES ASSUME MCInit PROVE GatewayInv
    OBVIOUS
  <2> USE DEF MCInit, Init, Pool!Init
  <2>1. ServerTyped
    BY DEF ServerTyped
  <2>2. MainTyped
    BY DEF MainTyped
  <2>3. JobsTyped
    BY DEF JobsTyped, Pool!States
  <2>4. AnswerInv
    BY DEF AnswerInv, IsInjective
  <2> QED
    BY <2>1, <2>2, <2>3, <2>4 DEF GatewayInv
<1>2. GatewayInv /\ [MCNext]_allvars => GatewayInv'
  <2> SUFFICES ASSUME GatewayInv, [MCNext]_allvars PROVE GatewayInv'
    OBVIOUS
  <2>1. CASE Next
    <3>1. ServerTyped' /\ MainTyped'
      BY <2>1, ServerKept, MainKept DEF GatewayInv
    <3>2. JobsTyped' /\ AnswerInv'
      BY <2>1, QuietSteps, QuietKeeps, MessageKeeps, BeginKeeps, HandleKeeps DEF GatewayInv
    <3> QED
      BY <3>1, <3>2 DEF GatewayInv
  <2>2. CASE UNCHANGED vars
    <3>1. Quiet
      BY <2>2 DEF vars, pvars, Quiet
    <3>2. JobsTyped' /\ AnswerInv'
      BY <3>1, QuietKeeps DEF GatewayInv
    <3>3. ServerTyped' /\ MainTyped'
      BY <2>2 DEF vars, pvars, GatewayInv, ServerTyped, MainTyped
    <3> QED
      BY <3>2, <3>3 DEF GatewayInv
  <2> QED
    BY <2>1, <2>2 DEF MCNext, allvars
<1>3. GatewayInv => RepliesRight
  <2> SUFFICES ASSUME GatewayInv PROVE RepliesRight
    OBVIOUS
  <2>1. /\ \A x : x \in Range(main) <=> \E i \in 1..Len(main) : main[i] = x
        /\ \A s \in Sessions : \A x : x \in Range(replies[s]) <=>
               \E i \in 1..Len(replies[s]) : replies[s][i] = x
    BY PlacesOf DEF GatewayInv, MainTyped, JobsTyped
  <2>2. TypeOK
    <3>1. \A s \in Sessions : Range(replies[s]) \subseteq Jobs
      BY <2>1 DEF GatewayInv, JobsTyped
    <3>2. Range(main) \subseteq Mutexes
      BY <2>1 DEF GatewayInv, MainTyped
    <3> QED
      BY <3>1, <3>2 DEF TypeOK, GatewayInv, ServerTyped, MainTyped, JobsTyped, Mutexes
  <2>3. \A s \in Sessions : IsInjective(replies[s]) /\
           \A j \in Range(replies[s]) : j[1] = s /\ cmd[j] \in {"LOGIN", "DATA"}
    BY <2>1 DEF GatewayInv, AnswerInv, Wanted
  <2>4. \A j \in Jobs : state[j] = "ran" /\ cmd[j] \in {"LOGIN", "DATA"} /\ j[1] \in connections_
           => j \in Range(replies[j[1]])
    BY <2>1, JobSession DEF GatewayInv, AnswerInv, Wanted
  <2> QED
    BY <2>2, <2>3, <2>4 DEF RepliesRight
<1> QED
  BY <1>1, <1>2, <1>3, PTL DEF MCSpec

-----------------------------------------------------------------------------
(***************************************************************************)
(* The session manager.  Ids are given in order, so that a session's id is *)
(* its number among all sessions ever added, and what a cleanup collected  *)
(* has an id that was known then.                                          *)
(***************************************************************************)

CountsTyped ==
    /\ tick \in Nat /\ now_ms \in 0..tick
    /\ born \in 0..MaxSessions /\ known \in 0..born
    /\ next_sid_ = born + 1 /\ total_count_ = born
    /\ to_remove \subseteq 1..known /\ touched \subseteq S!Sids

MapTyped ==
    /\ sessions_ = [s \in DOMAIN sessions_ |-> sessions_[s]]
    /\ DOMAIN sessions_ \subseteq 1..born
    /\ \A s \in DOMAIN sessions_ :
           /\ sessions_[s] \in [last_msg_time : 0..tick, is_alive : BOOLEAN, born : 1..born]
           /\ sessions_[s].born = s

PeakTyped ==
    /\ IsFiniteSet(DOMAIN sessions_)
    /\ peak_count_ \in 0..total_count_ /\ Cardinality(DOMAIN sessions_) <= peak_count_

CollectedIdle ==
    \A s \in to_remove \cap DOMAIN sessions_ :
        s \in touched \/ sessions_[s].last_msg_time + Timeout < now_ms

SessionInv == CountsTyped /\ MapTyped /\ PeakTyped /\ CollectedIdle

\* SessionMgr counts as the library's theorems do.
LEMMA SameCount == \A X : S!Cardinality(X) = Cardinality(X)
BY DEF Cardinality, S!Cardinality, IsFiniteSet, S!IsFiniteSet

\* A step that only takes sessions out of the map, as remove, kick, shutdown
\* and a round of cleanup_timeout do.
Fewer ==
    /\ sessions_' = [s \in DOMAIN sessions_' |-> sessions_[s]]
    /\ DOMAIN sessions_' \subseteq DOMAIN sessions_
    /\ to_remove' \subseteq to_remove
    /\ UNCHANGED <<next_sid_, total_count_, peak_count_, tick, now_ms, touched, born, known>>

\* Fewer sessions are still sound.
LEMMA FewerKeeps == SessionInv /\ Fewer => SessionInv'
<1> SUFFICES ASSUME SessionInv, Fewer PROVE SessionInv'
  OBVIOUS
<1>1. \A s \in DOMAIN sessions_' : s \in DOMAIN sessions_ /\ sessions_'[s] = sessions_[s]
  BY DEF Fewer
<1>2. CountsTyped'
  BY DEF SessionInv, CountsTyped, Fewer, S!Sids
<1>3. MapTyped'
  <2>1. sessions_' = [s \in DOMAIN sessions_' |-> sessions_'[s]]
    BY DEF Fewer
  <2> QED
    BY <1>1, <2>1 DEF SessionInv, MapTyped, Fewer
<1>4. PeakTyped'
  <2>1. /\ IsFiniteSet(DOMAIN sessions_')
        /\ Cardinality(DOMAIN sessions_') <= Cardinality(DOMAIN sessions_)
        /\ Cardinality(DOMAIN sessions_') \in Nat /\ Cardinality(DOMAIN sessions_) \in Nat
    BY FS_Subset, FS_CardinalityType DEF SessionInv, PeakTyped, Fewer
  <2> QED
    BY <2>1 DEF SessionInv, PeakTyped, CountsTyped, Fewer
<1>5. CollectedIdle'
  BY <1>1 DEF SessionInv, CollectedIdle, Fewer
<1> QED
  BY <1>2, <1>3, <1>4, <1>5 DEF SessionInv

\* The steps that only take sessions out.
LEMMA FewerSteps ==
    ASSUME SessionInv, NEW s, S!remove(s) \/ S!kick(s) \/ S!shutdown \/ S!RemoveCollected(s)
    PROVE  Fewer
<1>1. CASE S!remove(s) \/ S!kick(s) \/ S!RemoveCollected(s)
  <2>1. sessions_' = [u \in DOMAIN sessions_ \ {s} |-> sessions_[u]]
    BY <1>1 DEF S!remove, S!kick, S!RemoveCollected, S!Without, S!Restrict
  <2> QED
    BY <1>1, <2>1 DEF Fewer, S!remove, S!kick, S!RemoveCollected
<1>2. CASE S!shutdown
  <2>1. DOMAIN sessions_' = {} /\ sessions_' = [u \in {} |-> sessions_[u]]
    BY <1>2 DEF S!shutdown
  <2> QED
    BY <1>2, <2>1 DEF Fewer, S!shutdown
<1> QED
  BY <1>1, <1>2

\* A new session has an id that nobody had before.
LEMMA AddKeeps == SessionInv /\ S!add => SessionInv'
<1> SUFFICES ASSUME SessionInv, S!add PROVE SessionInv'
  OBVIOUS
<1> DEFINE sid == born + 1
<1>1. /\ born < MaxSessions /\ born \in Nat /\ born' = sid /\ next_sid_' = sid + 1
      /\ total_count_' = sid /\ UNCHANGED <<tick, now_ms, to_remove, touched, known>>
  BY DEF S!add, SessionInv, CountsTyped
<1>2. CountsTyped'
  BY <1>1, SessionsAssumption DEF SessionInv, CountsTyped, S!Sids
<1>3. sessions_' = [s \in DOMAIN sessions_ \cup {sid} |->
               IF s = sid THEN [last_msg_time |-> tick, is_alive |-> TRUE, born |-> sid]
               ELSE sessions_[s]]
  BY <1>1 DEF S!add, SessionInv, CountsTyped
<1>4. sid \notin DOMAIN sessions_ /\ sid \notin to_remove
  BY <1>1 DEF SessionInv, MapTyped, CountsTyped
<1>5. /\ DOMAIN sessions_' = DOMAIN sessions_ \cup {sid}
      /\ sessions_'[sid] = [last_msg_time |-> tick, is_alive |-> TRUE, born |-> sid]
      /\ \A s \in DOMAIN sessions_ : sessions_'[s] = sessions_[s]
      /\ sessions_' = [s \in DOMAIN sessions_' |-> sessions_'[s]]
  BY <1>3, <1>4
<1>6. MapTyped'
  <2>1. tick \in Nat /\ DOMAIN sessions_' \subseteq 1..born'
    BY <1>1, <1>5 DEF SessionInv, CountsTyped, MapTyped
  <2>2. \A s \in DOMAIN sessions_ :
           sessions_[s] \in [last_msg_time : 0..tick, is_alive : BOOLEAN, born : 1..born']
    BY <1>1 DEF SessionInv, MapTyped
  <2>3. sessions_'[sid] \in [last_msg_time : 0..tick, is_alive : BOOLEAN, born : 1..born']
    BY <1>1, <1>5, <2>1
  <2>4. \A s \in DOMAIN sessions_' : sessions_'[s].born = s
    BY <1>5 DEF SessionInv, MapTyped
  <2> QED
    BY <1>1, <1>5, <2>1, <2>2, <2>3, <2>4 DEF MapTyped
<1>7. PeakTyped'
  <2>1. /\ IsFiniteSet(DOMAIN sessions_') /\ Cardinality(DOMAIN sessions_) \in Nat
        /\ Cardinality(DOMAIN sessions_') = Cardinality(DOMAIN sessions_) + 1
    BY <1>4, <1>5, FS_AddElement, FS_CardinalityType DEF SessionInv, PeakTyped
  <2> DEFINE size == Cardinality(DOMAIN sessions_')
  <2>2. peak_count_' = S!Max({peak_count_, size})
    BY SameCount DEF S!add
  <2>3. size \in 0..sid /\ peak_count_ \in 0..sid
    BY <1>1, <2>1 DEF SessionInv, PeakTyped, CountsTyped
  <2> HIDE DEF size
  <2>4. peak_count_' \in {peak_count_, size} /\ peak_count_' >= size
    BY <2>2, <2>3 DEF S!Max
  <2> QED
    BY <1>1, <2>1, <2>3, <2>4 DEF PeakTyped, size
<1>8. CollectedIdle'
  BY <1>1, <1>4, <1>5 DEF SessionInv, CollectedIdle
<1> QED
  BY <1>2, <1>6, <1>7, <1>8 DEF SessionInv

\* A heartbeat or mark_dead changes one field of one session.
LEMMA UpdateKeeps ==
    ASSUME SessionInv, NEW s \in S!Sids, S!heartbeat(s) \/ S!mark_dead(s)
    PROVE  SessionInv'
<1>1. /\ s \in DOMAIN sessions_
      /\ UNCHANGED <<next_sid_, total_count_, peak_count_, tick, now_ms, to_remove, born, known>>
      /\ touched' = touched \/ touched' = (IF to_remove = {} THEN {} ELSE touched \cup {s})
  BY DEF S!heartbeat, S!mark_dead
<1>2. PICK r : /\ sessions_' = [sessions_ EXCEPT ![s] = r]
               /\ r \in [last_msg_time : 0..tick, is_alive : BOOLEAN, born : 1..born]
               /\ r.born = sessions_[s].born
               /\ \/ touched' = (IF to_remove = {} THEN {} ELSE touched \cup {s})
                  \/ touched' = touched /\ r.last_msg_time = sessions_[s].last_msg_time
  <2>1. sessions_[s] \in [last_msg_time : 0..tick, is_alive : BOOLEAN, born : 1..born]
    BY <1>1 DEF SessionInv, MapTyped
  <2>2. CASE S!heartbeat(s)
    <3>1. sessions_' = [sessions_ EXCEPT ![s] = [sessions_[s] EXCEPT !.last_msg_time = tick]]
      BY <2>2 DEF S!heartbeat
    <3>2. [sessions_[s] EXCEPT !.last_msg_time = tick]
             \in [last_msg_time : 0..tick, is_alive : BOOLEAN, born : 1..born]
      BY <2>1 DEF SessionInv, CountsTyped
    <3>3. [sessions_[s] EXCEPT !.last_msg_time = tick].born = sessions_[s].born
      BY <2>1
    <3> QED
      BY <2>2, <3>1, <3>2, <3>3 DEF S!heartbeat
  <2>3. CASE S!mark_dead(s)
    <3>1. sessions_' = [sessions_ EXCEPT ![s] = [sessions_[s] EXCEPT !.is_alive = FALSE]]
      BY <2>3 DEF S!mark_dead
    <3>2. [sessions_[s] EXCEPT !.is_alive = FALSE]
             \in [last_msg_time : 0..tick, is_alive : BOOLEAN, born : 1..born]
      BY <2>1
    <3>3. /\ [sessions_[s] EXCEPT !.is_alive = FALSE].born = sessions_[s].born
          /\ [sessions_[s] EXCEPT !.is_alive = FALSE].last_msg_time = sessions_[s].last_msg_time
      BY <2>1
    <3> QED
      BY <2>3, <3>1, <3>2, <3>3 DEF S!mark_dead
  <2> QED
    BY <2>2, <2>3
<1>3. /\ DOMAIN sessions_' = DOMAIN sessions_ /\ sessions_'[s] = r
      /\ \A u \in DOMAIN sessions_ : u # s => sessions_'[u] = sessions_[u]
      /\ sessions_' = [u \in DOMAIN sessions_' |-> sessions_'[u]]
  BY <1>1, <1>2 DEF SessionInv, MapTyped
<1>4. CountsTyped'
  BY <1>1 DEF SessionInv, CountsTyped, S!Sids
<1>5. MapTyped'
  BY <1>1, <1>2, <1>3 DEF SessionInv, MapTyped
<1>6. PeakTyped'
  BY <1>1, <1>3 DEF SessionInv, PeakTyped
<1>7. CollectedIdle'
  <2> SUFFICES ASSUME NEW u \in to_remove, u \in DOMAIN sessions_
               PROVE  u \in touched' \/ sessions_'[u].last_msg_time + Timeout < now_ms
    BY <1>1, <1>3 DEF CollectedIdle
  <2>1. u \in touched \/ sessions_[u].last_msg_time + Timeout < now_ms
    BY DEF SessionInv, CollectedIdle
  <2> QED
    BY <1>1, <1>2, <1>3, <2>1
<1> QED
  BY <1>4, <1>5, <1>6, <1>7 DEF SessionInv

\* The first critical section of cleanup_timeout.
LEMMA CollectKeeps == SessionInv /\ S!Collect => SessionInv'
<1> SUFFICES ASSUME SessionInv, S!Collect PROVE SessionInv'
  OBVIOUS
<1>1. CountsTyped'
  BY DEF S!Collect, SessionInv, CountsTyped, MapTyped, S!Sids
<1>2. MapTyped'
  BY DEF S!Collect, SessionInv, MapTyped
<1>3. PeakTyped'
  BY DEF S!Collect, SessionInv, PeakTyped
<1>4. CollectedIdle'
  BY DEF S!Collect, CollectedIdle
<1> QED
  BY <1>1, <1>2, <1>3, <1>4 DEF SessionInv

\* Time passes.
LEMMA TickKeeps == SessionInv /\ S!Tick => SessionInv'
<1> SUFFICES ASSUME SessionInv, S!Tick PROVE SessionInv'
  OBVIOUS
<1>1. CountsTyped'
  BY DEF S!Tick, SessionInv, CountsTyped, S!Sids
<1>2. MapTyped'
  BY DEF S!Tick, SessionInv, MapTyped, CountsTyped
<1>3. PeakTyped' /\ CollectedIdle'
  BY DEF S!Tick, SessionInv, PeakTyped, CollectedIdle
<1> QED
  BY <1>1, <1>2, <1>3 DEF SessionInv

\* cleanup_timeout removes only sessions that were idle for longer than the
\* timeout when it collected them and that it knew then; the counts agree.
THEOREM CleanupRight == MCSpec => CleanupJustified
<1>1. MCInit => SessionInv
  <2> SUFFICES ASSUME S!Init PROVE SessionInv
    BY DEF MCInit
  <2>1. DOMAIN sessions_ = {} /\ CountsTyped
    BY SessionsAssumption DEF S!Init, CountsTyped
  <2>2. MapTyped
    BY <2>1 DEF S!Init, MapTyped
  <2>3. PeakTyped
    BY <2>1, FS_EmptySet DEF S!Init, PeakTyped
  <2> QED
    BY <2>1, <2>2, <2>3 DEF SessionInv, CollectedIdle
<1>2. SessionInv /\ [MCNext]_allvars => SessionInv'
  <2> SUFFICES ASSUME SessionInv, [MCNext]_allvars PROVE SessionInv'
    OBVIOUS
  <2>1. CASE S!Next
    BY <2>1, TickKeeps, AddKeeps, CollectKeeps, UpdateKeeps, FewerSteps, FewerKeeps DEF S!Next
  <2>2. CASE UNCHANGED svars
    BY <2>2 DEF svars, SessionInv, CountsTyped, MapTyped, PeakTyped, CollectedIdle
  <2> QED
    BY <2>1, <2>2 DEF MCNext, allvars
<1>3. SessionInv => S!TypeOK
  <2> SUFFICES ASSUME SessionInv PROVE S!TypeOK
    OBVIOUS
  <2>1. DOMAIN sessions_ \subseteq S!Sids /\ to_remove \subseteq S!Sids
    BY SessionsAssumption DEF SessionInv, CountsTyped, MapTyped, S!Sids
  <2> QED
    BY <2>1, SameCount DEF SessionInv, CountsTyped, MapTyped, PeakTyped, S!TypeOK
<1>4. SessionInv /\ [MCNext]_allvars =>
         [\A s \in to_remove \ to_remove' : s \in DOMAIN sessions_ =>
             /\ s \in touched \/ sessions_[s].last_msg_time + Timeout < now_ms
             /\ sessions_[s].born <= known]_(S!vars)
  <2> SUFFICES ASSUME SessionInv, NEW s \in to_remove \ to_remove', s \in DOMAIN sessions_
               PROVE  /\ s \in touched \/ sessions_[s].last_msg_time + Timeout < now_ms
                      /\ sessions_[s].born <= known
    OBVIOUS
  <2> QED
    BY DEF SessionInv, CollectedIdle, CountsTyped, MapTyped
<1> QED
  BY <1>1, <1>2, <1>3, <1>4, PTL DEF MCSpec, CleanupJustified, S!CleanupJustified

=============================================================================
