------------------------------- MODULE Codec --------------------------------
(***************************************************************************)
(* network/codec: encode, and decode over a stream that arrives in pieces. *)
(*                                                                         *)
(* A byte is the set of its bits (a subset of 0..7), a word the set of its *)
(* (0..31 or 0..15), so that exclusive or is the symmetric difference.     *)
(* The checksum is the real one: whether it covers the header before or    *)
(* after the header is filled in is what decides what decode accepts.      *)
(***************************************************************************)
EXTENDS Naturals, Sequences, SequencesExt, FiniteSetsExt

CONSTANTS
    Frames,        \* the packets the peer may encode: [seq, cmd, data]
    MAX_PACKET_SIZE, \* 10 MB in the code
    MaxFrames,     \* bound: how many it sends
    MaxRecv        \* bound: the bytes handed to one call of decode

VARIABLES
    frames,        \* external: the packets the peer sends
    arrived,       \* external: how many of their bytes have been handed over
    buffer_,
    decoded        \* history: the packets decode has returned

vars == <<frames, arrived, buffer_, decoded>>

HEADER_SIZE == 15
PROTOCOL_VERSION == {0}

-----------------------------------------------------------------------------
Xor(a, b) == (a \ b) \cup (b \ a)
ShiftRight(w, n) == {b - n : b \in {c \in w : c >= n}}

\* htonl, htons and memcpy: the bytes of a word, the most significant first.
Bytes(n, w) == [i \in 1..n |-> ShiftRight(w, 8 * (n - i)) \cap (0..7)]

\* memcpy and ntohl, ntohs.
Word(s) == UNION {{b + 8 * (Len(s) - i) : b \in s[i]} : i \in 1..Len(s)}

Bits(n) == {b \in 0..23 : (n \div 2 ^ b) % 2 = 1}

\* The number a word stands for; 2^24, which is above 10 MB, for a larger one.
Number(w) ==
    IF \E b \in w : b >= 24 THEN 2 ^ 24 ELSE MapThenSumSet(LAMBDA b : 2 ^ b, w)

\* 0xEDB88320
Polynomial == {5, 8, 9, 15, 19, 20, 21, 23, 24, 26, 27, 29, 30, 31}

\* An entry of crc32_table: eight times, c is shifted, and the polynomial is
\* added if a bit has fallen out.
Divide[c \in SUBSET (0..31)] ==
    IF 0 \in c THEN Xor(Polynomial, ShiftRight(c, 1)) ELSE ShiftRight(c, 1)

crc32_table[i \in SUBSET (0..7)] ==
    Divide[Divide[Divide[Divide[Divide[Divide[Divide[Divide[i]]]]]]]]

CRC32(s) ==
    LET crc[n \in 0..Len(s)] ==
            IF n = 0 THEN 0..31
            ELSE LET c == crc[n - 1]
                 IN  Xor(crc32_table[Xor(c, s[n]) \cap (0..7)], ShiftRight(c, 8))
    IN  Xor(crc[Len(s)], 0..31)

-----------------------------------------------------------------------------
Header(len, crc, seq, cmd) ==
    Bytes(4, Bits(len)) \o <<PROTOCOL_VERSION>> \o Bytes(4, crc) \o Bytes(4, seq) \o Bytes(2, cmd)

\* The checksum is taken over the crc, seq and cmd fields while they are zero,
\* and the data.
encode(p) ==
    Header(HEADER_SIZE + Len(p.data), CRC32([i \in 1..10 |-> {}] \o p.data), p.seq, p.cmd)
        \o p.data

Length(buf) == Number(Word(SubSeq(buf, 1, 4)))
Whole(buf) == Len(buf) >= HEADER_SIZE /\ Len(buf) >= Length(buf)
BadLength(buf) == Length(buf) < HEADER_SIZE \/ Length(buf) > MAX_PACKET_SIZE

\* The checksum of what has arrived, over the crc, seq and cmd fields as sent.
CrcMatches(buf) == CRC32(SubSeq(buf, 6, Length(buf))) = Word(SubSeq(buf, 6, 9))

PacketOf(buf) ==
    [seq |-> Word(SubSeq(buf, 10, 13)), cmd |-> Word(SubSeq(buf, 14, 15)),
     data |-> SubSeq(buf, HEADER_SIZE + 1, Length(buf))]

\* The loop of try_decode drops a byte as long as there is a whole packet with
\* a checksum that does not match: where it stops in buf.
Aligned(buf) ==
    LET Skipped(k) == SubSeq(buf, k + 1, Len(buf))
        Mismatch(s) == Whole(s) /\ ~BadLength(s) /\ ~CrcMatches(s)
    IN  Skipped(Min({k \in 0..Len(buf) : ~Mismatch(Skipped(k))}))

\* Fault: what follows the packet in the buffer goes with it.
DecodeAndClear(buf) ==
    LET s == Aligned(buf)
        found == Whole(s) /\ ~BadLength(s)
    IN  [packets |-> IF found THEN <<PacketOf(s)>> ELSE <<>>,
         rest |-> IF found \/ (Len(s) >= HEADER_SIZE /\ BadLength(s)) THEN <<>> ELSE s]

try_decode(buf) ==
    LET s == Aligned(buf)
        found == Whole(s) /\ ~BadLength(s)
    IN  [packets |-> IF found THEN <<PacketOf(s)>> ELSE <<>>,
         rest |-> IF Len(s) >= HEADER_SIZE /\ BadLength(s) THEN <<>>
                  ELSE IF found THEN SubSeq(s, Length(s) + 1, Len(s)) ELSE s]

Stream(ps) == FoldLeft(LAMBDA s, p : s \o encode(p), <<>>, ps)

-----------------------------------------------------------------------------
Init ==
    /\ frames \in UNION {[1..n -> Frames] : n \in 1..MaxFrames}
    /\ arrived = 0
    /\ buffer_ = <<>>
    /\ decoded = <<>>

\* decode: the next n bytes go to the end of buffer_, and at most one packet
\* comes out.
Decode(n, stream) ==
    /\ arrived + n <= Len(stream)
    /\ \E r \in {try_decode(buffer_ \o SubSeq(stream, arrived + 1, arrived + n))} :
          buffer_' = r.rest /\ decoded' = decoded \o r.packets
    /\ arrived' = arrived + n
    /\ UNCHANGED frames

Next == \E stream \in {Stream(frames)} : \E n \in 1..MaxRecv : Decode(n, stream)

Spec == Init /\ [][Next]_vars

-----------------------------------------------------------------------------
(***************************************************************************)
(* Properties                                                              *)
(***************************************************************************)

\* Type invariant.
TypeOK ==
    /\ frames \in Seq(Frames)
    /\ arrived \in 0..Len(Stream(frames))
    /\ buffer_ \in Seq(SUBSET (0..7))
    /\ decoded \in Seq([seq : SUBSET (0..31), cmd : SUBSET (0..15), data : Seq(SUBSET (0..7))])

\* Nothing comes out of decode that was not encoded: the packets it returns are
\* packets of the peer, in their order, with their seq, cmd and data, also after
\* a packet that it rejects. It then skips one byte, and what it reads there is a
\* length 256 times as large: it waits for as many bytes, or clears buffer_ and
\* goes on wherever in a packet the next bytes begin. This is for packets whose
\* data is too short to hold a packet: one that is would be taken for it.
DecodedWasEncoded ==
    TypeOK /\ \E kept \in SUBSET (1..Len(frames)) :
        decoded = [i \in 1..Cardinality(kept) |->
                      frames[CHOOSE k \in kept : Cardinality({j \in kept : j < k}) = i - 1]]

\* A packet whose checksum is right for its header as sent.
SelfConsistent(p) == CrcMatches(encode(p))

\* As long as all packets are self-consistent, no byte is lost: the packets
\* returned and buffer_ make up what has arrived, although decode returns only
\* one packet for each call.
ConsistentKept ==
    (\A i \in 1..Len(frames) : SelfConsistent(frames[i])) =>
        Stream(decoded) \o buffer_ = SubSeq(Stream(frames), 1, arrived)

\* What decode promises of the packets it can accept: both of these.
CodecSound == DecodedWasEncoded /\ ConsistentKept

\* What was encoded is decoded (TEST.md, case 12.1).
RoundTrip ==
    (Len(frames) = 1 /\ arrived = Len(Stream(frames))) => decoded = frames

=============================================================================
