---------------------------- MODULE PacketStream ----------------------------
(***************************************************************************)
(* network/protocol and the two readers of network/tcp: a peer sends       *)
(* packets built with encode, TCP delivers their bytes in pieces of any    *)
(* size, and read_loop and process_read of TcpConnection, or read_loop of  *)
(* TcpClient, put the packets together again.                              *)
(***************************************************************************)
EXTENDS Naturals, Sequences

CONSTANTS
    Packets,       \* the packets the peer may send
    MaxPackets,    \* bound: how many it sends
    MaxRecv        \* the size of read_loop's buffer tmp

uint8_t == 0..255
uint16_t == {256 * h + l : h, l \in uint8_t}
Packet == [cmd : uint16_t, data : Seq(uint8_t)]

\* total_len does not overflow its 32 bits.
LengthFits(pkt) == (((6 + Len(pkt.data)) \div 256) \div 256) \div 256 \in uint8_t

ASSUME StreamAssumption ==
    /\ Packets \subseteq Packet
    /\ \A p \in Packets : LengthFits(p)
    /\ MaxPackets \in Nat
    /\ MaxRecv \in Nat \ {0}

VARIABLES
    side,          \* who reads: "server" (TcpConnection) or "client" (TcpClient)
    outbox,        \* external: the packets the peer sends
    received,      \* external: how many of their bytes recv has given
    read_buf_,
    delivered,     \* history: the packets given to on_message_
    phase         \* "recv", or "parse" in the inner loop of read_loop

stream_vars == <<side, outbox, received, read_buf_, delivered, phase>>

-----------------------------------------------------------------------------
(***************************************************************************)
(* The format: length (4 bytes, of the whole packet), cmd (2), data.       *)
(***************************************************************************)

\* The bytes of a word, the most significant one first.
htonl(v) ==
    LET a == v \div 256
        b == a \div 256
        c == b \div 256
    IN  <<c % 256, b % 256, a % 256, v % 256>>

htons(v) == <<(v \div 256) % 256, v % 256>>

encode(pkt) == htonl(6 + Len(pkt.data)) \o htons(pkt.cmd) \o pkt.data

\* ntohl of the first four bytes; 0 if they are not there yet.
peek_packet_length(buf) ==
    IF Len(buf) < 4 THEN 0
    ELSE ((buf[1] * 256 + buf[2]) * 256 + buf[3]) * 256 + buf[4]

\* decode_from returns true.
Decodable(buf) ==
    /\ peek_packet_length(buf) # 0
    /\ Len(buf) >= peek_packet_length(buf)

\* The client's loop finds a whole message.
ClientComplete(buf) == Len(buf) >= 4 /\ Len(buf) >= peek_packet_length(buf)

\* Fault: the bytes of cmd are taken in the order of the host.
DecodedSwapped(buf) ==
    [cmd |-> buf[6] * 256 + buf[5], data |-> SubSeq(buf, 7, peek_packet_length(buf))]

\* The packet it decodes.
Decoded(buf) ==
    [cmd |-> buf[5] * 256 + buf[6], data |-> SubSeq(buf, 7, peek_packet_length(buf))]

\* The bytes of the first n packets the peer sends, and of all of them.
Bytes(n) ==
    LET B[k \in 0..Len(outbox)] == IF k = 0 THEN <<>> ELSE B[k - 1] \o encode(outbox[k])
    IN  B[n]

Stream == Bytes(Len(outbox))

-----------------------------------------------------------------------------
StreamInit ==
    /\ side \in {"server", "client"}
    /\ outbox \in UNION {[1..n -> Packets] : n \in 1..MaxPackets}
    /\ received = 0
    /\ read_buf_ = <<>>
    /\ delivered = <<>>
    /\ phase = "recv"

\* read_loop: recv gives the next n bytes, which go to the end of read_buf_.
Recv(n) ==
    /\ phase = "recv"
    /\ received + n <= Len(Stream)
    /\ read_buf_' = read_buf_ \o SubSeq(Stream, received + 1, received + n)
    /\ received' = received + n
    /\ phase' = "parse"
    /\ UNCHANGED <<side, outbox, delivered>>

\* Fault: one packet is parsed for each recv.
ProcessReadOnce ==
    /\ phase = "parse" /\ side = "server"
    /\ Decodable(read_buf_)
    /\ read_buf_' = SubSeq(read_buf_, peek_packet_length(read_buf_) + 1, Len(read_buf_))
    /\ delivered' = Append(delivered, Decoded(read_buf_))
    /\ phase' = "recv"
    /\ UNCHANGED <<side, outbox, received>>

\* process_read returns true: one packet is cut off the front of read_buf_ and
\* given to on_message_, and it is called again.
ProcessRead ==
    /\ phase = "parse" /\ side = "server"
    /\ Decodable(read_buf_)
    /\ read_buf_' = SubSeq(read_buf_, peek_packet_length(read_buf_) + 1, Len(read_buf_))
    /\ delivered' = Append(delivered, Decoded(read_buf_))
    /\ UNCHANGED <<side, outbox, received, phase>>

\* The client cuts a message off and gives on_message_ its data only.
ClientParse ==
    /\ phase = "parse" /\ side = "client"
    /\ ClientComplete(read_buf_)
    /\ read_buf_' = SubSeq(read_buf_, peek_packet_length(read_buf_) + 1, Len(read_buf_))
    /\ delivered' = Append(delivered, SubSeq(read_buf_, 7, peek_packet_length(read_buf_)))
    /\ UNCHANGED <<side, outbox, received, phase>>

\* process_read returns false, or the client's loop ends: back to recv.
ProcessNothing ==
    /\ phase = "parse"
    /\ IF side = "server" THEN ~Decodable(read_buf_) ELSE ~ClientComplete(read_buf_)
    /\ phase' = "recv"
    /\ UNCHANGED <<side, outbox, received, read_buf_, delivered>>

StreamNext ==
    \/ \E n \in 1..MaxRecv : Recv(n)
    \/ ProcessRead \/ ClientParse
    \/ ProcessNothing

StreamSpec == StreamInit /\ [][StreamNext]_stream_vars

-----------------------------------------------------------------------------
(***************************************************************************)
(* Properties                                                              *)
(***************************************************************************)

\* Type invariant.
StreamTypeOK ==
    /\ side \in {"server", "client"} /\ outbox \in Seq(Packets)
    /\ received \in 0..Len(Stream)
    /\ read_buf_ \in Seq(uint8_t)
    /\ delivered \in Seq(IF side = "server" THEN Packet ELSE Seq(uint8_t))
    /\ phase \in {"recv", "parse"}

\* Decoding undoes encoding however the bytes were cut into pieces: the packets
\* delivered are the first ones sent, each with its cmd and its data, to a
\* client with its data.
DeliveredAsSent ==
    /\ StreamTypeOK
    /\ Len(delivered) <= Len(outbox)
    /\ \A i \in 1..Len(delivered) :
           delivered[i] = IF side = "server" THEN outbox[i] ELSE outbox[i].data

\* No packet waits for the next one: when read_loop goes back to recv, every
\* packet whose last byte has arrived has been delivered.
DeliveredPromptly ==
    phase = "recv" => \A n \in 1..Len(outbox) :
        Len(Bytes(n)) <= received => n <= Len(delivered)

=============================================================================
