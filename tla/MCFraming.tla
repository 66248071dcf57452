----------------------------- MODULE MCFraming ------------------------------
(***************************************************************************)
(* The two framings of the framework for TLC: PacketStream, which the      *)
(* connections use, and Codec.  A stream is in one of the two formats, so  *)
(* the format is chosen at the start and only its receiver runs.           *)
(***************************************************************************)
EXTENDS PacketStream

CONSTANTS MaxFrames, MAX_PACKET_SIZE

VARIABLES format, frames, arrived, buffer_, decoded

\* An empty packet, and two whose cmd differs in the order of its bytes.
SomePackets == {[cmd |-> 1, data |-> <<>>],
                [cmd |-> 256, data |-> <<7>>],
                [cmd |-> 258, data |-> <<0, 0>>]}

BitsOf(n) == {b \in 0..15 : (n \div 2 ^ b) % 2 = 1}
HiLo(hi, lo) == {b + 16 : b \in BitsOf(hi)} \cup BitsOf(lo)

\* For every cmd and data there is exactly one seq whose packet decode accepts:
\* the first two are those of an empty packet and of "H".  The others are packets
\* like that of case 12.1: behind the first byte of the one the length is 3841,
\* and of the other 4097.
Frames == {[seq |-> HiLo(13165, 50290), cmd |-> BitsOf(2), data |-> <<>>],
           [seq |-> HiLo(45612, 51016), cmd |-> BitsOf(4), data |-> <<BitsOf(72)>>],
           [seq |-> BitsOf(123), cmd |-> BitsOf(2), data |-> <<>>],
           [seq |-> BitsOf(123), cmd |-> BitsOf(4), data |-> <<BitsOf(72)>>]}

C == INSTANCE Codec

codecVars == <<frames, arrived, buffer_, decoded>>
framing_vars == <<format, stream_vars, codecVars>>

\* What the peer of the other receiver would send is of no account.
FramingInit ==
    /\ StreamInit /\ C!Init
    /\ \/ format = "protocol" /\ frames = <<CHOOSE p \in Frames : TRUE>>
       \/ format = "codec" /\ side = "server" /\ outbox = <<CHOOSE p \in Packets : TRUE>>

FramingNext ==
    \/ format = "protocol" /\ StreamNext /\ UNCHANGED <<format, codecVars>>
    \/ format = "codec" /\ C!Next /\ UNCHANGED <<format, stream_vars>>

FramingSpec == FramingInit /\ [][FramingNext]_framing_vars

\* See Codec: what comes out of decode was encoded, in order, also after packets
\* that it rejects, and no byte is lost while it accepts them.
CodecSound == format = "codec" => C!CodecSound

\* See Codec: what was encoded is decoded.
RoundTrip == C!RoundTrip

=============================================================================
