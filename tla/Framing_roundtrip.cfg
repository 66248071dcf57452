CONSTANTS
    Packets <- SomePackets
    MaxPackets = 1
    MaxRecv = 20
    MaxFrames = 1
    MAX_PACKET_SIZE = 4000
SPECIFICATION FramingSpec
INVARIANT RoundTrip
CHECK_DEADLOCK FALSE
