CONSTANTS
    sess1 = sess1
    sess2 = sess2
    Jobs <- MCJobs
    Cmds = {"DATA", "LOGOUT"}
    None = None
    Timeout = 0
    MaxSessions = 3
    MaxTick = 2
    MaxCleanups = 2
    Packets <- SomePackets
    MaxPackets = 3
    MaxRecv = 20
    MaxFrames = 2
    MAX_PACKET_SIZE = 4000
    Messages = {m1, m2, m3}
    Units = 2
    MaxReuse = 2
SPECIFICATION ServerSpec
INVARIANTS RepliesRight DeliveredAsSent DeliveredPromptly CodecSound StreamFraming
PROPERTIES GatewayServes CleanupJustified StrayOncePerThread WriterServes
CHECK_DEADLOCK FALSE
