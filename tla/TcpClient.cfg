CONSTANTS
    MaxSends = 2
    Units = 2
    MaxSocks = 2
    MaxConnects = 1
SPECIFICATION ClientSpec
INVARIANTS WireInOrder DisconnectLeavesNothing
PROPERTIES DisconnectReturns Reconnects
CHECK_DEADLOCK FALSE
