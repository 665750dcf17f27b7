SPECIFICATION Spec
CONSTANTS
    Conns = {c1}
    NoConn = NoConn
    Channels = {h1, h2}
    NoChannel = NoChannel
    Gates = {g1}
    MaxMessages = 2
    Hazards = {"slow_cli", "error"}
PROPERTIES
    StopEnds
    MessageSettles
CHECK_DEADLOCK FALSE
