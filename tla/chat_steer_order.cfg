SPECIFICATION Spec
CONSTANTS
    Conns = {c1}
    NoConn = NoConn
    Channels = {h1}
    NoChannel = NoChannel
    Gates = {}
    MaxMessages = 3
    Hazards = {}
INVARIANT
    HeardInOrder
CHECK_DEADLOCK FALSE
