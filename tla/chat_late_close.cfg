SPECIFICATION Spec
CONSTANTS
    Conns = {c1, c2}
    NoConn = NoConn
    Channels = {h1, h2, h3}
    NoChannel = NoChannel
    Gates = {g1}
    MaxMessages = 1
    Hazards = {"late_close"}
INVARIANT
    DecisionReaches
CHECK_DEADLOCK FALSE
