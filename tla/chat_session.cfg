SPECIFICATION Spec
CONSTANTS
    Conns = {c1, c2}
    NoConn = NoConn
    Channels = {h1, h2}
    NoChannel = NoChannel
    Gates = {g1}
    MaxMessages = 2
    Hazards = {"stale_tab", "early_stop", "slow_cli", "slow_send", "error", "restart"}
SYMMETRY Symmetry
INVARIANTS
    TypeOK
    OneTurn
    GateReachable
    RecordExact
    MessagesAccounted
    
    EndAnnounced
PROPERTIES
    ConsentedOnly
CHECK_DEADLOCK FALSE
