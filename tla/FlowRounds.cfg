SPECIFICATION Spec
CONSTANTS
    Rules = {1}
    Conns = {1, 2}
    Tuple <- TwoFlows
    Listens <- BothProtos
    Movable = {"a"}
    Idle = 0
    UdpIdle = 1
    SelfTTL = 1
    MaxBytes = 1
INVARIANTS TypeOK BusyStaysOnline IdleGoesOffline EntriesCollected
PROPERTY SelfIsNoClient
