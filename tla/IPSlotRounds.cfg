SPECIFICATION Spec
CONSTANTS
    IPs = {1, 2, 3}
    Limits = {1, 2}
    ProvTTL = 0
    RejTTL = 0
    Idle = 0
    UdpIdle = 1
    MaxNow = 1
INVARIANTS TypeOK NoStarvation ProvisionalBounded
PROPERTIES EstablishedKept KeepsPromise
