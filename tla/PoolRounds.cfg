SPECIFICATION FairSpec
CONSTANTS
    c1 = c1
    Clients = {c1}
    Dns = dns
    Reconciler = reconciler
    Collector = collector
    None = none
    MaxFaults = 2
INVARIANT TypeOK
PROPERTY OthersReturn
