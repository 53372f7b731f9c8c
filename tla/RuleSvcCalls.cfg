SPECIFICATION Spec
CONSTANTS
    tcp1 = tcp1  udp1 = udp1  ssh = ssh
    r1 = r1  r2 = r2  c1 = c1  ip1 = ip1  h1 = h1  h2 = h2
    Ids = {r1, r2}
    Sockets = {tcp1, udp1, ssh}
    Listens <- MCListens
    Guarded = {ssh}
    Literals = {ip1}
    Hosts = {h1, h2}
    Clients = {c1}
    Dns = dns
    Reconciler = reconciler
    None = none
    LegacyIds = {}
    MaxFaults = 2
    MaxClock = 2
    MaxZone = 2
SYMMETRY Sym
CONSTRAINT Bounded
INVARIANTS TypeOK EnforcedMatchesDB PortsDisjoint AddrMatchesHost
PROPERTIES CallsAtomic DeletedStaysDown FailedCallUndone
