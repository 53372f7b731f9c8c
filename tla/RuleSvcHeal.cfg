SPECIFICATION FairSpec
CONSTANTS
    tcp1 = tcp1  udp1 = udp1  ssh = ssh
    r1 = r1  r2 = r2  c1 = c1  ip1 = ip1  h1 = h1  h2 = h2
    Ids = {r1}
    Sockets = {tcp1, udp1, ssh}
    Listens <- OneListen
    Guarded = {ssh}
    Literals = {ip1}
    Hosts = {h1}
    Clients = {c1}
    Dns = dns
    Reconciler = reconciler
    None = none
    LegacyIds = {r1}
    MaxFaults = 1
    MaxClock = 1
    MaxZone = 2
PROPERTY Heals
