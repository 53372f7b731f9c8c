SPECIFICATION FairSpec
CONSTANTS
    Rules = {r1}
    IPs = {a, b}
    Limits = {0, 1}
    MaxFaults = 3
INVARIANTS TypeOK LimitsInForce
PROPERTIES HoldersStay FrozenKept Converges
