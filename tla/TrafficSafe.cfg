SPECIFICATION Spec
CONSTANTS
    Rules = {1}
    Up = up  Down = down
    Limit <- MCLimit
    PartialReads = FALSE
    MaxBytes = 2
    MaxFaults = 2
SYMMETRY Sym
INVARIANTS TypeOK NoOverbilling ExactBilling NeverOvercharged ResetWithinTraffic
PROPERTY RealtimeExact
