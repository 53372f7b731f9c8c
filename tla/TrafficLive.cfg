SPECIFICATION FairSpec
CONSTANTS
    Rules = {1}
    Up = up  Down = down
    Limit <- OneByte
    PartialReads = FALSE
    MaxBytes = 1
    MaxFaults = 1
PROPERTY QuotaEnforced
