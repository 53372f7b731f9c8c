SPECIFICATION Spec
CONSTANTS
    Ports = {1, 2, 3, 4}
    PanelRange = {2, 3}
    RuleRange = {2, 3}
    Ephemeral = {2}
    Guarded = {4}
    Legacy = 1
    Secrets = {8, 9}
    MaxFaults = 1
INVARIANT AnnouncedStays
