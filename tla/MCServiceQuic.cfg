CONSTANTS
    None = None
    CommandLines <- MCQuicCommandLines
    Networks <- MCNetworks
    MaxCommands = 1
    MaxFailures = 0
    MaxReboots = 0
    MaxChanges = 0
CHECK_DEADLOCK FALSE
SPECIFICATION Spec
INVARIANT AllowQuicHonoured
