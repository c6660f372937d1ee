CONSTANTS
    None = None
    CommandLines <- MCCommandLines
    Networks <- MCNetworks
    MaxCommands = 3
    MaxFailures = 2
    MaxReboots = 1
    MaxChanges = 1
CHECK_DEADLOCK FALSE
SPECIFICATION Spec
INVARIANTS RulesGoneWhenDown RulesMeetServer UninstallIsComplete
PROPERTY BlackholeHeals
