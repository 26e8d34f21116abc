SPECIFICATION StartupSpec
CONSTANTS
    new = new
    old = old
    Nodes = {new, old}
    OldNodes = {old}
    MaxStarts <- StartsOf
    MaxSyncs = 2
INVARIANTS
    StartupTypeOK
    RegistrationsAreBacked
PROPERTIES
    GovernanceIsForGood
    RestartServes
CHECK_DEADLOCK FALSE
