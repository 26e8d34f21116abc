SPECIFICATION StartupSpec
CONSTANTS
    new = new
    old = old
    Nodes = {new}
    OldNodes = {}
    MaxStarts <- StartsOf
    MaxSyncs = 0
INVARIANTS
    SystemContractsDeployed
CHECK_DEADLOCK FALSE
