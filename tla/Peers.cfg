SPECIFICATION Spec
CONSTANTS
    n0 = n0
    n1 = n1
    n2 = n2
    empty = empty
    ghost = ghost
    Nodes = {n0, n1, n2}
    OldNodes = {n0, n1, n2}
    MaxStarts <- OneStart
    MaxSyncs = 0
    BuiltIn <- Known
    Ghosts = {ghost}
    Seeds <- SeedsOf
    MaxPosts = 1
INVARIANTS
    TypeOK
    NobodyIsKnownTwice
    KnownHaveListened
PROPERTIES
    DiscoveryEnds
CHECK_DEADLOCK FALSE
