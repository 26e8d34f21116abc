SPECIFICATION Spec
CONSTANTS
    n0 = n0
    n1 = n1
    n2 = n2
    n3 = n3
    b1 = b1
    b2 = b2
    bad = bad
    Validators <- Addresses
    Running = {n0, n1}
    Blocks = {b1, b2, bad}
    ValidBlocks = {b1, b2}
    Height <- SameHeight
    MaxView = 1
    MaxRepeats = 2
INVARIANTS
    TypeOK
    PreparedByAQuorum
    CommittedByAQuorum
    ProposedByAPrimary
    
CHECK_DEADLOCK FALSE
