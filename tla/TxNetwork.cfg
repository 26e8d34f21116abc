SPECIFICATION Spec
CONSTANTS
    n1 = n1
    n2 = n2
    a = a
    b = b
    v1 = v1
    v2 = v2
    Nodes = {n1, n2}
    Known <- OneKnowsTheOther
    Ids = {a, b}
    Payloads = {v1, v2}
    Clients <- SharedId
    BatchLimit = 1
    MaxClock = 1
    MaxLength = 3
    Contents <- Batches
    NoContents = {}
    Zeros <- AnyZeros
INVARIANTS
    TypeOK
    AcceptedIsNotLost
    CommonPrefix
