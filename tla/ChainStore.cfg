SPECIFICATION Spec
CONSTANTS
    c1 = c1
    none = none
    p1 = p1
    Peers = {p1}
    Contents <- MCContents
    NoContents = none
    Zeros <- MCZeros
    TimeSteps = {31}
    MaxClock = 93
    MaxLength = 4
    MaxMisreads = 1
CHECK_DEADLOCK FALSE
INVARIANTS
    TypeOK
    NoHoles
    LinkedUnlessTorn
    Durable
PROPERTIES
    GenesisKeptUnlessMisread
    NeverShorter
