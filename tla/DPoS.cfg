SPECIFICATION Spec
CONSTANTS
    d1 = d1
    d2 = d2
    d3 = d3
    v1 = v1
    v2 = v2
    none = none
    NoProducer = none
    Ids = {d1, d2, d3}
    Voters = {v1, v2}
    InitialDelegates = {d1, d2}
    RoundLength = 2
    Stakes = {90, 100, 110}
    Increments = {0, 10}
    InitialReliabilities = {95}
    MaxStake = 110
    MaxRound = 1
    MaxElapsed = 2
SYMMETRY Alike
INVARIANTS
    TypeOK
    VotesAreAccounted
    VotesAreForDelegates
    SeatsAreOfDelegates
    StakesAgree
CHECK_DEADLOCK FALSE
