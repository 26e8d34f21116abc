SPECIFICATION SortSpec
CONSTANTS
    d1 = d1
    d2 = d2
    d3 = d3
    d4 = d4
    Delegates = {d1, d2, d3, d4}
    Scores = {0, 1, 2}
    RoundLength = 2
INVARIANTS
    LoopInvariant
PROPERTIES
    ElectsTheBest
CHECK_DEADLOCK FALSE
