SPECIFICATION Spec
CONSTANTS
    k1 = k1
    k2 = k2
    old = old
    new = new
    absent = absent
    alice = alice
    shop = shop
    contract = contract
    e1 = e1
    e2 = e2
    nobody = nobody
    Keys = {k1, k2}
    Values = {old, new}
    Absent = absent
    Clients = {alice}
    Others = {shop}
    Self = contract
    Funds = 1
    Amounts = {1}
    InitialState <- MCInitialState
    InitialCode <- MCInitialCode
    Operations <- MCOperations
    Codes <- MCCodes
    Methods = {"pay", "nest", "loop"}
    Executors = {e1, e2}
    None = nobody
    BaseCost = 3
    StoreCost = 1
    LoadCost = 0
    TransferCost = 1
    CallCost = 2
    ReadOnlyGas = 12
    Word = 16
    MaxDepth = 4
    MaxCalls = 4
INVARIANTS
    TypeOK
    BalanceIsBacked
    GasNeverWraps
PROPERTIES
    ImplementsSequenceStore
    EveryExecutionEnds
CHECK_DEADLOCK FALSE
