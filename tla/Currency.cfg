SPECIFICATION Spec
CONSTANTS
    genesis = genesis
    reserved = reserved
    alice = alice
    p1 = p1
    p2 = p2
    nobody = nobody
    None = nobody
    Genesis = genesis
    ReservedFunds = reserved
    Addresses = {genesis, reserved, alice}
    InitialSupply = 20
    NewSupply = 100
    BlockReward = 50
    Amounts = {0, 50}
    Fees = {10}
    Producers = {p1, p2}
    MaxCalls = 4
SYMMETRY Symmetry
INVARIANTS
    TypeOK
    NoOverdraft
    TokensAreAccounted
CHECK_DEADLOCK FALSE
