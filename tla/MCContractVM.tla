---------------------------- MODULE MCContractVM ----------------------------
(* ContractVM on small instances: values of its constants for TLC. *)
EXTENDS ContractVM

CONSTANTS k1, k2, old, new, absent, alice, shop, contract, e1, e2, nobody

MCInitialState == [k \in {k1, k2} |-> IF k = k1 THEN old ELSE absent]

store(k)        == [op |-> "STORE", auth |-> FALSE, key |-> k, value |-> new]
load(k)         == [op |-> "LOAD", auth |-> FALSE, key |-> k]
transfer(a, n)  == [op |-> "TRANSFER", auth |-> FALSE, to |-> a, amount |-> n]
compute(n, ok)  == [op |-> "COMPUTE", auth |-> FALSE, cost |-> n, ok |-> ok, asks |-> FALSE]
ask             == [op |-> "COMPUTE", auth |-> TRUE, cost |-> 0, ok |-> TRUE, asks |-> TRUE]
return          == [op |-> "RETURN", auth |-> FALSE]
if(body)        == [op |-> "IF", auth |-> FALSE, body |-> body]
call(m, auth)   == [op |-> "CALL", auth |-> auth, method |-> m]

\* A payment between a store and a load; a method that stores in a nested
\* sequence and then, for the creator only, calls the other one.
MCInitialCode == [m \in {"pay", "nest"} |->
    CASE m = "pay"  -> <<store(k1), transfer(alice, 1), load(k2)>>
      [] m = "nest" -> <<if(<<store(k2), return>>), call("pay", TRUE)>>]

\* After an update: payments to itself and to somebody without an account, then
\* an error; a method that calls itself.
MCNewCode == [m \in {"nest", "loop"} |->
    CASE m = "nest" -> <<ask, transfer(contract, 1), transfer(shop, 1), compute(0, FALSE)>>
      [] m = "loop" -> <<call("loop", FALSE)>>]

MCOperations ==
    {store(k1), store(k2), load(k2), transfer(alice, 1), transfer(contract, 1), transfer(shop, 1),
     return, ask, compute(0, FALSE), if(<<store(k2), return>>), call("pay", TRUE), call("loop", FALSE)}

MCCodes == {MCInitialCode, MCNewCode}
=============================================================================
