----------------------------- MODULE ContractVM -----------------------------
(***************************************************************************)
(* contracts/contracts.go: one contract, the goroutines that execute it,    *)
(* and the accounts of the currency that it pays from.                     *)
(*                                                                         *)
(* An execution is a stack of sequences of operations (executeOperations): *)
(* the method, and the bodies of the IFs and CALLs that it is in.  Each    *)
(* works on a copy of contract.State, taken key by key without a lock, and *)
(* commits it, key by key too, under contract.mutex.  The arguments of an  *)
(* operation are constants of the code, so that only LOAD and TRANSFER     *)
(* depend on anything else.                                                *)
(*                                                                         *)
(* ExecuteContract collects only operations whose code is METHOD and not   *)
(* METHOD (contracts.go:380): it executes none, and the gas it charges     *)
(* for, 0, is a fee that TransferFunds refuses.                            *)
(* Left out: events, templates, times, hashes of the code.                 *)
(***************************************************************************)
EXTENDS Integers, Sequences, FiniteSets, Functions

CONSTANTS
    Keys, Values, Absent,
    Clients,         \* addresses with an account from the start
    Others,          \* addresses without an account at first
    Self,            \* the address of the contract
    Funds,           \* what a client has at first
    Amounts,         \* that come with a call, or are given to the contract
    InitialState,    \* the state and the code that CreateContract is given
    InitialCode,
    Operations,      \* records: op, auth (RequiresAuth) and the arguments of op
    Codes,           \* the codes of the contract: operations by method
    Methods,         \* names of methods, whether the code has them or not
    Executors,       \* goroutines that execute
    None,            \* nobody holds contract.mutex
    BaseCost, StoreCost, LoadCost, TransferCost, CallCost,   \* GasCost...
    ReadOnlyGas,     \* gas limit of ExecuteReadOnlyCall: 1000000
    Word,            \* 2^64: gas is a uint64
    MaxDepth,        \* bound: sequences of an execution at a time
    MaxCalls         \* bound: calls from outside, once the contract exists

Addresses == Clients \cup Others \cup {Self}
Maps == [Keys -> Values \cup {Absent}]
Nothing == [k \in Keys |-> Absent]
Present(map) == {k \in Keys : map[k] # Absent}

\* Nobody calls in the name of the contract: no signature is checked.
ASSUME NamesAssumption ==
    /\ None \notin Executors \cup Clients
    /\ Self \notin Clients \cup Others
    /\ Absent \notin Values
ASSUME ExecutorsAssumption == IsFiniteSet(Executors)
ASSUME CodeAssumption ==
    /\ Keys # {}
    /\ InitialState \in Maps
    /\ InitialCode \in Codes
    /\ \A c \in Codes : c \in [DOMAIN c -> Seq(Operations)]
    /\ \A op \in Operations :
          /\ op.op = "STORE" => op.key \in Keys /\ op.value \in Values
          /\ op.op = "IF" => op.body \in Seq(Operations)
          /\ op.op = "COMPUTE" => op.cost \in Nat
          /\ op.op = "TRANSFER" => op.to \in Addresses /\ op.amount \in Int
ASSUME AmountsAssumption == Funds \in Nat /\ Amounts \subseteq Nat /\ MaxCalls \in Nat
ASSUME GasAssumption ==
    /\ BaseCost \in Nat \ {0}
    /\ {StoreCost, LoadCost, TransferCost, CallCost} \subseteq Nat
    /\ ReadOnlyGas \in Nat
    /\ ReadOnlyGas % BaseCost = 0
    /\ Word \in Nat /\ Word > ReadOnlyGas
    /\ MaxDepth \in Nat \ {0}

VARIABLES
    creator,       \* of the contract, None before it exists
    code,          \* contract.Code
    state,         \* contract.State
    balance,       \* contract.Balance
    holder,        \* the execution that holds contract.mutex to commit
    accounts,      \* balances of the currency's accounts
    wedged,        \* a TransferFunds waits for the currency's mutex that it holds
    exec,          \* the executions
    stopped,       \* the runtime stopped the program
    calls          \* history: calls from outside, once the contract exists

vars == <<creator, code, state, balance, holder, accounts, wedged, exec, stopped, calls>>

Idle == [at |-> "idle", readOnly |-> FALSE, caller |-> None, frames |-> <<>>,
         to |-> Self, amount |-> 0]

\* The account of a contract is not opened with the contract.
Init ==
    /\ creator = None
    /\ code = InitialCode
    /\ state = InitialState
    /\ balance = 0
    /\ holder = None
    /\ accounts = [c \in Clients |-> Funds]
    /\ wedged = FALSE
    /\ exec = [e \in Executors |-> Idle]
    /\ stopped = FALSE
    /\ calls = 0

-----------------------------------------------------------------------------
(* The currency, as far as contracts use it.                               *)

Account(a) == IF a \in DOMAIN accounts THEN accounts[a] ELSE 0

\* GetAccount, or MintTokens: anybody may open an account and add to it.
Opened(a, amount) == [b \in DOMAIN accounts \cup {a} |->
                        IF b = a THEN Account(a) + amount ELSE accounts[b]]

\* A bug to look for: the balance is not looked at.
AcceptsAny(from, amount) == amount > 0 /\ from \in DOMAIN accounts

Accepts(from, amount) ==
    /\ amount > 0
    /\ from \in DOMAIN accounts
    /\ accounts[from] >= amount

\* An accepted transfer moves the amount, or waits for ever to open an account.
TransferFunds(from, to, amount) ==
    /\ ~wedged
    /\ Accepts(from, amount)
    /\ IF to \in DOMAIN accounts
       THEN /\ accounts' = [[accounts EXCEPT ![from] = @ - amount] EXCEPT ![to] = @ + amount]
            /\ UNCHANGED wedged
       ELSE /\ wedged' = TRUE
            /\ UNCHANGED accounts

-----------------------------------------------------------------------------
(* The stack of an execution.                                              *)

Goes(e, new) == exec' = [exec EXCEPT ![e] = new]

Depth(e) == Len(exec[e].frames)
Top(e) == exec[e].frames[Depth(e)]
WithTop(e, frame) == [exec[e].frames EXCEPT ![Depth(e)] = frame]
Below(e) == SubSeq(exec[e].frames, 1, Depth(e) - 1)

\* What a sequence adds to the gas of the one that called it: its own gas, and
\* "extra" for the operation IF or CALL.  "unread" are the keys of contract.State
\* that it has still to copy, "rest" those of its copy that it has to commit.
Frame(ops, limit, extra) ==
    [ops |-> ops, copy |-> Nothing, gas |-> 0, limit |-> limit, extra |-> extra,
     unread |-> Keys, rest |-> {}]

\* contract.State is copied in steps of their own, Enter.
Push(e, frames, ops, limit, extra) ==
    /\ Len(frames) < MaxDepth
    /\ Goes(e, [exec[e] EXCEPT !.at = "entering",
                               !.frames = Append(frames, Frame(ops, limit, extra))])

\* The loop over contract.State, in any order and without contract.mutex.
Enter(e) ==
    /\ exec[e].at = "entering"
    /\ \E k \in Top(e).unread :
          LET unread == Top(e).unread \ {k}
              frame  == [Top(e) EXCEPT !.copy[k] = state[k], !.unread = unread]
          IN  Goes(e, [exec[e] EXCEPT !.at = IF unread = {} THEN "running" ELSE "entering",
                                      !.frames = WithTop(e, frame)])
    /\ UNCHANGED <<creator, code, state, balance, holder, accounts, wedged>>

\* The next operation, once gas and authorization are checked.
Operation(e) == Head(Top(e).ops)
Pending(e) == exec[e].at = "running" /\ Top(e).ops # <<>>
OutOfGas(e) == Top(e).gas >= Top(e).limit
Authorized(e) == Operation(e).auth => exec[e].caller = creator

Executes(e, opCode) ==
    /\ Pending(e)
    /\ ~OutOfGas(e)
    /\ Authorized(e)
    /\ Operation(e).op = opCode

Done(frame, cost) == [frame EXCEPT !.ops = Tail(@), !.gas = @ + cost]

Advances(e, frame) == Goes(e, [exec[e] EXCEPT !.at = "running", !.frames = WithTop(e, frame)])

Untouched == UNCHANGED <<creator, code, state, balance, holder, accounts, wedged>>

\* A bug to look for: the mutex is not waited for.
Unguarded == TRUE

MutexFree == holder = None

-----------------------------------------------------------------------------
(* executeOperation.                                                       *)

Store(e) ==
    /\ Executes(e, "STORE")
    /\ LET op    == Operation(e)
           frame == Done(Top(e), BaseCost + StoreCost)
       IN  Advances(e, [frame EXCEPT !.copy[op.key] = op.value])
    /\ Untouched

Load(e) ==
    /\ Executes(e, "LOAD")
    /\ Top(e).copy[Operation(e).key] # Absent
    /\ Advances(e, Done(Top(e), BaseCost + LoadCost))
    /\ Untouched

\* Arithmetic, COMPARE, REQUIRE, EMIT_EVENT and NATIVE_CALL, of which only
\* "balance" asks the currency.
Compute(e) ==
    /\ Executes(e, "COMPUTE")
    /\ Operation(e).ok
    /\ Operation(e).asks => ~wedged
    /\ Advances(e, Done(Top(e), BaseCost + Operation(e).cost))
    /\ Untouched

Return(e) ==
    /\ Executes(e, "RETURN")
    /\ Advances(e, [Done(Top(e), BaseCost) EXCEPT !.ops = <<>>])
    /\ Untouched

\* The branch that is taken, with the whole limit again.
If(e) ==
    /\ Executes(e, "IF")
    /\ Push(e, WithTop(e, Done(Top(e), 0)), Operation(e).body, Top(e).limit, BaseCost)
    /\ Untouched

\* A bug to look for: the cost of the call is taken off as well.
RemainingAfterCall(limit) == (limit - BaseCost - CallCost) % Word

\* A difference of unsigned numbers.
RemainingGas(limit) == (limit - BaseCost) % Word

Call(e) ==
    /\ Executes(e, "CALL")
    /\ Operation(e).method \in DOMAIN code
    /\ RemainingGas(Top(e).limit) > 0
    /\ Push(e, WithTop(e, Done(Top(e), 0)), code[Operation(e).method],
            RemainingGas(Top(e).limit), BaseCost + CallCost)
    /\ Untouched

\* TRANSFER looks at contract.Balance, asks the currency to transfer, and
\* takes the amount off contract.Balance: three steps.
CheckBalance(e) ==
    /\ Executes(e, "TRANSFER")
    /\ balance >= Operation(e).amount
    /\ Goes(e, [exec[e] EXCEPT !.at = "sending", !.to = Operation(e).to, !.amount = Operation(e).amount])
    /\ Untouched

Send(e) ==
    /\ exec[e].at = "sending"
    /\ TransferFunds(Self, exec[e].to, exec[e].amount)
    /\ Goes(e, [exec[e] EXCEPT !.at = IF wedged' THEN "stuck" ELSE "debiting"])
    /\ UNCHANGED <<creator, code, state, balance, holder>>

\* A bug to look for: contract.Balance is left as it is.
Undebited(amount) == balance

Debited(amount) == balance - amount

Debit(e) ==
    /\ exec[e].at = "debiting"
    /\ MutexFree
    /\ balance' = Debited(exec[e].amount)
    /\ Advances(e, Done(Top(e), BaseCost + TransferCost))
    /\ UNCHANGED <<creator, code, state, holder, accounts, wedged>>

\* An operation returns an error.
Refused(e) ==
    \/ /\ Pending(e)
       /\ LET op == Operation(e)
          IN  \/ OutOfGas(e)
              \/ ~Authorized(e)
              \/ op.op = "LOAD" /\ Top(e).copy[op.key] = Absent
              \/ op.op = "COMPUTE" /\ ~op.ok
              \/ op.op = "CALL" /\ op.method \notin DOMAIN code
              \/ op.op = "CALL" /\ RemainingGas(Top(e).limit) = 0
              \/ op.op = "TRANSFER" /\ balance < op.amount
    \/ exec[e].at = "sending" /\ ~wedged /\ ~Accepts(Self, exec[e].amount)

\* It ends the sequence, and then those that wait for it.
Fail(e) ==
    /\ Refused(e) \/ exec[e].at = "failing"
    /\ Goes(e, IF Depth(e) = 1 THEN Idle
               ELSE [exec[e] EXCEPT !.at = "failing", !.frames = Below(e)])
    /\ Untouched

-----------------------------------------------------------------------------
(* The end of a sequence: the whole copy is written back, under the mutex. *)

StartCommit(e) ==
    /\ exec[e].at = "running"
    /\ Top(e).ops = <<>>
    /\ MutexFree
    /\ holder' = e
    /\ Goes(e, [exec[e] EXCEPT !.at = "committing",
                               !.frames = WithTop(e, [Top(e) EXCEPT !.rest = Present(Top(e).copy)])])
    /\ UNCHANGED <<creator, code, state, balance, accounts, wedged>>

Publish(e) ==
    /\ exec[e].at = "committing"
    /\ \E k \in Top(e).rest :
          /\ state' = [state EXCEPT ![k] = Top(e).copy[k]]
          /\ Goes(e, [exec[e] EXCEPT !.frames = WithTop(e, [Top(e) EXCEPT !.rest = @ \ {k}])])
    /\ UNCHANGED <<creator, code, balance, holder, accounts, wedged>>

\* A bug to look for: an early return keeps the mutex.
StillHeld == holder

Released == None

\* The sequence below goes on, with the gas of this one.
Resumed(e) ==
    LET caller == exec[e].frames[Depth(e) - 1]
    IN  [exec[e] EXCEPT !.at = "running",
            !.frames = [Below(e) EXCEPT ![Depth(e) - 1] = [caller EXCEPT !.gas = @ + Top(e).gas + Top(e).extra]]]

EndCommit(e) ==
    /\ exec[e].at = "committing"
    /\ Top(e).rest = {}
    /\ holder' = Released
    /\ Goes(e, IF Depth(e) > 1 THEN Resumed(e)
               ELSE IF exec[e].readOnly THEN Idle
               ELSE [Idle EXCEPT !.at = "charging"])
    /\ UNCHANGED <<creator, code, state, balance, accounts, wedged>>

\* The fee of ExecuteContract is 0: the currency refuses it.
Charge(e) ==
    /\ exec[e].at = "charging"
    /\ ~wedged
    /\ Goes(e, Idle)
    /\ Untouched

-----------------------------------------------------------------------------
(* ExecuteContract, after the value that came with the call.               *)

\* "found" is whether the code has the method; none of its operations is kept.
Find(e) ==
    /\ exec[e].at = "finding"
    /\ \/ /\ Methods \cap DOMAIN code # {}
          /\ Push(e, <<>>, <<>>, 0, 0)
       \/ /\ Methods \ DOMAIN code # {}
          /\ Goes(e, Idle)
    /\ Untouched

Credit(e) ==
    /\ exec[e].at = "crediting"
    /\ MutexFree
    /\ balance' = balance + exec[e].amount
    /\ Goes(e, [exec[e] EXCEPT !.at = "finding"])
    /\ UNCHANGED <<creator, code, state, holder, accounts, wedged>>

Works(e) ==
    \/ Enter(e) \/ Store(e) \/ Load(e) \/ Compute(e) \/ Return(e) \/ If(e) \/ Call(e)
    \/ CheckBalance(e) \/ Send(e) \/ Debit(e) \/ Fail(e)
    \/ StartCommit(e) \/ Publish(e) \/ EndCommit(e)
    \/ Credit(e) \/ Find(e) \/ Charge(e)

-----------------------------------------------------------------------------
(* Calls from outside.                                                     *)

Begins(e, readOnly, caller, at) == [Idle EXCEPT !.at = at, !.readOnly = readOnly, !.caller = caller]

ExecuteContract(e, caller, value) ==
    /\ creator # None
    /\ exec[e].at = "idle"
    /\ IF value = 0
       THEN /\ Goes(e, Begins(e, FALSE, caller, "finding"))
            /\ UNCHANGED <<accounts, wedged>>
       ELSE /\ TransferFunds(caller, Self, value)
            /\ Goes(e, [Begins(e, FALSE, caller, IF wedged' THEN "stuck" ELSE "crediting")
                            EXCEPT !.amount = value])
    /\ UNCHANGED <<creator, code, state, balance, holder>>

ExecuteReadOnlyCall(e, caller, method) ==
    /\ creator # None
    /\ exec[e].at = "idle"
    /\ method \in DOMAIN code
    /\ Goes(e, [Begins(e, TRUE, caller, "entering")
                    EXCEPT !.frames = <<Frame(code[method], ReadOnlyGas, 0)>>])
    /\ Untouched

\* A value is transferred to the new address, which has no account: the call
\* never returns, and keeps the manager's mutex with the currency's.
CreateContract(c, value) ==
    /\ creator = None
    /\ ~wedged
    /\ \/ /\ value = 0
          /\ creator' = c
          /\ UNCHANGED <<accounts, wedged>>
       \/ /\ TransferFunds(c, Self, value)
          /\ UNCHANGED creator
    /\ UNCHANGED <<code, state, balance, holder, exec>>

UpdateContractCode(c) ==
    /\ creator = c
    /\ code' \in Codes \ {code}
    /\ UNCHANGED <<creator, state, balance, holder, accounts, wedged, exec>>

OpenAccount(a, amount) ==
    /\ creator # None
    /\ ~wedged
    /\ accounts' = Opened(a, amount)
    /\ UNCHANGED <<creator, code, state, balance, holder, wedged, exec>>

CreateContracts == \E c \in Clients, v \in Amounts \cup {0} : CreateContract(c, v)

Called ==
    \/ \E c \in Clients : UpdateContractCode(c)
    \/ \E a \in Others \cup {Self}, v \in Amounts \cup {0} : OpenAccount(a, v)
    \/ \E e \in Executors, c \in Clients \cup Others :
          \/ \E v \in Amounts \cup {0} : ExecuteContract(e, c, v)
          \/ \E m \in Methods : ExecuteReadOnlyCall(e, c, m)

Runs ==
    \/ \E e \in Executors : Works(e) /\ UNCHANGED calls
    \/ CreateContracts /\ UNCHANGED calls
    \/ calls < MaxCalls /\ calls' = calls + 1 /\ Called

\* "concurrent map iteration and map write": the runtime may notice that a
\* sequence copies contract.State while another one writes to it.
Stops ==
    /\ \E e, f \in Executors :
          /\ exec[e].at = "entering"
          /\ exec[f].at = "committing" /\ Top(f).rest # {}
    /\ stopped' = TRUE
    /\ UNCHANGED <<creator, code, state, balance, holder, accounts, wedged, exec, calls>>

Next ==
    /\ ~stopped
    /\ \/ Runs /\ UNCHANGED stopped
       \/ Stops

\* A goroutine that executes goes on, as long as the program does.
Fairness ==
    \A e \in Executors : WF_vars(~stopped /\ Works(e) /\ UNCHANGED <<stopped, calls>>)

Spec == Init /\ [][Next]_vars /\ Fairness

-----------------------------------------------------------------------------
(* Properties.                                                             *)

TypeOK ==
    /\ creator \in Clients \cup {None}
    /\ code \in Codes
    /\ state \in Maps
    /\ balance \in Int
    /\ holder \in Executors \cup {None}
    /\ DOMAIN accounts \subseteq Addresses
    /\ accounts \in [DOMAIN accounts -> Nat]
    /\ wedged \in BOOLEAN
    /\ stopped \in BOOLEAN
    /\ calls \in 0..MaxCalls
    /\ \A e \in Executors :
          /\ exec[e].at \in {"idle", "entering", "running", "sending", "debiting", "failing",
                             "committing", "crediting", "finding", "charging", "stuck"}
          /\ Depth(e) <= MaxDepth
          /\ exec[e].at \in {"entering", "running", "sending", "debiting", "failing", "committing"}
                => Depth(e) > 0

\* What an execution has moved from the account of the contract and has not yet
\* taken off contract.Balance.
Unrecorded(x) ==
    CASE x.at = "debiting"  -> x.amount
      [] x.at = "crediting" -> -x.amount
      [] OTHER              -> 0

\* contracts.go:546: the contract's balance is checked without the lock and
\* reduced (557) after the transfer.  However executions interleave, whoever
\* gives to the account meanwhile and wherever an execution fails, the balance
\* claims nothing that the account does not have.
BalanceIsBacked ==
    balance <= Account(Self) + SumFunction([e \in Executors |-> Unrecorded(exec[e])])

\* contracts.go:995: the gas left for a call is a difference of unsigned
\* numbers, tested for <= 0.  It never wraps around: no sequence may use more
\* than the one that called it.
GasNeverWraps ==
    \A e \in Executors : \A d \in 1..Depth(e) :
        exec[e].frames[d].limit <= (IF d = 1 THEN ReadOnlyGas ELSE exec[e].frames[d - 1].limit)

\* Every execution ends, a method that calls itself too, unless the currency
\* is stuck (currency.go:315) or the runtime stops the program.
EveryExecutionEnds ==
    \A e \in Executors : exec[e].at # "idle" ~> (exec[e].at = "idle" \/ wedged \/ stopped)

\* A sequence in progress, as SequenceStore has it: the d-th of an execution.
\* It begins with the first key that it copies.
Work(x, d) ==
    LET top == d = Len(x.frames)
        f   == x.frames[d]
    IN  IF d > Len(x.frames) \/ (top /\ x.at = "entering" /\ f.unread = Keys)
        THEN [at |-> "free", copy |-> Nothing, rest |-> {}]
        ELSE IF top /\ x.at = "entering"
        THEN [at |-> "copying", copy |-> f.copy, rest |-> f.unread]
        ELSE [at   |-> IF top /\ x.at = "committing" THEN "committing" ELSE "working",
              copy |-> f.copy,
              rest |-> f.rest]

Sequences == Executors \X (1..MaxDepth)
work == [s \in Sequences |-> Work(exec[s[1]], s[2])]

Abstract == INSTANCE SequenceStore WITH
    Sequences <- Sequences,
    state     <- state,
    work      <- work

\* contracts.go:435, 462: "Create a local state that will be committed if
\* execution succeeds".  No operation of a sequence that fails reaches the
\* contract's state, except through a nested sequence (IF, CALL) that has ended
\* well before; the keys of two commits never alternate; and what a sequence
\* works on is what it has found at each key when it began, of several commits
\* perhaps, and its own operations.
ImplementsSequenceStore == Abstract!Spec
=============================================================================
