------------------------------ MODULE Currency ------------------------------
(***************************************************************************)
(* currency/currency.go: the accounts and the supply of a node, from       *)
(* NewCurrencyManager on; InitNativeToken of blockchain.go runs first.     *)
(*                                                                         *)
(* A method that takes the mutex is two actions: one locks and checks, one *)
(* writes and unlocks.  DistributeFees reads and writes without the mutex, *)
(* so its steps fall anywhere between those.                               *)
(*                                                                         *)
(* An amount is a *Balance.  Callers pass one of their own, or the live    *)
(* balance or stake of an account, which GetBalance and GetStake return:   *)
(* a method reads its amount anew wherever it uses it, after its own       *)
(* writes too, and BurnTokens writes to it.                                *)
(*                                                                         *)
(* Left out: nonces, times, code and the Frozen flag, which nothing here   *)
(* reads or sets; the gas price.                                           *)
(***************************************************************************)
EXTENDS Integers, FiniteSets, Functions

CONSTANTS
    Addresses,       \* of all accounts there may be
    Genesis,         \* GENESIS_ACCOUNT
    ReservedFunds,   \* RESERVED_FUNDS_ACCOUNT
    InitialSupply,   \* of NewCurrencyManager: 1M TCC
    NewSupply,       \* minted by InitNativeToken: 100M TCC
    BlockReward,
    Amounts,         \* that callers have of their own
    Fees,            \* of the transactions of a block
    Producers,       \* goroutines that distribute the fees of a block
    None,            \* no call holds the mutex
    MaxCalls         \* bound: methods called once the token is initialized

ASSUME AccountsAssumption == {Genesis, ReservedFunds} \subseteq Addresses
ASSUME AmountsAssumption ==
    /\ InitialSupply \in Nat /\ NewSupply \in Nat \ {0} /\ BlockReward \in Nat \ {0}
    /\ Amounts \subseteq Int /\ Fees \subseteq Nat
    /\ MaxCalls \in Nat

VARIABLES
    accounts,      \* balance and stake of each account there is; staking: its Stake is not nil
    totalSupply,
    holder,        \* the call that holds the mutex, past its checks
    initializing,  \* what InitNativeToken does next
    fee,           \* where each producer is in DistributeFees
    calls,         \* history: methods called once the token is initialized
    feesTaken,     \* history: fees distributed, which no account is charged for here
    lost,          \* history: a distribution of fees overlapped another update
    aliased        \* history: a method wrote to its own amount before it was done with it

vars == <<accounts, totalSupply, holder, initializing, fee, calls, feesTaken, lost, aliased>>

Call(method, from, to, amount) ==
    [method |-> method, from |-> from, to |-> to, amount |-> amount]

\* What an amount points to: a Balance of the caller's, or an account's field.
Own(x) == [of |-> "caller", account |-> Genesis, value |-> x]
BalanceOf(a) == [of |-> "balance", account |-> a, value |-> 0]
StakeOf(a) == [of |-> "stake", account |-> a, value |-> 0]

Read(books, amount) ==
    CASE amount.of = "balance" -> books[amount.account].balance
      [] amount.of = "stake"   -> books[amount.account].stake
      [] OTHER                 -> amount.value

\* GetBalance and GetStake of what there is; otherwise they return a new 0.
LiveAmounts ==
    {BalanceOf(a) : a \in DOMAIN accounts}
        \cup {StakeOf(a) : a \in {b \in DOMAIN accounts : accounts[b].staking}}

AnyAmount == {Own(x) : x \in Amounts} \cup LiveAmounts

Idle(next) == [at |-> next, validator |-> Genesis, fees |-> 0, seen |-> 0]

\* 5% of an amount, and the 70% of the fees that a validator is given.
Reserve(amount) == (amount * 5) \div 100
ValidatorShare(fees) == (fees * 70) \div 100

\* Accounts once "a" has one; MintTokens opens it without a stake.
Opened(a, staking) ==
    [b \in DOMAIN accounts \cup {a} |->
        IF b \in DOMAIN accounts THEN accounts[b]
        ELSE [balance |-> 0, stake |-> 0, staking |-> staking]]

\* NewCurrencyManager.
Init ==
    /\ accounts = [a \in {Genesis} |->
          [balance |-> InitialSupply - Reserve(InitialSupply), stake |-> 0, staking |-> FALSE]]
    /\ totalSupply = InitialSupply
    /\ holder = None
    /\ initializing = "burn"
    /\ fee = [p \in Producers |-> Idle("start")]
    /\ calls = 0
    /\ feesTaken = 0
    /\ lost = FALSE
    /\ aliased = FALSE

-----------------------------------------------------------------------------
(* The methods of the manager: lock and check ...                          *)

Lock(method, from, to, amount) ==
    /\ holder = None
    /\ holder' = Call(method, from, to, amount)
    /\ UNCHANGED <<accounts, totalSupply, fee, feesTaken, lost, aliased>>

\* Mutants of HasFunds: a missing account is not refused; the balance is not
\* looked at.
FundsIfKnown(a, x) == a \in DOMAIN accounts => accounts[a].balance >= x
HasAccount(a, x) == a \in DOMAIN accounts

HasFunds(a, x) == a \in DOMAIN accounts /\ accounts[a].balance >= x
HasStake(a, x) == a \in DOMAIN accounts /\ accounts[a].stake >= x

TransferFunds(from, to, amount) ==
    /\ Read(accounts, amount) > 0
    /\ HasFunds(from, Read(accounts, amount))
    /\ Lock("TransferFunds", from, to, amount)

MintTokens(to, amount) ==
    /\ Read(accounts, amount) > 0
    /\ Lock("MintTokens", to, to, amount)

\* amount.Int = maxBurn: the caller's amount is written to, whatever it is.
Assigned(books, amount, x) ==
    CASE amount.of = "balance" -> [books EXCEPT ![amount.account].balance = x]
      [] amount.of = "stake"   -> [books EXCEPT ![amount.account].stake = x]
      [] OTHER                 -> books

\* An amount below a hundredth of the balance is raised to that.
BurnTokens(from, amount) ==
    /\ holder = None
    /\ from \in DOMAIN accounts
    /\ LET maxBurn == accounts[from].balance \div 100
           raised  == Read(accounts, amount) <= maxBurn
           burnt   == IF raised /\ amount.of = "caller" THEN Own(maxBurn) ELSE amount
           books   == IF raised THEN Assigned(accounts, amount, maxBurn) ELSE accounts
       IN  /\ accounts' = books
           /\ holder' = IF books[from].balance >= Read(books, burnt)
                        THEN Call("BurnTokens", from, from, burnt) ELSE None
           /\ aliased' = (aliased \/ books # accounts)
    /\ UNCHANGED <<totalSupply, fee, feesTaken, lost>>

StakeTokens(a, amount) ==
    /\ Read(accounts, amount) > 0
    /\ HasFunds(a, Read(accounts, amount))
    /\ Lock("StakeTokens", a, a, amount)

UnstakeTokens(a, amount) ==
    /\ Read(accounts, amount) > 0
    /\ HasStake(a, Read(accounts, amount))
    /\ Lock("UnstakeTokens", a, a, amount)

\* CreateAccount, GetAccount.
CreateAccount(a) ==
    /\ holder = None
    /\ accounts' = Opened(a, TRUE)
    /\ UNCHANGED <<totalSupply, holder, fee, feesTaken, lost, aliased>>

(* ... then write and unlock.  The second write reads the amount again.    *)

Unlock ==
    /\ holder' = None
    /\ UNCHANGED <<initializing, fee, feesTaken, lost>>

\* The method's first write goes to what "cell" points to.
WritesFirst(cell) == aliased' = (aliased \/ holder.amount = cell)

\* Without an account to transfer to, CreateAccount waits for the mutex that
\* its caller holds: the step never comes.
Transferred ==
    /\ holder # None
    /\ holder.method = "TransferFunds"
    /\ holder.to \in DOMAIN accounts
    /\ LET debited == [accounts EXCEPT ![holder.from].balance = @ - Read(accounts, holder.amount)]
       IN  accounts' = [debited EXCEPT ![holder.to].balance = @ + Read(debited, holder.amount)]
    /\ WritesFirst(BalanceOf(holder.from))
    /\ Unlock
    /\ UNCHANGED totalSupply

Minted ==
    /\ holder # None
    /\ holder.method = "MintTokens"
    /\ accounts' = [Opened(holder.to, FALSE) EXCEPT
                       ![holder.to].balance = @ + Read(accounts, holder.amount)]
    /\ totalSupply' = totalSupply + Read(accounts', holder.amount)
    /\ WritesFirst(BalanceOf(holder.to))
    /\ Unlock

\* Mutant of SupplyAfterBurn: the supply is not reduced by what an account loses.
UnburntSupply(books) == totalSupply

SupplyAfterBurn(books) == totalSupply - Read(books, holder.amount)

Burned ==
    /\ holder # None
    /\ holder.method = "BurnTokens"
    /\ accounts' = [accounts EXCEPT ![holder.from].balance = @ - Read(accounts, holder.amount)]
    /\ totalSupply' = SupplyAfterBurn(accounts')
    /\ WritesFirst(BalanceOf(holder.from))
    /\ Unlock

Staked ==
    /\ holder # None
    /\ holder.method = "StakeTokens"
    /\ LET debited == [accounts EXCEPT ![holder.from].balance = @ - Read(accounts, holder.amount)]
       IN  accounts' = [debited EXCEPT ![holder.from].stake = @ + Read(debited, holder.amount),
                                       ![holder.from].staking = TRUE]
    /\ WritesFirst(BalanceOf(holder.from))
    /\ Unlock
    /\ UNCHANGED totalSupply

Unstaked ==
    /\ holder # None
    /\ holder.method = "UnstakeTokens"
    /\ LET released == [accounts EXCEPT ![holder.from].stake = @ - Read(accounts, holder.amount)]
       IN  accounts' = [released EXCEPT ![holder.from].balance = @ + Read(released, holder.amount)]
    /\ WritesFirst(StakeOf(holder.from))
    /\ Unlock
    /\ UNCHANGED totalSupply

-----------------------------------------------------------------------------
(* InitNativeToken, before anybody else has the manager.                   *)

Continue(next) == initializing' = next

\* Burns what there is, if the genesis account has it all.
BurnInitial ==
    /\ initializing = "burn"
    /\ BurnTokens(Genesis, Own(totalSupply))
    /\ Continue("mint")

MintNew ==
    /\ initializing = "mint"
    /\ Lock("MintTokens", Genesis, Genesis, Own(NewSupply))
    /\ Continue("account")

OpenReserve ==
    /\ initializing = "account"
    /\ CreateAccount(ReservedFunds)
    /\ Continue("reserve")

FillReserve ==
    /\ initializing = "reserve"
    /\ \/ TransferFunds(Genesis, ReservedFunds, Own(Reserve(NewSupply)))
       \/ /\ ~(Reserve(NewSupply) > 0 /\ HasFunds(Genesis, Reserve(NewSupply)))
          /\ holder = None
          /\ UNCHANGED <<accounts, totalSupply, holder, fee, feesTaken, lost, aliased>>
    /\ Continue("done")

InitNativeToken == BurnInitial \/ MintNew \/ OpenReserve \/ FillReserve

-----------------------------------------------------------------------------
(* ProcessBlockRewards: the reward, then DistributeFees without the mutex. *)

At(p, step) == fee[p].at = step

RewardBlockProducer(p, validator) ==
    /\ At(p, "start")
    /\ holder = None
    /\ holder' = Call("MintTokens", validator, validator, Own(BlockReward))
    /\ \E fees \in Fees :
          fee' = [fee EXCEPT ![p] =
                    [at |-> "read", validator |-> validator, fees |-> fees, seen |-> 0]]
    /\ UNCHANGED <<accounts, totalSupply, feesTaken, lost, aliased>>

\* GetAccount of the validator, and the read of his balance.
ReadBalance(p) ==
    /\ At(p, "read")
    /\ holder = None
    /\ accounts' = Opened(fee[p].validator, TRUE)
    /\ fee' = [fee EXCEPT ![p].at = "credit",
                          ![p].seen = accounts'[fee[p].validator].balance]
    /\ UNCHANGED <<totalSupply, holder, feesTaken, lost, aliased>>

\* The outcomes of writing seen + change where the value is now "current".  If
\* somebody else wrote meanwhile, or is about to write what he read before, one
\* of the two updates is lost.
Written(seen, current, change, overlaps) ==
    IF overlaps THEN {seen + change, current} ELSE {seen + change}

\* The method that holds the mutex writes the balance of a, or has it for its
\* amount; it writes the supply.
HolderUses(a) == holder # None /\ (a \in {holder.from, holder.to} \/ holder.amount = BalanceOf(a))
HolderWritesSupply == holder # None /\ holder.method \in {"MintTokens", "BurnTokens"}

\* Adds the share to the balance.
Credit(p) ==
    LET validator == fee[p].validator
        balance   == accounts[validator].balance
        share     == ValidatorShare(fee[p].fees)
        overlaps  == fee[p].seen # balance \/ HolderUses(validator)
    IN  /\ At(p, "credit")
        /\ \E new \in Written(fee[p].seen, balance, share, overlaps) :
              accounts' = [accounts EXCEPT ![validator].balance = new]
        /\ lost' = (lost \/ overlaps)
        /\ feesTaken' = feesTaken + share
        /\ fee' = [fee EXCEPT ![p].at = "reduce", ![p].seen = totalSupply]
        /\ UNCHANGED <<totalSupply, holder, aliased>>

\* Takes the rest off the supply.
Reduce(p) ==
    LET burnShare == fee[p].fees - ValidatorShare(fee[p].fees)
        overlaps  == fee[p].seen # totalSupply \/ HolderWritesSupply
    IN  /\ At(p, "reduce")
        /\ totalSupply' \in Written(fee[p].seen, totalSupply, -burnShare, overlaps)
        /\ lost' = (lost \/ overlaps)
        /\ feesTaken' = feesTaken + burnShare
        /\ fee' = [fee EXCEPT ![p] = Idle("start")]
        /\ UNCHANGED <<accounts, holder, aliased>>

Finish == Transferred \/ Minted \/ Burned \/ Staked \/ Unstaked

\* A method that somebody calls.
NewCall ==
    \/ \E a, b \in Addresses, x \in AnyAmount : TransferFunds(a, b, x)
    \/ \E a \in Addresses, x \in AnyAmount :
          \/ MintTokens(a, x)
          \/ BurnTokens(a, x)
          \/ StakeTokens(a, x)
          \/ UnstakeTokens(a, x)
    \/ \E a \in Addresses : CreateAccount(a)
    \/ \E p \in Producers, a \in Addresses : RewardBlockProducer(p, a)

DistributeFees == \E p \in Producers : ReadBalance(p) \/ Credit(p) \/ Reduce(p)

Next ==
    \/ Finish /\ UNCHANGED calls
    \/ InitNativeToken /\ UNCHANGED calls
    \/ DistributeFees /\ UNCHANGED <<initializing, calls>>
    \/ /\ initializing = "done"
       /\ calls < MaxCalls
       /\ calls' = calls + 1
       /\ NewCall
       /\ UNCHANGED initializing

Spec == Init /\ [][Next]_vars

-----------------------------------------------------------------------------
(* Properties.                                                             *)

AmountType ==
    [of : {"caller"}, account : {Genesis}, value : Int]
        \cup [of : {"balance", "stake"}, account : Addresses, value : {0}]

CallType ==
    [method : {"TransferFunds", "MintTokens", "BurnTokens", "StakeTokens", "UnstakeTokens"},
     from : Addresses, to : Addresses, amount : AmountType]

\* Types, and the account that a call takes from is there until it has.
TypeOK ==
    /\ DOMAIN accounts \subseteq Addresses
    /\ accounts \in [DOMAIN accounts -> [balance : Int, stake : Int, staking : BOOLEAN]]
    /\ totalSupply \in Int
    /\ holder \in CallType \cup {None}
    /\ holder # None /\ holder.method # "MintTokens" => holder.from \in DOMAIN accounts
    /\ initializing \in {"burn", "mint", "account", "reserve", "done"}
    /\ fee \in [Producers -> [at : {"start", "read", "credit", "reduce"}, validator : Addresses,
                              fees : Nat, seen : Int]]
    /\ calls \in 0..MaxCalls
    /\ feesTaken \in Nat
    /\ lost \in BOOLEAN
    /\ aliased \in BOOLEAN

\* Unless a distribution of fees (currency.go:453, 456) overlapped another
\* update, no balance and no stake ever goes below zero, whatever the methods
\* check under the mutex, and also when an amount is itself a live balance or
\* stake that other steps change.
NoOverdraft ==
    ~lost => \A a \in DOMAIN accounts : accounts[a].balance >= 0 /\ accounts[a].stake >= 0

\* What each account has, in its balance or staked.
Held(books) == [a \in DOMAIN books |-> books[a].balance + books[a].stake]

\* Under the same condition the supply is what the accounts hold and stake and
\* what NewCurrencyManager sets aside in no account, but for the fees, which
\* are credited and burnt (currency.go:453, 456) and paid by nobody here.  It is
\* so whenever no method is half-way through its writes, and whatever live
\* balances and stakes are passed as amounts, as long as no method is passed the
\* very one that it writes first and reads again: UnstakeTokens(a, GetStake(a))
\* credits nothing (currency.go:583), BurnTokens(a, GetBalance(a)) leaves the
\* supply alone (416), and so on.
TokensAreAccounted ==
    ~lost /\ ~aliased =>
        totalSupply + feesTaken = SumFunction(Held(accounts)) + Reserve(InitialSupply)
=============================================================================
