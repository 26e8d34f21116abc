# TripCodeChain in TLA+

This directory holds a TLA+ model of the node in this repository (27 Go files under `src/`), the
TLC configurations that check it on small instances, and proofs, checked by TLAPS, of what the model
says for every instance. `PROJECT.json` lists the components, the runs, the lines of Go behind every
definition, the hazards and the theorems; this file explains them.

The source was read together with its `README.md` and comments; the repository has no tests. Paths
below are relative to `src/`.

## 1. The system

A node keeps two blockchains, one of transactions (judged by DPoS) and one of "critical processes"
(judged by PBFT), each with a mempool, a LevelDB store and a currency manager. It serves HTTP to
clients and to other nodes. `main.go` builds all of this and starts the background goroutines.

| Component | Files | State | Operations that change it |
|---|---|---|---|
| Block rules | `blockchain/block.go`, `blockchain/blockchain.go` | none | create, forge, hash, validate a block or a chain, adjust the difficulty |
| Chain store | `blockchain/blockchain.go`, `blockchain/levelDB.go`, `blockchain/interfaces.go` | `blocks`, `difficulty`, a mutex; `blockindex_*` and `height` in LevelDB | `NewBlockchain`, `AddBlock`, `ReplaceChain`, `SaveBlock` |
| Mempool | `mempool/mempool.go`, `blockchain/transaction.go` | pending items by ID, a mutex | `AddItem`, `RemoveProcessedItems` (`RemoveItem`, `Clear`: no callers) |
| Handlers and the mempool job | `p2p/handlers.go`, `p2p/server.go` | none of their own | accept an item, forge and add a block, receive a block, synchronise |
| Broadcast | `p2p/network.go`, `p2p/handlers.go` | none | post items and blocks with retries, download chains |
| PBFT | `consensus/pbft.go`, `consensus/concensus.go`, `consensus/factory.go` | view, primary, votes by block hash, view-change counts | four message handlers, `InitiateViewChange` |
| DPoS | `consensus/dpos.go` | delegates, stakes, votes, active delegates, slot, round | votes, registrations, stakes, slashing, the schedule, `UpdateValidators` |
| Currency | `currency/currency.go`, `InitNativeToken` in `blockchain/blockchain.go` | accounts, total supply, gas price, a mutex | transfer, mint, burn, stake, unstake, rewards and fees |
| Contract virtual machine | `contracts/contracts.go`, `contracts/interfaces.go` | contracts, their code, state and balance, a mutex each | create, execute, read, update the code; templates and listeners; operations with gas |
| Contract manager, system contracts | `blockchain/blockchain.go`, `blockchain/levelDB.go` | contracts in memory and in LevelDB, the address of each system contract in LevelDB | `CreateContract`, `RegisterSystemContract`, `DeploySystemContracts` |
| Peers | `p2p/node.go`, `p2p/handlers.go`, `p2p/node_manager.go` | `KnownNodes`, a mutex | register, discover, ping |
| Start-up | `main.go`, `p2p/server.go` | none | builds and starts everything |
| Logging, shared types | `utils`, `common`, `pkg` | log file | none |

**How they interact.** Handlers run one goroutine per request, the mempool job and the
synchronisation run on tickers, and all of them call the chain store, which guards `blocks` with a
mutex. The job takes items from the mempool, forges a block outside the mutex, adds it under the
mutex, broadcasts it and removes the items from the mempool by ID. Nodes exchange items, blocks and
whole chains over HTTP. A chain holds a reference to its consensus object, but nothing in `AddBlock`
or the handlers asks it anything: PBFT and DPoS run beside the chain. `main.go` calls
`DPoS.UpdateValidators` every five minutes, and DPoS runs its own ticker. The currency is created
at start, moved by the system contracts and by the contract virtual machine, and offers its
methods to other packages. `main.go` deploys the system contracts through the contract manager of
`blockchain`, on its own goroutine and before the node synchronises or listens; a node that hangs
there is known to nobody. The virtual machine of `contracts` is imported by no other package; it is
modelled as it would be called, over the currency. Votes, registrations, unregistrations, slashing, staking and fees are
exported methods without callers in the repository; they are modelled as calls that anyone may make.

**What is hard.** State is read, released and used (`CreateBlock` ... `AddBlock`; the length
comparison before `ReplaceChain`; the primary before the lock in `handlePrePrepare`). `ReplaceChain`
writes LevelDB block by block, and a crash may fall between two writes. Blocks arrive late, twice or
never; items are removed by ID while newer ones come in. PBFT counts messages that can be repeated.
DPoS keeps four tables that refer to each other. The currency mixes locked and unlocked updates. A
sequence of contract operations moves funds at once and commits its state at its end, while others
run, and the map it begins with is copied key by key without a lock. An amount of the currency is a pointer, often to a
live balance, which a method reads again after it wrote to it. An error reading the stored height is taken for a height.
A deployment is nine writes to LevelDB, and the process may be killed between any two; the blocks that name what was deployed
travel to nodes which have none of it, and the goroutine that starts a node waits for its peers without a timeout. Who is
known is looked up in one step and added in another.

**What makes each component correct** is what section 4 checks; section 6 lists where the code and
its own documentation disagree.

## 2. Modules

| Module | Models | EXTENDS / INSTANCE |
|---|---|---|
| `BlockRules` | pure rules of blocks and chains | - |
| `ChainStore` | one node's chain in memory and LevelDB, its goroutines, crashes, peers | `BlockRules` |
| `TxNetwork` | mempools, handlers, forging and spreading blocks, of several nodes | `BlockRules` |
| `PBFT` | every validator's PBFT state and handlers | - |
| `DelegateRules` | whom an election may choose | - |
| `Election` | abstract: an election in one step | `DelegateRules` |
| `UpdateActiveDelegates` | the bubble sort that elects, compare by compare | `DelegateRules`, instance of `Election` |
| `DPoS` | delegates, votes, seats, the schedule | `DelegateRules` |
| `Currency` | accounts, supply, the mutex, fees without it, the token's initialisation | - |
| `SequenceStore` | abstract: sequences that copy a map key by key, and commit the copy as a whole or leave no trace | - |
| `ContractVM` | one contract, the executions of its methods, the accounts it pays from | instance of `SequenceStore` |
| `Startup` | `main` over several starts: deployment, LevelDB, chains of peers, listening | - |
| `Peers` | the nodes that each node knows, over those starts | `Startup` |
| `FoldLemmas` | lemmas: what a fold over a finite set computes | - |

Every component `X` has `MCX` with the model values for TLC and, where theorems are proved,
`XProofs`, which extends `X` and `TLAPS`. `DPoSProofs` holds the proofs about `UpdateActiveDelegates` too, `PeersProofs`
those about `Startup`, and three of them extend `FoldLemmas`. No module uses RECURSIVE operators. Two abstract
specifications, `Election` and `SequenceStore`, are implemented by detailed ones (`INSTANCE ... WITH`).

### BlockRules
A chain is a sequence; Go's index 0 is position 1. A SHA-256 hash is the tuple of the fields that
`CalculateHash` feeds it, so collisions are assumed away and everything else about hashing is exact:
`Validator`, `Type`, `TotalFees` and `Data` are not covered by the hash in the code, and are absent.
The zeros of a digest are a constant function `Zeros`, because the code never searches for a nonce:
`MineBlock` has no caller. `adjustDifficulty` keeps the integer division of `15/2` and has no lower
bound, as in the code; `PanicsOn` is the slice `hash[0:difficulty]` with a negative bound.

### ChainStore
One variable for each of `bc.blocks`, `bc.difficulty`, the `blockindex_` keys and the `height` key.
`saved` is the progress of `ReplaceChain` and stands for the mutex as well: while it is not
`Unlocked`, every action that needs the mutex is disabled (`MutexFree`). `AddBlock` is one action because
its batch write to LevelDB is atomic and the mutex is held until memory follows; a crash between the
two is a crash after the action, since memory goes with it. `ReplaceChain` is a step per saved
block. `Forge`/`AddForged`/`DropForged` split `processTxBatch` where the mutex is free.
`FetchChain` is `syncChainWithNode` up to its length comparison, which holds nothing. `Crash` may
happen in any state, `Start` loads what LevelDB holds. Peers run the same code; of them only the
chain is kept, and whether their difficulty admits a hash is left open.

The height can fail to be read in two places, and both go on: `SaveBlock` overwrites it with the index of its block
(levelDB.go:90), which lowers it when a replacement begins, and `NewBlockchain` logs the error and starts a new chain over index 0
(blockchain.go:525-530). `SaveBlock` and `NewChain` have both outcomes. Two variables are history: `torn`, that LevelDB mixes two
chains, because a replacement stopped half-way or a new genesis was put under an old chain; and `misreads`, which counts the failed
reads that changed what is stored and bounds them (`MaxMisreads`).

### TxNetwork
Several nodes with mempool and chain; blocks stay on the wire and may arrive late, twice or never
(which covers the retries of `optimizedBroadcastBlock`); posts of items can be lost and are sent on
each time they arrive, as the handlers do. An item has an ID, the mempool's key, and a payload, so
that two items can come under one ID: `Clients` says which items are posted to which node by its own clients. `Forge` and `AddBatch` split `processTxBatch` as above.
Crashes and the store belong to `ChainStore`; here `AddBlock` and `ReplaceChain` are single steps.
The two chains of a node run the same handlers; one is modelled.

### PBFT
One record of votes per node and block. `handlePrePrepare` is two actions because it reads `Primary`
and validates before it locks; the other handlers are one action each. The repository logs what
"would be broadcast" and has no transport and no proposer: `wire` and `Propose` are external. The
wire never forgets a message, so every message can be late, repeated or, by being ignored, lost. A
view-change message counts again whenever it arrives, up to `MaxRepeats`. No fairness is assumed: the repository has nothing that would
make a message arrive.

### DelegateRules, Election, UpdateActiveDelegates
`Elections(scores)` is the set of orders of the best `min(n, RoundLength)` delegates, ties in any
order (Go's map iteration fills the slice in any order). `UpdateActiveDelegates` executes the two
loops of the sort (its names begin with `Sort` because `DPoSProofs` extends it beside `DPoS`); `Election` is one atomic step. The refinement shows that `DPoS` may use
`Elections` as one choice.

### DPoS
Every method holds the mutex from its first read to its last write, so a method is an action.
Delegates come and go, voters move their votes, `updateSchedule` ticks after one or more slots,
`UpdateValidators` elects at any time. A Go panic (`Panic`) stops the node: in `updateSchedule` when
fewer delegates are active than there are slots, in `SlashValidator` always, because `NewDPoS` drops
the currency manager it is given. `forgotten` is history: the recorded votes that a new
registration of a delegate forgets. Scores are doubled so that half a reliability is an integer; stakes
are integers (the code's are `float64`).

### Currency
A locked method is two actions, one that locks and checks and one that writes and unlocks;
`DistributeFees`, which takes no lock, is `ReadBalance`, `Credit` and `Reduce`, and falls anywhere
between. Where one of its writes overlaps another update the outcome is a choice of what a lost
update leaves (`Written`). `TransferFunds` to an address without an account never finishes, because
`CreateAccount` locks the mutex again. `InitNativeToken` runs first, with its failing burn.

An amount is a `*Balance`. It is `Own(x)`, a value that the caller keeps for himself, or the live balance or stake of an account
(`BalanceOf`, `StakeOf`), which is what `GetBalance` and `GetStake` return; `Read` is what it points to at the moment. A method that
writes to two places reads its amount for each, the second time after the first write, as `big.Int.Sub` and `Add` do. `aliased` is
history: a method wrote to its own amount before it was done with it. `feesTaken` and `lost` are history too.

### SequenceStore, ContractVM
`executeOperations` copies `contract.State`, lets every operation work on the copy and writes the
copy back under `contract.mutex` at its end; IF and CALL run it again inside an operation. An
execution is therefore a stack of frames (operations left, copy, keys left to copy, gas, limit), and every point at
which Go may switch to another goroutine is a step: each key that is copied (`Enter`, without the mutex), each operation, each key that is
written back (`Publish`, under it), the check, the transfer and the debit of TRANSFER, the transfer and the credit of a
value. Arguments of operations are constants of the code, and arithmetic, COMPARE, REQUIRE, EMIT_EVENT
and NATIVE_CALL are one action that costs gas and may fail. Gas is a difference of unsigned numbers
(`% Word`). The currency appears as the balances of its accounts, its check of a transfer, and
`wedged`: a transfer to an address without an account never returns the mutex. While one execution copies the map and another writes
to it, the Go runtime may notice and end the program ("concurrent map iteration and map write"): `Stops`. `ExecuteContract`
executes no operation, as in the code, whose loop (contracts.go:380) collects only what is METHOD and
not METHOD; the operations run through `ExecuteReadOnlyCall`. `SequenceStore` has one record of work for
every sequence that may be in progress; the mapping takes the `d`-th frame of an execution to the
sequence `<<execution, d>>`, so a nested IF or CALL is a sequence of its own, which commits before the outer one ends. What
`SequenceStore` promises is what the code keeps: a copy is begun and completed key by key, perhaps while another sequence commits, so
that it may mix two commits; a commit is whole and excludes other commits.

### Startup
The goroutine of `main` as a program counter, and what a start leaves in LevelDB: contracts,
registrations, and the registrations that the blocks of its chain name (a set: the order of blocks is `ChainStore`'s). Every write is a step, may fail, and may be the last
before a kill. The currency is built anew at each start, so no contract has an account, and the transfer
to the rewards contract (blockchain.go:481) waits for ever (`hung`). A node of `OldNodes` starts from
a LevelDB that such a start left.

`SyncChains` begins (`BeginSync`), is sent chains by peers that listen (`GetChain`), and ends with the chain it had or with the best of
those it was sent; a write error or a kill may leave any part of both (`ReplaceChain`). A node that serves does the same after a
registration (`syncWithNode`). Between nodes this needs a genesis block with the same hash: its time stamp has seconds (block.go:83), so that nodes
whose first starts fall in one second have the same one, and `IsValidChain` (blockchain.go:663) accepts the other's chain. Any two nodes of the model may
be such nodes. The end of `SyncChains` is subject to no fairness, because `http.Get` has no timeout (network.go:124).

### Peers
`Peers` extends `Startup`: only a node that has come to listen answers. `KnownNodes` is a sequence per
node. `DiscoverNodes` goes through a copy, one question after the other, and looks each answer up in a
step (no mutex) before it adds it in another (mutex); a registration is two steps, the ping and the addition. The post of
`main` to its seeds sends the bare address, which the handler refuses as JSON; so a
registration comes from somebody else and may be for any address.

## 3. Runs and bounds

| Run | Instance | Checks |
|---|---|---|
| `ChainStore` | a node and a peer, chains up to 4 blocks, three ticks of 31 s, a harmful misread of the height | type, no holes, linked unless torn, durable, genesis kept unless misread, never shorter |
| `ChainStoreTorn` | the same, one tick, no misread | **violated**: a served chain is linked |
| `TxNetwork` | 2 nodes, of which one knows the other, 2 IDs, 2 payloads, blocks of 1 item, chains up to 3, 1 s | type, an accepted item is lost to nothing but another one with its ID, forks never merge |
| `PBFT` | 4 validators, 2 run, 2 valid blocks for one position and an invalid one, a view change, each repeated twice | type, prepared and committed by a quorum, proposed by a primary, agreement in the first view |
| `PBFTAgreement` | 4 validators, 3 run, 2 blocks at one position | **violated**: agreement |
| `UpdateActiveDelegates` | up to 4 delegates, 3 scores, 2 seats, fairness | loop invariant, implements `Election` |
| `DPoS` | 3 delegates (2 at first), 2 voters, 2 seats, stakes around the minimum, late ticks | type, votes accounted, votes for delegates, seats, stakes |
| `Currency` | 3 accounts, 2 producers, 4 calls after the initialisation, with own and with live amounts | type, no overdraft, tokens accounted |
| `ContractVM` | 2 executions, 2 codes with 3 methods, 2 keys, 4 calls, 4 frames, fairness | type, the balance is backed, gas never wraps, implements `SequenceStore`, every execution ends |
| `Startup` | a new node with 3 starts and an old one with 1, 2 chains sent, fairness | type, registrations are backed, governance is for good, a restart serves |
| `StartupRewards` | the new node | **violated**: all system contracts are deployed |
| `Peers` | 3 old nodes with a start each, 2 addresses nobody listens to, a registration, fairness | type, nobody is known twice, who is known has listened, a discovery ends |

Why the bounds are enough for the cases that matter:

* **ChainStore.** A chain of 4 blocks has a genesis block and three successors: a replacement then has
  four writes, so that it can stop before, between and after those that differ, over a longer or a
  shorter tail. Steps of 31 s lower the difficulty three times, from 2 to -1, which reaches
  the panic of a synchronisation; equal seconds raise it. One misread of the height is enough to lower it inside a replacement, and then to crash
  there, or to start a new chain over an old one.
* **TxNetwork.** Two nodes fork, refuse each other's blocks and adopt each other's chain; one item a
  block leaves one behind. The clients of both nodes use one ID, for different payloads, so that the item of a node and one that comes from the other
  meet under it while a block is forged, in time to be removed with it. One node was started first and knows nobody; the theorems hold for any
  nodes, whomever they know.
* **PBFT.** With half of the four validators, quorums are exactly met; two repetitions let a repeated
  message count where it must not. `PBFTAgreement` needs three: one that crosses to the next view
  first. Its state constraint narrows the search to runs in which the first block is committed first; it
  leaves only behaviours of the code.
* **DPoS.** Two seats for three delegates: one may be left out, one may leave and come back. The
  stakes 90, 100 and 110 lie below, at and above the minimum. A late tick of two slots steps over slot
  0. The delegates of `Initialize`, and the voters, are symmetric.
* **Currency.** Own amounts 0 (refused, or raised by a burn) and 50, every live balance and stake, fees whose shares are both positive,
  and four calls allow two producers to overlap with two other methods, or a stake to be built up and then passed to the method that
  releases it. The producers are symmetric.
* **ContractVM.** The two codes hold a payment between a store and a load that fails, a method that stores
  in a nested sequence, fails for whoever is not the creator, and calls the first; payments to itself and to somebody without an
  account before an error; and a method that calls itself until the gas is gone: 12 units at a base cost of 3 are four frames, whose
  limits are 12, 9, 6 and 3. Two keys are enough for a copy that mixes two commits. Four calls let both
  executions overlap with an update of the code and with gifts to the contract's account. `Word` is 16: what a limit below zero would become.
* **Startup.** Three starts: one cut short, one that repeats it, and one that skips what is missing; the old node reaches what comes after a hang at once. With two chains sent, each can take over the other's, or one that has been taken over.
* **Peers.** One node starts with a seed that the others learn of, one must register to be known, one of the addresses built in is
  empty: a discovery learns of somebody while a registration adds him. No chains are sent: nothing this run checks depends on them, and that
  deployments stay backed when they are is the theorem `PeersKeepDeployments`.

`CHECK_DEADLOCK FALSE` stands where a bound, a panic or a stuck mutex really stops the model (in
`Startup` and `Peers` the bound on starts: every node may be down for good); `TxNetwork` has no such stop and checks deadlock.

**Fairness.** `UpdateActiveDelegates` assumes that the goroutine that holds the mutex runs on, `ContractVM` that a goroutine that
executes does until the program is stopped. `Startup` assumes that the goroutine of `main` does, except where it waits for peers at the end of
`SyncChains`. `Peers` assumes only that the goroutine of `DiscoverNodes` does: each of its questions is answered, refused or given up
after the 5 s that its client allows. Nothing is assumed of clients, of other nodes, of the delivery of messages, of kills or of failing writes. No other
run uses fairness.

## 4. What is shown

* **Chain store.** Whatever crash, write error or failed read of the height happens, LevelDB has no hole
  below its height and can be loaded. Chains are linked, and a start that can read LevelDB finds what memory held, unless a replacement stopped
  half-way or a height could not be read at start. A chain that has grown keeps its genesis block unless a failed read hid or lowered its height; a
  running node's chain never gets shorter, although
  lengths are compared before the mutex is taken: `ReplaceChain`'s recheck is needed, as the mutant
  without it shows.
* **Network.** What a handler accepted stays pending or in the node's chain, until the node adopts a
  downloaded chain, or another accepted item with its ID does in its place: an item that comes under the ID of one whose block is being added is
  removed with it. Two chains that hold one block hold the same blocks before it.
* **PBFT.** A prepared block is valid and pre-prepared by a quorum, a committed one prepared by a
  quorum, however messages are repeated and reordered; pre-prepared blocks come from a primary of
  this or an earlier view. Until somebody changes the view at most one block is committed at a position, although votes carry neither view nor position.
  Agreement across a view change fails.
* **Election.** The sort implements a one-step election and ends.
* **DPoS.** The count of a delegate is the number of votes recorded for it, less those that a new
  registration forgot (so it can become negative); every recorded vote is for somebody registered, so
  that moving it finds its record; seats belong to different registered delegates; both tables of stakes
  agree.
* **Currency.** As long as no distribution of fees overlaps another update of the same balance or of
  the supply, no balance is negative, also when live balances and stakes are passed as amounts. Supply, balances, stakes and fees add up unless,
  besides, a method is passed the very balance or stake that it writes first and reads again.
* **Contract virtual machine.** However executions of a contract interleave, fail and run out of gas,
  `contract.Balance` claims nothing that its account does not have, although it is checked without
  the mutex and reduced after the transfer. A sequence that fails leaves no trace of its own in the contract's state (nested ones that ended before it do), and no
  two commits alternate; the copy that a sequence begins with may mix commits, and it commits it whole. The gas left for a call never wraps around, and every execution ends unless the
  currency is stuck or the runtime stops the program, a method that calls itself too.
* **Start-up.** At whatever step a start is killed and whichever write fails, a registration names
  only contracts that are in the node's LevelDB. So does a block of its own; a block that it took over names contracts that are in the LevelDB of the node which deployed
  them, and may not be in its own. Governance is never replaced once it is registered. A node that
  finds it registered comes to serve unless it waits for a peer for ever; one that does not may hang. That a node that serves has all its contracts fails.
* **Peers.** Although discovery looks addresses up without the mutex, nobody is known twice. Whoever is known was built in,
  is somebody's seed, or has listened. Discoveries end while the lists grow.

Every property of a passing run has a mutant in `PROJECT.json`: a definition of the model changed the
way a plausible bug would change the code, for which TLC reports the property violated.

## 5. What is proved

The proofs hold for every value of the constants that satisfies the named ASSUMEs of the modules: any
number of nodes, blocks, delegates, accounts, any stakes and amounts, and any bounds.

| Module | Theorems | Inductive invariant |
|---|---|---|
| `ChainStoreProofs` | `TypeCorrect`, `AlwaysLoadable`, `AlwaysLinked`, `AlwaysDurable`, `GenesisNeverChanges`, `ChainNeverShorter` | `TypeOK`, every chain's block `i` has index `i - 1`, no holes, every index of memory is in LevelDB, what a replacement has saved so far is a prefix of the candidate, and until its first write LevelDB agrees with memory unless torn |
| `TxNetworkProofs` | `TypeCorrect`, `NothingAcceptedIsLost`, `ForksNeverMerge` | types, one item under an ID, linked chains, any two chains agree below a common block; `AcceptedIsNotLost` is inductive beside it, with that what is forged was accepted |
| `PBFTProofs` | `TypeCorrect`, `PreparedHasQuorum`, `CommittedHasQuorum`, `OnlyPrimariesPropose`, `FirstViewAgrees` | types, every prepare or commit on the wire is backed by its sender's own state, counters count sets of such senders, what a node checks or pledged was proposed; for agreement also that a primary proposes one block for a position |
| `DPoSProofs` | `TypeCorrect`, `VotesStayAccounted`, `NoVoteOutlivesItsDelegate`, `SeatsStayWithDelegates`, `StakesKeepAgreeing` | the conjunction of the five checked invariants |
| `DPoSProofs`, of the sort | `LoopsKeepInvariant`, `SortElectsTheBest` | the loop invariant; at the end it gives a ranked order whose first seats nobody outside beats |
| `CurrencyProofs` | `TypeCorrect`, `NobodyIsOverdrawn`, `TokensStayAccounted` | types, what a call checked of the amount it points to is still true when it writes unless an update was lost, who is credited has an account; for the sum also that only finitely many accounts are open |
| `ContractVMProofs` | `TypeCorrect`, `GasNeverWrapsAround`, `BalanceStaysBacked`, `SequencesAreStored` | types; limits are multiples of `BaseCost` and shrink from frame to frame; only the top frame has keys left to commit, and only while its execution commits, which is while it holds the mutex; a transfer is still within its sequence; who has all keys to copy has copied none. `BalanceIsBacked` is inductive beside it, with what each execution has yet to record |
| `PeersProofs`, of `Startup` | `StartupTypeCorrect`, `RegistrationsStayBacked`, `GovernanceStaysForGood` | types; what is registered is stored, and what a block or a chain that was sent names is stored and registered by the node which deployed it; who is about to register has stored, who is about to write the block has registered, and who is about to register governance has found none |
| `PeersProofs`, of `Peers` | `PeersTypeCorrect`, `NobodyTwice`, `AllKnownHaveListened`, `PeersKeepDeployments` | the one of `Startup`; lists, copies and answers hold the built-in, the seeds and who has listened; lists hold nobody twice; who serves has listened, who pinged back has too, who is down knows nobody |
| `FoldLemmas` | lemmas: the function a fold chooses exists; a sum changes by what one of its terms changes | - |

The invariants as they are checked are not inductive by themselves, and the strengthenings say why the code works:
`ReplaceChain` is safe because the blocks it has written are the candidate's first ones, a quorum
is one of nodes because a vote is sent only by who has voted for himself before, a transfer that
has passed its check can still be written because methods that take from a balance exclude one
another and the unlocked one only adds to it (a credit to the balance that a method has for its amount counts as an overlap), and gas does not wrap around because the limit of a read-only
call, 1000000, is a multiple of the base cost that every CALL takes off: a limit is 0, which CALL tests for, before it
could fall below. The contract's balance stays backed although any number of executions may pass its check together, because each takes from the
account at once what it takes off the balance later, and the currency refuses the ones that the account cannot pay. A deployment that
is killed anywhere leaves nothing dangling, here or in the chains that others take over, because it stores before it registers and registers before it writes the block. Nobody is
known twice because `AddNode` looks again under its mutex, whatever the unlocked look before it saw. The proofs of the invariants follow one pattern: a lemma per action (or per part
of the invariant that the action can disturb), one for the initial states, and a temporal theorem that combines them
with PTL.

The two refinements follow one pattern as well: an abstract initial state from a concrete one, and a lemma per action that names the abstract
step it is or shows that it stutters. In `UpdateActiveDelegates` only the last step elects. In `ContractVM` a step of an execution touches one frame, the
mapped record of `work` changes for that sequence alone (a frame that has copied no key is not yet a sequence), and the mutex gives `SequenceStore` its one commit at a time;
`SequenceStore` states no fairness, so that `SequencesAreStored` is the whole of `ImplementsSequenceStore`. `PeersKeepDeployments` is
a third one, without a mapping: every step of `Peers` is a step of `Startup` or leaves its variables alone, so that what `Startup` keeps, with any
chains sent, is kept by nodes that learn of each other.

**Sums.** `TokensAreAccounted` and `BalanceIsBacked` are sums over accounts and executions, and a start folds the seeds into the list of
known nodes. The prover cannot do induction over sets; `FoldLemmas` uses instead that among the subsets of a finite set that break a
claim there is a smallest one (`SmallestSet`, from the well-foundedness of strict inclusion on finite sets): the claim holds of it without one
element, hence of itself. This shows that the recursive function of a fold exists, that a sum takes one term out, and that two functions
that differ at one point have sums that differ by as much. The finiteness is an assumption where it is one of the code's
(`ExecutorsAssumption`: finitely many goroutines) and part of the invariant for the accounts.
`KnownAssumption` says what is put into `KnownNodes` unchecked: the two built-in addresses differ, and seeds are addresses of some host.

**Only model-checked.** Liveness: that of `Election`, `EveryExecutionEnds`, `RestartServes` and `DiscoveryEnds` (fairness and ENABLED are beyond
the prover); `SortElectsTheBest` is the safety part of `ElectsTheBest`. Every invariant and every action property that a passing run checks is a theorem, for any bounds. That lets the
runs of small instances stand for larger ones; what they add is that the interesting cases happen, by their mutants. The violations are counterexamples of TLC.

## 6. Where code and documentation disagree

With a run that shows it:

* `ChainStoreTorn`: a crash or write error half-way through `ReplaceChain` (blockchain.go:801) leaves a mixture of
  two chains that is loaded and served; block.go:22 "Hash of the previous block in the chain".
* `PBFTAgreement`: two correct validators commit two blocks at one position (pbft.go:158, 235);
  pbft.go:29 "implements the Practical Byzantine Fault Tolerance consensus algorithm".
* `StartupRewards`: the first start waits for ever in the transfer to the rewards contract (blockchain.go:481, because `TransferFunds` locks
  its own mutex again to create the destination, currency.go:315); once it is killed, the next start finds governance registered and skips the rest
  (blockchain.go:320). blockchain.go:322 "System contracts already deployed, skipping deployment", main.go:102 "Base smart contracts deployed".

Seen while modelling, in the model as the code has it, without a run of their own:

* A chain that holds only its genesis block has height 0, so the next start overwrites it (blockchain.go:530); blockchain.go:524 "Check if
  blockchain already exists". A height that cannot be read is logged (525) and counts as 0 as well: a new genesis block goes over index 0 of an
  existing chain, whose other blocks and height stay.
* `SaveBlock` writes its own index as the height when it cannot read the stored one (levelDB.go:90), so that a replacement may lower the height
  and a crash then shortens the stored chain.
* An item submitted under an ID whose block is being added is removed with it, unprocessed (mempool.go:54); mempool.go:48 "after they've been processed".
  The run of `TxNetwork` reaches it.
* A transfer to an address without an account never returns (currency.go:315); currency.go:312 "Get or create destination account".
* The difficulty has no lower bound (blockchain.go:608) although interfaces.go:23 calls it the number of zeros; it restarts
  at 2 after a restart and survives a replacement, so it belongs to another history than the chain.
* Blocks are forged without mining and added without a look at their difficulty (handlers.go:301), while a downloaded chain must satisfy
  it (blockchain.go:706): a node's own chain may be refused by its peers.
* The receiver of a block does not remove its items from its mempool (handlers.go:547), so they are processed again; adopting a
  chain (blockchain.go:809) drops the items of the blocks it replaces, against README.md:41.
* An accepted transaction is posted again at every receipt (handlers.go:424): two nodes pass it back and forth.
* PBFT: the quorum of four is two (pbft.go:156-158); a repeated view change is counted again (pbft.go:222-231); who initiates
  a view change increments its view and keeps its primary (pbft.go:249).
* DPoS: registering again zeroes the votes of a delegate whose voters stay recorded (dpos.go:562), so its count can become negative; with fewer
  active delegates than `RoundLength` the schedule's index panics (dpos.go:281), at 21 seats and 24 delegates after four have left; a late tick that steps
  over slot 0 neither counts the round nor elects (dpos.go:273, "If we've completed a round, update active delegates");
  `NewDPoS` ignores its currency manager (dpos.go:61), so `SlashValidator` panics at dpos.go:125.
* Currency: `BurnTokens` raises a small amount to a hundredth of the balance, in the caller's own `Balance`, where the comment says "Cap"
  (currency.go:405-406); `InitNativeToken` burns the whole supply from an account that has 95% of it, fails, and mints 100M on top
  (blockchain.go:162), so the supply is 101M where blockchain.go:69 says "100M initial supply".
* Currency: an amount is a pointer and `GetBalance` and `GetStake` return the live one: `UnstakeTokens(a, GetStake(a))` empties the stake (currency.go:583) and
  credits the zero that is left (584); `BurnTokens(a, GetBalance(a))` empties the balance and leaves the supply (416-419). The run of `Currency` reaches both.
* Contracts: a sequence commits the whole copy it took when it began (contracts.go:463-469), over what a nested IF or CALL, or another execution,
  committed since; what was transferred, or committed by a nested sequence, stays when the outer one fails (contracts.go:435 "will be
  committed if execution succeeds" holds per sequence only). `ExecuteReadOnlyCall` "without changing state" (contracts.go:1325) commits and transfers; its copy of the state
  (1379) is never used. `ExecuteContract` collects no operations (380), keeps the value when the method is not found (391), and charges a fee of 0, which is
  refused (422). `CreateContract` with a value never returns (294).
* Contracts: the copy of the state is taken without `contract.mutex` (contracts.go:437-439), so it may mix two commits or make the runtime end the program. "Create a
  local state that will be committed if execution succeeds" (435) is then committed as it is.
* Start-up: `SyncChains` uses `http.Get`, which has no timeout (network.go:124), and `main` waits for it before it listens (main.go:118): a peer that takes the
  connection and never answers keeps a node from ever serving.
* Start-up: a chain that is taken over (network.go:142-145) names contracts that only the node which deployed them has.
* Peers: `main` posts the bare ID to its seeds where the handler decodes JSON (main.go:50, handlers.go:35), before it listens itself, and never again: "Registrar
  este nodo en el semilla" (main.go:46) never happens.
* `DeploySystemContracts` takes any error of the read for "not deployed" (blockchain.go:320); this read succeeds in the model.

## 7. What is not modelled

* Contracts: events and their listeners, templates, times, code hashes, the copy of `DeploySystemContracts` in `contracts` (no caller). Nobody is assumed to call in the name of the contract.
* Peers: heartbeats and pings (they change nothing), `RegisterWithNode`, `CheckNodeStatus` (no callers).
* The gas price, nonces, timestamps of accounts; rewards and statistics of delegates, which nothing reads; `validators`/`selectBlockProducer`/`AddValidator` (no
  callers); `RemoveItem`, `Clear`, `MineBlock` (no callers).
* HTTP, JSON, logging, hashing as bytes, floating point.
* Data races whose outcome Go leaves undefined (a slice read while it grows, maps other than a contract's state) beyond the lost updates of `DistributeFees`, copies of a contract's state and stale reads.
* Errors of reads of LevelDB other than that of the height: a block that cannot be read makes the start fail, which is a start that does not happen.

## 8. Plan

Done, in this order: `BlockRules`, `ChainStore`, `TxNetwork`, `PBFT`, the DPoS election and its refinement, `DPoS`, `Currency`,
`ContractVM` with `SequenceStore`, `Startup`, `Peers`, each with its runs and, where stated, its proofs.

Left:

1. `Ledger`: an abstract chain store in which a replacement is atomic, implemented by `ChainStore` for behaviours without a failure half-way; and
   the abstract register of votes that `DPoS` implements.
2. `TxNetwork` over the changing `KnownNodes` of `Peers`, where it now takes a constant.
3. A run of `Peers` in which chains are sent, once its state space allows it.
