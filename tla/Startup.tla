------------------------------ MODULE Startup ------------------------------
(***************************************************************************)
(* How main.go starts a node: it opens the chains, deploys the system      *)
(* contracts, synchronises and listens.  LevelDB outlives the process; the *)
(* currency does not, so every start finds two accounts, neither of which  *)
(* is a contract's.                                                        *)
(*                                                                         *)
(* The process may be killed at any step, and any write to LevelDB may     *)
(* fail; reads are taken to succeed here.  ChainStore.tla has the blocks   *)
(* themselves: here a chain is the set of registrations that its blocks    *)
(* name, and a node whose genesis has the same hash, that is, the same     *)
(* second of its clock, may take over a longer one that names contracts of *)
(* other nodes.  The contracts in memory are those in LevelDB all along.   *)
(***************************************************************************)
EXTENDS Naturals, Sequences, FiniteSets, SequencesExt

CONSTANTS
    Nodes,
    OldNodes,   \* whose LevelDB is left from an earlier start that was killed
    MaxStarts,  \* bound: starts of each node
    MaxSyncs    \* bound: chains that peers send

SystemContracts == <<"governance", "validators", "rewards">>
Names == Range(SystemContracts)

ASSUME NodesAssumption == OldNodes \subseteq Nodes
ASSUME BoundsAssumption == MaxStarts \in [Nodes -> Nat] /\ MaxSyncs \in Nat

VARIABLES
    pc,         \* where the goroutine of main is
    starts,     \* history: how often the node was started
    next,       \* position of the system contract that is deployed
    stored,     \* LevelDB: addresses of the contracts under contract_
    registered, \* LevelDB: address by name under syscontract_
    logged,     \* LevelDB: addresses that the blocks of the chain name
    answers,    \* chains that peers have sent, to be looked at
    syncs       \* history: how many chains were sent

startupVars == <<pc, starts, next, stored, registered, logged, answers, syncs>>
levelDB == <<stored, registered, logged>>
syncing == <<answers, syncs>>

\* generateContractAddress: a time stamp makes it new.
AddressOf(name, n, start) == [name |-> name, node |-> n, start |-> start]
Addresses == [name : Names, node : Nodes, start : Nat]
Name(n) == SystemContracts[next[n]]
Address(n) == AddressOf(Name(n), n, starts[n])

\* A bug to look for: the name is copied with the rest of the deployment.
RegisteredAsTheFirst(registry, name, address) ==
    [k \in DOMAIN registry \cup {"governance"} |-> IF k = "governance" THEN address ELSE registry[k]]

\* LevelDB's RegisterSystemContract.
Registered(registry, name, address) ==
    [k \in DOMAIN registry \cup {name} |-> IF k = name THEN address ELSE registry[k]]

\* A start that hung at the rewards, with all that it had written.
Earlier(n) ==
    [stored     |-> {AddressOf(c, n, 0) : c \in Names},
     registered |-> [c \in {"governance", "validators"} |-> AddressOf(c, n, 0)],
     logged     |-> {AddressOf(c, n, 0) : c \in {"governance", "validators"}}]

StartupInit ==
    /\ pc = [n \in Nodes |-> "down"]
    /\ starts = [n \in Nodes |-> 0]
    /\ next = [n \in Nodes |-> 1]
    /\ stored = [n \in Nodes |-> IF n \in OldNodes THEN Earlier(n).stored ELSE {}]
    /\ registered = [n \in Nodes |-> IF n \in OldNodes THEN Earlier(n).registered ELSE <<>>]
    /\ logged = [n \in Nodes |-> IF n \in OldNodes THEN Earlier(n).logged ELSE {}]
    /\ answers = [n \in Nodes |-> {}]
    /\ syncs = 0

-----------------------------------------------------------------------------

Goes(n, to) == pc' = [pc EXCEPT ![n] = to]
At(n, where) == pc[n] = where
Up(n) == pc[n] # "down"

\* InitializeBlockchain, once for each chain, and the consensus.
Start(n) ==
    /\ At(n, "down")
    /\ starts[n] < MaxStarts[n]
    /\ starts' = [starts EXCEPT ![n] = @ + 1]
    /\ Goes(n, "deploying")
    /\ UNCHANGED <<next, levelDB, syncing>>

\* A bug to look for: the contract that comes last is asked for.
LastDeployed(n) == "rewards" \in DOMAIN registered[n]

AlreadyDeployed(n) == "governance" \in DOMAIN registered[n]

DeploySystemContracts(n) ==
    /\ At(n, "deploying")
    /\ IF AlreadyDeployed(n)
       THEN Goes(n, "deployed") /\ UNCHANGED next
       ELSE Goes(n, "creating") /\ next' = [next EXCEPT ![n] = 1]
    /\ UNCHANGED <<starts, levelDB, syncing>>

\* A bug to look for: the contract is kept in memory only.
SavedNowhere(n) == UNCHANGED stored

SaveContract(n) == stored' = [stored EXCEPT ![n] = @ \cup {Address(n)}]

\* CreateContract.  The balance is 0: nothing is transferred yet.
CreateContract(n) ==
    /\ At(n, "creating")
    /\ SaveContract(n)
    /\ Goes(n, IF Name(n) = "rewards" THEN "funding" ELSE "registering")
    /\ UNCHANGED <<starts, next, registered, logged, syncing>>

\* The rewards contract cannot be saved: the deployment ends.
CreateFails(n) ==
    /\ At(n, "creating")
    /\ Name(n) = "rewards"
    /\ Goes(n, "deployed")
    /\ UNCHANGED <<starts, next, levelDB, syncing>>

\* The transfer to a contract without an account waits for the currency's
\* mutex, which it holds: main never goes on to register the rewards.
Fund(n) ==
    /\ At(n, "funding")
    /\ Goes(n, "hung")
    /\ UNCHANGED <<starts, next, levelDB, syncing>>

RegisterSystemContract(n) ==
    /\ At(n, "registering")
    /\ registered' = [registered EXCEPT ![n] = Registered(@, Name(n), Address(n))]
    /\ Goes(n, "logging")
    /\ UNCHANGED <<starts, next, stored, logged, syncing>>

NextContract(n) ==
    IF next[n] < Len(SystemContracts)
    THEN Goes(n, "creating") /\ next' = [next EXCEPT ![n] = @ + 1]
    ELSE Goes(n, "deployed") /\ UNCHANGED next

\* LevelDB refuses the registration: there is no block either.
RegisterFails(n) ==
    /\ At(n, "registering")
    /\ NextContract(n)
    /\ UNCHANGED <<starts, levelDB, syncing>>

AddBlock(n) ==
    /\ At(n, "logging")
    /\ logged' = [logged EXCEPT ![n] = @ \cup {Address(n)}]
    /\ NextContract(n)
    /\ UNCHANGED <<starts, stored, registered, syncing>>

\* The error of AddBlock is dropped.
AddBlockFails(n) ==
    /\ At(n, "logging")
    /\ NextContract(n)
    /\ UNCHANGED <<starts, levelDB, syncing>>

Serving(n) == At(n, "serving")

\* The mempool job is started.
BeginSync(n) ==
    /\ At(n, "deployed")
    /\ Goes(n, "syncing")
    /\ UNCHANGED <<starts, next, levelDB, syncing>>

\* A node that listens sends its chain.
GetChain(n, m) ==
    /\ At(n, "syncing") \/ Serving(n)
    /\ m # n
    /\ Serving(m)
    /\ syncs < MaxSyncs
    /\ syncs' = syncs + 1
    /\ answers' = [answers EXCEPT ![n] = @ \cup {logged[m]}]
    /\ UNCHANGED <<pc, starts, next, levelDB>>

\* What the blocks name once a chain was written over them: of a replacement
\* that a failed write or a kill cuts short, some of either chain.
ReplaceChain(n, chain) ==
    \E written \in SUBSET chain, kept \in SUBSET logged[n] :
        logged' = [logged EXCEPT ![n] = written \cup kept]

\* SyncChains, which keeps the chain or takes over the best it was sent.
SyncChains(n) ==
    /\ At(n, "syncing")
    /\ Goes(n, "synced")
    /\ UNCHANGED logged \/ \E chain \in answers[n] : ReplaceChain(n, chain)
    /\ answers' = [answers EXCEPT ![n] = {}]
    /\ UNCHANGED <<starts, next, stored, registered, syncs>>

\* syncWithNode, after a node has registered.
syncWithNode(n) ==
    /\ Serving(n)
    /\ \E chain \in answers[n] :
          /\ ReplaceChain(n, chain)
          /\ answers' = [answers EXCEPT ![n] = @ \ {chain}]
    /\ UNCHANGED <<pc, starts, next, stored, registered, syncs>>

ListenAndServe(n) ==
    /\ At(n, "synced")
    /\ Goes(n, "serving")
    /\ UNCHANGED <<starts, next, levelDB, syncing>>

\* A signal, a kill, log.Fatal, or a panic: that of a governance or validators
\* contract that could not be saved, whose address is read all the same.
Exit(n) ==
    /\ Up(n)
    /\ Goes(n, "down")
    /\ answers' = [answers EXCEPT ![n] = {}]
    /\ UNCHANGED <<starts, next, levelDB, syncs>>

\* The steps of the goroutine of main that wait for nobody.
Main(n) ==
    \/ DeploySystemContracts(n)
    \/ CreateContract(n) \/ CreateFails(n) \/ Fund(n)
    \/ RegisterSystemContract(n) \/ RegisterFails(n) \/ AddBlock(n) \/ AddBlockFails(n)
    \/ BeginSync(n) \/ ListenAndServe(n)

StartupNext ==
    \E n \in Nodes :
        \/ Start(n) \/ Main(n) \/ Exit(n)
        \/ SyncChains(n) \/ syncWithNode(n)
        \/ \E m \in Nodes : GetChain(n, m)

\* The goroutine of main runs on.  The end of SyncChains is no part of this:
\* http.Get has no timeout, and a peer may never answer.
StartupSpec ==
    StartupInit /\ [][StartupNext]_startupVars /\ \A n \in Nodes : WF_startupVars(Main(n))

-----------------------------------------------------------------------------
(* Properties.                                                             *)

StartupTypeOK ==
    /\ pc \in [Nodes -> {"down", "deploying", "creating", "funding", "hung", "registering",
                         "logging", "deployed", "syncing", "synced", "serving"}]
    /\ starts \in [Nodes -> Nat]
    /\ next \in [Nodes -> 1..Len(SystemContracts)]
    /\ stored \in [Nodes -> SUBSET Addresses]
    /\ DOMAIN registered = Nodes
    /\ \A n \in Nodes :
          /\ DOMAIN registered[n] \subseteq Names
          /\ registered[n] \in [DOMAIN registered[n] -> Addresses]
          /\ \A c \in DOMAIN registered[n] : registered[n][c].name = c
    /\ logged \in [Nodes -> SUBSET Addresses]
    /\ answers \in [Nodes -> SUBSET SUBSET Addresses]
    /\ syncs \in Nat

\* A deployment is three writes to LevelDB for each contract (blockchain.go:254,
\* 285, 294), any of which may fail or be the last before a kill, and its blocks
\* travel: another node takes over the chain, or a part of it.  Whatever a node
\* has registered is in its LevelDB, and whatever the blocks of any node name is
\* in that of the node which deployed it, where the name is registered.
RegistrationsAreBacked ==
    \A n \in Nodes :
        /\ \A c \in DOMAIN registered[n] : registered[n][c] \in stored[n]
        /\ \A a \in logged[n] :
              a \in stored[a.node] /\ a.name \in DOMAIN registered[a.node]

\* blockchain.go:320 asks for the first contract only, and a deployment that was
\* cut short is repeated: governance, once registered, is never replaced.
GovernanceIsForGood ==
    [][\A n \in Nodes : "governance" \in DOMAIN registered[n] =>
          /\ "governance" \in DOMAIN registered'[n]
          /\ registered'[n]["governance"] = registered[n]["governance"]]_startupVars

\* A deployment hangs on the goroutine of main before the node listens.  A node
\* that finds governance registered serves in the end, unless it is stopped or a
\* peer never sends the chain that SyncChains waits for (network.go:124).
RestartServes ==
    \A n \in Nodes :
        At(n, "deploying") /\ "governance" \in DOMAIN registered[n]
            ~> Serving(n) \/ At(n, "down") \/ []At(n, "syncing")

\* blockchain.go:322 logs "System contracts already deployed, skipping
\* deployment", and main.go:102 "Base smart contracts deployed".
SystemContractsDeployed ==
    \A n \in Nodes : pc[n] \in {"deployed", "syncing", "synced", "serving"} => DOMAIN registered[n] = Names
=============================================================================
