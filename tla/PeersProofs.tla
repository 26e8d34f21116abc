----------------------------- MODULE PeersProofs -----------------------------
(***************************************************************************)
(* For any nodes, seeds and number of starts: what a deployment leaves in  *)
(* LevelDB, wherever it is cut short, and whom the nodes learn of.         *)
(***************************************************************************)
EXTENDS Peers, FoldLemmas

\* What is written when a node's deployment is about to write more.
Deploying(n) ==
    /\ pc[n] \in {"registering", "logging"} => Address(n) \in stored[n]
    /\ pc[n] = "logging" => Name(n) \in DOMAIN registered[n]
    /\ pc[n] \in {"creating", "registering"} /\ next[n] = 1
          => "governance" \notin DOMAIN registered[n]

\* What a block names, its node has stored and registered.
InLevelDB(a) == a \in stored[a.node] /\ a.name \in DOMAIN registered[a.node]

Backed(n) ==
    /\ \A c \in DOMAIN registered[n] : registered[n][c] \in stored[n]
    /\ \A a \in logged[n] : InLevelDB(a)
    /\ \A chain \in answers[n] : \A a \in chain : InLevelDB(a)

StartupInv == StartupTypeOK /\ \A n \in Nodes : Backed(n) /\ Deploying(n)

-----------------------------------------------------------------------------
(* The names and the addresses                                             *)

LEMMA ThreeContracts ==
    /\ DOMAIN SystemContracts = {1, 2, 3} /\ Len(SystemContracts) = 3
    /\ SystemContracts[1] = "governance"
    /\ SystemContracts[2] = "validators"
    /\ SystemContracts[3] = "rewards"
    /\ Names = {"governance", "validators", "rewards"}
<1>1. /\ DOMAIN SystemContracts = {1, 2, 3} /\ Len(SystemContracts) = 3
      /\ SystemContracts[1] = "governance"
      /\ SystemContracts[2] = "validators"
      /\ SystemContracts[3] = "rewards"
  BY DEF SystemContracts
<1>2. Names = {SystemContracts[i] : i \in {1, 2, 3}}  BY <1>1 DEF Names, Range
<1> QED  BY <1>1, <1>2

LEMMA AddressType ==
    ASSUME StartupTypeOK, NEW n \in Nodes
    PROVE  /\ next[n] \in {1, 2, 3}
           /\ Name(n) \in Names /\ Address(n) \in Addresses
           /\ Address(n).name = Name(n) /\ Address(n).node = n
           /\ Name(n) = "governance" <=> next[n] = 1
<1>1. next[n] \in {1, 2, 3}  BY ThreeContracts DEF StartupTypeOK
<1>2. Name(n) \in Names  BY <1>1, ThreeContracts DEF Name
<1>3. Address(n) \in Addresses /\ Address(n).name = Name(n) /\ Address(n).node = n
  BY <1>2 DEF Address, AddressOf, Addresses, StartupTypeOK
<1>4. Name(n) = "governance" <=> next[n] = 1  BY <1>1, ThreeContracts DEF Name
<1> QED  BY <1>1, <1>2, <1>3, <1>4

IsRegistry(registry) == registry \in [DOMAIN registry -> Addresses]

OneMore(after, registry, name, address) ==
    /\ DOMAIN after = DOMAIN registry \cup {name}
    /\ IsRegistry(after)
    /\ after[name] = address
    /\ \A c \in DOMAIN registry : c # name => after[c] = registry[c]

\* One more registration.
LEMMA OneRegistered ==
    ASSUME NEW registry, NEW name \in Names, NEW address \in Addresses,
           IsRegistry(registry),
           NEW after, after = Registered(registry, name, address)
    PROVE  OneMore(after, registry, name, address)
<1>1. DOMAIN after = DOMAIN registry \cup {name}  BY DEF Registered
<1>2. \A c \in DOMAIN after : after[c] = IF c = name THEN address ELSE registry[c]
  BY DEF Registered
<1>3. after \in [DOMAIN registry \cup {name} -> Addresses]
  BY DEF Registered, IsRegistry
<1> QED  BY <1>1, <1>2, <1>3 DEF IsRegistry, OneMore

-----------------------------------------------------------------------------
(* The deployment                                                          *)

Places == {"down", "deploying", "creating", "funding", "hung", "registering",
           "logging", "deployed", "syncing", "synced", "serving"}

\* Contracts and registrations are never taken back.
LEMMA LevelDBKeeps ==
    ASSUME \A m \in Nodes : stored[m] \subseteq stored'[m],
           \A m \in Nodes : DOMAIN registered[m] \subseteq DOMAIN registered'[m],
           NEW a \in Addresses, InLevelDB(a)
    PROVE  InLevelDB(a)'
<1>1. a.node \in Nodes  BY DEF Addresses
<1> QED  BY <1>1 DEF InLevelDB

\* A step in one node, which may have looked at chains that it was sent.
LEMMA OneNode ==
    ASSUME StartupInv, NEW n \in Nodes, StartupTypeOK', Backed(n)', Deploying(n)',
           \A m \in Nodes : m # n => pc'[m] = pc[m] /\ starts'[m] = starts[m] /\ next'[m] = next[m],
           \A m \in Nodes : m # n => /\ stored'[m] = stored[m] /\ registered'[m] = registered[m]
                                     /\ logged'[m] = logged[m],
           \A m \in Nodes : m # n => answers'[m] \subseteq answers[m],
           stored[n] \subseteq stored'[n],
           DOMAIN registered[n] \subseteq DOMAIN registered'[n]
    PROVE  StartupInv'
<1>1. ASSUME NEW m \in Nodes, m # n PROVE Backed(m)'
  <2>1. /\ \A k \in Nodes : stored[k] \subseteq stored'[k]
        /\ \A k \in Nodes : DOMAIN registered[k] \subseteq DOMAIN registered'[k]
    OBVIOUS
  <2>2. \A a \in Addresses : InLevelDB(a) => InLevelDB(a)'  BY <2>1, LevelDBKeeps
  <2>3. \A a \in logged'[m] : InLevelDB(a)'
    <3>1. logged[m] \subseteq Addresses /\ logged'[m] = logged[m]
      BY <1>1 DEF StartupInv, StartupTypeOK
    <3> QED  BY <2>2, <3>1 DEF StartupInv, Backed
  <2>4. \A chain \in answers'[m] : \A a \in chain : InLevelDB(a)'
    <3>1. answers[m] \subseteq SUBSET Addresses /\ answers'[m] \subseteq answers[m]
      BY <1>1 DEF StartupInv, StartupTypeOK
    <3> QED  BY <2>2, <3>1 DEF StartupInv, Backed
  <2>5. \A c \in DOMAIN registered'[m] : registered'[m][c] \in stored'[m]
    <3>1. registered'[m] = registered[m] /\ stored'[m] = stored[m]  BY <1>1
    <3> QED  BY <3>1 DEF StartupInv, Backed
  <2> QED  BY <2>3, <2>4, <2>5 DEF Backed
<1>2. ASSUME NEW m \in Nodes, m # n PROVE Deploying(m)'
  BY <1>2 DEF StartupInv, Deploying, Address, Name
<1> QED  BY <1>1, <1>2 DEF StartupInv

\* A step that deploys nothing, but may have the chain replaced.
LEMMA NothingDeployed ==
    ASSUME StartupInv, NEW n \in Nodes, NEW to \in Places, Goes(n, to),
           starts' \in [Nodes -> Nat], next' \in [Nodes -> 1..Len(SystemContracts)],
           \A m \in Nodes : m # n => starts'[m] = starts[m] /\ next'[m] = next[m],
           UNCHANGED <<stored, registered>>,
           NEW blocks \in SUBSET Addresses, logged' = [logged EXCEPT ![n] = blocks],
           \A a \in blocks : InLevelDB(a),
           answers' \in [Nodes -> SUBSET SUBSET Addresses], syncs' \in Nat,
           \A m \in Nodes : answers'[m] \subseteq answers[m],
           to \notin {"registering", "logging"},
           to = "creating" /\ next'[n] = 1 => "governance" \notin DOMAIN registered[n]
    PROVE  StartupInv'
<1>1. /\ pc' \in [Nodes -> Places] /\ pc'[n] = to
      /\ \A m \in Nodes : m # n => pc'[m] = pc[m]
  BY DEF StartupInv, StartupTypeOK, Goes, Places
<1>2. /\ logged' \in [Nodes -> SUBSET Addresses] /\ logged'[n] = blocks
      /\ \A m \in Nodes : m # n => logged'[m] = logged[m]
  BY DEF StartupInv, StartupTypeOK
<1>3. stored' = stored /\ registered' = registered  OBVIOUS
<1>4. StartupTypeOK'  BY <1>1, <1>2, <1>3 DEF StartupInv, StartupTypeOK, Places
<1>5. Backed(n)'
  <2>1. \A a : InLevelDB(a) => InLevelDB(a)'  BY <1>3 DEF InLevelDB
  <2>2. \A a \in logged'[n] : InLevelDB(a)'  BY <1>2, <2>1
  <2>3. \A chain \in answers'[n] : \A a \in chain : InLevelDB(a)'
    BY <2>1 DEF StartupInv, Backed
  <2> QED  BY <1>3, <2>2, <2>3 DEF StartupInv, Backed
<1>6. Deploying(n)'  BY <1>1, <1>3 DEF Deploying
<1>7. stored[n] \subseteq stored'[n] /\ DOMAIN registered[n] \subseteq DOMAIN registered'[n]
  BY <1>3
<1> QED  BY <1>1, <1>2, <1>3, <1>4, <1>5, <1>6, <1>7, OneNode

\* A step that writes nothing.
LEMMA NothingWritten ==
    ASSUME StartupInv, NEW n \in Nodes, NEW to \in Places, Goes(n, to),
           starts' \in [Nodes -> Nat], next' \in [Nodes -> 1..Len(SystemContracts)],
           \A m \in Nodes : m # n => starts'[m] = starts[m] /\ next'[m] = next[m],
           UNCHANGED levelDB, UNCHANGED syncing,
           to \notin {"registering", "logging"},
           to = "creating" /\ next'[n] = 1 => "governance" \notin DOMAIN registered[n]
    PROVE  StartupInv'
<1>1. UNCHANGED <<stored, registered>> /\ logged' = logged  BY DEF levelDB
<1>2. /\ logged[n] \in SUBSET Addresses /\ logged' = [logged EXCEPT ![n] = logged[n]]
      /\ \A a \in logged[n] : InLevelDB(a)
  BY <1>1 DEF StartupInv, StartupTypeOK, Backed
<1>3. /\ answers' \in [Nodes -> SUBSET SUBSET Addresses] /\ syncs' \in Nat
      /\ \A m \in Nodes : answers'[m] \subseteq answers[m]
  BY DEF syncing, StartupInv, StartupTypeOK
<1> QED  BY <1>1, <1>2, <1>3, NothingDeployed

LEMMA StartKeeps == ASSUME StartupInv, NEW n \in Nodes, Start(n) PROVE StartupInv'
<1>1. /\ starts' \in [Nodes -> Nat] /\ next' \in [Nodes -> 1..Len(SystemContracts)]
      /\ \A m \in Nodes : m # n => starts'[m] = starts[m] /\ next'[m] = next[m]
  BY DEF Start, StartupInv, StartupTypeOK
<1>2. Goes(n, "deploying") /\ UNCHANGED levelDB /\ UNCHANGED syncing  BY DEF Start
<1> QED  BY <1>1, <1>2, NothingWritten DEF Places

LEMMA DeployKeeps ==
    ASSUME StartupInv, NEW n \in Nodes, DeploySystemContracts(n) PROVE StartupInv'
<1>1. starts' \in [Nodes -> Nat] /\ UNCHANGED starts /\ UNCHANGED levelDB /\ UNCHANGED syncing
  BY DEF DeploySystemContracts, StartupInv, StartupTypeOK
<1>2. CASE AlreadyDeployed(n)
  <2>1. Goes(n, "deployed") /\ UNCHANGED next  BY <1>2 DEF DeploySystemContracts
  <2>2. next' \in [Nodes -> 1..Len(SystemContracts)]  BY <2>1 DEF StartupInv, StartupTypeOK
  <2> QED  BY <1>1, <2>1, <2>2, NothingWritten DEF Places
<1>3. CASE ~AlreadyDeployed(n)
  <2>1. Goes(n, "creating") /\ next' = [next EXCEPT ![n] = 1]
    BY <1>3 DEF DeploySystemContracts
  <2>2. /\ next' \in [Nodes -> 1..Len(SystemContracts)]
        /\ \A m \in Nodes : m # n => next'[m] = next[m]
    BY <2>1, ThreeContracts DEF StartupInv, StartupTypeOK
  <2>3. "governance" \notin DOMAIN registered[n]  BY <1>3 DEF AlreadyDeployed
  <2> QED  BY <1>1, <2>1, <2>2, <2>3, NothingWritten DEF Places
<1> QED  BY <1>2, <1>3

\* The deployment goes on with the contract that comes next.
LEMMA NextContractMoves ==
    ASSUME StartupInv, NEW n \in Nodes, NextContract(n)
    PROVE  \E to \in {"creating", "deployed"} :
              /\ Goes(n, to)
              /\ next' \in [Nodes -> 1..Len(SystemContracts)]
              /\ \A m \in Nodes : m # n => next'[m] = next[m]
              /\ to = "creating" => next'[n] # 1
<1>1. next \in [Nodes -> {1, 2, 3}] /\ 1..Len(SystemContracts) = {1, 2, 3}
  BY ThreeContracts DEF StartupInv, StartupTypeOK
<1>2. CASE next[n] < Len(SystemContracts)
  <2>1. Goes(n, "creating") /\ next' = [next EXCEPT ![n] = next[n] + 1]
    BY <1>2 DEF NextContract
  <2>2. next[n] \in {1, 2}  BY <1>1, <1>2, ThreeContracts
  <2>3. next[n] + 1 \in {2, 3}  BY <2>2
  <2> QED  BY <1>1, <2>1, <2>3
<1>3. CASE ~(next[n] < Len(SystemContracts))
  BY <1>1, <1>3 DEF NextContract
<1> QED  BY <1>2, <1>3

LEMMA SkippingKeeps ==
    ASSUME StartupInv, NEW n \in Nodes, NextContract(n), UNCHANGED <<starts, levelDB, syncing>>
    PROVE  StartupInv'
<1>1. PICK to \in {"creating", "deployed"} :
              /\ Goes(n, to)
              /\ next' \in [Nodes -> 1..Len(SystemContracts)]
              /\ \A m \in Nodes : m # n => next'[m] = next[m]
              /\ to = "creating" => next'[n] # 1
  BY NextContractMoves
<1>2. starts' \in [Nodes -> Nat] /\ starts' = starts /\ UNCHANGED levelDB /\ UNCHANGED syncing
  BY DEF StartupInv, StartupTypeOK
<1>3. to \in Places /\ to \notin {"registering", "logging"}
      /\ (to = "creating" /\ next'[n] = 1 => "governance" \notin DOMAIN registered[n])
  BY <1>1 DEF Places
<1> QED  BY <1>1, <1>2, <1>3, NothingWritten

LEMMA GoingKeeps ==
    ASSUME StartupInv, NEW n \in Nodes,
           CreateFails(n) \/ Fund(n) \/ BeginSync(n) \/ ListenAndServe(n)
    PROVE  StartupInv'
<1>1. PICK to \in {"deployed", "hung", "syncing", "serving"} : Goes(n, to)
  BY DEF CreateFails, Fund, BeginSync, ListenAndServe
<1>2. UNCHANGED <<starts, next, levelDB>> /\ UNCHANGED syncing
  BY DEF CreateFails, Fund, BeginSync, ListenAndServe
<1>3. starts' \in [Nodes -> Nat] /\ next' \in [Nodes -> 1..Len(SystemContracts)]
  BY <1>2 DEF StartupInv, StartupTypeOK
<1>4. to \in Places /\ to \notin {"creating", "registering", "logging"}  BY <1>1 DEF Places
<1> QED  BY <1>1, <1>2, <1>3, <1>4, NothingWritten

\* Fewer chains are left to be looked at.
LEMMA FewerAnswers ==
    ASSUME StartupInv, NEW n \in Nodes, NEW fewer \in SUBSET answers[n],
           answers' = [answers EXCEPT ![n] = fewer]
    PROVE  /\ answers' \in [Nodes -> SUBSET SUBSET Addresses]
           /\ \A m \in Nodes : answers'[m] \subseteq answers[m]
<1>1. answers \in [Nodes -> SUBSET SUBSET Addresses]  BY DEF StartupInv, StartupTypeOK
<1>2. fewer \in SUBSET SUBSET Addresses  BY <1>1
<1> QED  BY <1>1, <1>2

LEMMA ExitKeeps == ASSUME StartupInv, NEW n \in Nodes, Exit(n) PROVE StartupInv'
<1>1. /\ UNCHANGED <<starts, next, levelDB, syncs>> /\ Goes(n, "down")
      /\ answers' = [answers EXCEPT ![n] = {}]
  BY DEF Exit
<1>2. /\ starts' \in [Nodes -> Nat] /\ next' \in [Nodes -> 1..Len(SystemContracts)]
      /\ starts' = starts /\ next' = next /\ syncs' \in Nat
  BY <1>1 DEF StartupInv, StartupTypeOK
<1>3. UNCHANGED <<stored, registered>> /\ logged' = logged  BY <1>1 DEF levelDB
<1>4. /\ logged[n] \in SUBSET Addresses /\ logged' = [logged EXCEPT ![n] = logged[n]]
      /\ \A a \in logged[n] : InLevelDB(a)
  BY <1>3 DEF StartupInv, StartupTypeOK, Backed
<1>5. /\ answers' \in [Nodes -> SUBSET SUBSET Addresses]
      /\ \A m \in Nodes : answers'[m] \subseteq answers[m]
  BY <1>1, FewerAnswers
<1> QED  BY <1>1, <1>2, <1>3, <1>4, <1>5, NothingDeployed DEF Places

\* A chain that a peer sent names contracts of nodes that stored them.
LEMMA Replacement ==
    ASSUME StartupInv, NEW n \in Nodes, NEW chain \in answers[n], ReplaceChain(n, chain)
    PROVE  \E blocks \in SUBSET Addresses :
              /\ logged' = [logged EXCEPT ![n] = blocks]
              /\ \A a \in blocks : InLevelDB(a)
<1>1. PICK written \in SUBSET chain, kept \in SUBSET logged[n] :
         logged' = [logged EXCEPT ![n] = written \cup kept]
  BY DEF ReplaceChain
<1>2. chain \in SUBSET Addresses /\ logged[n] \in SUBSET Addresses
  BY DEF StartupInv, StartupTypeOK
<1>3. \A a \in written \cup kept : InLevelDB(a)  BY DEF StartupInv, Backed
<1> QED  BY <1>1, <1>2, <1>3

LEMMA SyncKeeps ==
    ASSUME StartupInv, NEW n \in Nodes, SyncChains(n) \/ syncWithNode(n) PROVE StartupInv'
<1>1. PICK to \in {"synced", "serving"} : Goes(n, to)
  <2>1. CASE SyncChains(n)  BY <2>1 DEF SyncChains
  <2>2. CASE syncWithNode(n)
    <3>1. pc' = pc /\ pc[n] = "serving"  BY <2>2 DEF syncWithNode, Serving, At
    <3>2. Goes(n, "serving")  BY <3>1 DEF Goes, StartupInv, StartupTypeOK
    <3> QED  BY <3>2
  <2> QED  BY <2>1, <2>2
<1>2. /\ UNCHANGED <<starts, next, stored, registered, syncs>>
  BY DEF SyncChains, syncWithNode
<1>3. /\ starts' \in [Nodes -> Nat] /\ next' \in [Nodes -> 1..Len(SystemContracts)]
      /\ starts' = starts /\ next' = next /\ syncs' \in Nat
  BY <1>2 DEF StartupInv, StartupTypeOK
<1>4. PICK blocks \in SUBSET Addresses :
         /\ logged' = [logged EXCEPT ![n] = blocks]
         /\ \A a \in blocks : InLevelDB(a)
  <2>1. CASE logged' = logged
    <3>1. /\ logged[n] \in SUBSET Addresses /\ logged' = [logged EXCEPT ![n] = logged[n]]
          /\ \A a \in logged[n] : InLevelDB(a)
      BY <2>1 DEF StartupInv, StartupTypeOK, Backed
    <3> QED  BY <3>1
  <2>2. CASE \E chain \in answers[n] : ReplaceChain(n, chain)  BY <2>2, Replacement
  <2> QED  BY <2>1, <2>2 DEF SyncChains, syncWithNode
<1>5. /\ answers' \in [Nodes -> SUBSET SUBSET Addresses]
      /\ \A m \in Nodes : answers'[m] \subseteq answers[m]
  <2>1. PICK fewer \in SUBSET answers[n] : answers' = [answers EXCEPT ![n] = fewer]
    BY DEF SyncChains, syncWithNode
  <2> QED  BY <2>1, FewerAnswers
<1>6. to \in Places /\ to \notin {"creating", "registering", "logging"}  BY <1>1 DEF Places
<1> QED  BY <1>1, <1>2, <1>3, <1>4, <1>5, <1>6, NothingDeployed

LEMMA GetChainKeeps ==
    ASSUME StartupInv, NEW n \in Nodes, NEW m \in Nodes, GetChain(n, m) PROVE StartupInv'
<1>1. /\ syncs' = syncs + 1 /\ UNCHANGED <<pc, starts, next, levelDB>>
      /\ answers' = [answers EXCEPT ![n] = answers[n] \cup {logged[m]}]
  BY DEF GetChain
<1>2. stored' = stored /\ registered' = registered /\ logged' = logged
  BY <1>1 DEF levelDB
<1>3. logged[m] \in SUBSET Addresses /\ answers \in [Nodes -> SUBSET SUBSET Addresses]
  BY DEF StartupInv, StartupTypeOK
<1>4. /\ answers' \in [Nodes -> SUBSET SUBSET Addresses] /\ syncs' \in Nat
  BY <1>1, <1>3 DEF StartupInv, StartupTypeOK
<1>5. StartupTypeOK'  BY <1>1, <1>2, <1>4 DEF StartupInv, StartupTypeOK
<1>6. ASSUME NEW k \in Nodes PROVE Backed(k)'
  <2>1. \A a : InLevelDB(a) => InLevelDB(a)'  BY <1>2 DEF InLevelDB
  <2>2. \A chain \in answers'[k] : chain \in answers[k] \/ chain = logged[m]
    BY <1>1, <1>3
  <2>3. \A chain \in answers'[k] : \A a \in chain : InLevelDB(a)'
    BY <2>1, <2>2 DEF StartupInv, Backed
  <2> QED  BY <1>2, <2>1, <2>3 DEF StartupInv, Backed
<1>7. ASSUME NEW k \in Nodes PROVE Deploying(k)'
  BY <1>1, <1>2 DEF StartupInv, Deploying, Address, Name
<1> QED  BY <1>5, <1>6, <1>7 DEF StartupInv

\* The chain of a node and those that it was sent.
Logged(n, set) ==
    /\ \A a \in logged[n] : a \in set
    /\ \A chain \in answers[n] : \A a \in chain : a \in set

LEMMA LoggedAreAddresses ==
    ASSUME StartupInv, NEW n \in Nodes PROVE Logged(n, Addresses)
  BY DEF StartupInv, StartupTypeOK, Logged

LEMMA CreateKeeps == ASSUME StartupInv, NEW n \in Nodes, CreateContract(n) PROVE StartupInv'
<1>1. /\ stored' = [stored EXCEPT ![n] = @ \cup {Address(n)}]
      /\ UNCHANGED <<starts, next, registered, logged>> /\ answers' = answers /\ syncs' = syncs
      /\ At(n, "creating")
  BY DEF CreateContract, SaveContract, syncing
<1>2. PICK to \in {"funding", "registering"} : Goes(n, to)
  BY DEF CreateContract
<1>3. /\ pc' \in [Nodes -> Places] /\ pc'[n] = to
      /\ \A m \in Nodes : m # n => pc'[m] = pc[m]
  BY <1>2 DEF Goes, Places, StartupInv, StartupTypeOK
<1>4. Address(n) \in Addresses  BY AddressType DEF StartupInv
<1>5. /\ stored' \in [Nodes -> SUBSET Addresses]
      /\ stored'[n] = stored[n] \cup {Address(n)}
      /\ \A m \in Nodes : m # n => stored'[m] = stored[m]
  BY <1>1, <1>4 DEF StartupInv, StartupTypeOK
<1>6. StartupTypeOK'  BY <1>1, <1>3, <1>5 DEF StartupInv, StartupTypeOK, Places
<1>7. Backed(n)'
  <2>1. \A a \in Addresses : InLevelDB(a) => InLevelDB(a)'  BY <1>1, <1>5, LevelDBKeeps
  <2>2. Logged(n, Addresses)  BY LoggedAreAddresses
  <2> QED  BY <1>1, <1>5, <2>1, <2>2 DEF StartupInv, Backed, Logged
<1>8. Deploying(n)'
  <2>1. Address(n)' = Address(n)  BY <1>1 DEF Address, Name
  <2> QED  BY <1>1, <1>3, <1>5, <2>1 DEF StartupInv, Deploying, At
<1>9. stored[n] \subseteq stored'[n] /\ DOMAIN registered[n] \subseteq DOMAIN registered'[n]
  BY <1>1, <1>5
<1> QED  BY <1>1, <1>3, <1>5, <1>6, <1>7, <1>8, <1>9, OneNode

LEMMA RegisterKeeps ==
    ASSUME StartupInv, NEW n \in Nodes, RegisterSystemContract(n) PROVE StartupInv'
<1> DEFINE after == Registered(registered[n], Name(n), Address(n))
<1>1. /\ registered' = [registered EXCEPT ![n] = after]
      /\ UNCHANGED <<starts, next, stored, logged>> /\ answers' = answers /\ syncs' = syncs
      /\ At(n, "registering") /\ Goes(n, "logging")
  BY DEF RegisterSystemContract, syncing
<1>2. /\ pc' \in [Nodes -> Places] /\ pc'[n] = "logging"
      /\ \A m \in Nodes : m # n => pc'[m] = pc[m]
  BY <1>1 DEF Goes, Places, StartupInv, StartupTypeOK
<1>3. Name(n) \in Names /\ Address(n) \in Addresses /\ Address(n).name = Name(n)
  BY AddressType DEF StartupInv
<1>4. /\ DOMAIN after = DOMAIN registered[n] \cup {Name(n)}
      /\ IsRegistry(after)
      /\ after[Name(n)] = Address(n)
      /\ \A c \in DOMAIN registered[n] : c # Name(n) => after[c] = registered[n][c]
  <2>1. IsRegistry(registered[n])
    BY DEF IsRegistry, StartupInv, StartupTypeOK
  <2>2. after = Registered(registered[n], Name(n), Address(n))  OBVIOUS
  <2> HIDE DEF after
  <2>3. OneMore(after, registered[n], Name(n), Address(n))
    BY ONLY <1>3, <2>1, <2>2, OneRegistered
  <2> QED  BY <2>3 DEF OneMore
<1> HIDE DEF after
<1>5. /\ DOMAIN registered' = Nodes /\ registered'[n] = after
      /\ \A m \in Nodes : m # n => registered'[m] = registered[m]
  BY <1>1 DEF StartupInv, StartupTypeOK
<1>6. \A c \in DOMAIN after : after[c].name = c
  BY <1>3, <1>4 DEF StartupInv, StartupTypeOK
<1>7. StartupTypeOK'
  <2>1. ASSUME NEW m \in Nodes
        PROVE  /\ DOMAIN registered'[m] \subseteq Names
               /\ registered'[m] \in [DOMAIN registered'[m] -> Addresses]
               /\ \A c \in DOMAIN registered'[m] : registered'[m][c].name = c
    <3>1. CASE m = n  BY <1>3, <1>4, <1>5, <1>6, <3>1 DEF StartupInv, StartupTypeOK, IsRegistry
    <3>2. CASE m # n  BY <1>5, <3>2 DEF StartupInv, StartupTypeOK
    <3> QED  BY <3>1, <3>2
  <2> QED  BY <1>1, <1>2, <1>5, <2>1 DEF StartupInv, StartupTypeOK, Places
<1>8. Address(n) \in stored[n]  BY <1>1 DEF StartupInv, Deploying, At
<1>9. \A m \in Nodes : /\ stored[m] \subseteq stored'[m]
                        /\ DOMAIN registered[m] \subseteq DOMAIN registered'[m]
  BY <1>1, <1>4, <1>5
<1>10. Backed(n)'
  <2>1. \A c \in DOMAIN after : after[c] \in stored[n]
    BY <1>4, <1>8 DEF StartupInv, Backed
  <2>2. \A a \in Addresses : InLevelDB(a) => InLevelDB(a)'  BY <1>1, <1>9, LevelDBKeeps
  <2>3. Logged(n, Addresses)  BY LoggedAreAddresses
  <2> QED  BY <1>1, <1>5, <2>1, <2>2, <2>3 DEF StartupInv, Backed, Logged
<1>11. Deploying(n)'
  <2>1. Address(n)' = Address(n) /\ Name(n)' = Name(n)  BY <1>1 DEF Address, Name
  <2> QED  BY <1>1, <1>2, <1>4, <1>5, <1>8, <2>1 DEF Deploying
<1> QED  BY <1>1, <1>2, <1>5, <1>7, <1>9, <1>10, <1>11, OneNode

LEMMA AddBlockKeeps == ASSUME StartupInv, NEW n \in Nodes, AddBlock(n) PROVE StartupInv'
<1>1. /\ logged' = [logged EXCEPT ![n] = logged[n] \cup {Address(n)}]
      /\ UNCHANGED <<starts, stored, registered>> /\ answers' = answers /\ syncs' = syncs
      /\ At(n, "logging") /\ NextContract(n)
  BY DEF AddBlock, syncing
<1>2. PICK to \in {"creating", "deployed"} :
              /\ Goes(n, to)
              /\ next' \in [Nodes -> 1..Len(SystemContracts)]
              /\ \A m \in Nodes : m # n => next'[m] = next[m]
              /\ to = "creating" => next'[n] # 1
  BY <1>1, NextContractMoves
<1>3. /\ pc' \in [Nodes -> Places] /\ pc'[n] = to
      /\ \A m \in Nodes : m # n => pc'[m] = pc[m]
  BY <1>2 DEF Goes, Places, StartupInv, StartupTypeOK
<1>4. /\ Address(n) \in Addresses /\ Address(n).name = Name(n) /\ Address(n).node = n
      /\ Address(n) \in stored[n] /\ Name(n) \in DOMAIN registered[n]
  BY <1>1, AddressType DEF StartupInv, Deploying, At
<1>5. /\ logged' \in [Nodes -> SUBSET Addresses] /\ logged'[n] = logged[n] \cup {Address(n)}
      /\ \A m \in Nodes : m # n => logged'[m] = logged[m]
  BY <1>1, <1>4 DEF StartupInv, StartupTypeOK
<1>6. StartupTypeOK'  BY <1>1, <1>2, <1>3, <1>5 DEF StartupInv, StartupTypeOK, Places
<1>7. Backed(n)'
  <2>1. InLevelDB(Address(n))  BY <1>4 DEF InLevelDB
  <2>2. \A a : InLevelDB(a) => InLevelDB(a)'  BY <1>1 DEF InLevelDB
  <2>3. \A a \in logged'[n] : InLevelDB(a)'  BY <1>5, <2>1, <2>2 DEF StartupInv, Backed
  <2> QED  BY <1>1, <2>2, <2>3 DEF StartupInv, Backed
<1>8. Deploying(n)'  BY <1>2, <1>3 DEF Deploying
<1> QED  BY <1>1, <1>2, <1>3, <1>5, <1>6, <1>7, <1>8, OneNode

LEMMA MainKeeps == ASSUME StartupInv, NEW n \in Nodes, Main(n) PROVE StartupInv'
<1>1. CASE RegisterFails(n) \/ AddBlockFails(n)
  BY <1>1, SkippingKeeps DEF RegisterFails, AddBlockFails
<1> QED  BY <1>1, DeployKeeps, CreateKeeps, GoingKeeps, RegisterKeeps, AddBlockKeeps DEF Main

LEMMA StartupInitEstablishes == ASSUME StartupInit PROVE StartupInv
<1>1. /\ pc \in [Nodes -> Places] /\ starts \in [Nodes -> Nat]
      /\ next \in [Nodes -> 1..Len(SystemContracts)]
  BY ThreeContracts DEF StartupInit, Places
<1>2. \A c \in Names, n \in Nodes :
         AddressOf(c, n, 0) \in Addresses /\ AddressOf(c, n, 0).name = c /\ AddressOf(c, n, 0).node = n
  BY DEF AddressOf, Addresses
<1>3. ASSUME NEW n \in Nodes
      PROVE  /\ stored[n] \subseteq Addresses
             /\ DOMAIN registered[n] \subseteq Names
             /\ registered[n] \in [DOMAIN registered[n] -> Addresses]
             /\ \A c \in DOMAIN registered[n] : registered[n][c].name = c
             /\ logged[n] \subseteq Addresses
             /\ Backed(n)
  <2>1. CASE n \in OldNodes
    <3>1. /\ stored[n] = {AddressOf(c, n, 0) : c \in Names}
          /\ registered[n] = [c \in {"governance", "validators"} |-> AddressOf(c, n, 0)]
          /\ logged[n] = {AddressOf(c, n, 0) : c \in {"governance", "validators"}}
          /\ answers[n] = {}
      BY <2>1 DEF StartupInit, Earlier
    <3>2. {"governance", "validators"} \subseteq Names  BY ThreeContracts
    <3>3. /\ registered[n] \in [DOMAIN registered[n] -> Addresses]
          /\ DOMAIN registered[n] = {"governance", "validators"}
          /\ \A c \in DOMAIN registered[n] : registered[n][c] = AddressOf(c, n, 0)
      BY <1>2, <3>1, <3>2
    <3>4. stored[n] \subseteq Addresses /\ logged[n] \subseteq Addresses
      BY <1>2, <3>1, <3>2
    <3>5. \A a \in logged[n] : InLevelDB(a)
      <4> SUFFICES ASSUME NEW c \in {"governance", "validators"}
                   PROVE  InLevelDB(AddressOf(c, n, 0))
        BY <3>1
      <4>1. AddressOf(c, n, 0).node = n /\ AddressOf(c, n, 0).name = c  BY <1>2, <3>2
      <4>2. AddressOf(c, n, 0) \in stored[n]  BY <3>1, <3>2
      <4> QED  BY <3>3, <4>1, <4>2 DEF InLevelDB
    <3>6. Backed(n)  BY <3>1, <3>2, <3>3, <3>5 DEF Backed
    <3> QED  BY <1>2, <3>2, <3>3, <3>4, <3>6
  <2>2. CASE n \notin OldNodes
    <3>1. stored[n] = {} /\ registered[n] = <<>> /\ logged[n] = {} /\ answers[n] = {}
      BY <2>2 DEF StartupInit
    <3> QED  BY <3>1 DEF Backed
  <2> QED  BY <2>1, <2>2
<1>5. StartupTypeOK
  <2>1. /\ stored \in [Nodes -> SUBSET Addresses] /\ logged \in [Nodes -> SUBSET Addresses]
        /\ DOMAIN registered = Nodes
    <3>1. /\ stored = [n \in Nodes |-> stored[n]] /\ logged = [n \in Nodes |-> logged[n]]
          /\ DOMAIN registered = Nodes
      BY DEF StartupInit
    <3> QED  BY <1>3, <3>1
  <2>2. answers \in [Nodes -> SUBSET SUBSET Addresses] /\ syncs \in Nat  BY DEF StartupInit
  <2> QED  BY <1>1, <1>3, <2>1, <2>2 DEF StartupTypeOK, Places
<1>6. \A n \in Nodes : Deploying(n)  BY DEF StartupInit, Deploying
<1> QED  BY <1>3, <1>5, <1>6 DEF StartupInv

LEMMA StartupKeeps == ASSUME StartupInv, [StartupNext]_startupVars PROVE StartupInv'
<1>1. CASE UNCHANGED startupVars
  <2>1. StartupTypeOK'  BY <1>1 DEF startupVars, StartupInv, StartupTypeOK
  <2>2. \A n \in Nodes : Backed(n)'  BY <1>1 DEF startupVars, StartupInv, Backed, InLevelDB
  <2>3. \A n \in Nodes : Deploying(n)'
    BY <1>1 DEF startupVars, StartupInv, Deploying, Address, Name
  <2> QED  BY <2>1, <2>2, <2>3 DEF StartupInv
<1>2. CASE StartupNext
  BY <1>2, StartKeeps, MainKeeps, ExitKeeps, SyncKeeps, GetChainKeeps DEF StartupNext
<1> QED  BY <1>1, <1>2

LEMMA StartupInvariance == StartupSpec => []StartupInv
<1>1. StartupInit => StartupInv  BY StartupInitEstablishes
<1>2. StartupInv /\ [StartupNext]_startupVars => StartupInv'  BY StartupKeeps
<1> QED  BY <1>1, <1>2, PTL DEF StartupSpec

\* However often nodes are started and stopped, the places of the goroutine of
\* main and what is in LevelDB keep their types (blockchain.go 241-360).
THEOREM StartupTypeCorrect == StartupSpec => []StartupTypeOK
<1>1. StartupInv => StartupTypeOK  BY DEF StartupInv
<1> QED  BY <1>1, StartupInvariance, PTL

\* blockchain.go:254-294 and 786-812: wherever a deployment fails or is killed,
\* however often it is repeated, and whichever chains are taken over or half
\* taken over, what is registered is in LevelDB, and what the blocks name is in
\* that of the node which deployed it.
THEOREM RegistrationsStayBacked == StartupSpec => []RegistrationsAreBacked
<1>1. StartupInv => RegistrationsAreBacked
  BY DEF StartupInv, Backed, InLevelDB, RegistrationsAreBacked
<1> QED  BY <1>1, StartupInvariance, PTL

LEMMA GovernanceStays ==
    ASSUME StartupInv, [StartupNext]_startupVars, NEW n \in Nodes,
           "governance" \in DOMAIN registered[n]
    PROVE  /\ "governance" \in DOMAIN registered'[n]
           /\ registered'[n]["governance"] = registered[n]["governance"]
<1>1. CASE registered' = registered  BY <1>1
<1>2. ASSUME NEW m \in Nodes, RegisterSystemContract(m)
      PROVE  /\ "governance" \in DOMAIN registered'[n]
             /\ registered'[n]["governance"] = registered[n]["governance"]
  <2> DEFINE after == Registered(registered[m], Name(m), Address(m))
  <2>1. registered' = [registered EXCEPT ![m] = after] /\ At(m, "registering")
    BY <1>2 DEF RegisterSystemContract
  <2>2. CASE m = n
    <3>1. next[n] # 1  BY <2>1, <2>2 DEF StartupInv, Deploying, At
    <3>2. Name(n) # "governance" /\ Name(n) \in Names /\ Address(n) \in Addresses
      BY <3>1, AddressType DEF StartupInv
    <3>3. /\ DOMAIN after = DOMAIN registered[n] \cup {Name(n)}
          /\ \A c \in DOMAIN registered[n] : c # Name(n) => after[c] = registered[n][c]
      <4>1. IsRegistry(registered[n])
        BY DEF IsRegistry, StartupInv, StartupTypeOK
      <4>2. after = Registered(registered[n], Name(n), Address(n))  BY <2>2
      <4> HIDE DEF after
      <4>3. OneMore(after, registered[n], Name(n), Address(n))
        BY ONLY <3>2, <4>1, <4>2, OneRegistered
      <4> QED  BY <4>3 DEF OneMore
    <3> HIDE DEF after
    <3>4. registered'[n] = after  BY <2>1, <2>2 DEF StartupInv, StartupTypeOK
    <3> QED  BY <3>2, <3>3, <3>4
  <2>3. CASE m # n
    <3>1. registered'[n] = registered[n]  BY <2>1, <2>3 DEF StartupInv, StartupTypeOK
    <3> QED  BY <3>1
  <2> QED  BY <2>2, <2>3
<1> QED
  BY <1>1, <1>2 DEF StartupNext, Start, Main, DeploySystemContracts, CreateContract, CreateFails,
     Fund, RegisterFails, AddBlock, AddBlockFails, BeginSync, ListenAndServe, Exit, SyncChains,
     syncWithNode, GetChain, levelDB, startupVars

\* blockchain.go:320: a deployment that is repeated never replaces a governance
\* contract that was registered before.
THEOREM GovernanceStaysForGood == StartupSpec => GovernanceIsForGood
<1>1. StartupInv /\ [StartupNext]_startupVars =>
        [\A n \in Nodes : "governance" \in DOMAIN registered[n] =>
            /\ "governance" \in DOMAIN registered'[n]
            /\ registered'[n]["governance"] = registered[n]["governance"]]_startupVars
  BY GovernanceStays
<1> QED  BY <1>1, StartupInvariance, PTL DEF StartupSpec, GovernanceIsForGood

-----------------------------------------------------------------------------
(* What AddNode and NewNode build                                          *)

\* Who may be known: the built-in, the seeds, and who has listened.
Seeded == UNION {Range(Seeds[k]) : k \in Nodes}
Sources == Range(BuiltIn) \cup Seeded \cup listened

\* Lists in which nobody is twice.
Lists(V) == {list \in Seq(V) : IsInjective(list)}

LEMMA AddedType ==
    ASSUME NEW V, NEW list \in Lists(V), NEW m \in V PROVE Added(list, m) \in Lists(V)
<1>1. CASE m \in Range(list)  BY <1>1 DEF Added
<1>2. CASE m \notin Range(list)
  <2> DEFINE new == Append(list, m)
  <2>1. list \in Seq(V) /\ IsInjective(list)  BY DEF Lists
  <2>2. /\ new \in Seq(V) /\ DOMAIN new = 1..(Len(list) + 1)
        /\ \A i \in 1..Len(list) : new[i] = list[i]
        /\ new[Len(list) + 1] = m
        /\ DOMAIN list = 1..Len(list) /\ Len(list) \in Nat
    BY <2>1
  <2> HIDE DEF new
  <2>3. \A i \in 1..Len(list) : list[i] # m  BY <1>2, <2>2 DEF Range
  <2>4. ASSUME NEW i \in DOMAIN new, NEW j \in DOMAIN new, new[i] = new[j] PROVE i = j
    <3>1. CASE i \in 1..Len(list) /\ j \in 1..Len(list)
      BY <2>1, <2>2, <2>4, <3>1 DEF IsInjective
    <3>2. CASE i = Len(list) + 1 \/ j = Len(list) + 1
      BY <2>2, <2>3, <2>4, <3>2
    <3> QED  BY <2>2, <3>1, <3>2
  <2>5. IsInjective(new)  BY <2>4 DEF IsInjective
  <2> QED  BY <1>2, <2>2, <2>5 DEF Added, Lists, new
<1> QED  BY <1>1, <1>2

LEMMA MaxOfNumbers ==
    ASSUME NEW t, IsFiniteSet(t), t \subseteq Int, t # {} PROVE Max(t) \in t
<1> DEFINE Rests == {{i \in t : i >= x} : x \in t}
<1>1. PICK m \in Rests : \A u \in Rests : u \subseteq m => u = m
  <2>1. Rests \in SUBSET SUBSET t /\ Rests # {}  OBVIOUS
  <2> HIDE DEF Rests
  <2> QED  BY ONLY IsFiniteSet(t), <2>1, SmallestSet
<1>2. PICK x \in t : m = {i \in t : i >= x}  BY <1>1
<1>3. \A y \in t : x >= y
  <2> SUFFICES ASSUME NEW y \in t, ~(x >= y) PROVE FALSE
    OBVIOUS
  <2>1. x \in Int /\ y \in Int /\ y > x  OBVIOUS
  <2> DEFINE u == {i \in t : i >= y}
  <2>2. u \in Rests /\ u \subseteq m
    <3>1. \A i \in t : i >= y => i >= x  BY <2>1
    <3> QED  BY <1>2, <3>1
  <2>3. x \in m /\ x \notin u  BY <1>2, <2>1
  <2> HIDE DEF u, Rests
  <2> QED  BY <1>1, <2>2, <2>3
<1> QED  BY <1>3 DEF Max

LEMMA MaxOfPositions ==
    ASSUME NEW N \in Nat, NEW t \in SUBSET (1..N), t # {} PROVE Max(t) \in t
<1>1. IsFiniteSet(t)
  <2>1. IsFiniteSet(1..N)  BY FS_Interval
  <2> QED  BY <2>1, FS_Subset
<1>2. t \subseteq Int  OBVIOUS
<1> QED  BY <1>1, <1>2, MaxOfNumbers

\* The seeds of a node, added to what is built in.
LEMMA FoldedType ==
    ASSUME NEW V, NEW base \in Lists(V), NEW seeds \in Seq(V)
    PROVE  FoldLeft(Added, base, seeds) \in Lists(V)
<1> DEFINE S == DOMAIN seeds
           L == Lists(V)
           pick == [t \in SUBSET S |-> Max(t)]
           step == [i \in S |-> [list \in L |-> Added(list, seeds[i])]]
           Folds(g) == g = [t \in SUBSET S |->
                              IF t = {} THEN base
                              ELSE LET x == Max(t) IN Added(g[t \ {x}], seeds[x])]
<1>1. IsFiniteSet(S) /\ S = 1..Len(seeds) /\ Len(seeds) \in Nat
  <2>1. S = 1..Len(seeds) /\ Len(seeds) \in Nat  OBVIOUS
  <2>2. IsFiniteSet(1..Len(seeds))  BY <2>1, FS_Interval
  <2> QED  BY <2>1, <2>2
<1>2. \A t \in SUBSET S : t # {} => pick[t] = Max(t) /\ Max(t) \in t
  BY <1>1, MaxOfPositions
<1>3. \A i \in S : seeds[i] \in V  OBVIOUS
<1>4. \A i \in S, list \in L : step[i][list] \in L  BY <1>3, AddedType
<1>5. PICK g : IsFold(g, SUBSET S, L, pick, base, step)
  <2>1. base \in L  OBVIOUS
  <2>2. \A t \in SUBSET S : t # {} => pick[t] \in t  BY <1>2
  <2> HIDE DEF S, L, pick, step
  <2> QED  BY ONLY <1>1, <1>4, <2>1, <2>2, FoldExists
<1>6. Folds(g)
  <2>1. g = [t \in SUBSET S |-> g[t]]  BY <1>5 DEF IsFold
  <2>2. ASSUME NEW t \in SUBSET S, t # {} PROVE g[t] = Added(g[t \ {Max(t)}], seeds[Max(t)])
    <3>1. g[t] = step[Max(t)][g[t \ {Max(t)}]]  BY <1>2, <1>5, <2>2 DEF IsFold
    <3>2. Max(t) \in S /\ g[t \ {Max(t)}] \in L  BY <1>2, <1>5, <2>2 DEF IsFold
    <3> HIDE DEF S, L
    <3> QED  BY <3>1, <3>2
  <2>3. g[{}] = base  BY <1>5 DEF IsFold
  <2> HIDE DEF S
  <2> QED  BY <2>1, <2>2, <2>3, Zenon
<1> DEFINE chosen == CHOOSE h : Folds(h)
<1>7. Folds(chosen)
  <2> HIDE DEF Folds
  <2> QED  BY <1>6
<1>8. FoldLeft(Added, base, seeds) = chosen[S]
  BY DEF FoldLeft, MapThenFoldSet
<1>9. \A t \in SUBSET S : chosen[t] = IF t = {} THEN base
                                      ELSE Added(chosen[t \ {Max(t)}], seeds[Max(t)])
  BY <1>7, Zenon
<1> HIDE DEF chosen, Folds, pick, step
<1> DEFINE Bad == {t \in SUBSET S : chosen[t] \notin L}
<1>10. Bad = {}
  <2> SUFFICES ASSUME Bad # {} PROVE FALSE
    OBVIOUS
  <2>1. PICK m \in Bad : \A u \in Bad : u \subseteq m => u = m
    <3>1. Bad \in SUBSET SUBSET S  OBVIOUS
    <3> HIDE DEF Bad
    <3> QED  BY <1>1, <3>1, SmallestSet
  <2>2. m \in SUBSET S /\ m # {}  BY <1>9, <2>1
  <2>3. Max(m) \in m  BY <1>2, <2>2
  <2>4. chosen[m \ {Max(m)}] \in L  BY <2>1, <2>3
  <2>5. Added(chosen[m \ {Max(m)}], seeds[Max(m)]) \in L  BY <1>3, <2>2, <2>3, <2>4, AddedType
  <2> QED  BY <1>9, <2>1, <2>2, <2>5
<1> QED  BY <1>8, <1>10

-----------------------------------------------------------------------------
(* Whom a node knows                                                       *)

Stages == {"sleeping", "asking", "checking", "adding", "finished"}
Discoveries == [at : Stages, ask : Seq(Sources), peers : Seq(Sources)]

PeersType ==
    /\ known \in [Nodes -> Lists(Sources)]
    /\ discovery \in [Nodes -> Discoveries]
    /\ registering \in [Nodes -> SUBSET listened]
    /\ posts \in Nat
    /\ listened \subseteq Nodes

\* A node that is down has lost what it knew, and nothing goes on in it.
Working(n) ==
    /\ Serving(n) => n \in listened
    /\ ~Up(n) => known[n] = <<>> /\ discovery[n].at = "sleeping" /\ registering[n] = {}
    /\ discovery[n].at = "adding" => discovery[n].peers # <<>>

IInv == StartupInv /\ PeersType /\ \A n \in Nodes : Working(n)

LEMMA WiderSeq == ASSUME NEW V, NEW W, V \subseteq W PROVE Seq(V) \subseteq Seq(W)
<1> SUFFICES ASSUME NEW s \in Seq(V) PROVE s \in Seq(W)
  OBVIOUS
<1>1. Len(s) \in Nat /\ s \in [1..Len(s) -> V]  OBVIOUS
<1>2. s \in [1..Len(s) -> W]  BY <1>1
<1> QED  BY <1>1, <1>2

LEMMA WiderTypes ==
    ASSUME Sources \subseteq Sources'
    PROVE  Lists(Sources) \subseteq Lists(Sources') /\ Discoveries \subseteq Discoveries'
<1>1. Seq(Sources) \subseteq Seq(Sources')  BY WiderSeq
<1> HIDE DEF Sources
<1>2. Lists(Sources) \subseteq Lists(Sources')  BY <1>1 DEF Lists
<1>3. Discoveries \subseteq Discoveries'  BY <1>1 DEF Discoveries
<1> QED  BY <1>2, <1>3

\* A step in one node, with nobody coming to listen.
LEMMA OneLearns ==
    ASSUME IInv, UNCHANGED startupVars, UNCHANGED listened, posts' \in Nat, NEW n \in Nodes,
           NEW list \in Lists(Sources), known' = [known EXCEPT ![n] = list],
           NEW d \in Discoveries, discovery' = [discovery EXCEPT ![n] = d],
           NEW pings \in SUBSET listened, registering' = [registering EXCEPT ![n] = pings],
           Up(n), d.at = "adding" => d.peers # <<>>
    PROVE  IInv'
<1>1. StartupInv'  BY StartupKeeps DEF IInv
<1>2. Sources' = Sources /\ Discoveries' = Discoveries  BY DEF Sources, Discoveries
<1>3. pc' = pc  BY DEF startupVars
<1>4. PeersType'  BY <1>2 DEF IInv, PeersType
<1>5. ASSUME NEW m \in Nodes PROVE Working(m)'
  <2>1. CASE m = n
    <3>1. discovery'[n] = d  BY DEF IInv, PeersType
    <3>2. Up(n)' /\ (Serving(n)' => Serving(n))  BY <1>3 DEF Up, Serving, At
    <3> QED  BY <2>1, <3>1, <3>2 DEF IInv, Working
  <2>2. CASE m # n
    <3>1. /\ known'[m] = known[m] /\ discovery'[m] = discovery[m]
          /\ registering'[m] = registering[m] /\ pc'[m] = pc[m]
      BY <1>3, <2>2 DEF IInv, PeersType
    <3> QED  BY <3>1 DEF IInv, Working, Up, Serving, At
  <2> QED  BY <2>1, <2>2
<1> QED  BY <1>1, <1>4, <1>5 DEF IInv

LEMMA NodeTypes ==
    ASSUME IInv, NEW n \in Nodes
    PROVE  /\ known \in [Nodes -> Lists(Sources)] /\ known[n] \in Lists(Sources)
           /\ known[n] \in Seq(Sources)
           /\ discovery \in [Nodes -> Discoveries] /\ discovery[n] \in Discoveries
           /\ registering \in [Nodes -> SUBSET listened] /\ registering[n] \in SUBSET listened
           /\ known = [known EXCEPT ![n] = known[n]]
           /\ discovery = [discovery EXCEPT ![n] = discovery[n]]
           /\ registering = [registering EXCEPT ![n] = registering[n]]
           /\ posts \in Nat /\ listened \subseteq Sources
           /\ discovery[n].at # "sleeping" => Up(n)
           /\ registering[n] # {} => Up(n)
<1>1. /\ known \in [Nodes -> Lists(Sources)] /\ discovery \in [Nodes -> Discoveries]
      /\ registering \in [Nodes -> SUBSET listened] /\ posts \in Nat
  BY DEF IInv, PeersType
<1>2. /\ discovery[n].at # "sleeping" => Up(n)
      /\ registering[n] # {} => Up(n)
  BY DEF IInv, Working
<1>3. known[n] \in Seq(Sources)  BY <1>1 DEF Lists
<1>4. listened \subseteq Sources  BY DEF Sources
<1> QED  BY <1>1, <1>2, <1>3, <1>4

\* DiscoverNodes takes one step and adds nobody.
LEMMA OneDiscovers ==
    ASSUME IInv, NEW n \in Nodes, NEW d \in Discoveries, Discovers(n, d), UNCHANGED known, Up(n),
           d.at = "adding" => d.peers # <<>>
    PROVE  IInv'
<1>1. /\ discovery' = [discovery EXCEPT ![n] = d]
      /\ UNCHANGED startupVars /\ UNCHANGED listened /\ posts' = posts /\ registering' = registering
  BY DEF Discovers
<1>2. /\ known' = [known EXCEPT ![n] = known[n]]
      /\ registering' = [registering EXCEPT ![n] = registering[n]]
      /\ known[n] \in Lists(Sources) /\ registering[n] \in SUBSET listened /\ posts' \in Nat
  BY <1>1, NodeTypes
<1> QED  BY <1>1, <1>2, OneLearns

LEMMA DiscoverKeeps == ASSUME IInv, NEW n \in Nodes, DiscoverNodes(n) PROVE IInv'
<1> DEFINE d == [at |-> "asking", ask |-> known[n], peers |-> <<>>]
<1>1. known[n] \in Seq(Sources)  BY NodeTypes
<1>2. d \in Discoveries /\ d.at = "asking"  BY <1>1 DEF Discoveries, Stages
<1>3. Discovers(n, d) /\ UNCHANGED known /\ Up(n)
  BY DEF DiscoverNodes, Serving, Up, At
<1> HIDE DEF d
<1> QED  BY <1>2, <1>3, OneDiscovers

LEMMA NewStage ==
    ASSUME NEW d \in Discoveries, NEW at \in Stages
    PROVE  LET new == [d EXCEPT !.at = at]
           IN  new \in Discoveries /\ new.at = at /\ new.peers = d.peers
  BY DEF Discoveries

LEMMA NewAsk ==
    ASSUME NEW d \in Discoveries, NEW ask \in Seq(Sources)
    PROVE  LET new == [d EXCEPT !.ask = ask] IN new \in Discoveries /\ new.at = d.at
  BY DEF Discoveries

LEMMA NewPeers ==
    ASSUME NEW d \in Discoveries, NEW peers \in Seq(Sources)
    PROVE  LET new == [d EXCEPT !.peers = peers] IN new \in Discoveries /\ new.at = d.at
  BY DEF Discoveries

LEMMA NewStageAndPeers ==
    ASSUME NEW d \in Discoveries, NEW at \in Stages, NEW peers \in Seq(Sources)
    PROVE  LET new == [d EXCEPT !.at = at, !.peers = peers] IN new \in Discoveries /\ new.at = at
  BY DEF Discoveries

LEMMA AskKeeps == ASSUME IInv, NEW n \in Nodes, GetNodePeers(n) PROVE IInv'
<1> DEFINE old == discovery[n]
<1>1. /\ old.at = "asking" /\ old \in Discoveries /\ Up(n) /\ UNCHANGED known
      /\ old.ask \in Seq(Sources)
  BY NodeTypes DEF GetNodePeers, Discoveries
<1>2. CASE old.ask = <<>>
  <2>1. Discovers(n, Finished)  BY <1>2 DEF GetNodePeers
  <2>2. Finished \in Discoveries /\ Finished.at = "finished"
    <3>1. Finished = [at |-> "finished", ask |-> <<>>, peers |-> <<>>]
      BY DEF Finished, NotStarted
    <3> QED  BY <3>1 DEF Discoveries, Stages
  <2> QED  BY <1>1, <2>1, <2>2, OneDiscovers
<1>3. CASE old.ask # <<>>
  <2> DEFINE m == Head(old.ask)
             rest == Tail(old.ask)
             d == [old EXCEPT !.ask = rest]
             answered == [d EXCEPT !.at = "checking", !.peers = known[m]]
  <2>1. \/ m \in Nodes \ {n} /\ Discovers(n, answered)
        \/ Discovers(n, d)
    BY <1>3 DEF GetNodePeers, Others
  <2>2. rest \in Seq(Sources)  BY <1>1, <1>3
  <2> HIDE DEF rest
  <2>3. d \in Discoveries /\ d.at = "asking"  BY <1>1, <2>2, NewAsk
  <2> HIDE DEF d
  <2>4. m \in Nodes => answered \in Discoveries /\ answered.at = "checking"
    <3> SUFFICES ASSUME m \in Nodes
                 PROVE  answered \in Discoveries /\ answered.at = "checking"
      OBVIOUS
    <3>1. known[m] \in Seq(Sources)  BY NodeTypes
    <3>2. "checking" \in Stages  BY DEF Stages
    <3> QED  BY <2>3, <3>1, <3>2, NewStageAndPeers
  <2> HIDE DEF answered, m
  <2> QED  BY <1>1, <2>1, <2>3, <2>4, OneDiscovers
<1> QED  BY <1>2, <1>3

LEMMA CheckKeeps == ASSUME IInv, NEW n \in Nodes, CheckPeer(n) PROVE IInv'
<1> DEFINE d == discovery[n]
           asking == [d EXCEPT !.at = "asking"]
           skipped == [d EXCEPT !.peers = Tail(d.peers)]
           adding == [d EXCEPT !.at = "adding"]
<1>1. /\ d.at = "checking" /\ d \in Discoveries /\ Up(n) /\ UNCHANGED known
      /\ d.peers \in Seq(Sources)
  BY NodeTypes DEF CheckPeer, Discoveries
<1>2. \/ d.peers = <<>> /\ Discovers(n, asking)
      \/ d.peers # <<>> /\ Discovers(n, skipped)
      \/ d.peers # <<>> /\ Discovers(n, adding)
  BY DEF CheckPeer
<1> HIDE DEF d
<1>3. asking \in Discoveries /\ asking.at = "asking"
  BY <1>1, NewStage DEF Stages
<1>4. d.peers # <<>> => skipped \in Discoveries /\ skipped.at = "checking"
  <2> SUFFICES ASSUME d.peers # <<>> PROVE skipped \in Discoveries /\ skipped.at = "checking"
    OBVIOUS
  <2>1. Tail(d.peers) \in Seq(Sources)  BY <1>1
  <2> QED  BY <1>1, <2>1, NewPeers
<1>5. adding \in Discoveries /\ adding.peers = d.peers
  BY <1>1, NewStage DEF Stages
<1> HIDE DEF asking, skipped, adding
<1> QED  BY <1>1, <1>2, <1>3, <1>4, <1>5, OneDiscovers

LEMMA AddKeeps == ASSUME IInv, NEW n \in Nodes, AddPeer(n) PROVE IInv'
<1> DEFINE d == discovery[n]
           list == Added(known[n], Head(d.peers))
           new == [d EXCEPT !.at = "checking", !.peers = Tail(d.peers)]
<1>1. /\ d.at = "adding" /\ d \in Discoveries /\ Up(n) /\ d.peers # <<>>
      /\ d.peers \in Seq(Sources)
  BY NodeTypes DEF AddPeer, Discoveries, IInv, Working
<1>2. /\ known' = [known EXCEPT ![n] = list] /\ discovery' = [discovery EXCEPT ![n] = new]
      /\ UNCHANGED startupVars /\ UNCHANGED listened /\ posts' = posts /\ registering' = registering
  BY DEF AddPeer, Discovers
<1>3. Head(d.peers) \in Sources /\ Tail(d.peers) \in Seq(Sources)  BY <1>1
<1>4. list \in Lists(Sources)  BY <1>3, NodeTypes, AddedType
<1>5. new \in Discoveries /\ new.at = "checking"
  <2> HIDE DEF d
  <2>1. "checking" \in Stages  BY DEF Stages
  <2> QED  BY <1>1, <1>3, <2>1, NewStageAndPeers
<1>6. /\ registering' = [registering EXCEPT ![n] = registering[n]]
      /\ registering[n] \in SUBSET listened /\ posts' \in Nat
  BY <1>2, NodeTypes
<1> HIDE DEF list, new, d
<1> QED  BY <1>1, <1>2, <1>4, <1>5, <1>6, OneLearns

LEMMA PingKeeps == ASSUME IInv, NEW n \in Nodes, NEW m, PingToRegister(n, m) PROVE IInv'
<1>1. /\ Up(n) /\ m \in Nodes /\ Serving(m) /\ posts' = posts + 1
      /\ registering' = [registering EXCEPT ![n] = registering[n] \cup {m}]
      /\ UNCHANGED startupVars /\ known' = known /\ discovery' = discovery /\ UNCHANGED listened
  BY DEF PingToRegister, isPingable, Serving, Up, At
<1>2. m \in listened  BY <1>1 DEF IInv, Working
<1>3. /\ known' = [known EXCEPT ![n] = known[n]] /\ known[n] \in Lists(Sources)
      /\ discovery' = [discovery EXCEPT ![n] = discovery[n]] /\ discovery[n] \in Discoveries
      /\ registering[n] \cup {m} \in SUBSET listened /\ posts' \in Nat
  BY <1>1, <1>2, NodeTypes
<1>4. discovery[n].at = "adding" => discovery[n].peers # <<>>  BY DEF IInv, Working
<1> QED  BY <1>1, <1>3, <1>4, OneLearns

LEMMA RegisterNodeKeeps == ASSUME IInv, NEW n \in Nodes, NEW m, Register(n, m) PROVE IInv'
<1> DEFINE list == Added(known[n], m)
<1>1. /\ m \in registering[n] /\ posts' = posts /\ known' = [known EXCEPT ![n] = list]
      /\ registering' = [registering EXCEPT ![n] = registering[n] \ {m}]
      /\ UNCHANGED startupVars /\ discovery' = discovery /\ UNCHANGED listened
  BY DEF Register
<1>2. m \in Sources /\ Up(n)  BY <1>1, NodeTypes
<1>3. list \in Lists(Sources)  BY <1>2, NodeTypes, AddedType
<1>4. /\ discovery' = [discovery EXCEPT ![n] = discovery[n]] /\ discovery[n] \in Discoveries
      /\ registering[n] \ {m} \in SUBSET listened /\ posts' \in Nat
  BY <1>1, NodeTypes
<1>5. discovery[n].at = "adding" => discovery[n].peers # <<>>  BY DEF IInv, Working
<1> HIDE DEF list
<1> QED  BY <1>1, <1>2, <1>3, <1>4, <1>5, OneLearns

\* What a node that runs on does to the places of the nodes.
LEMMA MainMoves ==
    ASSUME StartupInv, NEW n \in Nodes,
           Main(n) \/ SyncChains(n) \/ syncWithNode(n) \/ \E m \in Nodes : GetChain(n, m)
    PROVE  /\ pc \in [Nodes -> Places]
           /\ \A m \in Nodes : m # n => pc'[m] = pc[m]
           /\ Up(n) /\ Up(n)'
<1>1. pc \in [Nodes -> Places]  BY DEF StartupInv, StartupTypeOK, Places
<1>2. Up(n)
  BY DEF Main, DeploySystemContracts, CreateContract, CreateFails, Fund, RegisterSystemContract,
     RegisterFails, AddBlock, AddBlockFails, BeginSync, SyncChains, syncWithNode, GetChain,
     ListenAndServe, Serving, At, Up
<1>3. pc' = pc \/ \E to : Goes(n, to) /\ to # "down"
  <2>1. CASE DeploySystemContracts(n)  BY <2>1 DEF DeploySystemContracts
  <2>2. CASE CreateContract(n) \/ CreateFails(n) \/ Fund(n)
    <3>1. \/ Goes(n, "registering") \/ Goes(n, "funding") \/ Goes(n, "deployed") \/ Goes(n, "hung")
      BY <2>2 DEF CreateContract, CreateFails, Fund
    <3> QED  BY <3>1
  <2>3. CASE RegisterSystemContract(n)  BY <2>3 DEF RegisterSystemContract
  <2>4. CASE RegisterFails(n) \/ AddBlock(n) \/ AddBlockFails(n)
    <3>1. NextContract(n)  BY <2>4 DEF RegisterFails, AddBlock, AddBlockFails
    <3>2. Goes(n, "creating") \/ Goes(n, "deployed")  BY <3>1 DEF NextContract
    <3> QED  BY <3>2
  <2>5. CASE BeginSync(n) \/ SyncChains(n) \/ ListenAndServe(n)
    <3>1. Goes(n, "syncing") \/ Goes(n, "synced") \/ Goes(n, "serving")
      BY <2>5 DEF BeginSync, SyncChains, ListenAndServe
    <3> QED  BY <3>1
  <2>6. CASE syncWithNode(n) \/ \E m \in Nodes : GetChain(n, m)
    BY <2>6 DEF syncWithNode, GetChain
  <2> QED  BY <2>1, <2>2, <2>3, <2>4, <2>5, <2>6 DEF Main
<1>4. (\A m \in Nodes : m # n => pc'[m] = pc[m]) /\ Up(n)'
  <2>1. CASE pc' = pc  BY <1>2, <2>1 DEF Up
  <2>2. CASE \E to : Goes(n, to) /\ to # "down"  BY <1>1, <2>2 DEF Goes, Up
  <2> QED  BY <1>3, <2>1, <2>2
<1> QED  BY <1>1, <1>2, <1>4

LEMMA MainGoesOnKeeps == ASSUME IInv, NEW n \in Nodes, MainGoesOn(n) PROVE IInv'
<1>1. /\ Main(n) \/ SyncChains(n) \/ syncWithNode(n) \/ \E m \in Nodes : GetChain(n, m)
      /\ listened' = IF Serving(n)' THEN listened \cup {n} ELSE listened
      /\ known' = known /\ discovery' = discovery /\ registering' = registering /\ posts' = posts
  BY DEF MainGoesOn
<1>2. StartupInv'  BY <1>1, MainKeeps, SyncKeeps, GetChainKeeps DEF IInv
<1>3. listened \subseteq listened' /\ listened' \subseteq Nodes  BY <1>1 DEF IInv, PeersType
<1>4. Sources \subseteq Sources'  BY <1>3 DEF Sources
<1>5. PeersType'
  <2>1. known' \in [Nodes -> Lists(Sources')]
    <3>1. known \in [Nodes -> Lists(Sources)] /\ Lists(Sources) \subseteq Lists(Sources')
      BY <1>4, WiderTypes DEF IInv, PeersType
    <3> HIDE DEF Sources, Lists
    <3> QED  BY <1>1, <3>1
  <2>2. discovery' \in [Nodes -> Discoveries']
    <3>1. discovery \in [Nodes -> Discoveries] /\ Discoveries \subseteq Discoveries'
      BY <1>4, WiderTypes DEF IInv, PeersType
    <3> QED  BY <1>1, <3>1
  <2>3. registering' \in [Nodes -> SUBSET listened'] /\ posts' \in Nat
    BY <1>1, <1>3 DEF IInv, PeersType
  <2> QED  BY <1>3, <2>1, <2>2, <2>3 DEF PeersType
<1>6. /\ \A m \in Nodes : m # n => pc'[m] = pc[m]
      /\ Up(n) /\ Up(n)'
  BY <1>1, MainMoves DEF IInv
<1>7. ASSUME NEW m \in Nodes PROVE Working(m)'
  <2>1. Serving(m)' => m \in listened'
    <3>1. CASE m = n  BY <1>1, <3>1
    <3>2. CASE m # n
      <4>1. Serving(m)' => Serving(m)  BY <1>6, <3>2 DEF Serving, At
      <4> QED  BY <1>3, <4>1 DEF IInv, Working
    <3> QED  BY <3>1, <3>2
  <2>2. ~Up(m)' => ~Up(m)
    <3>1. CASE m = n  BY <1>6, <3>1
    <3>2. CASE m # n  BY <1>6, <3>2 DEF Up
    <3> QED  BY <3>1, <3>2
  <2> QED  BY <1>1, <2>1, <2>2 DEF IInv, Working
<1> QED  BY <1>2, <1>5, <1>7 DEF IInv

LEMMA SeedsType ==
    ASSUME NEW n \in Nodes PROVE FoldLeft(Added, BuiltIn, Seeds[n]) \in Lists(Sources)
<1>1. \A s : s \in Seq(Hosts) => s \in Seq(Range(s))
  <2> SUFFICES ASSUME NEW s \in Seq(Hosts) PROVE s \in Seq(Range(s))
    OBVIOUS
  <2>1. Len(s) \in Nat /\ s \in [1..Len(s) -> Range(s)]  BY DEF Range
  <2> QED  BY <2>1
<1>2. BuiltIn \in Seq(Range(BuiltIn)) /\ Seeds[n] \in Seq(Range(Seeds[n]))
  BY <1>1, KnownAssumption
<1>3. Range(BuiltIn) \subseteq Sources /\ Range(Seeds[n]) \subseteq Sources
  BY DEF Sources, Seeded
<1>4. BuiltIn \in Seq(Sources) /\ Seeds[n] \in Seq(Sources)
  <2>1. Seq(Range(BuiltIn)) \subseteq Seq(Sources) /\ Seq(Range(Seeds[n])) \subseteq Seq(Sources)
    BY <1>3, WiderSeq
  <2> QED  BY <1>2, <2>1
<1>5. BuiltIn \in Lists(Sources)  BY <1>4, KnownAssumption DEF Lists
<1> HIDE DEF Sources
<1> QED  BY <1>4, <1>5, FoldedType

LEMMA StartNodeKeeps == ASSUME IInv, NEW n \in Nodes, StartNode(n) PROVE IInv'
<1> DEFINE list == FoldLeft(Added, BuiltIn, Seeds[n])
<1>1. /\ Start(n) /\ known' = [known EXCEPT ![n] = list]
      /\ discovery' = discovery /\ registering' = registering /\ posts' = posts
      /\ listened' = listened
  BY DEF StartNode
<1>2. StartupInv'  BY <1>1, StartKeeps DEF IInv
<1>3. list \in Lists(Sources)  BY SeedsType
<1> HIDE DEF list
<1>4. Sources' = Sources /\ Discoveries' = Discoveries  BY <1>1 DEF Sources, Discoveries
<1>5. PeersType'  BY <1>1, <1>3, <1>4 DEF IInv, PeersType
<1>6. /\ ~Up(n) /\ pc'[n] = "deploying"
      /\ \A m \in Nodes : m # n => pc'[m] = pc[m] /\ known'[m] = known[m]
  BY <1>1 DEF Start, Goes, At, Up, IInv, StartupInv, StartupTypeOK, PeersType
<1>7. ASSUME NEW m \in Nodes PROVE Working(m)'
  <2>1. CASE m = n  BY <1>1, <1>6, <2>1 DEF IInv, Working, Up, Serving, At
  <2>2. CASE m # n  BY <1>1, <1>6, <2>2 DEF IInv, Working, Up, Serving, At
  <2> QED  BY <2>1, <2>2
<1> QED  BY <1>2, <1>5, <1>7 DEF IInv

LEMMA ExitNodeKeeps == ASSUME IInv, NEW n \in Nodes, ExitNode(n) PROVE IInv'
<1>1. /\ Exit(n) /\ known' = [known EXCEPT ![n] = <<>>]
      /\ discovery' = [discovery EXCEPT ![n] = NotStarted]
      /\ registering' = [registering EXCEPT ![n] = {}]
      /\ posts' = posts /\ listened' = listened
  BY DEF ExitNode
<1>2. StartupInv'  BY <1>1, ExitKeeps DEF IInv
<1>3. <<>> \in Lists(Sources)  BY DEF Lists, IsInjective
<1>4. NotStarted \in Discoveries /\ NotStarted.at = "sleeping"
  BY DEF NotStarted, Discoveries, Stages
<1>5. Sources' = Sources /\ Discoveries' = Discoveries  BY <1>1 DEF Sources, Discoveries
<1>6. PeersType'  BY <1>1, <1>3, <1>4, <1>5 DEF IInv, PeersType
<1>7. /\ pc'[n] = "down" /\ known'[n] = <<>> /\ discovery'[n] = NotStarted /\ registering'[n] = {}
      /\ \A m \in Nodes : m # n => /\ pc'[m] = pc[m] /\ known'[m] = known[m]
                                   /\ discovery'[m] = discovery[m]
                                   /\ registering'[m] = registering[m]
  BY <1>1 DEF Exit, Goes, IInv, StartupInv, StartupTypeOK, PeersType
<1>8. ASSUME NEW m \in Nodes PROVE Working(m)'
  <2>1. CASE m = n  BY <1>1, <1>4, <1>7, <2>1 DEF IInv, Working, Up, Serving, At
  <2>2. CASE m # n  BY <1>1, <1>7, <2>2 DEF IInv, Working, Up, Serving, At
  <2> QED  BY <2>1, <2>2
<1> QED  BY <1>2, <1>6, <1>8 DEF IInv

-----------------------------------------------------------------------------
(* The invariant of the peers                                              *)

LEMMA InitEstablishes == ASSUME Init PROVE IInv
<1>1. StartupInv  BY StartupInitEstablishes DEF Init
<1>2. <<>> \in Lists(Sources)  BY DEF Lists, IsInjective
<1>3. NotStarted \in Discoveries /\ NotStarted.at = "sleeping"
  BY DEF NotStarted, Discoveries, Stages
<1>4. PeersType  BY <1>2, <1>3 DEF Init, PeersType
<1>5. \A n \in Nodes : Working(n)
  BY <1>3 DEF Init, StartupInit, Working, Serving, At
<1> QED  BY <1>1, <1>4, <1>5 DEF IInv

LEMMA StepKeeps == ASSUME IInv, [Next]_vars PROVE IInv'
<1>1. CASE UNCHANGED vars
  <2>1. UNCHANGED startupVars /\ UNCHANGED peersVars  BY <1>1 DEF vars
  <2>2. StartupInv'  BY <2>1, StartupKeeps DEF IInv
  <2>3. PeersType'  BY <2>1 DEF peersVars, IInv, PeersType, Sources, Discoveries
  <2>4. \A n \in Nodes : Working(n)'
    BY <2>1 DEF peersVars, startupVars, IInv, Working, Serving, Up, At
  <2> QED  BY <2>2, <2>3, <2>4 DEF IInv
<1>2. CASE Next
  BY <1>2, StartNodeKeeps, MainGoesOnKeeps, ExitNodeKeeps, DiscoverKeeps, AskKeeps, CheckKeeps,
     AddKeeps, PingKeeps, RegisterNodeKeeps DEF Next, Discovery
<1> QED  BY <1>1, <1>2

LEMMA Invariance == Spec => []IInv
<1>1. Init => IInv  BY InitEstablishes
<1>2. IInv /\ [Next]_vars => IInv'  BY StepKeeps
<1> QED  BY <1>1, <1>2, PTL DEF Spec

LEMMA SourcesAreHosts == ASSUME PeersType PROVE Sources \subseteq Hosts
<1>1. ASSUME NEW k \in Nodes PROVE Range(Seeds[k]) \subseteq Hosts
  <2>1. Seeds[k] \in Seq(Hosts)  BY KnownAssumption
  <2> QED  BY <2>1 DEF Range
<1>2. Seeded \subseteq Hosts  BY <1>1 DEF Seeded
<1> QED  BY <1>2 DEF Sources, Hosts, PeersType

\* node.go: whatever nodes start, stop, register and discover, what they know
\* and where their discoveries are keeps its type, and a stopped node knows
\* nobody.
THEOREM PeersTypeCorrect == Spec => []TypeOK
<1>1. ASSUME IInv PROVE TypeOK
  <2>1. Seq(Sources) \subseteq Seq(Hosts)
    <3>1. Sources \subseteq Hosts  BY <1>1, SourcesAreHosts DEF IInv
    <3> QED  BY <3>1, WiderSeq
  <2>2. ASSUME NEW n \in Nodes
        PROVE  /\ discovery[n].at \in Stages
               /\ discovery[n].ask \in Seq(Hosts) /\ discovery[n].peers \in Seq(Hosts)
               /\ known[n] \in Seq(Hosts)
               /\ ~Up(n) => known[n] = <<>>
               /\ registering[n] \subseteq Nodes
    <3>1. discovery[n] \in Discoveries /\ known[n] \in Seq(Sources) /\ registering[n] \subseteq listened
      BY <1>1, NodeTypes
    <3>2. ~Up(n) => known[n] = <<>>  BY <1>1 DEF IInv, Working
    <3>3. listened \subseteq Nodes  BY <1>1 DEF IInv, PeersType
    <3> HIDE DEF Sources
    <3> QED  BY <2>1, <3>1, <3>2, <3>3 DEF Discoveries
  <2>3. known \in [Nodes -> Seq(Hosts)] /\ registering \in [Nodes -> SUBSET Nodes]
    <3>1. known \in [Nodes -> Lists(Sources)] /\ registering \in [Nodes -> SUBSET listened]
      BY <1>1 DEF IInv, PeersType
    <3> QED  BY <2>2, <3>1
  <2> QED  BY <1>1, <2>2, <2>3 DEF TypeOK, IInv, PeersType, StartupInv, Stages
<1> QED  BY <1>1, Invariance, PTL

\* node.go:91: however the look at an address and AddNode interleave with the
\* registrations, no list of any node has anybody twice.
THEOREM NobodyTwice == Spec => []NobodyIsKnownTwice
<1>1. IInv => NobodyIsKnownTwice
  BY DEF IInv, PeersType, Lists, NobodyIsKnownTwice
<1> QED  BY <1>1, Invariance, PTL

\* Through any number of discoveries and registrations, only the built-in, the
\* seeds and those who have listened are known to anybody.
THEOREM AllKnownHaveListened == Spec => []KnownHaveListened
<1>1. ASSUME IInv PROVE KnownHaveListened
  <2> SUFFICES ASSUME NEW n \in Nodes, NEW m \in Range(known[n])
               PROVE  \/ m \in Range(BuiltIn) \cup listened
                      \/ \E k \in Nodes : m \in Range(Seeds[k])
    BY DEF KnownHaveListened
  <2>1. known[n] \in Seq(Sources)  BY <1>1, NodeTypes
  <2>2. m \in Sources
    <3> HIDE DEF Sources
    <3> QED  BY <2>1 DEF Range
  <2> QED  BY <2>2 DEF Sources, Seeded
<1> QED  BY <1>1, Invariance, PTL

\* The nodes start, deploy and stop as Startup has it, whatever their peers do.
LEMMA PeersStart == Spec => StartupInit /\ [][StartupNext]_startupVars
<1>1. Init => StartupInit  BY DEF Init
<1>2. [Next]_vars => [StartupNext]_startupVars
  BY DEF Next, vars, StartNode, MainGoesOn, ExitNode, DiscoverNodes, Discovery, GetNodePeers,
     CheckPeer, AddPeer, Discovers, PingToRegister, Register, StartupNext
<1> QED  BY <1>1, <1>2, PTL DEF Spec

\* What a deployment registers stays backed, and its governance contract stays,
\* in a network of nodes that learn of each other, and that take over the chains
\* of those whom they know.
THEOREM PeersKeepDeployments == Spec => []RegistrationsAreBacked /\ GovernanceIsForGood
<1>1. StartupInit => StartupInv  BY StartupInitEstablishes
<1>2. StartupInv /\ [StartupNext]_startupVars => StartupInv'  BY StartupKeeps
<1>3. StartupInv => RegistrationsAreBacked
  BY DEF StartupInv, Backed, InLevelDB, RegistrationsAreBacked
<1>4. StartupInv /\ [StartupNext]_startupVars =>
        [\A n \in Nodes : "governance" \in DOMAIN registered[n] =>
            /\ "governance" \in DOMAIN registered'[n]
            /\ registered'[n]["governance"] = registered[n]["governance"]]_startupVars
  BY GovernanceStays
<1> QED  BY <1>1, <1>2, <1>3, <1>4, PeersStart, PTL DEF GovernanceIsForGood
=============================================================================
