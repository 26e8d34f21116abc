----------------------------- MODULE ChainStore -----------------------------
(***************************************************************************)
(* One blockchain of one node: the slice of blocks in memory, its copy in  *)
(* LevelDB, the mutex that guards both, and the goroutines that use them   *)
(* (blockchain/blockchain.go, blockchain/levelDB.go, and their callers in  *)
(* p2p/handlers.go and p2p/network.go).                                    *)
(*                                                                         *)
(*   producer  ProcessMempools: CreateBlock and ForgeBlock without the     *)
(*             mutex, then AddBlock under it; one goroutine.               *)
(*   handlers  AddTxBlockHandler/AddCriticalBlockHandler: AddBlock.        *)
(*   syncer    syncChain/syncChainWithNode: downloads a peer's chain and   *)
(*             judges it without the mutex, then calls ReplaceChain, which *)
(*             takes the mutex, checks the length again and saves the      *)
(*             blocks one at a time.                                       *)
(*                                                                         *)
(* The process may crash at any step and start again from LevelDB.  Any    *)
(* write to LevelDB may fail, and so may any read of the height key, which *)
(* the code goes on without.  The peers are other nodes running the same   *)
(* code; only their chains are kept.                                       *)
(***************************************************************************)
EXTENDS BlockRules

CONSTANTS
    Peers,      \* the other nodes
    TimeSteps,  \* how many seconds a tick of the clock may take
    MaxClock,   \* bound: the last second of a behaviour
    MaxLength,  \* bound: nobody forges a block beyond this chain length
    MaxMisreads \* bound: failed reads of the height that do harm

ASSUME BoundsAssumption ==
    /\ TimeSteps \subseteq Nat \ {0}
    /\ MaxClock \in Nat
    /\ MaxLength \in Nat \ {0}
    /\ MaxMisreads \in Nat

VARIABLES
    clock,      \* seconds, shared by the nodes (time.Now)
    up,         \* is the process running
    blocks,     \* bc.blocks; <<>> while the process is down
    difficulty, \* bc.difficulty: memory only
    dbIndex,    \* LevelDB: the block stored under each blockindex_ key
    dbHeight,   \* LevelDB: the height key, 0 while it is absent
    forged,     \* the producer's block between ForgeBlock and AddBlock, or <<>>
    candidate,  \* the chain the syncer downloaded and found valid, or <<>>
    saved,      \* how many blocks ReplaceChain saved, or Unlocked
    peer,       \* the chain of each peer
    wire,       \* blocks broadcast so far; each may arrive late, twice or never
    torn,       \* history: LevelDB may mix two chains, after a replacement that
                \* stopped half-way or a genesis block over a chain not seen
    misreads    \* history: how many failed reads lowered the height or hid it

vars == <<clock, up, blocks, difficulty, dbIndex, dbHeight, forged, candidate,
          saved, peer, wire, torn, misreads>>

history == <<torn, misreads>>
store == <<dbIndex, dbHeight>>
memory == <<blocks, difficulty>>
world == <<clock, peer, wire>>

\* The value of saved while no ReplaceChain is between its length check and
\* its return.  AddBlock, CreateBlock and GetBlocks need the mutex.
Unlocked == -1

MutexFree == saved = Unlocked

\* Does LevelDB mix two chains if the replacement in progress stops now?  Once
\* all is saved, only the tail of a longer chain that an earlier failure left
\* there can remain.
TornNow ==
    IF saved = Len(candidate) THEN torn /\ dbHeight >= Len(candidate)
    ELSE torn \/ saved > 0

Init ==
    /\ clock = 0
    /\ up = FALSE
    /\ blocks = <<>>
    /\ difficulty = InitialDifficulty
    /\ dbIndex = <<>>
    /\ dbHeight = 0
    /\ forged = <<>>
    /\ candidate = <<>>
    /\ saved = Unlocked
    /\ peer = [p \in Peers |-> <<Genesis(0)>>]
    /\ wire = {}
    /\ torn = FALSE
    /\ misreads = 0

-----------------------------------------------------------------------------
(* LevelDB *)

StoredWith(block) ==
    [i \in DOMAIN dbIndex \cup {block.index} |->
        IF i = block.index THEN block ELSE dbIndex[i]]

\* Mutant of SaveBlock: the height key counts the blocks instead of naming the last.
HeightCountsBlocks(block) ==
    /\ dbIndex' = StoredWith(block)
    /\ dbHeight' = IF block.index > dbHeight THEN block.index + 1 ELSE dbHeight

\* SaveBlock: one atomic batch.  The height key grows, except that a height
\* that cannot be read is overwritten whatever it was.
SaveBlock(block) ==
    /\ dbIndex' = StoredWith(block)
    /\ \E readable \in BOOLEAN :
          dbHeight' = IF ~readable \/ block.index > dbHeight THEN block.index ELSE dbHeight

\* Kept for the properties: the failed reads that matter.
CountMisread(harmful) ==
    /\ misreads' = IF harmful THEN misreads + 1 ELSE misreads
    /\ misreads' <= MaxMisreads

\* GetAllBlocks: positions 0..height, all of which must be present.
GetAllBlocks == [i \in 1..(dbHeight + 1) |-> dbIndex[i - 1]]

-----------------------------------------------------------------------------
(* The node *)

\* NewBlockchain finds a height: it loads the chain.  A hole below the height,
\* or a block or a height that can no longer be read, makes the start fail: the
\* process stays down.
LoadChain ==
    /\ dbHeight > 0
    /\ 0..dbHeight \subseteq DOMAIN dbIndex
    /\ blocks' = GetAllBlocks
    /\ UNCHANGED <<store, history>>

\* NewBlockchain finds no height, or cannot read it and goes on as if there
\* were none: a new genesis block replaces the stored one.
NewChain ==
    /\ blocks' = <<Genesis(clock)>>
    /\ SaveBlock(Genesis(clock))
    /\ torn' = (dbHeight' > 0)
    /\ CountMisread(dbHeight > 0)

\* The stored height alone tells an existing chain from a new one.  The
\* difficulty restarts from its initial value.
Start ==
    /\ ~up
    /\ up' = TRUE
    /\ difficulty' = InitialDifficulty
    /\ LoadChain \/ NewChain
    /\ UNCHANGED <<clock, forged, candidate, saved, peer, wire>>

\* A crash or a kill: memory goes, LevelDB stays.
Crash ==
    /\ up
    /\ up' = FALSE
    /\ blocks' = <<>>
    /\ difficulty' = InitialDifficulty
    /\ forged' = <<>>
    /\ candidate' = <<>>
    /\ saved' = Unlocked
    /\ torn' = TornNow
    /\ UNCHANGED <<store, world, misreads>>

\* processTxBatch up to ForgeBlock.  CreateBlock releases the mutex before the
\* block is filled and stamped.
Forge ==
    /\ up /\ MutexFree
    /\ forged = <<>>
    /\ Len(blocks) < MaxLength
    /\ \E c \in Contents :
          forged' = <<ForgeBlock([CreateBlock(blocks, clock) EXCEPT !.contents = c], clock)>>
    /\ UNCHANGED <<up, memory, store, candidate, saved, world, history>>

\* Mutant of AddBlock: the block is kept although LevelDB refused it.
AddUnsaved(block) ==
    /\ isValidBlock(blocks, block)
    /\ SaveBlock(block) \/ UNCHANGED store
    /\ blocks' = Append(blocks, block)
    /\ difficulty' = adjustDifficulty(blocks', difficulty)
    /\ CountMisread(dbHeight' < dbHeight)

\* AddBlock when it succeeds: one critical section, LevelDB before memory.
AddBlock(block) ==
    /\ isValidBlock(blocks, block)
    /\ SaveBlock(block)
    /\ CountMisread(dbHeight' < dbHeight)
    /\ blocks' = Append(blocks, block)
    /\ difficulty' = adjustDifficulty(blocks', difficulty)

\* The rest of processTxBatch: add the forged block and broadcast it.
AddForged ==
    /\ up /\ MutexFree
    /\ forged # <<>>
    /\ AddBlock(forged[1])
    /\ wire' = wire \cup {forged[1]}
    /\ forged' = <<>>
    /\ UNCHANGED <<clock, up, candidate, saved, peer, torn>>

\* AddBlock refuses the forged block because the tip moved meanwhile, or
\* LevelDB reports an error: the block is dropped.
DropForged ==
    /\ up /\ MutexFree
    /\ forged # <<>>
    /\ forged' = <<>>
    /\ UNCHANGED <<up, memory, store, candidate, saved, world, history>>

\* AddTxBlockHandler and AddCriticalBlockHandler, when AddBlock succeeds; a
\* refusal changes nothing.
ReceiveBlock ==
    /\ up /\ MutexFree
    /\ \E b \in wire : AddBlock(b)
    /\ UNCHANGED <<up, forged, candidate, saved, world, torn>>

\* syncChainWithNode up to its length test: nothing here holds the mutex.
FetchChain ==
    /\ up
    /\ candidate = <<>>
    /\ difficulty >= 0
    /\ \E p \in Peers :
          /\ IsValidChain(blocks, difficulty, peer[p])
          /\ Len(peer[p]) > Len(blocks)
          /\ candidate' = peer[p]
    /\ UNCHANGED <<up, memory, store, forged, saved, world, history>>

\* The downloaded chain is judged under a negative difficulty: the process dies.
FetchPanics ==
    /\ up
    /\ candidate = <<>>
    /\ \E p \in Peers : PanicsOn(blocks, difficulty, peer[p])
    /\ Crash

\* Mutant of BeginReplace: the length compared before the mutex was taken is trusted.
BeginWithoutRecheck ==
    /\ up /\ MutexFree
    /\ candidate # <<>>
    /\ saved' = 0
    /\ UNCHANGED <<up, memory, store, forged, candidate, world, history>>

\* ReplaceChain takes the mutex and finds the candidate still longer and valid.
BeginReplace ==
    /\ up /\ MutexFree
    /\ candidate # <<>>
    /\ Len(candidate) > Len(blocks)
    /\ isValidChain(blocks, candidate)
    /\ saved' = 0
    /\ UNCHANGED <<up, memory, store, forged, candidate, world, history>>

\* ... or no longer does: it returns false.
RefuseReplace ==
    /\ up /\ MutexFree
    /\ candidate # <<>>
    /\ \/ Len(candidate) <= Len(blocks)
       \/ ~isValidChain(blocks, candidate)
    /\ candidate' = <<>>
    /\ UNCHANGED <<up, memory, store, forged, saved, world, history>>

\* One SaveBlock of ReplaceChain's loop.
SaveNext ==
    /\ up /\ ~MutexFree
    /\ saved < Len(candidate)
    /\ SaveBlock(candidate[saved + 1])
    /\ CountMisread(dbHeight' < dbHeight)
    /\ saved' = saved + 1
    /\ UNCHANGED <<up, memory, forged, candidate, world, torn>>

\* The loop ended: the slice is switched and the mutex released.
EndReplace ==
    /\ up /\ ~MutexFree
    /\ saved = Len(candidate)
    /\ blocks' = candidate
    /\ candidate' = <<>>
    /\ saved' = Unlocked
    /\ torn' = TornNow
    /\ UNCHANGED <<up, difficulty, store, forged, world, misreads>>

\* SaveBlock fails inside the loop: ReplaceChain returns false, keeping what
\* it has already written.
SaveFails ==
    /\ up /\ ~MutexFree
    /\ saved < Len(candidate)
    /\ candidate' = <<>>
    /\ saved' = Unlocked
    /\ torn' = TornNow
    /\ UNCHANGED <<up, memory, store, forged, world, misreads>>

-----------------------------------------------------------------------------
(* The rest of the world *)

Tick ==
    /\ \E s \in TimeSteps : clock + s <= MaxClock /\ clock' = clock + s
    /\ UNCHANGED <<up, memory, store, forged, candidate, saved, peer, wire, history>>

\* A peer forges a block, adds it and broadcasts it.
PeerForges(p) ==
    /\ Len(peer[p]) < MaxLength
    /\ \E c \in Contents :
          LET b == ForgeBlock([CreateBlock(peer[p], clock) EXCEPT !.contents = c], clock)
          IN  /\ peer' = [peer EXCEPT ![p] = Append(@, b)]
              /\ wire' = wire \cup {b}
    /\ UNCHANGED <<clock, up, memory, store, forged, candidate, saved, history>>

\* A peer accepts a block somebody broadcast.
PeerReceives(p) ==
    /\ \E b \in wire :
          isValidBlock(peer[p], b) /\ peer' = [peer EXCEPT ![p] = Append(@, b)]
    /\ UNCHANGED <<clock, up, memory, store, forged, candidate, saved, wire, history>>

\* A peer adopts this node's longer chain: the peer's difficulty is not
\* modelled, so whether the hashes satisfy it is left open.
PeerReplaces(p) ==
    /\ up /\ MutexFree
    /\ Len(blocks) > Len(peer[p])
    /\ isValidChain(peer[p], blocks)
    /\ peer' = [peer EXCEPT ![p] = blocks]
    /\ UNCHANGED <<clock, up, memory, store, forged, candidate, saved, wire, history>>

Next ==
    \/ Start \/ Crash
    \/ Forge \/ AddForged \/ DropForged \/ ReceiveBlock
    \/ FetchChain \/ FetchPanics
    \/ BeginReplace \/ RefuseReplace \/ SaveNext \/ EndReplace \/ SaveFails
    \/ Tick
    \/ \E p \in Peers : PeerForges(p) \/ PeerReceives(p) \/ PeerReplaces(p)

Spec == Init /\ [][Next]_vars

-----------------------------------------------------------------------------
(* Properties *)

\* Types: every block in memory, in LevelDB, on the wire or in a candidate is
\* a forged block whose hash is the digest of its fields, and the store keeps
\* each under its own index.
TypeOK ==
    /\ clock \in Nat
    /\ up \in BOOLEAN
    /\ torn \in BOOLEAN /\ misreads \in Nat
    /\ difficulty \in Int
    /\ dbHeight \in Nat
    /\ saved \in Nat \cup {Unlocked}
    /\ IsChain(blocks) /\ (up <=> blocks # <<>>)
    /\ DOMAIN peer = Peers
    /\ \A p \in Peers : IsChain(peer[p]) /\ peer[p] # <<>>
    /\ IsChain(candidate)
    /\ IsChain(forged) /\ Len(forged) <= 1
    /\ \A b \in wire : IsBlock(b)
    /\ DOMAIN dbIndex \subseteq Nat
    /\ \A i \in DOMAIN dbIndex : IsBlock(dbIndex[i]) /\ dbIndex[i].index = i

\* Whatever crash, write error or failed read of the height happens, in
\* AddBlock or half-way through ReplaceChain, LevelDB has a block under every
\* index up to the stored height: NewBlockchain can always load a chain.
NoHoles == up \/ dbHeight > 0 => 0..dbHeight \subseteq DOMAIN dbIndex

\* The chain a node serves, and the one it would load, is linked by its
\* hashes, unless a replacement stopped between two of its writes or a start
\* could not read the height of the stored chain.
LinkedUnlessTorn ==
    ~torn => Linked(blocks) /\ (MutexFree /\ dbHeight > 0 => Linked(GetAllBlocks))

\* Outside a replacement, and unless LevelDB mixes two chains, a start that can
\* read LevelDB finds exactly the chain in memory: neither a write error nor a
\* height that SaveBlock could not read (levelDB.go:90) loses a block AddBlock
\* reported as added.
Durable == up /\ MutexFree /\ ~torn => GetAllBlocks = blocks

\* Once a chain was extended, only a start changes its genesis block, and only
\* after a failed read hid the height from it (blockchain.go:525) or lowered it
\* half-way through a replacement (levelDB.go:90): no other crash or restart
\* does, and no chain that is adopted.
GenesisKeptUnlessMisread ==
    [][1 \in DOMAIN dbIndex /\ dbIndex'[0].hash # dbIndex[0].hash =>
          ~up /\ up' /\ misreads' > 0]_vars

\* While the process runs its chain never gets shorter, although the chain to
\* adopt was compared with it before ReplaceChain took the mutex.
NeverShorter ==
    [][up /\ up' => Len(blocks') >= Len(blocks)]_vars

\* block.go: PreviousHash is the "hash of the previous block in the chain".
PreviousHashIsThatOfThePrevious == Linked(blocks)

=============================================================================
