-------------------------- MODULE ChainStoreProofs --------------------------
(***************************************************************************)
(* What ChainStore guarantees for every set of peers, every bound and every*)
(* interleaving with crashes, write errors and failed reads of the height, *)
(* by one inductive invariant.                                             *)
(***************************************************************************)
EXTENDS ChainStore, SequenceTheorems, TLAPS

\* Slice position i holds the block whose Index is i - 1.
Positioned(chain) == \A i \in DOMAIN chain : chain[i].index = i - 1

AllPositioned ==
    /\ Positioned(blocks)
    /\ Positioned(candidate)
    /\ \A p \in Peers : Positioned(peer[p])

\* LevelDB holds chain, and its height names the last block of chain.
Stores(chain) ==
    /\ dbHeight = Len(chain) - 1
    /\ \A i \in 1..Len(chain) : dbIndex[i - 1] = chain[i]

\* What a replacement in progress has established.
Replacing ==
    ~MutexFree =>
        /\ up
        /\ Len(blocks) < Len(candidate)
        /\ saved <= Len(candidate)
        /\ saved <= dbHeight + 1
        /\ Linked(candidate)
        /\ \A i \in 1..saved : dbIndex[i - 1] = candidate[i]
        /\ ~torn => dbHeight < Len(candidate)

\* Every block in memory has one under its index in LevelDB.
AllStored == up => 0..(Len(blocks) - 1) \subseteq DOMAIN dbIndex

\* Memory and LevelDB agree until the first block of a replacement is saved.
StoreAgrees ==
    ~torn => /\ Linked(blocks)
             /\ up /\ saved <= 0 => Stores(blocks)
             /\ ~up /\ dbHeight > 0 => Linked(GetAllBlocks)

IInv ==
    /\ TypeOK
    /\ AllPositioned
    /\ NoHoles
    /\ AllStored
    /\ Replacing
    /\ StoreAgrees

-----------------------------------------------------------------------------
(* Blocks and chains *)

LEMMA BlockFields ==
    ASSUME NEW b, IsBlock(b)
    PROVE  /\ b.index \in Nat
           /\ b.timestamp \in Nat
           /\ b.hash = CalculateHash(b)
  BY DEF IsBlock

\* A forged block is well formed, whatever block it was forged after.
LEMMA ForgedBlock ==
    ASSUME NEW i \in Nat, NEW h, NEW t \in Nat, NEW now \in Nat,
           NEW c \in Contents \cup {NoContents}
    PROVE  LET b == ForgeBlock([NewBlock(i, h, t) EXCEPT !.contents = c], now)
           IN  IsBlock(b) /\ b.index = i
<1> DEFINE n == [NewBlock(i, h, t) EXCEPT !.contents = c]
           s == [index |-> i, previousHash |-> h, timestamp |-> now,
                 contents |-> c, hash |-> NoHash]
           f == [index |-> i, previousHash |-> h, timestamp |-> now,
                 contents |-> c, hash |-> <<i, h, now, c>>]
<1>1. [n EXCEPT !.timestamp = now] = s
  <2> DEFINE m == [index |-> i, previousHash |-> h, timestamp |-> t,
                   contents |-> c, hash |-> NoHash]
  <2>1. n = m  BY DEF NewBlock
  <2>2. [m EXCEPT !.timestamp = now] = s  OBVIOUS
  <2> QED  BY <2>1, <2>2, Zenon
<1>2. [s EXCEPT !.hash = CalculateHash(s)] = f
  BY DEF CalculateHash
<1>3. ForgeBlock(n, now) = f  BY <1>1, <1>2, Zenon DEF ForgeBlock
<1>4. f.index = i /\ f.timestamp = now /\ f.contents = c /\ f.previousHash = h
  OBVIOUS
<1>5. f.hash = CalculateHash(f)  BY DEF CalculateHash
<1>6. IsBlock(f)  BY <1>4, <1>5 DEF IsBlock
<1> QED  BY <1>3, <1>4, <1>6

LEMMA GenesisBlock ==
    ASSUME NEW now \in Nat
    PROVE  IsBlock(Genesis(now)) /\ Genesis(now).index = 0
<1>1. NewBlock(0, NoHash, now) = [NewBlock(0, NoHash, now) EXCEPT !.contents = NoContents]
  BY DEF NewBlock
<1> QED  BY <1>1, ForgedBlock DEF Genesis

LEMMA ChainLength ==
    ASSUME NEW chain, IsChain(chain)
    PROVE  /\ Len(chain) \in Nat
           /\ DOMAIN chain = 1..Len(chain)
           /\ chain # <<>> <=> Len(chain) > 0
           /\ chain = [i \in 1..Len(chain) |-> chain[i]]
  BY LenProperties DEF IsChain

\* A function on 1..n whose values are blocks is a chain of n blocks.
LEMMA FunctionIsChain ==
    ASSUME NEW n \in Nat, NEW f, f = [i \in 1..n |-> f[i]],
           \A i \in 1..n : IsBlock(f[i])
    PROVE  IsChain(f) /\ Len(f) = n
<1>1. DOMAIN f = 1..n  OBVIOUS
<1>2. f \in [1..n -> Range(f)]  BY <1>1 DEF Range
<1>3. f \in Seq(Range(f))  BY <1>2, SeqDef
<1>4. Len(f) = n  BY <1>3, <1>1, LenProperties
<1> QED  BY <1>1, <1>3, <1>4 DEF IsChain

LEMMA OneBlockChain ==
    ASSUME NEW b, IsBlock(b)
    PROVE  /\ IsChain(<<b>>) /\ Len(<<b>>) = 1 /\ <<b>>[1] = b /\ <<b>> # <<>>
           /\ DOMAIN <<b>> = {1}
  BY FunctionIsChain DEF IsChain, Range

LEMMA AppendedChain ==
    ASSUME NEW chain, IsChain(chain), NEW b, IsBlock(b)
    PROVE  /\ IsChain(Append(chain, b))
           /\ Append(chain, b) # <<>>
           /\ Len(Append(chain, b)) = Len(chain) + 1
           /\ \A i \in 1..Len(chain) : Append(chain, b)[i] = chain[i]
           /\ Append(chain, b)[Len(chain) + 1] = b
<1> DEFINE S == Range(chain) \cup {b}
<1>1. chain \in Seq(S) /\ b \in S  BY SeqMonotonic, Zenon DEF IsChain
<1>2. /\ Append(chain, b) \in Seq(S)
      /\ Append(chain, b) # <<>>
      /\ Len(Append(chain, b)) = Len(chain) + 1
      /\ \A i \in 1..Len(chain) : Append(chain, b)[i] = chain[i]
      /\ Append(chain, b)[Len(chain) + 1] = b
  BY <1>1, AppendProperties
<1>3. Append(chain, b) = [i \in 1..(Len(chain) + 1) |-> Append(chain, b)[i]]
  BY <1>2, LenProperties
<1>4. \A i \in 1..(Len(chain) + 1) : IsBlock(Append(chain, b)[i])
  <2> SUFFICES ASSUME NEW i \in 1..(Len(chain) + 1)
               PROVE  IsBlock(Append(chain, b)[i])
    OBVIOUS
  <2>1. CASE i = Len(chain) + 1  BY <2>1, <1>2
  <2>2. CASE i \in 1..Len(chain)  BY <2>2, <1>2, ChainLength DEF IsChain
  <2> QED  BY <2>1, <2>2, ChainLength
<1>5. IsChain(Append(chain, b))
  BY <1>3, <1>4, FunctionIsChain, ChainLength
<1> QED  BY <1>2, <1>5

LEMMA LastOfChain ==
    ASSUME NEW chain, IsChain(chain), chain # <<>>, Positioned(chain)
    PROVE  /\ IsBlock(LastBlock(chain))
           /\ LastBlock(chain).index = Len(chain) - 1
           /\ LastBlock(chain) = chain[Len(chain)]
<1>1. Len(chain) \in DOMAIN chain  BY ChainLength
<1> QED  BY <1>1 DEF IsChain, Positioned, LastBlock

\* The block CreateBlock and ForgeBlock make after a chain.
LEMMA ForgedAfterChain ==
    ASSUME NEW chain, IsChain(chain), chain # <<>>, Positioned(chain),
           NEW now \in Nat, NEW c \in Contents \cup {NoContents}
    PROVE  LET b == ForgeBlock([CreateBlock(chain, now) EXCEPT !.contents = c], now)
           IN  IsBlock(b) /\ b.index = Len(chain)
<1>1. LastBlock(chain).index + 1 = Len(chain) /\ Len(chain) \in Nat
  BY LastOfChain, ChainLength
<1> DEFINE n == LastBlock(chain).index + 1
           h == LastBlock(chain).hash
<1>2. CreateBlock(chain, now) = NewBlock(n, h, now)  BY DEF CreateBlock
<1>3. LET b == ForgeBlock([NewBlock(n, h, now) EXCEPT !.contents = c], now)
      IN  IsBlock(b) /\ b.index = n
  <2>1. n \in Nat  BY <1>1
  <2> HIDE DEF n, h
  <2> QED  BY <2>1, ForgedBlock
<1> QED  BY <1>1, <1>2, <1>3, Zenon

\* Appending a block with the next index keeps every block in its position.
LEMMA AppendPositioned ==
    ASSUME NEW chain, IsChain(chain), Positioned(chain),
           NEW b, IsBlock(b), b.index = Len(chain)
    PROVE  Positioned(Append(chain, b))
<1>1. DOMAIN Append(chain, b) = 1..(Len(chain) + 1)
  BY AppendedChain, ChainLength
<1> SUFFICES ASSUME NEW i \in 1..(Len(chain) + 1)
             PROVE  Append(chain, b)[i].index = i - 1
  BY <1>1 DEF Positioned
<1>2. CASE i = Len(chain) + 1  BY <1>2, AppendedChain, ChainLength
<1>3. CASE i \in 1..Len(chain)  BY <1>3, AppendedChain, ChainLength DEF Positioned
<1> QED  BY <1>2, <1>3, ChainLength

LEMMA AppendLinked ==
    ASSUME NEW chain, IsChain(chain), chain # <<>>, Linked(chain),
           NEW b, IsBlock(b), b.previousHash = LastBlock(chain).hash
    PROVE  Linked(Append(chain, b))
<1> SUFFICES ASSUME NEW i \in 2..(Len(chain) + 1)
             PROVE  Append(chain, b)[i].previousHash = Append(chain, b)[i - 1].hash
  BY AppendedChain DEF Linked
<1>1. CASE i = Len(chain) + 1
  BY <1>1, AppendedChain, ChainLength DEF LastBlock
<1>2. CASE i \in 2..Len(chain)
  BY <1>2, AppendedChain, ChainLength DEF Linked
<1> QED  BY <1>1, <1>2, ChainLength

LEMMA ValidChainIsLinked ==
    ASSUME NEW chain, NEW other, isValidChain(other, chain)
    PROVE  Linked(chain)
  BY DEF isValidChain, isBlockConsistentWithPrevious, Linked

LEMMA DifficultyType ==
    ASSUME NEW chain, IsChain(chain), NEW d \in Int
    PROVE  adjustDifficulty(chain, d) \in Int
<1>1. CASE Len(chain) < 2  BY <1>1 DEF adjustDifficulty
<1>2. CASE ~(Len(chain) < 2)
  <2>1. chain[Len(chain)].timestamp \in Nat /\ chain[Len(chain) - 1].timestamp \in Nat
    BY <1>2, ChainLength, BlockFields DEF IsChain
  <2> QED  BY <1>2, <2>1 DEF adjustDifficulty, LastBlock
<1> QED  BY <1>1, <1>2

LEMMA EmptyChain ==
    /\ IsChain(<<>>) /\ Positioned(<<>>) /\ Linked(<<>>)
    /\ Len(<<>>) = 0
  BY EmptySeq DEF IsChain, Positioned, Linked, Range

-----------------------------------------------------------------------------
(* LevelDB *)

LEMMA SaveBlockStep ==
    ASSUME TypeOK, NEW b, IsBlock(b), SaveBlock(b)
    PROVE  /\ dbHeight' \in Nat
           /\ dbHeight' = b.index \/ dbHeight' = dbHeight
           /\ b.index <= dbHeight'
           /\ DOMAIN dbIndex' = DOMAIN dbIndex \cup {b.index}
           /\ dbIndex'[b.index] = b
           /\ \A i \in (DOMAIN dbIndex) \ {b.index} : dbIndex'[i] = dbIndex[i]
           /\ DOMAIN dbIndex' \subseteq Nat
           /\ \A i \in DOMAIN dbIndex' : IsBlock(dbIndex'[i]) /\ dbIndex'[i].index = i
  BY BlockFields DEF SaveBlock, StoredWith, TypeOK

LEMMA CountMisreadType ==
    ASSUME TypeOK, NEW harmful \in BOOLEAN, CountMisread(harmful)
    PROVE  misreads' \in Nat
  BY DEF TypeOK, CountMisread

\* The chain LevelDB would load is a chain, whatever the failures before.
LEMMA LoadedChain ==
    ASSUME TypeOK, 0..dbHeight \subseteq DOMAIN dbIndex
    PROVE  /\ IsChain(GetAllBlocks)
           /\ Len(GetAllBlocks) = dbHeight + 1
           /\ Positioned(GetAllBlocks)
           /\ \A i \in 1..(dbHeight + 1) : GetAllBlocks[i] = dbIndex[i - 1]
<1> DEFINE f == GetAllBlocks
<1>1. /\ dbHeight + 1 \in Nat
      /\ f = [i \in 1..(dbHeight + 1) |-> f[i]]
      /\ \A i \in 1..(dbHeight + 1) : f[i] = dbIndex[i - 1]
  BY DEF GetAllBlocks, TypeOK
<1>2. \A i \in 1..(dbHeight + 1) : i - 1 \in DOMAIN dbIndex  BY DEF TypeOK
<1>3. \A i \in 1..(dbHeight + 1) : IsBlock(f[i]) /\ f[i].index = i - 1
  BY <1>1, <1>2 DEF TypeOK
<1>4. IsChain(f) /\ Len(f) = dbHeight + 1  BY <1>1, <1>3, FunctionIsChain
<1>5. DOMAIN f = 1..(dbHeight + 1)  BY <1>4, ChainLength
<1> QED  BY <1>1, <1>3, <1>4, <1>5 DEF Positioned

LEMMA StoredIsLinked ==
    ASSUME NEW chain, IsChain(chain), Stores(chain), Linked(chain), chain # <<>>
    PROVE  Linked(GetAllBlocks) /\ GetAllBlocks = chain
<1>1. dbHeight + 1 = Len(chain)  BY ChainLength DEF Stores
<1>2. GetAllBlocks = [i \in 1..Len(chain) |-> chain[i]]
  BY <1>1 DEF Stores, GetAllBlocks
<1>3. GetAllBlocks = chain  BY <1>2, ChainLength, Zenon
<1> QED  BY <1>3

\* A replacement that saved everything left nothing of an older chain, unless
\* TornNow says so.
LEMMA SavedIsStored ==
    ASSUME IInv, saved = Len(candidate), ~TornNow
    PROVE  Stores(candidate) /\ Linked(candidate) /\ candidate # <<>> /\ up
<1>1. ~MutexFree
  BY ChainLength DEF IInv, TypeOK, MutexFree, Unlocked
<1>2. dbHeight < Len(candidate)  BY <1>1 DEF IInv, Replacing, TornNow, TypeOK
<1>3. IsChain(candidate) /\ dbHeight \in Nat  BY DEF IInv, TypeOK
<1>4. /\ up /\ Linked(candidate)
      /\ saved <= dbHeight + 1
      /\ Len(blocks) < Len(candidate)
      /\ \A i \in 1..saved : dbIndex[i - 1] = candidate[i]
  BY <1>1 DEF IInv, Replacing
<1>5. Len(candidate) \in Nat /\ Len(blocks) \in Nat
  BY ChainLength DEF IInv, TypeOK
<1>6. dbHeight = Len(candidate) - 1  BY <1>2, <1>3, <1>4, <1>5
<1>7. candidate # <<>>  BY <1>3, <1>4, <1>5, ChainLength
<1> QED  BY <1>4, <1>6, <1>7 DEF Stores

\* What an action that leaves memory and LevelDB alone preserves.
LEMMA Frame ==
    ASSUME IInv, UNCHANGED <<up, memory, store, torn, saved>>,
           MutexFree \/ UNCHANGED candidate
    PROVE  NoHoles' /\ AllStored' /\ Replacing' /\ StoreAgrees'
  BY DEF IInv, memory, store, NoHoles, AllStored, Replacing, StoreAgrees,
         MutexFree, Unlocked, Stores, GetAllBlocks, Linked

-----------------------------------------------------------------------------
(* One lemma per action *)

LEMMA InitIInv == Init => IInv
<1> SUFFICES ASSUME Init PROVE IInv  OBVIOUS
<1> USE DEF Init
<1>1. IsChain(<<>>) /\ Positioned(<<>>) /\ Linked(<<>>) /\ Len(<<>>) = 0
  BY EmptyChain
<1>2. /\ IsBlock(Genesis(0)) /\ Genesis(0).index = 0
  BY GenesisBlock
<1>3. /\ IsChain(<<Genesis(0)>>) /\ <<Genesis(0)>> # <<>>
      /\ Positioned(<<Genesis(0)>>)
  BY <1>2, OneBlockChain DEF Positioned
<1>4. DOMAIN dbIndex = {}  OBVIOUS
<1>7. TypeOK
  <2>1. \A p \in Peers : IsChain(peer[p]) /\ peer[p] # <<>>  BY <1>3
  <2>2. DOMAIN peer = Peers  OBVIOUS
  <2>3. up \in BOOLEAN /\ torn \in BOOLEAN  BY Zenon
  <2>5. /\ clock \in Nat /\ dbHeight \in Nat
        /\ difficulty \in Int
        /\ saved \in Nat \cup {Unlocked}
    BY DEF InitialDifficulty
  <2>4. /\ IsChain(blocks) /\ IsChain(candidate) /\ IsChain(forged)
        /\ (up <=> blocks # <<>>)
        /\ Len(forged) <= 1
    BY <1>1
  <2> QED
    BY <1>4, <2>1, <2>2, <2>3, <2>4, <2>5 DEF TypeOK
<1>5. AllPositioned  BY <1>1, <1>3 DEF AllPositioned
<1>6. NoHoles /\ AllStored /\ Replacing /\ StoreAgrees
  BY <1>1, <1>4 DEF NoHoles, AllStored, Replacing, StoreAgrees, MutexFree
<1> QED  BY <1>7, <1>5, <1>6 DEF IInv

LEMMA AddBlockStep ==
    ASSUME IInv, up, MutexFree, NEW b, IsBlock(b), AddBlock(b),
           UNCHANGED <<clock, up, candidate, saved, peer, torn>>,
           IsChain(forged'), Len(forged') <= 1, \A x \in wire' : IsBlock(x)
    PROVE  IInv'
<1>1. /\ IsChain(blocks) /\ blocks # <<>> /\ Positioned(blocks)
      /\ Len(blocks) \in Nat /\ Len(blocks) > 0
  BY ChainLength DEF IInv, TypeOK, AllPositioned
<1>2. /\ b.index = Len(blocks)
      /\ b.previousHash = LastBlock(blocks).hash
  BY <1>1, LastOfChain DEF AddBlock, isValidBlock, isBlockConsistentWithPrevious
<1>3. /\ IsChain(blocks') /\ blocks' # <<>>
      /\ Len(blocks') = Len(blocks) + 1
      /\ \A i \in 1..Len(blocks) : blocks'[i] = blocks[i]
      /\ blocks'[Len(blocks) + 1] = b
  BY <1>1, AppendedChain DEF AddBlock
<1>4. Positioned(blocks')  BY <1>1, <1>2, AppendPositioned DEF AddBlock
<1>5. Linked(blocks) => Linked(blocks')  BY <1>1, <1>2, AppendLinked DEF AddBlock
<1>6. difficulty' \in Int  BY <1>3, DifficultyType DEF AddBlock, IInv, TypeOK
<1>7. /\ dbHeight' \in Nat
      /\ dbHeight' = b.index \/ dbHeight' = dbHeight
      /\ b.index <= dbHeight'
      /\ DOMAIN dbIndex' = DOMAIN dbIndex \cup {b.index}
      /\ dbIndex'[b.index] = b
      /\ \A i \in (DOMAIN dbIndex) \ {b.index} : dbIndex'[i] = dbIndex[i]
      /\ DOMAIN dbIndex' \subseteq Nat
      /\ \A i \in DOMAIN dbIndex' : IsBlock(dbIndex'[i]) /\ dbIndex'[i].index = i
  BY SaveBlockStep DEF AddBlock, IInv
<1>8. TypeOK'
  <2>1. misreads' \in Nat
    <3>1. (dbHeight' < dbHeight) \in BOOLEAN  OBVIOUS
    <3> QED  BY <3>1, CountMisreadType DEF AddBlock, IInv
  <2> QED  BY <1>3, <1>6, <1>7, <2>1 DEF IInv, TypeOK
<1>9. AllPositioned'  BY <1>4 DEF IInv, AllPositioned
<1>10. /\ 0..(Len(blocks) - 1) \subseteq DOMAIN dbIndex
       /\ 0..dbHeight \subseteq DOMAIN dbIndex
  BY DEF IInv, AllStored, NoHoles
<1>11. NoHoles' /\ AllStored'
  BY <1>1, <1>2, <1>3, <1>7, <1>10 DEF NoHoles, AllStored, IInv, TypeOK
<1>12. Replacing'  BY DEF Replacing, MutexFree
<1>13. StoreAgrees'
  <2> SUFFICES ASSUME ~torn PROVE Linked(blocks') /\ Stores(blocks)'
    BY DEF StoreAgrees
  <2>1. Linked(blocks) /\ Stores(blocks)
    BY DEF IInv, StoreAgrees, MutexFree, Unlocked
  <2>2. dbHeight' = Len(blocks') - 1
    BY <1>1, <1>2, <1>3, <1>7, <2>1 DEF Stores, IInv, TypeOK
  <2>3. ASSUME NEW i \in 1..Len(blocks') PROVE dbIndex'[i - 1] = blocks'[i]
    <3>1. CASE i = Len(blocks) + 1  BY <3>1, <1>1, <1>2, <1>3, <1>7
    <3>2. CASE i \in 1..Len(blocks)
      <4>1. i - 1 \in (DOMAIN dbIndex) \ {b.index}
        BY <3>2, <1>1, <1>2, <1>10, <2>1 DEF Stores
      <4> QED  BY <4>1, <3>2, <1>3, <1>7, <2>1 DEF Stores
    <3> QED  BY <3>1, <3>2, <1>1, <1>3
  <2> QED  BY <1>5, <2>1, <2>2, <2>3 DEF Stores
<1> QED  BY <1>8, <1>9, <1>11, <1>12, <1>13 DEF IInv

LEMMA StartStep == ASSUME IInv, Start PROVE IInv'
<1>1. /\ UNCHANGED <<clock, forged, candidate, saved, peer, wire>>
      /\ ~up /\ up' = TRUE
      /\ difficulty' = InitialDifficulty
  BY DEF Start
<1>2. up' \in BOOLEAN
  BY <1>1, Zenon
<1>3. MutexFree /\ MutexFree'  BY <1>1 DEF IInv, Replacing, MutexFree
<1>4. CASE LoadChain
  <2>0. /\ dbHeight > 0 /\ UNCHANGED <<store, history>> /\ blocks' = GetAllBlocks
        /\ 0..dbHeight \subseteq DOMAIN dbIndex
    BY <1>4 DEF LoadChain
  <2>1. /\ IsChain(blocks') /\ Positioned(blocks')
        /\ Len(blocks') = dbHeight + 1
        /\ \A i \in 1..(dbHeight + 1) : blocks'[i] = dbIndex[i - 1]
    BY <2>0, LoadedChain DEF IInv
  <2>2. blocks' # <<>>  BY <2>0, <2>1, EmptyChain DEF IInv, TypeOK
  <2>3. TypeOK'
    BY <1>1, <1>2, <2>0, <2>1, <2>2 DEF IInv, TypeOK, store, history, InitialDifficulty
  <2>4. AllPositioned'  BY <1>1, <2>1 DEF IInv, AllPositioned
  <2>5. NoHoles' /\ AllStored'
    BY <1>1, <2>0, <2>1 DEF IInv, TypeOK, NoHoles, AllStored, store
  <2>6. Stores(blocks)'
    BY <2>0, <2>1 DEF Stores, store, IInv, TypeOK
  <2>7. StoreAgrees'
    BY <1>1, <2>0, <2>6 DEF IInv, StoreAgrees, history
  <2> QED  BY <1>3, <2>3, <2>4, <2>5, <2>7 DEF IInv, Replacing
<1>5. CASE NewChain
  <2>0. /\ blocks' = <<Genesis(clock)>> /\ SaveBlock(Genesis(clock))
        /\ torn' = (dbHeight' > 0)
        /\ CountMisread(dbHeight > 0)
    BY <1>5 DEF NewChain
  <2>1. IsBlock(Genesis(clock)) /\ Genesis(clock).index = 0
    BY GenesisBlock DEF IInv, TypeOK
  <2>2. /\ IsChain(blocks') /\ blocks' # <<>> /\ Len(blocks') = 1
        /\ DOMAIN blocks' = {1} /\ blocks'[1] = Genesis(clock)
    BY <2>0, <2>1, OneBlockChain
  <2>3. Positioned(blocks') /\ Linked(blocks')
    BY <2>1, <2>2 DEF Positioned, Linked
  <2>4. /\ dbHeight' \in Nat
        /\ dbHeight' = 0 \/ dbHeight' = dbHeight
        /\ DOMAIN dbIndex' = DOMAIN dbIndex \cup {0}
        /\ dbIndex'[0] = Genesis(clock)
        /\ DOMAIN dbIndex' \subseteq Nat
        /\ \A i \in DOMAIN dbIndex' : IsBlock(dbIndex'[i]) /\ dbIndex'[i].index = i
    BY <2>0, <2>1, SaveBlockStep DEF IInv
  <2>5. TypeOK'
    <3>1. torn' \in BOOLEAN
      <4>1. (dbHeight' > 0) \in BOOLEAN  OBVIOUS
      <4> QED  BY <2>0, <4>1, Zenon
    <3>2. misreads' \in Nat
      <4>1. (dbHeight > 0) \in BOOLEAN  OBVIOUS
      <4> QED  BY <2>0, <4>1, CountMisreadType DEF IInv
    <3> QED  BY <1>1, <1>2, <2>2, <2>4, <3>1, <3>2 DEF IInv, TypeOK, InitialDifficulty
  <2>6. AllPositioned'  BY <1>1, <2>3 DEF IInv, AllPositioned
  <2>7. NoHoles' /\ AllStored'
    <3>1. dbHeight > 0 => 0..dbHeight \subseteq DOMAIN dbIndex  BY DEF IInv, NoHoles
    <3>2. dbHeight \in Nat  BY DEF IInv, TypeOK
    <3> QED  BY <1>1, <2>2, <2>4, <3>1, <3>2 DEF NoHoles, AllStored
  <2>8. StoreAgrees'
    <3> SUFFICES ASSUME ~torn' PROVE Linked(blocks') /\ Stores(blocks)'
      BY <1>1 DEF StoreAgrees
    <3>1. dbHeight' = 0
      <4>1. ~(dbHeight' > 0)  BY <2>0, Zenon
      <4> QED  BY <2>4, <4>1
    <3> QED  BY <2>2, <2>3, <2>4, <3>1 DEF Stores
  <2> QED  BY <1>3, <2>5, <2>6, <2>7, <2>8 DEF IInv, Replacing
<1> QED  BY <1>4, <1>5 DEF Start

LEMMA CrashStep == ASSUME IInv, Crash PROVE IInv'
<1> USE DEF Crash
<1>1. /\ UNCHANGED <<store, world, misreads>>
      /\ up /\ up' = FALSE
      /\ blocks' = <<>> /\ forged' = <<>> /\ candidate' = <<>>
      /\ saved' = Unlocked
      /\ difficulty' = InitialDifficulty
  OBVIOUS
<1>2. torn' = TornNow  OBVIOUS
<1>3. up' \in BOOLEAN  BY <1>1, Zenon
<1>4. torn' \in BOOLEAN
  <2>1. CASE saved = Len(candidate)
    BY <1>2, <2>1, Zenon DEF TornNow
  <2>2. CASE saved # Len(candidate)
    BY <1>2, <2>2, Zenon DEF TornNow
  <2> QED  BY <2>1, <2>2
<1>5. TypeOK'
  <2>1. saved' \in Nat \cup {Unlocked} /\ difficulty' \in Int
    BY <1>1 DEF InitialDifficulty
  <2> QED
    BY <1>1, <1>3, <1>4, <2>1, EmptyChain DEF IInv, TypeOK, store, world
<1>6. AllPositioned'
  BY <1>1, EmptyChain DEF IInv, AllPositioned, world
<1>7. NoHoles' /\ AllStored' /\ Replacing'
  BY <1>1 DEF IInv, NoHoles, AllStored, Replacing, MutexFree, store, TypeOK
<1>8. StoreAgrees'
  <2> SUFFICES ASSUME ~TornNow PROVE Linked(GetAllBlocks)
    BY <1>1, <1>2, EmptyChain DEF StoreAgrees, store, GetAllBlocks
  <2>1. CASE saved = Len(candidate)
    BY <2>1, SavedIsStored, StoredIsLinked DEF IInv, TypeOK
  <2>2. CASE saved # Len(candidate)
    <3>1. ~torn /\ ~(saved > 0)  BY <2>2 DEF TornNow
    <3>2. saved <= 0  BY <3>1 DEF IInv, TypeOK, Unlocked
    <3>3. Stores(blocks) /\ Linked(blocks)
      BY <3>1, <3>2 DEF IInv, StoreAgrees
    <3> QED  BY <3>3, StoredIsLinked DEF IInv, TypeOK
  <2> QED  BY <2>1, <2>2
<1> QED  BY <1>5, <1>6, <1>7, <1>8 DEF IInv

LEMMA ForgeStep == ASSUME IInv, Forge PROVE IInv'
<1> USE DEF Forge, history
<1>1. PICK c \in Contents :
        forged' = <<ForgeBlock([CreateBlock(blocks, clock) EXCEPT !.contents = c], clock)>>
  OBVIOUS
<1>2. IsChain(forged') /\ Len(forged') = 1
  BY <1>1, ForgedAfterChain, OneBlockChain DEF IInv, TypeOK, AllPositioned
<1>3. TypeOK'  BY <1>2 DEF IInv, TypeOK, memory, store, world, history
<1>4. AllPositioned'  BY DEF IInv, AllPositioned, memory, world, history
<1> QED  BY <1>3, <1>4, Frame DEF IInv

LEMMA AddForgedStep == ASSUME IInv, AddForged PROVE IInv'
<1> USE DEF AddForged, history
<1>1. IsChain(forged) /\ forged # <<>>  BY DEF IInv, TypeOK
<1>2. IsBlock(forged[1])
  <2>1. 1 \in DOMAIN forged  BY <1>1, ChainLength
  <2> QED  BY <1>1, <2>1 DEF IsChain
<1>3. IsChain(forged') /\ Len(forged') <= 1  BY EmptyChain
<1>4. \A x \in wire' : IsBlock(x)  BY <1>2 DEF IInv, TypeOK
<1> QED  BY <1>2, <1>3, <1>4, AddBlockStep

LEMMA ReceiveBlockStep == ASSUME IInv, ReceiveBlock PROVE IInv'
<1>1. PICK b \in wire : AddBlock(b)  BY DEF ReceiveBlock
<1>2. IsBlock(b)  BY DEF IInv, TypeOK
<1>3. /\ up /\ MutexFree
      /\ UNCHANGED <<clock, up, forged, candidate, saved, peer, wire, torn>>
  BY DEF ReceiveBlock, world, history
<1>4. /\ IsChain(forged') /\ Len(forged') <= 1
      /\ \A x \in wire' : IsBlock(x)
  BY <1>3 DEF IInv, TypeOK
<1> QED  BY <1>1, <1>2, <1>3, <1>4, AddBlockStep

LEMMA DropForgedStep == ASSUME IInv, DropForged PROVE IInv'
<1> USE DEF DropForged, history
<1>1. TypeOK'  BY EmptyChain DEF IInv, TypeOK, memory, store, world, history
<1>2. AllPositioned'  BY DEF IInv, AllPositioned, memory, world, history
<1> QED  BY <1>1, <1>2, Frame DEF IInv

LEMMA FetchChainStep == ASSUME IInv, FetchChain PROVE IInv'
<1> USE DEF FetchChain, history
<1>1. PICK p \in Peers : candidate' = peer[p]  OBVIOUS
<1>2. TypeOK'  BY <1>1 DEF IInv, TypeOK, memory, store, world, history
<1>3. AllPositioned'  BY <1>1 DEF IInv, AllPositioned, memory, world, history
<1>4. MutexFree
  BY EmptyChain, ChainLength DEF IInv, Replacing, TypeOK
<1> QED  BY <1>2, <1>3, <1>4, Frame DEF IInv

LEMMA RefuseReplaceStep == ASSUME IInv, RefuseReplace PROVE IInv'
<1> USE DEF RefuseReplace, history
<1>1. TypeOK'  BY EmptyChain DEF IInv, TypeOK, memory, store, world, history
<1>2. AllPositioned'  BY EmptyChain DEF IInv, AllPositioned, memory, world, history
<1> QED  BY <1>1, <1>2, Frame DEF IInv

LEMMA BeginReplaceStep == ASSUME IInv, BeginReplace PROVE IInv'
<1> USE DEF BeginReplace, history
<1>1. TypeOK'  BY DEF IInv, TypeOK, memory, store, world, history
<1>2. AllPositioned'  BY DEF IInv, AllPositioned, memory, world, history
<1>3. NoHoles' /\ AllStored'
  BY DEF IInv, NoHoles, AllStored, memory, store
<1>4. Len(candidate) \in Nat /\ Len(blocks) \in Nat /\ dbHeight \in Nat
  BY ChainLength DEF IInv, TypeOK
<1>5. ~torn => Stores(blocks)
  BY DEF IInv, StoreAgrees, MutexFree, Unlocked
<1>6. Replacing'
  BY <1>4, <1>5, ValidChainIsLinked DEF Replacing, Stores, memory, store, Linked
<1>7. StoreAgrees'
  BY <1>5 DEF IInv, StoreAgrees, Stores, memory, store, Linked, GetAllBlocks
<1> QED  BY <1>1, <1>2, <1>3, <1>6, <1>7 DEF IInv

LEMMA SuccessorsOrdered == \A m, n \in Nat : m <= n => m + 1 <= n + 1
  OBVIOUS

LEMMA SaveNextStep == ASSUME IInv, SaveNext PROVE IInv'
<1> USE DEF SaveNext
<1> DEFINE b == candidate[saved + 1]
<1>1. /\ up /\ up' = up /\ ~MutexFree
      /\ UNCHANGED <<blocks, difficulty, forged, candidate, clock, peer, wire, torn>>
      /\ saved' = saved + 1 /\ saved < Len(candidate)
  BY DEF memory, world
<1>2. saved \in Nat /\ Len(candidate) \in Nat /\ Len(blocks) \in Nat /\ dbHeight \in Nat
  BY <1>1, ChainLength DEF IInv, TypeOK, MutexFree
<1>3. IsBlock(b) /\ b.index = saved
  <2>1. saved + 1 \in DOMAIN candidate
    BY <1>1, <1>2, ChainLength DEF IInv, TypeOK
  <2> QED  BY <1>2, <2>1 DEF IInv, TypeOK, IsChain, AllPositioned, Positioned
<1>4. /\ dbHeight' \in Nat
      /\ dbHeight' = saved \/ dbHeight' = dbHeight
      /\ saved <= dbHeight'
      /\ DOMAIN dbIndex' = DOMAIN dbIndex \cup {saved}
      /\ dbIndex'[saved] = b
      /\ \A i \in (DOMAIN dbIndex) \ {saved} : dbIndex'[i] = dbIndex[i]
      /\ DOMAIN dbIndex' \subseteq Nat
      /\ \A i \in DOMAIN dbIndex' : IsBlock(dbIndex'[i]) /\ dbIndex'[i].index = i
  <2>1. TypeOK /\ SaveBlock(b)  BY DEF IInv
  <2> HIDE DEF b, SaveNext
  <2> QED  BY <1>3, <2>1, SaveBlockStep
<1>5. /\ saved <= dbHeight + 1
      /\ 0..dbHeight \subseteq DOMAIN dbIndex
      /\ 0..(Len(blocks) - 1) \subseteq DOMAIN dbIndex
      /\ \A i \in 1..saved : dbIndex[i - 1] = candidate[i]
      /\ Linked(candidate) /\ Len(blocks) < Len(candidate)
      /\ ~torn => dbHeight < Len(candidate)
  BY <1>1 DEF IInv, Replacing, NoHoles, AllStored
<1>6. TypeOK'
  <2>1. misreads' \in Nat
    <3>1. (dbHeight' < dbHeight) \in BOOLEAN  OBVIOUS
    <3> QED  BY <3>1, CountMisreadType DEF IInv
  <2> QED  BY <1>1, <1>2, <1>4, <2>1 DEF IInv, TypeOK
<1>7. AllPositioned'  BY <1>1 DEF IInv, AllPositioned
<1>8. NoHoles' /\ AllStored'
  BY <1>1, <1>2, <1>4, <1>5 DEF IInv, NoHoles, AllStored
<1>9. \A i \in 1..saved' : dbIndex'[i - 1] = candidate[i]
  <2> SUFFICES ASSUME NEW i \in 1..saved' PROVE dbIndex'[i - 1] = candidate[i]
    OBVIOUS
  <2>1. CASE i = saved + 1  BY <2>1, <1>2, <1>4
  <2>2. CASE i \in 1..saved
    <3>1. i - 1 \in (DOMAIN dbIndex) \ {saved}  BY <2>2, <1>2, <1>5
    <3> QED  BY <3>1, <2>2, <1>4, <1>5
  <2> QED  BY <2>1, <2>2, <1>1, <1>2
<1>10. Replacing'
  <2>1. saved' <= Len(candidate) /\ saved' <= dbHeight' + 1
    <3>1. dbHeight' \in Nat /\ saved <= dbHeight'  BY <1>4
    <3>2. saved' = saved + 1 /\ saved < Len(candidate)  BY <1>1
    <3>3. saved + 1 <= Len(candidate)  BY <1>2, <3>2
    <3>4. saved + 1 <= dbHeight' + 1  BY <1>2, <3>1, SuccessorsOrdered, Zenon
    <3> QED  BY <3>2, <3>3, <3>4, Zenon
  <2>2. ~torn => dbHeight' < Len(candidate)
    BY <1>1, <1>2, <1>4, <1>5
  <2> QED  BY <1>1, <1>5, <1>9, <2>1, <2>2 DEF Replacing, Linked
<1>11. StoreAgrees'
  BY <1>1, <1>2 DEF IInv, StoreAgrees, Linked
<1> QED  BY <1>6, <1>7, <1>8, <1>10, <1>11 DEF IInv

LEMMA TornNowType == ASSUME IInv PROVE TornNow \in BOOLEAN
<1>1. CASE saved = Len(candidate)  BY <1>1, Zenon DEF TornNow
<1>2. CASE saved # Len(candidate)  BY <1>2, Zenon DEF TornNow
<1> QED  BY <1>1, <1>2

LEMMA EndReplaceStep == ASSUME IInv, EndReplace PROVE IInv'
<1> USE DEF EndReplace
<1>1. /\ ~MutexFree /\ saved = Len(candidate) /\ up /\ up' = up
      /\ blocks' = candidate /\ candidate' = <<>> /\ saved' = Unlocked
      /\ UNCHANGED <<difficulty, store, forged, world, misreads>>
      /\ torn' = TornNow
  OBVIOUS
<1>2. Len(candidate) \in Nat /\ Len(blocks) \in Nat /\ dbHeight \in Nat
  BY ChainLength DEF IInv, TypeOK
<1>3. Len(blocks) < Len(candidate) /\ saved <= dbHeight + 1
  BY <1>1 DEF IInv, Replacing
<1>4. candidate # <<>>  BY <1>2, <1>3, EmptyChain
<1>5. TypeOK'
  BY <1>1, <1>4, EmptyChain, TornNowType DEF IInv, TypeOK, store, world
<1>6. AllPositioned'  BY <1>1, EmptyChain DEF IInv, AllPositioned, world
<1>7. NoHoles' /\ AllStored'
  BY <1>1, <1>2, <1>3 DEF IInv, NoHoles, AllStored, store
<1>8. Replacing'  BY <1>1 DEF Replacing, MutexFree
<1>9. StoreAgrees'
  <2>1. ~TornNow => Stores(candidate) /\ Linked(candidate)
    BY <1>1, SavedIsStored
  <2> QED  BY <1>1, <2>1 DEF StoreAgrees, Stores, store, Linked
<1> QED  BY <1>5, <1>6, <1>7, <1>8, <1>9 DEF IInv

LEMMA SaveFailsStep == ASSUME IInv, SaveFails PROVE IInv'
<1> USE DEF SaveFails
<1>1. /\ ~MutexFree /\ saved < Len(candidate) /\ up /\ up' = up
      /\ candidate' = <<>> /\ saved' = Unlocked
      /\ UNCHANGED <<memory, store, forged, world, misreads>>
      /\ torn' = TornNow
  OBVIOUS
<1>2. TypeOK'
  BY <1>1, EmptyChain, TornNowType DEF IInv, TypeOK, memory, store, world, history
<1>3. AllPositioned'  BY <1>1, EmptyChain DEF IInv, AllPositioned, memory, world, history
<1>4. NoHoles' /\ AllStored'
  BY <1>1 DEF IInv, NoHoles, AllStored, memory, store
<1>5. Replacing'  BY <1>1 DEF Replacing, MutexFree
<1>6. Len(candidate) \in Nat /\ saved \in Nat
  BY <1>1, ChainLength DEF IInv, TypeOK, MutexFree
<1>7. ~TornNow => ~torn /\ saved <= 0
  <2>1. saved # Len(candidate)  BY <1>1, <1>6
  <2>2. ~TornNow => ~torn /\ ~(saved > 0)  BY <2>1 DEF TornNow
  <2> QED  BY <2>2, <1>6
<1>8. StoreAgrees'
  BY <1>1, <1>7 DEF IInv, StoreAgrees, Stores, memory, store, Linked, GetAllBlocks
<1> QED  BY <1>2, <1>3, <1>4, <1>5, <1>8 DEF IInv

LEMMA TickStep == ASSUME IInv, Tick PROVE IInv'
<1> USE DEF Tick, history
<1>1. clock' \in Nat  BY BoundsAssumption DEF IInv, TypeOK
<1>2. TypeOK'  BY <1>1 DEF IInv, TypeOK, memory, store, history
<1>3. AllPositioned'  BY DEF IInv, AllPositioned, memory
<1> QED  BY <1>2, <1>3, Frame DEF IInv

\* A peer whose chain stays well formed changes nothing of the node.
LEMMA PeerStep ==
    ASSUME IInv, NEW p \in Peers, NEW chain,
           IsChain(chain), chain # <<>>, Positioned(chain),
           peer' = [peer EXCEPT ![p] = chain],
           \A b \in wire' : IsBlock(b),
           UNCHANGED <<clock, up, memory, store, forged, candidate, saved, history>>
    PROVE  IInv'
<1> USE DEF history
<1>1. \A q \in Peers : peer'[q] = IF q = p THEN chain ELSE peer[q]
  BY DEF IInv, TypeOK
<1>2. DOMAIN peer' = Peers  BY DEF IInv, TypeOK
<1>3. TypeOK'  BY <1>1, <1>2 DEF IInv, TypeOK, memory, store, history
<1>4. AllPositioned'  BY <1>1 DEF IInv, AllPositioned, memory
<1> QED  BY <1>3, <1>4, Frame DEF IInv

LEMMA PeerForgesStep ==
    ASSUME IInv, NEW p \in Peers, PeerForges(p) PROVE IInv'
<1>1. PICK c \in Contents :
        LET b == ForgeBlock([CreateBlock(peer[p], clock) EXCEPT !.contents = c], clock)
        IN  peer' = [peer EXCEPT ![p] = Append(@, b)] /\ wire' = wire \cup {b}
  BY DEF PeerForges
<1> DEFINE b == ForgeBlock([CreateBlock(peer[p], clock) EXCEPT !.contents = c], clock)
<1>2. IsChain(peer[p]) /\ peer[p] # <<>> /\ Positioned(peer[p]) /\ clock \in Nat
  BY DEF IInv, TypeOK, AllPositioned
<1>3. IsBlock(b) /\ b.index = Len(peer[p])  BY <1>2, ForgedAfterChain
<1> HIDE DEF b
<1>4. /\ IsChain(Append(peer[p], b)) /\ Append(peer[p], b) # <<>>
      /\ Positioned(Append(peer[p], b))
  BY <1>2, <1>3, AppendedChain, AppendPositioned
<1>5. peer' = [peer EXCEPT ![p] = Append(peer[p], b)] /\ wire' = wire \cup {b}
  BY <1>1 DEF b
<1>6. \A x \in wire' : IsBlock(x)  BY <1>3, <1>5 DEF IInv, TypeOK
<1> QED  BY <1>4, <1>5, <1>6, PeerStep DEF PeerForges, history

LEMMA PeerReceivesStep ==
    ASSUME IInv, NEW p \in Peers, PeerReceives(p) PROVE IInv'
<1>1. PICK b \in wire : /\ isValidBlock(peer[p], b)
                        /\ peer' = [peer EXCEPT ![p] = Append(peer[p], b)]
  BY DEF PeerReceives
<1>2. IsChain(peer[p]) /\ peer[p] # <<>> /\ Positioned(peer[p]) /\ IsBlock(b)
  BY DEF IInv, TypeOK, AllPositioned
<1>3. b.index = Len(peer[p])
  BY <1>1, <1>2, LastOfChain, ChainLength DEF isValidBlock, isBlockConsistentWithPrevious
<1>4. /\ IsChain(Append(peer[p], b)) /\ Append(peer[p], b) # <<>>
      /\ Positioned(Append(peer[p], b))
  BY <1>2, <1>3, AppendedChain, AppendPositioned
<1>5. /\ UNCHANGED <<clock, up, memory, store, forged, candidate, saved, history>>
      /\ \A x \in wire' : IsBlock(x)
  BY DEF PeerReceives, IInv, TypeOK
<1> QED  BY <1>1, <1>4, <1>5, PeerStep

LEMMA PeerReplacesStep ==
    ASSUME IInv, NEW p \in Peers, PeerReplaces(p) PROVE IInv'
<1>1. IsChain(blocks) /\ blocks # <<>> /\ Positioned(blocks)
  BY DEF PeerReplaces, IInv, TypeOK, AllPositioned
<1>2. /\ UNCHANGED <<clock, up, memory, store, forged, candidate, saved, history>>
      /\ peer' = [peer EXCEPT ![p] = blocks]
      /\ \A x \in wire' : IsBlock(x)
  BY DEF PeerReplaces, IInv, TypeOK
<1> QED  BY <1>1, <1>2, PeerStep

LEMMA UnchangedStep == ASSUME IInv, UNCHANGED vars PROVE IInv'
<1> USE DEF vars
<1>1. TypeOK'  BY DEF IInv, TypeOK
<1>2. AllPositioned'  BY DEF IInv, AllPositioned
<1> QED  BY <1>1, <1>2, Frame DEF IInv, memory, store

\* Every step of Next, and every stuttering step, preserves the invariant.
LEMMA NextIInv == IInv /\ [Next]_vars => IInv'
<1> SUFFICES ASSUME IInv, [Next]_vars PROVE IInv'  OBVIOUS
<1>1. CASE Start  BY <1>1, StartStep
<1>2. CASE Crash  BY <1>2, CrashStep
<1>3. CASE Forge  BY <1>3, ForgeStep
<1>4. CASE AddForged  BY <1>4, AddForgedStep
<1>5. CASE DropForged  BY <1>5, DropForgedStep
<1>6. CASE ReceiveBlock  BY <1>6, ReceiveBlockStep
<1>7. CASE FetchChain  BY <1>7, FetchChainStep
<1>8. CASE FetchPanics  BY <1>8, CrashStep DEF FetchPanics
<1>9. CASE BeginReplace  BY <1>9, BeginReplaceStep
<1>10. CASE RefuseReplace  BY <1>10, RefuseReplaceStep
<1>11. CASE SaveNext  BY <1>11, SaveNextStep
<1>12. CASE EndReplace  BY <1>12, EndReplaceStep
<1>13. CASE SaveFails  BY <1>13, SaveFailsStep
<1>14. CASE Tick  BY <1>14, TickStep
<1>15. ASSUME NEW p \in Peers, PeerForges(p) \/ PeerReceives(p) \/ PeerReplaces(p)
       PROVE  IInv'
  BY <1>15, PeerForgesStep, PeerReceivesStep, PeerReplacesStep
<1>16. CASE UNCHANGED vars  BY <1>16, UnchangedStep
<1> QED
  BY <1>1, <1>2, <1>3, <1>4, <1>5, <1>6, <1>7, <1>8, <1>9, <1>10, <1>11,
     <1>12, <1>13, <1>14, <1>15, <1>16 DEF Next

THEOREM Invariance == Spec => []IInv
  BY InitIInv, NextIInv, PTL DEF Spec

-----------------------------------------------------------------------------
(* The genesis block *)

\* Memory, LevelDB and a chain being adopted begin with the same block.
SameGenesis ==
    up => /\ dbIndex[0].hash = blocks[1].hash
          /\ ~MutexFree => candidate[1].hash = blocks[1].hash

\* Only an extended chain has a block under index 1, and only a failed read of
\* the height can bring it back to 0 after that.
LoweredByMisread == 1 \in DOMAIN dbIndex => dbHeight > 0 \/ misreads > 0

GenesisKept ==
    1 \in DOMAIN dbIndex /\ dbIndex'[0].hash # dbIndex[0].hash => ~up /\ up' /\ misreads' > 0

\* A block under index 1 is saved after the height has left 0.
LEMMA NextLowered == IInv /\ LoweredByMisread /\ [Next]_vars => LoweredByMisread'
<1> SUFFICES ASSUME IInv, LoweredByMisread, [Next]_vars PROVE LoweredByMisread'  OBVIOUS
<1> USE DEF LoweredByMisread
<1>1. dbHeight \in Nat /\ misreads \in Nat  BY DEF IInv, TypeOK
<1>2. ASSUME NEW b, IsBlock(b), SaveBlock(b), CountMisread(dbHeight' < dbHeight)
      PROVE  LoweredByMisread'
  <2>1. /\ DOMAIN dbIndex' = DOMAIN dbIndex \cup {b.index}
        /\ dbHeight' \in Nat /\ b.index <= dbHeight' /\ b.index \in Nat
    BY <1>2, SaveBlockStep, BlockFields DEF IInv
  <2>2. CASE dbHeight' > 0  BY <2>2
  <2>3. CASE ~(dbHeight' > 0)
    <3>1. dbHeight' = 0 /\ b.index = 0  BY <2>1, <2>3
    <3>2. 1 \in DOMAIN dbIndex' => 1 \in DOMAIN dbIndex  BY <2>1, <3>1
    <3>3. misreads' = (IF dbHeight' < dbHeight THEN misreads + 1 ELSE misreads)
      BY <1>2 DEF CountMisread
    <3> QED  BY <1>1, <3>1, <3>2, <3>3
  <2> QED  BY <2>2, <2>3
<1>3. CASE Start
  <2>1. CASE LoadChain  BY <2>1 DEF LoadChain, store, history
  <2>2. CASE NewChain
    <3>1. IsBlock(Genesis(clock)) /\ Genesis(clock).index = 0
      BY GenesisBlock DEF IInv, TypeOK
    <3>2. DOMAIN dbIndex' = DOMAIN dbIndex \cup {0}
      BY <2>2, <3>1, SaveBlockStep DEF NewChain, IInv
    <3>3. misreads' = IF dbHeight > 0 THEN misreads + 1 ELSE misreads
      BY <2>2 DEF NewChain, CountMisread
    <3> QED  BY <1>1, <3>2, <3>3
  <2> QED  BY <1>3, <2>1, <2>2 DEF Start
<1>4. CASE AddForged
  <2>1. IsChain(forged) /\ forged # <<>>  BY <1>4 DEF AddForged, IInv, TypeOK
  <2>2. IsBlock(forged[1])  BY <2>1, ChainLength DEF IsChain
  <2> QED  BY <1>2, <1>4, <2>2 DEF AddForged, AddBlock
<1>5. CASE ReceiveBlock
  <2>1. PICK b \in wire : AddBlock(b)  BY <1>5 DEF ReceiveBlock
  <2>2. IsBlock(b)  BY DEF IInv, TypeOK
  <2> QED  BY <1>2, <2>1, <2>2 DEF AddBlock
<1>6. CASE SaveNext
  <2>1. /\ ~MutexFree /\ saved < Len(candidate) /\ SaveBlock(candidate[saved + 1])
        /\ CountMisread(dbHeight' < dbHeight)
    BY <1>6 DEF SaveNext
  <2>2. saved + 1 \in DOMAIN candidate
    BY <2>1, ChainLength DEF IInv, TypeOK, MutexFree
  <2>3. IsBlock(candidate[saved + 1])  BY <2>2 DEF IInv, TypeOK, IsChain
  <2> QED  BY <1>2, <2>1, <2>3
<1>7. CASE ~(Start \/ AddForged \/ ReceiveBlock \/ SaveNext)
  <2>1. UNCHANGED <<store, misreads>>
    BY <1>7 DEF Next, vars, Crash, FetchPanics, Forge, DropForged, FetchChain,
       BeginReplace, RefuseReplace, EndReplace, SaveFails, Tick, PeerForges,
       PeerReceives, PeerReplaces, store, history
  <2> QED  BY <2>1 DEF store
<1> QED  BY <1>3, <1>4, <1>5, <1>6, <1>7

\* Adding a block leaves position 0 alone.
LEMMA AddBlockGenesis ==
    ASSUME IInv, SameGenesis, up, MutexFree, NEW b, IsBlock(b), AddBlock(b),
           UNCHANGED <<up, saved>>
    PROVE  SameGenesis' /\ GenesisKept
<1>1. /\ IsChain(blocks) /\ blocks # <<>> /\ Positioned(blocks)
      /\ Len(blocks) \in Nat /\ Len(blocks) > 0
  BY ChainLength DEF IInv, TypeOK, AllPositioned
<1>2. b.index = Len(blocks)
  BY <1>1, LastOfChain DEF AddBlock, isValidBlock, isBlockConsistentWithPrevious
<1>3. blocks'[1] = blocks[1]  BY <1>1, AppendedChain DEF AddBlock
<1>4. 0 \in (DOMAIN dbIndex) \ {b.index}
  BY <1>1, <1>2 DEF IInv, NoHoles, TypeOK
<1>5. dbIndex'[0] = dbIndex[0]  BY <1>4, SaveBlockStep DEF AddBlock, IInv
<1> QED  BY <1>3, <1>5 DEF SameGenesis, GenesisKept, MutexFree

LEMMA NextGenesis ==
    IInv /\ SameGenesis /\ LoweredByMisread /\ [Next]_vars => SameGenesis' /\ GenesisKept
<1> SUFFICES ASSUME IInv, SameGenesis, LoweredByMisread, [Next]_vars
             PROVE  SameGenesis' /\ GenesisKept
  OBVIOUS
<1> USE DEF SameGenesis, GenesisKept
<1>1. CASE Start
  <2>1. CASE LoadChain
    <3>1. /\ blocks'[1] = dbIndex[0] /\ UNCHANGED store
      BY <2>1 DEF LoadChain, GetAllBlocks, IInv, TypeOK
    <3>2. MutexFree'  BY <1>1 DEF Start, IInv, Replacing, MutexFree
    <3> QED  BY <3>1, <3>2 DEF store
  <2>2. CASE NewChain
    <3>1. IsBlock(Genesis(clock)) /\ Genesis(clock).index = 0
      BY GenesisBlock DEF IInv, TypeOK
    <3>2. dbIndex'[0] = Genesis(clock)
      BY <2>2, <3>1, SaveBlockStep DEF NewChain, IInv
    <3>3. MutexFree'  BY <1>1 DEF Start, IInv, Replacing, MutexFree
    <3>4. blocks'[1] = Genesis(clock)  BY <2>2 DEF NewChain
    <3>5. 1 \in DOMAIN dbIndex => misreads' > 0
      BY <2>2 DEF NewChain, CountMisread, LoweredByMisread, IInv, TypeOK
    <3> QED  BY <1>1, <3>2, <3>3, <3>4, <3>5 DEF Start
  <2> QED  BY <1>1, <2>1, <2>2 DEF Start
<1>2. CASE Crash \/ FetchPanics
  BY <1>2 DEF Crash, FetchPanics, store
<1>3. CASE AddForged
  <2>1. IsBlock(forged[1])
    <3>1. IsChain(forged) /\ forged # <<>>  BY <1>3 DEF AddForged, IInv, TypeOK
    <3>2. 1 \in DOMAIN forged  BY <3>1, ChainLength
    <3> QED  BY <3>1, <3>2 DEF IsChain
  <2> QED  BY <1>3, <2>1, AddBlockGenesis DEF AddForged
<1>4. CASE ReceiveBlock
  <2>1. PICK b \in wire : AddBlock(b)  BY <1>4 DEF ReceiveBlock
  <2>2. IsBlock(b)  BY DEF IInv, TypeOK
  <2> QED  BY <1>4, <2>1, <2>2, AddBlockGenesis DEF ReceiveBlock
<1>5. CASE BeginReplace
  BY <1>5 DEF BeginReplace, isValidChain, memory, store
<1>6. CASE SaveNext
  <2>1. /\ ~MutexFree /\ up /\ UNCHANGED <<up, blocks, candidate>>
        /\ saved < Len(candidate) /\ SaveBlock(candidate[saved + 1])
    BY <1>6 DEF SaveNext, memory
  <2>2. saved \in Nat /\ Len(candidate) \in Nat
    BY <2>1, ChainLength DEF IInv, TypeOK, MutexFree
  <2>3. IsBlock(candidate[saved + 1]) /\ candidate[saved + 1].index = saved
    <3>1. saved + 1 \in DOMAIN candidate
      BY <2>1, <2>2, ChainLength DEF IInv, TypeOK
    <3> QED  BY <2>2, <3>1 DEF IInv, TypeOK, IsChain, AllPositioned, Positioned
  <2>4. 0 \in DOMAIN dbIndex  BY <2>1 DEF IInv, NoHoles, TypeOK
  <2>5. dbIndex'[0].hash = blocks[1].hash
    <3> DEFINE b == candidate[saved + 1]
    <3>1. /\ dbIndex'[b.index] = b
          /\ \A i \in (DOMAIN dbIndex) \ {b.index} : dbIndex'[i] = dbIndex[i]
      BY <2>1, <2>3, SaveBlockStep DEF IInv
    <3>2. CASE saved = 0
      <4>1. b = candidate[1]  BY <3>2
      <4>2. dbIndex'[0] = candidate[1]  BY <2>3, <3>1, <3>2, <4>1
      <4> QED  BY <2>1, <4>2
    <3>3. CASE saved # 0
      <4>1. 0 \in (DOMAIN dbIndex) \ {b.index}  BY <2>3, <2>4, <3>3
      <4>2. dbIndex'[0] = dbIndex[0]  BY <3>1, <4>1
      <4> QED  BY <2>1, <4>2
    <3> QED  BY <3>2, <3>3
  <2> QED  BY <2>1, <2>5
<1>7. CASE EndReplace
  BY <1>7 DEF EndReplace, store, MutexFree
<1>8. CASE Forge \/ DropForged \/ FetchChain \/ RefuseReplace \/ SaveFails
  <2>1. UNCHANGED <<up, blocks, store>>
    BY <1>8 DEF Forge, DropForged, FetchChain, RefuseReplace, SaveFails, memory
  <2>2. ~MutexFree' => UNCHANGED candidate /\ ~MutexFree
    <3>1. CASE FetchChain
      BY <3>1, EmptyChain, ChainLength DEF FetchChain, IInv, Replacing, TypeOK, MutexFree
    <3>2. CASE Forge \/ DropForged \/ RefuseReplace \/ SaveFails
      BY <3>2 DEF Forge, DropForged, RefuseReplace, SaveFails, MutexFree
    <3> QED  BY <1>8, <3>1, <3>2
  <2> QED  BY <2>1, <2>2 DEF store
<1>9. CASE Tick  BY <1>9 DEF Tick, memory, store, MutexFree
<1>10. ASSUME NEW p \in Peers, PeerForges(p) \/ PeerReceives(p) \/ PeerReplaces(p)
       PROVE  SameGenesis' /\ GenesisKept
  BY <1>10 DEF PeerForges, PeerReceives, PeerReplaces, memory, store, MutexFree
<1>11. CASE UNCHANGED vars  BY <1>11 DEF vars, MutexFree
<1> QED
  BY <1>1, <1>2, <1>3, <1>4, <1>5, <1>6, <1>7, <1>8, <1>9, <1>10, <1>11 DEF Next

-----------------------------------------------------------------------------
(* The theorems *)

\* Every block the node holds, stores, sends or adopts is well formed.
THEOREM TypeCorrect == Spec => []TypeOK
<1>1. IInv => TypeOK  BY DEF IInv
<1> QED  BY Invariance, <1>1, PTL

\* NewBlockchain can load a chain after any crash, write error or failed read of
\* the height in AddBlock or ReplaceChain.
THEOREM AlwaysLoadable == Spec => []NoHoles
<1>1. IInv => NoHoles  BY DEF IInv
<1> QED  BY Invariance, <1>1, PTL

\* No block is added or adopted without the one its PreviousHash names, and
\* only a replacement that stopped between two writes, or a start that could not
\* read the height, can break a stored chain.
THEOREM AlwaysLinked == Spec => []LinkedUnlessTorn
<1>1. ASSUME IInv, ~torn, MutexFree, dbHeight > 0 PROVE Linked(GetAllBlocks)
  <2>1. CASE ~up  BY <1>1, <2>1 DEF IInv, StoreAgrees
  <2>2. CASE up
    BY <1>1, <2>2, StoredIsLinked DEF IInv, StoreAgrees, TypeOK, MutexFree, Unlocked
  <2> QED  BY <2>1, <2>2
<1>2. IInv => LinkedUnlessTorn  BY <1>1 DEF IInv, StoreAgrees, LinkedUnlessTorn
<1> QED  BY Invariance, <1>2, PTL

\* A block AddBlock has reported as added is in LevelDB, within its height.
THEOREM AlwaysDurable == Spec => []Durable
<1>1. ASSUME IInv, up, ~torn, MutexFree PROVE GetAllBlocks = blocks
  BY <1>1, StoredIsLinked DEF IInv, StoreAgrees, TypeOK, MutexFree, Unlocked
<1>2. IInv => Durable  BY <1>1 DEF IInv, Durable
<1> QED  BY Invariance, <1>2, PTL

\* A chain that has grown past its genesis block keeps it, unless a start comes
\* after a failed read that hid or lowered the height.
THEOREM GenesisNeverChanges == Spec => GenesisKeptUnlessMisread
<1>1. Init => SameGenesis /\ LoweredByMisread
  <2>1. Init => SameGenesis  BY Zenon DEF Init, SameGenesis
  <2>2. Init => LoweredByMisread  BY DEF Init, LoweredByMisread
  <2> QED  BY <2>1, <2>2
<1>2. GenesisKept => [1 \in DOMAIN dbIndex /\ dbIndex'[0].hash # dbIndex[0].hash =>
                          ~up /\ up' /\ misreads' > 0]_vars
  BY DEF GenesisKept
<1> QED
  BY Invariance, NextGenesis, NextLowered, <1>1, <1>2, PTL
     DEF Spec, GenesisKeptUnlessMisread

\* The recheck under the mutex keeps a stale candidate from shortening the chain.
THEOREM ChainNeverShorter == Spec => NeverShorter
<1>1. ASSUME IInv, [Next]_vars
      PROVE  [up /\ up' => Len(blocks') >= Len(blocks)]_vars
  <2> SUFFICES ASSUME up, up', Next PROVE Len(blocks') >= Len(blocks)
    BY <1>1
  <2>1. IsChain(blocks) /\ Len(blocks) \in Nat  BY <1>1, ChainLength DEF IInv, TypeOK
  <2>2. ASSUME NEW b, IsBlock(b), AddBlock(b) PROVE Len(blocks') >= Len(blocks)
    BY <2>1, <2>2, AppendedChain DEF AddBlock
  <2>3. CASE AddForged
    <3>1. IsChain(forged) /\ forged # <<>>  BY <1>1, <2>3 DEF AddForged, IInv, TypeOK
    <3>2. IsBlock(forged[1])  BY <3>1, ChainLength DEF IsChain
    <3> QED  BY <2>2, <2>3, <3>2 DEF AddForged
  <2>4. CASE ReceiveBlock  BY <1>1, <2>2, <2>4 DEF ReceiveBlock, IInv, TypeOK
  <2>5. CASE EndReplace
    <3>1. Len(blocks) < Len(candidate) /\ blocks' = candidate
      BY <1>1, <2>5 DEF EndReplace, IInv, Replacing
    <3>2. Len(candidate) \in Nat  BY <1>1, ChainLength DEF IInv, TypeOK
    <3> QED  BY <2>1, <3>1, <3>2
  <2>6. CASE ~(AddForged \/ ReceiveBlock \/ EndReplace)
    <3>1. UNCHANGED blocks
      BY <2>6 DEF Next, Start, Crash, FetchPanics, Forge, DropForged, FetchChain,
         BeginReplace, RefuseReplace, SaveNext, SaveFails, Tick, PeerForges,
         PeerReceives, PeerReplaces, memory
    <3> QED  BY <2>1, <3>1
  <2> QED  BY <2>3, <2>4, <2>5, <2>6
<1> QED  BY Invariance, <1>1, PTL DEF Spec, NeverShorter

=============================================================================
