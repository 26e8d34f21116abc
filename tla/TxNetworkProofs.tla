--------------------------- MODULE TxNetworkProofs ---------------------------
(***************************************************************************)
(* For any number of nodes, items and blocks: two chains that hold the     *)
(* same block agree up to it, and before a downloaded chain is adopted an  *)
(* accepted item is lost only to another one of its ID.                    *)
(***************************************************************************)
EXTENDS TxNetwork, SequenceTheorems, TLAPS

\* The mempools and what is on its way.
PoolsInv ==
    /\ clock \in Nat
    /\ mempool \in [Nodes -> SUBSET Items]
    /\ accepted \in [Nodes -> SUBSET Items]
    /\ replaced \in [Nodes -> BOOLEAN]
    /\ posts \subseteq Items \X Nodes
    /\ \A n \in Nodes : \A i, j \in mempool[n] : i.id = j.id => i = j

\* The blocks on their way.
BlocksInv ==
    /\ \A b \in wire : IsBlock(b)
    /\ DOMAIN batch = Nodes
    /\ \A n \in Nodes : IsChain(batch[n]) /\ Len(batch[n]) <= 1

\* The chains.  Linked is what makes CommonPrefix inductive: a block
\* appended to one chain can be in another one only after the same block.
ChainsInv ==
    /\ DOMAIN chain = Nodes
    /\ \A n \in Nodes : IsChain(chain[n]) /\ chain[n] # <<>> /\ Linked(chain[n])
    /\ CommonPrefix

IInv == PoolsInv /\ BlocksInv /\ ChainsInv

LEMMA TypeFromInvariant == ASSUME IInv PROVE TypeOK
  BY DEF IInv, PoolsInv, BlocksInv, ChainsInv, TypeOK

-----------------------------------------------------------------------------
(* Blocks and chains *)

\* A forged block is well formed, whatever block it was forged after.
LEMMA ForgedBlock ==
    ASSUME NEW i \in Nat, NEW h, NEW t \in Nat, NEW now \in Nat,
           NEW c \in Contents \cup {NoContents}
    PROVE  LET b == ForgeBlock([NewBlock(i, h, t) EXCEPT !.contents = c], now)
           IN  IsBlock(b) /\ b.contents = c
<1> DEFINE n == [NewBlock(i, h, t) EXCEPT !.contents = c]
           s == [index |-> i, previousHash |-> h, timestamp |-> now,
                 contents |-> c, hash |-> NoHash]
           f == [index |-> i, previousHash |-> h, timestamp |-> now,
                 contents |-> c, hash |-> <<i, h, now, c>>]
<1>1. [n EXCEPT !.timestamp = now] = s
  <2> DEFINE m == [index |-> i, previousHash |-> h, timestamp |-> t,
                   contents |-> c, hash |-> NoHash]
  <2>1. n = m  BY DEF NewBlock
  <2>2. [m EXCEPT !.timestamp = now] = s  OBVIOUS
  <2> QED  BY <2>1, <2>2, Zenon
<1>2. [s EXCEPT !.hash = CalculateHash(s)] = f
  BY DEF CalculateHash
<1>3. ForgeBlock(n, now) = f  BY <1>1, <1>2, Zenon DEF ForgeBlock
<1>4. f.index = i /\ f.timestamp = now /\ f.contents = c /\ f.previousHash = h
  OBVIOUS
<1>5. f.hash = CalculateHash(f)  BY DEF CalculateHash
<1>6. IsBlock(f)  BY <1>4, <1>5 DEF IsBlock
<1> QED  BY <1>3, <1>4, <1>6

LEMMA ChainLength ==
    ASSUME NEW c, IsChain(c)
    PROVE  /\ Len(c) \in Nat
           /\ DOMAIN c = 1..Len(c)
           /\ c # <<>> <=> Len(c) > 0
           /\ c = [i \in 1..Len(c) |-> c[i]]
  BY LenProperties DEF IsChain

LEMMA ForgedAfterChain ==
    ASSUME NEW c, IsChain(c), c # <<>>, NEW now \in Nat,
           NEW items \in Contents \cup {NoContents}
    PROVE  LET b == ForgeBlock([CreateBlock(c, now) EXCEPT !.contents = items], now)
           IN  IsBlock(b) /\ b.contents = items
<1> DEFINE n == LastBlock(c).index + 1
           h == LastBlock(c).hash
<1>1. n \in Nat
  <2>1. Len(c) \in DOMAIN c  BY ChainLength
  <2> QED  BY <2>1 DEF IsChain, IsBlock, LastBlock
<1>2. CreateBlock(c, now) = NewBlock(n, h, now)  BY DEF CreateBlock
<1> HIDE DEF n, h
<1> DEFINE f == ForgeBlock([NewBlock(n, h, now) EXCEPT !.contents = items], now)
<1>3. IsBlock(f) /\ f.contents = items
  BY <1>1, ForgedBlock
<1> QED  BY <1>2, <1>3, Zenon

LEMMA GenesisBlock == IsBlock(Genesis(0))
<1>1. NewBlock(0, NoHash, 0) = [NewBlock(0, NoHash, 0) EXCEPT !.contents = NoContents]
  BY DEF NewBlock
<1> QED  BY <1>1, ForgedBlock DEF Genesis

\* A function on 1..n whose values are blocks is a chain of n blocks.
LEMMA FunctionIsChain ==
    ASSUME NEW n \in Nat, NEW f, f = [i \in 1..n |-> f[i]],
           \A i \in 1..n : IsBlock(f[i])
    PROVE  IsChain(f) /\ Len(f) = n
<1>1. DOMAIN f = 1..n  OBVIOUS
<1>2. f \in [1..n -> Range(f)]  BY <1>1 DEF Range
<1>3. f \in Seq(Range(f))  BY <1>2, SeqDef
<1>4. Len(f) = n  BY <1>3, <1>1, LenProperties
<1> QED  BY <1>1, <1>3, <1>4 DEF IsChain

LEMMA OneBlockChain ==
    ASSUME NEW b, IsBlock(b)
    PROVE  /\ IsChain(<<b>>) /\ Len(<<b>>) = 1 /\ <<b>>[1] = b /\ <<b>> # <<>>
           /\ DOMAIN <<b>> = {1}
  BY FunctionIsChain DEF IsChain, Range

LEMMA AppendedChain ==
    ASSUME NEW c, IsChain(c), NEW b, IsBlock(b)
    PROVE  /\ IsChain(Append(c, b))
           /\ Append(c, b) # <<>>
           /\ Len(Append(c, b)) = Len(c) + 1
           /\ \A i \in 1..Len(c) : Append(c, b)[i] = c[i]
           /\ Append(c, b)[Len(c) + 1] = b
<1> DEFINE S == Range(c) \cup {b}
<1>1. c \in Seq(S) /\ b \in S  BY SeqMonotonic, Zenon DEF IsChain
<1>2. /\ Append(c, b) \in Seq(S)
      /\ Append(c, b) # <<>>
      /\ Len(Append(c, b)) = Len(c) + 1
      /\ \A i \in 1..Len(c) : Append(c, b)[i] = c[i]
      /\ Append(c, b)[Len(c) + 1] = b
  BY <1>1, AppendProperties
<1>3. Append(c, b) = [i \in 1..(Len(c) + 1) |-> Append(c, b)[i]]
  BY <1>2, LenProperties
<1>4. \A i \in 1..(Len(c) + 1) : IsBlock(Append(c, b)[i])
  <2> SUFFICES ASSUME NEW i \in 1..(Len(c) + 1)
               PROVE  IsBlock(Append(c, b)[i])
    OBVIOUS
  <2>1. CASE i = Len(c) + 1  BY <2>1, <1>2
  <2>2. CASE i \in 1..Len(c)  BY <2>2, <1>2, ChainLength DEF IsChain
  <2> QED  BY <2>1, <2>2, ChainLength
<1>5. IsChain(Append(c, b))
  BY <1>3, <1>4, FunctionIsChain, ChainLength
<1> QED  BY <1>2, <1>5

LEMMA EmptyChain == IsChain(<<>>) /\ Len(<<>>) = 0
  BY EmptySeq DEF IsChain, Range

LEMMA AppendLinked ==
    ASSUME NEW c, IsChain(c), c # <<>>, Linked(c),
           NEW b, IsBlock(b), b.previousHash = LastBlock(c).hash
    PROVE  Linked(Append(c, b))
<1> SUFFICES ASSUME NEW i \in 2..(Len(c) + 1)
             PROVE  Append(c, b)[i].previousHash = Append(c, b)[i - 1].hash
  BY AppendedChain DEF Linked
<1>1. CASE i = Len(c) + 1
  BY <1>1, AppendedChain, ChainLength DEF LastBlock
<1>2. CASE i \in 2..Len(c)
  BY <1>2, AppendedChain, ChainLength DEF Linked
<1> QED  BY <1>1, <1>2, ChainLength

\* The hash determines the block: it is the tuple of its fields.
LEMMA SameHashSameBlock ==
    ASSUME NEW b, NEW c, IsBlock(b), IsBlock(c), b.hash = c.hash
    PROVE  b = c
<1>1. /\ b.index = c.index /\ b.previousHash = c.previousHash
      /\ b.timestamp = c.timestamp /\ b.contents = c.contents
  BY DEF IsBlock, CalculateHash
<1> QED  BY <1>1, Zenon DEF IsBlock

LEMMA AgreeSymmetric ==
    ASSUME NEW c, NEW d, IsChain(c), IsChain(d), Agree(c, d)
    PROVE  Agree(d, c)
<1> SUFFICES ASSUME NEW i \in 1..Len(d), i <= Len(c), d[i].hash = c[i].hash,
                    NEW j \in 1..i
             PROVE  d[j] = c[j]
  BY DEF Agree
<1>1. i \in 1..Len(c)  BY ChainLength
<1> QED  BY <1>1, ChainLength DEF Agree

\* A block appended after the block its PreviousHash names keeps agreement
\* with every linked chain.
LEMMA AgreeAppend ==
    ASSUME NEW c, NEW d, IsChain(c), IsChain(d), Agree(c, d), Linked(d),
           c # <<>>, NEW b, IsBlock(b), b.previousHash = LastBlock(c).hash
    PROVE  Agree(Append(c, b), d)
<1> DEFINE e == Append(c, b)
           n == Len(c)
<1>1. n \in Nat /\ n > 0 /\ Len(d) \in Nat  BY ChainLength
<1>2. /\ Len(e) = n + 1
      /\ \A i \in 1..n : e[i] = c[i]
      /\ e[n + 1] = b
  BY AppendedChain
<1> HIDE DEF e
<1> SUFFICES ASSUME NEW i \in 1..(n + 1), i <= Len(d), e[i].hash = d[i].hash,
                    NEW j \in 1..i
             PROVE  e[j] = d[j]
  BY <1>2 DEF Agree, e
<1>3. CASE i \in 1..n
  BY <1>1, <1>2, <1>3 DEF Agree
<1>4. CASE i = n + 1
  <2>1. IsBlock(d[i])  BY <1>1, ChainLength DEF IsChain
  <2>2. d[i] = b  BY <1>2, <1>4, <2>1, SameHashSameBlock
  <2>3. d[i].previousHash = d[n].hash  BY <1>1, <1>4 DEF Linked
  <2>4. c[n].hash = d[n].hash  BY <2>2, <2>3 DEF LastBlock
  <2>5. \A k \in 1..n : c[k] = d[k]  BY <1>1, <1>4, <2>4 DEF Agree
  <2>6. CASE j = n + 1  BY <1>2, <1>4, <2>2, <2>6
  <2>7. CASE j \in 1..n  BY <1>2, <2>5, <2>7
  <2> QED  BY <1>1, <1>4, <2>6, <2>7
<1> QED  BY <1>1, <1>3, <1>4

LEMMA AgreeWithItself == ASSUME NEW c PROVE Agree(c, c)
  BY DEF Agree

-----------------------------------------------------------------------------
(* The mempool *)

\* What AcceptItem does to a mempool keeps one item under an ID.
LEMMA AcceptKeepsPools ==
    ASSUME PoolsInv, NEW n \in Nodes, NEW item \in Items, AcceptItem(n, item)
    PROVE  /\ mempool' \in [Nodes -> SUBSET Items]
           /\ accepted' \in [Nodes -> SUBSET Items]
           /\ \A m \in Nodes : \A i, j \in mempool'[m] : i.id = j.id => i = j
<1>1. AddItem(mempool[n], item) \in SUBSET Items
  BY DEF AddItem, PoolsInv
<1>2. \A i, j \in AddItem(mempool[n], item) : i.id = j.id => i = j
  BY DEF AddItem, PoolsInv
<1>3. mempool' = [mempool EXCEPT ![n] = AddItem(mempool[n], item)]
  BY DEF AcceptItem
<1> QED  BY <1>1, <1>2, <1>3 DEF AcceptItem, PoolsInv

\* What RemoveProcessedItems does to a mempool keeps one item under an ID.
LEMMA RemoveKeepsPools ==
    ASSUME PoolsInv, NEW n \in Nodes, NEW items,
           mempool' = [mempool EXCEPT ![n] = RemoveProcessedItems(mempool[n], items)]
    PROVE  /\ mempool' \in [Nodes -> SUBSET Items]
           /\ \A m \in Nodes : \A i, j \in mempool'[m] : i.id = j.id => i = j
<1>1. RemoveProcessedItems(mempool[n], items) \subseteq mempool[n]
  BY DEF RemoveProcessedItems
<1> QED  BY <1>1 DEF PoolsInv

-----------------------------------------------------------------------------
(* The chains *)

\* One chain is replaced by one that agrees with all of them.
LEMMA ReplaceOneChain ==
    ASSUME ChainsInv, NEW n \in Nodes, NEW c,
           IsChain(c), c # <<>>, Linked(c),
           \A m \in Nodes : Agree(c, chain[m]),
           chain' = [chain EXCEPT ![n] = c]
    PROVE  ChainsInv'
<1>1. /\ DOMAIN chain' = Nodes
      /\ chain'[n] = c
      /\ \A m \in Nodes \ {n} : chain'[m] = chain[m]
  BY DEF ChainsInv
<1>2. \A m \in Nodes : IsChain(chain'[m]) /\ chain'[m] # <<>> /\ Linked(chain'[m])
  BY <1>1 DEF ChainsInv
<1>3. ASSUME NEW k \in Nodes, NEW m \in Nodes
      PROVE  Agree(chain'[k], chain'[m])
  <2>1. CASE k = n /\ m = n  BY <1>1, <2>1, AgreeWithItself
  <2>2. CASE k = n /\ m # n  BY <1>1, <2>2
  <2>3. CASE k # n /\ m = n
    <3>1. Agree(c, chain[k]) /\ IsChain(chain[k])  BY DEF ChainsInv
    <3>2. Agree(chain[k], c)  BY <3>1, AgreeSymmetric
    <3> QED  BY <1>1, <2>3, <3>2
  <2>4. CASE k # n /\ m # n  BY <1>1, <2>4 DEF ChainsInv, CommonPrefix
  <2> QED  BY <2>1, <2>2, <2>3, <2>4
<1> QED  BY <1>1, <1>2, <1>3 DEF ChainsInv, CommonPrefix

\* AddBlock of a valid block.
LEMMA AppendOneBlock ==
    ASSUME ChainsInv, NEW n \in Nodes, NEW b, IsBlock(b), isValidBlock(chain[n], b),
           chain' = [chain EXCEPT ![n] = Append(chain[n], b)]
    PROVE  ChainsInv'
<1> DEFINE c == chain[n]
<1>1. IsChain(c) /\ c # <<>> /\ Linked(c)  BY DEF ChainsInv
<1>2. b.previousHash = LastBlock(c).hash
  BY DEF isValidBlock, isBlockConsistentWithPrevious
<1>3. IsChain(Append(c, b)) /\ Append(c, b) # <<>>  BY <1>1, AppendedChain
<1>4. Linked(Append(c, b))  BY <1>1, <1>2, AppendLinked
<1>5. ASSUME NEW m \in Nodes PROVE Agree(Append(c, b), chain[m])
  <2>1. Agree(c, chain[m]) /\ IsChain(chain[m]) /\ Linked(chain[m])
    BY DEF ChainsInv, CommonPrefix
  <2> QED  BY <1>1, <1>2, <2>1, AgreeAppend
<1> HIDE DEF c
<1>6. chain' = [chain EXCEPT ![n] = Append(c, b)]  BY DEF c
<1> QED  BY <1>3, <1>4, <1>5, <1>6, ReplaceOneChain

-----------------------------------------------------------------------------
(* Every step keeps the invariant. *)

LEMMA InitEstablishes == ASSUME Init PROVE IInv
<1>1. IsBlock(Genesis(0))  BY GenesisBlock
<1> DEFINE g == Genesis(0)
<1> HIDE DEF g
<1>2. IsChain(<<g>>) /\ <<g>> # <<>> /\ Linked(<<g>>)
  BY <1>1, OneBlockChain DEF g, Linked
<1>3. ChainsInv
  <2>1. chain = [n \in Nodes |-> <<g>>]  BY DEF Init, g
  <2> QED  BY <1>2, <2>1, AgreeWithItself DEF ChainsInv, CommonPrefix
<1>4. BlocksInv  BY EmptyChain DEF Init, BlocksInv
<1>5. PoolsInv  BY DEF Init, PoolsInv
<1> QED  BY <1>3, <1>4, <1>5 DEF IInv

LEMMA SameChains ==
    ASSUME ChainsInv, UNCHANGED chain PROVE ChainsInv'
  BY DEF ChainsInv, CommonPrefix

LEMMA SameBlocks ==
    ASSUME BlocksInv, UNCHANGED <<batch, wire>> PROVE BlocksInv'
  BY DEF BlocksInv

LEMMA SamePools ==
    ASSUME PoolsInv, UNCHANGED <<clock, mempool, accepted, replaced, posts>> PROVE PoolsInv'
  BY DEF PoolsInv

\* The three handlers that accept an item.
LEMMA AcceptStep ==
    ASSUME IInv, NEW n \in Nodes, Submit(n) \/ SubmitBatch(n) \/ DeliverPost(n)
    PROVE  IInv'
<1>1. PICK item \in Items :
         /\ AcceptItem(n, item)
         /\ posts' \in {posts, posts \cup SendToKnown(n, item),
                        (posts \ {<<item, n>>}) \cup SendToKnown(n, item)}
  BY ClientsAssumption DEF Submit, SubmitBatch, DeliverPost
<1>2. UNCHANGED <<clock, chain, batch, wire, replaced>>
  BY DEF Submit, SubmitBatch, DeliverPost
<1>3. SendToKnown(n, item) \subseteq Items \X Nodes
  BY KnownAssumption DEF SendToKnown
<1>4. PoolsInv  BY DEF IInv
<1>5. posts' \subseteq Items \X Nodes  BY <1>1, <1>3, <1>4 DEF PoolsInv
<1>6. /\ mempool' \in [Nodes -> SUBSET Items]
      /\ accepted' \in [Nodes -> SUBSET Items]
      /\ \A m \in Nodes : \A i, j \in mempool'[m] : i.id = j.id => i = j
  BY <1>1, <1>4, AcceptKeepsPools
<1>7. PoolsInv'  BY <1>2, <1>4, <1>5, <1>6 DEF PoolsInv
<1> QED  BY <1>2, <1>7, SameChains, SameBlocks DEF IInv

LEMMA LosePostStep == ASSUME IInv, LosePost PROVE IInv'
<1>1. PoolsInv'  BY DEF IInv, PoolsInv, LosePost
<1> QED  BY <1>1, SameChains, SameBlocks DEF IInv, LosePost

LEMMA ReceiveBlockStep == ASSUME IInv, NEW n \in Nodes, ReceiveBlock(n) PROVE IInv'
<1>1. PICK b \in wire :
         isValidBlock(chain[n], b) /\ chain' = [chain EXCEPT ![n] = Append(chain[n], b)]
  BY DEF ReceiveBlock
<1>2. IsBlock(b)  BY DEF IInv, BlocksInv
<1>3. ChainsInv'  BY <1>1, <1>2, AppendOneBlock DEF IInv
<1> QED  BY <1>3, SameBlocks, SamePools DEF IInv, ReceiveBlock

\* Pending items are the contents of a block.
LEMMA PendingContents ==
    ASSUME IInv, NEW n \in Nodes, NEW items \in PendingItems(mempool[n])
    PROVE  items \in Contents \cup {NoContents}
<1>1. items \in SUBSET mempool[n]  BY DEF PendingItems
<1>2. mempool[n] \in SUBSET Items  BY DEF IInv, PoolsInv
<1>3. items \in SUBSET Items  BY <1>1, <1>2
<1>4. items = {} \/ items \in (SUBSET Items) \ {{}}  BY <1>3, Zenon
<1> QED  BY <1>4, ItemsAssumption, Zenon

LEMMA ForgeStep == ASSUME IInv, NEW n \in Nodes, Forge(n) PROVE IInv'
<1>1. PICK items \in PendingItems(mempool[n]) :
         batch' = [batch EXCEPT ![n] =
             <<ForgeBlock([CreateBlock(chain[n], clock) EXCEPT !.contents = items], clock)>>]
  BY DEF Forge
<1> DEFINE b == ForgeBlock([CreateBlock(chain[n], clock) EXCEPT !.contents = items], clock)
<1>2. items \in Contents \cup {NoContents}  BY PendingContents
<1>3. IsChain(chain[n]) /\ chain[n] # <<>> /\ clock \in Nat
  BY DEF IInv, ChainsInv, PoolsInv
<1>4. IsBlock(b)  BY <1>2, <1>3, ForgedAfterChain
<1>5. batch' = [batch EXCEPT ![n] = <<b>>]  BY <1>1
<1> HIDE DEF b
<1>6. IsChain(<<b>>) /\ Len(<<b>>) = 1  BY <1>4, OneBlockChain
<1>7. wire' = wire  BY DEF Forge
<1>8. BlocksInv'
  <2>1. DOMAIN batch' = Nodes  BY <1>5 DEF IInv, BlocksInv
  <2>2. \A m \in Nodes : batch'[m] = <<b>> \/ batch'[m] = batch[m]
    BY <1>5 DEF IInv, BlocksInv
  <2>3. \A m \in Nodes : IsChain(batch'[m]) /\ Len(batch'[m]) <= 1
    <3> SUFFICES ASSUME NEW m \in Nodes
                 PROVE  IsChain(batch'[m]) /\ Len(batch'[m]) <= 1
      OBVIOUS
    <3>1. CASE batch'[m] = <<b>>  BY <1>6, <3>1
    <3>2. CASE batch'[m] = batch[m]  BY <3>2 DEF IInv, BlocksInv
    <3> QED  BY <2>2, <3>1, <3>2
  <2> QED  BY <1>7, <2>1, <2>3 DEF IInv, BlocksInv
<1> QED  BY <1>8, SameChains, SamePools DEF IInv, Forge

\* What a block of a batch is.
LEMMA BatchBlock ==
    ASSUME BlocksInv, NEW n \in Nodes, batch[n] # <<>>
    PROVE  IsBlock(batch[n][1])
<1>1. IsChain(batch[n])  BY DEF BlocksInv
<1>2. 1 \in DOMAIN batch[n]  BY <1>1, ChainLength
<1> QED  BY <1>1, <1>2 DEF IsChain

LEMMA AddBatchStep == ASSUME IInv, NEW n \in Nodes, AddBatch(n) PROVE IInv'
<1> DEFINE b == batch[n][1]
<1>1. IsBlock(b)  BY BatchBlock DEF AddBatch, IInv
<1>2. /\ batch' = [batch EXCEPT ![n] = <<>>]
      /\ UNCHANGED <<clock, posts, accepted, replaced>>
  BY DEF AddBatch
<1>3. ASSUME wire' \subseteq wire \cup {b} PROVE BlocksInv'
  BY <1>1, <1>2, <1>3, EmptyChain DEF IInv, BlocksInv
<1>4. CASE Refused(n)
  BY <1>2, <1>3, <1>4, SameChains, SamePools DEF IInv, Refused
<1>5. CASE Added(n)
  <2>1. /\ isValidBlock(chain[n], b)
        /\ chain' = [chain EXCEPT ![n] = Append(chain[n], b)]
        /\ mempool' = [mempool EXCEPT ![n] = RemoveProcessedItems(mempool[n], b.contents)]
        /\ wire' = wire \cup {b}
    BY <1>5 DEF Added
  <2>2. ChainsInv'  BY <1>1, <2>1, AppendOneBlock DEF IInv
  <2>3. /\ mempool' \in [Nodes -> SUBSET Items]
        /\ \A m \in Nodes : \A i, j \in mempool'[m] : i.id = j.id => i = j
    BY <2>1, RemoveKeepsPools DEF IInv
  <2>4. PoolsInv'  BY <1>2, <2>3 DEF IInv, PoolsInv
  <2> QED  BY <1>3, <2>1, <2>2, <2>4 DEF IInv
<1> QED  BY <1>4, <1>5 DEF AddBatch

LEMMA AdoptChainStep ==
    ASSUME IInv, NEW n \in Nodes, NEW m \in Known[n], AdoptChain(n, m)
    PROVE  IInv'
<1>1. m \in Nodes  BY KnownAssumption
<1>2. ChainsInv'
  <2> DEFINE c == chain[m]
  <2>1. /\ IsChain(c) /\ c # <<>> /\ Linked(c)
        /\ \A k \in Nodes : Agree(c, chain[k])
    BY <1>1 DEF IInv, ChainsInv, CommonPrefix
  <2>2. chain' = [chain EXCEPT ![n] = c]  BY DEF AdoptChain
  <2> HIDE DEF c
  <2> QED  BY <2>1, <2>2, ReplaceOneChain DEF IInv
<1>3. PoolsInv'  BY DEF IInv, PoolsInv, AdoptChain
<1> QED  BY <1>2, <1>3, SameBlocks DEF IInv, AdoptChain

LEMMA TickStep == ASSUME IInv, Tick PROVE IInv'
<1>1. PoolsInv'  BY DEF IInv, PoolsInv, Tick
<1> QED  BY <1>1, SameChains, SameBlocks DEF IInv, Tick

LEMMA StepKeeps == ASSUME IInv, [Next]_vars PROVE IInv'
<1>1. CASE UNCHANGED vars
  BY <1>1, SameChains, SameBlocks, SamePools DEF IInv, vars
<1>2. CASE Next
  BY <1>2, AcceptStep, ReceiveBlockStep, ForgeStep, AddBatchStep, AdoptChainStep,
     LosePostStep, TickStep DEF Next
<1> QED  BY <1>1, <1>2

\* The inductive invariant holds in every reachable state.
THEOREM Invariance == Spec => []IInv
  BY InitEstablishes, StepKeeps, PTL DEF Spec

\* Every variable has its type and a mempool holds one item under an ID.
THEOREM TypeCorrect == Spec => []TypeOK
  BY Invariance, TypeFromInvariant, PTL

\* Chains that hold the same block hold the same blocks before it, whatever is
\* forged, received, refused and adopted, and in whatever order.
THEOREM ForksNeverMerge == Spec => []CommonPrefix
<1>1. IInv => CommonPrefix  BY DEF IInv, ChainsInv
<1> QED  BY <1>1, Invariance, PTL

-----------------------------------------------------------------------------
(* Accepted items.  What a node removes from its mempool after adding its own *)
(* block is covered by the items of that block, which it had accepted itself: *)
(* OnlyAccepted says so, and AcceptedIsNotLost is inductive beside it.        *)

BatchAccepted(items, b) == b # <<>> => b[1].contents \subseteq items

OnlyAccepted ==
    \A n \in Nodes :
        mempool[n] \subseteq accepted[n] /\ BatchAccepted(accepted[n], batch[n])

\* Under the ID of every item of the first set, one of them is in the pool or
\* in the chain.
Kept(items, pool, c) ==
    \A item \in items : \E other \in items \cap (pool \cup Processed(c)) : other.id = item.id

LEMMA KeptIsNotLost ==
    AcceptedIsNotLost
    <=> \A n \in Nodes : ~replaced[n] => Kept(accepted[n], mempool[n], chain[n])
  BY DEF AcceptedIsNotLost, Kept

LEMMA KeptIsNotLostNext ==
    AcceptedIsNotLost'
    <=> \A n \in Nodes : ~replaced'[n] => Kept(accepted'[n], mempool'[n], chain'[n])
  BY DEF AcceptedIsNotLost, Kept

\* Appending a block adds its items to those of the chain.
LEMMA AppendedIsProcessed ==
    ASSUME NEW c, IsChain(c), c # <<>>, NEW b, IsBlock(b)
    PROVE  /\ Processed(c) \subseteq Processed(Append(c, b))
           /\ b.contents \subseteq Processed(Append(c, b))
<1> DEFINE e == Append(c, b)
<1>1. /\ Len(c) \in Nat /\ Len(c) > 0
      /\ Len(e) = Len(c) + 1
      /\ \A i \in 1..Len(c) : e[i] = c[i]
      /\ e[Len(c) + 1] = b
  BY AppendedChain, ChainLength
<1> HIDE DEF e
<1>2. ASSUME NEW x \in Processed(c) PROVE x \in Processed(e)
  <2>1. PICK i \in 2..Len(c) : x \in c[i].contents  BY DEF Processed
  <2>2. i \in 2..Len(e) /\ e[i] = c[i]  BY <1>1
  <2> QED  BY <2>1, <2>2 DEF Processed
<1>3. ASSUME NEW x \in b.contents PROVE x \in Processed(e)
  <2>1. Len(c) + 1 \in 2..Len(e)  BY <1>1
  <2> QED  BY <1>1, <1>3, <2>1 DEF Processed
<1> QED  BY <1>2, <1>3 DEF e

\* An accepted item takes the place of the pending one under its ID.
LEMMA AddItemKeeps ==
    ASSUME NEW items, NEW pool, NEW c, NEW item, Kept(items, pool, c)
    PROVE  Kept(items \cup {item}, AddItem(pool, item), c)
<1> DEFINE all == items \cup {item}
           rest == AddItem(pool, item)
<1> SUFFICES ASSUME NEW i \in all
             PROVE  \E other \in all \cap (rest \cup Processed(c)) : other.id = i.id
  BY DEF Kept
<1>1. CASE i.id = item.id
  <2>1. item \in all \cap (rest \cup Processed(c))  BY DEF AddItem
  <2> QED  BY <1>1, <2>1, Zenon
<1>2. CASE i.id # item.id
  <2>1. i \in items  BY <1>2
  <2>2. PICK other \in items \cap (pool \cup Processed(c)) : other.id = i.id
    BY <2>1 DEF Kept
  <2>3. other \in all \cap (rest \cup Processed(c))  BY <1>2, <2>2 DEF AddItem
  <2> QED  BY <2>2, <2>3, Zenon
<1> QED  BY <1>1, <1>2

\* Adding one's own block: what leaves the pool has the ID of an accepted item
\* that is in the chain from now on.
LEMMA RemoveKeeps ==
    ASSUME NEW items, NEW pool, NEW c, NEW d, NEW done,
           Kept(items, pool, c), Processed(c) \subseteq Processed(d),
           done \subseteq items, done \subseteq Processed(d)
    PROVE  Kept(items, RemoveProcessedItems(pool, done), d)
<1> DEFINE rest == RemoveProcessedItems(pool, done)
<1> SUFFICES ASSUME NEW i \in items
             PROVE  \E other \in items \cap (rest \cup Processed(d)) : other.id = i.id
  BY DEF Kept
<1>1. PICK other \in items \cap (pool \cup Processed(c)) : other.id = i.id
  BY DEF Kept
<1>2. CASE other.id \in IdsOf(done)
  <2>1. PICK x \in done : x.id = other.id  BY <1>2, Zenon DEF IdsOf
  <2>2. x \in items \cap (rest \cup Processed(d))  BY <2>1
  <2> QED  BY <1>1, <2>1, <2>2, Zenon
<1>3. CASE other.id \notin IdsOf(done)
  <2>1. other \in items \cap (rest \cup Processed(d))
    BY <1>1, <1>3 DEF RemoveProcessedItems
  <2> QED  BY <1>1, <2>1, Zenon
<1> QED  BY <1>2, <1>3

LEMMA LongerChainKeeps ==
    ASSUME NEW items, NEW pool, NEW c, NEW d,
           Kept(items, pool, c), Processed(c) \subseteq Processed(d)
    PROVE  Kept(items, pool, d)
  BY DEF Kept

\* A handler accepts an item.
LEMMA AcceptLosesNothing ==
    ASSUME IInv, OnlyAccepted, AcceptedIsNotLost,
           NEW n \in Nodes, Submit(n) \/ SubmitBatch(n) \/ DeliverPost(n)
    PROVE  OnlyAccepted' /\ AcceptedIsNotLost'
<1>1. PICK item \in Items : AcceptItem(n, item)
  BY ClientsAssumption DEF Submit, SubmitBatch, DeliverPost
<1>2. UNCHANGED <<chain, batch, replaced>>
  BY DEF Submit, SubmitBatch, DeliverPost
<1>3. /\ mempool'[n] = AddItem(mempool[n], item)
      /\ accepted'[n] = accepted[n] \cup {item}
      /\ \A m \in Nodes \ {n} : mempool'[m] = mempool[m] /\ accepted'[m] = accepted[m]
  BY <1>1 DEF AcceptItem, IInv, PoolsInv
<1>4. OnlyAccepted'
  BY <1>2, <1>3 DEF OnlyAccepted, BatchAccepted, AddItem
<1>5. ASSUME NEW m \in Nodes, ~replaced'[m]
      PROVE  Kept(accepted'[m], mempool'[m], chain'[m])
  <2>1. Kept(accepted[m], mempool[m], chain[m])  BY <1>2, <1>5, KeptIsNotLost
  <2>2. CASE m # n  BY <1>2, <1>3, <2>1, <2>2
  <2>3. CASE m = n  BY <1>2, <1>3, <2>1, <2>3, AddItemKeeps
  <2> QED  BY <2>2, <2>3
<1> QED  BY <1>4, <1>5, KeptIsNotLostNext

\* Another node's block is appended; the mempool is left alone.
LEMMA ReceiveLosesNothing ==
    ASSUME IInv, OnlyAccepted, AcceptedIsNotLost, NEW n \in Nodes, ReceiveBlock(n)
    PROVE  OnlyAccepted' /\ AcceptedIsNotLost'
<1>1. PICK b \in wire : chain' = [chain EXCEPT ![n] = Append(chain[n], b)]
  BY DEF ReceiveBlock
<1>2. UNCHANGED <<mempool, batch, accepted, replaced>>  BY DEF ReceiveBlock
<1>3. /\ chain'[n] = Append(chain[n], b)
      /\ \A m \in Nodes \ {n} : chain'[m] = chain[m]
  BY <1>1 DEF IInv, ChainsInv
<1>4. Processed(chain[n]) \subseteq Processed(chain'[n])
  BY <1>3, AppendedIsProcessed DEF IInv, ChainsInv, BlocksInv
<1>5. ASSUME NEW m \in Nodes, ~replaced'[m]
      PROVE  Kept(accepted'[m], mempool'[m], chain'[m])
  <2>1. Kept(accepted[m], mempool[m], chain[m])  BY <1>2, <1>5, KeptIsNotLost
  <2>2. CASE m # n  BY <1>2, <1>3, <2>1, <2>2
  <2>3. CASE m = n  BY <1>2, <1>4, <2>1, <2>3, LongerChainKeeps
  <2> QED  BY <2>2, <2>3
<1> QED  BY <1>2, <1>5, KeptIsNotLostNext DEF OnlyAccepted

\* The items of a forged block were pending, so the node had accepted them.
LEMMA ForgeLosesNothing ==
    ASSUME IInv, OnlyAccepted, AcceptedIsNotLost, NEW n \in Nodes, Forge(n)
    PROVE  OnlyAccepted' /\ AcceptedIsNotLost'
<1>1. PICK items \in PendingItems(mempool[n]) :
         batch' = [batch EXCEPT ![n] =
             <<ForgeBlock([CreateBlock(chain[n], clock) EXCEPT !.contents = items], clock)>>]
  BY DEF Forge
<1> DEFINE b == ForgeBlock([CreateBlock(chain[n], clock) EXCEPT !.contents = items], clock)
<1>2. UNCHANGED <<mempool, chain, accepted, replaced>>  BY DEF Forge
<1>3. items \subseteq accepted[n]  BY DEF PendingItems, OnlyAccepted
<1>4. b.contents = items
  <2>1. items \in Contents \cup {NoContents}
    BY PendingContents
  <2> QED
    BY <2>1, ForgedAfterChain DEF IInv, ChainsInv, PoolsInv
<1>5. batch' = [batch EXCEPT ![n] = <<b>>]  BY <1>1
<1> HIDE DEF b
<1>6. BatchAccepted(accepted[n], <<b>>)
  BY <1>3, <1>4 DEF BatchAccepted
<1>7. OnlyAccepted'
  BY <1>2, <1>5, <1>6 DEF OnlyAccepted, IInv, BlocksInv
<1> QED  BY <1>2, <1>7 DEF AcceptedIsNotLost

\* The node's own block is added and its IDs leave the mempool, or it is refused.
LEMMA AddBatchLosesNothing ==
    ASSUME IInv, OnlyAccepted, AcceptedIsNotLost, NEW n \in Nodes, AddBatch(n)
    PROVE  OnlyAccepted' /\ AcceptedIsNotLost'
<1> DEFINE b == batch[n][1]
<1>1. /\ batch' = [batch EXCEPT ![n] = <<>>]
      /\ UNCHANGED <<accepted, replaced>>
      /\ batch[n] # <<>>
  BY DEF AddBatch
<1>2. IsBlock(b)  BY <1>1, BatchBlock DEF IInv
<1>3. ASSUME \A m \in Nodes : mempool'[m] \subseteq mempool[m] PROVE OnlyAccepted'
  <2>1. \A m \in Nodes : batch'[m] = <<>> \/ batch'[m] = batch[m]
    BY <1>1 DEF IInv, BlocksInv
  <2>2. \A m \in Nodes : BatchAccepted(accepted[m], batch'[m])
    BY <2>1 DEF OnlyAccepted, BatchAccepted
  <2> QED  BY <1>1, <1>3, <2>2 DEF OnlyAccepted
<1>4. CASE Refused(n)
  BY <1>1, <1>3, <1>4 DEF Refused, AcceptedIsNotLost
<1>5. CASE Added(n)
  <2> DEFINE done == b.contents
  <2>1. /\ chain'[n] = Append(chain[n], b)
        /\ \A m \in Nodes \ {n} : chain'[m] = chain[m]
        /\ mempool'[n] = RemoveProcessedItems(mempool[n], done)
        /\ \A m \in Nodes \ {n} : mempool'[m] = mempool[m]
    BY <1>5 DEF Added, IInv, ChainsInv, PoolsInv
  <2>2. done \subseteq accepted[n]  BY <1>1 DEF OnlyAccepted, BatchAccepted
  <2>3. /\ Processed(chain[n]) \subseteq Processed(chain'[n])
        /\ done \subseteq Processed(chain'[n])
    BY <1>2, <2>1, AppendedIsProcessed DEF IInv, ChainsInv
  <2>4. \A m \in Nodes : mempool'[m] \subseteq mempool[m]
    BY <2>1 DEF RemoveProcessedItems
  <2> HIDE DEF done
  <2>5. ASSUME NEW m \in Nodes, ~replaced'[m]
        PROVE  Kept(accepted'[m], mempool'[m], chain'[m])
    <3>1. Kept(accepted[m], mempool[m], chain[m])  BY <1>1, <2>5, KeptIsNotLost
    <3>2. CASE m # n  BY <1>1, <2>1, <3>1, <3>2
    <3>3. CASE m = n
      <4>1. Kept(accepted[n], RemoveProcessedItems(mempool[n], done), chain'[n])
        BY <2>2, <2>3, <3>1, <3>3, RemoveKeeps
      <4> QED  BY <1>1, <2>1, <3>3, <4>1
    <3> QED  BY <3>2, <3>3
  <2> QED  BY <1>3, <2>4, <2>5, KeptIsNotLostNext
<1> QED  BY <1>4, <1>5 DEF AddBatch

LEMMA StepLosesNothing ==
    ASSUME IInv, OnlyAccepted, AcceptedIsNotLost, [Next]_vars
    PROVE  OnlyAccepted' /\ AcceptedIsNotLost'
<1>1. ASSUME UNCHANGED <<mempool, chain, batch, accepted, replaced>>
      PROVE  OnlyAccepted' /\ AcceptedIsNotLost'
  BY <1>1 DEF OnlyAccepted, AcceptedIsNotLost
<1>2. CASE UNCHANGED vars  BY <1>1, <1>2 DEF vars
<1>3. ASSUME NEW n \in Nodes, NEW m \in Known[n], AdoptChain(n, m)
      PROVE  OnlyAccepted' /\ AcceptedIsNotLost'
  <2>1. /\ UNCHANGED <<mempool, batch, accepted>>
        /\ replaced' = [replaced EXCEPT ![n] = TRUE]
        /\ \A k \in Nodes \ {n} : chain'[k] = chain[k]
    BY <1>3 DEF AdoptChain, IInv, ChainsInv
  <2>2. replaced'[n] /\ \A k \in Nodes \ {n} : replaced'[k] = replaced[k]
    BY <2>1, Zenon DEF IInv, PoolsInv
  <2> QED  BY <2>1, <2>2 DEF OnlyAccepted, AcceptedIsNotLost
<1>4. CASE LosePost  BY <1>1, <1>4 DEF LosePost
<1>5. CASE Tick  BY <1>1, <1>5 DEF Tick
<1> QED
  BY <1>2, <1>3, <1>4, <1>5, AcceptLosesNothing, ReceiveLosesNothing,
     ForgeLosesNothing, AddBatchLosesNothing DEF Next

\* Until a node adopts a downloaded chain, whatever its handlers accepted is
\* pending or in its chain, unless another accepted item of the same ID is.
THEOREM NothingAcceptedIsLost == Spec => []AcceptedIsNotLost
<1>1. Init => OnlyAccepted /\ AcceptedIsNotLost
  BY DEF Init, OnlyAccepted, BatchAccepted, AcceptedIsNotLost
<1>2. IInv /\ OnlyAccepted /\ AcceptedIsNotLost /\ [Next]_vars
      => OnlyAccepted' /\ AcceptedIsNotLost'
  BY StepLosesNothing
<1> QED  BY <1>1, <1>2, Invariance, PTL DEF Spec

=============================================================================
