------------------------------ MODULE TxNetwork ------------------------------
(***************************************************************************)
(* The life of a transaction, or of a critical process, in a network of    *)
(* nodes: accepted by a handler into the mempool (mempool/mempool.go),     *)
(* passed on to the known nodes, put into a block by the mempool job, and  *)
(* spread as part of a block or of a whole chain (p2p/handlers.go,         *)
(* p2p/network.go).  Both chains of a node run this same code; one of them *)
(* is modelled.                                                            *)
(*                                                                         *)
(* A node's chain is kept as ChainStore keeps it, without the store: here  *)
(* AddBlock and ReplaceChain are single steps, nodes do not crash, and     *)
(* whether the hashes of a downloaded chain satisfy the difficulty is left *)
(* open.                                                                   *)
(***************************************************************************)
EXTENDS BlockRules, FiniteSets

CONSTANTS
    Nodes,
    Known,      \* the other nodes each node sends to: GetKnownNodes without itself
    Ids,        \* ProcessID of an item
    Payloads,   \* what an item carries under its ID
    Clients,    \* the items that clients post to each node
    BatchLimit, \* items GetPendingItems returns at most: 100
    MaxClock,   \* bound: the last second of a behaviour
    MaxLength   \* bound: nobody forges beyond this chain length

Items == [id : Ids, data : Payloads]

ASSUME KnownAssumption == Known \in [Nodes -> SUBSET Nodes]
ASSUME ItemsAssumption == Contents = (SUBSET Items) \ {{}} /\ NoContents = {}
ASSUME ClientsAssumption == Clients \in [Nodes -> SUBSET Items]
ASSUME NetworkBoundsAssumption ==
    BatchLimit \in Nat \ {0} /\ MaxClock \in Nat /\ MaxLength \in Nat \ {0}

VARIABLES
    clock,      \* seconds, shared by the nodes
    mempool,    \* each node's items: at most one under an ID
    chain,      \* each node's chain
    batch,      \* each node's forged block before AddBlock, or <<>>
    posts,      \* transactions on their way: <<item, node>>
    wire,       \* blocks broadcast so far; each may arrive late, twice or never
    accepted,   \* history: the items each node's handlers accepted
    replaced    \* history: has the node ever adopted a downloaded chain

vars == <<clock, mempool, chain, batch, posts, wire, accepted, replaced>>

Init ==
    /\ clock = 0
    /\ mempool = [n \in Nodes |-> {}]
    /\ chain = [n \in Nodes |-> <<Genesis(0)>>]
    /\ batch = [n \in Nodes |-> <<>>]
    /\ posts = {}
    /\ wire = {}
    /\ accepted = [n \in Nodes |-> {}]
    /\ replaced = [n \in Nodes |-> FALSE]

\* The items in the blocks of a chain.
Processed(c) == UNION {c[i].contents : i \in 2..Len(c)}

IdsOf(items) == {item.id : item \in items}

-----------------------------------------------------------------------------
(* mempool.go *)

\* AddItem: the map holds one item under an ID, the last one.
AddItem(pool, item) == {other \in pool : other.id # item.id} \cup {item}

\* RemoveProcessedItems looks at the IDs only.
RemoveProcessedItems(pool, items) == {item \in pool : item.id \notin IdsOf(items)}

\* GetPendingItems: any BatchLimit items, in the order of Go's map iteration.
PendingItems(pool) ==
    {items \in SUBSET pool :
        Cardinality(items) = IF Cardinality(pool) < BatchLimit
                             THEN Cardinality(pool) ELSE BatchLimit}

-----------------------------------------------------------------------------
(* Handlers *)

\* TransactionHandler, CriticalProcessHandler: the item enters the mempool and
\* is sent to every known node, whether or not it was here before.
AcceptItem(n, item) ==
    /\ mempool' = [mempool EXCEPT ![n] = AddItem(@, item)]
    /\ accepted' = [accepted EXCEPT ![n] = @ \cup {item}]

SendToKnown(n, item) == {<<item, m>> : m \in Known[n] \ {n}}

\* A client posts an item to /tx or /critical.
Submit(n) ==
    /\ \E item \in Clients[n] :
          /\ AcceptItem(n, item)
          /\ posts' = posts \cup SendToKnown(n, item)
    /\ UNCHANGED <<clock, chain, batch, wire, replaced>>

\* A client posts to /tx/batch: nothing is passed on.
SubmitBatch(n) ==
    /\ \E item \in Clients[n] : AcceptItem(n, item)
    /\ UNCHANGED <<clock, chain, batch, posts, wire, replaced>>

\* A node's post arrives: the same handler as a client's.
DeliverPost(n) ==
    /\ \E item \in Items :
          /\ <<item, n>> \in posts
          /\ AcceptItem(n, item)
          /\ posts' = (posts \ {<<item, n>>}) \cup SendToKnown(n, item)
    /\ UNCHANGED <<clock, chain, batch, wire, replaced>>

\* BroadcastTransaction only logs a failed post.
LosePost ==
    /\ \E p \in posts : posts' = posts \ {p}
    /\ UNCHANGED <<clock, mempool, chain, batch, wire, accepted, replaced>>

\* AddTxBlockHandler, AddCriticalBlockHandler: the mempool is left alone.
ReceiveBlock(n) ==
    /\ \E b \in wire :
          isValidBlock(chain[n], b) /\ chain' = [chain EXCEPT ![n] = Append(@, b)]
    /\ UNCHANGED <<clock, mempool, batch, posts, wire, accepted, replaced>>

-----------------------------------------------------------------------------
(* The mempool job: processTxBatch, processCriticalBatch *)

Forge(n) ==
    /\ batch[n] = <<>>
    /\ mempool[n] # {}
    /\ Len(chain[n]) < MaxLength
    /\ \E items \in PendingItems(mempool[n]) :
          batch' = [batch EXCEPT ![n] =
              <<ForgeBlock([CreateBlock(chain[n], clock) EXCEPT !.contents = items], clock)>>]
    /\ UNCHANGED <<clock, mempool, chain, posts, wire, accepted, replaced>>

\* Mutant of Refused: the items leave the mempool although the block was refused.
RefusedAndRemoved(n) ==
    /\ mempool' = [mempool EXCEPT ![n] = RemoveProcessedItems(@, batch[n][1].contents)]
    /\ UNCHANGED <<chain, wire>>

\* AddBlock refused the block, or could not save it: the items stay.
Refused(n) == UNCHANGED <<mempool, chain, wire>>

Added(n) ==
    LET block == batch[n][1]
    IN  /\ isValidBlock(chain[n], block)
        /\ chain' = [chain EXCEPT ![n] = Append(@, block)]
        /\ mempool' = [mempool EXCEPT ![n] = RemoveProcessedItems(@, block.contents)]
        /\ wire' = wire \cup {block}

AddBatch(n) ==
    /\ batch[n] # <<>>
    /\ Added(n) \/ Refused(n)
    /\ batch' = [batch EXCEPT ![n] = <<>>]
    /\ UNCHANGED <<clock, posts, accepted, replaced>>

-----------------------------------------------------------------------------
(* syncChain, syncChainWithNode *)

AdoptChain(n, m) ==
    /\ Len(chain[m]) > Len(chain[n])
    /\ isValidChain(chain[n], chain[m])
    /\ chain' = [chain EXCEPT ![n] = chain[m]]
    /\ replaced' = [replaced EXCEPT ![n] = TRUE]
    /\ UNCHANGED <<clock, mempool, batch, posts, wire, accepted>>

Tick ==
    /\ clock < MaxClock
    /\ clock' = clock + 1
    /\ UNCHANGED <<mempool, chain, batch, posts, wire, accepted, replaced>>

Next ==
    \/ \E n \in Nodes :
          \/ Submit(n) \/ SubmitBatch(n) \/ DeliverPost(n)
          \/ ReceiveBlock(n) \/ Forge(n) \/ AddBatch(n)
          \/ \E m \in Known[n] : AdoptChain(n, m)
    \/ LosePost \/ Tick

Spec == Init /\ [][Next]_vars

-----------------------------------------------------------------------------
(* Properties *)

\* Types, and a mempool has one item under an ID.
TypeOK ==
    /\ clock \in Nat
    /\ mempool \in [Nodes -> SUBSET Items]
    /\ accepted \in [Nodes -> SUBSET Items]
    /\ replaced \in [Nodes -> BOOLEAN]
    /\ posts \subseteq Items \X Nodes
    /\ \A b \in wire : IsBlock(b)
    /\ DOMAIN chain = Nodes /\ DOMAIN batch = Nodes
    /\ \A n \in Nodes :
          /\ IsChain(chain[n]) /\ chain[n] # <<>>
          /\ IsChain(batch[n]) /\ Len(batch[n]) <= 1
          /\ \A i, j \in mempool[n] : i.id = j.id => i = j

\* A handler's 201 is not forgotten: until the node adopts a downloaded chain,
\* an accepted item is pending or in the node's own chain, whether its blocks
\* were added, refused or overtaken by other nodes' blocks.  The exception is an
\* ID used twice: the later item takes the earlier one's place in the map, and
\* is removed unprocessed when the earlier one's block is added meanwhile
\* (handlers.go:320).  Even then one of the two is pending or in the chain.
AcceptedIsNotLost ==
    \A n \in Nodes : ~replaced[n] =>
        LET kept == accepted[n] \cap (mempool[n] \cup Processed(chain[n]))
        IN  \A item \in accepted[n] \ kept :
                \E other \in kept : other.id = item.id

\* Two nodes whose chains hold the same block hold the same blocks before it:
\* chains can fork only once, whatever is received, refused or adopted.
CommonPrefix == \A n, m \in Nodes : Agree(chain[n], chain[m])

=============================================================================
