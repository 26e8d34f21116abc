----------------------------- MODULE BlockRules -----------------------------
(***************************************************************************)
(* The pure rules of blockchain/block.go and blockchain/blockchain.go: how *)
(* a block is created, forged and hashed, and when a block or a chain is   *)
(* valid.  A chain is a sequence of blocks; the Go slice's index 0, the    *)
(* genesis block, is position 1.                                           *)
(*                                                                         *)
(* SHA-256 is taken to be free of collisions: a hash IS the tuple of the   *)
(* fields CalculateHash feeds it.  Nonce and Signature are left out because*)
(* no caller ever sets them; Validator, Type, TotalFees and Data are left  *)
(* out because the hash does not cover them and no rule reads them.        *)
(***************************************************************************)
EXTENDS Integers, Sequences, Functions

CONSTANTS
    Contents,   \* what a forged block carries: a set of transactions or processes
    NoContents, \* what a block carries before any item is put into it
    Zeros       \* leading hexadecimal zeros of the digest of a block, by its contents

ASSUME ContentsAssumption == NoContents \notin Contents
ASSUME ZerosAssumption == Zeros \in [Contents \cup {NoContents} -> 0..64]

\* Stands for both "0", the genesis block's PreviousHash, and "", the Hash of
\* a block that has not been forged: neither is a digest.
NoHash == <<>>

LastBlock(chain) == chain[Len(chain)]

-----------------------------------------------------------------------------
(* block.go *)

CalculateHash(b) == <<b.index, b.previousHash, b.timestamp, b.contents>>

NewBlock(index, previousHash, now) ==
    [index |-> index, previousHash |-> previousHash, timestamp |-> now,
     contents |-> NoContents, hash |-> NoHash]

\* Mutant of ForgeBlock: the block is stamped and not hashed.
StampWithoutHash(b, now) == [b EXCEPT !.timestamp = now]

\* ForgeBlock stamps the block first and hashes it afterwards.
ForgeBlock(b, now) ==
    LET stamped == [b EXCEPT !.timestamp = now]
    IN  [stamped EXCEPT !.hash = CalculateHash(stamped)]

-----------------------------------------------------------------------------
(* blockchain.go *)

Genesis(now) == ForgeBlock(NewBlock(0, NoHash, now), now)

CreateBlock(chain, now) ==
    NewBlock(LastBlock(chain).index + 1, LastBlock(chain).hash, now)

\* Mutant of isBlockConsistentWithPrevious: the link to the previous block is not checked.
IgnorePreviousHash(block, previous) ==
    /\ block.index = previous.index + 1
    /\ block.hash = CalculateHash(block)

isBlockConsistentWithPrevious(block, previous) ==
    /\ block.index = previous.index + 1
    /\ block.previousHash = previous.hash
    /\ block.hash = CalculateHash(block)

isValidBlock(chain, block) == isBlockConsistentWithPrevious(block, LastBlock(chain))

\* Mutant of isValidChain: the genesis blocks are not compared.
AnyGenesis(chain, candidate) ==
    \A i \in 2..Len(candidate) :
        isBlockConsistentWithPrevious(candidate[i], candidate[i - 1])

isValidChain(chain, candidate) ==
    /\ candidate[1].hash = chain[1].hash
    /\ \A i \in 2..Len(candidate) :
          isBlockConsistentWithPrevious(candidate[i], candidate[i - 1])

\* hash[0:difficulty] panics when difficulty is negative: see PanicsOn.
HashValidHash(hash, difficulty) == Zeros[hash[4]] >= difficulty

HasValidHash(b, difficulty) ==
    b.hash = CalculateHash(b) /\ HashValidHash(b.hash, difficulty)

IsValidChain(chain, difficulty, candidate) ==
    /\ candidate # <<>>
    /\ isValidChain(chain, candidate)
    /\ \A i \in 2..Len(candidate) : HasValidHash(candidate[i], difficulty)

\* IsValidChain slices the hash of the first block after genesis with a
\* negative bound: a run-time panic in a goroutine nobody recovers.
PanicsOn(chain, difficulty, candidate) ==
    /\ difficulty < 0
    /\ Len(candidate) > 1
    /\ candidate[1].hash = chain[1].hash
    /\ isBlockConsistentWithPrevious(candidate[2], candidate[1])

InitialDifficulty == 2

\* targetBlockTime/2 and targetBlockTime*2 with targetBlockTime = 15: the
\* constant division is an integer division.
adjustDifficulty(chain, difficulty) ==
    IF Len(chain) < 2 THEN difficulty
    ELSE LET gap == LastBlock(chain).timestamp - chain[Len(chain) - 1].timestamp
         IN  CASE gap < 7  -> difficulty + 1
               [] gap > 30 -> difficulty - 1
               [] OTHER    -> difficulty

-----------------------------------------------------------------------------
(* What the properties and the proofs say of blocks and chains. *)

\* A well-formed block: any forged block, whoever forged it.
IsBlock(b) ==
    /\ b = [index |-> b.index, previousHash |-> b.previousHash,
            timestamp |-> b.timestamp, contents |-> b.contents, hash |-> b.hash]
    /\ b.index \in Nat
    /\ b.timestamp \in Nat
    /\ b.contents \in Contents \cup {NoContents}
    /\ b.hash = CalculateHash(b)

IsChain(chain) ==
    /\ chain \in Seq(Range(chain))
    /\ \A i \in DOMAIN chain : IsBlock(chain[i])

\* Every block names the hash of the block before it: "Hash of the previous
\* block in the chain".
Linked(chain) ==
    \A i \in 2..Len(chain) : chain[i].previousHash = chain[i - 1].hash

\* Two chains that hold the same block hold the same blocks before it.
Agree(c, d) ==
    \A i \in 1..Len(c) : i <= Len(d) /\ c[i].hash = d[i].hash =>
        \A j \in 1..i : c[j] = d[j]

=============================================================================
