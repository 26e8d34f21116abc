---------------------------- MODULE MCChainStore ----------------------------
(* ChainStore on a small instance: values of its constants for TLC. *)
EXTENDS ChainStore

CONSTANTS c1, none, p1

MCContents == {c1}
\* Digests of forged blocks with more zeros than the initial difficulty asks
\* for, so that a peer's chain can be adopted; with fewer, none ever is.
MCZeros == [c \in {c1, none} |-> 3]
=============================================================================
