----------------------------- MODULE MCTxNetwork -----------------------------
(* TxNetwork on a small instance: values of its constants for TLC. *)
EXTENDS TxNetwork, TLC

CONSTANTS n1, n2, a, b, v1, v2

Item(id, data) == [id |-> id, data |-> data]

\* One node found the other, which was started first and knows nobody: posts go
\* one way and so does synchronisation, while blocks may reach either.
OneKnowsTheOther == (n1 :> {n2}) @@ (n2 :> {})
\* Both have a client that uses the ID a, for different payloads.
SharedId == (n1 :> {Item(a, v1), Item(b, v1)}) @@ (n2 :> {Item(a, v2)})
Batches == (SUBSET Items) \ {{}}
AnyZeros == [c \in SUBSET Items |-> 0]
=============================================================================
