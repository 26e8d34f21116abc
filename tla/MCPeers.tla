------------------------------ MODULE MCPeers ------------------------------
(* Peers on a small instance: values of its constants for TLC. *)
EXTENDS Peers

CONSTANTS n0, n1, n2, empty, ghost

\* NewNode knows the ports 3000 and 3001, and nobody listens to the second.
Known == <<n1, empty>>

OneStart == [n \in Nodes |-> 1]

\* n1 starts with n2, of whom the others learn; n0 must register to be known.
SeedsOf == [n \in Nodes |-> IF n = n0 THEN <<n1>> ELSE IF n = n1 THEN <<n2>> ELSE <<>>]
=============================================================================
