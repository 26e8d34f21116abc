------------------------------- MODULE MCPBFT -------------------------------
(* PBFT on a small instance: values of its constants for TLC. *)
EXTENDS PBFT

CONSTANTS n0, n1, n2, n3, b1, b2, bad

Addresses == <<n0, n1, n2, n3>>

\* Narrows the search for a violation: the first block is committed before
\* anything else happens, and the third node alone initiates a view change.
OneAfterTheOther ==
    /\ votes[n2] = [b \in Blocks |-> NoVotes]
    /\ checking[n2] = {}
    /\ \A m \in wire :
          /\ m.type = "ViewChange" => m.from = n2 /\ votes[n0][b1].committed
          /\ m.type = "PrePrepare" /\ m.block = b2 => primary[n0] = n1

SameHeight == [b \in Blocks |-> 1]
=============================================================================
