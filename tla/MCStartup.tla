----------------------------- MODULE MCStartup -----------------------------
(* Startup on a small instance: values of its constants for TLC. *)
EXTENDS Startup

CONSTANTS new, old

StartsOf == [n \in Nodes |-> IF n = new THEN 3 ELSE 1]
=============================================================================
