---------------------- MODULE MCUpdateActiveDelegates ----------------------
(* UpdateActiveDelegates on a small instance: values of its constants. *)
EXTENDS UpdateActiveDelegates

CONSTANTS d1, d2, d3, d4
=============================================================================
