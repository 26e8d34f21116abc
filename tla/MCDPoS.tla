------------------------------- MODULE MCDPoS -------------------------------
(* DPoS on a small instance: values of its constants for TLC. *)
EXTENDS DPoS, TLC

CONSTANTS d1, d2, d3, v1, v2, none

\* Voters are alike, and so are the delegates of Initialize.
Alike == Permutations(Voters) \cup Permutations(InitialDelegates)
=============================================================================
