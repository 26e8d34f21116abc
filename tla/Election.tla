------------------------------ MODULE Election ------------------------------
(***************************************************************************)
(* What an election promises: in one step the delegates of the highest     *)
(* scores become the active ones, and that step is taken.                  *)
(***************************************************************************)
EXTENDS DelegateRules

VARIABLES
    score,  \* of each registered delegate; fixed, the mutex is held
    active, \* ActiveDelegates
    done

vars == <<score, active, done>>

Init == active = <<>> /\ done = FALSE

Elect ==
    /\ ~done
    /\ done' = TRUE
    /\ active' \in Elections(score)
    /\ UNCHANGED score

SafeSpec == Init /\ [][Elect]_vars

Spec == SafeSpec /\ WF_vars(Elect)
=============================================================================
