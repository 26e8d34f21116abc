----------------------- MODULE UpdateActiveDelegates -----------------------
(***************************************************************************)
(* UpdateActiveDelegates of consensus/dpos.go, compare by compare: the     *)
(* bubble sort of the delegates and the choice of the first ones.  It runs *)
(* with the mutex held, so the scores stay what they are meanwhile.        *)
(*                                                                         *)
(* ranking holds the delegates of the Go slice scores; i and j are its two *)
(* loop counters, which start at 0.                                        *)
(***************************************************************************)
EXTENDS DelegateRules

CONSTANTS Delegates, Scores

ASSUME ElectionAssumption == IsFiniteSet(Delegates) /\ Scores \subseteq Int

VARIABLES score, ranking, i, j, active, done

sortVars == <<score, ranking, i, j, active, done>>

\* The slice is filled in the order of Go's map iteration.
SortInit ==
    /\ \E registered \in SUBSET Delegates :
          /\ score \in [registered -> Scores]
          /\ ranking \in Bijection(1..Cardinality(registered), registered)
    /\ i = 0
    /\ j = 0
    /\ active = <<>>
    /\ done = FALSE

Swapped(order, k) == [order EXCEPT ![k] = order[k + 1], ![k + 1] = order[k]]

\* Mutant of Comparisons: the inner loop stops one comparison early.
OneComparisonLess == Len(ranking) - i - 2

\* len(scores) - i - 1; the range of a negative number is empty.
Comparisons == Len(ranking) - i - 1

Compare ==
    /\ i < Len(ranking)
    /\ j < Comparisons
    /\ ranking' = IF score[ranking[j + 1]] < score[ranking[j + 2]]
                  THEN Swapped(ranking, j + 1) ELSE ranking
    /\ j' = j + 1
    /\ UNCHANGED <<score, i, active, done>>

NextPass ==
    /\ i < Len(ranking)
    /\ j >= Comparisons
    /\ i' = i + 1
    /\ j' = 0
    /\ UNCHANGED <<score, ranking, active, done>>

Select ==
    /\ i >= Len(ranking)
    /\ ~done
    /\ active' = [k \in 1..Seats(Len(ranking)) |-> ranking[k]]
    /\ done' = TRUE
    /\ UNCHANGED <<score, ranking, i, j>>

SortNext == Compare \/ NextPass \/ Select

\* The goroutine that holds the mutex runs.
SortSpec == SortInit /\ [][SortNext]_sortVars /\ WF_sortVars(SortNext)

-----------------------------------------------------------------------------
(* Properties *)

\* The invariant of the two loops: the slice holds every delegate once, the
\* last i of them are the worst, in order, and no delegate that the inner loop
\* has passed is worse than the one it carries along.
LoopInvariant ==
    /\ ranking \in Bijection(1..Cardinality(DOMAIN score), DOMAIN score)
    /\ \A p, q \in DOMAIN ranking :
          p < q /\ q > Len(ranking) - i => score[ranking[p]] >= score[ranking[q]]
    /\ \A p \in 1..j : score[ranking[p]] >= score[ranking[j + 1]]

\* The sort elects the delegates of the highest scores, ties in any order, and
\* it ends: it implements Election.
Abstract == INSTANCE Election WITH score <- score, active <- active, done <- done
ElectsTheBest == Abstract!Spec
=============================================================================
