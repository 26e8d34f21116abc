---------------------------- MODULE DelegateRules ----------------------------
(***************************************************************************)
(* Whom an election of consensus/dpos.go may choose: the delegates of the  *)
(* highest scores, best first, ties in any order.                          *)
(***************************************************************************)
EXTENDS Integers, Sequences, FiniteSets, Functions

CONSTANT RoundLength  \* active delegates, and slots, of a round: 21

ASSUME RoundLengthAssumption == RoundLength \in Nat \ {0}

\* Go's min(len(scores), d.RoundLength) of n delegates.
Seats(n) == IF n < RoundLength THEN n ELSE RoundLength

\* Nobody has a higher score than somebody before him.
Ranked(order, scores) ==
    \A i, j \in DOMAIN order : i < j => scores[order[i]] >= scores[order[j]]

\* Nobody outside has a higher score than somebody inside.
NoneBetter(order, scores) ==
    \A d \in DOMAIN scores \ Range(order), i \in DOMAIN order : scores[order[i]] >= scores[d]

Elections(scores) ==
    {order \in Injection(1..Seats(Cardinality(DOMAIN scores)), DOMAIN scores) :
        Ranked(order, scores) /\ NoneBetter(order, scores)}
=============================================================================
