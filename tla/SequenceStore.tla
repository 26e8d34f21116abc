--------------------------- MODULE SequenceStore ---------------------------
(***************************************************************************)
(* What contracts.go promises of a contract's state: a sequence of         *)
(* operations works on a copy that it takes, key by key, when it begins;   *)
(* it either commits the copy, key by key and with no other commit in      *)
(* between, or leaves no trace.  A copy may be taken while another         *)
(* sequence commits.  Nothing is promised about who commits last.          *)
(***************************************************************************)
CONSTANTS
    Keys,
    Values,
    Absent,        \* of a key that is not in the map
    Sequences      \* all sequences that may be in progress

VARIABLES
    state,         \* contract.State
    work           \* of each sequence: what it does, its copy, the keys left to copy or commit

vars == <<state, work>>

Maps == [Keys -> Values \cup {Absent}]
Nothing == [k \in Keys |-> Absent]

Free == [at |-> "free", copy |-> Nothing, rest |-> {}]
Copying(copy, rest) == [at |-> "copying", copy |-> copy, rest |-> rest]
Working(copy) == [at |-> "working", copy |-> copy, rest |-> {}]
Committing(copy, rest) == [at |-> "committing", copy |-> copy, rest |-> rest]

Present(map) == {k \in Keys : map[k] # Absent}

Init ==
    /\ state \in Maps
    /\ work = [s \in Sequences |-> Free]

\* The first conjunct, which the second implies, is quick to evaluate.
Becomes(s, new) ==
    /\ work'[s] = new
    /\ work' = [work EXCEPT ![s] = new]

\* Once it has copied the key k, with "left" to copy.
Copied(copy, k, left) ==
    LET longer == [copy EXCEPT ![k] = state[k]]
    IN  IF left = {} THEN Working(longer) ELSE Copying(longer, left)

Begin(s) ==
    /\ work[s].at = "free"
    /\ \E k \in Keys : Becomes(s, Copied(Nothing, k, Keys \ {k}))
    /\ UNCHANGED state

Copy(s) ==
    /\ work[s].at = "copying"
    /\ \E k \in work[s].rest : Becomes(s, Copied(work[s].copy, k, work[s].rest \ {k}))
    /\ UNCHANGED state

Store(s) ==
    /\ work[s].at = "working"
    /\ \E k \in Keys, v \in Values : Becomes(s, Working([work[s].copy EXCEPT ![k] = v]))
    /\ UNCHANGED state

Abort(s) ==
    /\ work[s].at = "working"
    /\ Becomes(s, Free)
    /\ UNCHANGED state

StartCommit(s) ==
    /\ work[s].at = "working"
    /\ \A t \in Sequences : work[t].at # "committing"
    /\ Becomes(s, Committing(work[s].copy, Present(work[s].copy)))
    /\ UNCHANGED state

Publish(s) ==
    /\ work[s].at = "committing"
    /\ \E k \in work[s].rest :
          /\ state' = [state EXCEPT ![k] = work[s].copy[k]]
          /\ Becomes(s, Committing(work[s].copy, work[s].rest \ {k}))

End(s) ==
    /\ work[s].at = "committing"
    /\ work[s].rest = {}
    /\ Becomes(s, Free)
    /\ UNCHANGED state

Next == \E s \in Sequences :
    \/ Begin(s) \/ Copy(s) \/ Store(s) \/ Abort(s)
    \/ StartCommit(s) \/ Publish(s) \/ End(s)

Spec == Init /\ [][Next]_vars
=============================================================================
