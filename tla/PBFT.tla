-------------------------------- MODULE PBFT --------------------------------
(***************************************************************************)
(* consensus/pbft.go: the consensus of the chain of critical processes.    *)
(*                                                                         *)
(* Every validator has the state of one PBFT struct and handles messages   *)
(* one goroutine each.  The repository builds the messages and logs that   *)
(* they "would be broadcast to all validators" (pbft.go:297); it has no    *)
(* route that delivers them and no code that proposes a block.  Both are   *)
(* external here: a sent message stays on the wire and reaches each        *)
(* validator late, twice or never, and a validator that takes itself for   *)
(* the primary proposes at most one block for a position of the chain.     *)
(*                                                                         *)
(* A block stands for its hash, the key of BlockStates; one that is not in *)
(* ValidBlocks carries a hash that is not the hash of its fields.          *)
(***************************************************************************)
EXTENDS Integers, Sequences, FiniteSets, FiniteSetsExt

CONSTANTS
    Validators,  \* the sequence Initialize sets: four addresses
    Running,     \* the validators that are up
    Blocks,
    ValidBlocks, \* blocks that ValidateBlock accepts
    Height,      \* position of a block in the chain
    MaxView,     \* bound: nobody initiates a change to a later view
    MaxRepeats   \* bound: how often one view change message is counted

Nodes == {Validators[i] : i \in 1..Len(Validators)}

ASSUME ValidatorsAssumption ==
    /\ Validators \in Seq(Nodes)
    /\ Len(Validators) >= 2
    /\ Running \subseteq Nodes
ASSUME BlocksAssumption == ValidBlocks \subseteq Blocks /\ Height \in [Blocks -> Nat]
ASSUME ViewBoundsAssumption == MaxView \in Nat /\ MaxRepeats \in Nat

VARIABLES
    view,        \* each node's View
    primary,     \* each node's Primary
    checking,    \* blocks whose handlePrePrepare is between the check of the primary and the lock
    votes,       \* each node's BlockStates
    viewChanges, \* viewChanges[n][m][v]: view changes to v that n has counted for m
    wire         \* messages sent so far

vars == <<view, primary, checking, votes, viewChanges, wire>>

Threshold == (2 * Len(Validators)) \div 3

PrimaryOf(v) == Validators[(v % Len(Validators)) + 1]

Message ==
    [type : {"PrePrepare", "Prepare", "Commit"}, from : Nodes, block : Blocks]
        \cup [type : {"ViewChange"}, from : Nodes, view : 1..MaxView]

Vote(type, from, block) == [type |-> type, from |-> from, block |-> block]
ViewChange(from, v) == [type |-> "ViewChange", from |-> from, view |-> v]

NoVotes ==
    [prePrepared |-> FALSE,
     preparedBy |-> {}, prepareCount |-> 0, prepared |-> FALSE,
     committedBy |-> {}, commitCount |-> 0, committed |-> FALSE]

Init ==
    /\ view = [n \in Nodes |-> 0]
    /\ primary = [n \in Nodes |-> PrimaryOf(0)]
    /\ checking = [n \in Nodes |-> {}]
    /\ votes = [n \in Nodes |-> [b \in Blocks |-> NoVotes]]
    /\ viewChanges = [n \in Nodes |-> [m \in Nodes |-> [v \in 1..MaxView |-> 0]]]
    /\ wire = {}

-----------------------------------------------------------------------------
(* Votes *)

Propose(n, b) ==
    /\ primary[n] = n
    /\ \A m \in wire : m.type = "PrePrepare" =>
          m.block # b /\ ~(m.from = n /\ Height[m.block] = Height[b])
    /\ wire' = wire \cup {Vote("PrePrepare", n, b)}
    /\ UNCHANGED <<view, primary, checking, votes, viewChanges>>

\* handlePrePrepare reads Primary and validates the block without the mutex ...
CheckPrePrepare(n, b) ==
    /\ Vote("PrePrepare", primary[n], b) \in wire
    /\ b \in ValidBlocks
    /\ checking' = [checking EXCEPT ![n] = @ \cup {b}]
    /\ UNCHANGED <<view, primary, votes, viewChanges, wire>>

\* ... and takes the mutex afterwards.
FinishPrePrepare(n, b) ==
    /\ b \in checking[n]
    /\ checking' = [checking EXCEPT ![n] = @ \ {b}]
    /\ IF votes[n][b].prePrepared
       THEN UNCHANGED <<votes, wire>>
       ELSE /\ votes' = [votes EXCEPT ![n][b].prePrepared = TRUE]
            /\ wire' = wire \cup {Vote("Prepare", n, b)}
    /\ UNCHANGED <<view, primary, viewChanges>>

\* Mutant of RecordPrepare: a voter counts as often as its message arrives.
CountEveryPrepare(s, from) ==
    [s EXCEPT !.preparedBy = @ \cup {from},
              !.prepareCount = @ + 1,
              !.prepared = @ \/ s.prepareCount + 1 >= Threshold]

RecordPrepare(s, from) ==
    IF from \in s.preparedBy THEN s
    ELSE [s EXCEPT !.preparedBy = @ \cup {from},
                   !.prepareCount = @ + 1,
                   !.prepared = @ \/ s.prepareCount + 1 >= Threshold]

handlePrepare(n) ==
    /\ \E m \in wire :
          /\ m.type = "Prepare"
          /\ LET s == votes[n][m.block]
                 t == RecordPrepare(s, m.from)
             IN  /\ votes' = [votes EXCEPT ![n][m.block] = t]
                 /\ wire' = IF t.prepared /\ ~s.prepared
                            THEN wire \cup {Vote("Commit", n, m.block)} ELSE wire
    /\ UNCHANGED <<view, primary, checking, viewChanges>>

\* Mutant of RecordCommit: a voter counts as often as its message arrives.
CountEveryCommit(s, from) ==
    [s EXCEPT !.committedBy = @ \cup {from},
              !.commitCount = @ + 1,
              !.committed = @ \/ s.commitCount + 1 >= Threshold]

RecordCommit(s, from) ==
    IF from \in s.committedBy THEN s
    ELSE [s EXCEPT !.committedBy = @ \cup {from},
                   !.commitCount = @ + 1,
                   !.committed = @ \/ s.commitCount + 1 >= Threshold]

handleCommit(n) ==
    /\ \E m \in wire :
          /\ m.type = "Commit"
          /\ votes' = [votes EXCEPT ![n][m.block] = RecordCommit(@, m.from)]
    /\ UNCHANGED <<view, primary, checking, viewChanges, wire>>

-----------------------------------------------------------------------------
(* View changes *)

\* Every message counts, a repeated one too.
ViewCount(counts, v) == MapThenSumSet(LAMBDA m : counts[m][v], Nodes)

\* Mutant of EnterView: the primary changes and the view does not.
FollowPrimaryOnly(n, v) ==
    /\ primary' = [primary EXCEPT ![n] = PrimaryOf(v)]
    /\ UNCHANGED view

EnterView(n, v) ==
    /\ view' = [view EXCEPT ![n] = v]
    /\ primary' = [primary EXCEPT ![n] = PrimaryOf(v)]

handleViewChange(n) ==
    /\ \E m \in wire :
          /\ m.type = "ViewChange"
          /\ viewChanges[n][m.from][m.view] < MaxRepeats
          /\ LET counts == [viewChanges[n] EXCEPT ![m.from][m.view] = @ + 1]
             IN  /\ viewChanges' = [viewChanges EXCEPT ![n] = counts]
                 /\ IF ViewCount(counts, m.view) >= Threshold /\ m.view > view[n]
                    THEN EnterView(n, m.view)
                    ELSE UNCHANGED <<view, primary>>
    /\ UNCHANGED <<checking, votes, wire>>

\* Mutant of InitiateViewChange: a node goes over to the next primary by itself.
RotateThePrimary(n) ==
    /\ view[n] < MaxView
    /\ primary' = [primary EXCEPT ![n] = PrimaryOf(view[n] + 1)]
    /\ UNCHANGED <<view, checking, votes, viewChanges, wire>>

\* The view is incremented, the primary is not recomputed.
InitiateViewChange(n) ==
    /\ view[n] < MaxView
    /\ view' = [view EXCEPT ![n] = @ + 1]
    /\ wire' = wire \cup {ViewChange(n, view[n] + 1)}
    /\ UNCHANGED <<primary, checking, votes, viewChanges>>

Next ==
    \E n \in Running :
        \/ \E b \in Blocks :
              Propose(n, b) \/ CheckPrePrepare(n, b) \/ FinishPrePrepare(n, b)
        \/ handlePrepare(n) \/ handleCommit(n)
        \/ handleViewChange(n) \/ InitiateViewChange(n)

Spec == Init /\ [][Next]_vars

-----------------------------------------------------------------------------
(* Properties *)

VotesType ==
    [prePrepared : BOOLEAN,
     preparedBy : SUBSET Nodes, prepareCount : Nat, prepared : BOOLEAN,
     committedBy : SUBSET Nodes, commitCount : Nat, committed : BOOLEAN]

\* Types, and the counters count the voters.
TypeOK ==
    /\ view \in [Nodes -> 0..MaxView]
    /\ primary \in [Nodes -> Nodes]
    /\ checking \in [Nodes -> SUBSET ValidBlocks]
    /\ votes \in [Nodes -> [Blocks -> VotesType]]
    /\ viewChanges \in [Nodes -> [Nodes -> [1..MaxView -> 0..MaxRepeats]]]
    /\ wire \subseteq Message
    /\ \A n \in Nodes, b \in Blocks :
          /\ votes[n][b].prepareCount = Cardinality(votes[n][b].preparedBy)
          /\ votes[n][b].commitCount = Cardinality(votes[n][b].committedBy)

\* handlePrepare and handleCommit look at no validator's state and validate
\* nothing.  All the same, however often messages are repeated, a prepared block
\* is valid and pre-prepared by Threshold validators ...
PreparedByAQuorum ==
    \A n \in Nodes, b \in Blocks : votes[n][b].prepared =>
        /\ b \in ValidBlocks
        /\ Cardinality({m \in Nodes : votes[m][b].prePrepared}) >= Threshold

\* ... and a committed one is prepared by Threshold validators.
CommittedByAQuorum ==
    \A n \in Nodes, b \in Blocks : votes[n][b].committed =>
        Cardinality({m \in Nodes : votes[m][b].prepared}) >= Threshold

\* Across view changes, a node only ever pre-prepares what the primary of its
\* view or of an earlier one proposed.
ProposedByAPrimary ==
    \A n \in Nodes, b \in Blocks : votes[n][b].prePrepared =>
        \E v \in 0..view[n] : Vote("PrePrepare", PrimaryOf(v), b) \in wire

\* "PBFT implements the Practical Byzantine Fault Tolerance consensus
\* algorithm": two validators commit one block at a position.
Agreement ==
    \A n, m \in Nodes : \A b, c \in Blocks :
        votes[n][b].committed /\ votes[m][c].committed /\ Height[b] = Height[c] => b = c

\* Before anybody changes the view, they do: a vote carries neither a view nor a
\* position (pbft.go:276-301), but the only primary proposes one block for a
\* position and handlePrePrepare takes blocks from nobody else.
AgreementInTheFirstView == (\A n \in Nodes : view[n] = 0) => Agreement

=============================================================================
