----------------------------- MODULE PBFTProofs -----------------------------
(***************************************************************************)
(* For any number of validators, blocks and views: the quorums behind      *)
(* prepared and committed blocks.                                          *)
(***************************************************************************)
EXTENDS PBFT, FiniteSetTheorems, TLAPS

Pledged(m, b) == votes[m][b].prePrepared
Ready(m, b) == votes[m][b].prepared

TypeInv ==
    /\ view \in [Nodes -> 0..MaxView]
    /\ primary \in [Nodes -> Nodes]
    /\ checking \in [Nodes -> SUBSET ValidBlocks]
    /\ votes \in [Nodes -> [Blocks -> VotesType]]
    /\ viewChanges \in [Nodes -> [Nodes -> [1..MaxView -> 0..MaxRepeats]]]
    /\ wire \subseteq Message

\* Every vote on the wire is backed by the state of its sender.
VotesAreBacked ==
    \A m \in Nodes, b \in Blocks :
        /\ Vote("Prepare", m, b) \in wire => Pledged(m, b)
        /\ Vote("Commit", m, b) \in wire => Ready(m, b)

\* What one node has counted for one block.
Counted(s, b) ==
    /\ s.preparedBy \subseteq {m \in Nodes : Pledged(m, b)}
    /\ s.committedBy \subseteq {m \in Nodes : Ready(m, b)}
    /\ s.prepareCount = Cardinality(s.preparedBy)
    /\ s.commitCount = Cardinality(s.committedBy)
    /\ s.prepared => s.prepareCount >= Threshold
    /\ s.committed => s.commitCount >= Threshold

VotesAreCounted == \A n \in Nodes, b \in Blocks : Counted(votes[n][b], b)

\* Proposed in the view of a node or in an earlier one, by the primary of it.
ProposedTo(n, b) ==
    b \in ValidBlocks /\ \E v \in 0..view[n] : Vote("PrePrepare", PrimaryOf(v), b) \in wire

PrimariesPropose ==
    \A n \in Nodes :
        /\ \E v \in 0..view[n] : primary[n] = PrimaryOf(v)
        /\ \A b \in checking[n] : ProposedTo(n, b)
        /\ \A b \in Blocks : Pledged(n, b) => ProposedTo(n, b)

IInv == TypeInv /\ VotesAreBacked /\ VotesAreCounted /\ PrimariesPropose

-----------------------------------------------------------------------------
(* The validators *)

LEMMA ThresholdIsPositive == Threshold \in Nat /\ Threshold >= 1
<1>1. Len(Validators) \in Nat /\ Len(Validators) >= 2  BY ValidatorsAssumption
<1> QED  BY <1>1 DEF Threshold

LEMMA NodesAreFinite == IsFiniteSet(Nodes)
<1> DEFINE f == [i \in 1..Len(Validators) |-> Validators[i]]
<1>1. f \in Surjection(1..Len(Validators), Nodes)
  BY DEF Surjection, Nodes
<1>2. IsFiniteSet(1..Len(Validators))
  BY FS_Interval, ValidatorsAssumption
<1> QED  BY <1>1, <1>2, FS_Surjection

LEMMA PrimaryIsANode == ASSUME NEW v \in Nat PROVE PrimaryOf(v) \in Nodes
<1>1. Len(Validators) \in Nat /\ Len(Validators) >= 2  BY ValidatorsAssumption
<1>2. (v % Len(Validators)) + 1 \in 1..Len(Validators)  BY <1>1
<1> QED  BY <1>2 DEF PrimaryOf, Nodes

LEMMA VotersAreFinite ==
    ASSUME NEW S \in SUBSET Nodes
    PROVE  IsFiniteSet(S) /\ Cardinality(S) \in Nat
  BY NodesAreFinite, FS_Subset, FS_CardinalityType

LEMMA OneMoreVoter ==
    ASSUME NEW S \in SUBSET Nodes, NEW m \in Nodes, m \notin S
    PROVE  Cardinality(S \cup {m}) = Cardinality(S) + 1
  BY VotersAreFinite, FS_AddElement

-----------------------------------------------------------------------------
(* What the invariant says of the properties *)

LEMMA TypeFromInvariant == ASSUME IInv PROVE TypeOK
  BY DEF IInv, TypeInv, TypeOK, VotesAreCounted, Counted

LEMMA QuorumsFromInvariant ==
    ASSUME IInv PROVE PreparedByAQuorum /\ CommittedByAQuorum
<1>1. ASSUME NEW n \in Nodes, NEW b \in Blocks, votes[n][b].prepared
      PROVE  /\ b \in ValidBlocks
             /\ Cardinality({m \in Nodes : votes[m][b].prePrepared}) >= Threshold
  <2> DEFINE V == votes[n][b].preparedBy
             P == {m \in Nodes : votes[m][b].prePrepared}
  <2>1. V \subseteq P /\ Cardinality(V) >= Threshold
    BY <1>1 DEF IInv, VotesAreCounted, Counted, Pledged
  <2> HIDE DEF V
  <2>2. Cardinality(V) <= Cardinality(P) /\ Cardinality(V) \in Nat /\ Cardinality(P) \in Nat
    BY <2>1, VotersAreFinite, FS_Subset
  <2>3. PICK m \in V : TRUE
    BY <2>1, ThresholdIsPositive, FS_EmptySet
  <2>4. b \in ValidBlocks
    BY <2>1, <2>3 DEF IInv, PrimariesPropose, ProposedTo, Pledged
  <2> QED  BY <2>1, <2>2, <2>4, ThresholdIsPositive
<1>2. ASSUME NEW n \in Nodes, NEW b \in Blocks, votes[n][b].committed
      PROVE  Cardinality({m \in Nodes : votes[m][b].prepared}) >= Threshold
  <2> DEFINE V == votes[n][b].committedBy
             P == {m \in Nodes : votes[m][b].prepared}
  <2>1. V \subseteq P /\ Cardinality(V) >= Threshold
    BY <1>2 DEF IInv, VotesAreCounted, Counted, Ready
  <2> HIDE DEF V
  <2>2. Cardinality(V) <= Cardinality(P) /\ Cardinality(V) \in Nat /\ Cardinality(P) \in Nat
    BY <2>1, VotersAreFinite, FS_Subset
  <2> QED  BY <2>1, <2>2, ThresholdIsPositive
<1> QED  BY <1>1, <1>2 DEF PreparedByAQuorum, CommittedByAQuorum

LEMMA ProposerFromInvariant == ASSUME IInv PROVE ProposedByAPrimary
  BY DEF IInv, PrimariesPropose, ProposedTo, Pledged, ProposedByAPrimary

-----------------------------------------------------------------------------
(* Steps.  Votes, views and the wire only grow; that is all most conjuncts need. *)

\* Nothing that is pledged, ready, sent or reached is taken back.
Grows ==
    /\ wire \subseteq wire'
    /\ \A n \in Nodes : view'[n] >= view[n]
    /\ \A n \in Nodes, b \in Blocks :
          (Pledged(n, b) => Pledged(n, b)') /\ (Ready(n, b) => Ready(n, b)')

LEMMA CountedGrows ==
    ASSUME IInv, Grows, NEW n \in Nodes, NEW b \in Blocks, votes'[n][b] = votes[n][b]
    PROVE  Counted(votes[n][b], b)'
  BY DEF IInv, VotesAreCounted, Counted, Grows

LEMMA ProposedGrows ==
    ASSUME IInv, TypeInv', Grows, NEW n \in Nodes, NEW b, ProposedTo(n, b)
    PROVE  ProposedTo(n, b)'
<1>1. PICK v \in 0..view[n] : Vote("PrePrepare", PrimaryOf(v), b) \in wire
  BY DEF ProposedTo
<1>2. view[n] \in Nat /\ view'[n] \in Nat /\ view[n] <= view'[n]
  BY ViewBoundsAssumption DEF IInv, TypeInv, Grows
<1>3. v \in 0..view'[n] /\ Vote("PrePrepare", PrimaryOf(v), b) \in wire'
  BY <1>1, <1>2 DEF Grows
<1> QED  BY <1>3 DEF ProposedTo

LEMMA PrimaryGrows ==
    ASSUME IInv, TypeInv', Grows, NEW n \in Nodes, primary'[n] = primary[n]
    PROVE  \E v \in 0..view'[n] : primary'[n] = PrimaryOf(v)
<1>1. PICK v \in 0..view[n] : primary[n] = PrimaryOf(v)
  BY DEF IInv, PrimariesPropose
<1>2. view[n] \in Nat /\ view'[n] \in Nat /\ view[n] <= view'[n]
  BY ViewBoundsAssumption DEF IInv, TypeInv, Grows
<1> QED  BY <1>1, <1>2

\* A step that changes no votes keeps what is counted.
LEMMA SameVotes ==
    ASSUME IInv, Grows, UNCHANGED votes PROVE VotesAreCounted'
  BY CountedGrows DEF VotesAreCounted

LEMMA InitEstablishes == ASSUME Init PROVE IInv
<1>1. PrimaryOf(0) \in Nodes  BY PrimaryIsANode
<1>2. NoVotes \in VotesType  BY DEF NoVotes, VotesType
<1>3. TypeInv  BY <1>1, <1>2, ViewBoundsAssumption DEF Init, TypeInv
<1>4. VotesAreBacked  BY DEF Init, VotesAreBacked
<1>5. \A n \in Nodes, b \in Blocks : votes[n][b] = NoVotes  BY DEF Init
<1>6. VotesAreCounted
  <2>1. \A b \in Blocks : Counted(NoVotes, b)
    BY FS_EmptySet, ThresholdIsPositive DEF Counted, NoVotes
  <2> QED  BY <1>5, <2>1 DEF VotesAreCounted
<1>7. PrimariesPropose
  <2>1. \A n \in Nodes, b \in Blocks : ~Pledged(n, b)  BY <1>5 DEF Pledged, NoVotes
  <2>2. \A n \in Nodes : checking[n] = {} /\ primary[n] = PrimaryOf(0) /\ view[n] = 0
    BY DEF Init
  <2>3. \A n \in Nodes : 0 \in 0..view[n]  BY <2>2
  <2> QED  BY <2>1, <2>2, <2>3 DEF PrimariesPropose
<1> QED  BY <1>3, <1>4, <1>6, <1>7 DEF IInv

LEMMA ProposeStep ==
    ASSUME IInv, NEW n \in Nodes, NEW b \in Blocks, Propose(n, b) PROVE IInv'
<1>1. /\ wire' = wire \cup {Vote("PrePrepare", n, b)}
      /\ UNCHANGED <<view, primary, checking, votes, viewChanges>>
  BY DEF Propose
<1>2. Vote("PrePrepare", n, b) \in Message  BY DEF Vote, Message
<1>3. TypeInv'  BY <1>1, <1>2 DEF IInv, TypeInv
<1>4. Grows  BY <1>1, ViewBoundsAssumption DEF Grows, Pledged, Ready, IInv, TypeInv
<1>5. \A m \in Nodes, c \in Blocks : /\ Vote("Prepare", m, c) # Vote("PrePrepare", n, b)
                                     /\ Vote("Commit", m, c) # Vote("PrePrepare", n, b)
  BY DEF Vote
<1>6. VotesAreBacked'  BY <1>1, <1>5 DEF IInv, VotesAreBacked, Pledged, Ready
<1>7. VotesAreCounted'  BY <1>1, <1>4, SameVotes
<1>8. PrimariesPropose'
  BY <1>1, <1>3, <1>4, ProposedGrows, PrimaryGrows DEF IInv, PrimariesPropose, Pledged
<1> QED  BY <1>3, <1>6, <1>7, <1>8 DEF IInv

LEMMA CheckStep ==
    ASSUME IInv, NEW n \in Nodes, NEW b \in Blocks, CheckPrePrepare(n, b) PROVE IInv'
<1>1. /\ checking' = [checking EXCEPT ![n] = checking[n] \cup {b}]
      /\ b \in ValidBlocks
      /\ Vote("PrePrepare", primary[n], b) \in wire
      /\ UNCHANGED <<view, primary, votes, viewChanges, wire>>
  BY DEF CheckPrePrepare
<1>2. TypeInv'  BY <1>1 DEF IInv, TypeInv
<1>3. Grows  BY <1>1, ViewBoundsAssumption DEF Grows, Pledged, Ready, IInv, TypeInv
<1>4. VotesAreBacked'  BY <1>1 DEF IInv, VotesAreBacked, Pledged, Ready
<1>5. VotesAreCounted'  BY <1>1, <1>3, SameVotes
<1>6. PrimariesPropose'
  <2>1. ProposedTo(n, b)
    BY <1>1, Zenon DEF IInv, PrimariesPropose, ProposedTo
  <2>2. \A m \in Nodes : \A c \in checking'[m] : c \in checking[m] \/ (m = n /\ c = b)
    BY <1>1 DEF IInv, TypeInv
  <2>3. \A m \in Nodes : \A c \in checking'[m] : ProposedTo(m, c)'
    BY <1>2, <1>3, <2>1, <2>2, ProposedGrows DEF IInv, PrimariesPropose
  <2>4. \A m \in Nodes : \A c \in Blocks : Pledged(m, c)' => ProposedTo(m, c)'
    BY <1>1, <1>2, <1>3, ProposedGrows DEF IInv, PrimariesPropose, Pledged
  <2> QED  BY <1>1, <1>2, <1>3, <2>3, <2>4, PrimaryGrows DEF PrimariesPropose
<1> QED  BY <1>2, <1>4, <1>5, <1>6 DEF IInv

LEMMA FinishStep ==
    ASSUME IInv, NEW n \in Nodes, NEW b \in Blocks, FinishPrePrepare(n, b) PROVE IInv'
<1>1. /\ b \in checking[n]
      /\ checking' = [checking EXCEPT ![n] = checking[n] \ {b}]
      /\ UNCHANGED <<view, primary, viewChanges>>
  BY DEF FinishPrePrepare
<1>2. \A m \in Nodes : checking'[m] \subseteq checking[m]
  BY <1>1 DEF IInv, TypeInv
<1>3. checking' \in [Nodes -> SUBSET ValidBlocks]
  BY <1>1 DEF IInv, TypeInv
<1>4. ASSUME Grows, TypeInv', VotesAreBacked', VotesAreCounted',
             \A m \in Nodes, c \in Blocks : Pledged(m, c)' => Pledged(m, c) \/ (m = n /\ c = b)
      PROVE  IInv'
  <2>1. ProposedTo(n, b)  BY <1>1 DEF IInv, PrimariesPropose
  <2>2. \A m \in Nodes : \A c \in checking'[m] : ProposedTo(m, c)'
    BY <1>2, <1>4, ProposedGrows DEF IInv, PrimariesPropose
  <2>3. \A m \in Nodes : \A c \in Blocks : Pledged(m, c)' => ProposedTo(m, c)'
    BY <1>4, <2>1, ProposedGrows DEF IInv, PrimariesPropose
  <2>4. PrimariesPropose'
    BY <1>1, <1>4, <2>2, <2>3, PrimaryGrows DEF PrimariesPropose
  <2> QED  BY <1>4, <2>4 DEF IInv
<1>5. CASE votes[n][b].prePrepared
  <2>1. UNCHANGED <<votes, wire>>  BY <1>5 DEF FinishPrePrepare
  <2>2. Grows  BY <1>1, <2>1, ViewBoundsAssumption DEF Grows, Pledged, Ready, IInv, TypeInv
  <2>3. TypeInv'  BY <1>1, <1>3, <2>1 DEF IInv, TypeInv
  <2>4. VotesAreBacked'  BY <2>1 DEF IInv, VotesAreBacked, Pledged, Ready
  <2>5. VotesAreCounted'  BY <2>1, <2>2, SameVotes
  <2> QED  BY <1>4, <2>1, <2>2, <2>3, <2>4, <2>5 DEF Pledged
<1>6. CASE ~votes[n][b].prePrepared
  <2> DEFINE s == votes[n][b]
             t == [s EXCEPT !.prePrepared = TRUE]
  <2>1. wire' = wire \cup {Vote("Prepare", n, b)}  BY <1>6 DEF FinishPrePrepare
  <2>2. votes' = [votes EXCEPT ![n][b] = t]
    BY <1>6 DEF FinishPrePrepare, IInv, TypeInv
  <2>3. /\ s \in VotesType /\ t \in VotesType
        /\ t.prePrepared
        /\ t.preparedBy = s.preparedBy /\ t.prepareCount = s.prepareCount
        /\ t.prepared = s.prepared /\ t.committedBy = s.committedBy
        /\ t.commitCount = s.commitCount /\ t.committed = s.committed
    <3>1. s \in VotesType  BY DEF IInv, TypeInv
    <3> HIDE DEF s
    <3>2. t \in VotesType  BY <3>1 DEF VotesType
    <3>3. t.prePrepared  BY <3>1 DEF VotesType
    <3>4. /\ t.preparedBy = s.preparedBy /\ t.prepareCount = s.prepareCount
          /\ t.prepared = s.prepared /\ t.committedBy = s.committedBy
          /\ t.commitCount = s.commitCount /\ t.committed = s.committed
      BY <3>1 DEF VotesType
    <3> QED  BY <3>1, <3>2, <3>3, <3>4
  <2> HIDE DEF s, t
  <2>4. /\ votes'[n][b] = t
        /\ \A m \in Nodes, c \in Blocks : m # n \/ c # b => votes'[m][c] = votes[m][c]
        /\ votes' \in [Nodes -> [Blocks -> VotesType]]
    BY <2>2, <2>3 DEF IInv, TypeInv
  <2>5. Grows
    <3>1. \A m \in Nodes, c \in Blocks :
             (Pledged(m, c) => Pledged(m, c)') /\ (Ready(m, c) => Ready(m, c)')
      BY <2>3, <2>4, Zenon DEF Pledged, Ready, s
    <3> QED  BY <1>1, <2>1, <3>1, ViewBoundsAssumption DEF Grows, IInv, TypeInv
  <2>6. Vote("Prepare", n, b) \in Message  BY DEF Vote, Message
  <2>7. TypeInv'  BY <1>1, <1>3, <2>1, <2>4, <2>6 DEF IInv, TypeInv
  <2>8. VotesAreBacked'
    <3>1. ASSUME NEW m \in Nodes, NEW c \in Blocks, Vote("Prepare", m, c) \in wire'
          PROVE  Pledged(m, c)'
      <4>1. Vote("Prepare", m, c) \in wire \/ (m = n /\ c = b)  BY <2>1, <3>1 DEF Vote
      <4>2. CASE m = n /\ c = b  BY <2>3, <2>4, <4>2, Zenon DEF Pledged
      <4> QED  BY <2>5, <4>1, <4>2 DEF Grows, IInv, VotesAreBacked
    <3>2. ASSUME NEW m \in Nodes, NEW c \in Blocks, Vote("Commit", m, c) \in wire'
          PROVE  Ready(m, c)'
      <4>1. Vote("Commit", m, c) \in wire  BY <2>1, <3>2 DEF Vote
      <4> QED  BY <2>5, <4>1 DEF Grows, IInv, VotesAreBacked
    <3> QED  BY <3>1, <3>2 DEF VotesAreBacked
  <2>9. VotesAreCounted'
    <3> SUFFICES ASSUME NEW m \in Nodes, NEW c \in Blocks PROVE Counted(votes[m][c], c)'
      BY DEF VotesAreCounted
    <3>1. CASE m = n /\ c = b
      <4>1. Counted(s, b)  BY DEF IInv, VotesAreCounted, s
      <4> QED  BY <2>3, <2>4, <2>5, <3>1, <4>1 DEF Counted, Grows
    <3>2. CASE m # n \/ c # b  BY <2>4, <2>5, <3>2, CountedGrows
    <3> QED  BY <3>1, <3>2
  <2>10. \A m \in Nodes, c \in Blocks : Pledged(m, c)' => Pledged(m, c) \/ (m = n /\ c = b)
    BY <2>4, Zenon DEF Pledged
  <2> QED  BY <1>4, <2>5, <2>7, <2>8, <2>9, <2>10
<1> QED  BY <1>5, <1>6


\* Pre-prepares, views and primaries are as before.
LEMMA SamePledges ==
    ASSUME IInv, TypeInv', Grows, UNCHANGED <<view, primary, checking>>,
           \A m \in Nodes, c \in Blocks : Pledged(m, c)' = Pledged(m, c)
    PROVE  PrimariesPropose'
  BY ProposedGrows, PrimaryGrows DEF IInv, PrimariesPropose

\* RecordPrepare counts a voter once.
LEMMA PrepareIsCounted ==
    ASSUME IInv, NEW n \in Nodes, NEW b \in Blocks, NEW from \in Nodes, Pledged(from, b)
    PROVE  LET s == votes[n][b]
               t == RecordPrepare(s, from)
           IN  /\ t \in VotesType
               /\ t.prePrepared = s.prePrepared
               /\ s.prepared => t.prepared
               /\ Counted(t, b)
<1> DEFINE s == votes[n][b]
           t == [s EXCEPT !.preparedBy = @ \cup {from},
                          !.prepareCount = @ + 1,
                          !.prepared = @ \/ s.prepareCount + 1 >= Threshold]
<1>1. s \in VotesType /\ Counted(s, b)  BY DEF IInv, TypeInv, VotesAreCounted
<1> HIDE DEF s
<1> DEFINE p == s.prepared \/ s.prepareCount + 1 >= Threshold
<1>2. /\ t.preparedBy = s.preparedBy \cup {from}
      /\ t.prepareCount = s.prepareCount + 1
      /\ t.prePrepared = s.prePrepared
      /\ t.committedBy = s.committedBy /\ t.commitCount = s.commitCount
      /\ t.committed = s.committed
      /\ t.prepared = p
      /\ t \in VotesType
  <2> DEFINE x == s.preparedBy \cup {from}
             y == s.prepareCount + 1
  <2>1. x \in SUBSET Nodes /\ y \in Nat /\ p \in BOOLEAN  BY <1>1 DEF VotesType
  <2> DEFINE r1 == [s EXCEPT !.preparedBy = x]
             r2 == [r1 EXCEPT !.prepareCount = y]
             r3 == [r2 EXCEPT !.prepared = p]
             Same(q) == /\ q.prePrepared = s.prePrepared
                        /\ q.committedBy = s.committedBy /\ q.commitCount = s.commitCount
                        /\ q.committed = s.committed
  <2>2. t = r3  OBVIOUS
  <2> HIDE DEF x, y, p, t
  <2>3. r1 \in VotesType /\ r1.preparedBy = x /\ Same(r1)
    BY <1>1, <2>1 DEF VotesType
  <2> HIDE DEF r1
  <2>4. r2 \in VotesType /\ r2.preparedBy = x /\ r2.prepareCount = y /\ Same(r2)
    BY <2>1, <2>3 DEF VotesType
  <2> HIDE DEF r2
  <2>5. /\ r3 \in VotesType /\ r3.preparedBy = x /\ r3.prepareCount = y
        /\ r3.prepared = p /\ Same(r3)
    BY <2>1, <2>4 DEF VotesType
  <2> HIDE DEF r3
  <2> QED  BY <2>2, <2>5 DEF x, y
<1>3. t.prepared = (s.prepared \/ s.prepareCount + 1 >= Threshold)
  BY <1>2
<1> HIDE DEF t
<1>4. ASSUME from \notin s.preparedBy PROVE Counted(t, b)
  <2>1. Cardinality(t.preparedBy) = t.prepareCount
    <3>1. s.preparedBy \in SUBSET Nodes  BY <1>1 DEF VotesType
    <3>2. Cardinality(s.preparedBy \cup {from}) = Cardinality(s.preparedBy) + 1
      BY <1>4, <3>1, OneMoreVoter
    <3> QED  BY <1>1, <1>2, <3>2 DEF Counted
  <2>2. t.preparedBy \subseteq {m \in Nodes : Pledged(m, b)}
    BY <1>1, <1>2 DEF Counted
  <2>3. t.prepared => t.prepareCount >= Threshold
    <3>0. t.prepared => s.prepared \/ s.prepareCount + 1 >= Threshold  BY <1>3, Zenon
    <3>1. s.prepared => s.prepareCount >= Threshold  BY <1>1 DEF Counted
    <3>2. s.prepareCount \in Nat  BY <1>1 DEF VotesType
    <3>3. t.prepareCount = s.prepareCount + 1  BY <1>2
    <3> QED  BY <3>0, <3>1, <3>2, <3>3, ThresholdIsPositive
  <2>4. /\ t.committedBy \subseteq {m \in Nodes : Ready(m, b)}
        /\ t.commitCount = Cardinality(t.committedBy)
        /\ t.committed => t.commitCount >= Threshold
    BY <1>1, <1>2 DEF Counted
  <2> QED  BY <2>1, <2>2, <2>3, <2>4 DEF Counted
<1>5. CASE from \in s.preparedBy
  BY <1>1, <1>5 DEF RecordPrepare, s
<1>6. CASE from \notin s.preparedBy
  <2>1. RecordPrepare(s, from) = IF from \in s.preparedBy THEN s ELSE t
    BY DEF RecordPrepare, t
  <2>2. RecordPrepare(s, from) = t  BY <1>6, <2>1
  <2> QED  BY <1>2, <1>3, <1>4, <1>6, <2>2, Zenon DEF s
<1> QED  BY <1>5, <1>6

\* RecordCommit counts a voter once.
LEMMA CommitIsCounted ==
    ASSUME IInv, NEW n \in Nodes, NEW b \in Blocks, NEW from \in Nodes, Ready(from, b)
    PROVE  LET s == votes[n][b]
               t == RecordCommit(s, from)
           IN  /\ t \in VotesType
               /\ t.prePrepared = s.prePrepared
               /\ t.prepared = s.prepared
               /\ Counted(t, b)
<1> DEFINE s == votes[n][b]
           t == [s EXCEPT !.committedBy = @ \cup {from},
                          !.commitCount = @ + 1,
                          !.committed = @ \/ s.commitCount + 1 >= Threshold]
<1>1. s \in VotesType /\ Counted(s, b)  BY DEF IInv, TypeInv, VotesAreCounted
<1> HIDE DEF s
<1> DEFINE p == s.committed \/ s.commitCount + 1 >= Threshold
<1>2. /\ t.committedBy = s.committedBy \cup {from}
      /\ t.commitCount = s.commitCount + 1
      /\ t.prePrepared = s.prePrepared
      /\ t.preparedBy = s.preparedBy /\ t.prepareCount = s.prepareCount
      /\ t.prepared = s.prepared
      /\ t.committed = p
      /\ t \in VotesType
  <2> DEFINE x == s.committedBy \cup {from}
             y == s.commitCount + 1
  <2>1. x \in SUBSET Nodes /\ y \in Nat /\ p \in BOOLEAN  BY <1>1 DEF VotesType
  <2> DEFINE r1 == [s EXCEPT !.committedBy = x]
             r2 == [r1 EXCEPT !.commitCount = y]
             r3 == [r2 EXCEPT !.committed = p]
             Same(q) == /\ q.prePrepared = s.prePrepared
                        /\ q.preparedBy = s.preparedBy /\ q.prepareCount = s.prepareCount
                        /\ q.prepared = s.prepared
  <2>2. t = r3  OBVIOUS
  <2> HIDE DEF x, y, p, t
  <2>3. r1 \in VotesType /\ r1.committedBy = x /\ Same(r1)
    BY <1>1, <2>1 DEF VotesType
  <2> HIDE DEF r1
  <2>4. r2 \in VotesType /\ r2.committedBy = x /\ r2.commitCount = y /\ Same(r2)
    BY <2>1, <2>3 DEF VotesType
  <2> HIDE DEF r2
  <2>5. /\ r3 \in VotesType /\ r3.committedBy = x /\ r3.commitCount = y
        /\ r3.committed = p /\ Same(r3)
    BY <2>1, <2>4 DEF VotesType
  <2> HIDE DEF r3
  <2> QED  BY <2>2, <2>5 DEF x, y
<1>3. t.committed = (s.committed \/ s.commitCount + 1 >= Threshold)
  BY <1>2
<1> HIDE DEF t
<1>4. ASSUME from \notin s.committedBy PROVE Counted(t, b)
  <2>1. Cardinality(t.committedBy) = t.commitCount
    <3>1. s.committedBy \in SUBSET Nodes  BY <1>1 DEF VotesType
    <3>2. Cardinality(s.committedBy \cup {from}) = Cardinality(s.committedBy) + 1
      BY <1>4, <3>1, OneMoreVoter
    <3> QED  BY <1>1, <1>2, <3>2 DEF Counted
  <2>2. t.committedBy \subseteq {m \in Nodes : Ready(m, b)}
    BY <1>1, <1>2 DEF Counted
  <2>3. t.committed => t.commitCount >= Threshold
    <3>0. t.committed => s.committed \/ s.commitCount + 1 >= Threshold  BY <1>3, Zenon
    <3>1. s.committed => s.commitCount >= Threshold  BY <1>1 DEF Counted
    <3>2. s.commitCount \in Nat  BY <1>1 DEF VotesType
    <3>3. t.commitCount = s.commitCount + 1  BY <1>2
    <3> QED  BY <3>0, <3>1, <3>2, <3>3, ThresholdIsPositive
  <2>4. /\ t.preparedBy \subseteq {m \in Nodes : Pledged(m, b)}
        /\ t.prepareCount = Cardinality(t.preparedBy)
        /\ t.prepared => t.prepareCount >= Threshold
    BY <1>1, <1>2 DEF Counted
  <2> QED  BY <2>1, <2>2, <2>3, <2>4 DEF Counted
<1>5. CASE from \in s.committedBy
  BY <1>1, <1>5 DEF RecordCommit, s
<1>6. CASE from \notin s.committedBy
  <2>1. RecordCommit(s, from) = IF from \in s.committedBy THEN s ELSE t
    BY DEF RecordCommit, t
  <2>2. RecordCommit(s, from) = t  BY <1>6, <2>1
  <2> QED  BY <1>2, <1>4, <1>6, <2>2, Zenon DEF s
<1> QED  BY <1>5, <1>6

\* Either handler of a vote: the state of one block becomes t, and a commit is
\* sent when t is the first one to be prepared.
LEMMA VoteStep ==
    ASSUME IInv, NEW n \in Nodes, NEW b \in Blocks, NEW t \in VotesType,
           votes' = [votes EXCEPT ![n][b] = t],
           t.prePrepared = votes[n][b].prePrepared,
           votes[n][b].prepared => t.prepared,
           Counted(t, b),
           \/ wire' = wire
           \/ t.prepared /\ wire' = wire \cup {Vote("Commit", n, b)},
           UNCHANGED <<view, primary, checking, viewChanges>>
    PROVE  IInv'
<1>1. /\ votes'[n][b] = t
      /\ \A m \in Nodes, c \in Blocks : m # n \/ c # b => votes'[m][c] = votes[m][c]
      /\ votes' \in [Nodes -> [Blocks -> VotesType]]
  BY DEF IInv, TypeInv
<1>2. \A m \in Nodes, c \in Blocks :
         /\ Pledged(m, c)' = Pledged(m, c)
         /\ Ready(m, c) => Ready(m, c)'
  <2> SUFFICES ASSUME NEW m \in Nodes, NEW c \in Blocks
               PROVE  Pledged(m, c)' = Pledged(m, c) /\ (Ready(m, c) => Ready(m, c)')
    OBVIOUS
  <2>1. CASE m = n /\ c = b  BY <1>1, <2>1, Zenon DEF Pledged, Ready
  <2>2. CASE m # n \/ c # b  BY <1>1, <2>2, Zenon DEF Pledged, Ready
  <2> QED  BY <2>1, <2>2
<1>3. Grows  BY <1>2, ViewBoundsAssumption DEF Grows, IInv, TypeInv
<1>4. TypeInv'
  <2>1. Vote("Commit", n, b) \in Message  BY DEF Vote, Message
  <2> QED  BY <1>1, <2>1 DEF IInv, TypeInv
<1>5. VotesAreBacked'
  <2>1. ASSUME NEW m \in Nodes, NEW c \in Blocks, Vote("Prepare", m, c) \in wire'
        PROVE  Pledged(m, c)'
    <3>1. Vote("Prepare", m, c) \in wire  BY <2>1 DEF Vote
    <3> QED  BY <1>2, <3>1 DEF IInv, VotesAreBacked
  <2>2. ASSUME NEW m \in Nodes, NEW c \in Blocks, Vote("Commit", m, c) \in wire'
        PROVE  Ready(m, c)'
    <3>1. Vote("Commit", m, c) \in wire \/ (m = n /\ c = b /\ t.prepared)
      BY <2>2 DEF Vote
    <3>2. CASE m = n /\ c = b /\ t.prepared  BY <1>1, <3>2 DEF Ready
    <3> QED  BY <1>2, <3>1, <3>2 DEF IInv, VotesAreBacked
  <2> QED  BY <2>1, <2>2 DEF VotesAreBacked
<1>6. VotesAreCounted'
  <2> SUFFICES ASSUME NEW m \in Nodes, NEW c \in Blocks PROVE Counted(votes[m][c], c)'
    BY DEF VotesAreCounted
  <2>1. CASE m = n /\ c = b
    <3>1. \A k \in Nodes : (Pledged(k, b) => Pledged(k, b)') /\ (Ready(k, b) => Ready(k, b)')
      BY <1>2
    <3>2. /\ t.preparedBy \subseteq {k \in Nodes : Pledged(k, b)'}
          /\ t.committedBy \subseteq {k \in Nodes : Ready(k, b)'}
      BY <3>1 DEF Counted
    <3> QED  BY <1>1, <2>1, <3>2 DEF Counted
  <2>2. CASE m # n \/ c # b  BY <1>1, <1>3, <2>2, CountedGrows
  <2> QED  BY <2>1, <2>2
<1>7. PrimariesPropose'  BY <1>2, <1>3, <1>4, SamePledges
<1> QED  BY <1>4, <1>5, <1>6, <1>7 DEF IInv

LEMMA PrepareStep == ASSUME IInv, NEW n \in Nodes, handlePrepare(n) PROVE IInv'
<1>1. PICK m \in wire :
         /\ m.type = "Prepare"
         /\ LET s == votes[n][m.block]
                t == RecordPrepare(s, m.from)
            IN  /\ votes' = [votes EXCEPT ![n][m.block] = t]
                /\ wire' = IF t.prepared /\ ~s.prepared
                           THEN wire \cup {Vote("Commit", n, m.block)} ELSE wire
  BY DEF handlePrepare
<1> DEFINE b == m.block
           t == RecordPrepare(votes[n][b], m.from)
<1>2. m \in Message  BY DEF IInv, TypeInv
<1>3. b \in Blocks /\ m.from \in Nodes /\ m = Vote("Prepare", m.from, b)
  BY <1>1, <1>2 DEF Message, Vote
<1>4. Pledged(m.from, b)  BY <1>3, Zenon DEF IInv, VotesAreBacked
<1>5. /\ t \in VotesType
      /\ t.prePrepared = votes[n][b].prePrepared
      /\ votes[n][b].prepared => t.prepared
      /\ Counted(t, b)
  BY <1>3, <1>4, PrepareIsCounted
<1>6. UNCHANGED <<view, primary, checking, viewChanges>>  BY DEF handlePrepare
<1>7. /\ votes' = [votes EXCEPT ![n][b] = t]
      /\ wire' = wire \/ (t.prepared /\ wire' = wire \cup {Vote("Commit", n, b)})
  BY <1>1, Zenon
<1> HIDE DEF b, t
<1> QED  BY <1>3, <1>5, <1>6, <1>7, VoteStep

LEMMA CommitStep == ASSUME IInv, NEW n \in Nodes, handleCommit(n) PROVE IInv'
<1>1. PICK m \in wire :
         /\ m.type = "Commit"
         /\ votes' = [votes EXCEPT ![n][m.block] = RecordCommit(votes[n][m.block], m.from)]
  BY DEF handleCommit, IInv, TypeInv
<1> DEFINE b == m.block
           t == RecordCommit(votes[n][b], m.from)
<1>2. m \in Message  BY DEF IInv, TypeInv
<1>3. b \in Blocks /\ m.from \in Nodes /\ m = Vote("Commit", m.from, b)
  BY <1>1, <1>2 DEF Message, Vote
<1>4. Ready(m.from, b)  BY <1>3, Zenon DEF IInv, VotesAreBacked
<1>5. /\ t \in VotesType
      /\ t.prePrepared = votes[n][b].prePrepared
      /\ t.prepared = votes[n][b].prepared
      /\ Counted(t, b)
  BY <1>3, <1>4, CommitIsCounted
<1>6. UNCHANGED <<view, primary, checking, viewChanges, wire>>  BY DEF handleCommit
<1>7. votes' = [votes EXCEPT ![n][b] = t]  BY <1>1, Zenon
<1> HIDE DEF b, t
<1> QED  BY <1>3, <1>5, <1>6, <1>7, VoteStep

\* Views and primaries change, votes do not.
LEMMA ViewStep ==
    ASSUME IInv, TypeInv', Grows, UNCHANGED <<checking, votes>>,
           \A m \in Nodes, c \in Blocks :
              /\ Vote("Prepare", m, c) \in wire' => Vote("Prepare", m, c) \in wire
              /\ Vote("Commit", m, c) \in wire' => Vote("Commit", m, c) \in wire,
           \A m \in Nodes : primary'[m] = primary[m] \/ primary'[m] = PrimaryOf(view'[m])
    PROVE  IInv'
<1>1. VotesAreBacked'  BY DEF IInv, VotesAreBacked, Pledged, Ready
<1>2. VotesAreCounted'  BY SameVotes
<1>3. ASSUME NEW m \in Nodes PROVE \E v \in 0..view'[m] : primary'[m] = PrimaryOf(v)
  <2>1. view'[m] \in 0..view'[m]  BY ViewBoundsAssumption DEF TypeInv
  <2> QED  BY <2>1, PrimaryGrows
<1>4. \A m \in Nodes, c \in Blocks : Pledged(m, c)' = Pledged(m, c)  BY DEF Pledged
<1>5. PrimariesPropose'
  BY <1>3, <1>4, ProposedGrows DEF IInv, PrimariesPropose
<1> QED  BY <1>1, <1>2, <1>5 DEF IInv

LEMMA ViewChangeStep == ASSUME IInv, NEW n \in Nodes, handleViewChange(n) PROVE IInv'
<1>1. UNCHANGED <<checking, votes, wire>>  BY DEF handleViewChange
<1>2. PICK m \in wire :
         /\ m.type = "ViewChange"
         /\ viewChanges[n][m.from][m.view] < MaxRepeats
         /\ viewChanges' = [viewChanges EXCEPT ![n] =
               [viewChanges[n] EXCEPT ![m.from][m.view] = viewChanges[n][m.from][m.view] + 1]]
         /\ \/ /\ m.view > view[n]
               /\ view' = [view EXCEPT ![n] = m.view]
               /\ primary' = [primary EXCEPT ![n] = PrimaryOf(m.view)]
            \/ UNCHANGED <<view, primary>>
  BY DEF handleViewChange, EnterView, IInv, TypeInv
<1> DEFINE a == m.from
           w == m.view
           k == viewChanges[n][a][w]
<1>3. a \in Nodes /\ w \in 1..MaxView
  BY <1>2 DEF IInv, TypeInv, Message
<1>4. PrimaryOf(w) \in Nodes  BY <1>3, PrimaryIsANode, ViewBoundsAssumption
<1>5. /\ k < MaxRepeats
      /\ viewChanges' = [viewChanges EXCEPT ![n] = [viewChanges[n] EXCEPT ![a][w] = k + 1]]
      /\ \/ /\ w > view[n]
            /\ view' = [view EXCEPT ![n] = w]
            /\ primary' = [primary EXCEPT ![n] = PrimaryOf(w)]
         \/ UNCHANGED <<view, primary>>
  BY <1>2
<1> HIDE DEF a, w
<1>6. /\ view' \in [Nodes -> 0..MaxView] /\ primary' \in [Nodes -> Nodes]
      /\ \A i \in Nodes : view'[i] >= view[i]
      /\ \A i \in Nodes : primary'[i] = primary[i] \/ primary'[i] = PrimaryOf(view'[i])
  <2>1. view \in [Nodes -> 0..MaxView] /\ primary \in [Nodes -> Nodes]
    BY DEF IInv, TypeInv
  <2>2. CASE UNCHANGED <<view, primary>>  BY <2>1, <2>2, ViewBoundsAssumption
  <2>3. CASE /\ w > view[n]
             /\ view' = [view EXCEPT ![n] = w]
             /\ primary' = [primary EXCEPT ![n] = PrimaryOf(w)]
    BY <1>3, <1>4, <2>1, <2>3, ViewBoundsAssumption
  <2> QED  BY <1>5, <2>2, <2>3
<1>7. viewChanges' \in [Nodes -> [Nodes -> [1..MaxView -> 0..MaxRepeats]]]
  <2> DEFINE f == [viewChanges[n] EXCEPT ![a][w] = k + 1]
  <2>1. viewChanges[n] \in [Nodes -> [1..MaxView -> 0..MaxRepeats]]
    BY DEF IInv, TypeInv
  <2>2. k \in 0..MaxRepeats  BY <1>3, <2>1
  <2> HIDE DEF k
  <2>3. k + 1 \in 0..MaxRepeats  BY <1>5, <2>2, ViewBoundsAssumption
  <2>4. f \in [Nodes -> [1..MaxView -> 0..MaxRepeats]]  BY <1>3, <2>1, <2>3
  <2>5. viewChanges' = [viewChanges EXCEPT ![n] = f]  BY <1>5
  <2> HIDE DEF f
  <2> QED  BY <2>4, <2>5 DEF IInv, TypeInv
<1>8. TypeInv'  BY <1>1, <1>6, <1>7 DEF IInv, TypeInv
<1>9. Grows  BY <1>1, <1>6 DEF Grows, Pledged, Ready
<1> QED  BY <1>1, <1>6, <1>8, <1>9, ViewStep

LEMMA InitiateStep == ASSUME IInv, NEW n \in Nodes, InitiateViewChange(n) PROVE IInv'
<1> DEFINE m == ViewChange(n, view[n] + 1)
<1>1. /\ view[n] < MaxView
      /\ view' = [view EXCEPT ![n] = view[n] + 1]
      /\ wire' = wire \cup {m}
      /\ UNCHANGED <<primary, checking, votes, viewChanges>>
  BY DEF InitiateViewChange
<1>2. view[n] + 1 \in 1..MaxView  BY <1>1, ViewBoundsAssumption DEF IInv, TypeInv
<1>3. m \in Message  BY <1>2 DEF Message, ViewChange
<1>4. TypeInv'  BY <1>1, <1>2, <1>3 DEF IInv, TypeInv
<1>5. \A k \in Nodes : view'[k] >= view[k]
  BY <1>1, ViewBoundsAssumption DEF IInv, TypeInv
<1>6. Grows  BY <1>1, <1>5 DEF Grows, Pledged, Ready
<1>7. \A k \in Nodes, c \in Blocks : Vote("Prepare", k, c) # m /\ Vote("Commit", k, c) # m
  BY DEF Vote, ViewChange
<1> QED  BY <1>1, <1>4, <1>6, <1>7, ViewStep

LEMMA StepKeeps == ASSUME IInv, [Next]_vars PROVE IInv'
<1>1. CASE UNCHANGED vars
  BY <1>1 DEF vars, IInv, TypeInv, VotesAreBacked, VotesAreCounted, Counted,
     PrimariesPropose, ProposedTo, Pledged, Ready
<1>2. CASE Next
  <2>1. PICK n \in Running :
           \/ \E b \in Blocks :
                 Propose(n, b) \/ CheckPrePrepare(n, b) \/ FinishPrePrepare(n, b)
           \/ handlePrepare(n) \/ handleCommit(n)
           \/ handleViewChange(n) \/ InitiateViewChange(n)
    BY <1>2 DEF Next
  <2>2. n \in Nodes  BY ValidatorsAssumption
  <2> QED  BY <2>1, <2>2, ProposeStep, CheckStep, FinishStep, PrepareStep, CommitStep,
           ViewChangeStep, InitiateStep
<1> QED  BY <1>1, <1>2

-----------------------------------------------------------------------------
(* Agreement in the first view: what is committed there was proposed by its  *)
(* primary, and OneProposal makes that one block at a position.              *)

OneProposal ==
    \A c, d \in wire :
        /\ c.type = "PrePrepare" /\ d.type = "PrePrepare"
        /\ c.from = d.from /\ Height[c.block] = Height[d.block]
        => c.block = d.block

\* A step that sends no pre-prepare.
LEMMA NoProposal ==
    ASSUME OneProposal, \A c \in wire' \ wire : c.type # "PrePrepare"
    PROVE  OneProposal'
  BY DEF OneProposal

LEMMA ProposalStep ==
    ASSUME OneProposal, NEW n \in Nodes, NEW b \in Blocks, Propose(n, b)
    PROVE  OneProposal'
<1> DEFINE p == Vote("PrePrepare", n, b)
<1>1. /\ wire' = wire \cup {p}
      /\ \A c \in wire : c.type = "PrePrepare" =>
            ~(c.from = n /\ Height[c.block] = Height[b])
  BY DEF Propose
<1>2. p.from = n /\ p.block = b  BY DEF Vote
<1> HIDE DEF p
<1> QED  BY <1>1, <1>2 DEF OneProposal

LEMMA ProposalsStay == ASSUME OneProposal, [Next]_vars PROVE OneProposal'
<1>1. CASE UNCHANGED vars  BY <1>1, NoProposal DEF vars
<1>2. CASE Next
  <2>1. PICK n \in Running :
           \/ \E b \in Blocks :
                 Propose(n, b) \/ CheckPrePrepare(n, b) \/ FinishPrePrepare(n, b)
           \/ handlePrepare(n) \/ handleCommit(n)
           \/ handleViewChange(n) \/ InitiateViewChange(n)
    BY <1>2 DEF Next
  <2>2. n \in Nodes  BY ValidatorsAssumption
  <2>3. CASE \E b \in Blocks : CheckPrePrepare(n, b) \/ FinishPrePrepare(n, b)
    BY <2>3, NoProposal DEF CheckPrePrepare, FinishPrePrepare, Vote
  <2>4. CASE handlePrepare(n)  BY <2>4, NoProposal DEF handlePrepare, Vote
  <2>5. CASE handleCommit(n)  BY <2>5, NoProposal DEF handleCommit
  <2>6. CASE handleViewChange(n)  BY <2>6, NoProposal DEF handleViewChange
  <2>7. CASE InitiateViewChange(n)  BY <2>7, NoProposal DEF InitiateViewChange, ViewChange
  <2> QED  BY <2>1, <2>2, <2>3, <2>4, <2>5, <2>6, <2>7, ProposalStep
<1> QED  BY <1>1, <1>2

LEMMA SomebodyVoted ==
    ASSUME NEW S, Cardinality(S) >= Threshold PROVE \E m \in S : TRUE
  BY ThresholdIsPositive, FS_EmptySet

\* Behind a committed block stands a validator that pre-prepared it.
LEMMA CommittedWasProposed ==
    ASSUME IInv, NEW n \in Nodes, NEW b \in Blocks, votes[n][b].committed
    PROVE  \E m \in Nodes : ProposedTo(m, b)
<1> DEFINE V == {m \in Nodes : votes[m][b].prepared}
           P == {m \in Nodes : votes[m][b].prePrepared}
<1>1. Cardinality(V) >= Threshold  BY QuorumsFromInvariant DEF CommittedByAQuorum
<1>2. PICK m \in V : TRUE  BY <1>1, SomebodyVoted
<1>3. Cardinality(P) >= Threshold  BY <1>2, QuorumsFromInvariant DEF PreparedByAQuorum
<1>4. PICK k \in P : TRUE  BY <1>3, SomebodyVoted
<1>5. k \in Nodes /\ Pledged(k, b)  BY <1>4 DEF Pledged
<1> QED  BY <1>5 DEF IInv, PrimariesPropose

LEMMA AgreementFromInvariant ==
    ASSUME IInv, OneProposal PROVE AgreementInTheFirstView
<1> SUFFICES ASSUME \A n \in Nodes : view[n] = 0,
                    NEW n \in Nodes, NEW m \in Nodes, NEW b \in Blocks, NEW c \in Blocks,
                    votes[n][b].committed, votes[m][c].committed, Height[b] = Height[c]
             PROVE  b = c
  BY DEF AgreementInTheFirstView, Agreement
<1>1. ASSUME NEW k \in Nodes, NEW d \in Blocks, ProposedTo(k, d)
      PROVE  Vote("PrePrepare", PrimaryOf(0), d) \in wire
  <2>1. PICK v \in 0..view[k] : Vote("PrePrepare", PrimaryOf(v), d) \in wire
    BY <1>1 DEF ProposedTo
  <2>2. v = 0  BY <2>1
  <2> QED  BY <2>1, <2>2
<1>2. /\ Vote("PrePrepare", PrimaryOf(0), b) \in wire
      /\ Vote("PrePrepare", PrimaryOf(0), c) \in wire
  BY <1>1, CommittedWasProposed
<1>3. \A d : /\ Vote("PrePrepare", PrimaryOf(0), d).type = "PrePrepare"
             /\ Vote("PrePrepare", PrimaryOf(0), d).from = PrimaryOf(0)
             /\ Vote("PrePrepare", PrimaryOf(0), d).block = d
  BY DEF Vote
<1> QED  BY <1>2, <1>3 DEF OneProposal

-----------------------------------------------------------------------------
\* The inductive invariant holds in every reachable state.
THEOREM Invariance == Spec => []IInv
  BY InitEstablishes, StepKeeps, PTL DEF Spec

\* Every variable has its type, and the counters count the voters.
THEOREM TypeCorrect == Spec => []TypeOK
  BY Invariance, TypeFromInvariant, PTL

\* A prepared block is valid and pre-prepared by Threshold validators.
THEOREM PreparedHasQuorum == Spec => []PreparedByAQuorum
  BY Invariance, QuorumsFromInvariant, PTL

\* A committed block is prepared by Threshold validators.
THEOREM CommittedHasQuorum == Spec => []CommittedByAQuorum
  BY Invariance, QuorumsFromInvariant, PTL

\* Whatever is pre-prepared was proposed by the primary of a view up to the node's own.
THEOREM OnlyPrimariesPropose == Spec => []ProposedByAPrimary
  BY Invariance, ProposerFromInvariant, PTL

\* Before anybody changes the view, at most one block is committed at a
\* position, by any number of validators and whatever the order of the votes.
THEOREM FirstViewAgrees == Spec => []AgreementInTheFirstView
<1>1. Init => OneProposal  BY DEF Init, OneProposal
<1>2. OneProposal /\ [Next]_vars => OneProposal'  BY ProposalsStay
<1>3. IInv /\ OneProposal => AgreementInTheFirstView  BY AgreementFromInvariant
<1> QED  BY <1>1, <1>2, <1>3, Invariance, PTL DEF Spec

=============================================================================
