----------------------------- MODULE DPoSProofs -----------------------------
(***************************************************************************)
(* For any delegates, voters and stakes: votes, seats and stakes stay in   *)
(* step with who is registered; and for any scores, the bubble sort of     *)
(* UpdateActiveDelegates keeps its loop invariant and elects the best.     *)
(***************************************************************************)
EXTENDS DPoS, UpdateActiveDelegates, FiniteSetTheorems, TLAPS

IInv ==
    /\ TypeOK
    /\ VotesAreAccounted
    /\ VotesAreForDelegates
    /\ SeatsAreOfDelegates
    /\ StakesAgree

DelegateType ==
    [stake : Nat \ 0..(MinimumStake - 1), votes : Int, reliability : 0..100,
     isActive : BOOLEAN, forgotten : Nat]

-----------------------------------------------------------------------------
(* What an election leaves and what a departure leaves *)

\* The winners of an election fill at most a round and each win once.
LEMMA ElectionSeats ==
    ASSUME NEW scores, IsFiniteSet(DOMAIN scores), NEW order \in Elections(scores)
    PROVE  /\ order \in Seq(DOMAIN scores)
           /\ Len(order) <= RoundLength
           /\ IsInjective(order)
           /\ Range(order) \subseteq DOMAIN scores
<1> DEFINE n == Seats(Cardinality(DOMAIN scores))
<1>1. n \in Nat /\ n <= RoundLength
  BY FS_CardinalityType, RoundLengthAssumption DEF Seats
<1>2. order \in [1..n -> DOMAIN scores] /\ IsInjective(order)
  BY DEF Elections, Injection
<1> HIDE DEF n
<1>3. order \in Seq(DOMAIN scores) /\ Len(order) = n
  BY <1>1, <1>2
<1>4. Range(order) \subseteq DOMAIN scores
  BY <1>2 DEF Range
<1> QED  BY <1>1, <1>2, <1>3, <1>4

\* Taking the one seat of d away leaves the other seats.
LEMMA OneSeatLess ==
    ASSUME NEW d, activeDelegates \in Seq(Ids), IsInjective(activeDelegates)
    PROVE  /\ SeatsLeft(d) \in Seq(Ids)
           /\ Len(SeatsLeft(d)) <= Len(activeDelegates)
           /\ IsInjective(SeatsLeft(d))
           /\ Range(SeatsLeft(d)) = Range(activeDelegates) \ {d}
<1> DEFINE s == activeDelegates
<1>1. CASE d \notin Range(s)
  BY <1>1 DEF SeatsLeft
<1>2. CASE d \in Range(s)
  <2> DEFINE at == CHOOSE k \in DOMAIN s : s[k] = d
             r == RemoveAt(s, at)
  <2>1. at \in DOMAIN s /\ s[at] = d
    BY <1>2 DEF Range
  <2>2. SeatsLeft(d) = r
    BY <1>2 DEF SeatsLeft
  <2> HIDE DEF at
  <2>3. /\ r \in Seq(Ids)
        /\ Len(r) = Len(s) - 1
        /\ \A k \in 1..Len(r) : r[k] = IF k < at THEN s[k] ELSE s[k + 1]
    <3> DEFINE before == SubSeq(s, 1, at - 1)
               after == SubSeq(s, at + 1, Len(s))
    <3>1. /\ before \in Seq(Ids)
          /\ Len(before) = at - 1
          /\ \A k \in 1..(at - 1) : before[k] = s[k]
      BY <2>1
    <3>2. /\ after \in Seq(Ids)
          /\ Len(after) = Len(s) - at
          /\ \A k \in 1..(Len(s) - at) : after[k] = s[at + k]
      BY <2>1
    <3>3. r = before \o after
      BY DEF RemoveAt
    <3> HIDE DEF before, after, r
    <3>4. r \in Seq(Ids) /\ Len(r) = Len(s) - 1
      BY <2>1, <3>1, <3>2, <3>3
    <3>5. ASSUME NEW k \in 1..Len(r) PROVE r[k] = IF k < at THEN s[k] ELSE s[k + 1]
      <4>1. CASE k < at
        BY <2>1, <3>1, <3>2, <3>3, <3>4, <4>1
      <4>2. CASE k >= at
        <5>1. r[k] = after[k - (at - 1)]
          BY <2>1, <3>1, <3>2, <3>3, <3>4, <4>2
        <5>2. after[k - (at - 1)] = s[at + (k - (at - 1))]
          BY <2>1, <3>2, <3>4, <4>2
        <5> QED  BY <2>1, <4>2, <5>1, <5>2
      <4> QED  BY <2>1, <4>1, <4>2
    <3> QED  BY <3>4, <3>5
  <2> HIDE DEF r
  <2>4. IsInjective(r)
    <3>1. SUFFICES ASSUME NEW k \in 1..Len(r), NEW l \in 1..Len(r), k < l
                   PROVE  r[k] # r[l]
      BY <2>3 DEF IsInjective
    <3>2. \A a, b \in 1..Len(s) : a # b => s[a] # s[b]
      BY DEF IsInjective
    <3>3. CASE l < at
      BY <2>1, <2>3, <3>1, <3>2, <3>3
    <3>4. CASE k < at /\ l >= at
      BY <2>1, <2>3, <3>1, <3>2, <3>4
    <3>5. CASE k >= at
      <4>1. r[k] = s[k + 1] /\ r[l] = s[l + 1]
        BY <2>1, <2>3, <3>1, <3>5
      <4>2. k + 1 \in 1..Len(s) /\ l + 1 \in 1..Len(s)
        BY <2>3, <3>1
      <4> QED  BY <3>1, <3>2, <4>1, <4>2
    <3> QED  BY <2>1, <3>1, <3>3, <3>4, <3>5
  <2>5. Range(r) \subseteq Range(s) \ {d}
    BY <2>1, <2>3 DEF IsInjective, Range
  <2>6. ASSUME NEW x \in Range(s) \ {d} PROVE x \in Range(r)
    <3>1. PICK k \in 1..Len(s) : s[k] = x /\ k # at
      BY <2>1, <2>6 DEF Range
    <3>2. CASE k < at
      <4>1. k \in 1..Len(r) /\ r[k] = x
        BY <2>1, <2>3, <3>1, <3>2
      <4> QED  BY <4>1, <2>3 DEF Range
    <3>3. CASE k > at
      <4>1. k - 1 \in 1..Len(r) /\ r[k - 1] = x
        BY <2>1, <2>3, <3>1, <3>3
      <4> QED  BY <4>1, <2>3 DEF Range
    <3> QED  BY <2>1, <3>1, <3>2, <3>3
  <2> QED  BY <2>2, <2>3, <2>4, <2>5, <2>6
<1> QED  BY <1>1, <1>2

-----------------------------------------------------------------------------
(* Counting votes *)

LEMMA VotersAreCounted ==
    ASSUME TypeOK, NEW d
    PROVE  IsFiniteSet(VotersOf(d)) /\ Cardinality(VotersOf(d)) \in Nat
<1>1. VotersOf(d) \subseteq Voters
  BY DEF TypeOK, VotersOf
<1> QED  BY <1>1, DelegatesAssumption, FS_Subset, FS_CardinalityType

\* A new vote for d, or the move of one to d, changes nobody else's voters but
\* those of whom v has left.
LEMMA VotersAfterVote ==
    ASSUME TypeOK, NEW v, NEW d, NEW e,
           votesBy' = [w \in DOMAIN votesBy \cup {v} |-> IF w = v THEN d ELSE votesBy[w]]
    PROVE  VotersOf(e)' = IF e = d THEN VotersOf(e) \cup {v} ELSE VotersOf(e) \ {v}
  BY DEF VotersOf

\* What Recount adds to and takes from the votes of e.
Gain(v, d, e) ==
    (IF e = d THEN 1 ELSE 0) - (IF v \in DOMAIN votesBy /\ votesBy[v] = e THEN 1 ELSE 0)

LEMMA RecountIsGain ==
    ASSUME IInv, NEW v, NEW d \in DOMAIN delegates
    PROVE  /\ DOMAIN Recount(v, d) = DOMAIN delegates
           /\ \A e \in DOMAIN delegates :
                 Recount(v, d)[e] = [delegates[e] EXCEPT !.votes = @ + Gain(v, d, e)]
<1> DEFINE left == IF v \in DOMAIN votesBy
                   THEN [delegates EXCEPT ![votesBy[v]].votes = @ - 1]
                   ELSE delegates
<1>1. \A e \in DOMAIN delegates : delegates[e] \in DelegateType
  BY DEF IInv, TypeOK, DelegateType
<1>2. DOMAIN left = DOMAIN delegates
  OBVIOUS
<1>3. \A e \in DOMAIN delegates :
         left[e] = [delegates[e] EXCEPT !.votes =
                      @ - (IF v \in DOMAIN votesBy /\ votesBy[v] = e THEN 1 ELSE 0)]
  BY <1>1 DEF DelegateType
<1>4. Recount(v, d) = [left EXCEPT ![d].votes = @ + 1]
  BY DEF Recount
<1> HIDE DEF left
<1>5. DOMAIN Recount(v, d) = DOMAIN delegates
  BY <1>2, <1>4
<1>6. ASSUME NEW e \in DOMAIN delegates
      PROVE  Recount(v, d)[e] = [delegates[e] EXCEPT !.votes = @ + Gain(v, d, e)]
  <2>1. CASE e = d
    BY <1>1, <1>2, <1>3, <1>4, <2>1 DEF Gain, DelegateType
  <2>2. CASE e # d
    BY <1>1, <1>2, <1>3, <1>4, <2>2 DEF Gain, DelegateType
  <2> QED  BY <2>1, <2>2
<1> QED  BY <1>5, <1>6

LEMMA GainIsChangeOfVoters ==
    ASSUME IInv, NEW v, NEW d, NEW e,
           votesBy' = [w \in DOMAIN votesBy \cup {v} |-> IF w = v THEN d ELSE votesBy[w]]
    PROVE  Cardinality(VotersOf(e)') = Cardinality(VotersOf(e)) + Gain(v, d, e)
<1>1. IsFiniteSet(VotersOf(e)) /\ Cardinality(VotersOf(e)) \in Nat
  BY VotersAreCounted DEF IInv
<1>2. VotersOf(e)' = IF e = d THEN VotersOf(e) \cup {v} ELSE VotersOf(e) \ {v}
  BY VotersAfterVote DEF IInv
<1>3. v \in VotersOf(e) <=> v \in DOMAIN votesBy /\ votesBy[v] = e
  BY DEF VotersOf
<1>4. CASE e = d
  <2>1. Cardinality(VotersOf(e) \cup {v})
          = IF v \in VotersOf(e) THEN Cardinality(VotersOf(e)) ELSE Cardinality(VotersOf(e)) + 1
    BY <1>1, FS_AddElement
  <2> QED  BY <1>1, <1>2, <1>3, <1>4, <2>1 DEF Gain
<1>5. CASE e # d
  <2>1. Cardinality(VotersOf(e) \ {v})
          = IF v \in VotersOf(e) THEN Cardinality(VotersOf(e)) - 1 ELSE Cardinality(VotersOf(e))
    BY <1>1, FS_RemoveElement
  <2> QED  BY <1>1, <1>2, <1>3, <1>5, <2>1 DEF Gain
<1> QED  BY <1>4, <1>5

-----------------------------------------------------------------------------
(* Steps.  What the methods keep, and what the schedule is. *)

Records ==
    /\ DOMAIN delegates \subseteq Ids
    /\ delegates \in [DOMAIN delegates -> DelegateType]
    /\ DOMAIN votesBy \subseteq Voters
    /\ votesBy \in [DOMAIN votesBy -> Ids]

Seating == activeDelegates \in Seq(Ids) /\ Len(activeDelegates) <= RoundLength

Schedule ==
    /\ slot \in 0..(RoundLength - 1)
    /\ round \in Nat
    /\ producer \in Ids \cup {NoProducer}
    /\ panicked \in BOOLEAN

LEMMA TypeParts == TypeOK <=> Records /\ Seating /\ Schedule
  BY DEF TypeOK, Records, Seating, Schedule, DelegateType

\* Marking changes nothing but the mark.
LEMMA MarkedFields ==
    ASSUME NEW records, \A e \in DOMAIN records : records[e] \in DelegateType, NEW chosen
    PROVE  /\ DOMAIN Marked(records, chosen) = DOMAIN records
           /\ Marked(records, chosen) \in [DOMAIN records -> DelegateType]
           /\ \A e \in DOMAIN records :
                 /\ Marked(records, chosen)[e].votes = records[e].votes
                 /\ Marked(records, chosen)[e].stake = records[e].stake
                 /\ Marked(records, chosen)[e].forgotten = records[e].forgotten
                 /\ Marked(records, chosen)[e].isActive => e \in chosen
<1>1. ASSUME NEW r \in DelegateType, NEW b \in BOOLEAN
      PROVE  /\ [r EXCEPT !.isActive = b] \in DelegateType
             /\ [r EXCEPT !.isActive = b].votes = r.votes
             /\ [r EXCEPT !.isActive = b].stake = r.stake
             /\ [r EXCEPT !.isActive = b].forgotten = r.forgotten
             /\ [r EXCEPT !.isActive = b].isActive = b
  BY DEF DelegateType
<1>2. ASSUME NEW e \in DOMAIN records
      PROVE  /\ Marked(records, chosen)[e] \in DelegateType
             /\ Marked(records, chosen)[e].votes = records[e].votes
             /\ Marked(records, chosen)[e].stake = records[e].stake
             /\ Marked(records, chosen)[e].forgotten = records[e].forgotten
             /\ Marked(records, chosen)[e].isActive => e \in chosen
  <2> DEFINE b == e \in chosen
  <2>1. Marked(records, chosen)[e] = [records[e] EXCEPT !.isActive = b]
    BY DEF Marked
  <2>2. b \in BOOLEAN /\ (b => e \in chosen)
    OBVIOUS
  <2> HIDE DEF b
  <2> QED  BY <1>1, <2>1, <2>2
<1>3. Marked(records, chosen) = [e \in DOMAIN records |-> Marked(records, chosen)[e]]
  BY DEF Marked
<1> QED  BY <1>2, <1>3

\* Everything but the schedule.
Kept ==
    /\ Records /\ Seating
    /\ VotesAreAccounted
    /\ VotesAreForDelegates
    /\ SeatsAreOfDelegates
    /\ StakesAgree

LEMMA InvariantParts == IInv <=> Kept /\ Schedule
  BY TypeParts DEF IInv, Kept

LEMMA VoteKeeps ==
    ASSUME IInv, NEW v \in Voters, NEW d \in Ids, RegisterVote(v, d)
    PROVE  Kept' /\ Schedule'
<1>1. Kept /\ Schedule
  BY InvariantParts
<1>2. /\ d \in DOMAIN delegates
      /\ delegates' = Recount(v, d)
      /\ votesBy' = [w \in DOMAIN votesBy \cup {v} |-> IF w = v THEN d ELSE votesBy[w]]
      /\ UNCHANGED <<panicked, stakeBy, activeDelegates, slot, round, producer>>
  BY DEF RegisterVote, IInv, VotesAreForDelegates
<1>3. /\ DOMAIN delegates' = DOMAIN delegates
      /\ \A e \in DOMAIN delegates :
            delegates'[e] = [delegates[e] EXCEPT !.votes = @ + Gain(v, d, e)]
  BY <1>2, RecountIsGain
<1>4. \A e \in DOMAIN delegates :
         /\ delegates[e] \in DelegateType
         /\ Gain(v, d, e) \in Int
         /\ delegates'[e] \in DelegateType
         /\ delegates'[e].votes = delegates[e].votes + Gain(v, d, e)
         /\ delegates'[e].stake = delegates[e].stake
         /\ delegates'[e].isActive = delegates[e].isActive
         /\ delegates'[e].forgotten = delegates[e].forgotten
  BY <1>1, <1>3 DEF Kept, Records, DelegateType, Gain
<1>5. delegates' = [e \in DOMAIN delegates |-> delegates'[e]]
  <2>1. delegates' = [e \in DOMAIN delegates' |-> delegates'[e]]
    <3>1. Recount(v, d) = [e \in DOMAIN Recount(v, d) |-> Recount(v, d)[e]]
      BY DEF Recount
    <3> QED  BY <1>2, <3>1
  <2> QED  BY <2>1, <1>3
<1>6. Records'
  BY <1>1, <1>2, <1>3, <1>4, <1>5 DEF Kept, Records
<1>7. VotesAreAccounted'
  <2>1. ASSUME NEW e \in DOMAIN delegates
        PROVE  delegates'[e].votes + delegates'[e].forgotten = Cardinality(VotersOf(e)')
    <3>1. Cardinality(VotersOf(e)') = Cardinality(VotersOf(e)) + Gain(v, d, e)
      BY <1>2, GainIsChangeOfVoters
    <3>2. delegates[e].votes + delegates[e].forgotten = Cardinality(VotersOf(e))
      BY <1>1 DEF Kept, VotesAreAccounted
    <3>3. delegates[e].votes \in Int /\ delegates[e].forgotten \in Nat
      BY <1>4 DEF DelegateType
    <3> QED  BY <1>4, <3>1, <3>2, <3>3
  <2> QED  BY <2>1, <1>3 DEF VotesAreAccounted
<1>8. VotesAreForDelegates'
  BY <1>1, <1>2, <1>3 DEF Kept, VotesAreForDelegates
<1>9. SeatsAreOfDelegates'
  BY <1>1, <1>2, <1>3, <1>4 DEF Kept, SeatsAreOfDelegates
<1>10. StakesAgree'
  BY <1>1, <1>2, <1>3, <1>4 DEF Kept, StakesAgree
<1>11. Seating' /\ Schedule'
  BY <1>1, <1>2 DEF Kept, Seating, Schedule
<1> QED  BY <1>6, <1>7, <1>8, <1>9, <1>10, <1>11 DEF Kept

LEMMA RegistrationKeeps ==
    ASSUME IInv, NEW d \in Ids, NEW stake \in Stakes, RegisterDelegate(d, stake)
    PROVE  Kept' /\ Schedule'
<1> DEFINE new == Delegate(stake, 100, Cardinality(VotersOf(d)))
<1>1. Kept /\ Schedule
  BY InvariantParts
<1>2. /\ stake >= MinimumStake
      /\ delegates' = With(delegates, d, new)
      /\ stakeBy' = With(stakeBy, d, stake)
      /\ UNCHANGED <<votesBy, activeDelegates, slot, round, producer, panicked>>
  BY DEF RegisterDelegate
<1>3. Cardinality(VotersOf(d)) \in Nat
  BY VotersAreCounted DEF IInv
<1>4. /\ new \in DelegateType /\ new.votes = 0 /\ new.stake = stake
      /\ new.forgotten = Cardinality(VotersOf(d)) /\ new.isActive = FALSE
  BY <1>2, <1>3, QuantitiesAssumption DEF Delegate, DelegateType, MinimumStake
<1> HIDE DEF new
<1>5. /\ DOMAIN delegates' = DOMAIN delegates \cup {d}
      /\ \A e \in DOMAIN delegates' : delegates'[e] = IF e = d THEN new ELSE delegates[e]
      /\ \A e : VotersOf(e)' = VotersOf(e)
  BY <1>2 DEF With, VotersOf
<1>6. Records'
  BY <1>1, <1>2, <1>4 DEF Kept, Records, With
<1>7. VotesAreAccounted'
  BY <1>1, <1>3, <1>4, <1>5 DEF Kept, VotesAreAccounted
<1>8. VotesAreForDelegates'
  BY <1>1, <1>2, <1>5 DEF Kept, VotesAreForDelegates
<1>9. SeatsAreOfDelegates'
  BY <1>1, <1>2, <1>4, <1>5 DEF Kept, SeatsAreOfDelegates
<1>10. StakesAgree'
  BY <1>1, <1>2, <1>4, <1>5 DEF Kept, StakesAgree, With
<1>11. Seating' /\ Schedule'
  BY <1>1, <1>2 DEF Kept, Seating, Schedule
<1> QED  BY <1>6, <1>7, <1>8, <1>9, <1>10, <1>11 DEF Kept

\* DelegateUpdate and IncreaseStake both give d a new stake.
LEMMA NewStakeKeeps ==
    ASSUME IInv, NEW d \in DOMAIN delegates, NEW stake \in Nat, stake >= MinimumStake,
           delegates' = [delegates EXCEPT ![d].stake = stake],
           stakeBy' = With(stakeBy, d, stake),
           UNCHANGED <<votesBy, activeDelegates, slot, round, producer, panicked>>
    PROVE  Kept' /\ Schedule'
<1>1. Kept /\ Schedule
  BY InvariantParts
<1>2. /\ DOMAIN delegates' = DOMAIN delegates
      /\ \A e \in DOMAIN delegates :
            /\ delegates'[e] \in DelegateType
            /\ delegates'[e].votes = delegates[e].votes
            /\ delegates'[e].isActive = delegates[e].isActive
            /\ delegates'[e].forgotten = delegates[e].forgotten
            /\ delegates'[e].stake = IF e = d THEN stake ELSE delegates[e].stake
      /\ \A e : VotersOf(e)' = VotersOf(e)
  BY <1>1 DEF Kept, Records, DelegateType, VotersOf, MinimumStake
<1>3. Records'
  BY <1>1, <1>2 DEF Kept, Records
<1>4. VotesAreAccounted' /\ VotesAreForDelegates'
  BY <1>1, <1>2 DEF Kept, VotesAreAccounted, VotesAreForDelegates
<1>5. SeatsAreOfDelegates'
  BY <1>1, <1>2 DEF Kept, SeatsAreOfDelegates
<1>6. StakesAgree'
  BY <1>1, <1>2 DEF Kept, StakesAgree, With
<1>7. Seating' /\ Schedule'
  BY <1>1 DEF Kept, Seating, Schedule
<1> QED  BY <1>3, <1>4, <1>5, <1>6, <1>7 DEF Kept

LEMMA DepartureKeeps ==
    ASSUME IInv, NEW d \in Ids, UnregisterDelegate(d)
    PROVE  Kept' /\ Schedule'
<1>1. Kept /\ Schedule
  BY InvariantParts
<1>2. /\ delegates' = Without(delegates, d)
      /\ stakeBy' = Without(stakeBy, d)
      /\ activeDelegates' = SeatsLeft(d)
      /\ votesBy' = [v \in VotersLeft(d) |-> votesBy[v]]
      /\ UNCHANGED <<slot, round, producer, panicked>>
  BY DEF UnregisterDelegate
<1>3. /\ activeDelegates' \in Seq(Ids)
      /\ Len(activeDelegates') <= Len(activeDelegates)
      /\ IsInjective(activeDelegates')
      /\ Range(activeDelegates') = Range(activeDelegates) \ {d}
  BY <1>1, <1>2, OneSeatLess DEF Kept, Seating, SeatsAreOfDelegates
<1>4. /\ DOMAIN delegates' = DOMAIN delegates \ {d}
      /\ \A e \in DOMAIN delegates' : delegates'[e] = delegates[e]
      /\ \A e \in DOMAIN delegates' : VotersOf(e)' = VotersOf(e)
  BY <1>2 DEF Without, VotersOf, VotersLeft
<1>5. Records'
  BY <1>1, <1>2 DEF Kept, Records, Without, VotersLeft
<1>6. VotesAreAccounted'
  BY <1>1, <1>4 DEF Kept, VotesAreAccounted
<1>7. VotesAreForDelegates'
  BY <1>1, <1>2, <1>4 DEF Kept, VotesAreForDelegates, VotersLeft, VotersOf
<1>8. SeatsAreOfDelegates'
  BY <1>1, <1>3, <1>4 DEF Kept, SeatsAreOfDelegates
<1>9. StakesAgree'
  BY <1>1, <1>2, <1>4 DEF Kept, StakesAgree, Without
<1>10. Seating'
  BY <1>1, <1>3, RoundLengthAssumption DEF Kept, Seating
<1>11. Schedule'
  BY <1>1, <1>2 DEF Schedule
<1> QED  BY <1>5, <1>6, <1>7, <1>8, <1>9, <1>10, <1>11 DEF Kept

LEMMA ElectionKeeps ==
    ASSUME IInv, UpdateActiveDelegates, UNCHANGED <<stakeBy, votesBy>>
    PROVE  Kept'
<1>1. Kept
  BY InvariantParts
<1>2. /\ activeDelegates' \in Elections(ScoreOf(delegates))
      /\ delegates' = Marked(delegates, Range(activeDelegates'))
  BY DEF UpdateActiveDelegates
<1>3. DOMAIN ScoreOf(delegates) = DOMAIN delegates
  BY DEF ScoreOf
<1>4. IsFiniteSet(DOMAIN delegates)
  BY <1>1, DelegatesAssumption, FS_Subset DEF Kept, Records
<1>5. /\ activeDelegates' \in Seq(DOMAIN delegates)
      /\ Len(activeDelegates') <= RoundLength
      /\ IsInjective(activeDelegates')
      /\ Range(activeDelegates') \subseteq DOMAIN delegates
  BY <1>2, <1>3, <1>4, ElectionSeats
<1>6. Seating'
  <2>1. activeDelegates' \in Seq(Ids)
    BY <1>1, <1>5 DEF Kept, Records
  <2> QED  BY <1>5, <2>1 DEF Seating
<1>7. /\ DOMAIN delegates' = DOMAIN delegates
      /\ \A e \in DOMAIN delegates :
            /\ delegates'[e].votes = delegates[e].votes
            /\ delegates'[e].stake = delegates[e].stake
            /\ delegates'[e].forgotten = delegates[e].forgotten
            /\ delegates'[e].isActive => e \in Range(activeDelegates')
      /\ delegates' \in [DOMAIN delegates -> DelegateType]
  BY <1>1, <1>2, MarkedFields DEF Kept, Records
<1>8. Records'
  BY <1>1, <1>7 DEF Kept, Records
<1>9. VotesAreAccounted'
  <2>1. \A e : VotersOf(e)' = VotersOf(e)
    BY DEF VotersOf
  <2> QED  BY <1>1, <1>7, <2>1 DEF Kept, VotesAreAccounted
<1>10. VotesAreForDelegates'
  BY <1>1, <1>7 DEF Kept, VotesAreForDelegates
<1>11. SeatsAreOfDelegates'
  BY <1>5, <1>7 DEF SeatsAreOfDelegates
<1>12. StakesAgree'
  BY <1>1, <1>7 DEF Kept, StakesAgree
<1> QED  BY <1>6, <1>8, <1>9, <1>10, <1>11, <1>12 DEF Kept

LEMMA TickKeeps ==
    ASSUME IInv, NEW elapsed \in 1..MaxElapsed, updateSchedule(elapsed)
    PROVE  Kept' /\ Schedule'
<1>1. Kept /\ Schedule
  BY InvariantParts
<1>2. slot' \in 0..(RoundLength - 1)
  BY <1>1, RoundLengthAssumption, QuantitiesAssumption DEF updateSchedule, SlotAfter, Schedule
<1>3. Kept' /\ round' \in Nat
  <2>1. CASE slot' = 0
    <3>1. UpdateActiveDelegates /\ UNCHANGED <<stakeBy, votesBy>> /\ round' = round + 1
      BY <2>1 DEF updateSchedule
    <3> QED  BY <1>1, <3>1, ElectionKeeps DEF Schedule
  <2>2. CASE slot' # 0
    <3>1. UNCHANGED <<round, delegates, activeDelegates, stakeBy, votesBy>>
      BY <2>2 DEF updateSchedule
    <3> QED
      BY <1>1, <3>1
      DEF Kept, Records, Seating, Schedule, VotesAreAccounted, VotersOf, VotesAreForDelegates,
          SeatsAreOfDelegates, StakesAgree
  <2> QED  BY <2>1, <2>2
<1>4. Produce(slot')
  BY DEF updateSchedule
<1>5. panicked' \in BOOLEAN
  BY <1>1, <1>4 DEF Produce, Panic, Schedule
<1>6. producer' \in Ids \cup {NoProducer}
  <2>1. CASE slot' < Len(activeDelegates')
    <3>1. activeDelegates' \in Seq(Ids)
      BY <1>3 DEF Kept, Seating
    <3>2. producer' = activeDelegates'[slot' + 1]
      BY <1>4, <2>1 DEF Produce
    <3>3. ASSUME NEW s \in Seq(Ids), NEW k \in 0..(RoundLength - 1), k < Len(s)
          PROVE  s[k + 1] \in Ids
      BY <3>3, RoundLengthAssumption
    <3> QED  BY <1>2, <2>1, <3>1, <3>2, <3>3
  <2>2. CASE ~(slot' < Len(activeDelegates'))
    BY <1>1, <1>4, <2>2 DEF Produce, Schedule
  <2> QED  BY <2>1, <2>2
<1> QED  BY <1>2, <1>3, <1>5, <1>6 DEF Schedule

-----------------------------------------------------------------------------
(* The theorems *)

LEMMA InitEstablishes == ASSUME Init PROVE IInv
<1>1. PICK stake \in [InitialDelegates -> {s \in Stakes : s >= MinimumStake}],
           reliability \in [InitialDelegates -> InitialReliabilities] :
         LET records == [d \in InitialDelegates |-> Delegate(stake[d], reliability[d], 0)]
         IN  /\ activeDelegates \in Elections(ScoreOf(records))
             /\ delegates = Marked(records, Range(activeDelegates))
             /\ stakeBy = stake
  BY DEF Init
<1> DEFINE records == [d \in InitialDelegates |-> Delegate(stake[d], reliability[d], 0)]
<1>2. /\ activeDelegates \in Seq(InitialDelegates)
      /\ Len(activeDelegates) <= RoundLength
      /\ IsInjective(activeDelegates)
      /\ Range(activeDelegates) \subseteq InitialDelegates
  <2>1. DOMAIN ScoreOf(records) = InitialDelegates
    BY DEF ScoreOf
  <2>2. IsFiniteSet(InitialDelegates)
    BY DelegatesAssumption, FS_Subset
  <2> HIDE DEF records
  <2> QED  BY <1>1, <2>1, <2>2, ElectionSeats DEF records
<1>3. /\ DOMAIN delegates = InitialDelegates
      /\ \A d \in InitialDelegates :
            /\ delegates[d].votes = 0 /\ delegates[d].forgotten = 0
            /\ delegates[d].stake = stake[d]
            /\ delegates[d].isActive => d \in Range(activeDelegates)
      /\ delegates \in [InitialDelegates -> DelegateType]
  <2>1. \A d \in InitialDelegates :
           /\ records[d] \in DelegateType
           /\ records[d].votes = 0 /\ records[d].forgotten = 0
           /\ records[d].stake = stake[d]
    <3>1. SUFFICES ASSUME NEW d \in InitialDelegates
                   PROVE  /\ records[d] \in DelegateType
                          /\ records[d].votes = 0 /\ records[d].forgotten = 0
                          /\ records[d].stake = stake[d]
      OBVIOUS
    <3>2. stake[d] \in Nat /\ stake[d] >= MinimumStake
      <4>1. stake[d] \in {s \in Stakes : s >= MinimumStake}
        OBVIOUS
      <4> QED  BY <4>1, QuantitiesAssumption
    <3>3. reliability[d] \in 0..100
      <4>1. reliability[d] \in InitialReliabilities
        OBVIOUS
      <4> QED  BY <4>1, QuantitiesAssumption
    <3>4. records[d] = Delegate(stake[d], reliability[d], 0)
      OBVIOUS
    <3>5. ASSUME NEW s \in Nat, s >= MinimumStake, NEW r \in 0..100
          PROVE  /\ Delegate(s, r, 0) \in DelegateType
                 /\ Delegate(s, r, 0).votes = 0 /\ Delegate(s, r, 0).forgotten = 0
                 /\ Delegate(s, r, 0).stake = s
      BY <3>5 DEF Delegate, DelegateType, MinimumStake
    <3> HIDE DEF records
    <3> QED  BY <3>2, <3>3, <3>4, <3>5
  <2>2. DOMAIN records = InitialDelegates
    OBVIOUS
  <2>3. delegates = Marked(records, Range(activeDelegates))
    BY <1>1
  <2> HIDE DEF records
  <2> QED  BY <2>1, <2>2, <2>3, MarkedFields
<1>4. Records
  BY <1>3, DelegatesAssumption DEF Records, Init
<1>5. Seating
  BY <1>2, DelegatesAssumption DEF Seating
<1>6. Schedule
  <2>1. slot \in 0..(RoundLength - 1) /\ round \in Nat
    BY RoundLengthAssumption DEF Init
  <2>2. producer \in Ids \cup {NoProducer} /\ panicked \in BOOLEAN
    BY DEF Init
  <2> QED  BY <2>1, <2>2 DEF Schedule
<1>7. VotesAreAccounted
  <2>1. \A d : Cardinality(VotersOf(d)) = 0
    <3>1. \A d : VotersOf(d) = {}
      BY DEF Init, VotersOf
    <3> QED  BY <3>1, FS_EmptySet
  <2>2. \A d \in DOMAIN delegates : delegates[d].votes = 0 /\ delegates[d].forgotten = 0
    BY <1>3
  <2> QED  BY <2>1, <2>2 DEF VotesAreAccounted
<1>8. VotesAreForDelegates
  BY DEF Init, VotesAreForDelegates
<1>9. SeatsAreOfDelegates
  BY <1>2, <1>3 DEF SeatsAreOfDelegates
<1>10. StakesAgree
  BY <1>1, <1>3 DEF StakesAgree
<1> QED  BY <1>4, <1>5, <1>6, <1>7, <1>8, <1>9, <1>10, InvariantParts DEF Kept

LEMMA StepKeeps == ASSUME IInv, [Next]_vars PROVE IInv'
<1>1. Kept /\ Schedule
  BY InvariantParts
<1>2. ASSUME NEW v \in Voters, NEW d \in Ids, RegisterVote(v, d) PROVE Kept' /\ Schedule'
  BY <1>2, VoteKeeps
<1>3. ASSUME NEW d \in Ids, NEW stake \in Stakes, RegisterDelegate(d, stake)
      PROVE  Kept' /\ Schedule'
  BY <1>3, RegistrationKeeps
<1>4. ASSUME NEW d \in Ids, NEW stake \in Stakes, DelegateUpdate(d, stake)
      PROVE  Kept' /\ Schedule'
  BY <1>4, NewStakeKeeps, QuantitiesAssumption DEF DelegateUpdate
<1>5. ASSUME NEW d \in Ids, NEW additional \in Increments, IncreaseStake(d, additional)
      PROVE  Kept' /\ Schedule'
  <2> DEFINE stake == delegates[d].stake + additional
  <2>1. d \in DOMAIN delegates /\ delegates[d] \in DelegateType
    BY <1>1, <1>5 DEF IncreaseStake, Kept, Records
  <2>2. stake \in Nat /\ stake >= MinimumStake
    BY <1>5, <2>1, QuantitiesAssumption DEF IncreaseStake, DelegateType, MinimumStake
  <2>3. delegates' = [delegates EXCEPT ![d].stake = stake] /\ stakeBy' = With(stakeBy, d, stake)
    BY <1>5, <2>1 DEF IncreaseStake, IncreasedStake
  <2>4. UNCHANGED <<votesBy, activeDelegates, slot, round, producer, panicked>>
    BY <1>5 DEF IncreaseStake
  <2> HIDE DEF stake
  <2> QED  BY <2>1, <2>2, <2>3, <2>4, NewStakeKeeps
<1>6. ASSUME NEW d \in Ids, UnregisterDelegate(d) PROVE Kept' /\ Schedule'
  BY <1>6, DepartureKeeps
<1>7. ASSUME NEW d \in Ids, SlashValidator(d) PROVE Kept' /\ Schedule'
  BY <1>1, <1>7
  DEF SlashValidator, Panic, Kept, Records, Seating, Schedule, VotesAreAccounted, VotersOf,
      VotesAreForDelegates, SeatsAreOfDelegates, StakesAgree
<1>8. ASSUME UpdateValidators PROVE Kept' /\ Schedule'
  <2>1. /\ UpdateActiveDelegates
        /\ UNCHANGED <<stakeBy, votesBy>>
        /\ UNCHANGED <<slot, round, producer, panicked>>
    BY <1>8 DEF UpdateValidators
  <2>2. Kept'
    BY <2>1, ElectionKeeps
  <2>3. Schedule'
    BY <1>1, <2>1 DEF Schedule
  <2> QED  BY <2>2, <2>3
<1>9. ASSUME NEW elapsed \in 1..MaxElapsed, updateSchedule(elapsed) PROVE Kept' /\ Schedule'
  BY <1>9, TickKeeps
<1>10. ASSUME UNCHANGED vars PROVE Kept' /\ Schedule'
  <2>1. UNCHANGED <<delegates, stakeBy, votesBy, activeDelegates, slot, round, producer, panicked>>
    BY <1>10 DEF vars
  <2> QED
    BY <1>1, <2>1
    DEF Kept, Records, Seating, Schedule, VotesAreAccounted, VotersOf,
        VotesAreForDelegates, SeatsAreOfDelegates, StakesAgree
<1>11. Kept' /\ Schedule'
  <2>1. CASE Next
    BY <1>2, <1>3, <1>4, <1>5, <1>6, <1>7, <1>8, <1>9, <2>1 DEF Next
  <2> QED  BY <1>10, <2>1
<1>12. IInv' <=> Kept' /\ Schedule'
  BY InvariantParts, PTL
<1> QED  BY <1>11, <1>12

LEMMA Invariance == Spec => []IInv
<1>1. Init => IInv
  BY InitEstablishes
<1>2. IInv /\ [Next]_vars => IInv'
  BY StepKeeps
<1> QED  BY <1>1, <1>2, PTL DEF Spec

\* The records, votes, seats and the schedule keep their types.
THEOREM TypeCorrect == Spec => []TypeOK
<1>1. IInv => TypeOK
  BY DEF IInv
<1> QED  BY <1>1, Invariance, PTL

\* Whoever votes, registers or leaves (dpos.go 397-483, 701-731), in whatever
\* order, a delegate has as many votes as are recorded for him, less those his
\* last registration forgot.
THEOREM VotesStayAccounted == Spec => []VotesAreAccounted
<1>1. IInv => VotesAreAccounted
  BY DEF IInv
<1> QED  BY <1>1, Invariance, PTL

\* Nor is a vote recorded for somebody who has left (dpos.go 397-483, 701-731).
THEOREM NoVoteOutlivesItsDelegate == Spec => []VotesAreForDelegates
<1>1. IInv => VotesAreForDelegates
  BY DEF IInv
<1> QED  BY <1>1, Invariance, PTL

\* Elections, registrations and departures (dpos.go 310-358, 701-731) leave
\* each seat to one registered delegate.
THEOREM SeatsStayWithDelegates == Spec => []SeatsAreOfDelegates
<1>1. IInv => SeatsAreOfDelegates
  BY DEF IInv
<1> QED  BY <1>1, Invariance, PTL

\* The table of stakes never differs from the records.
THEOREM StakesKeepAgreeing == Spec => []StakesAgree
<1>1. IInv => StakesAgree
  BY DEF IInv
<1> QED  BY <1>1, Invariance, PTL

-----------------------------------------------------------------------------
(* The sort of UpdateActiveDelegates *)

N == Cardinality(DOMAIN score)

\* The bounds of the loop counters, and what the slice holds, index by index.
Typed ==
    /\ N \in Nat
    /\ score \in [DOMAIN score -> Int]
    /\ ranking \in [1..N -> DOMAIN score]
    /\ \A p, q \in 1..N : ranking[p] = ranking[q] => p = q
    /\ \A d \in DOMAIN score : \E p \in 1..N : ranking[p] = d
    /\ i \in 0..N
    /\ j \in 0..N
    /\ i < N => j <= N - i - 1
    /\ i = N => j = 0
    /\ done \in BOOLEAN

\* The two loops.
SortedTail == \A p, q \in 1..N : p < q /\ q > N - i => score[ranking[p]] >= score[ranking[q]]

Carried == \A p \in 1..j : score[ranking[p]] >= score[ranking[j + 1]]

SortIInv == Typed /\ SortedTail /\ Carried

LEMMA LenRanking == ASSUME Typed PROVE Len(ranking) = N /\ DOMAIN ranking = 1..N
<1>1. ranking \in Seq(DOMAIN score)
  BY DEF Typed
<1>2. DOMAIN ranking = 1..N
  BY DEF Typed
<1>3. Len(ranking) \in Nat /\ DOMAIN ranking = 1..Len(ranking)
  BY <1>1
<1>4. Len(ranking) = N
  BY <1>2, <1>3 DEF Typed
<1> QED  BY <1>2, <1>4

LEMMA InitInvariant == ASSUME SortInit PROVE SortIInv
<1>1. PICK registered \in SUBSET Delegates :
        /\ score \in [registered -> Scores]
        /\ ranking \in Bijection(1..Cardinality(registered), registered)
  BY DEF SortInit
<1>2. DOMAIN score = registered
  BY <1>1
<1>3. N \in Nat
  BY <1>2, ElectionAssumption, FS_Subset, FS_CardinalityType DEF N
<1>4. ranking \in Bijection(1..N, DOMAIN score)
  BY <1>1, <1>2 DEF N
<1>5. /\ ranking \in [1..N -> DOMAIN score]
      /\ \A p, q \in 1..N : ranking[p] = ranking[q] => p = q
      /\ \A d \in DOMAIN score : \E p \in 1..N : ranking[p] = d
  BY <1>4 DEF Bijection, Injection, Surjection, IsInjective
<1>6. score \in [DOMAIN score -> Int]
  BY <1>1, <1>2, ElectionAssumption
<1>7. i = 0 /\ j = 0 /\ done = FALSE
  BY DEF SortInit
<1>8. Typed
  <2>1. i \in 0..N /\ j \in 0..N
    BY <1>3, <1>7
  <2>2. (i < N => j <= N - i - 1) /\ (i = N => j = 0)
    BY <1>3, <1>7
  <2>3. done \in BOOLEAN
    BY <1>7
  <2> QED  BY <1>3, <1>5, <1>6, <2>1, <2>2, <2>3 DEF Typed
<1>9. SortedTail
  BY <1>3, <1>7 DEF SortedTail
<1>10. Carried
  BY <1>7 DEF Carried
<1> QED  BY <1>8, <1>9, <1>10 DEF SortIInv

\* A comparison, with or without a swap: everything else stays in its place.
LEMMA CompareKeepsInvariant == ASSUME SortIInv, Compare PROVE SortIInv'
<1> DEFINE k == j + 1
<1> DEFINE r == ranking
<1>1. Typed /\ SortedTail /\ Carried
  BY DEF SortIInv
<1>2. /\ Len(ranking) = N
      /\ DOMAIN ranking = 1..N
  BY <1>1, LenRanking
<1>3. /\ i \in 0..N /\ j \in 0..N /\ N \in Nat
      /\ i < N /\ j < N - i - 1
      /\ k \in 1..(N - i - 1) /\ k + 1 \in 1..(N - i)
  BY <1>1, <1>2 DEF Typed, Compare, Comparisons
<1>4. /\ score' = score /\ i' = i /\ j' = j + 1 /\ done' = done
      /\ N' = N
  BY DEF Compare, N
<1>5. ranking' = IF score[r[k]] < score[r[k + 1]] THEN Swapped(r, k) ELSE r
  BY <1>3 DEF Compare
<1>6. ranking' \in [1..N -> DOMAIN score]
  <2>1. r \in [1..N -> DOMAIN score]
    BY <1>1 DEF Typed
  <2>2. k \in 1..N /\ k + 1 \in 1..N
    BY <1>3
  <2>3. Swapped(r, k) \in [1..N -> DOMAIN score]
    <3> HIDE DEF k, r
    <3> QED  BY <2>1, <2>2 DEF Swapped
  <2> QED  BY <1>5, <2>1, <2>3
<1>7. /\ \A p \in 1..N : p # k /\ p # k + 1 => ranking'[p] = r[p]
      /\ \/ ranking'[k] = r[k] /\ ranking'[k + 1] = r[k + 1] /\ score[r[k]] >= score[r[k + 1]]
         \/ ranking'[k] = r[k + 1] /\ ranking'[k + 1] = r[k] /\ score[r[k]] < score[r[k + 1]]
  <2>1. score[r[k]] \in Int /\ score[r[k + 1]] \in Int
    BY <1>1, <1>3 DEF Typed
  <2> QED  BY <1>1, <1>2, <1>3, <1>5, <2>1 DEF Typed, Swapped
<1>8. Typed'
  <2> DEFINE from(p) == IF ranking'[k] = r[k] THEN p
                        ELSE IF p = k THEN k + 1 ELSE IF p = k + 1 THEN k ELSE p
  <2>1. \A p, q \in 1..N : ranking'[p] = ranking'[q] => p = q
    <3> SUFFICES ASSUME NEW p \in 1..N, NEW q \in 1..N, ranking'[p] = ranking'[q]
                 PROVE p = q
      OBVIOUS
    <3>1. \A m \in 1..N : from(m) \in 1..N /\ ranking'[m] = r[from(m)]
      BY <1>3, <1>7
    <3>2. r[from(p)] = r[from(q)]
      BY <3>1
    <3>3. from(p) = from(q)
      <4> HIDE DEF from
      <4> QED  BY <1>1, <3>1, <3>2 DEF Typed
    <3> QED  BY <1>3, <3>3
  <2>2. \A d \in DOMAIN score : \E p \in 1..N : ranking'[p] = d
    <3> SUFFICES ASSUME NEW d \in DOMAIN score PROVE \E p \in 1..N : ranking'[p] = d
      OBVIOUS
    <3>1. PICK p \in 1..N : r[p] = d
      BY <1>1 DEF Typed
    <3>2. CASE p # k /\ p # k + 1
      BY <1>7, <3>1, <3>2
    <3>3. CASE p = k
      BY <1>3, <1>7, <3>1, <3>3
    <3>4. CASE p = k + 1
      BY <1>3, <1>7, <3>1, <3>4
    <3> QED  BY <3>2, <3>3, <3>4
  <2>3. /\ i' \in 0..N /\ j' \in 0..N /\ done' \in BOOLEAN
        /\ i' < N => j' <= N - i' - 1
        /\ i' = N => j' = 0
    BY <1>1, <1>3, <1>4 DEF Typed
  <2>4. N \in Nat /\ score \in [DOMAIN score -> Int]
    BY <1>1 DEF Typed
  <2> HIDE DEF from, k, r
  <2> QED  BY <1>4, <1>6, <2>1, <2>2, <2>3, <2>4 DEF Typed
<1>9. \A p \in 1..N : score[r[p]] \in Int
  BY <1>1 DEF Typed
<1>10. SortedTail'
  <2> SUFFICES ASSUME NEW p \in 1..N, NEW q \in 1..N, p < q, q > N - i
               PROVE score[ranking'[p]] >= score[ranking'[q]]
    BY <1>4 DEF SortedTail
  <2>1. ranking'[q] = r[q]
    BY <1>3, <1>7
  <2>2. \A m \in 1..N : m < q => score[r[m]] >= score[r[q]]
    BY <1>1 DEF SortedTail
  <2>3. \E m \in 1..N : m < q /\ ranking'[p] = r[m]
    BY <1>3, <1>7
  <2> QED  BY <2>1, <2>2, <2>3
<1>11. Carried'
  <2> SUFFICES ASSUME NEW p \in 1..k PROVE score[ranking'[p]] >= score[ranking'[k + 1]]
    BY <1>4 DEF Carried
  <2>1. \A m \in 1..j : score[r[m]] >= score[r[k]]
    BY <1>1 DEF Carried
  <2>2. CASE p = k
    BY <1>3, <1>7, <1>9, <2>2
  <2>3. CASE p \in 1..j
    <3>1. ranking'[p] = r[p]
      BY <1>3, <1>7, <2>3
    <3>2. score[r[p]] >= score[r[k]]
      BY <2>1, <2>3
    <3> QED  BY <1>3, <1>7, <1>9, <2>3, <3>1, <3>2
  <2> QED  BY <1>3, <2>2, <2>3
<1> QED  BY <1>8, <1>10, <1>11 DEF SortIInv

\* At the end of a pass the delegate carried along joins the tail.
LEMMA NextPassKeepsInvariant == ASSUME SortIInv, NextPass PROVE SortIInv'
<1>1. Typed /\ SortedTail /\ Carried
  BY DEF SortIInv
<1>2. Len(ranking) = N
  BY <1>1, LenRanking
<1>3. i < N /\ j = N - i - 1 /\ i \in 0..N /\ N \in Nat
  BY <1>1, <1>2 DEF Typed, NextPass, Comparisons
<1>4. /\ score' = score /\ i' = i + 1 /\ j' = 0 /\ done' = done /\ ranking' = ranking
      /\ N' = N
  BY DEF NextPass, N
<1>5. Typed'
  BY <1>1, <1>3, <1>4 DEF Typed
<1>6. SortedTail'
  <2> SUFFICES ASSUME NEW p \in 1..N, NEW q \in 1..N, p < q, q > N - (i + 1)
               PROVE score[ranking[p]] >= score[ranking[q]]
    BY <1>4 DEF SortedTail
  <2>1. CASE q > N - i
    BY <1>1, <2>1 DEF SortedTail
  <2>2. CASE q = j + 1
    BY <1>1, <1>3, <2>2 DEF Carried
  <2> QED  BY <1>3, <2>1, <2>2
<1>7. Carried'
  BY <1>4 DEF Carried
<1> QED  BY <1>5, <1>6, <1>7 DEF SortIInv

LEMMA StepKeepsInvariant == ASSUME SortIInv, [SortNext]_sortVars PROVE SortIInv'
<1>1. CASE Compare
  BY <1>1, CompareKeepsInvariant
<1>2. CASE NextPass
  BY <1>2, NextPassKeepsInvariant
<1>3. CASE Select
  BY <1>3 DEF SortIInv, Typed, SortedTail, Carried, Select, N
<1>4. CASE UNCHANGED sortVars
  BY <1>4 DEF SortIInv, Typed, SortedTail, Carried, sortVars, N
<1> QED  BY <1>1, <1>2, <1>3, <1>4 DEF SortNext

\* The loop counters stay in their bounds, the slice holds every delegate once,
\* and what the two loops have sorted is sorted.
THEOREM SortInvariance == SortSpec => []SortIInv
<1>1. SortInit => SortIInv
  BY InitInvariant
<1>2. SortIInv /\ [SortNext]_sortVars => SortIInv'
  BY StepKeepsInvariant
<1> QED  BY <1>1, <1>2, PTL DEF SortSpec

\* What TLC checks of the loops, for every set of delegates and every score.
THEOREM LoopsKeepInvariant == SortSpec => []LoopInvariant
<1>1. SortIInv => LoopInvariant
  <2> SUFFICES ASSUME SortIInv PROVE LoopInvariant
    OBVIOUS
  <2>1. Len(ranking) = N /\ DOMAIN ranking = 1..N
    BY LenRanking DEF SortIInv
  <2>2. ranking \in Bijection(1..N, DOMAIN score)
    BY DEF SortIInv, Typed, Bijection, Injection, Surjection, IsInjective
  <2> QED  BY <2>1, <2>2 DEF SortIInv, SortedTail, Carried, LoopInvariant, N
<1> QED  BY <1>1, SortInvariance, PTL

\* What the first delegates of a sorted slice are.
LEMMA SelectElects == ASSUME SortIInv, Select PROVE active' \in Elections(score)
<1> DEFINE seats == Seats(N)
<1> DEFINE chosen == active'
<1>1. Typed /\ SortedTail
  BY DEF SortIInv
<1>2. Len(ranking) = N /\ N \in Nat /\ i = N
  BY <1>1, LenRanking DEF Typed, Select
<1>3. seats \in 0..N
  BY <1>2, RoundLengthAssumption DEF Seats
<1>4. chosen = [p \in 1..seats |-> ranking[p]]
  BY <1>2 DEF Select
<1> HIDE DEF seats, chosen
<1>5. /\ chosen \in [1..seats -> DOMAIN score]
      /\ \A p \in 1..seats : chosen[p] = ranking[p]
      /\ DOMAIN chosen = 1..seats
  BY <1>1, <1>2, <1>3, <1>4 DEF Typed
<1>6. \A p, q \in 1..seats : chosen[p] = chosen[q] => p = q
  BY <1>1, <1>2, <1>3, <1>5 DEF Typed
<1>7. Ranked(chosen, score)
  BY <1>1, <1>2, <1>3, <1>5 DEF SortedTail, Ranked
<1>8. NoneBetter(chosen, score)
  <2> SUFFICES ASSUME NEW d \in DOMAIN score, d \notin Range(chosen), NEW p \in 1..seats
               PROVE score[chosen[p]] >= score[d]
    BY <1>5 DEF NoneBetter
  <2>1. PICK q \in 1..N : ranking[q] = d
    BY <1>1 DEF Typed
  <2>2. q \notin 1..seats
    BY <1>5, <2>1 DEF Range
  <2>3. p \in 1..N /\ p < q
    BY <1>2, <1>3, <2>2
  <2> QED  BY <1>1, <1>2, <1>5, <2>1, <2>3 DEF SortedTail
<1>9. chosen \in Injection(1..seats, DOMAIN score)
  BY <1>5, <1>6 DEF Injection, IsInjective
<1> QED  BY <1>7, <1>8, <1>9 DEF Elections, seats, chosen, N

\* Whatever it does, the sort elects as Election does: delegates of the highest
\* scores, best first, in one step.
THEOREM SortElectsTheBest == SortSpec => Abstract!SafeSpec
<1>1. SortInit => Abstract!Init
  BY DEF SortInit, Abstract!Init
<1>2. ASSUME SortIInv, [SortNext]_sortVars PROVE [Abstract!Elect]_(Abstract!vars)
  <2>1. CASE Compare
    BY <2>1 DEF Compare, Abstract!vars
  <2>2. CASE NextPass
    BY <2>2 DEF NextPass, Abstract!vars
  <2>3. CASE Select
    <3>1. active' \in Elections(score)
      BY <1>2, <2>3, SelectElects
    <3>2. Elections(score) = Abstract!Elections(score)
      BY DEF Elections, Abstract!Elections, Seats, Abstract!Seats, Ranked,
             Abstract!Ranked, NoneBetter, Abstract!NoneBetter,
             Range, Abstract!Range, Injection, Abstract!Injection,
             IsInjective, Abstract!IsInjective, Cardinality, Abstract!Cardinality
    <3> QED  BY <2>3, <3>1, <3>2 DEF Select, Abstract!Elect
  <2>4. CASE UNCHANGED sortVars
    BY <2>4 DEF sortVars, Abstract!vars
  <2> QED  BY <1>2, <2>1, <2>2, <2>3, <2>4 DEF SortNext
<1> QED  BY <1>1, <1>2, SortInvariance, PTL DEF SortSpec, Abstract!SafeSpec
=============================================================================
