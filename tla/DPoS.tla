-------------------------------- MODULE DPoS --------------------------------
(***************************************************************************)
(* consensus/dpos.go on one node, from Initialize on: delegates and their  *)
(* stakes, the votes for them, the elected delegates of a round and the    *)
(* schedule of slots.  Every method holds the mutex from its first read to *)
(* its last write, so a call is one action; the ticker of the schedule and *)
(* the calls of main and of other packages interleave.                     *)
(*                                                                         *)
(* An election is one choice among Elections: UpdateActiveDelegates.tla    *)
(* shows that the sort of the code makes such a choice.  Left out: what is *)
(* only ever written (blocks created and missed, rewards, times, the       *)
(* representative) and VoterCount, which every line that writes Votes      *)
(* writes alike.                                                           *)
(***************************************************************************)
EXTENDS DelegateRules, SequencesExt

CONSTANTS
    Ids,                  \* who may be registered as a delegate
    Voters,
    InitialDelegates,     \* the 24 addresses of Initialize
    Stakes,               \* the stakes that registrations and updates bring
    Increments,           \* and those that are added to a stake
    InitialReliabilities, \* 95..99
    NoProducer,           \* CurrentProducer before the first slot
    MaxStake,             \* bound: no stake is raised above it
    MaxRound,             \* bound: no round beyond it
    MaxElapsed            \* bound: slots that pass between two ticks

MinimumStake == 100

ASSUME DelegatesAssumption ==
    /\ IsFiniteSet(Ids)
    /\ IsFiniteSet(Voters)
    /\ InitialDelegates \subseteq Ids
    /\ RoundLength <= Cardinality(InitialDelegates)
ASSUME QuantitiesAssumption ==
    /\ Stakes \subseteq Nat
    /\ Increments \subseteq Int
    /\ InitialReliabilities \subseteq 0..100
    /\ MaxStake \in Nat
    /\ MaxRound \in Nat
    /\ MaxElapsed \in Nat

VARIABLES
    delegates,        \* Delegates: the records of who is registered
    stakeBy,          \* StakeByNodeID
    votesBy,          \* VotesByNodeID
    activeDelegates,
    slot, round, producer,
    panicked          \* a call has panicked: the node is down

vars == <<delegates, stakeBy, votesBy, activeDelegates, slot, round, producer, panicked>>

\* A DelegateInfo.  "forgotten" is no field of it but history: the votes that
\* VotesByNodeID held for the delegate when this record was made.
Delegate(stake, reliability, forgotten) ==
    [stake |-> stake, votes |-> 0, reliability |-> reliability, isActive |-> FALSE,
     forgotten |-> forgotten]

VotersOf(d) == {v \in DOMAIN votesBy : votesBy[v] = d}

\* Twice the score of the code, which halves the reliability.
ScoreOf(records) ==
    [d \in DOMAIN records |->
        20 * records[d].votes + 2 * records[d].stake + records[d].reliability]

\* f without the key k.
Without(f, k) == [x \in DOMAIN f \ {k} |-> f[x]]

Marked(records, chosen) ==
    [d \in DOMAIN records |-> [records[d] EXCEPT !.isActive = d \in chosen]]

UpdateActiveDelegates ==
    /\ activeDelegates' \in Elections(ScoreOf(delegates))
    /\ delegates' = Marked(delegates, Range(activeDelegates'))

\* Initialize.
Init ==
    /\ \E stake \in [InitialDelegates -> {s \in Stakes : s >= MinimumStake}],
          reliability \in [InitialDelegates -> InitialReliabilities] :
          LET records == [d \in InitialDelegates |-> Delegate(stake[d], reliability[d], 0)]
          IN  /\ activeDelegates \in Elections(ScoreOf(records))
              /\ delegates = Marked(records, Range(activeDelegates))
              /\ stakeBy = stake
    /\ votesBy = [v \in {} |-> v]
    /\ slot = 0
    /\ round = 0
    /\ producer = NoProducer
    /\ panicked = FALSE

Panic == panicked' = TRUE

-----------------------------------------------------------------------------
(* Votes and registrations, by call and by message.                        *)

\* A bug to look for: a vote that moves is still counted where it was.
KeepPrevious(v, d) == [delegates EXCEPT ![d].votes = @ + 1]

\* Delegates after the vote of v for d.
Recount(v, d) ==
    LET left == IF v \in DOMAIN votesBy
                THEN [delegates EXCEPT ![votesBy[v]].votes = @ - 1]
                ELSE delegates
    IN  [left EXCEPT ![d].votes = @ + 1]

RegisterVote(v, d) ==
    /\ ~panicked
    /\ d \in DOMAIN delegates
    /\ IF v \in DOMAIN votesBy /\ votesBy[v] \notin DOMAIN delegates
       THEN Panic /\ UNCHANGED <<delegates, votesBy>>
       ELSE /\ delegates' = Recount(v, d)
            /\ votesBy' = [w \in DOMAIN votesBy \cup {v} |-> IF w = v THEN d ELSE votesBy[w]]
            /\ UNCHANGED panicked
    /\ UNCHANGED <<stakeBy, activeDelegates, slot, round, producer>>

\* f with the value x at d, which may be new.
With(f, d, x) == [e \in DOMAIN f \cup {d} |-> IF e = d THEN x ELSE f[e]]

\* Registers d, or replaces its record; its votes stay in VotesByNodeID.
RegisterDelegate(d, stake) ==
    /\ ~panicked
    /\ stake >= MinimumStake
    /\ delegates' = With(delegates, d, Delegate(stake, 100, Cardinality(VotersOf(d))))
    /\ stakeBy' = With(stakeBy, d, stake)
    /\ UNCHANGED <<votesBy, activeDelegates, slot, round, producer, panicked>>

DelegateUpdate(d, stake) ==
    /\ ~panicked
    /\ d \in DOMAIN delegates
    /\ stake >= MinimumStake
    /\ delegates' = [delegates EXCEPT ![d].stake = stake]
    /\ stakeBy' = With(stakeBy, d, stake)
    /\ UNCHANGED <<votesBy, activeDelegates, slot, round, producer, panicked>>

\* A bug to look for: the table of stakes is given the increment alone.
IncrementOnly(d, additional) == additional

IncreasedStake(d, additional) == delegates[d].stake + additional

IncreaseStake(d, additional) ==
    /\ ~panicked
    /\ d \in DOMAIN delegates
    /\ additional > 0
    /\ delegates[d].stake + additional <= MaxStake
    /\ delegates' = [delegates EXCEPT ![d].stake = @ + additional]
    /\ stakeBy' = With(stakeBy, d, IncreasedStake(d, additional))
    /\ UNCHANGED <<votesBy, activeDelegates, slot, round, producer, panicked>>

\* Bugs to look for: votes, or a seat, are left to who is no longer there.
AllVoters(d) == DOMAIN votesBy
EverySeat(d) == activeDelegates

VotersLeft(d) == DOMAIN votesBy \ VotersOf(d)
SeatsLeft(d) ==
    IF d \in Range(activeDelegates)
    THEN RemoveAt(activeDelegates, CHOOSE i \in DOMAIN activeDelegates : activeDelegates[i] = d)
    ELSE activeDelegates

UnregisterDelegate(d) ==
    /\ ~panicked
    /\ d \in DOMAIN delegates
    /\ delegates' = Without(delegates, d)
    /\ stakeBy' = Without(stakeBy, d)
    /\ activeDelegates' = SeatsLeft(d)
    /\ votesBy' = [v \in VotersLeft(d) |-> votesBy[v]]
    /\ UNCHANGED <<slot, round, producer, panicked>>

\* NewDPoS drops the currency manager it is given: reading the stake panics.
SlashValidator(d) ==
    /\ ~panicked
    /\ d \in DOMAIN delegates
    /\ Panic
    /\ UNCHANGED <<delegates, stakeBy, votesBy, activeDelegates, slot, round, producer>>

-----------------------------------------------------------------------------
(* The schedule, and the validators that main brings every five minutes.   *)

UpdateValidators ==
    /\ ~panicked
    /\ UpdateActiveDelegates
    /\ UNCHANGED <<stakeBy, votesBy, slot, round, producer, panicked>>

\* Once the delegates of the round are known, the producer of the slot.
Produce(s) ==
    IF s < Len(activeDelegates')
    THEN producer' = activeDelegates'[s + 1] /\ UNCHANGED panicked
    ELSE Panic /\ UNCHANGED producer

\* A bug to look for: the slots of a round are numbered on in the next one.
SlotOnAndOn(elapsed) == slot + elapsed

SlotAfter(elapsed) == (slot + elapsed) % RoundLength

\* A tick of the schedule after "elapsed" slots; slots beyond one pass when
\* the ticker, or the mutex, is late.
updateSchedule(elapsed) ==
    /\ ~panicked
    /\ slot' = SlotAfter(elapsed)
    /\ IF slot' = 0
       THEN /\ round < MaxRound
            /\ round' = round + 1
            /\ UpdateActiveDelegates
       ELSE UNCHANGED <<round, delegates, activeDelegates>>
    /\ Produce(slot')
    /\ UNCHANGED <<stakeBy, votesBy>>

Next ==
    \/ \E v \in Voters, d \in Ids : RegisterVote(v, d)
    \/ \E d \in Ids, stake \in Stakes : RegisterDelegate(d, stake) \/ DelegateUpdate(d, stake)
    \/ \E d \in Ids, additional \in Increments : IncreaseStake(d, additional)
    \/ \E d \in Ids : UnregisterDelegate(d) \/ SlashValidator(d)
    \/ UpdateValidators
    \/ \E elapsed \in 1..MaxElapsed : updateSchedule(elapsed)

Spec == Init /\ [][Next]_vars

-----------------------------------------------------------------------------
(* Properties.                                                             *)

\* Every record holds amounts the code admits, the seats of a round go to at
\* most RoundLength of them, and the schedule stays within its round.
TypeOK ==
    /\ DOMAIN delegates \subseteq Ids
    /\ delegates \in [DOMAIN delegates ->
                        [stake : Nat \ 0..(MinimumStake - 1), votes : Int, reliability : 0..100,
                         isActive : BOOLEAN, forgotten : Nat]]
    /\ DOMAIN votesBy \subseteq Voters
    /\ votesBy \in [DOMAIN votesBy -> Ids]
    /\ activeDelegates \in Seq(Ids)
    /\ Len(activeDelegates) <= RoundLength
    /\ slot \in 0..(RoundLength - 1)
    /\ round \in Nat
    /\ producer \in Ids \cup {NoProducer}
    /\ panicked \in BOOLEAN

\* Over all the moves of votes between delegates that come and go (dpos.go
\* 397-437, 525-549, 717-727), the count of a delegate is the number of those
\* whose vote is recorded for it, but for what its last registration forgot.
VotesAreAccounted ==
    \A d \in DOMAIN delegates :
        delegates[d].votes + delegates[d].forgotten = Cardinality(VotersOf(d))

\* A vote is recorded for somebody registered, so that taking it back (dpos.go
\* 427-428, 540-541) finds the record it counts down and does not panic.
VotesAreForDelegates ==
    \A v \in DOMAIN votesBy : votesBy[v] \in DOMAIN delegates

\* Whoever holds a seat is registered and holds one seat, and who is marked as
\* active holds one (dpos.go 341-352, 717-723): an election meets votes,
\* registrations and departures in any order.
SeatsAreOfDelegates ==
    /\ IsInjective(activeDelegates)
    /\ Range(activeDelegates) \subseteq DOMAIN delegates
    /\ \A d \in DOMAIN delegates : delegates[d].isActive => d \in Range(activeDelegates)

\* The table of stakes and the records agree, on who is there and on how much.
StakesAgree == stakeBy = [d \in DOMAIN delegates |-> delegates[d].stake]
=============================================================================
