-------------------------- MODULE ContractVMProofs --------------------------
(***************************************************************************)
(* For any code, clients, executors and depth of the stack: the gas of a   *)
(* nested sequence never wraps around, the balance is backed by the        *)
(* account, and the executions implement SequenceStore.                    *)
(***************************************************************************)
EXTENDS ContractVM, FoldLemmas, SequenceTheorems

\* Gas is spent in units of BaseCost: a limit that is not 0 pays for one.
Limits == {n * BaseCost : n \in Nat}

Frames == [ops : Seq(Operations), copy : Maps, gas : Nat, limit : Limits,
           extra : Nat, unread : SUBSET Keys, rest : SUBSET Keys]

Shallow == {"idle", "crediting", "finding", "charging"}
Deep == {"entering", "running", "sending", "debiting", "failing", "committing"}
Stages == Shallow \cup Deep \cup {"stuck"}

Executions == [at : Stages, readOnly : BOOLEAN, caller : Addresses \cup {None},
               frames : Seq(Frames), to : Addresses, amount : Int]

\* No sequence of an execution has more gas than the one that called it.
Shrinking(frames) ==
    \A d \in DOMAIN frames :
        /\ frames[d].limit <= ReadOnlyGas
        /\ d > 1 => frames[d].limit <= frames[d - 1].limit

\* Only the sequence that commits has keys left to commit.
Quiet(x) ==
    \A d \in DOMAIN x.frames :
        x.frames[d].rest # {} => d = Len(x.frames) /\ x.at = "committing"

\* A transfer has not left its sequence.
Transferring(x) ==
    x.at \in {"sending", "debiting"} => x.frames[Len(x.frames)].ops # <<>>

\* A sequence that has all keys to copy has copied none.
Fresh(x) ==
    x.at = "entering" =>
        LET f == x.frames[Len(x.frames)] IN f.unread = Keys => f.copy = Nothing

Fine(x) ==
    /\ x \in Executions
    /\ Len(x.frames) <= MaxDepth
    /\ x.at \in Deep => x.frames # <<>>
    /\ x.at \in Shallow => x.frames = <<>>
    /\ Shrinking(x.frames)
    /\ Quiet(x)
    /\ Transferring(x)
    /\ Fresh(x)

Executing ==
    /\ exec \in [Executors -> Executions]
    /\ \A e \in Executors : Fine(exec[e])
    /\ \A e \in Executors : exec[e].at = "committing" <=> holder = e

Holdings ==
    /\ balance \in Int
    /\ DOMAIN accounts \subseteq Addresses
    /\ accounts \in [DOMAIN accounts -> Nat]
    /\ wedged \in BOOLEAN

Contract ==
    /\ creator \in Clients \cup {None}
    /\ code \in Codes
    /\ state \in Maps
    /\ holder \in Executors \cup {None}
    /\ stopped \in BOOLEAN
    /\ calls \in 0..MaxCalls

IInv == Contract /\ Holdings /\ Executing

-----------------------------------------------------------------------------
(* Gas                                                                     *)

LEMMA ProductOfNumbers == ASSUME NEW m \in Nat, NEW n \in Nat PROVE m * n \in Nat
  OBVIOUS

LEMMA LimitsAreNumbers == ASSUME NEW limit \in Limits PROVE limit \in Nat
  BY ProductOfNumbers, GasAssumption DEF Limits

LEMMA ReadOnlyLimit == ReadOnlyGas \in Limits
<1>1. ReadOnlyGas = BaseCost * (ReadOnlyGas \div BaseCost) + (ReadOnlyGas % BaseCost)
  BY GasAssumption
<1>2. ReadOnlyGas \div BaseCost \in Nat
  BY GasAssumption
<1>3. ReadOnlyGas = (ReadOnlyGas \div BaseCost) * BaseCost
  BY <1>1, <1>2, GasAssumption
<1> QED  BY <1>2, <1>3 DEF Limits

LEMMA NoGas == 0 \in Limits
<1>1. 0 = 0 * BaseCost
  BY GasAssumption
<1> QED  BY <1>1 DEF Limits

\* What is left of a limit that pays for the operation is a smaller limit.
LEMMA RemainingShrinks ==
    ASSUME NEW limit \in Limits, limit > 0, limit <= ReadOnlyGas
    PROVE  RemainingGas(limit) \in Limits /\ RemainingGas(limit) <= limit
<1>1. PICK n \in Nat : limit = n * BaseCost
  BY DEF Limits
<1>2. n - 1 \in Nat
  <2>1. 0 * BaseCost = 0
    BY GasAssumption
  <2>2. n # 0
    BY <1>1, <2>1
  <2> QED  BY <2>2
<1>3. limit - BaseCost = (n - 1) * BaseCost
  BY <1>1, GasAssumption
<1>4. limit - BaseCost \in Nat
  BY <1>2, <1>3, ProductOfNumbers, GasAssumption
<1>5. limit - BaseCost \in 0..(Word - 1)
  BY <1>4, GasAssumption, LimitsAreNumbers
<1>6. RemainingGas(limit) = limit - BaseCost
  BY <1>5, GasAssumption DEF RemainingGas
<1>7. RemainingGas(limit) \in Limits
  BY <1>2, <1>3, <1>6 DEF Limits
<1>8. limit \in Nat /\ BaseCost \in Nat
  BY LimitsAreNumbers, GasAssumption
<1> QED  BY <1>6, <1>7, <1>8

-----------------------------------------------------------------------------
(* Stacks                                                                  *)

\* A new value of the sequence on top.
LEMMA TopReplaced ==
    ASSUME NEW frames \in Seq(Frames), frames # <<>>, NEW frame \in Frames
    PROVE  LET new == [frames EXCEPT ![Len(frames)] = frame]
           IN  /\ new \in Seq(Frames)
               /\ Len(new) = Len(frames)
               /\ new # <<>>
               /\ \A d \in 1..Len(frames) :
                     new[d] = IF d = Len(frames) THEN frame ELSE frames[d]
  OBVIOUS

\* One more sequence.
LEMMA Pushed ==
    ASSUME NEW frames \in Seq(Frames), NEW frame \in Frames
    PROVE  LET new == Append(frames, frame)
           IN  /\ new \in Seq(Frames)
               /\ Len(new) = Len(frames) + 1
               /\ new # <<>>
               /\ \A d \in 1..(Len(frames) + 1) :
                     new[d] = IF d = Len(frames) + 1 THEN frame ELSE frames[d]
<1> DEFINE new == Append(frames, frame)
<1>1. Len(frames) \in Nat
  OBVIOUS
<1>2. new \in Seq(Frames) /\ Len(new) = Len(frames) + 1
  OBVIOUS
<1>3. new # <<>>
  BY <1>1, <1>2
<1>4. \A d \in 1..(Len(frames) + 1) :
          new[d] = IF d = Len(frames) + 1 THEN frame ELSE frames[d]
  BY <1>1
<1> QED  BY <1>2, <1>3, <1>4

\* One less.
LEMMA Popped ==
    ASSUME NEW frames \in Seq(Frames), frames # <<>>
    PROVE  LET new == SubSeq(frames, 1, Len(frames) - 1)
           IN  /\ new \in Seq(Frames)
               /\ Len(new) = Len(frames) - 1
               /\ \A d \in 1..(Len(frames) - 1) : new[d] = frames[d]
<1> DEFINE new == SubSeq(frames, 1, Len(frames) - 1)
<1> DEFINE last == Len(frames) - 1
<1>1. last \in Nat
  OBVIOUS
<1>2. \A d \in 1..last : frames[d] \in Frames
  BY <1>1
<1> HIDE DEF last
<1>3. /\ SubSeq(frames, 1, last) \in Seq(Frames)
      /\ Len(SubSeq(frames, 1, last)) = IF 1 <= last THEN last - 1 + 1 ELSE 0
      /\ \A d \in 1..(last - 1 + 1) : SubSeq(frames, 1, last)[d] = frames[1 + d - 1]
  BY <1>1, <1>2, SubSeqProperties
<1>4. Len(SubSeq(frames, 1, last)) = last
  BY <1>1, <1>3
<1>5. \A d \in 1..last : SubSeq(frames, 1, last)[d] = frames[d]
  BY <1>1, <1>3
<1> QED  BY <1>3, <1>4, <1>5 DEF last
-----------------------------------------------------------------------------
(* Executions                                                              *)

Calm(frames) == \A d \in DOMAIN frames : frames[d].rest = {}

\* An execution that does not commit has nothing to commit.
LEMMA NobodyCommits ==
    ASSUME NEW x, Fine(x), x.at # "committing" PROVE Calm(x.frames)
  BY DEF Fine, Quiet, Calm

\* No sequence in progress.
LEMMA EmptyIsFine ==
    ASSUME NEW y \in Executions, y.frames = <<>>, y.at \in Shallow \cup {"stuck"}
    PROVE  Fine(y)
<1>1. Len(y.frames) <= MaxDepth
  BY GasAssumption
<1> QED  BY <1>1 DEF Fine, Shrinking, Quiet, Transferring, Fresh, Shallow, Deep

LEMMA IdleType == Idle \in Executions /\ Idle.frames = <<>> /\ Idle.at = "idle"
  BY DEF Idle, Executions, Stages, Shallow, Addresses

LEMMA IdleIsFine == Fine(Idle)
  BY IdleType, EmptyIsFine DEF Shallow

LEMMA ChargingIsFine == Fine([Idle EXCEPT !.at = "charging"])
<1> DEFINE y == [Idle EXCEPT !.at = "charging"]
<1>1. y \in Executions /\ y.frames = <<>> /\ y.at = "charging"
  BY IdleType DEF Executions, Stages, Shallow
<1> HIDE DEF y
<1>2. Fine(y)
  BY <1>1, EmptyIsFine DEF Shallow
<1> QED  BY <1>2 DEF y

\* The same sequences.
LEMMA SameIsFine ==
    ASSUME NEW x, Fine(x), x.at # "committing", x.at \in Deep,
           NEW y \in Executions, y.frames = x.frames,
           y.at \in (Deep \ {"entering"}) \cup {"stuck"},
           x.frames[Len(x.frames)].ops # <<>>
    PROVE  Fine(y)
  BY NobodyCommits DEF Fine, Calm, Quiet, Transferring, Fresh, Shallow, Deep

\* A new value of the sequence on top: it keeps its limit.
LEMMA TopIsFine ==
    ASSUME NEW x, Fine(x), x.at \in Deep,
           NEW frame \in Frames, frame.limit = x.frames[Len(x.frames)].limit,
           NEW y \in Executions,
           y.frames = [x.frames EXCEPT ![Len(x.frames)] = frame],
           y.at \in {"entering", "running", "committing"},
           y.at = "entering" => frame.unread # Keys,
           frame.rest # {} => y.at = "committing"
    PROVE  Fine(y)
<1> DEFINE n == Len(x.frames)
<1>1. x.frames \in Seq(Frames) /\ x.frames # <<>> /\ n <= MaxDepth
  BY DEF Fine, Executions
<1>2. n \in Nat \ {0} /\ DOMAIN x.frames = 1..n
  BY <1>1
<1>3. /\ Len(y.frames) = n /\ y.frames # <<>> /\ y.frames \in Seq(Frames)
      /\ \A d \in 1..n : y.frames[d] = IF d = n THEN frame ELSE x.frames[d]
  BY <1>1, TopReplaced
<1>4. DOMAIN y.frames = 1..n
  BY <1>3
<1> HIDE DEF n
<1>5. \A d \in 1..n : y.frames[d].limit = x.frames[d].limit
  BY <1>3 DEF n
<1>6. Shrinking(x.frames)
  BY DEF Fine
<1>7. Shrinking(y.frames)
  <2> SUFFICES ASSUME NEW d \in 1..n
               PROVE  /\ y.frames[d].limit <= ReadOnlyGas
                      /\ d > 1 => y.frames[d].limit <= y.frames[d - 1].limit
    BY <1>4 DEF Shrinking
  <2>1. d > 1 => d - 1 \in 1..n
    BY <1>2
  <2> QED  BY <1>2, <1>5, <1>6, <2>1 DEF Shrinking
<1>8. \A d \in 1..n : x.frames[d].rest # {} => d = n
  BY <1>2 DEF Fine, Quiet, n
<1>9. Quiet(y)
  BY <1>3, <1>4, <1>8 DEF Quiet
<1>10. Fresh(y)
  BY <1>2, <1>3 DEF Fresh
<1> QED  BY <1>1, <1>3, <1>7, <1>9, <1>10 DEF Fine, Transferring, Shallow, Deep

\* One more sequence, with no more gas.
LEMMA PushedIsFine ==
    ASSUME NEW base \in Seq(Frames), Shrinking(base), Calm(base), Len(base) < MaxDepth,
           NEW frame \in Frames, frame.copy = Nothing, frame.rest = {}, frame.limit <= ReadOnlyGas,
           base # <<>> => frame.limit <= base[Len(base)].limit,
           NEW y \in Executions, y.frames = Append(base, frame), y.at = "entering"
    PROVE  Fine(y)
<1> DEFINE n == Len(base)
<1>1. n \in Nat /\ DOMAIN base = 1..n /\ (n > 0 => base # <<>>)
  OBVIOUS
<1>2. /\ Len(y.frames) = n + 1 /\ y.frames # <<>> /\ y.frames \in Seq(Frames)
      /\ \A d \in 1..(n + 1) : y.frames[d] = IF d = n + 1 THEN frame ELSE base[d]
  BY Pushed
<1>3. DOMAIN y.frames = 1..(n + 1)
  BY <1>2
<1>4. n < MaxDepth /\ (n > 0 => frame.limit <= base[n].limit)
  BY <1>1
<1>5. \A d \in 1..n : base[d].limit <= ReadOnlyGas /\ (d > 1 => base[d].limit <= base[d - 1].limit)
  BY <1>1 DEF Shrinking
<1>6. \A d \in 1..n : base[d].rest = {}
  BY <1>1 DEF Calm
<1> HIDE DEF n
<1>7. Shrinking(y.frames)
  <2> SUFFICES ASSUME NEW d \in 1..(n + 1)
               PROVE  /\ y.frames[d].limit <= ReadOnlyGas
                      /\ d > 1 => y.frames[d].limit <= y.frames[d - 1].limit
    BY <1>3 DEF Shrinking
  <2>1. CASE d = n + 1
    <3>1. d > 1 => y.frames[d - 1] = base[n] /\ n > 0
      BY <1>1, <1>2, <2>1
    <3> QED  BY <1>2, <1>4, <2>1, <3>1
  <2>2. CASE d # n + 1
    <3>1. d \in 1..n /\ (d > 1 => d - 1 \in 1..n /\ d - 1 # n + 1 /\ d - 1 \in 1..(n + 1))
      BY <1>1, <2>2
    <3> QED  BY <1>2, <1>5, <2>2, <3>1
  <2> QED  BY <2>1, <2>2
<1>8. Quiet(y)
  BY <1>1, <1>2, <1>3, <1>6 DEF Quiet
<1>9. n + 1 <= MaxDepth
  BY <1>1, <1>4, GasAssumption
<1>10. Fresh(y)
  <2>1. n + 1 \in 1..(n + 1)
    BY <1>1
  <2> QED  BY <1>2, <2>1 DEF Fresh
<1> QED  BY <1>2, <1>7, <1>8, <1>9, <1>10 DEF Fine, Transferring, Shallow, Deep
LEMMA EmptySeqIsShort == \A frames : Len(frames) > 0 => frames # <<>>
<1>1. ~(Len(<<>>) > 0)
  OBVIOUS
<1> QED  BY <1>1

\* The first sequences of a stack.
LEMMA PoppedKeeps ==
    ASSUME NEW frames \in Seq(Frames), frames # <<>>, Shrinking(frames),
           \A d \in DOMAIN frames : frames[d].rest # {} => d = Len(frames)
    PROVE  LET new == SubSeq(frames, 1, Len(frames) - 1)
           IN  Shrinking(new) /\ Calm(new)
<1> DEFINE n == Len(frames)
           new == SubSeq(frames, 1, n - 1)
<1>1. n \in Nat \ {0} /\ DOMAIN frames = 1..n
  OBVIOUS
<1>2. /\ new \in Seq(Frames)
      /\ Len(new) = n - 1
      /\ \A d \in 1..(n - 1) : new[d] = frames[d]
  BY Popped
<1>3. DOMAIN new = 1..(n - 1)
  BY <1>2
<1>6. \A d \in 1..n : frames[d].rest # {} => d = n
  BY <1>1
<1> HIDE DEF new, n
<1>4. Shrinking(new)
  <2> SUFFICES ASSUME NEW d \in 1..(n - 1)
               PROVE  /\ new[d].limit <= ReadOnlyGas
                      /\ d > 1 => new[d].limit <= new[d - 1].limit
    BY <1>3 DEF Shrinking
  <2>1. d \in 1..n /\ (d > 1 => d - 1 \in 1..(n - 1))
    BY <1>1
  <2> QED  BY <1>1, <1>2, <2>1 DEF Shrinking
<1>5. Calm(new)
  <2> SUFFICES ASSUME NEW d \in 1..(n - 1) PROVE new[d].rest = {}
    BY <1>3 DEF Calm
  <2>1. d \in 1..n /\ d # n
    BY <1>1
  <2> QED  BY <1>2, <1>6, <2>1
<1> QED  BY <1>4, <1>5 DEF new, n

\* The sequence on top has ended with an error.
LEMMA PoppedIsFine ==
    ASSUME NEW x, Fine(x), x.at \in Deep, Len(x.frames) > 1,
           NEW y \in Executions, y.at = "failing",
           y.frames = SubSeq(x.frames, 1, Len(x.frames) - 1)
    PROVE  Fine(y)
<1>1. /\ x.frames \in Seq(Frames) /\ x.frames # <<>> /\ Shrinking(x.frames)
      /\ Len(x.frames) <= MaxDepth
      /\ \A d \in DOMAIN x.frames : x.frames[d].rest # {} => d = Len(x.frames)
  BY DEF Fine, Executions, Quiet
<1>2. /\ y.frames \in Seq(Frames) /\ Len(y.frames) = Len(x.frames) - 1
      /\ Shrinking(y.frames) /\ Calm(y.frames)
  BY <1>1, Popped, PoppedKeeps
<1>3. Len(x.frames) \in Nat /\ MaxDepth \in Nat
  BY <1>1, GasAssumption
<1>4. Len(y.frames) > 0 /\ Len(y.frames) <= MaxDepth
  BY <1>1, <1>2, <1>3
<1>5. y.frames # <<>>
  BY <1>4, EmptySeqIsShort
<1> QED  BY <1>2, <1>4, <1>5 DEF Fine, Quiet, Calm, Transferring, Fresh, Shallow, Deep

\* The sequence on top has ended well: the one below goes on.
LEMMA ResumedIsFine ==
    ASSUME NEW x, Fine(x), x.at \in Deep, Len(x.frames) > 1,
           NEW frame \in Frames, frame.limit = x.frames[Len(x.frames) - 1].limit,
           frame.rest = x.frames[Len(x.frames) - 1].rest,
           NEW y \in Executions, y.at = "running",
           y.frames = [SubSeq(x.frames, 1, Len(x.frames) - 1) EXCEPT ![Len(x.frames) - 1] = frame]
    PROVE  Fine(y)
<1> DEFINE n == Len(x.frames)
           below == SubSeq(x.frames, 1, n - 1)
           z == [y EXCEPT !.at = "failing", !.frames = below]
<1>1. x.frames \in Seq(Frames) /\ x.frames # <<>> /\ n \in Nat /\ n > 1
  BY DEF Fine, Executions
<1>2. /\ below \in Seq(Frames) /\ Len(below) = n - 1 /\ below # <<>>
      /\ below[n - 1] = x.frames[n - 1]
  <2>1. /\ below \in Seq(Frames) /\ Len(below) = n - 1
        /\ \A d \in 1..(n - 1) : below[d] = x.frames[d]
    BY <1>1, Popped
  <2> HIDE DEF below
  <2>2. n - 1 \in 1..(n - 1)
    BY <1>1
  <2>3. Len(below) > 0
    BY <1>1, <2>1
  <2>4. below # <<>>
    BY <2>3
  <2> QED  BY <2>1, <2>2, <2>4
<1> HIDE DEF below
<1>3. z \in Executions /\ z.at = "failing" /\ z.frames = below
  BY <1>2 DEF Executions, Stages, Deep
<1>4. Fine(z)
  BY <1>1, <1>3, PoppedIsFine DEF below
<1>5. frame.rest = {}
  <2>1. n - 1 \in DOMAIN x.frames /\ n - 1 # n
    BY <1>1
  <2> QED  BY <2>1 DEF Fine, Quiet
<1> HIDE DEF z, n
<1>6. frame.limit = z.frames[Len(z.frames)].limit /\ y.frames = [z.frames EXCEPT ![Len(z.frames)] = frame]
  BY <1>2, <1>3 DEF below, n
<1> QED  BY <1>3, <1>4, <1>5, <1>6, TopIsFine DEF Deep
-----------------------------------------------------------------------------
(* Steps of an execution                                                   *)

LEMMA ExecutionMoves ==
    ASSUME Executing, NEW e \in Executors, NEW new, Fine(new), Goes(e, new),
           new.at = "committing" <=> holder' = e,
           \A o \in Executors \ {e} : holder' = o <=> holder = o
    PROVE  Executing'
<1>1. exec' = [exec EXCEPT ![e] = new] /\ new \in Executions
  BY DEF Goes, Fine
<1>2. exec' \in [Executors -> Executions]
  BY <1>1 DEF Executing
<1>3. \A o \in Executors : exec'[o] = IF o = e THEN new ELSE exec[o]
  BY <1>1 DEF Executing
<1>4. \A o \in Executors : Fine(exec'[o])
  BY <1>3 DEF Executing
<1>5. \A o \in Executors : exec'[o].at = "committing" <=> holder' = o
  BY <1>3 DEF Executing
<1> QED  BY <1>2, <1>4, <1>5 DEF Executing

\* An execution in progress and the sequence on top of it.
LEMMA TopFacts ==
    ASSUME Executing, NEW e \in Executors, exec[e].at \in Deep
    PROVE  /\ exec[e] \in Executions /\ Fine(exec[e])
           /\ exec[e].frames \in Seq(Frames)
           /\ exec[e].frames # <<>>
           /\ Depth(e) \in Nat \ {0}
           /\ Depth(e) \in DOMAIN exec[e].frames
           /\ Top(e) \in Frames
           /\ Top(e) = exec[e].frames[Len(exec[e].frames)]
           /\ Top(e).limit <= ReadOnlyGas
           /\ exec[e].at # "committing" => Top(e).rest = {} /\ holder # e
<1>1. exec[e] \in Executions /\ Fine(exec[e])
  BY DEF Executing
<1>2. exec[e].frames \in Seq(Frames) /\ exec[e].frames # <<>>
  BY <1>1 DEF Executions, Fine
<1>3. Depth(e) \in Nat \ {0} /\ Depth(e) \in DOMAIN exec[e].frames
  BY <1>2 DEF Depth
<1>4. Top(e) \in Frames /\ Top(e) = exec[e].frames[Len(exec[e].frames)]
  BY <1>2, <1>3 DEF Top, Depth
<1>5. Top(e).limit <= ReadOnlyGas
  BY <1>1, <1>3 DEF Fine, Shrinking, Top
<1>6. exec[e].at # "committing" => Top(e).rest = {} /\ holder # e
  BY <1>1, <1>3 DEF Fine, Quiet, Top, Executing
<1> QED  BY <1>1, <1>2, <1>3, <1>4, <1>5, <1>6

LEMMA OperationFacts ==
    ASSUME Executing, NEW e \in Executors, Pending(e)
    PROVE  /\ exec[e].at \in Deep /\ exec[e].at = "running"
           /\ Operation(e) \in Operations
           /\ Top(e).ops # <<>>
           /\ Top(e).ops \in Seq(Operations)
<1>1. exec[e].at \in Deep /\ exec[e].at = "running" /\ Top(e).ops # <<>>
  BY DEF Pending, Deep
<1>2. Top(e) \in Frames
  BY <1>1, TopFacts
<1>3. Top(e).ops \in Seq(Operations)
  BY <1>2 DEF Frames
<1> QED  BY <1>1, <1>3, HeadTailProperties DEF Operation

LEMMA DoneFacts ==
    ASSUME NEW frame \in Frames, frame.ops # <<>>, NEW cost \in Nat
    PROVE  /\ Done(frame, cost) \in Frames
           /\ Done(frame, cost).limit = frame.limit
           /\ Done(frame, cost).copy = frame.copy
           /\ Done(frame, cost).rest = frame.rest
<1>1. Tail(frame.ops) \in Seq(Operations)
  BY HeadTailProperties DEF Frames
<1>2. frame.gas + cost \in Nat
  BY DEF Frames
<1> QED  BY <1>1, <1>2 DEF Done, Frames

\* The sequence on top goes on.
LEMMA AdvanceKeeps ==
    ASSUME Executing, NEW e \in Executors, exec[e].at \in Deep, exec[e].at # "committing",
           NEW frame \in Frames, frame.limit = Top(e).limit, frame.rest = {},
           Advances(e, frame), UNCHANGED holder
    PROVE  Executing'
<1> DEFINE new == [exec[e] EXCEPT !.at = "running", !.frames = WithTop(e, frame)]
<1>1. /\ exec[e] \in Executions /\ Fine(exec[e]) /\ holder # e
      /\ exec[e].frames \in Seq(Frames) /\ exec[e].frames # <<>>
      /\ Top(e) = exec[e].frames[Len(exec[e].frames)]
  BY TopFacts
<1>2. WithTop(e, frame) \in Seq(Frames)
  BY <1>1, TopReplaced DEF WithTop, Depth
<1>3. /\ new \in Executions /\ new.at = "running"
      /\ new.frames = [exec[e].frames EXCEPT ![Len(exec[e].frames)] = frame]
  BY <1>1, <1>2 DEF Executions, Stages, Deep, WithTop, Depth
<1>4. Goes(e, new)
  BY DEF Advances
<1> HIDE DEF new
<1>5. Fine(new)
  BY <1>1, <1>3, TopIsFine DEF Deep
<1> QED  BY <1>1, <1>3, <1>4, <1>5, ExecutionMoves

\* One more key is copied.
LEMMA CopyFacts ==
    ASSUME Contract, Executing, NEW e \in Executors, exec[e].at = "entering",
           NEW k \in Top(e).unread
    PROVE  LET unread == Top(e).unread \ {k}
               frame  == [Top(e) EXCEPT !.copy[k] = state[k], !.unread = unread]
           IN  /\ frame \in Frames
               /\ frame.limit = Top(e).limit /\ frame.rest = {}
               /\ frame.copy = [Top(e).copy EXCEPT ![k] = state[k]]
               /\ frame.unread = unread /\ unread # Keys
<1> DEFINE unread == Top(e).unread \ {k}
           copy == [Top(e).copy EXCEPT ![k] = state[k]]
           frame == [Top(e) EXCEPT !.copy[k] = state[k], !.unread = unread]
<1>1. exec[e].at \in Deep
  BY DEF Deep
<1>2. Top(e) \in Frames /\ Top(e).rest = {}
  BY <1>1, TopFacts
<1>3. k \in Keys /\ unread \in SUBSET Keys /\ unread # Keys
  BY <1>2 DEF Frames
<1>4. copy \in Maps
  BY <1>2, <1>3 DEF Frames, Maps, Contract
<1>5. frame = [Top(e) EXCEPT !.copy = copy, !.unread = unread]
  BY <1>2 DEF Frames
<1> HIDE DEF copy, unread, frame
<1>6. /\ frame \in Frames /\ frame.limit = Top(e).limit /\ frame.rest = {}
      /\ frame.copy = copy /\ frame.unread = unread
  BY <1>2, <1>3, <1>4, <1>5 DEF Frames
<1> QED  BY <1>3, <1>6 DEF copy, unread, frame

LEMMA EnterKeeps ==
    ASSUME Contract, Executing, NEW e \in Executors, Enter(e) PROVE Executing'
<1>1. exec[e].at = "entering" /\ exec[e].at \in Deep /\ UNCHANGED holder
  BY DEF Enter, Deep
<1>2. PICK k \in Top(e).unread :
          LET unread == Top(e).unread \ {k}
              frame  == [Top(e) EXCEPT !.copy[k] = state[k], !.unread = unread]
          IN  Goes(e, [exec[e] EXCEPT !.at = IF unread = {} THEN "running" ELSE "entering",
                                      !.frames = WithTop(e, frame)])
  BY DEF Enter
<1> DEFINE unread == Top(e).unread \ {k}
           frame == [Top(e) EXCEPT !.copy[k] = state[k], !.unread = unread]
           at == IF unread = {} THEN "running" ELSE "entering"
           new == [exec[e] EXCEPT !.at = at, !.frames = WithTop(e, frame)]
<1>3. frame \in Frames /\ frame.limit = Top(e).limit /\ frame.rest = {} /\ frame.unread # Keys
  BY <1>1, CopyFacts
<1>4. Goes(e, new) /\ at \in {"running", "entering"}
  BY <1>2
<1> HIDE DEF frame, at
<1>5. /\ exec[e] \in Executions /\ Fine(exec[e]) /\ holder # e
      /\ exec[e].frames \in Seq(Frames) /\ exec[e].frames # <<>>
      /\ Top(e) = exec[e].frames[Len(exec[e].frames)]
  BY <1>1, TopFacts
<1>6. WithTop(e, frame) \in Seq(Frames)
  BY <1>3, <1>5, TopReplaced DEF WithTop, Depth
<1>7. /\ new \in Executions /\ new.at = at
      /\ new.frames = [exec[e].frames EXCEPT ![Len(exec[e].frames)] = frame]
  BY <1>4, <1>5, <1>6 DEF Executions, Stages, Deep, WithTop, Depth
<1> HIDE DEF new
<1>8. Fine(new)
  BY <1>1, <1>3, <1>4, <1>5, <1>7, TopIsFine
<1> QED  BY <1>1, <1>4, <1>5, <1>7, <1>8, ExecutionMoves

\* STORE, LOAD, RETURN and the operations that compute.
LEMMA OperationKeeps ==
    ASSUME Executing, NEW e \in Executors,
           Store(e) \/ Load(e) \/ Compute(e) \/ Return(e)
    PROVE  Executing'
<1>1. Pending(e) /\ UNCHANGED holder
  BY DEF Store, Load, Compute, Return, Executes, Untouched
<1>2. /\ exec[e].at = "running" /\ exec[e].at \in Deep
      /\ Operation(e) \in Operations
      /\ Top(e) \in Frames /\ Top(e).ops # <<>> /\ Top(e).rest = {}
  BY <1>1, OperationFacts, TopFacts
<1>3. ASSUME NEW frame \in Frames, frame.limit = Top(e).limit, frame.rest = {}, Advances(e, frame)
      PROVE  Executing'
  BY <1>1, <1>2, <1>3, AdvanceKeeps
<1>4. CASE Store(e)
  <2> DEFINE done == Done(Top(e), BaseCost + StoreCost)
             frame == [done EXCEPT !.copy[Operation(e).key] = Operation(e).value]
  <2>1. done \in Frames /\ done.limit = Top(e).limit /\ done.rest = {}
    BY <1>2, DoneFacts, GasAssumption
  <2>2. Operation(e).key \in Keys /\ Operation(e).value \in Values
    BY <1>2, <1>4, CodeAssumption DEF Store, Executes
  <2>3. Advances(e, frame)
    BY <1>4 DEF Store
  <2> HIDE DEF done
  <2>4. [done.copy EXCEPT ![Operation(e).key] = Operation(e).value] \in Maps
    BY <2>1, <2>2 DEF Frames, Maps
  <2>5. frame \in Frames /\ frame.limit = done.limit /\ frame.rest = done.rest
    BY <2>1, <2>4 DEF Frames
  <2> HIDE DEF frame
  <2> QED  BY <1>3, <2>1, <2>3, <2>5
<1>5. CASE Load(e)
  <2>1. Advances(e, Done(Top(e), BaseCost + LoadCost))
    BY <1>5 DEF Load
  <2>2. BaseCost + LoadCost \in Nat
    BY GasAssumption
  <2> QED  BY <1>2, <1>3, <2>1, <2>2, DoneFacts
<1>6. CASE Compute(e)
  <2>1. Advances(e, Done(Top(e), BaseCost + Operation(e).cost))
    BY <1>6 DEF Compute
  <2>2. Operation(e).cost \in Nat
    BY <1>2, <1>6, CodeAssumption DEF Compute, Executes
  <2>3. BaseCost + Operation(e).cost \in Nat
    BY <2>2, GasAssumption
  <2> QED  BY <1>2, <1>3, <2>1, <2>3, DoneFacts
<1>7. CASE Return(e)
  <2> DEFINE done == Done(Top(e), BaseCost)
             frame == [done EXCEPT !.ops = <<>>]
  <2>1. done \in Frames /\ done.limit = Top(e).limit /\ done.rest = {}
    BY <1>2, DoneFacts, GasAssumption
  <2>2. Advances(e, frame)
    BY <1>7 DEF Return
  <2> HIDE DEF done
  <2>3. <<>> \in Seq(Operations)
    OBVIOUS
  <2>4. frame \in Frames /\ frame.limit = done.limit /\ frame.rest = done.rest
    BY <2>1, <2>3 DEF Frames
  <2> HIDE DEF frame
  <2> QED  BY <1>3, <2>1, <2>2, <2>4
<1> QED  BY <1>4, <1>5, <1>6, <1>7

LEMMA FrameType ==
    ASSUME NEW ops \in Seq(Operations), NEW limit \in Limits, NEW extra \in Nat
    PROVE  /\ Frame(ops, limit, extra) \in Frames
           /\ Frame(ops, limit, extra).limit = limit
           /\ Frame(ops, limit, extra).copy = Nothing
           /\ Frame(ops, limit, extra).unread = Keys
           /\ Frame(ops, limit, extra).rest = {}
<1>1. Nothing \in Maps
  BY DEF Nothing, Maps
<1> QED  BY <1>1 DEF Frame, Frames

\* The sequence on top calls another one.
LEMMA PushKeeps ==
    ASSUME Executing, NEW e \in Executors, exec[e].at \in Deep, exec[e].at # "committing",
           NEW frame \in Frames, frame.limit = Top(e).limit, frame.rest = {},
           NEW ops \in Seq(Operations), NEW limit \in Limits, limit <= Top(e).limit,
           NEW extra \in Nat,
           Push(e, WithTop(e, frame), ops, limit, extra), UNCHANGED holder
    PROVE  Executing'
<1> DEFINE base == WithTop(e, frame)
           pushed == Frame(ops, limit, extra)
           x == [exec[e] EXCEPT !.at = "running", !.frames = base]
           new == [exec[e] EXCEPT !.at = "entering", !.frames = Append(base, pushed)]
<1>1. /\ exec[e] \in Executions /\ Fine(exec[e]) /\ holder # e
      /\ exec[e].frames \in Seq(Frames) /\ exec[e].frames # <<>>
      /\ Top(e) \in Frames
      /\ Top(e) = exec[e].frames[Len(exec[e].frames)]
      /\ Top(e).limit <= ReadOnlyGas
      /\ Depth(e) \in Nat \ {0}
  BY TopFacts
<1>2. /\ base \in Seq(Frames) /\ Len(base) = Depth(e) /\ base[Len(base)] = frame
  BY <1>1, TopReplaced DEF WithTop, Depth
<1>3. pushed \in Frames /\ pushed.limit = limit /\ pushed.copy = Nothing /\ pushed.rest = {}
  BY FrameType
<1>4. base = [exec[e].frames EXCEPT ![Len(exec[e].frames)] = frame]
  BY DEF WithTop, Depth
<1>5. Goes(e, new) /\ Len(base) < MaxDepth
  BY DEF Push
<1> HIDE DEF base, pushed
<1>6. x \in Executions /\ x.at = "running" /\ x.frames = base
  BY <1>1, <1>2 DEF Executions, Stages, Deep
<1> HIDE DEF x
<1>7. Fine(x)
  BY <1>1, <1>4, <1>6, TopIsFine DEF Deep
<1>8. Shrinking(base) /\ Calm(base)
  BY <1>6, <1>7, NobodyCommits DEF Fine
<1>9. Append(base, pushed) \in Seq(Frames)
  BY <1>2, <1>3, Pushed
<1>10. new \in Executions /\ new.at = "entering" /\ new.frames = Append(base, pushed)
  BY <1>1, <1>9 DEF Executions, Stages, Deep
<1> HIDE DEF new
<1>11. limit <= ReadOnlyGas
  <2>1. Top(e).limit \in Limits
    BY <1>1 DEF Frames
  <2>2. Top(e).limit \in Nat /\ limit \in Nat /\ ReadOnlyGas \in Nat
    BY <2>1, LimitsAreNumbers, GasAssumption
  <2> QED  BY <1>1, <2>2
<1>12. Fine(new)
  BY <1>2, <1>3, <1>5, <1>8, <1>10, <1>11, PushedIsFine
<1> QED  BY <1>1, <1>5, <1>10, <1>12, ExecutionMoves

LEMMA NestKeeps ==
    ASSUME Contract, Executing, NEW e \in Executors, If(e) \/ Call(e)
    PROVE  Executing'
<1> DEFINE frame == Done(Top(e), 0)
<1>1. Pending(e) /\ ~OutOfGas(e) /\ UNCHANGED holder
  BY DEF If, Call, Executes, Untouched
<1>2. /\ exec[e].at = "running" /\ exec[e].at \in Deep
      /\ Operation(e) \in Operations
      /\ Top(e) \in Frames /\ Top(e).ops # <<>> /\ Top(e).rest = {}
      /\ Top(e).limit <= ReadOnlyGas
  BY <1>1, OperationFacts, TopFacts
<1>3. frame \in Frames /\ frame.limit = Top(e).limit /\ frame.rest = {}
  BY <1>2, DoneFacts
<1>4. Top(e).limit \in Limits /\ Top(e).limit \in Nat /\ Top(e).gas \in Nat
  BY <1>2, LimitsAreNumbers DEF Frames
<1> HIDE DEF frame
<1>5. CASE If(e)
  <2>1. Operation(e).body \in Seq(Operations)
    BY <1>2, <1>5, CodeAssumption DEF If, Executes
  <2>2. Push(e, WithTop(e, frame), Operation(e).body, Top(e).limit, BaseCost)
    BY <1>5 DEF If, frame
  <2>3. BaseCost \in Nat /\ Top(e).limit <= Top(e).limit
    BY <1>4, GasAssumption
  <2> QED  BY <1>1, <1>2, <1>3, <1>4, <2>1, <2>2, <2>3, PushKeeps
<1>6. CASE Call(e)
  <2> DEFINE ops == code[Operation(e).method]
             limit == RemainingGas(Top(e).limit)
  <2>1. ops \in Seq(Operations)
    BY <1>6, CodeAssumption DEF Call, Contract
  <2>2. Top(e).limit > 0
    BY <1>1, <1>4 DEF OutOfGas
  <2>3. limit \in Limits /\ limit <= Top(e).limit
    BY <1>2, <1>4, <2>2, RemainingShrinks
  <2>4. Push(e, WithTop(e, frame), ops, limit, BaseCost + CallCost)
    BY <1>6 DEF Call, frame
  <2>5. BaseCost + CallCost \in Nat
    BY GasAssumption
  <2> HIDE DEF ops, limit
  <2> QED  BY <1>1, <1>2, <1>3, <2>1, <2>3, <2>4, <2>5, PushKeeps
<1> QED  BY <1>5, <1>6
\* TRANSFER.
LEMMA TransferKeeps ==
    ASSUME Executing, NEW e \in Executors, CheckBalance(e) \/ Send(e) \/ Debit(e)
    PROVE  Executing'
<1>1. CASE CheckBalance(e)
  <2> DEFINE new == [exec[e] EXCEPT !.at = "sending", !.to = Operation(e).to, !.amount = Operation(e).amount]
  <2>1. Pending(e) /\ Operation(e).op = "TRANSFER" /\ UNCHANGED holder /\ Goes(e, new)
    BY <1>1 DEF CheckBalance, Executes, Untouched
  <2>2. /\ exec[e].at = "running" /\ exec[e].at \in Deep /\ Operation(e) \in Operations
        /\ exec[e] \in Executions /\ Fine(exec[e]) /\ holder # e
        /\ exec[e].frames[Len(exec[e].frames)].ops # <<>>
    BY <2>1, OperationFacts, TopFacts
  <2>3. Operation(e).to \in Addresses /\ Operation(e).amount \in Int
    BY <2>1, <2>2, CodeAssumption
  <2>4. new \in Executions /\ new.at = "sending" /\ new.frames = exec[e].frames
    BY <2>2, <2>3 DEF Executions, Stages, Deep
  <2> HIDE DEF new
  <2>5. Fine(new)
    BY <2>2, <2>4, SameIsFine DEF Deep
  <2> QED  BY <2>1, <2>2, <2>4, <2>5, ExecutionMoves
<1>2. CASE Send(e)
  <2> DEFINE new == [exec[e] EXCEPT !.at = IF wedged' THEN "stuck" ELSE "debiting"]
  <2>1. exec[e].at = "sending" /\ exec[e].at \in Deep /\ UNCHANGED holder /\ Goes(e, new)
    BY <1>2 DEF Send, Deep
  <2>2. /\ exec[e] \in Executions /\ Fine(exec[e]) /\ holder # e
        /\ exec[e].frames[Len(exec[e].frames)].ops # <<>>
    BY <2>1, TopFacts DEF Fine, Transferring
  <2>3. new \in Executions /\ new.at \in {"stuck", "debiting"} /\ new.frames = exec[e].frames
    BY <2>2 DEF Executions, Stages, Deep
  <2> HIDE DEF new
  <2>4. Fine(new)
    BY <2>1, <2>2, <2>3, SameIsFine DEF Deep
  <2> QED  BY <2>1, <2>2, <2>3, <2>4, ExecutionMoves
<1>3. CASE Debit(e)
  <2> DEFINE frame == Done(Top(e), BaseCost + TransferCost)
  <2>1. exec[e].at = "debiting" /\ exec[e].at \in Deep /\ UNCHANGED holder /\ Advances(e, frame)
    BY <1>3 DEF Debit, Deep
  <2>2. Top(e) \in Frames /\ Top(e).rest = {} /\ Top(e).ops # <<>>
    BY <2>1, TopFacts DEF Fine, Transferring
  <2>3. BaseCost + TransferCost \in Nat
    BY GasAssumption
  <2>4. frame \in Frames /\ frame.limit = Top(e).limit /\ frame.rest = {}
    BY <2>2, <2>3, DoneFacts
  <2> HIDE DEF frame
  <2> QED  BY <2>1, <2>4, AdvanceKeeps
<1> QED  BY <1>1, <1>2, <1>3
\* An operation is refused: its sequence ends, and so do those that wait for it.
LEMMA FailKeeps ==
    ASSUME Executing, NEW e \in Executors, Fail(e) PROVE Executing'
<1>1. exec[e].at \in {"running", "sending", "failing"} /\ exec[e].at \in Deep /\ UNCHANGED holder
  BY DEF Fail, Refused, Pending, Untouched, Deep
<1>2. /\ exec[e] \in Executions /\ Fine(exec[e]) /\ holder # e
      /\ exec[e].frames \in Seq(Frames) /\ exec[e].frames # <<>> /\ Depth(e) \in Nat \ {0}
  BY <1>1, TopFacts
<1>3. CASE Depth(e) = 1
  <2>1. Goes(e, Idle) /\ Idle.at = "idle"
    BY <1>3 DEF Fail, Idle
  <2>2. Fine(Idle)
    BY IdleIsFine
  <2> QED  BY <1>1, <1>2, <2>1, <2>2, ExecutionMoves
<1>4. CASE Depth(e) # 1
  <2> DEFINE new == [exec[e] EXCEPT !.at = "failing", !.frames = Below(e)]
  <2>1. Goes(e, new)
    BY <1>4 DEF Fail
  <2>2. Below(e) = SubSeq(exec[e].frames, 1, Len(exec[e].frames) - 1) /\ Len(exec[e].frames) > 1
    <3>1. Depth(e) > 1
      BY <1>2, <1>4
    <3> QED  BY <3>1 DEF Below, Depth
  <2>3. Below(e) \in Seq(Frames)
    BY <1>2, <2>2, Popped
  <2>4. new \in Executions /\ new.at = "failing" /\ new.frames = Below(e)
    BY <1>2, <2>3 DEF Executions, Stages, Deep
  <2> HIDE DEF new
  <2>5. Fine(new)
    BY <1>1, <1>2, <2>2, <2>4, PoppedIsFine
  <2> QED  BY <1>1, <1>2, <2>1, <2>4, <2>5, ExecutionMoves
<1> QED  BY <1>3, <1>4

\* A sequence is committed.
LEMMA CommitKeeps ==
    ASSUME Executing, Contract, NEW e \in Executors,
           StartCommit(e) \/ Publish(e) \/ EndCommit(e)
    PROVE  Executing'
<1>1. CASE StartCommit(e)
  <2> DEFINE frame == [Top(e) EXCEPT !.rest = Present(Top(e).copy)]
             new == [exec[e] EXCEPT !.at = "committing", !.frames = WithTop(e, frame)]
  <2>1. exec[e].at = "running" /\ exec[e].at \in Deep /\ holder = None /\ holder' = e /\ Goes(e, new)
    BY <1>1 DEF StartCommit, MutexFree, Deep
  <2>2. /\ exec[e] \in Executions /\ Fine(exec[e]) /\ Top(e) \in Frames
        /\ exec[e].frames \in Seq(Frames) /\ exec[e].frames # <<>>
        /\ Top(e) = exec[e].frames[Len(exec[e].frames)]
    BY <2>1, TopFacts
  <2>3. frame \in Frames /\ frame.limit = Top(e).limit
    <3>1. Present(Top(e).copy) \in SUBSET Keys
      BY DEF Present
    <3> QED  BY <2>2, <3>1 DEF Frames
  <2> HIDE DEF frame
  <2>4. WithTop(e, frame) \in Seq(Frames)
    BY <2>2, <2>3, TopReplaced DEF WithTop, Depth
  <2>5. /\ new \in Executions /\ new.at = "committing"
        /\ new.frames = [exec[e].frames EXCEPT ![Len(exec[e].frames)] = frame]
    BY <2>2, <2>4 DEF Executions, Stages, Deep, WithTop, Depth
  <2> HIDE DEF new
  <2>6. Fine(new)
    BY <2>1, <2>2, <2>3, <2>5, TopIsFine
  <2>7. \A o \in Executors \ {e} : holder' = o <=> holder = o
    BY <2>1, NamesAssumption
  <2> QED  BY <2>1, <2>5, <2>6, <2>7, ExecutionMoves
<1>2. CASE Publish(e)
  <2>1. /\ exec[e].at = "committing" /\ exec[e].at \in Deep
        /\ UNCHANGED holder
    BY <1>2 DEF Publish, Deep
  <2>2. PICK k \in Top(e).rest :
            Goes(e, [exec[e] EXCEPT !.frames = WithTop(e, [Top(e) EXCEPT !.rest = @ \ {k}])])
    BY <1>2 DEF Publish
  <2> DEFINE frame == [Top(e) EXCEPT !.rest = @ \ {k}]
             new == [exec[e] EXCEPT !.frames = WithTop(e, frame)]
  <2>3. /\ exec[e] \in Executions /\ Fine(exec[e]) /\ Top(e) \in Frames
        /\ exec[e].frames \in Seq(Frames) /\ exec[e].frames # <<>>
        /\ Top(e) = exec[e].frames[Len(exec[e].frames)]
    BY <2>1, TopFacts
  <2>4. frame \in Frames /\ frame.limit = Top(e).limit
    BY <2>3 DEF Frames
  <2>5. Goes(e, new)
    BY <2>2
  <2> HIDE DEF frame
  <2>6. WithTop(e, frame) \in Seq(Frames)
    BY <2>3, <2>4, TopReplaced DEF WithTop, Depth
  <2>7. /\ new \in Executions /\ new.at = "committing"
        /\ new.frames = [exec[e].frames EXCEPT ![Len(exec[e].frames)] = frame]
    BY <2>1, <2>3, <2>6 DEF Executions, Stages, Deep, WithTop, Depth
  <2> HIDE DEF new
  <2>8. Fine(new)
    BY <2>1, <2>3, <2>4, <2>7, TopIsFine
  <2>9. holder' = e
    BY <2>1 DEF Executing
  <2> QED  BY <2>1, <2>5, <2>7, <2>8, <2>9, ExecutionMoves
<1>3. CASE EndCommit(e)
  <2>1. exec[e].at = "committing" /\ exec[e].at \in Deep /\ holder' = None
    BY <1>3 DEF EndCommit, Released, Deep
  <2>2. /\ exec[e] \in Executions /\ Fine(exec[e]) /\ Top(e) \in Frames
        /\ exec[e].frames \in Seq(Frames) /\ exec[e].frames # <<>> /\ Depth(e) \in Nat \ {0}
        /\ holder = e
    BY <2>1, TopFacts DEF Executing
  <2>3. holder' # e /\ \A o \in Executors \ {e} : holder' = o <=> holder = o
    BY <2>1, <2>2, NamesAssumption
  <2>4. CASE Depth(e) > 1
    <3> DEFINE below == Below(e)
               caller == exec[e].frames[Depth(e) - 1]
               frame == [caller EXCEPT !.gas = @ + Top(e).gas + Top(e).extra]
               new == [exec[e] EXCEPT !.at = "running", !.frames = [below EXCEPT ![Depth(e) - 1] = frame]]
    <3>1. Goes(e, new)
      BY <1>3, <2>4 DEF EndCommit, Resumed
    <3>2. below = SubSeq(exec[e].frames, 1, Len(exec[e].frames) - 1) /\ Len(exec[e].frames) > 1
      BY <2>4 DEF Below, Depth
    <3>3. below \in Seq(Frames) /\ Len(below) = Depth(e) - 1
      BY <2>2, <3>2, Popped DEF Depth
    <3>4. caller \in Frames
      BY <2>2, <2>4 DEF Depth
    <3>5. frame \in Frames /\ frame.limit = caller.limit /\ frame.rest = caller.rest
      <4> HIDE DEF caller
      <4>1. caller.gas + Top(e).gas + Top(e).extra \in Nat
        BY <2>2, <3>4 DEF Frames
      <4> QED  BY <3>4, <4>1 DEF Frames
    <3> HIDE DEF frame, below
    <3>6. [below EXCEPT ![Depth(e) - 1] = frame] \in Seq(Frames)
      <4>1. Len(below) > 0
        BY <2>2, <2>4, <3>3
      <4>2. [below EXCEPT ![Len(below)] = frame] \in Seq(Frames)
        BY <3>3, <3>5, <4>1, EmptySeqIsShort, TopReplaced
      <4> QED  BY <3>3, <4>2
    <3>7. /\ new \in Executions /\ new.at = "running"
          /\ new.frames = [below EXCEPT ![Depth(e) - 1] = frame]
      BY <2>2, <3>6 DEF Executions, Stages, Deep
    <3> HIDE DEF new
    <3>8. Fine(new)
      BY <2>1, <2>2, <3>2, <3>5, <3>7, ResumedIsFine DEF Depth
    <3> QED  BY <2>3, <3>1, <3>7, <3>8, ExecutionMoves
  <2>5. CASE Depth(e) = 1
    <3> DEFINE new == IF exec[e].readOnly THEN Idle ELSE [Idle EXCEPT !.at = "charging"]
    <3>1. Goes(e, new)
      BY <1>3, <2>5 DEF EndCommit
    <3>2. new.at # "committing" /\ Fine(new)
      BY IdleIsFine, ChargingIsFine DEF Idle
    <3> HIDE DEF new
    <3> QED  BY <2>3, <3>1, <3>2, ExecutionMoves
  <2> QED  BY <2>2, <2>4, <2>5
<1> QED  BY <1>1, <1>2, <1>3
\* An execution that has no sequence yet, or none left.
LEMMA ShallowFacts ==
    ASSUME Executing, NEW e \in Executors, exec[e].at \in Shallow
    PROVE  exec[e] \in Executions /\ exec[e].frames = <<>> /\ holder # e
  BY DEF Executing, Fine, Shallow

LEMMA ShallowMoves ==
    ASSUME Executing, NEW e \in Executors, holder # e,
           NEW new \in Executions, new.frames = <<>>, new.at \in Shallow \cup {"stuck"},
           Goes(e, new), UNCHANGED holder
    PROVE  Executing'
<1>1. Fine(new) /\ new.at # "committing"
  BY EmptyIsFine DEF Shallow
<1> QED  BY <1>1, ExecutionMoves

\* The first sequence of an execution.
LEMMA FirstSequence ==
    ASSUME Executing, NEW e \in Executors, holder # e,
           NEW x \in Executions,
           NEW ops \in Seq(Operations), NEW limit \in Limits, limit <= ReadOnlyGas,
           NEW new, new = [x EXCEPT !.at = "entering", !.frames = Append(<<>>, Frame(ops, limit, 0))],
           Goes(e, new), UNCHANGED holder
    PROVE  Executing'
<1> DEFINE pushed == Frame(ops, limit, 0)
<1>1. pushed \in Frames /\ pushed.limit = limit /\ pushed.copy = Nothing /\ pushed.rest = {}
  BY FrameType
<1>2. <<>> \in Seq(Frames) /\ Len(<<>>) = 0 /\ DOMAIN <<>> = {}
  OBVIOUS
<1>3. Shrinking(<<>>) /\ Calm(<<>>)
  BY <1>2 DEF Shrinking, Calm
<1> HIDE DEF pushed
<1>4. Append(<<>>, pushed) \in Seq(Frames)
  BY <1>1, <1>2
<1>5. new \in Executions /\ new.at = "entering" /\ new.frames = Append(<<>>, pushed)
  BY <1>4 DEF Executions, Stages, Deep, pushed
<1>6. Len(<<>>) < MaxDepth
  BY <1>2, GasAssumption
<1>7. Fine(new)
  BY <1>1, <1>2, <1>3, <1>5, <1>6, PushedIsFine
<1> QED  BY <1>5, <1>7, ExecutionMoves

\* What surrounds the sequences of an execution.
LEMMA RestKeeps ==
    ASSUME Executing, NEW e \in Executors, Credit(e) \/ Find(e) \/ Charge(e)
    PROVE  Executing'
<1>1. exec[e].at \in Shallow /\ UNCHANGED holder
  BY DEF Credit, Find, Charge, Untouched, Shallow
<1>2. exec[e] \in Executions /\ exec[e].frames = <<>> /\ holder # e
  BY <1>1, ShallowFacts
<1>3. CASE Credit(e)
  <2> DEFINE new == [exec[e] EXCEPT !.at = "finding"]
  <2>1. Goes(e, new)
    BY <1>3 DEF Credit
  <2>2. new \in Executions /\ new.frames = <<>> /\ new.at \in Shallow
    BY <1>2 DEF Executions, Stages, Shallow
  <2> HIDE DEF new
  <2> QED  BY <1>1, <1>2, <2>1, <2>2, ShallowMoves
<1>4. CASE Find(e)
  <2>1. CASE Goes(e, Idle)
    BY <1>1, <1>2, <2>1, IdleType, ShallowMoves DEF Shallow
  <2>2. CASE Push(e, <<>>, <<>>, 0, 0)
    <3> DEFINE new == [exec[e] EXCEPT !.at = "entering", !.frames = Append(<<>>, Frame(<<>>, 0, 0))]
    <3>1. Goes(e, new)
      BY <2>2 DEF Push
    <3>2. <<>> \in Seq(Operations) /\ 0 \in Limits /\ 0 <= ReadOnlyGas
      BY NoGas, GasAssumption
    <3> HIDE DEF new
    <3> QED  BY <1>1, <1>2, <3>1, <3>2, FirstSequence DEF new
  <2> QED  BY <1>4, <2>1, <2>2 DEF Find
<1>5. CASE Charge(e)
  <2>1. Goes(e, Idle)
    BY <1>5 DEF Charge
  <2> QED  BY <1>1, <1>2, <2>1, IdleType, ShallowMoves DEF Shallow
<1> QED  BY <1>3, <1>4, <1>5

LEMMA CallsKeep ==
    ASSUME Executing, Contract, NEW e \in Executors, NEW c \in Clients \cup Others,
           (\E v \in Amounts \cup {0} : ExecuteContract(e, c, v))
              \/ (\E m \in Methods : ExecuteReadOnlyCall(e, c, m))
    PROVE  Executing'
<1>1. exec[e].at \in Shallow /\ UNCHANGED holder
  BY DEF ExecuteContract, ExecuteReadOnlyCall, Untouched, Shallow
<1>2. holder # e /\ c \in Addresses
  BY <1>1, ShallowFacts DEF Addresses
<1>3. \A readOnly \in BOOLEAN, at \in Stages :
          /\ Begins(e, readOnly, c, at) \in Executions
          /\ Begins(e, readOnly, c, at).frames = <<>>
          /\ Begins(e, readOnly, c, at).at = at
  BY <1>2, IdleType DEF Begins, Executions
<1>4. CASE \E v \in Amounts \cup {0} : ExecuteContract(e, c, v)
  <2>1. PICK v \in Amounts \cup {0} : ExecuteContract(e, c, v)
    BY <1>4
  <2>2. v \in Int
    BY AmountsAssumption
  <2>3. CASE v = 0
    <3>1. Goes(e, Begins(e, FALSE, c, "finding"))
      BY <2>1, <2>3 DEF ExecuteContract
    <3>2. "finding" \in Stages /\ "finding" \in Shallow
      BY DEF Stages, Shallow
    <3> QED  BY <1>1, <1>2, <1>3, <3>1, <3>2, ShallowMoves
  <2>4. CASE v # 0
    <3> DEFINE begun == Begins(e, FALSE, c, IF wedged' THEN "stuck" ELSE "crediting")
               new == [begun EXCEPT !.amount = v]
    <3>1. Goes(e, new)
      BY <2>1, <2>4 DEF ExecuteContract
    <3>2. (IF wedged' THEN "stuck" ELSE "crediting") \in {"stuck", "crediting"}
      OBVIOUS
    <3>3. {"stuck", "crediting"} \subseteq Stages /\ {"stuck", "crediting"} \subseteq Shallow \cup {"stuck"}
      BY DEF Stages, Shallow
    <3>4. begun \in Executions /\ begun.frames = <<>> /\ begun.at \in Shallow \cup {"stuck"}
      BY <1>3, <3>2, <3>3
    <3> HIDE DEF begun
    <3>5. new \in Executions /\ new.frames = <<>> /\ new.at \in Shallow \cup {"stuck"}
      BY <2>2, <3>4 DEF Executions
    <3> HIDE DEF new
    <3> QED  BY <1>1, <1>2, <3>1, <3>5, ShallowMoves
  <2> QED  BY <2>3, <2>4
<1>5. CASE \E m \in Methods : ExecuteReadOnlyCall(e, c, m)
  <2>1. PICK m \in Methods : ExecuteReadOnlyCall(e, c, m)
    BY <1>5
  <2> DEFINE begun == Begins(e, TRUE, c, "entering")
             new == [begun EXCEPT !.frames = <<Frame(code[m], ReadOnlyGas, 0)>>]
  <2>2. Goes(e, new) /\ m \in DOMAIN code
    BY <2>1 DEF ExecuteReadOnlyCall
  <2>3. code[m] \in Seq(Operations)
    BY <2>2, CodeAssumption DEF Contract
  <2>4. begun \in Executions /\ begun.at = "entering"
    BY <1>3 DEF Stages, Deep
  <2>5. <<Frame(code[m], ReadOnlyGas, 0)>> = Append(<<>>, Frame(code[m], ReadOnlyGas, 0))
    OBVIOUS
  <2> HIDE DEF begun
  <2>6. new = [begun EXCEPT !.at = "entering", !.frames = Append(<<>>, Frame(code[m], ReadOnlyGas, 0))]
    BY <2>4, <2>5 DEF Executions
  <2> HIDE DEF new
  <2>7. ReadOnlyGas <= ReadOnlyGas
    BY GasAssumption
  <2> QED  BY <1>1, <1>2, <2>2, <2>3, <2>4, <2>6, <2>7, ReadOnlyLimit, FirstSequence
<1> QED  BY <1>4, <1>5
-----------------------------------------------------------------------------
(* The accounts and the contract                                           *)

LEMMA TransferFundsKeeps ==
    ASSUME Holdings, NEW from, NEW to, NEW amount \in Int, TransferFunds(from, to, amount)
    PROVE  /\ DOMAIN accounts' \subseteq Addresses
           /\ accounts' \in [DOMAIN accounts' -> Nat]
           /\ wedged' \in BOOLEAN
<1>1. amount > 0 /\ from \in DOMAIN accounts /\ accounts[from] >= amount
  BY DEF TransferFunds, Accepts
<1>2. DOMAIN accounts \subseteq Addresses /\ accounts \in [DOMAIN accounts -> Nat]
  BY DEF Holdings
<1>3. CASE to \in DOMAIN accounts
  <2> DEFINE paid == [accounts EXCEPT ![from] = @ - amount]
             new == [paid EXCEPT ![to] = @ + amount]
  <2>1. accounts[from] - amount \in Nat
    BY <1>1, <1>2
  <2>2. paid \in [DOMAIN accounts -> Nat]
    BY <1>2, <2>1
  <2> HIDE DEF paid
  <2>3. paid[to] + amount \in Nat
    BY <1>1, <1>3, <2>2
  <2>4. new \in [DOMAIN accounts -> Nat]
    BY <2>2, <2>3
  <2>5. accounts' = new /\ wedged' = wedged
    BY <1>3 DEF TransferFunds, paid
  <2> HIDE DEF new
  <2>6. DOMAIN accounts' = DOMAIN accounts
    BY <2>4, <2>5
  <2> QED  BY <1>2, <2>4, <2>5, <2>6 DEF Holdings
<1>4. CASE to \notin DOMAIN accounts
  <2>1. accounts' = accounts /\ wedged' = TRUE
    BY <1>4 DEF TransferFunds
  <2> QED  BY <1>2, <2>1
<1> QED  BY <1>3, <1>4

LEMMA WorkKeepsHoldings ==
    ASSUME Executing, Holdings, NEW e \in Executors, Works(e) PROVE Holdings'
<1>1. exec[e].amount \in Int
  BY DEF Executing, Executions
<1>2. CASE Send(e)
  <2>1. TransferFunds(Self, exec[e].to, exec[e].amount) /\ UNCHANGED balance
    BY <1>2 DEF Send
  <2> QED  BY <1>1, <2>1, TransferFundsKeeps DEF Holdings
<1>3. CASE Debit(e)
  <2>1. balance' = balance - exec[e].amount /\ UNCHANGED <<accounts, wedged>>
    BY <1>3 DEF Debit, Debited
  <2> QED  BY <1>1, <2>1 DEF Holdings
<1>4. CASE Credit(e)
  <2>1. balance' = balance + exec[e].amount /\ UNCHANGED <<accounts, wedged>>
    BY <1>4 DEF Credit
  <2> QED  BY <1>1, <2>1 DEF Holdings
<1>5. CASE ~(Send(e) \/ Debit(e) \/ Credit(e))
  <2>1. UNCHANGED <<balance, accounts, wedged>>
    BY <1>5 DEF Works, Enter, Store, Load, Compute, Return, If, Call, CheckBalance, Fail,
       StartCommit, Publish, EndCommit, Find, Charge, Untouched
  <2> QED  BY <2>1 DEF Holdings
<1> QED  BY <1>2, <1>3, <1>4, <1>5

\* A sequence that commits has the keys of its copy left.
LEMMA PublishKeepsState ==
    ASSUME Executing, Contract, NEW e \in Executors, Publish(e) PROVE state' \in Maps
<1>1. exec[e].at \in Deep
  BY DEF Publish, Deep
<1>2. Top(e) \in Frames
  BY <1>1, TopFacts
<1>3. PICK k \in Top(e).rest : state' = [state EXCEPT ![k] = Top(e).copy[k]]
  BY DEF Publish
<1>4. k \in Keys /\ Top(e).copy[k] \in Values \cup {Absent}
  BY <1>2 DEF Frames, Maps
<1> QED  BY <1>3, <1>4 DEF Contract, Maps

LEMMA WorkKeepsContract ==
    ASSUME Executing, Contract, NEW e \in Executors, Works(e), UNCHANGED <<stopped, calls>>
    PROVE  Contract'
<1>1. UNCHANGED <<creator, code>>
  BY DEF Works, Enter, Store, Load, Compute, Return, If, Call, CheckBalance, Send, Debit, Fail,
     StartCommit, Publish, EndCommit, Credit, Find, Charge, Untouched
<1>2. state' \in Maps
  <2>1. CASE Publish(e)
    BY <2>1, PublishKeepsState
  <2>2. CASE ~Publish(e)
    <3>1. UNCHANGED state
      BY <2>2 DEF Works, Enter, Store, Load, Compute, Return, If, Call, CheckBalance, Send,
         Debit, Fail, StartCommit, EndCommit, Credit, Find, Charge, Untouched
    <3> QED  BY <3>1 DEF Contract
  <2> QED  BY <2>1, <2>2
<1>3. holder' \in Executors \cup {None}
  <2>1. CASE StartCommit(e)
    BY <2>1 DEF StartCommit
  <2>2. CASE EndCommit(e)
    BY <2>2 DEF EndCommit, Released
  <2>3. CASE ~(StartCommit(e) \/ EndCommit(e))
    <3>1. UNCHANGED holder
      BY <2>3 DEF Works, Enter, Store, Load, Compute, Return, If, Call, CheckBalance, Send,
         Debit, Fail, Publish, Credit, Find, Charge, Untouched
    <3> QED  BY <3>1 DEF Contract
  <2> QED  BY <2>1, <2>2, <2>3
<1> QED  BY <1>1, <1>2, <1>3 DEF Contract

LEMMA WorkKeepsExecuting ==
    ASSUME Executing, Contract, NEW e \in Executors, Works(e) PROVE Executing'
  BY EnterKeeps, OperationKeeps, NestKeeps, TransferKeeps, FailKeeps, CommitKeeps, RestKeeps
     DEF Works

\* Calls from outside.
LEMMA CallKeepsHoldings ==
    ASSUME Holdings, CreateContracts \/ Called PROVE Holdings'
<1>1. CASE CreateContracts
  <2>1. PICK c \in Clients, v \in Amounts \cup {0} : CreateContract(c, v)
    BY <1>1 DEF CreateContracts
  <2>2. UNCHANGED balance /\ v \in Int
    BY <2>1, AmountsAssumption DEF CreateContract
  <2>3. CASE TransferFunds(c, Self, v)
    BY <2>2, <2>3, TransferFundsKeeps DEF Holdings
  <2>4. CASE UNCHANGED <<accounts, wedged>>
    BY <2>2, <2>4 DEF Holdings
  <2> QED  BY <2>1, <2>3, <2>4 DEF CreateContract
<1>2. CASE \E c \in Clients : UpdateContractCode(c)
  BY <1>2 DEF UpdateContractCode, Holdings
<1>3. CASE \E a \in Others \cup {Self}, v \in Amounts \cup {0} : OpenAccount(a, v)
  <2>1. PICK a \in Others \cup {Self}, v \in Amounts \cup {0} : OpenAccount(a, v)
    BY <1>3
  <2>2. a \in Addresses /\ v \in Nat
    BY AmountsAssumption DEF Addresses
  <2>3. Account(a) \in Nat
    BY DEF Account, Holdings
  <2>4. Account(a) + v \in Nat
    BY <2>2, <2>3
  <2>5. accounts' = Opened(a, v) /\ UNCHANGED <<balance, wedged>>
    BY <2>1 DEF OpenAccount
  <2> HIDE DEF Account
  <2>6. Opened(a, v) \in [DOMAIN accounts \cup {a} -> Nat]
    BY <2>4 DEF Opened, Holdings
  <2>7. DOMAIN Opened(a, v) = DOMAIN accounts \cup {a}
    BY <2>6
  <2> QED  BY <2>2, <2>5, <2>6, <2>7 DEF Holdings
<1>4. CASE \E e \in Executors, c \in Clients \cup Others :
              \E v \in Amounts \cup {0} : ExecuteContract(e, c, v)
  <2>1. PICK e \in Executors, c \in Clients \cup Others, v \in Amounts \cup {0} :
            ExecuteContract(e, c, v)
    BY <1>4
  <2>2. UNCHANGED balance /\ v \in Int
    BY <2>1, AmountsAssumption DEF ExecuteContract
  <2>3. CASE TransferFunds(c, Self, v)
    BY <2>2, <2>3, TransferFundsKeeps DEF Holdings
  <2>4. CASE UNCHANGED <<accounts, wedged>>
    BY <2>2, <2>4 DEF Holdings
  <2> QED  BY <2>1, <2>3, <2>4 DEF ExecuteContract
<1>5. CASE \E e \in Executors, c \in Clients \cup Others :
              \E m \in Methods : ExecuteReadOnlyCall(e, c, m)
  BY <1>5 DEF ExecuteReadOnlyCall, Untouched, Holdings
<1> QED  BY <1>1, <1>2, <1>3, <1>4, <1>5 DEF Called

LEMMA CallKeepsContract ==
    ASSUME Contract, calls' \in 0..MaxCalls, UNCHANGED stopped, CreateContracts \/ Called PROVE Contract'
<1>1. UNCHANGED <<state, holder>>
  BY DEF CreateContracts, CreateContract, Called, UpdateContractCode, OpenAccount,
     ExecuteContract, ExecuteReadOnlyCall, Untouched
<1>2. creator' \in Clients \cup {None}
  BY DEF CreateContracts, CreateContract, Called, UpdateContractCode, OpenAccount,
     ExecuteContract, ExecuteReadOnlyCall, Untouched, Contract
<1>3. code' \in Codes
  BY DEF CreateContracts, CreateContract, Called, UpdateContractCode, OpenAccount,
     ExecuteContract, ExecuteReadOnlyCall, Untouched, Contract
<1> QED  BY <1>1, <1>2, <1>3 DEF Contract

LEMMA CallKeepsExecuting ==
    ASSUME Executing, Contract, CreateContracts \/ Called PROVE Executing'
<1>1. CASE UNCHANGED <<exec, holder>>
  BY <1>1 DEF Executing
<1>2. CASE \E e \in Executors, c \in Clients \cup Others :
              \/ \E v \in Amounts \cup {0} : ExecuteContract(e, c, v)
              \/ \E m \in Methods : ExecuteReadOnlyCall(e, c, m)
  BY <1>2, CallsKeep
<1> QED  BY <1>1, <1>2 DEF CreateContracts, CreateContract, Called, UpdateContractCode, OpenAccount

-----------------------------------------------------------------------------
(* The invariant                                                           *)

LEMMA InitEstablishes == ASSUME Init PROVE IInv
<1>1. Contract
  <2>1. stopped \in BOOLEAN
    BY Zenon DEF Init
  <2> QED  BY <2>1, CodeAssumption, AmountsAssumption DEF Init, Contract
<1>2. accounts \in [Clients -> Nat] /\ DOMAIN accounts = Clients
  BY AmountsAssumption DEF Init
<1>3. Holdings
  <2>1. balance \in Int
    BY DEF Init
  <2>2. wedged \in BOOLEAN
    BY Zenon DEF Init
  <2>3. Clients \subseteq Addresses
    BY DEF Addresses
  <2> QED  BY <1>2, <2>1, <2>2, <2>3 DEF Holdings
<1>4. \A e \in Executors : exec[e] = Idle
  BY DEF Init
<1>5. \A e \in Executors : Fine(exec[e]) /\ exec[e].at # "committing" /\ holder # e
  BY <1>4, IdleIsFine, IdleType, NamesAssumption DEF Init
<1>6. exec \in [Executors -> Executions]
  BY IdleType DEF Init
<1>7. Executing
  BY <1>5, <1>6 DEF Executing
<1> QED  BY <1>1, <1>3, <1>7 DEF IInv

LEMMA StepKeeps == ASSUME IInv, [Next]_vars PROVE IInv'
<1>1. Contract /\ Holdings /\ Executing
  BY DEF IInv
<1>2. ASSUME NEW e \in Executors, Works(e), UNCHANGED <<stopped, calls>> PROVE IInv'
  BY <1>1, <1>2, WorkKeepsContract, WorkKeepsHoldings, WorkKeepsExecuting DEF IInv
<1>3. CASE CreateContracts /\ UNCHANGED <<stopped, calls>>
  <2>1. calls' \in 0..MaxCalls
    BY <1>1, <1>3 DEF Contract
  <2> QED  BY <1>1, <1>3, <2>1, CallKeepsContract, CallKeepsHoldings, CallKeepsExecuting DEF IInv
<1>4. CASE calls < MaxCalls /\ calls' = calls + 1 /\ Called /\ UNCHANGED stopped
  <2>1. calls' \in 0..MaxCalls
    BY <1>1, <1>4, AmountsAssumption DEF Contract
  <2> QED  BY <1>1, <1>4, <2>1, CallKeepsContract, CallKeepsHoldings, CallKeepsExecuting DEF IInv
<1>5. CASE UNCHANGED vars \/ Stops
  <2>1. UNCHANGED <<creator, code, state, balance, holder, accounts, wedged, exec, calls>>
    BY <1>5 DEF vars, Stops
  <2>2. Contract'
    <3>1. stopped' \in BOOLEAN
      BY <1>1, <1>5, Zenon DEF Contract, vars, Stops
    <3> QED  BY <1>1, <2>1, <3>1 DEF Contract
  <2>3. Holdings'
    BY <1>1, <2>1 DEF Holdings
  <2>4. Executing'
    BY <1>1, <2>1 DEF Executing
  <2> QED  BY <2>2, <2>3, <2>4 DEF IInv
<1> QED  BY <1>2, <1>3, <1>4, <1>5 DEF Next, Runs

LEMMA Invariance == Spec => []IInv
<1>1. Init => IInv
  BY InitEstablishes
<1>2. IInv /\ [Next]_vars => IInv'
  BY StepKeeps
<1> QED  BY <1>1, <1>2, PTL DEF Spec

\* Whoever calls, and whatever the code does, contract, accounts and executions
\* keep their types (contracts.go 313-428, 431-1115).
THEOREM TypeCorrect == Spec => []TypeOK
<1>1. IInv => TypeOK
  <2> SUFFICES ASSUME IInv PROVE TypeOK
    OBVIOUS
  <2>1. ASSUME NEW e \in Executors
        PROVE  /\ exec[e].at \in Stages
               /\ Depth(e) <= MaxDepth
               /\ exec[e].at \in Deep => Depth(e) > 0
    <3>1. exec[e] \in Executions /\ Fine(exec[e])
      BY DEF IInv, Executing
    <3>2. exec[e].frames \in Seq(Frames) /\ exec[e].at \in Stages
      BY <3>1 DEF Executions
    <3>3. exec[e].at \in Deep => exec[e].frames # <<>>
      BY <3>1 DEF Fine
    <3>4. exec[e].frames # <<>> => Len(exec[e].frames) > 0
      BY <3>2
    <3> QED  BY <3>1, <3>2, <3>3, <3>4 DEF Depth, Fine
  <2> QED  BY <2>1 DEF TypeOK, IInv, Contract, Holdings, Stages, Shallow, Deep
<1> QED  BY <1>1, Invariance, PTL

\* contracts.go:995: for any code and any depth of calls, no sequence has more
\* gas than the one that called it, so the unsigned difference never wraps.
THEOREM GasNeverWrapsAround == Spec => []GasNeverWraps
<1>1. IInv => GasNeverWraps
  <2> SUFFICES ASSUME IInv, NEW e \in Executors, NEW d \in 1..Depth(e)
               PROVE  exec[e].frames[d].limit
                        <= (IF d = 1 THEN ReadOnlyGas ELSE exec[e].frames[d - 1].limit)
    BY DEF GasNeverWraps
  <2>1. exec[e].frames \in Seq(Frames) /\ Shrinking(exec[e].frames)
    BY DEF IInv, Executing, Fine, Executions
  <2>2. d \in DOMAIN exec[e].frames /\ d \in Nat /\ d >= 1
    BY <2>1 DEF Depth
  <2> QED  BY <2>1, <2>2 DEF Shrinking
<1> QED  BY <1>1, Invariance, PTL
-----------------------------------------------------------------------------
(* The balance of the contract *)

Outstanding == SumFunction([e \in Executors |-> Unrecorded(exec[e])])

LEMMA UnrecordedIsInt == ASSUME NEW x \in Executions PROVE Unrecorded(x) \in Int
<1>1. x.amount \in Int /\ -x.amount \in Int  BY DEF Executions
<1> QED  BY <1>1 DEF Unrecorded

LEMMA OutstandingIsInt == ASSUME Executing PROVE Outstanding \in Int
<1> DEFINE f == [e \in Executors |-> Unrecorded(exec[e])]
<1>1. \A e \in Executors : f[e] \in Int  BY UnrecordedIsInt DEF Executing
<1>2. DOMAIN f = Executors /\ IsFiniteSet(Executors)  BY ExecutorsAssumption
<1> HIDE DEF f
<1>3. SumFunctionOnSet(f, Executors) \in Int  BY ONLY <1>1, <1>2, SumTakesOut
<1> QED  BY <1>2, <1>3 DEF Outstanding, SumFunction, f

LEMMA AccountIsNat == ASSUME Holdings PROVE Account(Self) \in Nat
  BY DEF Holdings, Account

\* One execution goes on: the balance gains no more than the account does.
LEMMA OneGoesOn ==
    ASSUME Executing, Executing', NEW e \in Executors,
           \A o \in Executors : o # e => exec'[o] = exec[o]
    PROVE  Outstanding' = Outstanding + Unrecorded(exec'[e]) - Unrecorded(exec[e])
<1> DEFINE f == [o \in Executors |-> Unrecorded(exec[o])]
           k == [o \in Executors |-> Unrecorded(exec'[o])]
<1>1. \A o \in Executors : f[o] \in Int  BY UnrecordedIsInt DEF Executing
<1>2. \A o \in Executors : k[o] \in Int
  <2>1. exec' \in [Executors -> Executions]  BY DEF Executing
  <2> QED  BY <2>1, UnrecordedIsInt
<1>3. \A o \in Executors : o # e => f[o] = k[o]  OBVIOUS
<1>4. /\ DOMAIN f = Executors /\ DOMAIN k = Executors
      /\ f[e] = Unrecorded(exec[e]) /\ k[e] = Unrecorded(exec'[e])
      /\ Outstanding = SumFunction(f) /\ Outstanding' = SumFunction(k)
  BY DEF Outstanding
<1>5. IsFiniteSet(Executors) /\ e \in Executors  BY ExecutorsAssumption
<1> HIDE DEF f, k
<1>6. SumFunctionOnSet(k, Executors) = SumFunctionOnSet(f, Executors) + k[e] - f[e]
  BY ONLY <1>1, <1>2, <1>3, <1>5, SumChangesBy
<1> QED  BY <1>4, <1>6 DEF SumFunction

LEMMA StaysBacked ==
    ASSUME IInv, IInv', BalanceIsBacked, NEW e \in Executors, NEW gain \in Int,
           \A o \in Executors : o # e => exec'[o] = exec[o],
           Account(Self)' >= Account(Self) + gain,
           balance' - balance <= gain + Unrecorded(exec'[e]) - Unrecorded(exec[e])
    PROVE  BalanceIsBacked'
<1>1. Outstanding' = Outstanding + Unrecorded(exec'[e]) - Unrecorded(exec[e])
  BY OneGoesOn DEF IInv
<1>2. Outstanding \in Int /\ Account(Self) \in Int /\ Account(Self)' \in Int
  <2>1. Account(Self)' \in Nat  BY DEF IInv, Holdings, Account
  <2> QED  BY <2>1, OutstandingIsInt, AccountIsNat DEF IInv
<1>3. Unrecorded(exec[e]) \in Int /\ Unrecorded(exec'[e]) \in Int
  <2>1. exec \in [Executors -> Executions] /\ exec' \in [Executors -> Executions]
    BY DEF IInv, Executing
  <2> QED  BY <2>1, UnrecordedIsInt
<1>4. balance <= Account(Self) + Outstanding  BY DEF BalanceIsBacked, Outstanding
<1>5. balance \in Int /\ balance' \in Int  BY DEF IInv, Holdings
<1> HIDE DEF Outstanding, Account, Unrecorded
<1>6. balance' <= Account(Self)' + Outstanding'  BY <1>1, <1>2, <1>3, <1>4, <1>5
<1> QED  BY <1>6 DEF BalanceIsBacked, Outstanding

\* A transfer takes from one account what it adds to another.
LEMMA TransferMoves ==
    ASSUME Holdings, NEW from, NEW to, NEW amount \in Int, TransferFunds(from, to, amount)
    PROVE  /\ amount > 0 /\ ~wedged
           /\ from # Self => Account(Self)' >= Account(Self)
           /\ ~wedged' => Account(Self)' >= Account(Self)
                            + (IF to = Self THEN amount ELSE 0)
                            - (IF from = Self THEN amount ELSE 0)
           /\ wedged' => accounts' = accounts
<1>1. amount > 0 /\ ~wedged /\ from \in DOMAIN accounts
  BY DEF TransferFunds, Accepts
<1>2. accounts \in [DOMAIN accounts -> Nat]
  BY DEF Holdings
<1>3. CASE to \in DOMAIN accounts
  <2> DEFINE paid == [accounts EXCEPT ![from] = @ - amount]
             new == [paid EXCEPT ![to] = @ + amount]
  <2>1. accounts' = new /\ wedged' = wedged
    BY <1>3 DEF TransferFunds
  <2>2. paid \in [DOMAIN accounts -> Int] /\ \A b \in DOMAIN accounts :
          paid[b] = accounts[b] - (IF b = from THEN amount ELSE 0)
    BY <1>1, <1>2
  <2> HIDE DEF paid
  <2>3. new \in [DOMAIN accounts -> Int] /\ \A b \in DOMAIN accounts :
          new[b] = paid[b] + (IF b = to THEN amount ELSE 0)
    BY <1>1, <1>3, <2>2
  <2>4. DOMAIN new = DOMAIN accounts  BY <2>3
  <2> HIDE DEF new
  <2>5. CASE Self \in DOMAIN accounts
    <3>1. Account(Self) = accounts[Self] /\ Account(Self)' = new[Self]
      BY <2>1, <2>4, <2>5 DEF Account
    <3>2. accounts[Self] \in Nat  BY <1>2, <2>5
    <3>3. new[Self] = accounts[Self] - (IF Self = from THEN amount ELSE 0)
                                     + (IF Self = to THEN amount ELSE 0)
      BY <2>2, <2>3, <2>5
    <3> QED  BY <1>1, <2>1, <3>1, <3>2, <3>3
  <2>6. CASE Self \notin DOMAIN accounts
    <3>1. Account(Self) = 0 /\ Account(Self)' = 0
      BY <2>1, <2>4, <2>6 DEF Account
    <3> QED  BY <1>1, <1>3, <2>1, <2>6, <3>1
  <2> QED  BY <2>5, <2>6
<1>4. CASE to \notin DOMAIN accounts
  <2>1. accounts' = accounts /\ wedged'
    BY <1>4 DEF TransferFunds
  <2>2. Account(Self)' = Account(Self)  BY <2>1 DEF Account
  <2> QED  BY <1>1, <2>1, <2>2, AccountIsNat
<1> QED  BY <1>3, <1>4

LEMMA GoesQuietly ==
    ASSUME exec \in [Executors -> Executions], NEW e \in Executors, NEW new, Goes(e, new),
           new.at \notin {"debiting", "crediting"}
    PROVE  /\ \A o \in Executors : o # e => exec'[o] = exec[o]
           /\ Unrecorded(exec'[e]) = 0
<1>1. exec' = [exec EXCEPT ![e] = new]  BY DEF Goes
<1>2. exec'[e] = new /\ \A o \in Executors : o # e => exec'[o] = exec[o]  BY <1>1
<1> QED  BY <1>2 DEF Unrecorded

LEMMA NewStage ==
    ASSUME NEW x \in Executions, NEW at, NEW frames
    PROVE  /\ [x EXCEPT !.at = at].at = at /\ [x EXCEPT !.frames = frames].at = x.at
           /\ [x EXCEPT !.at = at, !.frames = frames].at = at
  BY DEF Executions

\* An execution that neither pays nor is paid moves nothing.
LEMMA QuietStep ==
    ASSUME IInv, NEW e \in Executors,
           \/ Enter(e) \/ Store(e) \/ Load(e) \/ Compute(e) \/ Return(e) \/ If(e) \/ Call(e)
           \/ CheckBalance(e) \/ Fail(e) \/ StartCommit(e) \/ Publish(e) \/ EndCommit(e)
           \/ Find(e) \/ Charge(e)
    PROVE  /\ UNCHANGED <<balance, accounts>>
           /\ \A o \in Executors : o # e => exec'[o] = exec[o]
           /\ Unrecorded(exec[e]) = 0 /\ Unrecorded(exec'[e]) = 0
<1>1. UNCHANGED <<balance, accounts>>
  BY DEF Enter, Store, Load, Compute, Return, If, Call, CheckBalance, Fail,
     StartCommit, Publish, EndCommit, Find, Charge, Untouched
<1>2. exec[e].at \notin {"debiting", "crediting"}
  BY DEF Enter, Store, Load, Compute, Return, If, Call, CheckBalance, Fail, Refused,
     StartCommit, Publish, EndCommit, Find, Charge, Executes, Pending
<1>3. exec \in [Executors -> Executions] /\ exec[e] \in Executions
  BY DEF IInv, Executing
<1>4. /\ \A o \in Executors : o # e => exec'[o] = exec[o]
      /\ Unrecorded(exec'[e]) = 0
  <2>1. ASSUME NEW at, NEW frames, at \notin {"debiting", "crediting"}
        PROVE  /\ [exec[e] EXCEPT !.at = at].at \notin {"debiting", "crediting"}
               /\ [exec[e] EXCEPT !.frames = frames].at \notin {"debiting", "crediting"}
               /\ [exec[e] EXCEPT !.at = at, !.frames = frames].at \notin {"debiting", "crediting"}
    BY <1>2, <1>3, <2>1, NewStage
  <2>2. Idle.at = "idle" /\ [Idle EXCEPT !.at = "charging"].at = "charging"  BY DEF Idle
  <2>3. CASE Enter(e)
    BY <2>1, <2>3, <1>3, GoesQuietly DEF Enter
  <2>4. CASE Publish(e)
    BY <2>1, <2>4, <1>3, GoesQuietly DEF Publish
  <2>5. CASE Store(e) \/ Load(e) \/ Compute(e) \/ Return(e)
    <3>1. PICK frame : Advances(e, frame)
      BY <2>5 DEF Store, Load, Compute, Return
    <3> QED  BY <2>1, <3>1, <1>3, GoesQuietly DEF Advances
  <2>6. CASE If(e) \/ Call(e) \/ Find(e)
    <3>1. ASSUME NEW frames, NEW ops, NEW limit, NEW extra, Push(e, frames, ops, limit, extra)
          PROVE  Unrecorded(exec'[e]) = 0 /\ \A o \in Executors : o # e => exec'[o] = exec[o]
      BY <2>1, <3>1, <1>3, GoesQuietly DEF Push
    <3>2. CASE If(e)  BY <3>1, <3>2 DEF If
    <3>3. CASE Call(e)  BY <3>1, <3>3 DEF Call
    <3>4. CASE Find(e)
      <4>1. Push(e, <<>>, <<>>, 0, 0) \/ Goes(e, Idle)  BY <3>4 DEF Find
      <4> QED  BY <3>1, <4>1, <2>2, <1>3, GoesQuietly
    <3> QED  BY <2>6, <3>2, <3>3, <3>4
  <2>7. CASE CheckBalance(e)
    <3> DEFINE new == [exec[e] EXCEPT !.at = "sending", !.to = Operation(e).to,
                                      !.amount = Operation(e).amount]
    <3>1. Goes(e, new)  BY <2>7 DEF CheckBalance
    <3>2. new.at = "sending"  BY <1>3 DEF Executions
    <3> HIDE DEF new
    <3> QED  BY <3>1, <3>2, <1>3, GoesQuietly
  <2>8. CASE Fail(e)
    <3>1. Goes(e, Idle) \/ Goes(e, [exec[e] EXCEPT !.at = "failing", !.frames = Below(e)])
      BY <2>8 DEF Fail
    <3> QED  BY <2>1, <2>2, <3>1, <1>3, GoesQuietly
  <2>9. CASE StartCommit(e)
    BY <2>1, <2>9, <1>3, GoesQuietly DEF StartCommit
  <2>10. CASE EndCommit(e)
    <3>1. Goes(e, Resumed(e)) \/ Goes(e, Idle) \/ Goes(e, [Idle EXCEPT !.at = "charging"])
      BY <2>10 DEF EndCommit
    <3>2. Resumed(e).at = "running"  BY <1>3, NewStage DEF Resumed
    <3> QED  BY <2>2, <3>1, <3>2, <1>3, GoesQuietly
  <2>11. CASE Charge(e)
    BY <2>2, <2>11, <1>3, GoesQuietly DEF Charge
  <2> QED  BY <2>3, <2>4, <2>5, <2>6, <2>7, <2>8, <2>9, <2>10, <2>11
<1> QED  BY <1>1, <1>2, <1>4 DEF Unrecorded

LEMMA WorkStaysBacked ==
    ASSUME IInv, IInv', BalanceIsBacked, NEW e \in Executors, Works(e)
    PROVE  BalanceIsBacked'
<1>1. /\ exec \in [Executors -> Executions] /\ exec[e] \in Executions
      /\ exec[e].amount \in Int /\ balance \in Int
      /\ Account(Self) \in Nat
  BY AccountIsNat DEF IInv, Executing, Executions, Holdings
<1>2. CASE Send(e)
  <2> DEFINE new == [exec[e] EXCEPT !.at = IF wedged' THEN "stuck" ELSE "debiting"]
  <2>1. exec' = [exec EXCEPT ![e] = new] /\ balance' = balance
    BY <1>2 DEF Send, Goes
  <2>2. exec'[e] = new /\ \A o \in Executors : o # e => exec'[o] = exec[o]
    BY <1>1, <2>1
  <2>3. TransferFunds(Self, exec[e].to, exec[e].amount)  BY <1>2 DEF Send
  <2>4. Unrecorded(exec[e]) = 0  BY <1>2 DEF Send, Unrecorded
  <2>5. new.at = (IF wedged' THEN "stuck" ELSE "debiting") /\ new.amount = exec[e].amount
    BY <1>1 DEF Executions
  <2>6. CASE wedged'
    <3>1. Account(Self)' = Account(Self)
      BY <1>1, <2>3, <2>6, TransferMoves DEF IInv, Account
    <3>2. Unrecorded(exec'[e]) = 0  BY <2>2, <2>5, <2>6 DEF Unrecorded
    <3> HIDE DEF new, Unrecorded
    <3> QED  BY <1>1, <2>1, <2>2, <2>4, <3>1, <3>2, StaysBacked
  <2>7. CASE ~wedged'
    <3>1. /\ exec[e].amount > 0
          /\ Account(Self)' >= Account(Self) + (IF exec[e].to = Self THEN exec[e].amount ELSE 0)
                                             - exec[e].amount
      BY <1>1, <2>3, <2>7, TransferMoves DEF IInv
    <3>2. Unrecorded(exec'[e]) = exec[e].amount  BY <2>2, <2>5, <2>7 DEF Unrecorded
    <3>3. Account(Self)' \in Int  BY DEF IInv, Holdings, Account
    <3> DEFINE gain == -exec[e].amount
    <3>4. gain \in Int /\ Account(Self)' >= Account(Self) + gain
      <4> HIDE DEF Account
      <4> QED  BY <1>1, <3>1, <3>3
    <3>5. balance' - balance <= gain + Unrecorded(exec'[e]) - Unrecorded(exec[e])
      BY <1>1, <2>1, <2>4, <3>2
    <3> HIDE DEF new, Unrecorded, gain, Account
    <3> QED  BY <2>2, <3>4, <3>5, StaysBacked
  <2> QED  BY <2>6, <2>7
<1>3. CASE Debit(e)
  <2> DEFINE new == [exec[e] EXCEPT !.at = "running",
                         !.frames = WithTop(e, Done(Top(e), BaseCost + TransferCost))]
  <2>1. /\ exec' = [exec EXCEPT ![e] = new] /\ balance' = balance - exec[e].amount
        /\ accounts' = accounts
    BY <1>3 DEF Debit, Debited, Advances, Goes
  <2>2. exec'[e] = new /\ \A o \in Executors : o # e => exec'[o] = exec[o]
    BY <1>1, <2>1
  <2>3. Unrecorded(exec[e]) = exec[e].amount  BY <1>3 DEF Debit, Unrecorded
  <2>4. new.at = "running"  BY <1>1 DEF Executions
  <2>5. Unrecorded(exec'[e]) = 0  BY <2>2, <2>4 DEF Unrecorded
  <2>6. Account(Self)' = Account(Self)  BY <2>1 DEF Account
  <2>7. balance' - balance <= 0 + Unrecorded(exec'[e]) - Unrecorded(exec[e])
    BY <1>1, <2>1, <2>3, <2>5
  <2>8. Account(Self)' >= Account(Self) + 0  BY <1>1, <2>6
  <2> HIDE DEF new, Unrecorded, Account
  <2> QED  BY <2>2, <2>7, <2>8, StaysBacked
<1>4. CASE Credit(e)
  <2> DEFINE new == [exec[e] EXCEPT !.at = "finding"]
  <2>1. /\ exec' = [exec EXCEPT ![e] = new] /\ balance' = balance + exec[e].amount
        /\ accounts' = accounts
    BY <1>4 DEF Credit, Goes
  <2>2. exec'[e] = new /\ \A o \in Executors : o # e => exec'[o] = exec[o]
    BY <1>1, <2>1
  <2>3. Unrecorded(exec[e]) = -exec[e].amount  BY <1>4 DEF Credit, Unrecorded
  <2>4. new.at = "finding"  BY <1>1 DEF Executions
  <2>5. Unrecorded(exec'[e]) = 0  BY <2>2, <2>4 DEF Unrecorded
  <2>6. Account(Self)' = Account(Self)  BY <2>1 DEF Account
  <2>7. balance' - balance <= 0 + Unrecorded(exec'[e]) - Unrecorded(exec[e])
    BY <1>1, <2>1, <2>3, <2>5
  <2>8. Account(Self)' >= Account(Self) + 0  BY <1>1, <2>6
  <2> HIDE DEF new, Unrecorded, Account
  <2> QED  BY <2>2, <2>7, <2>8, StaysBacked
<1>5. CASE ~(Send(e) \/ Debit(e) \/ Credit(e))
  <2>1. /\ UNCHANGED <<balance, accounts>>
        /\ \A o \in Executors : o # e => exec'[o] = exec[o]
        /\ Unrecorded(exec[e]) = 0 /\ Unrecorded(exec'[e]) = 0
    BY <1>5, QuietStep, Zenon DEF Works
  <2>2. Account(Self)' = Account(Self)  BY <2>1 DEF Account
  <2>3. /\ Account(Self)' >= Account(Self) + 0
        /\ balance' - balance <= 0 + Unrecorded(exec'[e]) - Unrecorded(exec[e])
    <3> HIDE DEF Unrecorded, Account
    <3> QED  BY <1>1, <2>1, <2>2
  <2> HIDE DEF Unrecorded, Account
  <2> QED  BY <2>1, <2>3, StaysBacked
<1> QED  BY <1>2, <1>3, <1>4, <1>5

LEMMA ExecuteStaysBacked ==
    ASSUME IInv, IInv', BalanceIsBacked, NEW e \in Executors, NEW c \in Clients \cup Others,
           NEW v \in Amounts \cup {0}, ExecuteContract(e, c, v)
    PROVE  BalanceIsBacked'
<1>1. /\ exec \in [Executors -> Executions] /\ exec[e].at = "idle"
      /\ balance \in Int /\ balance' = balance /\ v \in Nat /\ c # Self
      /\ Account(Self) \in Nat
  BY AccountIsNat, AmountsAssumption, NamesAssumption
     DEF IInv, Executing, Holdings, ExecuteContract
<1>2. Unrecorded(exec[e]) = 0  BY <1>1 DEF Unrecorded
<1>3. CASE v = 0
  <2>1. Goes(e, Begins(e, FALSE, c, "finding")) /\ accounts' = accounts
    BY <1>3 DEF ExecuteContract
  <2>2. Begins(e, FALSE, c, "finding").at = "finding"  BY DEF Begins, Idle
  <2>3. /\ \A o \in Executors : o # e => exec'[o] = exec[o]
        /\ Unrecorded(exec'[e]) = 0
    BY <1>1, <2>1, <2>2, GoesQuietly
  <2>4. Account(Self)' = Account(Self)  BY <2>1 DEF Account
  <2> HIDE DEF Unrecorded, Account
  <2>5. /\ Account(Self)' >= Account(Self) + 0
        /\ balance' - balance <= 0 + Unrecorded(exec'[e]) - Unrecorded(exec[e])
    BY <1>1, <1>2, <2>3, <2>4
  <2> QED  BY <2>3, <2>5, StaysBacked
<1>4. CASE v # 0
  <2> DEFINE new == [Begins(e, FALSE, c, IF wedged' THEN "stuck" ELSE "crediting")
                         EXCEPT !.amount = v]
  <2>1. TransferFunds(c, Self, v) /\ Goes(e, new)
    BY <1>4 DEF ExecuteContract
  <2>2. new.at = (IF wedged' THEN "stuck" ELSE "crediting") /\ new.amount = v
    BY DEF Begins, Idle
  <2> HIDE DEF new
  <2>3. exec'[e] = new /\ \A o \in Executors : o # e => exec'[o] = exec[o]
    BY <1>1, <2>1 DEF Goes
  <2>4. CASE wedged'
    <3>1. Account(Self)' = Account(Self)
      BY <1>1, <2>1, <2>4, TransferMoves DEF IInv, Account
    <3>2. Unrecorded(exec'[e]) = 0  BY <2>2, <2>3, <2>4 DEF Unrecorded
    <3> HIDE DEF Unrecorded, Account
    <3>3. /\ Account(Self)' >= Account(Self) + 0
          /\ balance' - balance <= 0 + Unrecorded(exec'[e]) - Unrecorded(exec[e])
      BY <1>1, <1>2, <3>1, <3>2
    <3> QED  BY <2>3, <3>3, StaysBacked
  <2>5. CASE ~wedged'
    <3>1. Account(Self)' >= Account(Self) + v
      <4>1. Account(Self)' >= Account(Self) + v - 0
        BY <1>1, <2>1, <2>5, TransferMoves DEF IInv
      <4>2. Account(Self)' \in Int  BY DEF IInv, Holdings, Account
      <4> HIDE DEF Account
      <4> QED  BY <1>1, <4>1, <4>2
    <3>2. Unrecorded(exec'[e]) = -v  BY <2>2, <2>3, <2>5 DEF Unrecorded
    <3> HIDE DEF Unrecorded, Account
    <3>3. balance' - balance <= v + Unrecorded(exec'[e]) - Unrecorded(exec[e])
      BY <1>1, <1>2, <3>2
    <3> QED  BY <1>1, <2>3, <3>1, <3>3, StaysBacked
  <2> QED  BY <2>4, <2>5
<1> QED  BY <1>3, <1>4

\* Nobody executes, and the account has no less than before.
LEMMA IdlyBacked ==
    ASSUME IInv, BalanceIsBacked, exec' = exec, balance' = balance,
           Account(Self)' \in Int, Account(Self)' >= Account(Self)
    PROVE  BalanceIsBacked'
<1>1. Outstanding' = Outstanding  BY DEF Outstanding
<1>2. Outstanding \in Int /\ Account(Self) \in Int /\ balance \in Int
  BY OutstandingIsInt, AccountIsNat DEF IInv, Holdings
<1>3. balance <= Account(Self) + Outstanding  BY DEF BalanceIsBacked, Outstanding
<1> HIDE DEF Outstanding, Account
<1>4. balance' <= Account(Self)' + Outstanding'  BY <1>1, <1>2, <1>3
<1> QED  BY <1>4 DEF BalanceIsBacked, Outstanding

LEMMA CallStaysBacked ==
    ASSUME IInv, IInv', BalanceIsBacked, CreateContracts \/ Called PROVE BalanceIsBacked'
<1>1. Account(Self) \in Nat /\ Account(Self)' \in Int
  BY DEF IInv, Holdings, Account
<1>2. CASE \E c \in Clients, v \in Amounts \cup {0} : CreateContract(c, v)
  <2>1. PICK c \in Clients, v \in Amounts \cup {0} : CreateContract(c, v)  BY <1>2
  <2>2. exec' = exec /\ balance' = balance /\ v \in Int /\ c # Self
    BY <2>1, AmountsAssumption, NamesAssumption DEF CreateContract
  <2>3. Account(Self)' >= Account(Self)
    <3>1. CASE accounts' = accounts
      <4>1. Account(Self)' = Account(Self)  BY <3>1 DEF Account
      <4> QED  BY <1>1, <4>1
    <3>2. CASE TransferFunds(c, Self, v)
      BY <2>2, <3>2, TransferMoves DEF IInv
    <3> QED  BY <2>1, <3>1, <3>2 DEF CreateContract
  <2> QED  BY <1>1, <2>2, <2>3, IdlyBacked
<1>3. CASE \E c \in Clients : UpdateContractCode(c)
  <2>1. UNCHANGED <<exec, balance, accounts>>  BY <1>3 DEF UpdateContractCode
  <2>2. Account(Self)' = Account(Self)  BY <2>1 DEF Account
  <2>3. Account(Self)' >= Account(Self)  BY <1>1, <2>2
  <2> QED  BY <1>1, <2>1, <2>3, IdlyBacked
<1>4. CASE \E a \in Others \cup {Self}, v \in Amounts \cup {0} : OpenAccount(a, v)
  <2>1. PICK a \in Others \cup {Self}, v \in Amounts \cup {0} : OpenAccount(a, v)  BY <1>4
  <2>2. accounts' = Opened(a, v) /\ exec' = exec /\ balance' = balance /\ v \in Nat
    BY <2>1, AmountsAssumption DEF OpenAccount
  <2>3. DOMAIN accounts' = DOMAIN accounts \cup {a} /\ \A b \in DOMAIN accounts' :
           accounts'[b] = IF b = a THEN Account(a) + v ELSE accounts[b]
    BY <2>2 DEF Opened
  <2>4. Account(Self)' = IF Self = a THEN Account(Self) + v ELSE Account(Self)
    BY <2>3 DEF Account
  <2>5. Account(Self)' >= Account(Self)
    <3> HIDE DEF Account
    <3> QED  BY <1>1, <2>2, <2>4
  <2> QED  BY <1>1, <2>2, <2>5, IdlyBacked
<1>5. CASE \E e \in Executors, c \in Clients \cup Others :
              \E v \in Amounts \cup {0} : ExecuteContract(e, c, v)
  BY <1>5, ExecuteStaysBacked
<1>6. CASE \E e \in Executors, c \in Clients \cup Others :
              \E m \in Methods : ExecuteReadOnlyCall(e, c, m)
  <2>1. PICK e \in Executors, c \in Clients \cup Others, m \in Methods :
            ExecuteReadOnlyCall(e, c, m)
    BY <1>6
  <2> DEFINE new == [Begins(e, TRUE, c, "entering")
                         EXCEPT !.frames = <<Frame(code[m], ReadOnlyGas, 0)>>]
  <2>2. Goes(e, new) /\ exec[e].at = "idle" /\ UNCHANGED <<balance, accounts>>
    BY <2>1 DEF ExecuteReadOnlyCall, Untouched
  <2>3. new.at = "entering"  BY DEF Begins, Idle
  <2> HIDE DEF new
  <2>4. exec \in [Executors -> Executions] /\ balance \in Int
    BY DEF IInv, Executing, Holdings
  <2>5. /\ \A o \in Executors : o # e => exec'[o] = exec[o]
        /\ Unrecorded(exec'[e]) = 0
    BY <2>2, <2>3, <2>4, GoesQuietly
  <2>6. Unrecorded(exec[e]) = 0  BY <2>2 DEF Unrecorded
  <2>7. Account(Self)' = Account(Self)  BY <2>2 DEF Account
  <2> HIDE DEF Unrecorded, Account
  <2>8. /\ Account(Self)' >= Account(Self) + 0
        /\ balance' - balance <= 0 + Unrecorded(exec'[e]) - Unrecorded(exec[e])
    BY <1>1, <2>2, <2>4, <2>5, <2>6, <2>7
  <2> QED  BY <2>5, <2>8, StaysBacked
<1> QED  BY <1>2, <1>3, <1>4, <1>5, <1>6 DEF CreateContracts, Called

LEMMA InitIsBacked == ASSUME Init PROVE BalanceIsBacked
<1> DEFINE f == [e \in Executors |-> Unrecorded(exec[e])]
<1>1. \A e \in Executors : f[e] = 0  BY DEF Init, Idle, Unrecorded
<1>2. DOMAIN f = Executors /\ IsFiniteSet(Executors)  BY ExecutorsAssumption
<1> HIDE DEF f
<1>3. SumFunctionOnSet(f, Executors) = 0  BY ONLY <1>1, <1>2, SumOfZeros
<1>4. Account(Self) = 0  BY NamesAssumption DEF Init, Account
<1>5. balance = 0  BY DEF Init
<1> QED  BY <1>2, <1>3, <1>4, <1>5 DEF BalanceIsBacked, SumFunction, f

LEMMA StepStaysBacked ==
    ASSUME IInv, BalanceIsBacked, [Next]_vars PROVE BalanceIsBacked'
<1>1. IInv'  BY StepKeeps
<1>2. CASE UNCHANGED vars \/ Stops
  <2>1. UNCHANGED <<balance, accounts, exec>>
    BY <1>2 DEF vars, Stops
  <2> QED  BY <2>1 DEF BalanceIsBacked, Account
<1>3. ASSUME NEW e \in Executors, Works(e) PROVE BalanceIsBacked'
  BY <1>1, <1>3, WorkStaysBacked
<1>4. CASE CreateContracts \/ Called
  BY <1>1, <1>4, CallStaysBacked
<1> QED  BY <1>2, <1>3, <1>4 DEF Next, Runs

\* contracts.go:546-557: whatever code a contract has, for any number of
\* executions, and whoever gives to its account meanwhile, contract.Balance
\* claims no more than the account has and the executions have yet to record.
THEOREM BalanceStaysBacked == Spec => []BalanceIsBacked
<1>1. Init => BalanceIsBacked
  BY InitIsBacked
<1>2. IInv /\ BalanceIsBacked /\ [Next]_vars => BalanceIsBacked'
  BY StepStaysBacked
<1> QED  BY <1>1, <1>2, Invariance, PTL DEF Spec

-----------------------------------------------------------------------------
(* The sequences in progress, as SequenceStore has them                    *)

Free == [at |-> "free", copy |-> Nothing, rest |-> {}]

InProgress(at, frame) ==
    IF at = "entering"
    THEN [at |-> "copying", copy |-> frame.copy, rest |-> frame.unread]
    ELSE [at   |-> IF at = "committing" THEN "committing" ELSE "working",
          copy |-> frame.copy,
          rest |-> frame.rest]

LEMMA WorkOfTop ==
    ASSUME NEW x, x.frames \in Seq(Frames), x.frames # <<>>,
           x.at = "entering" => x.frames[Len(x.frames)].unread # Keys
    PROVE  Work(x, Len(x.frames)) = InProgress(x.at, x.frames[Len(x.frames)])
<1>1. ~(Len(x.frames) > Len(x.frames))
  OBVIOUS
<1> QED  BY <1>1 DEF Work, InProgress

\* The sequence on top has a new value, and the others are what they were.
LEMMA WorkWithTop ==
    ASSUME NEW x, x.frames \in Seq(Frames), x.frames # <<>>, NEW frame \in Frames,
           NEW y, y.at = "entering" => frame.unread # Keys,
           y.frames = [x.frames EXCEPT ![Len(x.frames)] = frame],
           NEW d \in 1..MaxDepth
    PROVE  Work(y, d) = IF d = Len(x.frames) THEN InProgress(y.at, frame) ELSE Work(x, d)
<1> DEFINE n == Len(x.frames)
<1>1. n \in Nat \ {0} /\ d \in Nat /\ d > 0
  OBVIOUS
<1>2. /\ Len(y.frames) = n /\ y.frames # <<>> /\ y.frames \in Seq(Frames)
      /\ \A c \in 1..n : y.frames[c] = IF c = n THEN frame ELSE x.frames[c]
  BY TopReplaced
<1> HIDE DEF n
<1>3. CASE d = n
  <2>1. y.frames[n] = frame
    BY <1>1, <1>2
  <2> QED  BY <1>2, <1>3, <2>1, WorkOfTop DEF n
<1>4. CASE d > n
  BY <1>1, <1>2, <1>4 DEF Work, n
<1>5. CASE d < n
  <2>1. d \in 1..n /\ d # n /\ ~(d > n)
    BY <1>1, <1>5
  <2>2. y.frames[d] = x.frames[d]
    BY <1>2, <2>1
  <2> QED  BY <1>2, <2>1, <2>2 DEF Work, n
<1> QED  BY <1>1, <1>3, <1>4, <1>5 DEF n

\* One sequence more that has not taken its copy yet.
LEMMA WorkWithPush ==
    ASSUME NEW x, x.frames \in Seq(Frames), x.at \notin {"entering", "committing"},
           NEW base \in Seq(Frames), Len(base) = Len(x.frames),
           \A c \in 1..Len(base) : base[c].copy = x.frames[c].copy /\ base[c].rest = x.frames[c].rest,
           NEW frame \in Frames, frame.unread = Keys,
           NEW y, y.at = "entering", y.frames = Append(base, frame),
           NEW d \in 1..MaxDepth
    PROVE  Work(y, d) = Work(x, d)
<1> DEFINE n == Len(x.frames)
<1>1. n \in Nat /\ d \in Nat /\ d > 0
  OBVIOUS
<1>2. /\ Len(y.frames) = n + 1
      /\ \A c \in 1..(n + 1) : y.frames[c] = IF c = n + 1 THEN frame ELSE base[c]
  BY Pushed
<1>3. \A c \in 1..n : base[c].copy = x.frames[c].copy /\ base[c].rest = x.frames[c].rest
  OBVIOUS
<1> HIDE DEF n
<1>4. CASE d > n + 1
  <2>1. d > n
    BY <1>1, <1>4
  <2> QED  BY <1>2, <1>4, <2>1 DEF Work, n
<1>5. CASE d = n + 1
  <2>1. d > n
    BY <1>1, <1>5
  <2> QED  BY <1>2, <1>5, <2>1 DEF Work, n
<1>6. CASE d <= n
  <2>1. d \in 1..(n + 1) /\ d \in 1..n /\ d # n + 1 /\ ~(d > n + 1) /\ ~(d > n)
    BY <1>1, <1>6
  <2>2. y.frames[d].copy = x.frames[d].copy /\ y.frames[d].rest = x.frames[d].rest
    BY <1>2, <1>3, <2>1
  <2> QED  BY <1>2, <2>1, <2>2 DEF Work, n
<1> QED  BY <1>1, <1>4, <1>5, <1>6

\* One sequence less.
LEMMA WorkWithout ==
    ASSUME NEW x, x.frames \in Seq(Frames), x.frames # <<>>,
           NEW y, y.frames \in Seq(Frames), y.at \notin {"entering", "committing"},
           Len(y.frames) = Len(x.frames) - 1,
           \A c \in 1..Len(y.frames) :
               y.frames[c].copy = x.frames[c].copy /\ y.frames[c].rest = x.frames[c].rest,
           NEW d \in 1..MaxDepth
    PROVE  Work(y, d) = IF d = Len(x.frames) THEN Free ELSE Work(x, d)
<1> DEFINE n == Len(x.frames)
<1>1. n \in Nat \ {0} /\ d \in Nat /\ d > 0
  OBVIOUS
<1>2. Len(y.frames) = n - 1
  OBVIOUS
<1>3. \A c \in 1..(n - 1) : y.frames[c].copy = x.frames[c].copy /\ y.frames[c].rest = x.frames[c].rest
  BY <1>2
<1> HIDE DEF n
<1>4. CASE d >= n
  <2>1. d > n - 1 /\ (d # n => d > n)
    BY <1>1, <1>4
  <2> QED  BY <1>2, <2>1 DEF Work, Free, n
<1>5. CASE d < n
  <2>1. d \in 1..(n - 1) /\ d # n /\ ~(d > n - 1) /\ ~(d > n)
    BY <1>1, <1>5
  <2>2. y.frames[d].copy = x.frames[d].copy /\ y.frames[d].rest = x.frames[d].rest
    BY <1>3, <2>1
  <2> QED  BY <1>2, <2>1, <2>2 DEF Work, n
<1> QED  BY <1>1, <1>4, <1>5

\* No sequence, or one that has not taken its copy yet.
LEMMA NoWork ==
    ASSUME NEW y, y.frames \in Seq(Frames), NEW d \in 1..MaxDepth,
           \/ Len(y.frames) = 0
           \/ Len(y.frames) = 1 /\ y.at = "entering" /\ y.frames[1].unread = Keys
    PROVE  Work(y, d) = Free
<1>1. d \in Nat /\ d > 0
  OBVIOUS
<1>2. CASE Len(y.frames) = 0
  BY <1>1, <1>2 DEF Work, Free
<1>3. CASE Len(y.frames) = 1 /\ y.at = "entering" /\ y.frames[1].unread = Keys
  <2>1. d = 1 \/ d > 1
    BY <1>1
  <2> QED  BY <1>3, <2>1 DEF Work, Free
<1> QED  BY <1>2, <1>3

\* The d-th sequence becomes value, and the others are what they were.
Changes(x, new, d, value) ==
    \A c \in 1..MaxDepth : Work(new, c) = IF c = d THEN value ELSE Work(x, c)

\* A step of an execution is a step of one of its sequences, or of none.
LEMMA WorkBecomes ==
    ASSUME Executing, NEW e \in Executors, NEW new, Goes(e, new),
           NEW d \in 1..MaxDepth, NEW value,
           Changes(exec[e], new, d, value)
    PROVE  work' = [work EXCEPT ![<<e, d>>] = value]
<1>1. \A o \in Executors : exec'[o] = IF o = e THEN new ELSE exec[o]
  BY DEF Executing, Goes
<1>2. \A s \in Sequences : s[1] \in Executors /\ s[2] \in 1..MaxDepth /\ s = <<s[1], s[2]>>
  BY DEF Sequences
<1>3. \A s \in Sequences :
          Work(exec'[s[1]], s[2]) = IF s = <<e, d>> THEN value ELSE Work(exec[s[1]], s[2])
  BY <1>1, <1>2 DEF Changes
<1>4. work' = [s \in Sequences |-> Work(exec'[s[1]], s[2])]
  BY DEF work
<1> QED  BY <1>3, <1>4 DEF work

LEMMA SequenceFreed ==
    ASSUME Executing, NEW e \in Executors, NEW new, Goes(e, new),
           Depth(e) \in 1..MaxDepth,
           Changes(exec[e], new, Depth(e), Free)
    PROVE  work' = [work EXCEPT ![<<e, Depth(e)>>] = Free]
<1> DEFINE d == Depth(e)
           value == Free
<1>1. d \in 1..MaxDepth /\ Changes(exec[e], new, d, value)
  OBVIOUS
<1> HIDE DEF d, value
<1>2. work' = [work EXCEPT ![<<e, d>>] = value]
  BY <1>1, WorkBecomes
<1> QED  BY <1>2 DEF d, value

LEMMA WorkStays ==
    ASSUME Executing, NEW e \in Executors, NEW new, Goes(e, new),
           \A c \in 1..MaxDepth : Work(new, c) = Work(exec[e], c)
    PROVE  work' = work
<1>1. \A o \in Executors : exec'[o] = IF o = e THEN new ELSE exec[o]
  BY DEF Executing, Goes
<1>2. \A s \in Sequences : s[1] \in Executors /\ s[2] \in 1..MaxDepth
  BY DEF Sequences
<1>3. \A s \in Sequences : Work(exec'[s[1]], s[2]) = Work(exec[s[1]], s[2])
  BY <1>1, <1>2
<1>4. work' = [s \in Sequences |-> Work(exec'[s[1]], s[2])]
  BY DEF work
<1> QED  BY <1>3, <1>4 DEF work

LEMMA WorkIs ==
    ASSUME NEW e \in Executors, NEW d \in 1..MaxDepth
    PROVE  <<e, d>> \in Sequences /\ work[<<e, d>>] = Work(exec[e], d)
  BY DEF work, Sequences
-----------------------------------------------------------------------------
(* Every step is a step of SequenceStore, or a stutter                     *)

\* The abstract definitions, as this module has them.
LEMMA AbstractForms ==
    /\ Abstract!Nothing = Nothing
    /\ Abstract!Free = Free
    /\ Abstract!Maps = Maps
    /\ \A map : Abstract!Present(map) = Present(map)
  BY DEF Abstract!Nothing, Nothing, Abstract!Free, Free, Abstract!Maps, Maps,
         Abstract!Present, Present

LEMMA BecomesNew ==
    ASSUME NEW s \in Sequences, NEW value, work' = [work EXCEPT ![s] = value]
    PROVE  Abstract!Becomes(s, value)
<1>1. s \in DOMAIN work
  BY DEF work
<1> QED  BY <1>1 DEF Abstract!Becomes

\* The sequence on top of an execution that has begun to copy.
LEMMA TopWorks ==
    ASSUME Executing, NEW e \in Executors, exec[e].at \in Deep,
           exec[e].at = "entering" => Top(e).unread # Keys
    PROVE  /\ Depth(e) \in 1..MaxDepth
           /\ <<e, Depth(e)>> \in Sequences
           /\ work[<<e, Depth(e)>>] = InProgress(exec[e].at, Top(e))
<1>1. Fine(exec[e]) /\ exec[e].frames \in Seq(Frames) /\ exec[e].frames # <<>>
      /\ Depth(e) \in Nat \ {0}
  BY TopFacts
<1>2. Depth(e) \in 1..MaxDepth
  BY <1>1, GasAssumption DEF Fine, Depth
<1>3. Work(exec[e], Depth(e)) = InProgress(exec[e].at, Top(e))
  BY <1>1, WorkOfTop DEF Depth, Top
<1> QED  BY <1>2, <1>3, WorkIs

\* The sequence on top goes on, with or without another copy.
LEMMA AdvanceWorks ==
    ASSUME Executing, NEW e \in Executors, exec[e].at \in Deep,
           NEW frame \in Frames, NEW at \in Deep, at = "entering" => frame.unread # Keys,
           NEW new, Goes(e, new), new.at = at, new.frames = WithTop(e, frame)
    PROVE  work' = [work EXCEPT ![<<e, Depth(e)>>] = InProgress(at, frame)]
<1>1. Fine(exec[e]) /\ exec[e].frames \in Seq(Frames) /\ exec[e].frames # <<>>
      /\ Depth(e) \in Nat \ {0}
  BY TopFacts
<1>2. Depth(e) \in 1..MaxDepth
  BY <1>1, GasAssumption DEF Fine, Depth
<1>3. new.frames = [exec[e].frames EXCEPT ![Len(exec[e].frames)] = frame]
  BY DEF WithTop, Depth
<1>4. Changes(exec[e], new, Depth(e), InProgress(at, frame))
  <2> SUFFICES ASSUME NEW c \in 1..MaxDepth
               PROVE  Work(new, c) = IF c = Depth(e) THEN InProgress(at, frame) ELSE Work(exec[e], c)
    BY DEF Changes
  <2>1. new.at = "entering" => frame.unread # Keys
    OBVIOUS
  <2>2. Work(new, c) = IF c = Len(exec[e].frames) THEN InProgress(new.at, frame) ELSE Work(exec[e], c)
    <3> DEFINE x == exec[e]
    <3>1. x.frames \in Seq(Frames) /\ x.frames # <<>>
          /\ new.frames = [x.frames EXCEPT ![Len(x.frames)] = frame]
      BY <1>1, <1>3
    <3> HIDE DEF x
    <3>2. Work(new, c) = IF c = Len(x.frames) THEN InProgress(new.at, frame) ELSE Work(x, c)
      BY <2>1, <3>1, WorkWithTop
    <3> QED  BY <3>2 DEF x
  <2> QED  BY <2>2 DEF Depth
<1> QED  BY <1>2, <1>4, WorkBecomes

\* ... and with its copy and the keys left as they were.
LEMMA QuietAdvance ==
    ASSUME Executing, NEW e \in Executors, exec[e].at \in Deep \ {"entering", "committing"},
           NEW frame \in Frames, frame.copy = Top(e).copy, frame.rest = Top(e).rest,
           Advances(e, frame)
    PROVE  work' = work
<1> DEFINE new == [exec[e] EXCEPT !.at = "running", !.frames = WithTop(e, frame)]
<1>1. Goes(e, new) /\ exec[e] \in Executions
  BY TopFacts DEF Advances
<1>2. new.at = "running" /\ new.frames = WithTop(e, frame)
  BY <1>1 DEF Executions
<1> HIDE DEF new
<1>3. work' = [work EXCEPT ![<<e, Depth(e)>>] = InProgress("running", frame)]
  BY <1>1, <1>2, AdvanceWorks DEF Deep
<1>4. InProgress("running", frame) = InProgress(exec[e].at, Top(e))
  BY DEF InProgress
<1>5. work[<<e, Depth(e)>>] = InProgress(exec[e].at, Top(e))
  BY TopWorks
<1> QED  BY <1>3, <1>4, <1>5 DEF work

\* One key is copied: the first, or another one.
LEMMA EnterCopies ==
    ASSUME Executing, Contract, NEW e \in Executors, Enter(e)
    PROVE  Abstract!Next
<1> DEFINE s == <<e, Depth(e)>>
<1>1. exec[e].at = "entering" /\ exec[e].at \in Deep /\ UNCHANGED state
  BY DEF Enter, Deep
<1>2. /\ exec[e] \in Executions /\ Fine(exec[e]) /\ Top(e) \in Frames
      /\ exec[e].frames \in Seq(Frames) /\ Depth(e) \in Nat \ {0}
      /\ Top(e) = exec[e].frames[Len(exec[e].frames)]
  BY <1>1, TopFacts
<1>3. PICK k \in Top(e).unread :
          LET unread == Top(e).unread \ {k}
              frame  == [Top(e) EXCEPT !.copy[k] = state[k], !.unread = unread]
          IN  Goes(e, [exec[e] EXCEPT !.at = IF unread = {} THEN "running" ELSE "entering",
                                      !.frames = WithTop(e, frame)])
  BY DEF Enter
<1> DEFINE unread == Top(e).unread \ {k}
           frame == [Top(e) EXCEPT !.copy[k] = state[k], !.unread = unread]
           at == IF unread = {} THEN "running" ELSE "entering"
           new == [exec[e] EXCEPT !.at = at, !.frames = WithTop(e, frame)]
           copied == Abstract!Copied(Top(e).copy, k, unread)
<1>4. /\ frame \in Frames /\ frame.rest = {} /\ frame.unread = unread /\ unread # Keys
      /\ frame.copy = [Top(e).copy EXCEPT ![k] = state[k]]
  BY <1>1, CopyFacts
<1>5. Goes(e, new) /\ at \in Deep /\ new.at = at /\ new.frames = WithTop(e, frame)
  BY <1>2, <1>3 DEF Executions, Deep
<1>6. Depth(e) \in 1..MaxDepth
  BY <1>2, GasAssumption DEF Fine, Depth
<1>7. InProgress(at, frame) = copied
  <2> HIDE DEF frame, unread
  <2>1. CASE unread = {}
    BY <1>4, <2>1 DEF InProgress, Abstract!Copied, Abstract!Working
  <2>2. CASE unread # {}
    BY <1>4, <2>2 DEF InProgress, Abstract!Copied, Abstract!Copying
  <2> QED  BY <2>1, <2>2
<1> HIDE DEF frame, new, unread, at, copied
<1>8. work' = [work EXCEPT ![s] = copied]
  BY <1>1, <1>4, <1>5, <1>7, AdvanceWorks
<1>9. s \in Sequences
  BY <1>6, WorkIs
<1>10. Abstract!Becomes(s, copied)
  BY <1>8, <1>9, BecomesNew
<1>11. CASE Top(e).unread = Keys
  <2>1. work[s] = Free
    <3>1. Work(exec[e], Depth(e)) = Free
      BY <1>1, <1>2, <1>11 DEF Work, Free, Depth
    <3> QED  BY <1>6, <3>1, WorkIs
  <2>2. Top(e).copy = Nothing
    BY <1>1, <1>2, <1>11 DEF Fine, Fresh
  <2>3. Abstract!Begin(s)
    <3> HIDE DEF s
    <3>1. work[s].at = "free"
      BY <2>1 DEF Free
    <3>2. k \in Keys /\ Abstract!Becomes(s, Abstract!Copied(Abstract!Nothing, k, Keys \ {k}))
      BY <1>10, <1>11, <2>2, AbstractForms DEF copied, unread
    <3> QED  BY <1>1, <3>1, <3>2 DEF Abstract!Begin
  <2> QED  BY <1>9, <2>3 DEF Abstract!Next
<1>12. CASE Top(e).unread # Keys
  <2>1. work[s] = InProgress("entering", Top(e))
    BY <1>1, <1>12, TopWorks
  <2>2. work[s].at = "copying" /\ work[s].copy = Top(e).copy /\ work[s].rest = Top(e).unread
    BY <2>1 DEF InProgress
  <2>3. Abstract!Copy(s)
    <3> HIDE DEF s
    <3>1. k \in work[s].rest /\ Abstract!Becomes(s, Abstract!Copied(work[s].copy, k, work[s].rest \ {k}))
      BY <1>10, <2>2 DEF copied, unread
    <3> QED  BY <1>1, <2>2, <3>1 DEF Abstract!Copy
  <2> QED  BY <1>9, <2>3 DEF Abstract!Next
<1> QED  BY <1>11, <1>12

LEMMA StoreIsStore ==
    ASSUME Executing, NEW e \in Executors, Store(e)
    PROVE  Abstract!Next
<1> DEFINE op == Operation(e)
           done == Done(Top(e), BaseCost + StoreCost)
           frame == [done EXCEPT !.copy[op.key] = op.value]
           new == [exec[e] EXCEPT !.at = "running", !.frames = WithTop(e, frame)]
           s == <<e, Depth(e)>>
<1>1. Pending(e) /\ op.op = "STORE" /\ UNCHANGED state /\ Goes(e, new)
  BY DEF Store, Executes, Untouched, Advances
<1>2. /\ exec[e].at = "running" /\ exec[e].at \in Deep /\ exec[e].at # "entering"
      /\ op \in Operations
      /\ exec[e] \in Executions /\ Top(e) \in Frames /\ Top(e).ops # <<>> /\ Top(e).rest = {}
  BY <1>1, OperationFacts, TopFacts
<1>3. done \in Frames /\ done.copy = Top(e).copy /\ done.rest = {}
  BY <1>2, DoneFacts, GasAssumption
<1>4. op.key \in Keys /\ op.value \in Values
  BY <1>1, <1>2, CodeAssumption
<1>5. new.at = "running" /\ new.frames = WithTop(e, frame)
  BY <1>2 DEF Executions
<1>6. /\ s \in Sequences
      /\ work[s] = InProgress("running", Top(e))
  BY <1>2, TopWorks
<1> HIDE DEF done, op
<1>7. [done.copy EXCEPT ![op.key] = op.value] \in Maps
  BY <1>3, <1>4 DEF Frames, Maps
<1>8. /\ frame \in Frames /\ frame.rest = {}
      /\ frame.copy = [Top(e).copy EXCEPT ![op.key] = op.value]
  BY <1>3, <1>7 DEF Frames
<1> HIDE DEF frame, new, s
<1>9. work' = [work EXCEPT ![s] = InProgress("running", frame)]
  BY <1>1, <1>2, <1>5, <1>8, AdvanceWorks DEF Deep, s
<1>10. work[s].at = "working" /\ work[s].copy = Top(e).copy
  BY <1>6 DEF InProgress
<1>11. InProgress("running", frame) = Abstract!Working([work[s].copy EXCEPT ![op.key] = op.value])
  BY <1>8, <1>10 DEF InProgress, Abstract!Working
<1>12. Abstract!Store(s)
  <2>1. Abstract!Becomes(s, InProgress("running", frame))
    BY <1>6, <1>9, BecomesNew
  <2> QED  BY <1>1, <1>4, <1>10, <1>11, <2>1 DEF Abstract!Store
<1> QED  BY <1>6, <1>12 DEF Abstract!Next

\* The other operations of a sequence leave its copy alone.
LEMMA OperationStutters ==
    ASSUME Executing, Contract, NEW e \in Executors,
           Load(e) \/ Compute(e) \/ Return(e) \/ Debit(e)
    PROVE  UNCHANGED <<state, work>>
<1>1. /\ exec[e].at \in {"running", "debiting"} /\ UNCHANGED state
      /\ Top(e).ops # <<>>
  BY TopFacts DEF Load, Compute, Return, Debit, Executes, Pending, Untouched, Fine, Transferring,
     Deep
<1>2. exec[e].at \in Deep \ {"entering", "committing"} /\ Top(e) \in Frames
  BY <1>1, TopFacts DEF Deep
<1>3. ASSUME NEW cost \in Nat, Advances(e, Done(Top(e), cost)) PROVE work' = work
  BY <1>1, <1>2, <1>3, DoneFacts, QuietAdvance
<1>4. CASE Load(e)
  <2>1. BaseCost + LoadCost \in Nat /\ Advances(e, Done(Top(e), BaseCost + LoadCost))
    BY <1>4, GasAssumption DEF Load
  <2> QED  BY <1>1, <1>3, <2>1
<1>5. CASE Compute(e)
  <2>1. Operation(e) \in Operations
    BY <1>5, OperationFacts DEF Compute, Executes
  <2>2. BaseCost + Operation(e).cost \in Nat
    BY <1>5, <2>1, CodeAssumption, GasAssumption DEF Compute, Executes
  <2>3. Advances(e, Done(Top(e), BaseCost + Operation(e).cost))
    BY <1>5 DEF Compute
  <2> QED  BY <1>1, <1>3, <2>2, <2>3
<1>6. CASE Return(e)
  <2> DEFINE done == Done(Top(e), BaseCost)
             frame == [done EXCEPT !.ops = <<>>]
  <2>1. done \in Frames /\ done.copy = Top(e).copy /\ done.rest = Top(e).rest
    BY <1>1, <1>2, DoneFacts, GasAssumption
  <2>2. Advances(e, frame)
    BY <1>6 DEF Return
  <2> HIDE DEF done
  <2>3. <<>> \in Seq(Operations)
    OBVIOUS
  <2>4. frame \in Frames /\ frame.copy = done.copy /\ frame.rest = done.rest
    BY <2>1, <2>3 DEF Frames
  <2> HIDE DEF frame
  <2>5. work' = work
    BY <1>2, <2>1, <2>2, <2>4, QuietAdvance
  <2> QED  BY <1>1, <2>5
<1>7. CASE Debit(e)
  <2>1. BaseCost + TransferCost \in Nat /\ Advances(e, Done(Top(e), BaseCost + TransferCost))
    BY <1>7, GasAssumption DEF Debit
  <2> QED  BY <1>1, <1>3, <2>1
<1> QED  BY <1>4, <1>5, <1>6, <1>7
LEMMA SendStutters ==
    ASSUME Executing, NEW e \in Executors, CheckBalance(e) \/ Send(e)
    PROVE  UNCHANGED <<state, work>>
<1>1. PICK new : /\ Goes(e, new)
                 /\ new.frames = exec[e].frames
                 /\ new.at \in {"sending", "stuck", "debiting"}
  <2>1. exec[e] \in Executions
    BY DEF Executing
  <2>2. CASE CheckBalance(e)
    <3> DEFINE new == [exec[e] EXCEPT !.at = "sending", !.to = Operation(e).to, !.amount = Operation(e).amount]
    <3>1. Goes(e, new)
      BY <2>2 DEF CheckBalance
    <3>2. new.frames = exec[e].frames /\ new.at = "sending"
      BY <2>1 DEF Executions
    <3> QED  BY <3>1, <3>2
  <2>3. CASE Send(e)
    <3> DEFINE new == [exec[e] EXCEPT !.at = IF wedged' THEN "stuck" ELSE "debiting"]
    <3>1. Goes(e, new)
      BY <2>3 DEF Send
    <3>2. new.frames = exec[e].frames /\ new.at \in {"stuck", "debiting"}
      BY <2>1 DEF Executions
    <3> QED  BY <3>1, <3>2
  <2> QED  BY <2>2, <2>3
<1>2. exec[e].at \in {"running", "sending"} /\ UNCHANGED state
  BY DEF CheckBalance, Send, Executes, Pending, Untouched
<1>3. \A c \in 1..MaxDepth : Work(new, c) = Work(exec[e], c)
  BY <1>1, <1>2 DEF Work
<1> QED  BY <1>1, <1>2, <1>3, WorkStays

\* A sequence that is called has no copy yet.
LEMMA NestStutters ==
    ASSUME Executing, Contract, NEW e \in Executors, If(e) \/ Call(e)
    PROVE  UNCHANGED <<state, work>>
<1> DEFINE frame == Done(Top(e), 0)
           base == WithTop(e, frame)
<1>1. Pending(e) /\ UNCHANGED state
  BY DEF If, Call, Executes, Untouched
<1>2. /\ exec[e].at = "running" /\ exec[e].at \in Deep
      /\ exec[e].at \notin {"entering", "committing"}
      /\ Top(e) \in Frames /\ Top(e).ops # <<>>
      /\ exec[e] \in Executions
      /\ exec[e].frames \in Seq(Frames) /\ exec[e].frames # <<>>
      /\ Top(e) = exec[e].frames[Len(exec[e].frames)]
  BY <1>1, OperationFacts, TopFacts
<1>3. frame \in Frames /\ frame.copy = Top(e).copy /\ frame.rest = Top(e).rest
  BY <1>2, DoneFacts
<1> HIDE DEF frame
<1>4. /\ base \in Seq(Frames) /\ Len(base) = Len(exec[e].frames)
      /\ \A c \in 1..Len(exec[e].frames) :
            base[c] = IF c = Len(exec[e].frames) THEN frame ELSE exec[e].frames[c]
  BY <1>2, <1>3, TopReplaced DEF WithTop, Depth
<1> HIDE DEF base
<1>5. \A c \in 1..Len(base) :
          base[c].copy = exec[e].frames[c].copy /\ base[c].rest = exec[e].frames[c].rest
  BY <1>2, <1>3, <1>4
<1>6. ASSUME NEW ops \in Seq(Operations), NEW limit \in Limits, NEW extra \in Nat,
             Push(e, base, ops, limit, extra)
      PROVE  work' = work
  <2> DEFINE pushed == Frame(ops, limit, extra)
             new == [exec[e] EXCEPT !.at = "entering", !.frames = Append(base, pushed)]
  <2>1. Goes(e, new) /\ pushed \in Frames /\ pushed.unread = Keys
    BY <1>6, FrameType DEF Push
  <2> HIDE DEF pushed
  <2>2. new.at = "entering" /\ new.frames = Append(base, pushed)
    BY <1>2 DEF Executions
  <2> HIDE DEF new
  <2>3. \A c \in 1..MaxDepth : Work(new, c) = Work(exec[e], c)
    BY <1>2, <1>4, <1>5, <2>1, <2>2, WorkWithPush
  <2> QED  BY <2>1, <2>3, WorkStays
<1>7. /\ Operation(e) \in Operations /\ Top(e).limit \in Limits
      /\ Top(e).limit <= ReadOnlyGas /\ Top(e).limit \in Nat /\ Top(e).gas \in Nat
  BY <1>1, <1>2, OperationFacts, TopFacts, LimitsAreNumbers DEF Frames
<1>8. CASE If(e)
  <2>1. Operation(e).body \in Seq(Operations) /\ BaseCost \in Nat
    BY <1>7, <1>8, CodeAssumption, GasAssumption DEF If, Executes
  <2>2. Push(e, base, Operation(e).body, Top(e).limit, BaseCost)
    BY <1>8 DEF If, base, frame
  <2> QED  BY <1>1, <1>6, <1>7, <2>1, <2>2
<1>9. CASE Call(e)
  <2>1. code[Operation(e).method] \in Seq(Operations)
    BY <1>9, CodeAssumption DEF Call, Contract
  <2>2. Top(e).limit > 0
    BY <1>7, <1>9 DEF OutOfGas, Call, Executes
  <2>3. RemainingGas(Top(e).limit) \in Limits
    BY <1>7, <2>2, RemainingShrinks
  <2>4. Push(e, base, code[Operation(e).method], RemainingGas(Top(e).limit), BaseCost + CallCost)
    BY <1>9 DEF Call, base, frame
  <2>5. BaseCost + CallCost \in Nat
    BY GasAssumption
  <2> QED  BY <1>1, <1>6, <2>1, <2>3, <2>4, <2>5
<1> QED  BY <1>8, <1>9

\* The sequence on top fails.
LEMMA FailIsAbort ==
    ASSUME Executing, NEW e \in Executors, Fail(e)
    PROVE  Abstract!Next
<1> DEFINE s == <<e, Depth(e)>>
<1>1. /\ exec[e].at \in {"running", "sending", "failing"}
      /\ exec[e].at \in Deep /\ exec[e].at # "entering" /\ UNCHANGED state
  BY DEF Fail, Refused, Pending, Untouched, Deep
<1>2. /\ exec[e] \in Executions
      /\ exec[e].frames \in Seq(Frames) /\ exec[e].frames # <<>> /\ Depth(e) \in Nat \ {0}
  BY <1>1, TopFacts
<1>3. Depth(e) \in 1..MaxDepth /\ s \in Sequences /\ work[s] = InProgress(exec[e].at, Top(e))
  BY <1>1, TopWorks
<1>4. PICK new : /\ Goes(e, new)
                 /\ new.frames \in Seq(Frames)
                 /\ Len(new.frames) = Len(exec[e].frames) - 1
                 /\ \A c \in 1..Len(new.frames) : new.frames[c] = exec[e].frames[c]
                 /\ new.at \notin {"entering", "committing"}
  <2>1. CASE Depth(e) = 1
    <3>1. Goes(e, Idle)
      BY <2>1 DEF Fail
    <3>2. Idle.frames \in Seq(Frames) /\ Len(Idle.frames) = 0 /\ Len(exec[e].frames) - 1 = 0
      BY <2>1, IdleType DEF Depth
    <3>3. \A c \in 1..Len(Idle.frames) : Idle.frames[c] = exec[e].frames[c]
      BY <3>2
    <3> QED  BY <3>1, <3>2, <3>3, IdleType
  <2>2. CASE Depth(e) # 1
    <3> DEFINE new == [exec[e] EXCEPT !.at = "failing", !.frames = Below(e)]
    <3>1. Goes(e, new)
      BY <2>2 DEF Fail
    <3>2. new.at = "failing" /\ new.frames = SubSeq(exec[e].frames, 1, Len(exec[e].frames) - 1)
      BY <1>2 DEF Executions, Below, Depth
    <3> HIDE DEF new
    <3>3. /\ new.frames \in Seq(Frames) /\ Len(new.frames) = Len(exec[e].frames) - 1
          /\ \A c \in 1..(Len(exec[e].frames) - 1) : new.frames[c] = exec[e].frames[c]
      BY <1>2, <3>2, Popped
    <3> QED  BY <3>1, <3>2, <3>3
  <2> QED  BY <2>1, <2>2
<1>5. Changes(exec[e], new, Depth(e), Free)
  BY <1>2, <1>4, WorkWithout DEF Changes, Depth
<1>6. work' = [work EXCEPT ![s] = Free]
  <2>1. Depth(e) \in 1..MaxDepth /\ Goes(e, new)
    BY <1>3, <1>4
  <2>2. work' = [work EXCEPT ![<<e, Depth(e)>>] = Free]
    BY <1>5, <2>1, SequenceFreed
  <2> QED  BY <2>2
<1>7. work[s].at = "working"
  BY <1>1, <1>3 DEF InProgress
<1> HIDE DEF s
<1>8. Abstract!Abort(s)
  <2>1. Abstract!Becomes(s, Abstract!Free)
    BY <1>3, <1>6, AbstractForms, BecomesNew
  <2> QED  BY <1>1, <1>7, <2>1 DEF Abstract!Abort
<1> QED  BY <1>3, <1>8 DEF Abstract!Next
LEMMA StartCommitIsStartCommit ==
    ASSUME Executing, NEW e \in Executors, StartCommit(e)
    PROVE  Abstract!Next
<1> DEFINE frame == [Top(e) EXCEPT !.rest = Present(Top(e).copy)]
           new == [exec[e] EXCEPT !.at = "committing", !.frames = WithTop(e, frame)]
           s == <<e, Depth(e)>>
<1>1. /\ exec[e].at = "running" /\ exec[e].at \in Deep /\ exec[e].at # "entering"
      /\ holder = None /\ UNCHANGED state /\ Goes(e, new)
  BY DEF StartCommit, MutexFree, Deep
<1>2. exec[e] \in Executions /\ Top(e) \in Frames
  BY <1>1, TopFacts
<1>3. s \in Sequences /\ work[s] = InProgress("running", Top(e))
  BY <1>1, TopWorks
<1>4. frame \in Frames /\ frame.copy = Top(e).copy /\ frame.rest = Present(Top(e).copy)
  <2>1. Present(Top(e).copy) \in SUBSET Keys
    BY DEF Present
  <2> QED  BY <1>2, <2>1 DEF Frames
<1>5. new.at = "committing" /\ new.frames = WithTop(e, frame)
  BY <1>2 DEF Executions
<1> HIDE DEF frame, new
<1>6. work' = [work EXCEPT ![s] = InProgress("committing", frame)]
  BY <1>1, <1>4, <1>5, AdvanceWorks DEF Deep
<1>7. \A o \in Executors : exec[o].at # "committing"
  BY <1>1, NamesAssumption DEF Executing
<1>8. \A t \in Sequences : work[t].at # "committing"
  BY <1>7 DEF work, Work, Sequences
<1> HIDE DEF s
<1>9. work[s].at = "working" /\ work[s].copy = Top(e).copy
  BY <1>3 DEF InProgress
<1>10. InProgress("committing", frame)
         = Abstract!Committing(work[s].copy, Abstract!Present(work[s].copy))
  BY <1>4, <1>9, AbstractForms DEF InProgress, Abstract!Committing
<1>11. Abstract!Becomes(s, Abstract!Committing(work[s].copy, Abstract!Present(work[s].copy)))
  BY <1>3, <1>6, <1>10, BecomesNew
<1>12. Abstract!StartCommit(s)
  BY <1>1, <1>8, <1>9, <1>11 DEF Abstract!StartCommit
<1> QED  BY <1>3, <1>12 DEF Abstract!Next

LEMMA PublishIsPublish ==
    ASSUME Executing, NEW e \in Executors, Publish(e)
    PROVE  Abstract!Next
<1> DEFINE s == <<e, Depth(e)>>
<1>1. exec[e].at = "committing" /\ exec[e].at \in Deep /\ exec[e].at # "entering"
  BY DEF Publish, Deep
<1>2. exec[e] \in Executions /\ Top(e) \in Frames
  BY <1>1, TopFacts
<1>3. s \in Sequences /\ work[s] = InProgress("committing", Top(e))
  BY <1>1, TopWorks
<1>4. PICK k \in Top(e).rest :
          /\ state' = [state EXCEPT ![k] = Top(e).copy[k]]
          /\ Goes(e, [exec[e] EXCEPT !.frames = WithTop(e, [Top(e) EXCEPT !.rest = @ \ {k}])])
  BY DEF Publish
<1> DEFINE frame == [Top(e) EXCEPT !.rest = @ \ {k}]
           new == [exec[e] EXCEPT !.frames = WithTop(e, frame)]
<1>5. frame \in Frames /\ frame.copy = Top(e).copy /\ frame.rest = Top(e).rest \ {k}
  BY <1>2 DEF Frames
<1>6. Goes(e, new)
  BY <1>4
<1>7. new.at = "committing" /\ new.frames = WithTop(e, frame)
  BY <1>1, <1>2 DEF Executions
<1> HIDE DEF frame, new
<1>8. work' = [work EXCEPT ![s] = InProgress("committing", frame)]
  BY <1>1, <1>5, <1>6, <1>7, AdvanceWorks DEF Deep
<1> HIDE DEF s
<1>9. /\ work[s].at = "committing" /\ work[s].copy = Top(e).copy /\ work[s].rest = Top(e).rest
  BY <1>3 DEF InProgress
<1>10. InProgress("committing", frame) = Abstract!Committing(work[s].copy, work[s].rest \ {k})
  BY <1>5, <1>9 DEF InProgress, Abstract!Committing
<1>11. Abstract!Becomes(s, Abstract!Committing(work[s].copy, work[s].rest \ {k}))
  BY <1>3, <1>8, <1>10, BecomesNew
<1>12. k \in work[s].rest /\ state' = [state EXCEPT ![k] = work[s].copy[k]]
  BY <1>4, <1>9
<1>13. Abstract!Publish(s)
  BY <1>9, <1>11, <1>12 DEF Abstract!Publish
<1> QED  BY <1>3, <1>13 DEF Abstract!Next

LEMMA EndCommitIsEnd ==
    ASSUME Executing, NEW e \in Executors, EndCommit(e)
    PROVE  Abstract!Next
<1> DEFINE s == <<e, Depth(e)>>
<1>1. /\ exec[e].at = "committing" /\ exec[e].at \in Deep /\ exec[e].at # "entering"
      /\ Top(e).rest = {} /\ UNCHANGED state
  BY DEF EndCommit, Deep
<1>2. /\ exec[e] \in Executions
      /\ exec[e].frames \in Seq(Frames) /\ exec[e].frames # <<>> /\ Depth(e) \in Nat \ {0}
      /\ Top(e) \in Frames
  BY <1>1, TopFacts
<1>3. Depth(e) \in 1..MaxDepth /\ s \in Sequences /\ work[s] = InProgress("committing", Top(e))
  BY <1>1, TopWorks
<1>4. PICK new : /\ Goes(e, new)
                 /\ new.frames \in Seq(Frames)
                 /\ Len(new.frames) = Len(exec[e].frames) - 1
                 /\ \A c \in 1..Len(new.frames) :
                       /\ new.frames[c].copy = exec[e].frames[c].copy
                       /\ new.frames[c].rest = exec[e].frames[c].rest
                 /\ new.at \notin {"entering", "committing"}
  <2>1. CASE Depth(e) = 1
    <3> DEFINE new == IF exec[e].readOnly THEN Idle ELSE [Idle EXCEPT !.at = "charging"]
    <3>1. Goes(e, new)
      BY <2>1 DEF EndCommit
    <3>2. new.frames = <<>> /\ new.at \in {"idle", "charging"}
      BY DEF Idle
    <3> HIDE DEF new
    <3>3. new.frames \in Seq(Frames) /\ Len(new.frames) = 0 /\ Len(exec[e].frames) - 1 = 0
      BY <2>1, <3>2 DEF Depth
    <3>4. \A c \in 1..Len(new.frames) :
              /\ new.frames[c].copy = exec[e].frames[c].copy
              /\ new.frames[c].rest = exec[e].frames[c].rest
      BY <3>3
    <3> QED  BY <3>1, <3>2, <3>3, <3>4
  <2>2. CASE Depth(e) # 1
    <3> DEFINE n == Len(exec[e].frames)
               below == Below(e)
               caller == exec[e].frames[n - 1]
               frame == [caller EXCEPT !.gas = @ + Top(e).gas + Top(e).extra]
               new == [exec[e] EXCEPT !.at = "running", !.frames = [below EXCEPT ![n - 1] = frame]]
    <3>1. n \in Nat /\ n > 1
      <4>1. n = Depth(e)
        BY DEF Depth
      <4> HIDE DEF n
      <4> QED  BY <1>2, <2>2, <4>1
    <3>2. Goes(e, new)
      BY <3>1 DEF EndCommit, Resumed, Depth
    <3>3. /\ below \in Seq(Frames) /\ Len(below) = n - 1
          /\ \A c \in 1..(n - 1) : below[c] = exec[e].frames[c]
      BY <1>2, Popped DEF Below, Depth
    <3>4. caller \in Frames
      BY <1>2, <3>1
    <3>5. frame \in Frames /\ frame.copy = caller.copy /\ frame.rest = caller.rest
      <4> HIDE DEF caller
      <4>1. caller.gas + Top(e).gas + Top(e).extra \in Nat
        BY <1>2, <3>4 DEF Frames
      <4> QED  BY <3>4, <4>1 DEF Frames
    <3>6. new.at = "running" /\ new.frames = [below EXCEPT ![n - 1] = frame]
      BY <1>2 DEF Executions
    <3> HIDE DEF new, frame, below
    <3>7. Len(below) > 0
      BY <3>1, <3>3
    <3>8. /\ new.frames \in Seq(Frames) /\ Len(new.frames) = n - 1
          /\ \A c \in 1..(n - 1) : new.frames[c] = IF c = n - 1 THEN frame ELSE below[c]
      BY <3>3, <3>5, <3>6, <3>7, EmptySeqIsShort, TopReplaced
    <3>9. \A c \in 1..(n - 1) : /\ new.frames[c].copy = exec[e].frames[c].copy
                                /\ new.frames[c].rest = exec[e].frames[c].rest
      BY <3>3, <3>5, <3>8
    <3> QED  BY <3>2, <3>6, <3>8, <3>9
  <2> QED  BY <2>1, <2>2
<1>5. Changes(exec[e], new, Depth(e), Free)
  BY <1>2, <1>4, WorkWithout DEF Changes, Depth
<1>6. work' = [work EXCEPT ![s] = Free]
  <2>1. Depth(e) \in 1..MaxDepth /\ Goes(e, new)
    BY <1>3, <1>4
  <2>2. work' = [work EXCEPT ![<<e, Depth(e)>>] = Free]
    BY <1>5, <2>1, SequenceFreed
  <2> QED  BY <2>2
<1>7. work[s].at = "committing" /\ work[s].rest = {}
  BY <1>1, <1>3 DEF InProgress
<1> HIDE DEF s
<1>8. Abstract!End(s)
  <2>1. Abstract!Becomes(s, Abstract!Free)
    BY <1>3, <1>6, AbstractForms, BecomesNew
  <2> QED  BY <1>1, <1>7, <2>1 DEF Abstract!End
<1> QED  BY <1>3, <1>8 DEF Abstract!Next

\* What surrounds the sequences of an execution.
LEMMA RestStutters ==
    ASSUME Executing, NEW e \in Executors, Credit(e) \/ Find(e) \/ Charge(e)
    PROVE  UNCHANGED <<state, work>>
<1>1. exec[e].at \in Shallow /\ UNCHANGED state
  BY DEF Credit, Find, Charge, Untouched, Shallow
<1>2. exec[e] \in Executions /\ exec[e].frames = <<>>
  BY <1>1, ShallowFacts
<1>3. <<>> \in Seq(Frames) /\ Len(<<>>) = 0
  OBVIOUS
<1>4. PICK new : /\ Goes(e, new)
                 /\ new.frames \in Seq(Frames)
                 /\ \/ Len(new.frames) = 0
                    \/ /\ Len(new.frames) = 1 /\ new.at = "entering"
                       /\ new.frames[1].unread = Keys
  <2>1. CASE Credit(e)
    <3> DEFINE new == [exec[e] EXCEPT !.at = "finding"]
    <3>1. Goes(e, new)
      BY <2>1 DEF Credit
    <3>2. new.frames = <<>>
      BY <1>2 DEF Executions
    <3> HIDE DEF new
    <3>3. new.frames \in Seq(Frames) /\ Len(new.frames) = 0
      BY <1>3, <3>2
    <3> QED  BY <3>1, <3>3
  <2>2. CASE Goes(e, Idle)
    <3>1. Idle.frames \in Seq(Frames) /\ Len(Idle.frames) = 0
      BY <1>3, IdleType
    <3> QED  BY <2>2, <3>1
  <2>3. CASE Push(e, <<>>, <<>>, 0, 0)
    <3> DEFINE frame == Frame(<<>>, 0, 0)
               new == [exec[e] EXCEPT !.at = "entering", !.frames = Append(<<>>, frame)]
    <3>1. Goes(e, new)
      BY <2>3 DEF Push
    <3>2. <<>> \in Seq(Operations) /\ 0 \in Nat
      OBVIOUS
    <3>3. frame \in Frames
      BY <3>2, NoGas, FrameType
    <3>7. frame.unread = Keys
      BY DEF Frame
    <3> HIDE DEF frame
    <3>4. new.at = "entering" /\ new.frames = Append(<<>>, frame)
      BY <1>2 DEF Executions
    <3>5. Append(<<>>, frame) \in Seq(Frames) /\ Len(Append(<<>>, frame)) = 1
      BY <3>3
    <3> HIDE DEF new
    <3>6. new.frames \in Seq(Frames) /\ Len(new.frames) = 1 /\ new.frames[1].unread = Keys
      BY <3>4, <3>5, <3>7
    <3> QED  BY <3>1, <3>4, <3>6
  <2> QED  BY <2>1, <2>2, <2>3 DEF Find, Charge
<1>5. \A c \in 1..MaxDepth : Work(new, c) = Work(exec[e], c)
  <2>1. \A c \in 1..MaxDepth : Work(new, c) = Free
    BY <1>4, NoWork
  <2>2. exec[e].frames \in Seq(Frames) /\ Len(exec[e].frames) = 0
    BY <1>2, <1>3
  <2>3. \A c \in 1..MaxDepth : Work(exec[e], c) = Free
    BY <2>2, NoWork
  <2> QED  BY <2>1, <2>3
<1> QED  BY <1>1, <1>4, <1>5, WorkStays
\* A call from outside begins no sequence yet.
LEMMA CallsStutter ==
    ASSUME Executing, Contract, CreateContracts \/ Called
    PROVE  UNCHANGED <<state, work>>
<1>1. CASE UNCHANGED <<state, exec>>
  BY <1>1 DEF work
<1>2. ASSUME NEW e \in Executors, NEW c \in Clients \cup Others,
             (\E v \in Amounts \cup {0} : ExecuteContract(e, c, v))
                \/ (\E m \in Methods : ExecuteReadOnlyCall(e, c, m))
      PROVE  UNCHANGED <<state, work>>
  <2>1. exec[e].at \in Shallow /\ UNCHANGED state
    BY <1>2 DEF ExecuteContract, ExecuteReadOnlyCall, Untouched, Shallow
  <2>2. exec[e] \in Executions /\ exec[e].frames = <<>>
    BY <2>1, ShallowFacts
  <2>3. <<>> \in Seq(Frames) /\ Len(<<>>) = 0
    OBVIOUS
  <2>4. \A readOnly, at : /\ Begins(e, readOnly, c, at).frames = <<>>
                          /\ Begins(e, readOnly, c, at).at = at
    BY DEF Begins, Idle
  <2>5. PICK new : /\ Goes(e, new)
                   /\ new.frames \in Seq(Frames)
                   /\ \/ Len(new.frames) = 0
                      \/ /\ Len(new.frames) = 1 /\ new.at = "entering"
                         /\ new.frames[1].unread = Keys
    <3>1. CASE \E v \in Amounts \cup {0} : ExecuteContract(e, c, v)
      <4>1. PICK v \in Amounts \cup {0} : ExecuteContract(e, c, v)
        BY <3>1
      <4> DEFINE begun == Begins(e, FALSE, c, IF wedged' THEN "stuck" ELSE "crediting")
                 new == IF v = 0 THEN Begins(e, FALSE, c, "finding") ELSE [begun EXCEPT !.amount = v]
      <4>2. Goes(e, new)
        BY <4>1 DEF ExecuteContract
      <4>3. new.frames = <<>>
        BY <2>4 DEF Begins, Idle
      <4> HIDE DEF new
      <4>4. new.frames \in Seq(Frames) /\ Len(new.frames) = 0
        BY <2>3, <4>3
      <4> QED  BY <4>2, <4>4
    <3>2. CASE \E m \in Methods : ExecuteReadOnlyCall(e, c, m)
      <4>1. PICK m \in Methods : ExecuteReadOnlyCall(e, c, m)
        BY <3>2
      <4> DEFINE frame == Frame(code[m], ReadOnlyGas, 0)
                 new == [Begins(e, TRUE, c, "entering") EXCEPT !.frames = <<frame>>]
      <4>2. Goes(e, new) /\ m \in DOMAIN code
        BY <4>1 DEF ExecuteReadOnlyCall
      <4>3. code[m] \in Seq(Operations) /\ 0 \in Nat
        BY <4>2, CodeAssumption DEF Contract
      <4>4. frame \in Frames /\ frame.unread = Keys
        BY <4>3, ReadOnlyLimit, FrameType
      <4> HIDE DEF frame
      <4>5. new.at = "entering" /\ new.frames = <<frame>>
        BY DEF Begins, Idle
      <4>6. <<frame>> \in Seq(Frames) /\ Len(<<frame>>) = 1
        BY <4>4
      <4> HIDE DEF new
      <4>7. new.frames \in Seq(Frames) /\ Len(new.frames) = 1 /\ new.frames[1].unread = Keys
        BY <4>4, <4>5, <4>6
      <4> QED  BY <4>2, <4>5, <4>7
    <3> QED  BY <1>2, <3>1, <3>2
  <2>6. \A d \in 1..MaxDepth : Work(new, d) = Work(exec[e], d)
    <3>1. \A d \in 1..MaxDepth : Work(new, d) = Free
      BY <2>5, NoWork
    <3>2. exec[e].frames \in Seq(Frames) /\ Len(exec[e].frames) = 0
      BY <2>2, <2>3
    <3>3. \A d \in 1..MaxDepth : Work(exec[e], d) = Free
      BY <3>2, NoWork
    <3> QED  BY <3>1, <3>3
  <2>7. work' = work
    BY <2>5, <2>6, WorkStays
  <2> QED  BY <2>1, <2>7
<1> QED  BY <1>1, <1>2 DEF CreateContracts, CreateContract, Called, UpdateContractCode, OpenAccount

LEMMA InitIsInit == ASSUME Init PROVE Abstract!Init
<1>1. \A e \in Executors : exec[e] = Idle
  BY DEF Init
<1>2. <<>> \in Seq(Frames) /\ Len(<<>>) = 0
  OBVIOUS
<1>3. \A e \in Executors, d \in 1..MaxDepth : Work(exec[e], d) = Free
  BY <1>1, <1>2, IdleType, NoWork
<1>4. \A s \in Sequences : s[1] \in Executors /\ s[2] \in 1..MaxDepth
  BY DEF Sequences
<1>5. work = [s \in Sequences |-> Free]
  BY <1>3, <1>4 DEF work
<1>6. state \in Maps
  BY CodeAssumption DEF Init
<1> QED  BY <1>5, <1>6, AbstractForms DEF Abstract!Init

LEMMA StepIsStep == ASSUME IInv, [Next]_vars PROVE [Abstract!Next]_(Abstract!vars)
<1>1. Contract /\ Executing
  BY DEF IInv
<1>2. ASSUME UNCHANGED <<state, work>> PROVE UNCHANGED Abstract!vars
  BY <1>2 DEF Abstract!vars
<1>3. ASSUME NEW e \in Executors, Works(e)
      PROVE  Abstract!Next \/ UNCHANGED <<state, work>>
  BY <1>1, <1>3, EnterCopies, StoreIsStore, OperationStutters, SendStutters, NestStutters,
     FailIsAbort, StartCommitIsStartCommit, PublishIsPublish, EndCommitIsEnd, RestStutters
     DEF Works
<1>4. CASE CreateContracts \/ Called
  BY <1>1, <1>2, <1>4, CallsStutter
<1>5. CASE UNCHANGED vars \/ Stops
  <2>1. UNCHANGED <<state, exec>>
    BY <1>5 DEF vars, Stops
  <2>2. UNCHANGED <<state, work>>
    BY <2>1 DEF work
  <2> QED  BY <1>2, <2>2
<1> QED  BY <1>2, <1>3, <1>4, <1>5 DEF Next, Runs

\* contracts.go:435, 462: for any code, any keys and any number of executions at
\* a time, the sequences of operations are those of SequenceStore: each works on
\* what it has found key by key, while others commit too, and on what it stores;
\* the contract's state gets that only if the sequence ends well, from one
\* sequence at a time.
THEOREM SequencesAreStored == Spec => ImplementsSequenceStore
<1>1. Init => Abstract!Init
  BY InitIsInit
<1>2. IInv /\ [Next]_vars => [Abstract!Next]_(Abstract!vars)
  BY StepIsStep
<1> QED  BY <1>1, <1>2, Invariance, PTL DEF Spec, ImplementsSequenceStore, Abstract!Spec

=============================================================================
