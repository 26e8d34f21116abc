--------------------------- MODULE CurrencyProofs ---------------------------
(***************************************************************************)
(* For any accounts, amounts, live or not, and producers: types; unless a  *)
(* distribution of fees overlaps another update, no overdraft; and, unless *)
(* a method reads back an amount that it has just written, a supply that   *)
(* adds up.                                                                *)
(***************************************************************************)
EXTENDS Currency, FoldLemmas

AccountType == [balance : Int, stake : Int, staking : BOOLEAN]
FeeType == [at : {"start", "read", "credit", "reduce"}, validator : Addresses,
            fees : Nat, seen : Int]
Methods == {"TransferFunds", "MintTokens", "BurnTokens", "StakeTokens", "UnstakeTokens"}

\* Nobody owes anything.
Solvent(books) == \A a \in DOMAIN books : books[a].balance >= 0 /\ books[a].stake >= 0

\* An amount that points to a Balance there is.
Points(S, m) == m \in AmountType /\ (m.of # "caller" => m.account \in S)

Books ==
    /\ DOMAIN accounts \subseteq Addresses
    /\ accounts \in [DOMAIN accounts -> AccountType]
    /\ totalSupply \in Int

Steps ==
    /\ initializing \in {"burn", "mint", "account", "reserve", "done"}
    /\ fee \in [Producers -> FeeType]
    /\ calls \in 0..MaxCalls
    /\ feesTaken \in Nat
    /\ lost \in BOOLEAN
    /\ aliased \in BOOLEAN

\* What a call has checked of its amount.
Covered(books, call) ==
    LET x == Read(books, call.amount)
    IN  /\ call.method # "BurnTokens" => x > 0
        /\ call.method \in {"TransferFunds", "BurnTokens", "StakeTokens"}
              => books[call.from].balance >= x
        /\ call.method = "UnstakeTokens" => books[call.from].stake >= x

\* It still holds when the call writes: only the call that holds the mutex takes
\* from a balance or a stake, and a credit to its own amount counts as lost.
Checked ==
    holder # None =>
        /\ holder \in CallType
        /\ Points(DOMAIN accounts, holder.amount)
        /\ holder.method # "MintTokens" => holder.from \in DOMAIN accounts
        /\ ~lost => Covered(accounts, holder)

\* Whom a producer credits has an account, which is never removed.
Credited == \A p \in Producers : fee[p].at = "credit" => fee[p].validator \in DOMAIN accounts

IInv == Books /\ Steps /\ Checked /\ Credited /\ NoOverdraft

-----------------------------------------------------------------------------
(* Amounts *)

LEMMA ShareIsPart ==
    ASSUME NEW fees \in Nat
    PROVE  ValidatorShare(fees) \in Nat /\ fees - ValidatorShare(fees) \in Nat
  BY DEF ValidatorShare

LEMMA ReserveIsNat == ASSUME NEW amount \in Nat PROVE Reserve(amount) \in Nat /\ Reserve(amount) <= amount
  BY DEF Reserve

LEMMA OwnAmount ==
    ASSUME NEW S, NEW x \in Int, NEW books
    PROVE  Points(S, Own(x)) /\ Own(x) \in AmountType /\ Read(books, Own(x)) = x
  BY DEF Points, Own, AmountType, Read

LEMMA AnyAmountPoints ==
    ASSUME Books, NEW m \in AnyAmount
    PROVE  Points(DOMAIN accounts, m)
<1>1. CASE m \in {Own(x) : x \in Amounts}
  BY <1>1, OwnAmount, AmountsAssumption
<1>2. CASE m \in LiveAmounts
  BY <1>2 DEF LiveAmounts, Books, BalanceOf, StakeOf, Points, AmountType
<1> QED  BY <1>1, <1>2 DEF AnyAmount

LEMMA ReadIsInt ==
    ASSUME NEW S, NEW books \in [S -> AccountType], NEW m, Points(S, m)
    PROVE  Read(books, m) \in Int
  BY DEF Points, AmountType, AccountType, Read

\* An amount of at least 0 is one in any solvent books.
LEMMA ReadIsNat ==
    ASSUME NEW S, NEW books \in [S -> AccountType], NEW after \in [S -> AccountType],
           NEW m, Points(S, m), Read(books, m) >= 0, Solvent(after)
    PROVE  Read(after, m) >= 0
  BY DEF Points, AmountType, AccountType, Read, Solvent

-----------------------------------------------------------------------------
(* What all accounts hold together *)

Total(books) == SumFunction(Held(books))

LEMMA TotalIsInt ==
    ASSUME NEW S, IsFiniteSet(S), NEW books \in [S -> AccountType]
    PROVE  Total(books) \in Int
<1>1. DOMAIN Held(books) = S /\ \A b \in S : Held(books)[b] \in Int
  BY DEF Held, AccountType
<1> QED  BY <1>1, SumTakesOut, Zenon DEF Total, SumFunction

\* A change of one account changes the total by as much.
LEMMA TotalChanges ==
    ASSUME NEW S, IsFiniteSet(S), NEW books \in [S -> AccountType],
           NEW after \in [S -> AccountType], NEW a \in S,
           \A b \in S : b # a => after[b] = books[b]
    PROVE  Total(after) = Total(books) + (after[a].balance + after[a].stake)
                                       - (books[a].balance + books[a].stake)
<1> DEFINE f == Held(books)
           k == Held(after)
<1>1. DOMAIN f = S /\ DOMAIN k = S  BY DEF Held
<1>2. \A b \in S : f[b] \in Int  BY DEF Held, AccountType
<1>3. \A b \in S : k[b] \in Int  BY DEF Held, AccountType
<1>4. \A b \in S : b # a => f[b] = k[b]  BY DEF Held
<1>5. f[a] = books[a].balance + books[a].stake /\ k[a] = after[a].balance + after[a].stake
  BY DEF Held
<1>6. IsFiniteSet(S) /\ a \in S  OBVIOUS
<1> HIDE DEF f, k
<1>7. SumFunctionOnSet(k, S) = SumFunctionOnSet(f, S) + k[a] - f[a]
  BY ONLY IsFiniteSet(S), <1>2, <1>3, <1>4, <1>6, SumChangesBy
<1> QED  BY <1>1, <1>5, <1>7 DEF Total, SumFunction, f, k

-----------------------------------------------------------------------------
(* One write: a new balance, or a new stake, of one account. *)

\* What is known of the books after a write of d to the Balance "cell".
Wrote(S, books, after, cell, d) ==
    /\ after \in [S -> AccountType]
    /\ \A m : Points(S, m) /\ m # cell => Read(after, m) = Read(books, m)
    /\ IsFiniteSet(S) => Total(after) = Total(books) + d

LEMMA BalanceWritten ==
    ASSUME NEW S, NEW books \in [S -> AccountType], NEW a \in S, NEW x \in Int
    PROVE  LET after == [books EXCEPT ![a].balance = x]
           IN  /\ Wrote(S, books, after, BalanceOf(a), x - books[a].balance)
               /\ after[a].balance = x /\ after[a].stake = books[a].stake
               /\ \A b \in S : b # a => after[b] = books[b]
               /\ Solvent(books) /\ x >= 0 => Solvent(after)
<1> DEFINE after == [books EXCEPT ![a].balance = x]
<1>1. /\ after \in [S -> AccountType]
      /\ after[a].balance = x /\ after[a].stake = books[a].stake
      /\ \A b \in S : b # a => after[b] = books[b]
  BY DEF AccountType
<1> HIDE DEF after
<1>2. ASSUME NEW m, Points(S, m), m # BalanceOf(a) PROVE Read(after, m) = Read(books, m)
  <2>1. CASE m.of = "caller"  BY <2>1 DEF Read
  <2>2. CASE m.of = "stake"  BY <1>1, <1>2, <2>2 DEF Read, Points
  <2>3. CASE m.of = "balance"
    <3>1. m = BalanceOf(m.account)  BY <1>2, <2>3 DEF Points, AmountType, BalanceOf
    <3>2. m.account # a /\ m.account \in S  BY <1>2, <2>3, <3>1 DEF Points
    <3> QED  BY <1>1, <2>3, <3>2 DEF Read
  <2> QED  BY <1>2, <2>1, <2>2, <2>3 DEF Points, AmountType
<1>3. ASSUME IsFiniteSet(S) PROVE Total(after) = Total(books) + (x - books[a].balance)
  <2>1. books[a].balance \in Int /\ books[a].stake \in Int  BY DEF AccountType
  <2>2. Total(books) \in Int  BY <1>3, TotalIsInt
  <2>3. Total(after) = Total(books) + (after[a].balance + after[a].stake)
                                    - (books[a].balance + books[a].stake)
    BY <1>1, <1>3, TotalChanges
  <2> QED  BY <1>1, <2>1, <2>2, <2>3
<1>4. ASSUME Solvent(books), x >= 0 PROVE Solvent(after)
  BY <1>1, <1>4 DEF Solvent
<1> QED  BY <1>1, <1>2, <1>3, <1>4 DEF Wrote, after

LEMMA StakeWritten ==
    ASSUME NEW S, NEW books \in [S -> AccountType], NEW a \in S, NEW x \in Int
    PROVE  LET after == [books EXCEPT ![a].stake = x]
           IN  /\ Wrote(S, books, after, StakeOf(a), x - books[a].stake)
               /\ after[a].stake = x /\ after[a].balance = books[a].balance
               /\ \A b \in S : b # a => after[b] = books[b]
               /\ Solvent(books) /\ x >= 0 => Solvent(after)
<1> DEFINE after == [books EXCEPT ![a].stake = x]
<1>1. /\ after \in [S -> AccountType]
      /\ after[a].stake = x /\ after[a].balance = books[a].balance
      /\ \A b \in S : b # a => after[b] = books[b]
  BY DEF AccountType
<1> HIDE DEF after
<1>2. ASSUME NEW m, Points(S, m), m # StakeOf(a) PROVE Read(after, m) = Read(books, m)
  <2>1. CASE m.of = "caller"  BY <2>1 DEF Read
  <2>2. CASE m.of = "balance"  BY <1>1, <1>2, <2>2 DEF Read, Points
  <2>3. CASE m.of = "stake"
    <3>1. m = StakeOf(m.account)  BY <1>2, <2>3 DEF Points, AmountType, StakeOf
    <3>2. m.account # a /\ m.account \in S  BY <1>2, <2>3, <3>1 DEF Points
    <3> QED  BY <1>1, <2>3, <3>2 DEF Read
  <2> QED  BY <1>2, <2>1, <2>2, <2>3 DEF Points, AmountType
<1>3. ASSUME IsFiniteSet(S) PROVE Total(after) = Total(books) + (x - books[a].stake)
  <2>1. books[a].balance \in Int /\ books[a].stake \in Int  BY DEF AccountType
  <2>2. Total(books) \in Int  BY <1>3, TotalIsInt
  <2>3. Total(after) = Total(books) + (after[a].balance + after[a].stake)
                                    - (books[a].balance + books[a].stake)
    BY <1>1, <1>3, TotalChanges
  <2> QED  BY <1>1, <2>1, <2>2, <2>3
<1>4. ASSUME Solvent(books), x >= 0 PROVE Solvent(after)
  BY <1>1, <1>4 DEF Solvent
<1> QED  BY <1>1, <1>2, <1>3, <1>4 DEF Wrote, after

\* Whether an account has a Stake moves nothing.
LEMMA StakingNoted ==
    ASSUME NEW S, NEW books \in [S -> AccountType], NEW a \in S
    PROVE  LET after == [books EXCEPT ![a].staking = TRUE]
           IN  /\ after \in [S -> AccountType]
               /\ \A b \in S : after[b].balance = books[b].balance /\ after[b].stake = books[b].stake
               /\ Solvent(books) => Solvent(after)
               /\ Held(after) = Held(books)
  BY DEF AccountType, Solvent, Held

LEMMA OpenedAccounts ==
    ASSUME Books, NEW a \in Addresses, NEW staking \in BOOLEAN
    PROVE  LET after == Opened(a, staking)
               S == DOMAIN accounts
           IN  /\ after \in [S \cup {a} -> AccountType]
               /\ \A b \in S : after[b] = accounts[b]
               /\ a \notin S => after[a].balance = 0 /\ after[a].stake = 0
               /\ Solvent(accounts) => Solvent(after)
               /\ \A m : Points(S, m) => Points(S \cup {a}, m) /\ Read(after, m) = Read(accounts, m)
<1> DEFINE after == Opened(a, staking)
           S == DOMAIN accounts
<1>1. /\ after \in [S \cup {a} -> AccountType]
      /\ \A b \in S : after[b] = accounts[b]
      /\ a \notin S => after[a].balance = 0 /\ after[a].stake = 0
  BY DEF Books, Opened, AccountType
<1> HIDE DEF after
<1>2. Solvent(accounts) => Solvent(after)  BY <1>1 DEF Solvent
<1>3. \A m : Points(S, m) => Points(S \cup {a}, m) /\ Read(after, m) = Read(accounts, m)
  BY <1>1 DEF Points, Read
<1> QED  BY <1>1, <1>2, <1>3 DEF after

LEMMA TotalOfOpened ==
    ASSUME Books, IsFiniteSet(DOMAIN accounts), NEW a \in Addresses, NEW staking \in BOOLEAN
    PROVE  Total(Opened(a, staking)) = Total(accounts) /\ IsFiniteSet(DOMAIN accounts \cup {a})
<1> DEFINE S == DOMAIN accounts
           f == Held(accounts)
           k == Held(Opened(a, staking))
<1>1. /\ Opened(a, staking) \in [S \cup {a} -> AccountType]
      /\ \A b \in S : Opened(a, staking)[b] = accounts[b]
      /\ a \notin S => Opened(a, staking)[a].balance = 0 /\ Opened(a, staking)[a].stake = 0
  BY OpenedAccounts
<1>2. DOMAIN f = S /\ DOMAIN k = S \cup {a}  BY <1>1 DEF Held
<1>3. \A b \in S : f[b] \in Int /\ k[b] = f[b]  BY <1>1 DEF Held, Books, AccountType
<1>4. a \notin S => k[a] = 0  BY <1>1 DEF Held
<1>5. SumFunctionOnSet(f, S) \in Int  BY <1>3, SumTakesOut
<1>6. SumFunctionOnSet(k, S \cup {a}) = SumFunctionOnSet(f, S)
  <2> HIDE DEF S, f, k
  <2>1. CASE a \in S
    <3>1. S \cup {a} = S  BY <2>1
    <3>2. SumFunctionOnSet(f, S) = SumFunctionOnSet(k, S)
      <4>1. IsFiniteSet(S)  BY DEF S
      <4> QED  BY <1>3, <4>1, SameSum
    <3> QED  BY <3>1, <3>2
  <2>2. CASE a \notin S
    <3>1. IsFiniteSet(S)  BY DEF S
    <3>2. k[a] \in Int  BY <1>4, <2>2
    <3>3. SumFunctionOnSet(k, S \cup {a}) = SumFunctionOnSet(f, S) + k[a]
      BY <1>3, <2>2, <3>1, <3>2, SumGrows
    <3> QED  BY <1>4, <1>5, <2>2, <3>3
  <2> QED  BY <2>1, <2>2
<1>7. IsFiniteSet(S \cup {a})  BY FS_AddElement
<1> QED  BY <1>2, <1>6, <1>7 DEF Total, SumFunction

-----------------------------------------------------------------------------
(* Any live Balance, and two writes that move an amount from one to another. *)

Live(S, cell) == Points(S, cell) /\ cell.of # "caller"

LEMMA LiveCells ==
    ASSUME NEW S, S \subseteq Addresses, NEW a \in S
    PROVE  /\ Live(S, BalanceOf(a)) /\ Live(S, StakeOf(a))
           /\ \A books : /\ Read(books, BalanceOf(a)) = books[a].balance
                         /\ Read(books, StakeOf(a)) = books[a].stake
           /\ \A books, x : /\ Assigned(books, BalanceOf(a), x) = [books EXCEPT ![a].balance = x]
                            /\ Assigned(books, StakeOf(a), x) = [books EXCEPT ![a].stake = x]
  BY DEF Live, Points, AmountType, BalanceOf, StakeOf, Read, Assigned

LEMMA CellWritten ==
    ASSUME NEW S, NEW books \in [S -> AccountType], NEW cell, Live(S, cell), NEW x \in Int
    PROVE  LET after == Assigned(books, cell, x)
           IN  /\ Wrote(S, books, after, cell, x - Read(books, cell))
               /\ Read(after, cell) = x
               /\ Solvent(books) /\ x >= 0 => Solvent(after)
<1> DEFINE a == cell.account
<1>1. cell \in AmountType /\ a \in S  BY DEF Live, Points
<1>2. CASE cell.of = "balance"
  <2>1. cell = BalanceOf(a)  BY <1>1, <1>2 DEF AmountType, BalanceOf
  <2>2. /\ Assigned(books, cell, x) = [books EXCEPT ![a].balance = x]
        /\ \A b : Read(b, cell) = b[a].balance
    BY <1>2 DEF Assigned, Read
  <2>3. LET after == [books EXCEPT ![a].balance = x]
        IN  /\ Wrote(S, books, after, BalanceOf(a), x - books[a].balance)
            /\ after[a].balance = x
            /\ Solvent(books) /\ x >= 0 => Solvent(after)
    <3> HIDE DEF a
    <3> QED  BY <1>1, BalanceWritten
  <2> QED  BY ONLY <2>1, <2>2, <2>3
<1>3. CASE cell.of = "stake"
  <2>1. cell = StakeOf(a)  BY <1>1, <1>3 DEF AmountType, StakeOf
  <2>2. /\ Assigned(books, cell, x) = [books EXCEPT ![a].stake = x]
        /\ \A b : Read(b, cell) = b[a].stake
    BY <1>3 DEF Assigned, Read
  <2>3. LET after == [books EXCEPT ![a].stake = x]
        IN  /\ Wrote(S, books, after, StakeOf(a), x - books[a].stake)
            /\ after[a].stake = x
            /\ Solvent(books) /\ x >= 0 => Solvent(after)
    <3> HIDE DEF a
    <3> QED  BY <1>1, StakeWritten
  <2> QED  BY ONLY <2>1, <2>2, <2>3
<1> QED  BY <1>1, <1>2, <1>3 DEF Live, AmountType

\* The amount is read before each write.
Take(books, cell, m) == Assigned(books, cell, Read(books, cell) - Read(books, m))
Give(books, cell, m) == Assigned(books, cell, Read(books, cell) + Read(books, m))

LEMMA TakenAndGiven ==
    ASSUME NEW a, NEW books, NEW m
    PROVE  /\ Take(books, BalanceOf(a), m)
                 = [books EXCEPT ![a].balance = books[a].balance - Read(books, m)]
           /\ Take(books, StakeOf(a), m)
                 = [books EXCEPT ![a].stake = books[a].stake - Read(books, m)]
           /\ Give(books, BalanceOf(a), m)
                 = [books EXCEPT ![a].balance = books[a].balance + Read(books, m)]
           /\ Give(books, StakeOf(a), m)
                 = [books EXCEPT ![a].stake = books[a].stake + Read(books, m)]
<1>1. \A b : Read(b, BalanceOf(a)) = b[a].balance /\ Read(b, StakeOf(a)) = b[a].stake
  BY DEF BalanceOf, StakeOf, Read
<1>2. \A b, x : /\ Assigned(b, BalanceOf(a), x) = [b EXCEPT ![a].balance = x]
                /\ Assigned(b, StakeOf(a), x) = [b EXCEPT ![a].stake = x]
  BY DEF BalanceOf, StakeOf, Assigned
<1>3. /\ Take(books, BalanceOf(a), m)
            = Assigned(books, BalanceOf(a), books[a].balance - Read(books, m))
      /\ Take(books, StakeOf(a), m)
            = Assigned(books, StakeOf(a), books[a].stake - Read(books, m))
      /\ Give(books, BalanceOf(a), m)
            = Assigned(books, BalanceOf(a), books[a].balance + Read(books, m))
      /\ Give(books, StakeOf(a), m)
            = Assigned(books, StakeOf(a), books[a].stake + Read(books, m))
  BY <1>1 DEF Take, Give
<1> QED  BY <1>2, <1>3

LEMMA Taken ==
    ASSUME NEW S, NEW books \in [S -> AccountType], NEW cell, Live(S, cell), NEW m, Points(S, m)
    PROVE  LET after == Take(books, cell, m)
           IN  /\ Wrote(S, books, after, cell, -Read(books, m))
               /\ Solvent(books) /\ Read(books, cell) >= Read(books, m) => Solvent(after)
<1> DEFINE c == Read(books, cell)
           x == Read(books, m)
<1>1. c \in Int /\ x \in Int  BY ReadIsInt DEF Live
<1> HIDE DEF c, x
<1>2. c - x \in Int /\ (c - x) - c = -x /\ (c >= x => c - x >= 0)  BY <1>1
<1>3. /\ Wrote(S, books, Assigned(books, cell, c - x), cell, (c - x) - Read(books, cell))
      /\ Solvent(books) /\ c - x >= 0 => Solvent(Assigned(books, cell, c - x))
  BY <1>2, CellWritten
<1> QED  BY <1>2, <1>3 DEF Take, c, x

LEMMA Given ==
    ASSUME NEW S, NEW books \in [S -> AccountType], NEW cell, Live(S, cell), NEW m, Points(S, m)
    PROVE  LET after == Give(books, cell, m)
           IN  /\ Wrote(S, books, after, cell, Read(books, m))
               /\ Solvent(books) /\ Read(books, m) >= 0 => Solvent(after)
<1> DEFINE c == Read(books, cell)
           x == Read(books, m)
<1>1. c \in Int /\ x \in Int  BY ReadIsInt DEF Live
<1>2. Solvent(books) => c >= 0
  BY DEF Live, Points, AmountType, AccountType, Read, Solvent
<1> HIDE DEF c, x
<1>3. c + x \in Int /\ (c + x) - c = x /\ (c >= 0 /\ x >= 0 => c + x >= 0)  BY <1>1
<1>4. /\ Wrote(S, books, Assigned(books, cell, c + x), cell, (c + x) - Read(books, cell))
      /\ Solvent(books) /\ c + x >= 0 => Solvent(Assigned(books, cell, c + x))
  BY <1>3, CellWritten
<1> QED  BY <1>2, <1>3, <1>4 DEF Give, c, x

LEMMA Moved ==
    ASSUME NEW S, NEW books \in [S -> AccountType], NEW one, Live(S, one), NEW two, Live(S, two),
           NEW m, Points(S, m)
    PROVE  LET after == Give(Take(books, one, m), two, m)
           IN  /\ after \in [S -> AccountType]
               /\ Solvent(books) /\ Read(books, m) >= 0 /\ Read(books, one) >= Read(books, m)
                     => Solvent(after)
               /\ IsFiniteSet(S) /\ m # one => Total(after) = Total(books)
<1> DEFINE first == Take(books, one, m)
           after == Give(first, two, m)
<1>1. /\ Wrote(S, books, first, one, -Read(books, m))
      /\ Solvent(books) /\ Read(books, one) >= Read(books, m) => Solvent(first)
  BY Taken
<1>2. first \in [S -> AccountType]  BY <1>1 DEF Wrote
<1> HIDE DEF first
<1>3. /\ Wrote(S, first, after, two, Read(first, m))
      /\ Solvent(first) /\ Read(first, m) >= 0 => Solvent(after)
  BY <1>2, Given
<1> HIDE DEF after
<1>4. ASSUME Solvent(books), Read(books, m) >= 0, Read(books, one) >= Read(books, m)
      PROVE  Solvent(after)
  BY <1>1, <1>2, <1>3, <1>4, ReadIsNat
<1>5. ASSUME IsFiniteSet(S), m # one PROVE Total(after) = Total(books)
  <2>1. Read(first, m) = Read(books, m)  BY <1>1, <1>5 DEF Wrote
  <2>2. Read(books, m) \in Int /\ Total(books) \in Int  BY <1>5, ReadIsInt, TotalIsInt
  <2>3. Total(first) = Total(books) + (-Read(books, m))  BY <1>1, <1>5 DEF Wrote
  <2>4. Total(after) = Total(first) + Read(first, m)  BY <1>3, <1>5 DEF Wrote
  <2> QED  BY <2>1, <2>2, <2>3, <2>4
<1> QED  BY <1>3, <1>4, <1>5 DEF first, after, Wrote

-----------------------------------------------------------------------------
(* Writing.  What a call leaves of the books, seen from outside. *)

\* Enough for the invariant and for the sum: nobody is closed, unless an update
\* is lost nobody owes anything, and the supply follows what is held.
Balanced ==
    /\ DOMAIN accounts \subseteq DOMAIN accounts'
    /\ DOMAIN accounts' \subseteq Addresses
    /\ accounts' \in [DOMAIN accounts' -> AccountType]
    /\ totalSupply' \in Int
    /\ ~lost => Solvent(accounts')
    /\ IsFiniteSet(DOMAIN accounts) => IsFiniteSet(DOMAIN accounts')
    /\ IsFiniteSet(DOMAIN accounts) /\ ~aliased'
          => Total(accounts') - Total(accounts) = totalSupply' - totalSupply

\* What the call that holds the mutex knows.
LEMMA HolderKnows ==
    ASSUME IInv, holder # None
    PROVE  /\ DOMAIN accounts \subseteq Addresses /\ accounts \in [DOMAIN accounts -> AccountType]
           /\ totalSupply \in Int
           /\ holder \in CallType /\ Points(DOMAIN accounts, holder.amount)
           /\ Read(accounts, holder.amount) \in Int
           /\ holder.method # "MintTokens" => holder.from \in DOMAIN accounts
           /\ ~lost => Covered(accounts, holder) /\ Solvent(accounts)
  BY ReadIsInt DEF IInv, Books, Checked, NoOverdraft, Solvent

\* Transfers, stakings and their ends: two writes, the first one checked.
LEMMA MovedBalances ==
    ASSUME IInv, holder # None,
           NEW one, Live(DOMAIN accounts, one), NEW two, Live(DOMAIN accounts, two),
           ~lost => Read(accounts, holder.amount) >= 0
                    /\ Read(accounts, one) >= Read(accounts, holder.amount),
           NEW moved, moved = Give(Take(accounts, one, holder.amount), two, holder.amount),
           accounts' = moved
              \/ \E a \in DOMAIN accounts : accounts' = [moved EXCEPT ![a].staking = TRUE],
           totalSupply' = totalSupply,
           WritesFirst(one)
    PROVE  Balanced
<1> DEFINE S == DOMAIN accounts
<1>1. /\ S \subseteq Addresses /\ accounts \in [S -> AccountType]
      /\ Points(S, holder.amount) /\ totalSupply \in Int
      /\ ~lost => Solvent(accounts)
  BY HolderKnows
<1>2. ~aliased' => holder.amount # one  BY DEF WritesFirst
<1>3. Live(S, one) /\ Live(S, two)  OBVIOUS
<1> HIDE DEF S
<1>4. /\ moved \in [S -> AccountType]
      /\ Solvent(accounts) /\ Read(accounts, holder.amount) >= 0
            /\ Read(accounts, one) >= Read(accounts, holder.amount) => Solvent(moved)
      /\ IsFiniteSet(S) /\ holder.amount # one => Total(moved) = Total(accounts)
  BY <1>1, <1>3, Moved
<1>5. /\ accounts' \in [S -> AccountType]
      /\ Solvent(moved) => Solvent(accounts')
      /\ Total(accounts') = Total(moved)
  <2>1. CASE accounts' = moved  BY <1>4, <2>1
  <2>2. ASSUME NEW a \in S, accounts' = [moved EXCEPT ![a].staking = TRUE]
        PROVE  /\ accounts' \in [S -> AccountType]
               /\ Solvent(moved) => Solvent(accounts')
               /\ Held(accounts') = Held(moved)
    BY <1>4, <2>2, StakingNoted
  <2> QED  BY <2>1, <2>2 DEF Total, S
<1>6. /\ accounts' \in [S -> AccountType]
      /\ Solvent(accounts) /\ Read(accounts, holder.amount) >= 0
            /\ Read(accounts, one) >= Read(accounts, holder.amount) => Solvent(accounts')
      /\ IsFiniteSet(S) /\ holder.amount # one => Total(accounts') = Total(accounts)
  BY <1>4, <1>5
<1>7. IsFiniteSet(S) => Total(accounts) \in Int  BY <1>1, TotalIsInt
<1>8. IsFiniteSet(S) /\ ~aliased' => Total(accounts') - Total(accounts) = totalSupply' - totalSupply
  BY <1>1, <1>2, <1>6, <1>7
<1> QED  BY <1>1, <1>6, <1>8 DEF Balanced, S

LEMMA TransferBalances == ASSUME IInv, Transferred PROVE Balanced
<1> DEFINE S == DOMAIN accounts
           one == BalanceOf(holder.from)
           two == BalanceOf(holder.to)
<1>1. /\ S \subseteq Addresses
      /\ holder # None /\ holder.from \in S /\ holder.to \in S
      /\ ~lost => Read(accounts, holder.amount) >= 0
                  /\ accounts[holder.from].balance >= Read(accounts, holder.amount)
  BY HolderKnows DEF Transferred, Covered
<1>2. Live(S, one) /\ Live(S, two) /\ Read(accounts, one) = accounts[holder.from].balance
  BY <1>1, LiveCells
<1>3. accounts' = Give(Take(accounts, one, holder.amount), two, holder.amount)
  <2> DEFINE debited == [accounts EXCEPT ![holder.from].balance = @ - Read(accounts, holder.amount)]
  <2>1. accounts' = [debited EXCEPT ![holder.to].balance = @ + Read(debited, holder.amount)]
    BY DEF Transferred
  <2>2. Take(accounts, one, holder.amount) = debited  BY TakenAndGiven
  <2> HIDE DEF debited
  <2>3. Give(debited, two, holder.amount)
           = [debited EXCEPT ![holder.to].balance = @ + Read(debited, holder.amount)]
    BY TakenAndGiven
  <2> QED  BY <2>1, <2>2, <2>3, Zenon
<1> QED  BY <1>1, <1>2, <1>3, MovedBalances DEF Transferred

LEMMA UnstakeBalances == ASSUME IInv, Unstaked PROVE Balanced
<1> DEFINE S == DOMAIN accounts
           one == StakeOf(holder.from)
           two == BalanceOf(holder.from)
<1>1. /\ S \subseteq Addresses
      /\ holder # None /\ holder.from \in S
      /\ ~lost => Read(accounts, holder.amount) >= 0
                  /\ accounts[holder.from].stake >= Read(accounts, holder.amount)
  BY HolderKnows DEF Unstaked, Covered
<1>2. Live(S, one) /\ Live(S, two) /\ Read(accounts, one) = accounts[holder.from].stake
  BY <1>1, LiveCells
<1>3. accounts' = Give(Take(accounts, one, holder.amount), two, holder.amount)
  <2> DEFINE released == [accounts EXCEPT ![holder.from].stake = @ - Read(accounts, holder.amount)]
  <2>1. accounts' = [released EXCEPT ![holder.from].balance = @ + Read(released, holder.amount)]
    BY DEF Unstaked
  <2>2. Take(accounts, one, holder.amount) = released  BY TakenAndGiven
  <2> HIDE DEF released
  <2>3. Give(released, two, holder.amount)
           = [released EXCEPT ![holder.from].balance = @ + Read(released, holder.amount)]
    BY TakenAndGiven
  <2> QED  BY <2>1, <2>2, <2>3, Zenon
<1> QED  BY <1>1, <1>2, <1>3, MovedBalances DEF Unstaked

LEMMA StakeBalances == ASSUME IInv, Staked PROVE Balanced
<1> DEFINE S == DOMAIN accounts
           one == BalanceOf(holder.from)
           two == StakeOf(holder.from)
           debited == [accounts EXCEPT ![holder.from].balance = @ - Read(accounts, holder.amount)]
           moved == [debited EXCEPT ![holder.from].stake = @ + Read(debited, holder.amount)]
<1>1. /\ S \subseteq Addresses
      /\ holder # None /\ holder.from \in S
      /\ ~lost => Read(accounts, holder.amount) >= 0
                  /\ accounts[holder.from].balance >= Read(accounts, holder.amount)
  BY HolderKnows DEF Staked, Covered
<1>2. Live(S, one) /\ Live(S, two) /\ Read(accounts, one) = accounts[holder.from].balance
  BY <1>1, LiveCells
<1>3. moved = Give(Take(accounts, one, holder.amount), two, holder.amount)
  <2>1. Take(accounts, one, holder.amount) = debited  BY TakenAndGiven
  <2> HIDE DEF debited
  <2>2. Give(debited, two, holder.amount) = moved  BY TakenAndGiven
  <2> QED  BY <2>1, <2>2, Zenon
<1>4. accounts' = [moved EXCEPT ![holder.from].staking = TRUE]
  BY Zenon DEF Staked
<1>5. totalSupply' = totalSupply /\ WritesFirst(one)  BY DEF Staked
<1> HIDE DEF moved, one, two
<1> QED  BY <1>1, <1>2, <1>3, <1>4, <1>5, MovedBalances

LEMMA MintBalances == ASSUME IInv, Minted PROVE Balanced
<1> DEFINE to == holder.to
           m == holder.amount
           S == DOMAIN accounts \cup {to}
           opened == Opened(to, FALSE)
<1>1. /\ Books /\ to \in Addresses /\ Points(DOMAIN accounts, m)
      /\ Read(accounts, m) \in Int /\ totalSupply \in Int
      /\ ~lost => Read(accounts, m) >= 0 /\ Solvent(accounts)
  BY HolderKnows DEF Minted, Covered, CallType, IInv
<1>2. /\ accounts' = [opened EXCEPT ![to].balance = @ + Read(accounts, m)]
      /\ totalSupply' = totalSupply + Read(accounts', m)
      /\ ~aliased' => m # BalanceOf(to)
  BY DEF Minted, WritesFirst
<1> HIDE DEF to, m
<1>3. /\ opened \in [S -> AccountType]
      /\ Solvent(accounts) => Solvent(opened)
      /\ Points(S, m) /\ Read(opened, m) = Read(accounts, m)
  BY <1>1, OpenedAccounts
<1>4. IsFiniteSet(DOMAIN accounts) => Total(opened) = Total(accounts) /\ IsFiniteSet(S)
  BY <1>1, TotalOfOpened
<1>5. S \subseteq Addresses /\ to \in S /\ DOMAIN accounts \subseteq S  BY <1>1 DEF Books
<1> HIDE DEF S, opened
<1>6. accounts' = Give(opened, BalanceOf(to), m)
  <2>1. Give(opened, BalanceOf(to), m) = [opened EXCEPT ![to].balance = @ + Read(opened, m)]
    BY TakenAndGiven
  <2> QED  BY <1>2, <1>3, <2>1, Zenon
<1>7. Live(S, BalanceOf(to))  BY <1>5, LiveCells
<1>8. /\ Wrote(S, opened, accounts', BalanceOf(to), Read(opened, m))
      /\ Solvent(opened) /\ Read(opened, m) >= 0 => Solvent(accounts')
  BY <1>3, <1>6, <1>7, Given
<1>9. accounts' \in [S -> AccountType] /\ Read(accounts', m) \in Int
  BY <1>3, <1>8, ReadIsInt DEF Wrote
<1>10. ASSUME IsFiniteSet(DOMAIN accounts), ~aliased'
       PROVE  Total(accounts') - Total(accounts) = totalSupply' - totalSupply
  <2>1. Read(accounts', m) = Read(accounts, m)  BY <1>2, <1>3, <1>8, <1>10 DEF Wrote
  <2>2. Total(accounts') = Total(accounts) + Read(accounts, m)  BY <1>3, <1>4, <1>8, <1>10 DEF Wrote
  <2>3. Total(accounts) \in Int  BY <1>1, <1>10, TotalIsInt DEF Books
  <2> QED  BY <1>1, <1>2, <2>1, <2>2, <2>3
<1> QED  BY <1>1, <1>2, <1>3, <1>4, <1>5, <1>8, <1>9, <1>10 DEF Balanced

LEMMA BurnBalances == ASSUME IInv, Burned PROVE Balanced
<1> DEFINE a == holder.from
           m == holder.amount
           S == DOMAIN accounts
<1>1. /\ S \subseteq Addresses /\ accounts \in [S -> AccountType] /\ a \in S /\ Points(S, m)
      /\ Read(accounts, m) \in Int /\ totalSupply \in Int
      /\ ~lost => accounts[a].balance >= Read(accounts, m) /\ Solvent(accounts)
  BY HolderKnows DEF Burned, Covered
<1>2. /\ accounts' = [accounts EXCEPT ![a].balance = @ - Read(accounts, m)]
      /\ totalSupply' = totalSupply - Read(accounts', m)
      /\ ~aliased' => m # BalanceOf(a)
  BY DEF Burned, WritesFirst, SupplyAfterBurn
<1> HIDE DEF a, m, S
<1>3. accounts' = Take(accounts, BalanceOf(a), m)
  <2>1. Take(accounts, BalanceOf(a), m) = [accounts EXCEPT ![a].balance = @ - Read(accounts, m)]
    BY TakenAndGiven
  <2> QED  BY <1>2, <2>1, Zenon
<1>4. Live(S, BalanceOf(a)) /\ Read(accounts, BalanceOf(a)) = accounts[a].balance
  BY <1>1, LiveCells
<1>5. /\ Wrote(S, accounts, accounts', BalanceOf(a), -Read(accounts, m))
      /\ Solvent(accounts) /\ Read(accounts, BalanceOf(a)) >= Read(accounts, m) => Solvent(accounts')
  BY <1>1, <1>3, <1>4, Taken
<1>6. accounts' \in [S -> AccountType] /\ Read(accounts', m) \in Int
  BY <1>1, <1>5, ReadIsInt DEF Wrote
<1>7. ASSUME IsFiniteSet(S), ~aliased'
      PROVE  Total(accounts') - Total(accounts) = totalSupply' - totalSupply
  <2>1. Read(accounts', m) = Read(accounts, m)  BY <1>1, <1>2, <1>5, <1>7 DEF Wrote
  <2>2. Total(accounts') = Total(accounts) + (-Read(accounts, m))  BY <1>5, <1>7 DEF Wrote
  <2>3. Total(accounts) \in Int  BY <1>1, <1>7, TotalIsInt
  <2> QED  BY <1>1, <1>2, <2>1, <2>2, <2>3
<1> QED  BY <1>1, <1>2, <1>4, <1>5, <1>6, <1>7 DEF Balanced, S

\* There are finitely many accounts: only one at a time is opened.
Accounted == IsFiniteSet(DOMAIN accounts) /\ TokensAreAccounted

LEMMA AccountedInInt ==
    ASSUME IInv, Accounted
    PROVE  /\ totalSupply \in Int /\ feesTaken \in Int /\ Total(accounts) \in Int
           /\ Reserve(InitialSupply) \in Int
           /\ ~lost /\ ~aliased => totalSupply + feesTaken = Total(accounts) + Reserve(InitialSupply)
<1>1. Total(accounts) \in Int  BY TotalIsInt DEF IInv, Books, Accounted
<1> QED  BY <1>1, ReserveIsNat, AmountsAssumption
           DEF IInv, Books, Steps, Accounted, TokensAreAccounted, Total

LEMMA FinishKeeps == ASSUME IInv, Finish, UNCHANGED calls PROVE IInv'
<1>1. Balanced /\ Unlock /\ aliased' \in BOOLEAN
  BY TransferBalances, MintBalances, BurnBalances, StakeBalances, UnstakeBalances
  DEF Finish, Transferred, Minted, Burned, Staked, Unstaked, WritesFirst, IInv, Steps
<1>2. holder' = None /\ UNCHANGED <<initializing, fee, feesTaken, lost>>
  BY <1>1 DEF Unlock
<1>3. Books' /\ Checked' /\ Credited' /\ NoOverdraft'
  BY <1>1, <1>2 DEF IInv, Balanced, Books, Checked, Credited, NoOverdraft, Solvent
<1>4. Steps'
  BY <1>1, <1>2 DEF IInv, Steps
<1> QED  BY <1>3, <1>4 DEF IInv

LEMMA FinishAccounts == ASSUME IInv, Accounted, Finish PROVE Accounted'
<1> DEFINE sum == Total(accounts)
           newSum == Total(accounts')
           R == Reserve(InitialSupply)
<1>1. Balanced /\ UNCHANGED <<feesTaken, lost>> /\ (~aliased' => ~aliased)
  BY TransferBalances, MintBalances, BurnBalances, StakeBalances, UnstakeBalances
  DEF Finish, Transferred, Minted, Burned, Staked, Unstaked, Unlock, WritesFirst
<1>2. /\ IsFiniteSet(DOMAIN accounts')
      /\ ~aliased' => newSum - sum = totalSupply' - totalSupply
  BY <1>1 DEF Balanced, Accounted
<1>3. newSum \in Int /\ totalSupply' \in Int
  BY <1>1, <1>2, TotalIsInt DEF Balanced
<1>4. /\ totalSupply \in Int /\ feesTaken \in Int /\ sum \in Int /\ R \in Int
      /\ ~lost /\ ~aliased => totalSupply + feesTaken = sum + R
  BY AccountedInInt
<1> HIDE DEF sum, newSum, R
<1>5. ASSUME ~lost', ~aliased' PROVE totalSupply' + feesTaken' = newSum + R
  <2>1. ~lost /\ ~aliased  BY <1>1, <1>5
  <2>2. /\ feesTaken' = feesTaken
        /\ newSum - sum = totalSupply' - totalSupply
        /\ totalSupply + feesTaken = sum + R
    BY <1>1, <1>2, <1>4, <1>5, <2>1
  <2> DEFINE supply == totalSupply'
  <2>3. supply \in Int /\ newSum \in Int /\ newSum - sum = supply - totalSupply
    BY <1>3, <2>2
  <2>4. totalSupply \in Int /\ feesTaken \in Int /\ sum \in Int /\ R \in Int
    BY <1>4
  <2> HIDE DEF supply
  <2>5. supply + feesTaken = newSum + R  BY <2>2, <2>3, <2>4
  <2> QED  BY <2>2, <2>5, Zenon DEF supply
<1> QED  BY <1>2, <1>5 DEF Accounted, TokensAreAccounted, Total, newSum, R

-----------------------------------------------------------------------------
(* Calls and the initial ones of InitNativeToken *)

\* What a step that locks, or opens an account, leaves.
Steady ==
    /\ Books' /\ Checked' /\ NoOverdraft'
    /\ DOMAIN accounts \subseteq DOMAIN accounts'
    /\ UNCHANGED <<fee, feesTaken, lost>>
    /\ aliased' \in BOOLEAN
    /\ Accounted => Accounted'

LEMMA LockKeeps ==
    ASSUME IInv, NEW method \in Methods, NEW a \in Addresses, NEW b \in Addresses,
           NEW m, Points(DOMAIN accounts, m),
           Lock(method, a, b, m),
           method # "MintTokens" => a \in DOMAIN accounts,
           Covered(accounts, Call(method, a, b, m))
    PROVE  Steady
<1>1. holder' = Call(method, a, b, m) /\ UNCHANGED <<accounts, totalSupply, fee, feesTaken, lost, aliased>>
  BY DEF Lock
<1>2. Call(method, a, b, m) \in CallType
  BY DEF Call, CallType, Points, Methods
<1>3. Checked'
  BY <1>1, <1>2 DEF Checked, Call
<1>4. Accounted => Accounted'  BY <1>1 DEF Accounted, TokensAreAccounted
<1> QED  BY <1>1, <1>3, <1>4 DEF IInv, Books, Steps, NoOverdraft, Steady

LEMMA BurnKeeps ==
    ASSUME IInv, NEW a \in Addresses, NEW m, Points(DOMAIN accounts, m), BurnTokens(a, m)
    PROVE  Steady
<1> DEFINE S == DOMAIN accounts
           maxBurn == accounts[a].balance \div 100
           raised  == Read(accounts, m) <= maxBurn
           burnt   == IF raised /\ m.of = "caller" THEN Own(maxBurn) ELSE m
           books   == IF raised THEN Assigned(accounts, m, maxBurn) ELSE accounts
           call    == Call("BurnTokens", a, a, burnt)
<1>1. a \in S /\ S \subseteq Addresses /\ accounts \in [S -> AccountType] /\ Points(S, m)
  BY DEF BurnTokens, IInv, Books
<1>2. /\ accounts' = books
      /\ holder' = IF books[a].balance >= Read(books, burnt) THEN call ELSE None
      /\ aliased' = (aliased \/ books # accounts)
      /\ UNCHANGED <<totalSupply, fee, feesTaken, lost>>
  BY DEF BurnTokens
<1>3. maxBurn \in Int /\ (Solvent(accounts) => maxBurn >= 0)
  <2>1. accounts[a].balance \in Int  BY <1>1 DEF AccountType
  <2> QED  BY <1>1, <2>1 DEF Solvent
<1>4. Points(S, burnt)
  BY <1>1, <1>3, OwnAmount
<1> HIDE DEF maxBurn, raised
<1>5. books \in [S -> AccountType] /\ (Solvent(accounts) => Solvent(books))
  <2>1. CASE m.of # "caller"
    <3>1. Live(S, m)  BY <1>1, <2>1 DEF Live
    <3> HIDE DEF S
    <3> QED  BY <1>1, <1>3, <3>1, CellWritten DEF Wrote
  <2>2. CASE m.of = "caller"
    <3>1. Assigned(accounts, m, maxBurn) = accounts  BY <2>2 DEF Assigned
    <3> QED  BY <1>1, <3>1
  <2> QED  BY <2>1, <2>2
<1> HIDE DEF books, burnt
<1>6. call \in CallType /\ call.method = "BurnTokens" /\ call.from = a /\ call.amount = burnt
  BY <1>4 DEF Call, CallType, Points
<1>7. Checked'
  <2>1. CASE holder' = None  BY <2>1 DEF Checked
  <2>2. CASE holder' = call /\ books[a].balance >= Read(books, burnt)
    <3>1. Covered(books, call)  BY <1>6, <2>2 DEF Covered
    <3> HIDE DEF call
    <3> QED  BY <1>1, <1>2, <1>4, <1>5, <1>6, <2>2, <3>1 DEF Checked
  <2> QED  BY <1>2, <2>1, <2>2
<1>8. Books' /\ NoOverdraft'
  BY <1>1, <1>2, <1>5 DEF IInv, Books, NoOverdraft, Solvent
<1>9. aliased' \in BOOLEAN  BY <1>2 DEF IInv, Steps
<1>10. Accounted => Accounted'
  <2>1. DOMAIN accounts' = S  BY <1>2, <1>5
  <2>2. CASE books = accounts
    BY <1>2, <2>2 DEF Accounted, TokensAreAccounted
  <2>3. CASE aliased'
    BY <2>1, <2>3 DEF Accounted, TokensAreAccounted
  <2> QED  BY <1>2, <2>2, <2>3
<1> QED  BY <1>1, <1>2, <1>5, <1>7, <1>8, <1>9, <1>10 DEF Steady

LEMMA OpeningKeeps ==
    ASSUME IInv, NEW a \in Addresses, holder = None, holder' = None, accounts' = Opened(a, TRUE)
    PROVE  /\ UNCHANGED <<totalSupply, lost>> => Books' /\ Checked' /\ NoOverdraft'
           /\ DOMAIN accounts' = DOMAIN accounts \cup {a}
           /\ UNCHANGED <<totalSupply, feesTaken, lost, aliased>> /\ Accounted => Accounted'
<1> DEFINE S == DOMAIN accounts
<1>1. accounts' \in [S \cup {a} -> AccountType] /\ (Solvent(accounts) => Solvent(accounts'))
  BY OpenedAccounts DEF IInv
<1>2. DOMAIN accounts' = S \cup {a}
  BY <1>1
<1>3. ASSUME UNCHANGED <<totalSupply, lost>> PROVE Books' /\ Checked' /\ NoOverdraft'
  BY <1>1, <1>2, <1>3 DEF IInv, Books, Checked, NoOverdraft, Solvent
<1>4. ASSUME UNCHANGED <<totalSupply, feesTaken, lost, aliased>>, Accounted PROVE Accounted'
  <2>1. Total(accounts') = Total(accounts) /\ IsFiniteSet(S \cup {a})
    BY <1>4, TotalOfOpened DEF IInv, Accounted
  <2> QED  BY <1>2, <1>4, <2>1 DEF Accounted, TokensAreAccounted, Total
<1> QED  BY <1>2, <1>3, <1>4

LEMMA SteadyKeeps ==
    ASSUME IInv, Steady,
           initializing' \in {"burn", "mint", "account", "reserve", "done"}, calls' \in 0..MaxCalls
    PROVE  IInv'
  BY DEF IInv, Steady, Steps, Credited

LEMMA MethodKeeps ==
    ASSUME IInv, NEW a \in Addresses, NEW b \in Addresses, NEW m, Points(DOMAIN accounts, m),
           \/ TransferFunds(a, b, m) \/ MintTokens(a, m) \/ BurnTokens(a, m)
           \/ StakeTokens(a, m) \/ UnstakeTokens(a, m)
    PROVE  Steady
<1> DEFINE x == Read(accounts, m)
<1>1. CASE TransferFunds(a, b, m)
  <2>1. x > 0 /\ HasFunds(a, x) /\ Lock("TransferFunds", a, b, m)
    BY <1>1 DEF TransferFunds
  <2>2. a \in DOMAIN accounts /\ Covered(accounts, Call("TransferFunds", a, b, m))
    BY <2>1 DEF HasFunds, Covered, Call
  <2> QED  BY <2>1, <2>2, LockKeeps DEF Methods
<1>2. CASE MintTokens(a, m)
  <2>1. x > 0 /\ Lock("MintTokens", a, a, m)
    BY <1>2 DEF MintTokens
  <2>2. Covered(accounts, Call("MintTokens", a, a, m))
    BY <2>1 DEF Covered, Call
  <2> QED  BY <2>1, <2>2, LockKeeps DEF Methods
<1>3. CASE StakeTokens(a, m)
  <2>1. x > 0 /\ HasFunds(a, x) /\ Lock("StakeTokens", a, a, m)
    BY <1>3 DEF StakeTokens
  <2>2. a \in DOMAIN accounts /\ Covered(accounts, Call("StakeTokens", a, a, m))
    BY <2>1 DEF HasFunds, Covered, Call
  <2> QED  BY <2>1, <2>2, LockKeeps DEF Methods
<1>4. CASE UnstakeTokens(a, m)
  <2>1. x > 0 /\ HasStake(a, x) /\ Lock("UnstakeTokens", a, a, m)
    BY <1>4 DEF UnstakeTokens
  <2>2. a \in DOMAIN accounts /\ Covered(accounts, Call("UnstakeTokens", a, a, m))
    BY <2>1 DEF HasStake, Covered, Call
  <2> QED  BY <2>1, <2>2, LockKeeps DEF Methods
<1> QED  BY <1>1, <1>2, <1>3, <1>4, BurnKeeps

LEMMA RewardKeeps ==
    ASSUME IInv, NEW p \in Producers, NEW a \in Addresses, RewardBlockProducer(p, a)
    PROVE  /\ UNCHANGED initializing /\ calls' \in 0..MaxCalls => IInv'
           /\ Accounted => Accounted'
<1> DEFINE call == Call("MintTokens", a, a, Own(BlockReward))
<1>1. PICK fees \in Fees :
         fee' = [fee EXCEPT ![p] = [at |-> "read", validator |-> a, fees |-> fees, seen |-> 0]]
  BY DEF RewardBlockProducer
<1>2. /\ holder' = call
      /\ UNCHANGED <<accounts, totalSupply, feesTaken, lost, aliased>>
  BY DEF RewardBlockProducer
<1>3. fee' \in [Producers -> FeeType]
  BY <1>1, AmountsAssumption DEF IInv, Steps, FeeType
<1>4. call \in CallType /\ Points(DOMAIN accounts, call.amount) /\ call.method = "MintTokens"
  BY AmountsAssumption, OwnAmount DEF Call, CallType
<1>5. Covered(accounts, call)
  BY AmountsAssumption, OwnAmount DEF Call, Covered
<1> HIDE DEF call
<1>6. Checked'
  BY <1>2, <1>4, <1>5 DEF Checked
<1>7. Credited'
  BY <1>1, <1>2 DEF IInv, Steps, Credited
<1>8. Accounted => Accounted'
  BY <1>2 DEF Accounted, TokensAreAccounted
<1> QED  BY <1>2, <1>3, <1>6, <1>7, <1>8 DEF IInv, Books, Steps, NoOverdraft

LEMMA CreateKeeps ==
    ASSUME IInv, NEW a \in Addresses, CreateAccount(a)
    PROVE  Steady
<1>1. /\ holder = None /\ holder' = None /\ accounts' = Opened(a, TRUE)
      /\ UNCHANGED <<totalSupply, lost>> /\ UNCHANGED <<totalSupply, feesTaken, lost, aliased>>
      /\ UNCHANGED <<fee, feesTaken, lost>>
  BY DEF CreateAccount
<1>2. aliased' \in BOOLEAN  BY <1>1 DEF IInv, Steps
<1> QED  BY <1>1, <1>2, OpeningKeeps DEF Steady

LEMMA CallKeeps ==
    ASSUME IInv, NewCall
    PROVE  /\ UNCHANGED initializing /\ calls' \in 0..MaxCalls => IInv'
           /\ Accounted => Accounted'
<1>1. ASSUME Steady
      PROVE  /\ UNCHANGED initializing /\ calls' \in 0..MaxCalls => IInv'
             /\ Accounted => Accounted'
  <2>1. UNCHANGED initializing => initializing' \in {"burn", "mint", "account", "reserve", "done"}
    BY DEF IInv, Steps
  <2> QED  BY <1>1, <2>1, SteadyKeeps DEF Steady
<1>2. ASSUME NEW m \in AnyAmount PROVE Points(DOMAIN accounts, m)
  BY AnyAmountPoints DEF IInv
<1>3. CASE \E a, b \in Addresses, m \in AnyAmount :
              \/ TransferFunds(a, b, m) \/ MintTokens(a, m) \/ BurnTokens(a, m)
              \/ StakeTokens(a, m) \/ UnstakeTokens(a, m)
  <2>1. Steady  BY <1>2, <1>3, MethodKeeps
  <2> QED  BY <1>1, <2>1
<1>4. CASE \E a \in Addresses : CreateAccount(a)
  <2>1. Steady  BY <1>4, CreateKeeps
  <2> QED  BY <1>1, <2>1
<1>5. CASE \E p \in Producers, a \in Addresses : RewardBlockProducer(p, a)
  BY <1>5, RewardKeeps
<1> QED  BY <1>3, <1>4, <1>5 DEF NewCall

LEMMA InitNativeTokenKeeps ==
    ASSUME IInv, InitNativeToken
    PROVE  /\ UNCHANGED calls => IInv'
           /\ Accounted => Accounted'
<1>1. Genesis \in Addresses /\ ReservedFunds \in Addresses  BY AccountsAssumption
<1>2. initializing' \in {"burn", "mint", "account", "reserve", "done"}
  BY DEF InitNativeToken, BurnInitial, MintNew, OpenReserve, FillReserve, Continue
<1>3. Steady
  <2>1. CASE BurnInitial
    <3>1. Points(DOMAIN accounts, Own(totalSupply))  BY OwnAmount DEF IInv, Books
    <3>2. BurnTokens(Genesis, Own(totalSupply))  BY <2>1 DEF BurnInitial
    <3> QED  BY <1>1, <3>1, <3>2, BurnKeeps
  <2>2. CASE MintNew
    <3>1. /\ Points(DOMAIN accounts, Own(NewSupply))
          /\ Covered(accounts, Call("MintTokens", Genesis, Genesis, Own(NewSupply)))
      BY OwnAmount, AmountsAssumption DEF Covered, Call
    <3> QED  BY <1>1, <2>2, <3>1, LockKeeps DEF MintNew, Methods
  <2>3. CASE OpenReserve
    BY <1>1, <2>3, CreateKeeps DEF OpenReserve
  <2>4. CASE FillReserve
    <3>1. Reserve(NewSupply) \in Int  BY ReserveIsNat, AmountsAssumption
    <3>2. CASE TransferFunds(Genesis, ReservedFunds, Own(Reserve(NewSupply)))
      BY <1>1, <3>1, <3>2, OwnAmount, MethodKeeps
    <3>3. CASE UNCHANGED <<accounts, totalSupply, holder, fee, feesTaken, lost, aliased>>
      BY <3>3 DEF IInv, Books, Steps, Checked, NoOverdraft, Accounted, TokensAreAccounted, Steady
    <3> QED  BY <2>4, <3>2, <3>3 DEF FillReserve
  <2> QED  BY <2>1, <2>2, <2>3, <2>4 DEF InitNativeToken
<1>4. UNCHANGED calls => calls' \in 0..MaxCalls  BY DEF IInv, Steps
<1> QED  BY <1>2, <1>3, <1>4, SteadyKeeps DEF Steady

-----------------------------------------------------------------------------
(* The steps of DistributeFees *)

LEMMA WrittenIsInt ==
    ASSUME NEW seen \in Int, NEW current \in Int, NEW change \in Int,
           NEW overlaps \in BOOLEAN, NEW new \in Written(seen, current, change, overlaps)
    PROVE  new \in Int /\ (~overlaps => new = seen + change)
  BY DEF Written

LEMMA ReadBalanceKeeps ==
    ASSUME IInv, NEW p \in Producers, ReadBalance(p)
    PROVE  /\ UNCHANGED <<initializing, calls>> => IInv'
           /\ Accounted => Accounted'
<1> DEFINE a == fee[p].validator
<1>1. fee[p] \in FeeType /\ a \in Addresses
  BY DEF IInv, Steps, FeeType
<1>2. /\ holder = None /\ holder' = None /\ accounts' = Opened(a, TRUE)
      /\ UNCHANGED <<totalSupply, lost>> /\ UNCHANGED <<totalSupply, feesTaken, lost, aliased>>
      /\ fee' = [fee EXCEPT ![p].at = "credit", ![p].seen = accounts'[a].balance]
  BY DEF ReadBalance
<1>3. /\ Books' /\ Checked' /\ NoOverdraft' /\ DOMAIN accounts' = DOMAIN accounts \cup {a}
      /\ Accounted => Accounted'
  BY <1>1, <1>2, OpeningKeeps
<1>4. accounts'[a].balance \in Int
  BY <1>3 DEF Books, AccountType
<1>5. fee' \in [Producers -> FeeType]
  BY <1>2, <1>4 DEF IInv, Steps, FeeType
<1>6. Credited'
  BY <1>2, <1>3 DEF IInv, Steps, FeeType, Credited
<1> QED  BY <1>2, <1>3, <1>5, <1>6 DEF IInv, Steps

\* What a credit does to the books.
CreditFacts(p, new) ==
    LET S == DOMAIN accounts
        a == fee[p].validator
        share == ValidatorShare(fee[p].fees)
        overlaps == fee[p].seen # accounts[a].balance \/ HolderUses(a)
    IN  /\ a \in S /\ S \subseteq Addresses /\ accounts \in [S -> AccountType]
        /\ share \in Nat /\ new \in Int
        /\ lost' = (lost \/ overlaps)
        /\ ~overlaps => new = accounts[a].balance + share
        /\ Wrote(S, accounts, accounts', BalanceOf(a), new - accounts[a].balance)
        /\ accounts'[a].balance = new /\ accounts'[a].stake = accounts[a].stake
        /\ \A b \in S : b # a => accounts'[b] = accounts[b]
        /\ feesTaken' = feesTaken + share
        /\ fee' = [fee EXCEPT ![p].at = "reduce", ![p].seen = totalSupply]
        /\ UNCHANGED <<totalSupply, holder, aliased>>

LEMMA CreditIs == ASSUME IInv, NEW p \in Producers, Credit(p) PROVE \E new : CreditFacts(p, new)
<1> DEFINE S == DOMAIN accounts
           a == fee[p].validator
           share == ValidatorShare(fee[p].fees)
           overlaps == fee[p].seen # accounts[a].balance \/ HolderUses(a)
<1>1. fee[p] \in FeeType /\ share \in Nat /\ fee[p].seen \in Int
  BY ShareIsPart DEF IInv, Steps, FeeType
<1>2. a \in S
  BY DEF Credit, At, IInv, Credited
<1>3. S \subseteq Addresses /\ accounts \in [S -> AccountType] /\ accounts[a].balance \in Int
  BY <1>2 DEF IInv, Books, AccountType
<1>4. PICK new \in Written(fee[p].seen, accounts[a].balance, share, overlaps) :
         accounts' = [accounts EXCEPT ![a].balance = new]
  BY DEF Credit
<1>5. /\ lost' = (lost \/ overlaps)
      /\ feesTaken' = feesTaken + share
      /\ fee' = [fee EXCEPT ![p].at = "reduce", ![p].seen = totalSupply]
      /\ UNCHANGED <<totalSupply, holder, aliased>>
  BY DEF Credit
<1>6. overlaps \in BOOLEAN /\ (~overlaps => fee[p].seen = accounts[a].balance)
  BY DEF HolderUses
<1>7. new \in Int /\ (~overlaps => new = accounts[a].balance + share)
  <2> HIDE DEF overlaps
  <2>1. new \in Int /\ (~overlaps => new = fee[p].seen + share)
    BY <1>1, <1>3, <1>4, <1>6, WrittenIsInt
  <2> QED  BY <1>6, <2>1
<1>8. /\ Wrote(S, accounts, accounts', BalanceOf(a), new - accounts[a].balance)
      /\ accounts'[a].balance = new /\ accounts'[a].stake = accounts[a].stake
      /\ \A b \in S : b # a => accounts'[b] = accounts[b]
  <2> HIDE DEF S, a, share, overlaps
  <2>1. accounts \in [S -> AccountType] /\ new \in Int  BY <1>3, <1>7
  <2>2. LET after == [accounts EXCEPT ![a].balance = new]
        IN  /\ Wrote(S, accounts, after, BalanceOf(a), new - accounts[a].balance)
            /\ after[a].balance = new /\ after[a].stake = accounts[a].stake
            /\ \A b \in S : b # a => after[b] = accounts[b]
    BY <1>2, <2>1, BalanceWritten
  <2> QED  BY <1>4, <2>2, Zenon
<1> HIDE DEF share, overlaps
<1>9. CreditFacts(p, new)
  BY <1>1, <1>2, <1>3, <1>5, <1>7, <1>8 DEF CreditFacts, share, overlaps
<1> QED  BY <1>9

\* A credit that is not lost leaves the call that holds the mutex its amount and
\* the account it takes from.
LEMMA CreditSpares ==
    ASSUME IInv, NEW p \in Producers, NEW new, CreditFacts(p, new), holder # None, ~lost'
    PROVE  Covered(accounts', holder)
<1> DEFINE S == DOMAIN accounts
           a == fee[p].validator
<1>1. ~lost /\ ~HolderUses(a)  BY DEF CreditFacts
<1>2. /\ Points(S, holder.amount) /\ Covered(accounts, holder)
      /\ holder.method # "MintTokens" => holder.from \in S
  BY <1>1, HolderKnows
<1>3. holder.from # a /\ holder.amount # BalanceOf(a)
  BY <1>1 DEF HolderUses
<1>4. Read(accounts', holder.amount) = Read(accounts, holder.amount)
  BY <1>2, <1>3 DEF CreditFacts, Wrote
<1>5. holder.method # "MintTokens" => accounts'[holder.from] = accounts[holder.from]
  BY <1>2, <1>3 DEF CreditFacts
<1> QED  BY <1>2, <1>4, <1>5 DEF Covered

LEMMA CreditKeeps ==
    ASSUME IInv, NEW p \in Producers, NEW new, CreditFacts(p, new), UNCHANGED <<initializing, calls>>
    PROVE  IInv'
<1> DEFINE S == DOMAIN accounts
           a == fee[p].validator
<1>1. accounts' \in [S -> AccountType] /\ DOMAIN accounts' = S /\ S \subseteq Addresses
  BY DEF CreditFacts, Wrote
<1>2. Books'
  BY <1>1 DEF CreditFacts, IInv, Books
<1>3. ASSUME ~lost', NEW b \in S PROVE accounts'[b].balance >= 0 /\ accounts'[b].stake >= 0
  <2>1. accounts[b].balance >= 0 /\ accounts[b].stake >= 0
    BY <1>3 DEF CreditFacts, IInv, NoOverdraft
  <2>2. CASE b = a
    <3>1. /\ new = accounts[a].balance + ValidatorShare(fee[p].fees)
          /\ ValidatorShare(fee[p].fees) \in Nat /\ accounts[a].balance \in Int
          /\ accounts'[a].balance = new /\ accounts'[a].stake = accounts[a].stake
      BY <1>3 DEF CreditFacts, AccountType
    <3> QED  BY <2>1, <2>2, <3>1
  <2>3. CASE b # a
    BY <2>1, <2>3 DEF CreditFacts
  <2> QED  BY <2>2, <2>3
<1>4. NoOverdraft'
  BY <1>1, <1>3 DEF NoOverdraft
<1>5. Checked'
  <2>1. holder' = holder  BY DEF CreditFacts
  <2>2. SUFFICES ASSUME holder # None PROVE Checked'
    BY <2>1 DEF Checked
  <2>3. /\ holder \in CallType /\ Points(S, holder.amount)
        /\ holder.method # "MintTokens" => holder.from \in S
    BY <2>2 DEF IInv, Checked
  <2>4. ~lost' => Covered(accounts', holder)
    BY <2>2, CreditSpares
  <2> QED  BY <1>1, <2>1, <2>3, <2>4 DEF Checked
<1>6. Steps'
  <2>1. fee' \in [Producers -> FeeType]
    <3>1. fee' = [fee EXCEPT ![p].at = "reduce", ![p].seen = totalSupply]
      BY DEF CreditFacts
    <3>2. fee \in [Producers -> FeeType] /\ totalSupply \in Int
      BY DEF IInv, Books, Steps
    <3> QED  BY <3>1, <3>2 DEF FeeType
  <2>2. feesTaken' \in Nat
    BY DEF CreditFacts, IInv, Steps
  <2>3. lost' \in BOOLEAN /\ aliased' \in BOOLEAN
    BY DEF CreditFacts, IInv, Steps
  <2> QED  BY <2>1, <2>2, <2>3 DEF IInv, Steps
<1>7. Credited'
  BY <1>1 DEF CreditFacts, IInv, Steps, FeeType, Credited
<1> QED  BY <1>2, <1>4, <1>5, <1>6, <1>7 DEF IInv

LEMMA CreditAccounts ==
    ASSUME IInv, Accounted, NEW p \in Producers, NEW new, CreditFacts(p, new)
    PROVE  Accounted'
<1> DEFINE a == fee[p].validator
           share == ValidatorShare(fee[p].fees)
           current == accounts[a].balance
           sum == Total(accounts)
           newSum == Total(accounts')
           R == Reserve(InitialSupply)
<1>1. /\ totalSupply \in Int /\ feesTaken \in Int /\ sum \in Int /\ R \in Int
      /\ ~lost /\ ~aliased => totalSupply + feesTaken = sum + R
  BY AccountedInInt
<1>2. IsFiniteSet(DOMAIN accounts)  BY DEF Accounted
<1>3. /\ DOMAIN accounts' = DOMAIN accounts
      /\ newSum = sum + (new - current)
      /\ new \in Int /\ current \in Int /\ share \in Nat
  BY <1>2 DEF CreditFacts, Wrote, AccountType
<1>4. ASSUME ~lost', ~aliased' PROVE totalSupply' + feesTaken' = newSum + R
  <2>1. /\ ~lost /\ ~aliased
        /\ new = current + share
        /\ feesTaken' = feesTaken + share /\ totalSupply' = totalSupply
    BY <1>4 DEF CreditFacts
  <2> HIDE DEF sum, newSum, R, share, current
  <2>2. newSum = sum + share  BY <1>1, <1>3, <2>1
  <2>3. totalSupply + feesTaken = sum + R  BY <1>1, <2>1
  <2>4. totalSupply + (feesTaken + share) = newSum + R  BY <1>1, <1>3, <2>2, <2>3
  <2> QED  BY <2>1, <2>4, Zenon
<1> HIDE DEF sum, newSum, R
<1> QED  BY <1>2, <1>3, <1>4 DEF Accounted, TokensAreAccounted, Total, newSum, R

LEMMA ReduceKeeps ==
    ASSUME IInv, NEW p \in Producers, Reduce(p), UNCHANGED <<initializing, calls>>
    PROVE  IInv'
<1> DEFINE burnShare == fee[p].fees - ValidatorShare(fee[p].fees)
           overlaps == fee[p].seen # totalSupply \/ HolderWritesSupply
<1>1. /\ burnShare \in Nat /\ fee[p].seen \in Int /\ totalSupply \in Int
  BY ShareIsPart DEF IInv, Books, Steps, FeeType
<1>2. /\ totalSupply' \in Written(fee[p].seen, totalSupply, -burnShare, overlaps)
      /\ lost' = (lost \/ overlaps)
      /\ feesTaken' = feesTaken + burnShare
      /\ fee' = [fee EXCEPT ![p] = Idle("start")]
      /\ UNCHANGED <<accounts, holder, aliased>>
  BY DEF Reduce
<1>3. overlaps \in BOOLEAN
  BY DEF HolderWritesSupply
<1> HIDE DEF burnShare, overlaps
<1>4. totalSupply' \in Int
  <2>1. -burnShare \in Int
    BY <1>1
  <2> QED  BY <1>3, <1>1, <1>2, <2>1, WrittenIsInt
<1>5. Books'
  BY <1>2, <1>4 DEF IInv, Books
<1>6. Steps'
  <2>1. fee' \in [Producers -> FeeType]
    BY <1>2, AccountsAssumption DEF IInv, Steps, FeeType, Idle
  <2>2. feesTaken' \in Nat
    BY <1>1, <1>2 DEF IInv, Steps
  <2>3. lost' \in BOOLEAN
    BY <1>2 DEF IInv, Steps
  <2> QED  BY <1>2, <2>1, <2>2, <2>3 DEF IInv, Steps
<1>7. ~lost' => ~lost
  BY <1>2
<1>8. Checked' /\ NoOverdraft'
  BY <1>2, <1>7 DEF IInv, Checked, NoOverdraft
<1>9. Credited'
  BY <1>2 DEF IInv, Steps, Credited, Idle
<1> QED  BY <1>5, <1>6, <1>8, <1>9 DEF IInv

LEMMA ReduceAccounts == ASSUME IInv, Accounted, NEW p \in Producers, Reduce(p) PROVE Accounted'
<1> DEFINE burnShare == fee[p].fees - ValidatorShare(fee[p].fees)
           overlaps == fee[p].seen # totalSupply \/ HolderWritesSupply
           sum == Total(accounts)
           R == Reserve(InitialSupply)
<1>1. burnShare \in Nat /\ -burnShare \in Int /\ fee[p].seen \in Int /\ totalSupply \in Int
  BY ShareIsPart DEF IInv, Books, Steps, FeeType
<1>2. /\ totalSupply' \in Written(fee[p].seen, totalSupply, -burnShare, overlaps)
      /\ lost' = (lost \/ overlaps)
      /\ feesTaken' = feesTaken + burnShare
      /\ UNCHANGED <<accounts, aliased>>
  BY DEF Reduce
<1>3. overlaps \in BOOLEAN /\ (~overlaps => fee[p].seen = totalSupply)
  BY DEF HolderWritesSupply
<1>4. IsFiniteSet(DOMAIN accounts) /\ (~lost /\ ~aliased => totalSupply + feesTaken = sum + R)
  BY DEF Accounted, TokensAreAccounted, Total
<1>5. sum \in Int /\ R \in Int /\ feesTaken \in Int
  <2>1. sum \in Int  BY <1>4, TotalIsInt DEF IInv, Books
  <2> QED  BY <2>1, ReserveIsNat, AmountsAssumption DEF IInv, Steps
<1> HIDE DEF burnShare, overlaps, R
<1>6. totalSupply' \in Int /\ (~overlaps => totalSupply' = fee[p].seen + (-burnShare))
  BY <1>1, <1>2, <1>3, WrittenIsInt
<1>7. ASSUME ~lost', ~aliased' PROVE totalSupply' + feesTaken' = sum + R
  <2>1. ~lost /\ ~aliased /\ ~overlaps  BY <1>2, <1>7
  <2>2. totalSupply' = totalSupply - burnShare  BY <1>1, <1>3, <1>6, <2>1
  <2> HIDE DEF sum
  <2> QED  BY <1>1, <1>2, <1>4, <1>5, <2>1, <2>2
<1>8. Total(accounts') = sum  BY <1>2
<1> HIDE DEF sum
<1> QED  BY <1>2, <1>4, <1>7, <1>8 DEF Accounted, TokensAreAccounted, Total, R

LEMMA InitAccounts == ASSUME Init PROVE Accounted
<1> DEFINE f == Held(accounts)
           R == Reserve(InitialSupply)
<1>1. /\ accounts = [a \in {Genesis} |-> [balance |-> InitialSupply - R, stake |-> 0, staking |-> FALSE]]
      /\ totalSupply = InitialSupply /\ feesTaken = 0
  BY DEF Init
<1>2. R \in Int /\ InitialSupply \in Int  BY ReserveIsNat, AmountsAssumption
<1>3. IsFiniteSet({Genesis})  BY FS_Singleton
<1>4. DOMAIN f = {Genesis} /\ f[Genesis] = InitialSupply - R  BY <1>1, <1>2 DEF Held
<1>5. DOMAIN accounts = {Genesis}  BY <1>1
<1> HIDE DEF f, R
<1>6. SumFunctionOnSet(f, {Genesis}) = f[Genesis] + SumFunctionOnSet(f, {Genesis} \ {Genesis})
  <2>1. \A a \in {Genesis} : f[a] \in Int  BY <1>2, <1>4
  <2> QED  BY <1>3, <2>1, SumTakesOut
<1>7. SumFunctionOnSet(f, {Genesis}) = InitialSupply - R
  <2>1. {Genesis} \ {Genesis} = {}  OBVIOUS
  <2> QED  BY <1>2, <1>4, <1>6, <2>1, EmptySum
<1> QED  BY <1>1, <1>2, <1>3, <1>4, <1>5, <1>7 DEF Accounted, TokensAreAccounted, SumFunction, f, R

-----------------------------------------------------------------------------
(* The theorems *)

LEMMA InitEstablishes == ASSUME Init PROVE IInv
<1>1. Reserve(InitialSupply) \in Nat /\ Reserve(InitialSupply) <= InitialSupply
  BY ReserveIsNat, AmountsAssumption
<1>2. /\ DOMAIN accounts = {Genesis}
      /\ accounts \in [{Genesis} -> AccountType]
      /\ accounts[Genesis].balance >= 0 /\ accounts[Genesis].stake >= 0
  BY <1>1, AmountsAssumption DEF Init, AccountType
<1>3. Books /\ NoOverdraft
  BY <1>2, AccountsAssumption, AmountsAssumption DEF Init, Books, NoOverdraft
<1>4. fee \in [Producers -> FeeType]
  BY AccountsAssumption DEF Init, Idle, FeeType
<1>5. Steps
  <2>1. calls \in 0..MaxCalls /\ feesTaken \in Nat
    BY AmountsAssumption DEF Init
  <2>2. lost \in BOOLEAN /\ aliased \in BOOLEAN
    BY DEF Init
  <2>3. initializing \in {"burn", "mint", "account", "reserve", "done"}
    BY DEF Init
  <2> QED  BY <1>4, <2>1, <2>2, <2>3 DEF Steps
<1>6. Checked /\ Credited
  BY DEF Init, Checked, Credited, Idle
<1> QED  BY <1>3, <1>5, <1>6 DEF IInv

LEMMA StepKeeps ==
    ASSUME IInv, [Next]_vars
    PROVE  IInv' /\ (Accounted => Accounted')
<1>1. CASE Finish /\ UNCHANGED calls
  BY <1>1, FinishKeeps, FinishAccounts
<1>2. CASE InitNativeToken /\ UNCHANGED calls
  BY <1>2, InitNativeTokenKeeps
<1>3. ASSUME NEW p \in Producers, ReadBalance(p) \/ Credit(p) \/ Reduce(p),
             UNCHANGED <<initializing, calls>>
      PROVE  IInv' /\ (Accounted => Accounted')
  <2>1. CASE Credit(p)
    <3>1. PICK new : CreditFacts(p, new)  BY <2>1, CreditIs
    <3> QED  BY <1>3, <3>1, CreditKeeps, CreditAccounts
  <2> QED  BY <1>3, <2>1, ReadBalanceKeeps, ReduceKeeps, ReduceAccounts
<1>4. ASSUME calls < MaxCalls, calls' = calls + 1, NewCall, UNCHANGED initializing
      PROVE  IInv' /\ (Accounted => Accounted')
  <2>1. calls' \in 0..MaxCalls
    BY <1>4, AmountsAssumption DEF IInv, Steps
  <2> QED  BY <1>4, <2>1, CallKeeps
<1>5. CASE UNCHANGED vars
  BY <1>5 DEF vars, IInv, Books, Steps, Checked, Credited, NoOverdraft,
              Accounted, TokensAreAccounted
<1> QED  BY <1>1, <1>2, <1>3, <1>4, <1>5 DEF Next, DistributeFees

LEMMA TypeFromInvariant == ASSUME IInv PROVE TypeOK
<1>1. holder \in CallType \cup {None}
  BY DEF IInv, Checked
<1>2. holder # None /\ holder.method # "MintTokens" => holder.from \in DOMAIN accounts
  BY DEF IInv, Checked
<1> QED  BY <1>1, <1>2 DEF IInv, Books, Steps, TypeOK, AccountType, FeeType

LEMMA Invariance == Spec => []IInv
<1>1. Init => IInv
  BY InitEstablishes
<1>2. IInv /\ [Next]_vars => IInv'
  BY StepKeeps
<1> QED  BY <1>1, <1>2, PTL DEF Spec

\* Accounts, calls, amounts and distributions keep their types, and the account
\* that a call takes from is there when it writes.
THEOREM TypeCorrect == Spec => []TypeOK
<1>1. IInv => TypeOK
  BY TypeFromInvariant
<1> QED  BY <1>1, Invariance, PTL

\* However calls (currency.go 286-428, 520-593) and distributions of fees
\* (currency.go 444-463) interleave, and whatever live balances and stakes are
\* passed as amounts, no balance and no stake goes below zero unless the update
\* of a distribution has overlapped another one.
THEOREM NobodyIsOverdrawn == Spec => []NoOverdraft
<1>1. IInv => NoOverdraft
  BY DEF IInv
<1> QED  BY <1>1, Invariance, PTL

\* The supply is what the accounts hold and what NewCurrencyManager sets aside
\* (currency.go 198-204), but for the fees that nobody is charged for, as long
\* as no distribution of fees has overlapped another update and no method has
\* read its amount again after writing to it (currency.go 416-419, 583-584).
THEOREM TokensStayAccounted == Spec => []TokensAreAccounted
<1>1. Init => IInv /\ Accounted
  BY InitEstablishes, InitAccounts
<1>2. IInv /\ Accounted /\ [Next]_vars => Accounted'
  BY StepKeeps
<1>3. Accounted => TokensAreAccounted
  BY DEF Accounted
<1> QED  BY <1>1, <1>2, <1>3, Invariance, PTL DEF Spec
=============================================================================
