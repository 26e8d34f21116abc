----------------------------- MODULE FoldLemmas -----------------------------
(***************************************************************************)
(* What the folds of the community modules compute over a finite set: a    *)
(* sum of a function's values, and a sequence built element by element.    *)
(* The recursive function that a fold chooses exists (FoldExists), and     *)
(* what holds of it is shown on the smallest set where it would not hold   *)
(* (SmallestSet).                                                          *)
(***************************************************************************)
EXTENDS Integers, Functions, FiniteSetTheorems, WellFoundedInduction, TLAPS

\* Among subsets of a finite set there is one that contains no other.
LEMMA SmallestSet ==
    ASSUME NEW S, IsFiniteSet(S), NEW T \in SUBSET SUBSET S, T # {}
    PROVE  \E m \in T : \A u \in T : u \subseteq m => u = m
<1> DEFINE R == StrictSubsetOrdering(S)
           F == FiniteSubsetsOf(S)
<1>1. IsWellFoundedOn(R, F)  BY FS_StrictSubsetOrderingWellFounded
<1>2. T \subseteq F  BY FS_Subset DEF FiniteSubsetsOf
<1>3. \E m \in T : \A u \in T : ~(<<u, m>> \in R)
  <2> HIDE DEF R, F
  <2> QED  BY <1>1, <1>2, WFMin
<1> QED  BY <1>3, <1>2 DEF StrictSubsetOrdering

\* The subsets of S that are no larger than t.
UpTo(S, t) == {u \in SUBSET S : Cardinality(u) <= Cardinality(t)}

\* A fold of the elements of S, taken in the order of pick, into the set V.
IsFold(g, T, V, pick, base, step) ==
    /\ g \in [T -> V]
    /\ \A t \in T : g[t] = IF t = {} THEN base ELSE step[pick[t]][g[t \ {pick[t]}]]

\* A fold may be defined by recursion on the set that is left.
LEMMA FoldExists ==
    ASSUME NEW S, IsFiniteSet(S), NEW V, NEW base \in V,
           NEW step, \A x \in S, v \in V : step[x][v] \in V,
           NEW pick, \A t \in SUBSET S : t # {} => pick[t] \in t
    PROVE  \E g : IsFold(g, SUBSET S, V, pick, base, step)
<1> DEFINE Has(T) == \E g : IsFold(g, T, V, pick, base, step)
           Bad == {t \in SUBSET S : ~Has(UpTo(S, t))}
<1>1. \A t \in SUBSET S : IsFiniteSet(t) /\ Cardinality(t) \in Nat
  BY FS_Subset, FS_CardinalityType
<1>2. Bad = {}
  <2> SUFFICES ASSUME Bad # {} PROVE FALSE
    OBVIOUS
  <2>1. PICK m \in Bad : \A u \in Bad : u \subseteq m => u = m
    <3>1. Bad \in SUBSET SUBSET S  OBVIOUS
    <3> HIDE DEF Bad
    <3> QED  BY <3>1, SmallestSet
  <2>2. m \in SUBSET S /\ ~Has(UpTo(S, m))  BY <2>1
  <2>3. CASE m = {}
    <3>1. UpTo(S, m) = {{}}
      BY <1>1, <2>3, FS_EmptySet DEF UpTo
    <3>2. IsFold([t \in {{}} |-> base], {{}}, V, pick, base, step)  BY DEF IsFold
    <3> QED  BY <2>2, <3>1, <3>2
  <2>4. CASE m # {}
    <3>1. PICK x : x \in m  BY <2>4
    <3> DEFINE l == m \ {x}
               Small == UpTo(S, l)
               Large == UpTo(S, m)
    <3>2. l \in SUBSET S /\ Has(UpTo(S, l))
      <4>1. l \in SUBSET S /\ l \subseteq m /\ l # m  BY <2>2, <3>1
      <4> HIDE DEF Has
      <4> QED  BY <2>1, <4>1
    <3>3. PICK g : IsFold(g, Small, V, pick, base, step)  BY <3>2
    <3>4. Cardinality(l) = Cardinality(m) - 1  BY <1>1, <2>2, <3>1, FS_RemoveElement
    <3>5. Small \subseteq Large  BY <1>1, <2>2, <3>2, <3>4 DEF UpTo
    <3>6. \A t \in Large : t # {} => t \ {pick[t]} \in Small
      <4> SUFFICES ASSUME NEW t \in Large, t # {} PROVE t \ {pick[t]} \in Small
        OBVIOUS
      <4>1. t \in SUBSET S /\ Cardinality(t) <= Cardinality(m)  BY DEF UpTo
      <4>2. Cardinality(t \ {pick[t]}) = Cardinality(t) - 1
        BY <1>1, <4>1, FS_RemoveElement
      <4> QED  BY <1>1, <2>2, <3>4, <4>1, <4>2 DEF UpTo
    <3> DEFINE h == [t \in Large |-> IF t \in Small THEN g[t]
                                     ELSE step[pick[t]][g[t \ {pick[t]}]]]
    <3>7. {} \in Small  BY <1>1, <3>2, FS_EmptySet DEF UpTo
    <3>8. \A t \in Large : t # {} => pick[t] \in S  BY DEF UpTo
    <3> HIDE DEF Small, Large
    <3>9. h \in [Large -> V]
      <4> SUFFICES ASSUME NEW t \in Large PROVE h[t] \in V
        OBVIOUS
      <4>1. CASE t \in Small  BY <3>3, <4>1 DEF IsFold
      <4>2. CASE t \notin Small
        <5>1. pick[t] \in S /\ g[t \ {pick[t]}] \in V
          BY <3>3, <3>6, <3>7, <3>8, <4>2 DEF IsFold
        <5> HIDE DEF l
        <5> QED  BY <4>2, <5>1
      <4> QED  BY <4>1, <4>2
    <3>10. IsFold(h, Large, V, pick, base, step)
      <4> SUFFICES ASSUME NEW t \in Large
                   PROVE  h[t] = IF t = {} THEN base ELSE step[pick[t]][h[t \ {pick[t]}]]
        BY <3>9, Zenon DEF IsFold
      <4>1. t # {} => h[t \ {pick[t]}] = g[t \ {pick[t]}]  BY <3>5, <3>6
      <4>2. CASE t \in Small  BY <3>3, <4>1, <4>2 DEF IsFold
      <4>3. CASE t \notin Small  BY <3>7, <4>1, <4>3
      <4> QED  BY <4>2, <4>3
    <3> QED  BY <2>2, <3>9, <3>10 DEF Large
  <2> QED  BY <2>3, <2>4
<1>3. UpTo(S, S) = SUBSET S  BY FS_Subset, FS_CardinalityType DEF UpTo
<1>4. Has(UpTo(S, S))  BY <1>2
<1> QED  BY <1>3, <1>4

-----------------------------------------------------------------------------
(* Sums.                                                                   *)

First(t) == CHOOSE x \in t : TRUE

\* The recursion of SumFunctionOnSet.
Sums(g, f, S) == g = [t \in SUBSET S |-> IF t = {} THEN 0 ELSE f[First(t)] + g[t \ {First(t)}]]

LEMMA SumIs ==
    ASSUME NEW S, IsFiniteSet(S), NEW f, \A a \in S : f[a] \in Int
    PROVE  \E g : Sums(g, f, S) /\ SumFunctionOnSet(f, S) = g[S]
<1> DEFINE pick == [t \in SUBSET S |-> First(t)]
           step == [a \in S |-> [v \in Int |-> f[a] + v]]
           Z == Int
           zero == 0
<1>1. \A t \in SUBSET S : t # {} => pick[t] = First(t) /\ First(t) \in t  BY DEF First
<1>2. \A x \in S, v \in Z : step[x][v] \in Z  OBVIOUS
<1>3. PICK g : IsFold(g, SUBSET S, Z, pick, zero, step)
  <2>1. zero \in Z  OBVIOUS
  <2> HIDE DEF pick, step, Z, zero
  <2> QED  BY <1>1, <1>2, <2>1, FoldExists
<1>4. \A t \in SUBSET S : g[t] = IF t = {} THEN 0 ELSE f[First(t)] + g[t \ {First(t)}]
  <2> SUFFICES ASSUME NEW t \in SUBSET S, t # {}
               PROVE  g[t] = f[First(t)] + g[t \ {First(t)}]
    BY <1>3 DEF IsFold
  <2>1. g[t] = step[First(t)][g[t \ {First(t)}]]  BY <1>1, <1>3 DEF IsFold
  <2>2. First(t) \in S /\ g[t \ {First(t)}] \in Int  BY <1>1, <1>3 DEF IsFold
  <2> QED  BY <2>1, <2>2
<1>5. Sums(g, f, S)
  <2>1. g = [t \in SUBSET S |-> g[t]]  BY <1>3 DEF IsFold
  <2> QED  BY <1>4, <2>1, Zenon DEF Sums
<1> DEFINE chosen == CHOOSE h : Sums(h, f, S)
<1>6. Sums(chosen, f, S)  BY <1>5
<1>7. SumFunctionOnSet(f, S) = chosen[S]
  BY DEF SumFunctionOnSet, FoldFunctionOnSet, MapThenFoldSet, Sums, First
<1> QED  BY <1>6, <1>7

\* Sums of functions that agree.
LEMMA SumsAgree ==
    ASSUME NEW S, IsFiniteSet(S), NEW A, NEW B, S \subseteq A, S \subseteq B,
           NEW f, NEW k, \A a \in S : f[a] = k[a],
           NEW g, NEW h, Sums(g, f, A), Sums(h, k, B)
    PROVE  g[S] = h[S]
<1> DEFINE Bad == {t \in SUBSET S : g[t] # h[t]}
<1> SUFFICES ASSUME Bad # {} PROVE FALSE
  OBVIOUS
<1>1. PICK m \in Bad : \A u \in Bad : u \subseteq m => u = m
  <2>1. Bad \in SUBSET SUBSET S  OBVIOUS
  <2> HIDE DEF Bad
  <2> QED  BY <2>1, SmallestSet
<1> DEFINE u == m \ {First(m)}
<1>2. \A t \in SUBSET S :
         /\ g[t] = IF t = {} THEN 0 ELSE f[First(t)] + g[t \ {First(t)}]
         /\ h[t] = IF t = {} THEN 0 ELSE k[First(t)] + h[t \ {First(t)}]
  BY Zenon DEF Sums
<1>3. m # {}  BY <1>1, <1>2
<1>4. First(m) \in S /\ u \in SUBSET S /\ u \subseteq m /\ u # m  BY <1>1, <1>3 DEF First
<1>5. g[u] = h[u]  BY <1>1, <1>4
<1> QED  BY <1>1, <1>2, <1>3, <1>4, <1>5

LEMMA SameSum ==
    ASSUME NEW S, IsFiniteSet(S), NEW f, NEW k, \A a \in S : f[a] = k[a] /\ f[a] \in Int
    PROVE  SumFunctionOnSet(f, S) = SumFunctionOnSet(k, S)
<1>1. PICK g : Sums(g, f, S) /\ SumFunctionOnSet(f, S) = g[S]  BY SumIs
<1>2. PICK h : Sums(h, k, S) /\ SumFunctionOnSet(k, S) = h[S]  BY SumIs
<1> QED  BY <1>1, <1>2, SumsAgree

LEMMA EmptySum == ASSUME NEW f PROVE SumFunctionOnSet(f, {}) = 0
<1>1. PICK g : Sums(g, f, {}) /\ SumFunctionOnSet(f, {}) = g[{}]
  BY FS_EmptySet, SumIs
<1> QED  BY <1>1 DEF Sums

\* Whichever summand is taken out first, the sum is the same.
LEMMA SumTakesOut ==
    ASSUME NEW S, IsFiniteSet(S), NEW f, \A a \in S : f[a] \in Int
    PROVE  /\ SumFunctionOnSet(f, S) \in Int
           /\ \A a \in S : SumFunctionOnSet(f, S) = f[a] + SumFunctionOnSet(f, S \ {a})
<1>1. PICK g : Sums(g, f, S) /\ SumFunctionOnSet(f, S) = g[S]
  BY SumIs
<1>2. \A t \in SUBSET S : g[t] = IF t = {} THEN 0 ELSE f[First(t)] + g[t \ {First(t)}]
  BY <1>1, Zenon DEF Sums
<1> DEFINE Good(t) == g[t] \in Int /\ \A b \in t : g[t] = f[b] + g[t \ {b}]
           Bad == {t \in SUBSET S : ~Good(t)}
<1>3. Bad = {}
  <2> SUFFICES ASSUME Bad # {} PROVE FALSE
    OBVIOUS
  <2>1. PICK m \in Bad : \A u \in Bad : u \subseteq m => u = m
    <3>1. Bad \in SUBSET SUBSET S  OBVIOUS
    <3> HIDE DEF Bad
    <3> QED  BY <3>1, SmallestSet
  <2> DEFINE x == First(m)
  <2>2. m # {} /\ x \in m
    <3>1. g[{}] = 0  BY <1>2
    <3>2. {} \in SUBSET S /\ Good({})  BY <3>1
    <3>3. m # {}
      <4> HIDE DEF Good
      <4> QED  BY <2>1, <3>2
    <3> QED  BY <3>3 DEF First
  <2>3. \A b \in m : Good(m \ {b})  BY <2>1
  <2>4. g[m] = f[x] + g[m \ {x}]  BY <1>2, <2>1, <2>2
  <2>5. g[m] \in Int  BY <2>1, <2>2, <2>3, <2>4
  <2>6. ASSUME NEW b \in m, b # x PROVE g[m] = f[b] + g[m \ {b}]
    <3> DEFINE w == (m \ {x}) \ {b}
    <3>1. w = (m \ {b}) \ {x}  OBVIOUS
    <3>2. g[m \ {x}] = f[b] + g[w]  BY <2>2, <2>3, <2>6
    <3>3. g[m \ {b}] = f[x] + g[w]  BY <2>2, <2>3, <2>6, <3>1
    <3>4. g[w] \in Int
      <4>1. w \in SUBSET S /\ w \subseteq m /\ w # m  BY <2>1, <2>2
      <4>2. w \notin Bad  BY <2>1, <4>1
      <4> QED  BY <4>1, <4>2
    <3>5. f[x] \in Int /\ f[b] \in Int  BY <2>1, <2>2, <2>6
    <3> HIDE DEF w
    <3> QED  BY <2>4, <3>2, <3>3, <3>4, <3>5
  <2> QED  BY <2>1, <2>4, <2>5, <2>6
<1>4. Good(S)  BY <1>3
<1>5. ASSUME NEW a \in S PROVE SumFunctionOnSet(f, S \ {a}) = g[S \ {a}]
  <2>1. IsFiniteSet(S \ {a})  BY FS_RemoveElement
  <2>2. PICK h : Sums(h, f, S \ {a}) /\ SumFunctionOnSet(f, S \ {a}) = h[S \ {a}]
    BY <2>1, SumIs
  <2>3. h[S \ {a}] = g[S \ {a}]
    BY <1>1, <2>1, <2>2, SumsAgree
  <2> QED  BY <2>2, <2>3
<1> QED  BY <1>1, <1>4, <1>5

\* A sum changes by what one of its summands changes by.
LEMMA SumChangesBy ==
    ASSUME NEW S, IsFiniteSet(S), NEW f, NEW k, NEW a \in S,
           \A b \in S : f[b] \in Int, \A b \in S : k[b] \in Int,
           \A b \in S : b # a => f[b] = k[b]
    PROVE  SumFunctionOnSet(k, S) = SumFunctionOnSet(f, S) + k[a] - f[a]
<1> DEFINE r == S \ {a}
           sf == SumFunctionOnSet(f, S)
           sk == SumFunctionOnSet(k, S)
           rf == SumFunctionOnSet(f, r)
           rk == SumFunctionOnSet(k, r)
<1>1. IsFiniteSet(r)  BY FS_RemoveElement
<1>2. rf = rk  BY <1>1, SameSum
<1>3. sf = f[a] + rf  BY SumTakesOut
<1>4. sk = k[a] + rk  BY SumTakesOut
<1>5. rf \in Int
  <2>1. \A b \in r : f[b] \in Int  OBVIOUS
  <2> HIDE DEF r
  <2> QED  BY <1>1, <2>1, SumTakesOut
<1>6. f[a] \in Int /\ k[a] \in Int  OBVIOUS
<1> HIDE DEF sf, sk, rf, rk
<1>7. sk = sf + k[a] - f[a]  BY <1>2, <1>3, <1>4, <1>5, <1>6
<1> QED  BY <1>7 DEF sf, sk

LEMMA SumGrows ==
    ASSUME NEW S, IsFiniteSet(S), NEW a, a \notin S, NEW f, NEW k,
           \A b \in S : f[b] \in Int /\ k[b] = f[b], k[a] \in Int
    PROVE  SumFunctionOnSet(k, S \cup {a}) = SumFunctionOnSet(f, S) + k[a]
<1> DEFINE G == S \cup {a}
<1>1. IsFiniteSet(G)  BY FS_AddElement
<1>2. G \ {a} = S /\ a \in G  OBVIOUS
<1>3. \A b \in G : k[b] \in Int  OBVIOUS
<1> HIDE DEF G
<1>4. SumFunctionOnSet(k, G) = k[a] + SumFunctionOnSet(k, S)
  BY <1>1, <1>2, <1>3, SumTakesOut
<1>5. SumFunctionOnSet(k, S) = SumFunctionOnSet(f, S)  BY SameSum
<1>6. SumFunctionOnSet(f, S) \in Int  BY SumTakesOut
<1> QED  BY <1>4, <1>5, <1>6 DEF G

LEMMA SumOfZeros ==
    ASSUME NEW S, IsFiniteSet(S), NEW f, \A a \in S : f[a] = 0
    PROVE  SumFunctionOnSet(f, S) = 0
<1>1. PICK g : Sums(g, f, S) /\ SumFunctionOnSet(f, S) = g[S]  BY SumIs
<1>2. \A t \in SUBSET S : g[t] = IF t = {} THEN 0 ELSE f[First(t)] + g[t \ {First(t)}]
  BY <1>1, Zenon DEF Sums
<1> DEFINE Bad == {t \in SUBSET S : g[t] # 0}
<1> SUFFICES ASSUME Bad # {} PROVE FALSE
  BY <1>1
<1>3. PICK m \in Bad : \A u \in Bad : u \subseteq m => u = m
  <2>1. Bad \in SUBSET SUBSET S  OBVIOUS
  <2> HIDE DEF Bad
  <2> QED  BY <2>1, SmallestSet
<1>4. m # {} /\ First(m) \in m
  <2>1. m # {}  BY <1>2, <1>3
  <2> QED  BY <2>1 DEF First
<1>5. g[m \ {First(m)}] = 0  BY <1>3, <1>4
<1> QED  BY <1>2, <1>3, <1>4, <1>5
=============================================================================
