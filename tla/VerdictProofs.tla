---------------------------- MODULE VerdictProofs ----------------------------
(***************************************************************************)
(* Proofs about Verdicts: whatever the reports, plans and clusters that are *)
(* asked about, the answers keep what they promise.                        *)
(***************************************************************************)
EXTENDS Verdicts, FiniteSetTheorems, FunctionTheorems, NaturalsInduction, TLAPS

-----------------------------------------------------------------------------
(* Least and greatest elements. *)

\* Every non-empty set of naturals has a least element, which Min picks.
LEMMA MinIsLeast ==
  ASSUME NEW S \in SUBSET Nat, S # {}
  PROVE  Min(S) \in S /\ \A n \in S : Min(S) <= n
<1>1. \E x \in S : \A y \in S : ~(<<y, x>> \in OpToRel(<, Nat))
  BY NatLessThanWellFounded, WFMin, Zenon
<1>2. PICK x \in S : \A y \in S : ~(<<y, x>> \in OpToRel(<, Nat))
  BY <1>1
<1>3. \A y \in S : ~(y < x)
  BY <1>2 DEF OpToRel
<1>4. \A y \in S : x <= y
  BY <1>3
<1> QED
  BY <1>4 DEF Min

\* A finite, non-empty set of integers has a greatest element, which Max picks: one that
\* the fewest others exceed.
LEMMA MaxIsGreatest ==
  ASSUME NEW S \in SUBSET Int, IsFiniteSet(S), S # {}
  PROVE  Max(S) \in S /\ \A n \in S : n <= Max(S)
<1> DEFINE Above(x) == {y \in S : y > x}
           Counts == {Cardinality(Above(x)) : x \in S}
<1>1. \A x \in S : IsFiniteSet(Above(x)) /\ Cardinality(Above(x)) \in Nat
  BY FS_Subset, FS_CardinalityType
<1>2. Counts \in SUBSET Nat /\ Counts # {}
  BY <1>1
<1>3. Min(Counts) \in Counts /\ \A n \in Counts : Min(Counts) <= n
  <2> HIDE DEF Counts
  <2> QED
    BY <1>2, MinIsLeast
<1>4. PICK x \in S : Cardinality(Above(x)) = Min(Counts)
  BY <1>3
<1>5. \A y \in S : Cardinality(Above(x)) <= Cardinality(Above(y))
  BY <1>3, <1>4
<1>6. \A y \in S : y <= x
  <2> SUFFICES ASSUME NEW y \in S, y > x PROVE FALSE
    OBVIOUS
  <2>1. Above(y) \subseteq Above(x) /\ y \in Above(x) /\ y \notin Above(y)
    <3>1. \A z \in S : z > y => z > x
      OBVIOUS
    <3>2. y > x /\ ~(y > y)
      OBVIOUS
    <3> QED
      BY <3>1, <3>2
  <2> HIDE DEF Above
  <2>2. Cardinality(Above(y)) < Cardinality(Above(x))
    BY <1>1, <2>1, FS_Subset
  <2> QED
    BY <1>1, <1>5, <2>2
<1> QED
  BY <1>6 DEF Max

\* What stands in one sequence after another stands in one of them.
LEMMA ToSetOfBoth ==
  ASSUME NEW V, NEW s \in Seq(V), NEW t \in Seq(V)
  PROVE  ToSet(s \o t) = ToSet(s) \cup ToSet(t)
<1>1. ASSUME NEW n \in DOMAIN (s \o t) PROVE (s \o t)[n] \in ToSet(s) \cup ToSet(t)
  <2>1. CASE n <= Len(s)
    BY <2>1 DEF ToSet
  <2>2. CASE n > Len(s)
    <3>1. n - Len(s) \in DOMAIN t /\ (s \o t)[n] = t[n - Len(s)]
      BY <2>2
    <3> QED
      BY <3>1 DEF ToSet
  <2> QED
    BY <2>1, <2>2
<1>2. ASSUME NEW n \in DOMAIN s PROVE s[n] \in ToSet(s \o t)
  <2>1. n \in DOMAIN (s \o t) /\ (s \o t)[n] = s[n]
    OBVIOUS
  <2> QED
    BY <2>1 DEF ToSet
<1>3. ASSUME NEW n \in DOMAIN t PROVE t[n] \in ToSet(s \o t)
  <2>1. n + Len(s) \in DOMAIN (s \o t) /\ (s \o t)[n + Len(s)] = t[n]
    OBVIOUS
  <2> QED
    BY <2>1 DEF ToSet
<1> QED
  BY <1>1, <1>2, <1>3 DEF ToSet
-----------------------------------------------------------------------------
(* Induction and sums. *)

\* Induction, over a set in place of a predicate.
LEMMA Climb ==
  ASSUME NEW S, 0 \in S, \A n \in Nat : n \in S => n + 1 \in S
  PROVE  \A n \in Nat : n \in S
<1> SUFFICES ASSUME Nat \ S # {} PROVE FALSE
  OBVIOUS
<1>1. PICK n \in Nat \ S : \A m \in Nat \ S : n <= m
  BY MinIsLeast
<1>2. n # 0 /\ n - 1 \in Nat
  BY <1>1
<1>3. n - 1 \in S
  BY <1>1, <1>2
<1> QED
  BY <1>1, <1>2, <1>3

\* The function by which a sum over a set is defined: all of the sums over its parts.
SumsUp(g, f, S) ==
  g = [s \in SUBSET S |-> IF s = {} THEN 0 ELSE LET x == CHOOSE x \in s : TRUE IN f[x] + g[s \ {x}]]

\* A sum is what one such function, no matter which, says of the whole set.
LEMMA SumOf ==
  ASSUME NEW f, NEW S
  PROVE  SumFunctionOnSet(f, S) = (CHOOSE g : SumsUp(g, f, S))[S]
BY DEF SumFunctionOnSet, FoldFunctionOnSet, MapThenFoldSet, SumsUp

\* There is such a function: one that is right of parts up to a size can be made right
\* of the next size.
LEMMA SumExists ==
  ASSUME NEW S, IsFiniteSet(S), NEW f, \A x \in S : f[x] \in Nat
  PROVE  \E g \in [SUBSET S -> Nat] : SumsUp(g, f, S)
<1> DEFINE R(g, s) == IF s = {} THEN 0 ELSE f[CHOOSE x \in s : TRUE] + g[s \ {CHOOSE x \in s : TRUE}]
           Right(g, k) == \A s \in SUBSET S : Cardinality(s) <= k => g[s] = R(g, s)
           K == {k \in Nat : \E g \in [SUBSET S -> Nat] : Right(g, k)}
<1>0. \A s \in SUBSET S : IsFiniteSet(s) /\ Cardinality(s) \in Nat /\ Cardinality(s) <= Cardinality(S)
  BY FS_Subset, FS_CardinalityType
<1>c. \A s \in SUBSET S : s # {} => (CHOOSE x \in s : TRUE) \in s
  OBVIOUS
<1>g. \A g \in [SUBSET S -> Nat] : \A s \in SUBSET S : R(g, s) \in Nat
  <2> SUFFICES ASSUME NEW g \in [SUBSET S -> Nat], NEW s \in SUBSET S, s # {} PROVE R(g, s) \in Nat
    OBVIOUS
  <2> DEFINE x == CHOOSE x \in s : TRUE
  <2>1. x \in S /\ s \ {x} \in SUBSET S
    BY <1>c
  <2>2. f[x] \in Nat /\ g[s \ {x}] \in Nat
    BY <2>1
  <2> HIDE DEF x
  <2>3. f[x] + g[s \ {x}] \in Nat
    BY <2>2
  <2> QED
    BY <2>3 DEF x
<1>1. 0 \in K
  <2> DEFINE g == [s \in SUBSET S |-> 0]
  <2>1. Right(g, 0)
    BY <1>0, FS_EmptySet
  <2>2. g \in [SUBSET S -> Nat]
    OBVIOUS
  <2> QED
    BY <2>1, <2>2
<1>2. ASSUME NEW k \in Nat, k \in K PROVE k + 1 \in K
  <2>1. PICK g \in [SUBSET S -> Nat] : Right(g, k)
    BY <1>2
  <2> DEFINE h == [s \in SUBSET S |-> R(g, s)]
  <2>2. h \in [SUBSET S -> Nat]
    BY <1>g
  <2>3. ASSUME NEW s \in SUBSET S, Cardinality(s) <= k + 1 PROVE h[s] = R(h, s)
    <3>1. CASE s = {}
      BY <3>1
    <3>2. CASE s # {}
      <4> DEFINE x == CHOOSE x \in s : TRUE
      <4>1. x \in s /\ s \ {x} \in SUBSET S
        BY <3>2, <1>c
      <4> HIDE DEF x
      <4>2. Cardinality(s \ {x}) <= k
        BY <4>1, <1>0, <2>3, FS_RemoveElement
      <4>3. g[s \ {x}] = R(g, s \ {x})
        BY <4>1, <4>2, <2>1
      <4>4. h[s \ {x}] = g[s \ {x}]
        BY <4>1, <4>3
      <4> QED
        BY <3>2, <4>4 DEF x
    <3> QED
      BY <3>1, <3>2
  <2>4. Right(h, k + 1)
    BY <2>3
  <2> HIDE DEF h, Right
  <2> QED
    BY <2>2, <2>4
<1>3. \A k \in Nat : k \in K
  <2> HIDE DEF K
  <2> QED
    BY <1>1, <1>2, Climb
<1>4. PICK g \in [SUBSET S -> Nat] : Right(g, Cardinality(S))
  BY <1>3, FS_CardinalityType
<1>5. \A s \in SUBSET S : g[s] = R(g, s)
  BY <1>4, <1>0
<1>6. g = [s \in SUBSET S |-> R(g, s)]
  BY <1>5
<1> QED
  BY <1>6 DEF SumsUp

\* There is no other one, whatever larger set it is told of: a smallest part of which
\* two differ cannot be.
LEMMA SumsAreOne ==
  ASSUME NEW S, IsFiniteSet(S), NEW f, \A x \in S : f[x] \in Nat, NEW T \in SUBSET S,
         NEW g, SumsUp(g, f, S), NEW h, SumsUp(h, f, T)
  PROVE  \A s \in SUBSET T : g[s] = h[s]
<1> DEFINE Off == {s \in SUBSET T : g[s] # h[s]}
           Sizes == {Cardinality(s) : s \in Off}
<1> SUFFICES ASSUME Off # {} PROVE FALSE
  OBVIOUS
<1>0. \A s \in SUBSET T : IsFiniteSet(s) /\ Cardinality(s) \in Nat
  BY FS_Subset, FS_CardinalityType
<1>1. Sizes \in SUBSET Nat /\ Sizes # {}
  BY <1>0
<1>2. PICK s \in Off : \A t \in Off : Cardinality(s) <= Cardinality(t)
  <2>1. PICK n \in Sizes : \A m \in Sizes : n <= m
    <3> HIDE DEF Sizes
    <3> QED
      BY <1>1, MinIsLeast
  <2> QED
    BY <2>1
<1> DEFINE x == CHOOSE x \in s : TRUE
<1>3. s # {}
  BY DEF SumsUp
<1>4. x \in s /\ s \ {x} \in SUBSET T
  BY <1>3
<1>5. g[s] = f[x] + g[s \ {x}] /\ h[s] = f[x] + h[s \ {x}]
  BY <1>3 DEF SumsUp
<1> HIDE DEF x
<1>6. Cardinality(s \ {x}) < Cardinality(s)
  BY <1>0, <1>4, FS_RemoveElement
<1>7. s \ {x} \notin Off
  BY <1>0, <1>2, <1>4, <1>6
<1> QED
  BY <1>4, <1>5, <1>7

\* One function has the sums over all parts of a set.
SumsParts(g, f, S) ==
  /\ g \in [SUBSET S -> Nat] /\ SumsUp(g, f, S)
  /\ \A T \in SUBSET S : SumFunctionOnSet(f, T) = g[T]

LEMMA SumPart ==
  ASSUME NEW S, IsFiniteSet(S), NEW f, \A x \in S : f[x] \in Nat
  PROVE  \E g : SumsParts(g, f, S)
<1>1. PICK g \in [SUBSET S -> Nat] : SumsUp(g, f, S)
  BY SumExists
<1>2. ASSUME NEW T \in SUBSET S PROVE SumFunctionOnSet(f, T) = g[T]
  <2>1. SumsUp([s \in SUBSET T |-> g[s]], f, T)
    <3> DEFINE h == [s \in SUBSET T |-> g[s]]
    <3>1. ASSUME NEW s \in SUBSET T PROVE h[s] = IF s = {} THEN 0 ELSE f[CHOOSE x \in s : TRUE] + h[s \ {CHOOSE x \in s : TRUE}]
      BY <1>1 DEF SumsUp
    <3> HIDE DEF h
    <3>2. h = [s \in SUBSET T |-> h[s]]
      BY DEF h
    <3>3. h = [s \in SUBSET T |-> IF s = {} THEN 0 ELSE f[CHOOSE x \in s : TRUE] + h[s \ {CHOOSE x \in s : TRUE}]]
      BY <3>1, <3>2
    <3> QED
      BY <3>3 DEF SumsUp, h
  <2> DEFINE h == CHOOSE h : SumsUp(h, f, T)
  <2>2. SumsUp(h, f, T)
    BY <2>1
  <2> HIDE DEF h
  <2>3. g[T] = h[T]
    BY <1>1, <2>2, SumsAreOne
  <2> QED
    BY <2>3, SumOf DEF h
<1> QED
  BY <1>1, <1>2 DEF SumsParts

\* A sum is a natural number; each summand can be taken out first.
LEMMA SumStep ==
  ASSUME NEW S, IsFiniteSet(S), NEW f, \A x \in S : f[x] \in Nat
  PROVE  /\ SumFunctionOnSet(f, {}) = 0
         /\ SumFunctionOnSet(f, S) \in Nat
         /\ \A x \in S : SumFunctionOnSet(f, S) = f[x] + SumFunctionOnSet(f, S \ {x})
<1>0. PICK g : SumsParts(g, f, S)
  BY SumPart
<1>1. /\ g \in [SUBSET S -> Nat] /\ SumsUp(g, f, S)
      /\ \A T \in SUBSET S : SumFunctionOnSet(f, T) = g[T]
  BY <1>0 DEF SumsParts
<1> DEFINE Off == {s \in SUBSET S : \E x \in s : g[s] # f[x] + g[s \ {x}]}
           Sizes == {Cardinality(s) : s \in Off}
<1>2. Off = {}
  <2> SUFFICES ASSUME Off # {} PROVE FALSE
    OBVIOUS
  <2>0. \A s \in SUBSET S : IsFiniteSet(s) /\ Cardinality(s) \in Nat
    BY FS_Subset, FS_CardinalityType
  <2>1. Sizes \in SUBSET Nat /\ Sizes # {}
    BY <2>0
  <2>2. PICK s \in Off : \A t \in Off : Cardinality(s) <= Cardinality(t)
    <3>1. PICK n \in Sizes : \A m \in Sizes : n <= m
      <4> HIDE DEF Sizes
      <4> QED
        BY <2>1, MinIsLeast
    <3> QED
      BY <3>1
  <2>3. PICK y \in s : g[s] # f[y] + g[s \ {y}]
    BY <2>2
  <2> DEFINE x == CHOOSE x \in s : TRUE
  <2>4. x \in s /\ s \in SUBSET S
    BY <2>2, <2>3
  <2>5. g[s] = f[x] + g[s \ {x}]
    BY <1>1, <2>4 DEF SumsUp
  <2> HIDE DEF x
  <2>6. x # y
    BY <2>3, <2>5
  <2>7. Cardinality(s \ {x}) < Cardinality(s) /\ Cardinality(s \ {y}) < Cardinality(s)
    BY <2>0, <2>3, <2>4, FS_RemoveElement
  <2>a. \A t \in SUBSET S : t \notin Off => \A z \in t : g[t] = f[z] + g[t \ {z}]
    OBVIOUS
  <2>b. \A t \in Off : t \in SUBSET S
    OBVIOUS
  <2> HIDE DEF Off
  <2>8. s \ {x} \in SUBSET S /\ s \ {x} \notin Off /\ s \ {y} \in SUBSET S /\ s \ {y} \notin Off
    BY <2>0, <2>2, <2>4, <2>7
  <2>9. g[s \ {x}] = f[y] + g[(s \ {x}) \ {y}] /\ g[s \ {y}] = f[x] + g[(s \ {y}) \ {x}]
    BY <2>a, <2>3, <2>4, <2>6, <2>8
  <2>10. (s \ {x}) \ {y} = (s \ {y}) \ {x} /\ (s \ {x}) \ {y} \in SUBSET S
    BY <2>4
  <2>11. f[x] \in Nat /\ f[y] \in Nat /\ g[(s \ {x}) \ {y}] \in Nat
    BY <1>1, <2>3, <2>4, <2>10
  <2> DEFINE u == (s \ {x}) \ {y}
  <2>12. g[s \ {x}] = f[y] + g[u] /\ g[s \ {y}] = f[x] + g[u] /\ g[u] \in Nat
    BY <2>9, <2>10, <2>11
  <2> HIDE DEF u
  <2> QED
    BY <2>3, <2>5, <2>11, <2>12
<1>3. g[{}] = 0
  BY <1>1 DEF SumsUp
<1>4. \A x \in S : S \ {x} \in SUBSET S /\ g[S] = f[x] + g[S \ {x}]
  BY <1>2
<1> QED
  BY <1>1, <1>3, <1>4

\* What maps one to one to something no smaller adds up to no more.
LEMMA SumBound ==
  ASSUME NEW S, IsFiniteSet(S), NEW f, \A x \in S : f[x] \in Nat,
         NEW T, IsFiniteSet(T), NEW g, \A y \in T : g[y] \in Nat,
         NEW h \in [S -> T], \A x, y \in S : h[x] = h[y] => x = y,
         \A x \in S : f[x] <= g[h[x]]
  PROVE  SumFunctionOnSet(f, S) <= SumFunctionOnSet(g, T)
<1> DEFINE image(s) == {h[x] : x \in s}
           Off == {s \in SUBSET S : ~(\A t \in SUBSET T : image(s) \subseteq t => SumFunctionOnSet(f, s) <= SumFunctionOnSet(g, t))}
           Sizes == {Cardinality(s) : s \in Off}
<1>0. \A s \in SUBSET S : IsFiniteSet(s) /\ Cardinality(s) \in Nat
  BY FS_Subset, FS_CardinalityType
<1>t. \A t \in SUBSET T : IsFiniteSet(t)
  BY FS_Subset
<1>1. Off = {}
  <2> SUFFICES ASSUME Off # {} PROVE FALSE
    OBVIOUS
  <2>1. Sizes \in SUBSET Nat /\ Sizes # {}
    BY <1>0
  <2>2. PICK s \in Off : \A t \in Off : Cardinality(s) <= Cardinality(t)
    <3>1. PICK n \in Sizes : \A m \in Sizes : n <= m
      <4> HIDE DEF Sizes
      <4> QED
        BY <2>1, MinIsLeast
    <3> QED
      BY <3>1
  <2>3. PICK t \in SUBSET T : image(s) \subseteq t /\ ~(SumFunctionOnSet(f, s) <= SumFunctionOnSet(g, t))
    BY <2>2
  <2>4. SumFunctionOnSet(g, t) \in Nat
    BY <1>t, SumStep
  <2>5. CASE s = {}
    BY <2>3, <2>4, <2>5, <1>0, SumStep
  <2>6. CASE s # {}
    <3>1. PICK x \in s : TRUE
      BY <2>6
    <3>2. x \in S /\ h[x] \in t /\ s \ {x} \in SUBSET S /\ t \ {h[x]} \in SUBSET T
      BY <2>2, <2>3, <3>1
    <3>3. Cardinality(s \ {x}) < Cardinality(s)
      BY <1>0, <2>2, <3>1, FS_RemoveElement
    <3>4. s \ {x} \notin Off
      BY <1>0, <2>2, <3>2, <3>3
    <3>5. image(s \ {x}) \subseteq t \ {h[x]}
      BY <2>2, <2>3, <3>2
    <3>6. SumFunctionOnSet(f, s \ {x}) <= SumFunctionOnSet(g, t \ {h[x]})
      BY <3>2, <3>4, <3>5
    <3>7. SumFunctionOnSet(f, s) = f[x] + SumFunctionOnSet(f, s \ {x})
      <4>1. IsFiniteSet(s) /\ \A z \in s : f[z] \in Nat
        BY <1>0, <2>2
      <4> HIDE DEF Off
      <4> QED
        BY <3>1, <4>1, SumStep
    <3>8. SumFunctionOnSet(g, t) = g[h[x]] + SumFunctionOnSet(g, t \ {h[x]})
      BY <1>t, <3>2, SumStep
    <3>9. SumFunctionOnSet(f, s \ {x}) \in Nat /\ SumFunctionOnSet(g, t \ {h[x]}) \in Nat
      <4>1. IsFiniteSet(s \ {x}) /\ IsFiniteSet(t \ {h[x]})
        BY <1>0, <1>t, <3>2
      <4> QED
        BY <3>2, <4>1, SumStep
    <3>10. f[x] \in Nat /\ g[h[x]] \in Nat /\ f[x] <= g[h[x]]
      BY <3>2
    <3> QED
      BY <2>3, <3>6, <3>7, <3>8, <3>9, <3>10
  <2> QED
    BY <2>5, <2>6
<1>2. image(S) \subseteq T
  OBVIOUS
<1> QED
  BY <1>1, <1>2

\* What is determined step by step from a first value exists.
Follows(a, N, base, step) == \A n \in 0..N : a[n] = IF n = 0 THEN base ELSE step[<<n, a[n - 1]>>]

LEMMA Recursion ==
  ASSUME NEW N \in Nat, NEW X, NEW base \in X, NEW step \in [(1..N) \X X -> X]
  PROVE  \E a \in [0..N -> X] : Follows(a, N, base, step)
<1> DEFINE Right(a, k) == \A n \in 0..N : n <= k => a[n] = IF n = 0 THEN base ELSE step[<<n, a[n - 1]>>]
           K == {k \in Nat : \E a \in [0..N -> X] : Right(a, k)}
<1>1. 0 \in K
  <2> DEFINE a == [n \in 0..N |-> base]
  <2>1. a \in [0..N -> X] /\ Right(a, 0)
    OBVIOUS
  <2> QED
    BY <2>1
<1>2. ASSUME NEW k \in Nat, k \in K PROVE k + 1 \in K
  <2>1. PICK a \in [0..N -> X] : Right(a, k)
    BY <1>2
  <2> DEFINE b == [n \in 0..N |-> IF n = 0 THEN base ELSE step[<<n, a[n - 1]>>]]
  <2>2. b \in [0..N -> X]
    <3>1. \A n \in 1..N : n - 1 \in 0..N /\ n \in 1..N
      OBVIOUS
    <3>2. \A n \in 1..N : step[<<n, a[n - 1]>>] \in X
      BY <3>1
    <3> QED
      BY <3>2
  <2>3. \A n \in 0..N : n <= k => b[n] = a[n]
    BY <2>1
  <2>4. Right(b, k + 1)
    <3> SUFFICES ASSUME NEW n \in 0..N, n <= k + 1, n # 0 PROVE b[n] = step[<<n, b[n - 1]>>]
      OBVIOUS
    <3>1. n - 1 \in 0..N /\ n - 1 <= k
      OBVIOUS
    <3>2. b[n - 1] = a[n - 1]
      BY <2>3, <3>1
    <3> QED
      BY <3>2
  <2> HIDE DEF b, Right
  <2> QED
    BY <2>2, <2>4
<1>3. \A k \in Nat : k \in K
  <2> HIDE DEF K
  <2> QED
    BY <1>1, <1>2, Climb
<1>4. PICK a \in [0..N -> X] : Right(a, N)
  BY <1>3
<1> QED
  BY <1>4 DEF Follows

\* A part of 1..L that is closed downwards is a beginning of it.
LEMMA Beginning ==
  ASSUME NEW L \in Nat, NEW S \in SUBSET (1..L), \A n \in S, m \in 1..L : m <= n => m \in S
  PROVE  \E c \in 0..L : S = 1..c
<1>1. CASE S = {}
  BY <1>1
<1>2. CASE S # {}
  <2>0. IsFiniteSet(1..L)
    BY 1 \in Int, L \in Int, FS_Interval
  <2>1. IsFiniteSet(S)
    BY <2>0, FS_Subset
  <2>i. S \in SUBSET Int
    OBVIOUS
  <2> DEFINE c == Max(S)
  <2>2. c \in S /\ \A n \in S : n <= c
    BY <1>2, <2>1, <2>i, MaxIsGreatest
  <2> HIDE DEF c
  <2>3. S = 1..c
    <3>1. c \in 1..L
      BY <2>2
    <3>2. \A m \in 1..c : m \in S
      BY <2>2, <3>1
    <3>3. \A m \in S : m \in 1..c
      BY <2>2, <3>1
    <3> QED
      BY <3>2, <3>3
  <2> QED
    BY <2>2, <2>3, c \in 0..L
<1> QED
  BY <1>1, <1>2
-----------------------------------------------------------------------------
(* What the answer is. *)

\* A question stays the one that was put, and an answer is the result of its tool.
Told ==
  /\ topic \in DOMAIN Questions /\ question \in Questions[topic]
  /\ Answered("run") =>
       LET run == Summary(question.run)
       IN  Result = [met |-> OverallMet(run, question.slo), goodput |-> Estimate(run, question.slo)]
  /\ Answered("sweep") => Result = Pareto(question.runs, question.slo)
  /\ Answered("summary") =>
       Result = Summarized(question.reports, question.fields, question.keys, question.records, question.missed)
  /\ Answered("compare") =>
       LET inputs == Resolve(question.sources, question.experiment)
       IN  Result = [beside |-> CompareReports(inputs, question.requested),
                     across |-> CompareAcross(Runs(inputs))]
  /\ Answered("capacity") =>
       LET plan == PlanConfig(question.defaults, question.shared, question.scenario, question.overrides)
       IN  Result = [plan |-> plan,
                     verdict |-> CheckCapacity(question.answers,
                                   PlannerLines(question.outcomes, question.fma, question.enforce), plan)]
  /\ Answered("readiness") => Result = CheckReadiness(question.cluster, question.checkGateway)
  /\ Answered("retention") => Result = Pruned(question.items, question.caps, question.now)
  /\ Answered("estimate") => Result = EstimateRun(LoadShape(question.profile))
  /\ Answered("design") => Result = Generate(question.setup, question.run, question.constants, question.known)
  /\ Answered("scenario") => Result = AuthorScenario(question.content, question.roots, question.known)

\* A reply is what is told of the question's own topic; nothing is told of another one.
LEMMA ToldStep == Told /\ [VerdictNext]_verdictVars => Told'
<1> SUFFICES ASSUME Told, [VerdictNext]_verdictVars PROVE Told'
  OBVIOUS
<1> USE DEF Awaiting, Reply, Answered, Result
<1>1. CASE AnalyzeRun
  BY <1>1 DEF AnalyzeRun, Told
<1>2. CASE AnalyzeSweep
  BY <1>2 DEF AnalyzeSweep, Told
<1>3. CASE Summarize
  BY <1>3 DEF Summarize, Told
<1>4. CASE Compare
  BY <1>4 DEF Compare, Told
<1>5. CASE JudgeCapacity
  BY <1>5 DEF JudgeCapacity, Told
<1>6. CASE JudgeReadiness
  BY <1>6 DEF JudgeReadiness, Told
<1>7. CASE Prune
  BY <1>7 DEF Prune, Told
<1>8. CASE JudgeCommand
  BY <1>8 DEF JudgeCommand, Told
<1>9. CASE Design
  BY <1>9 DEF Design, Told
<1>10. CASE Author
  BY <1>10 DEF Author, Told
<1>11. CASE EstimateDuration
  BY <1>11 DEF EstimateDuration, Told
<1>12. CASE UNCHANGED verdictVars
  BY <1>12 DEF verdictVars, Told
<1> QED
  BY <1>1, <1>2, <1>3, <1>4, <1>5, <1>6, <1>7, <1>8, <1>9, <1>10, <1>11, <1>12 DEF VerdictNext

LEMMA ToldAlways == VerdictSpec => []Told
<1>1. VerdictInit => Told
  BY DEF VerdictInit, Told, Answered
<1> HIDE DEF Told
<1> QED
  BY <1>1, ToldStep, PTL DEF VerdictSpec
-----------------------------------------------------------------------------
(* Readiness. *)

\* A benchmark is let through only where traffic has a ready address to go to, a gap is
\* always pointed out, and the serving facts are those of a port that answers if one does.
THEOREM ReadinessTrue == VerdictSpec => []ReadyMeansServing
<1>1. ASSUME NEW c, IsCluster(c), NEW checkGateway \in BOOLEAN
      PROVE  TrafficReaches(c, checkGateway, CheckReadiness(c, checkGateway))
  <2> DEFINE answered == CheckReadiness(c, checkGateway)
  <2>1. /\ answered.ready = (EndpointReason(c) = "endpoints_ready")
        /\ answered.suggest = (EndpointReason(c) # "endpoints_ready")
        /\ answered.guidance = IF checkGateway THEN GatewayReason(c) ELSE "none"
        /\ answered.facts # {} => EndpointReason(c) = "endpoints_not_ready"
        /\ EndpointReason(c) = "endpoints_not_ready" => answered.target # {}
        /\ \A f \in answered.facts : f.reachable = (ProbedPort(c) \in c.responds)
    BY DEF CheckReadiness
  <2>2. c.responds # {} => ProbedPort(c) \in c.responds
    BY <1>1 DEF ProbedPort, IsCluster
  <2>3. (GatewayReason(c) # "none") = ~(c.classes > 0 /\ Programmed(c) = "true" /\ PoolsResolved(c))
    BY <1>1 DEF GatewayReason, IsCluster
  <2>4. EndpointReason(c) = "endpoints_ready" <=> c.reachable /\ ReadyServices(c) # {}
    BY DEF EndpointReason
  <2>5. ReadyServices(c) = {n \in DOMAIN c.services : c.services[n].name # "kubernetes" /\ c.services[n].ready > 0}
    BY DEF ReadyServices, Inference
  <2> HIDE DEF answered
  <2> QED
    <3>1. /\ answered.ready <=> c.reachable /\ ReadyServices(c) # {}
          /\ answered.ready \/ answered.suggest
      BY <1>1, <2>1, <2>4
    <3>2. checkGateway /\ ~(c.classes > 0 /\ Programmed(c) = "true" /\ PoolsResolved(c))
            <=> answered.guidance # "none"
      BY <1>1, <2>1, <2>3
    <3>3. answered.facts # {} => answered.target # {} /\ \A f \in answered.facts : c.responds # {} => f.reachable
      BY <2>1, <2>2
    <3>4. answered.ready <=> c.reachable /\ {n \in DOMAIN c.services : c.services[n].name # "kubernetes"
                                                                  /\ c.services[n].ready > 0} # {}
      BY <2>5, <3>1
    <3> QED
      BY <3>1, <3>2, <3>3, <3>4 DEF TrafficReaches, answered
<1>2. Told => ReadyMeansServing
  <2> SUFFICES ASSUME Told, topic = "readiness", answer # <<>> PROVE ReadyMeansServing
    BY DEF ReadyMeansServing, Answered
  <2>1. question \in Asked("readiness")
    BY DEF Told, Asked
  <2> QED
    BY <1>1, <2>1, QuestionsAssumption DEF Told, ReadyMeansServing, Answered
<1> HIDE DEF Told, ReadyMeansServing
<1> QED
  BY <1>2, ToldAlways, PTL
-----------------------------------------------------------------------------
(* Capacity. *)

Vocabulary == {"gpu_summary", "sized", "will_fail", "gpus_required", "cannot_estimate",
               "skipping_memory", "skipping_replicas", "skipping_fma"}

\* Each wording stands for what became of the method; the neutral ones are of no method
\* that has a trouble.
LEMMA WordsOfOutcome ==
  ASSUME NEW o \in Outcomes
  PROVE  /\ Sayings(o) \in Seq(Vocabulary)
         /\ "will_fail" \in ToSet(Sayings(o)) <=> o = "wont_fit"
         /\ "gpus_required" \in ToSet(Sayings(o)) <=> o = "shortfall"
         /\ "cannot_estimate" \in ToSet(Sayings(o)) <=> o = "threw"
         /\ "skipping_memory" \in ToSet(Sayings(o)) <=> o = "unknown"
         /\ "skipping_replicas" \in ToSet(Sayings(o)) <=> o = "idle"
         /\ "sized" \in ToSet(Sayings(o)) <=> o \in {"fits", "shortfall"}
         /\ "skipping_fma" \notin ToSet(Sayings(o))
         /\ ToSet(Sayings(o)) \subseteq Informational <=> o \in {"fits", "idle"}
<1>1. /\ o = "fits" => Sayings(o) = <<"gpu_summary", "sized">>
      /\ o = "wont_fit" => Sayings(o) = <<"gpu_summary", "will_fail">>
      /\ o = "shortfall" => Sayings(o) = <<"gpus_required", "gpu_summary", "sized">>
      /\ o = "threw" => Sayings(o) = <<"gpu_summary", "cannot_estimate">>
      /\ o = "unknown" => Sayings(o) = <<"skipping_memory">>
      /\ o = "idle" => Sayings(o) = <<"skipping_replicas">>
  BY DEF Sayings
<1>2. /\ o = "fits" => ToSet(Sayings(o)) = {"gpu_summary", "sized"}
      /\ o = "wont_fit" => ToSet(Sayings(o)) = {"gpu_summary", "will_fail"}
      /\ o = "shortfall" => ToSet(Sayings(o)) = {"gpus_required", "gpu_summary", "sized"}
      /\ o = "threw" => ToSet(Sayings(o)) = {"gpu_summary", "cannot_estimate"}
      /\ o = "unknown" => ToSet(Sayings(o)) = {"skipping_memory"}
      /\ o = "idle" => ToSet(Sayings(o)) = {"skipping_replicas"}
  BY <1>1 DEF ToSet
<1>3. Sayings(o) \in Seq(Vocabulary)
  <2>1. \A a, b \in Vocabulary : <<a>> \in Seq(Vocabulary) /\ <<a, b>> \in Seq(Vocabulary)
    OBVIOUS
  <2>2. \A a, b, c \in Vocabulary : <<a, b, c>> \in Seq(Vocabulary)
    OBVIOUS
  <2>3. /\ <<"gpu_summary", "sized">> \in Seq(Vocabulary)
        /\ <<"gpu_summary", "will_fail">> \in Seq(Vocabulary)
        /\ <<"gpu_summary", "cannot_estimate">> \in Seq(Vocabulary)
        /\ <<"skipping_memory">> \in Seq(Vocabulary)
        /\ <<"skipping_replicas">> \in Seq(Vocabulary)
    BY <2>1 DEF Vocabulary
  <2>4. <<"gpus_required", "gpu_summary", "sized">> \in Seq(Vocabulary)
    BY <2>2 DEF Vocabulary
  <2> QED
    BY <1>1, <2>3, <2>4 DEF Outcomes
<1> QED
  BY <1>2, <1>3 DEF Outcomes, Informational

\* The lines of the planner as the words of both methods.
LEMMA LinesAsWords ==
  ASSUME NEW outcomes \in [Methods -> Outcomes], NEW fma \in BOOLEAN, NEW enforce \in BOOLEAN
  PROVE  LET lines == PlannerLines(outcomes, fma, enforce)
             words == IF fma THEN {"skipping_fma"}
                      ELSE ToSet(Sayings(outcomes["decode"])) \cup ToSet(Sayings(outcomes["prefill"]))
         IN  /\ \A what : Says(lines, what) <=> words \cap what # {}
             /\ (\E n \in DOMAIN lines : lines[n].tag = "ERROR") <=> enforce /\ ~(words \subseteq Informational)
<1> DEFINE sayings == IF fma THEN <<"skipping_fma">>
                      ELSE Sayings(outcomes["decode"]) \o Sayings(outcomes["prefill"])
           words == IF fma THEN {"skipping_fma"}
                    ELSE ToSet(Sayings(outcomes["decode"])) \cup ToSet(Sayings(outcomes["prefill"]))
           lines == PlannerLines(outcomes, fma, enforce)
<1>1. ToSet(sayings) = words
  <2>1. outcomes["decode"] \in Outcomes /\ outcomes["prefill"] \in Outcomes
    BY DEF Methods
  <2>2. ToSet(<<"skipping_fma">>) = {"skipping_fma"}
    BY DEF ToSet
  <2>3. Sayings(outcomes["decode"]) \in Seq(Vocabulary) /\ Sayings(outcomes["prefill"]) \in Seq(Vocabulary)
    BY <2>1, WordsOfOutcome
  <2>4. ToSet(Sayings(outcomes["decode"]) \o Sayings(outcomes["prefill"])) =
          ToSet(Sayings(outcomes["decode"])) \cup ToSet(Sayings(outcomes["prefill"]))
    BY <2>3, ToSetOfBoth
  <2> QED
    BY <2>2, <2>4
<1>2. lines = [n \in DOMAIN sayings |->
        [says |-> sayings[n],
         tag  |-> IF sayings[n] \in Informational THEN "info" ELSE IF enforce THEN "ERROR" ELSE "WARNING"]]
  BY DEF PlannerLines, Tagged
<1> HIDE DEF sayings, lines
<1>3. DOMAIN lines = DOMAIN sayings /\ \A n \in DOMAIN lines : lines[n].says = sayings[n]
  BY <1>2
<1>4. \A n \in DOMAIN lines : lines[n].tag = "ERROR" <=> enforce /\ sayings[n] \notin Informational
  BY <1>2
<1>5. \A what : Says(lines, what) <=> ToSet(sayings) \cap what # {}
  BY <1>3 DEF Says, ToSet
<1>6. (\E n \in DOMAIN lines : lines[n].tag = "ERROR") <=> enforce /\ ~(ToSet(sayings) \subseteq Informational)
  BY <1>3, <1>4 DEF ToSet
<1> QED
  BY <1>1, <1>5, <1>6 DEF lines

\* The classification of the wording says of the deployment what became of its methods.
LEMMA ClassifiedTrue ==
  ASSUME NEW outcomes \in [Methods -> Outcomes], NEW fma \in BOOLEAN, NEW enforce \in BOOLEAN
  PROVE  VerdictTrue(outcomes, fma, enforce, Feasible3(PlannerLines(outcomes, fma, enforce)))
<1> DEFINE lines == PlannerLines(outcomes, fma, enforce)
           d == outcomes["decode"]
           p == outcomes["prefill"]
           words == IF fma THEN {"skipping_fma"} ELSE ToSet(Sayings(d)) \cup ToSet(Sayings(p))
<1>1. d \in Outcomes /\ p \in Outcomes
  BY DEF Methods
<1>2. /\ \A what : Says(lines, what) <=> words \cap what # {}
      /\ (\E n \in DOMAIN lines : lines[n].tag = "ERROR") <=> enforce /\ ~(words \subseteq Informational)
  BY LinesAsWords
<1>3. words \subseteq Informational <=> fma \/ {d, p} \subseteq {"fits", "idle"}
  <2>1. CASE fma
    BY <2>1 DEF Informational
  <2>2. CASE ~fma
    <3>1. ToSet(Sayings(d)) \subseteq Informational <=> d \in {"fits", "idle"}
      BY <1>1, WordsOfOutcome
    <3>2. ToSet(Sayings(p)) \subseteq Informational <=> p \in {"fits", "idle"}
      BY <1>1, WordsOfOutcome
    <3> QED
      BY <2>2, <3>1, <3>2
  <2> QED
    BY <2>1, <2>2
<1>9. /\ "will_fail" \in words <=> ~fma /\ "wont_fit" \in {d, p}
      /\ "gpus_required" \in words <=> ~fma /\ "shortfall" \in {d, p}
      /\ "cannot_estimate" \in words <=> ~fma /\ "threw" \in {d, p}
      /\ "skipping_memory" \in words <=> ~fma /\ "unknown" \in {d, p}
      /\ "skipping_replicas" \in words <=> ~fma /\ "idle" \in {d, p}
      /\ "sized" \in words <=> ~fma /\ {d, p} \cap {"fits", "shortfall"} # {}
      /\ "skipping_fma" \in words <=> fma
  <2>1. CASE fma
    BY <2>1
  <2>2. CASE ~fma
    <3>1. words = ToSet(Sayings(d)) \cup ToSet(Sayings(p))
      BY <2>2
    <3> HIDE DEF words
    <3> QED
      BY <1>1, <2>2, <3>1, WordsOfOutcome
  <2> QED
    BY <2>1, <2>2
<1> HIDE DEF lines, words
<1>4. WillFail(lines) <=> ~fma /\ {d, p} \cap {"wont_fit", "shortfall"} # {}
  <2>1. WillFail(lines) <=> "will_fail" \in words \/ "gpus_required" \in words
    BY <1>2 DEF WillFail
  <2> QED
    BY <1>9, <2>1
<1>5. (\E n \in DOMAIN lines : lines[n].tag = "ERROR") <=>
         enforce /\ ~fma /\ ~({d, p} \subseteq {"fits", "idle"})
  BY <1>2, <1>3
<1>6. Bypassed(lines) <=> \/ fma
                          \/ {d, p} \cap {"unknown", "threw"} # {}
                          \/ "idle" \in {d, p} /\ {d, p} \cap {"fits", "shortfall"} = {}
  <2>1. Bypassed(lines) <=> \/ "skipping_fma" \in words \/ "skipping_memory" \in words
                            \/ "cannot_estimate" \in words
                            \/ "skipping_replicas" \in words /\ "sized" \notin words
    BY <1>2 DEF Bypassed
  <2> QED
    BY <1>9, <2>1
<1>7. /\ Feasible3(lines) = "false" <=> \/ WillFail(lines)
                                       \/ \E n \in DOMAIN lines : lines[n].tag = "ERROR"
      /\ Feasible3(lines) = "true" => ~Bypassed(lines) /\ ~WillFail(lines)
  BY DEF Feasible3
<1>8. {outcomes[m] : m \in Methods} = {d, p}
  BY DEF Methods
<1> QED
  BY <1>1, <1>4, <1>5, <1>6, <1>7, <1>8 DEF VerdictTrue, Methods, Outcomes, lines

\* What a layer of a plan says of a method's accelerator.
Own == <<"decode", "accel">>
Common == <<"common", "accel">>
Says1(layer) == IF Own \in DOMAIN layer THEN layer[Own] ELSE IF Common \in DOMAIN layer THEN layer[Common] ELSE ""

Heard(layer) == IF Own \in DOMAIN layer THEN layer[Own] ELSE ""

LEMMA MergeAt ==
  ASSUME NEW base, NEW over, Own \in DOMAIN base
  PROVE  /\ Own \in DOMAIN Merge(base, over)
         /\ Merge(base, over)[Own] = IF Heard(over) # "" THEN Heard(over) ELSE base[Own]
<1>1. Own \in DOMAIN base \cup DOMAIN over
  OBVIOUS
<1>2. Merge(base, over)[Own] = IF Own \in DOMAIN over /\ over[Own] # "" THEN over[Own] ELSE base[Own]
  BY <1>1 DEF Merge
<1> QED
  BY <1>1, <1>2 DEF Merge, Heard

\* A shared key reaches a method that does not set it itself.
LEMMA ExpandAt ==
  ASSUME NEW values, NEW defaults, Own \in DOMAIN defaults, \A k \in DOMAIN values : k = <<k[1], k[2]>>
  PROVE  LET e == ExpandCommon(values, defaults)
         IN  Heard(e) = Says1(values)
<1> DEFINE common == {k[2] : k \in {k \in DOMAIN values : k[1] = "common"}}
           seeded == {k \in DOMAIN defaults : k[1] \in Methods /\ k[2] \in common \ {"enabled"}} \ DOMAIN values
           own    == {k \in DOMAIN values : k[1] # "common"}
           root   == {<<"root", k>> : k \in common}
           e      == ExpandCommon(values, defaults)
<1>1. e = [k \in own \cup seeded \cup root |->
             IF k \in own /\ k \notin root THEN values[k] ELSE values[<<"common", k[2]>>]]
  BY DEF ExpandCommon
<1>2. Own \notin root /\ Own[1] = "decode" /\ Own[2] = "accel"
  BY DEF Own
<1>3. "accel" \in common <=> Common \in DOMAIN values
  BY DEF Common
<1>4. Own \in own <=> Own \in DOMAIN values
  BY <1>2
<1>5. Own \in seeded <=> Common \in DOMAIN values /\ Own \notin DOMAIN values
  BY <1>2, <1>3 DEF Methods
<1> HIDE DEF common, seeded, own, root, e
<1>6. Own \in DOMAIN e <=> Own \in own \/ Own \in seeded
  BY <1>1, <1>2
<1>7. Own \in own => e[Own] = values[Own]
  BY <1>1, <1>2
<1>8. Own \in seeded => e[Own] = values[Common]
  BY <1>1, <1>2, <1>4, <1>5 DEF Common
<1> QED
  BY <1>4, <1>5, <1>6, <1>7, <1>8 DEF Says1, Heard, e

\* Of the layers that are laid over the defaults the most specific one that says something
\* of the method's accelerator is heard.
LEMMA LayersHeard ==
  ASSUME NEW q, IsPlanned(q)
  PROVE  LET plan == PlanConfig(q.defaults, q.shared, q.scenario, q.overrides)
             layers == <<Says1(q.overrides), Says1(q.scenario), Says1(q.shared)>>
             said == {n \in 1..3 : layers[n] # ""}
         IN  plan[Own] = IF said = {} THEN q.defaults[Own] ELSE layers[Min(said)]
<1> DEFINE shared == ExpandCommon(q.shared, q.defaults)
           scenario == ExpandCommon(q.scenario, q.defaults)
           named == IF <<"model", "name">> \in DOMAIN q.overrides /\ <<"model", "hf">> \notin DOMAIN q.overrides
                    THEN [p \in {<<"model", "hf">>} |-> q.overrides[<<"model", "name">>]] ELSE <<>>
           first == Merge(q.defaults, shared)
           second == Merge(first, scenario)
           third == Merge(second, q.overrides)
           plan == PlanConfig(q.defaults, q.shared, q.scenario, q.overrides)
           layers == <<Says1(q.overrides), Says1(q.scenario), Says1(q.shared)>>
           said == {n \in 1..3 : layers[n] # ""}
<1>1. plan = Merge(third, named)
  BY DEF PlanConfig, ApplyOverrides
<1>2. Own \in DOMAIN q.defaults /\ Common \notin DOMAIN q.overrides
  BY DEF IsPlanned, Own, Common
<1>3. Heard(shared) = Says1(q.shared) /\ Heard(scenario) = Says1(q.scenario)
  <2>1. /\ \A k \in DOMAIN q.shared : k = <<k[1], k[2]>>
        /\ \A k \in DOMAIN q.scenario : k = <<k[1], k[2]>>
    BY DEF IsPlanned
  <2> QED
    BY <1>2, <2>1, ExpandAt
<1>4. Heard(q.overrides) = Says1(q.overrides)
  BY <1>2 DEF Says1, Heard
<1>5. Own \notin DOMAIN named
  BY DEF Own
<1> HIDE DEF named, shared, scenario, plan
<1>6. /\ Own \in DOMAIN first
      /\ first[Own] = IF Heard(shared) # "" THEN Heard(shared) ELSE q.defaults[Own]
  BY <1>2, MergeAt
<1> HIDE DEF first
<1>7. /\ Own \in DOMAIN second
      /\ second[Own] = IF Heard(scenario) # "" THEN Heard(scenario) ELSE first[Own]
  BY <1>6, MergeAt
<1> HIDE DEF second
<1>8. /\ Own \in DOMAIN third
      /\ third[Own] = IF Heard(q.overrides) # "" THEN Heard(q.overrides) ELSE second[Own]
  BY <1>7, MergeAt
<1> HIDE DEF third
<1>9. plan[Own] = third[Own]
  BY <1>1, <1>5, <1>8, MergeAt DEF Heard
<1>10. plan[Own] = IF Says1(q.overrides) # "" THEN Says1(q.overrides)
                   ELSE IF Says1(q.scenario) # "" THEN Says1(q.scenario)
                   ELSE IF Says1(q.shared) # "" THEN Says1(q.shared) ELSE q.defaults[Own]
  BY <1>3, <1>4, <1>6, <1>7, <1>8, <1>9
<1>13. layers[1] = Says1(q.overrides) /\ layers[2] = Says1(q.scenario) /\ layers[3] = Says1(q.shared)
  OBVIOUS
<1>11. /\ said = {} <=> Says1(q.overrides) = "" /\ Says1(q.scenario) = "" /\ Says1(q.shared) = ""
       /\ 1 \in said <=> Says1(q.overrides) # ""
       /\ 2 \in said <=> Says1(q.scenario) # ""
       /\ 3 \in said <=> Says1(q.shared) # ""
  <2>1. 1 \in 1..3 /\ 2 \in 1..3 /\ 3 \in 1..3 /\ \A n \in 1..3 : n = 1 \/ n = 2 \/ n = 3
    OBVIOUS
  <2> QED
    BY <1>13, <2>1
<1> HIDE DEF layers
<1>12. said \in SUBSET Nat /\ \A n \in said : n = 1 \/ n = 2 \/ n = 3
  <2>1. \A n \in 1..3 : n \in Nat /\ (n = 1 \/ n = 2 \/ n = 3)
    OBVIOUS
  <2>2. said \subseteq 1..3
    OBVIOUS
  <2> HIDE DEF said
  <2> QED
    BY <2>1, <2>2
<1> HIDE DEF said
<1>14. CASE said = {}
  BY <1>10, <1>11, <1>14 DEF said, layers, plan
<1>15. CASE said # {}
  <2>1. Min(said) \in said /\ \A n \in said : Min(said) <= n
    BY <1>12, <1>15, MinIsLeast
  <2>2. Min(said) = IF 1 \in said THEN 1 ELSE IF 2 \in said THEN 2 ELSE 3
    <3>1. /\ 1 \in said => Min(said) <= 1
          /\ 2 \in said => Min(said) <= 2
          /\ Min(said) \in {1, 2, 3}
      BY <1>12, <2>1
    <3> QED
      BY <2>1, <3>1
  <2>3. plan[Own] = layers[Min(said)]
    BY <1>10, <1>11, <1>13, <1>15, <2>2
  <2> QED
    BY <1>15, <2>3 DEF said, layers, plan
<1> QED
  BY <1>14, <1>15

\* A model that is asked for is the one that is sized and the one that is recorded.
LEMMA ModelIsAsked ==
  ASSUME NEW defaults, NEW shared, NEW scenario, NEW overrides
  PROVE  ModelEvaluated(PlanConfig(defaults, shared, scenario, overrides), overrides)
<1> DEFINE name == <<"model", "name">>
           hf == <<"model", "hf">>
           under == Merge(Merge(defaults, ExpandCommon(shared, defaults)), ExpandCommon(scenario, defaults))
           plan == PlanConfig(defaults, shared, scenario, overrides)
<1> SUFFICES ASSUME name \in DOMAIN overrides, hf \notin DOMAIN overrides, overrides[name] # ""
             PROVE  plan[hf] = overrides[name] /\ plan[name] = overrides[name]
  BY DEF ModelEvaluated, EvaluatedModel
<1> HIDE DEF under
<1>1. plan = Merge(Merge(under, overrides), [p \in {hf} |-> overrides[name]])
  BY DEF PlanConfig, ApplyOverrides, under
<1> HIDE DEF plan
<1>2. name # hf
  OBVIOUS
<1> HIDE DEF name, hf
<1> QED
  BY <1>1, <1>2 DEF Merge

\* "Feasible" is never said of what the planner did not size, the model sized is the one
\* that was asked for, and the most specific layer of a plan wins.
THEOREM CapacityIsTrue == VerdictSpec => []CapacityTrue
<1>1. Told => CapacityTrue
  <2> SUFFICES ASSUME Told, topic = "capacity", answer # <<>> PROVE CapacityTrue
    BY DEF CapacityTrue, Answered
  <2> DEFINE plan == PlanConfig(question.defaults, question.shared, question.scenario, question.overrides)
             lines == PlannerLines(question.outcomes, question.fma, question.enforce)
  <2>1. IsPlanned(question)
    BY QuestionsAssumption DEF Told, Asked
  <2>2. Result = [plan |-> plan, verdict |-> CheckCapacity(question.answers, lines, plan)]
    BY DEF Told, Answered
  <2>3. Result.verdict.ran => /\ Result.verdict.feasible = Feasible3(lines)
                              /\ Result.verdict.model = plan[<<"model", "name">>]
    BY <2>2 DEF CheckCapacity
  <2>4. VerdictTrue(question.outcomes, question.fma, question.enforce, Feasible3(lines))
    BY <2>1, ClassifiedTrue DEF IsPlanned
  <2>5. ModelEvaluated(plan, question.overrides)
    BY ModelIsAsked
  <2> HIDE DEF plan, lines
  <2>6. Result.plan = plan
    BY <2>2
  <2>7. Result.verdict.ran =>
          /\ VerdictTrue(question.outcomes, question.fma, question.enforce, Result.verdict.feasible)
          /\ Result.verdict.model = Result.plan[<<"model", "name">>]
    BY <2>3, <2>4, <2>6
  <2>8. ModelEvaluated(Result.plan, question.overrides)
    BY <2>5, <2>6
  <2> HIDE DEF Result
  <2> QED
    BY <2>1, <2>6, <2>7, <2>8, LayersHeard DEF CapacityTrue, plan, Own, Common, Says1
<1> HIDE DEF Told, CapacityTrue
<1> QED
  BY <1>1, ToldAlways, PTL
-----------------------------------------------------------------------------
(* Comparisons. *)

\* A finite set whose elements differ in a number can be put in the order of the number:
\* an element's place is how many do not exceed it.
LEMMA CanBeLined ==
  ASSUME NEW S, IsFiniteSet(S), NEW key \in [S -> Nat], \A x, y \in S : key[x] = key[y] => x = y
  PROVE  \E line \in [1..Cardinality(S) -> S] :
           \A m, n \in 1..Cardinality(S) : m < n => key[line[m]] < key[line[n]]
<1> DEFINE N == Cardinality(S)
           upTo(x) == {y \in S : key[y] <= key[x]}
           rank == [x \in S |-> Cardinality(upTo(x))]
<1>1. N \in Nat
  BY FS_CardinalityType
<1>2. \A x \in S : key[x] \in Nat
  OBVIOUS
<1>3. ASSUME NEW x \in S PROVE IsFiniteSet(upTo(x)) /\ rank[x] \in 1..N
  <2>1. upTo(x) \in SUBSET S /\ x \in upTo(x)
    BY <1>2
  <2>2. IsFiniteSet(upTo(x)) /\ Cardinality(upTo(x)) <= N /\ Cardinality(upTo(x)) \in Nat
    BY <2>1, FS_Subset, FS_CardinalityType
  <2>3. Cardinality(upTo(x)) # 0
    BY <2>1, <2>2, FS_EmptySet
  <2> QED
    BY <1>1, <2>2, <2>3
<1>4. ASSUME NEW x \in S, NEW y \in S, key[x] < key[y] PROVE rank[x] < rank[y]
  <2>1. upTo(x) \in SUBSET upTo(y) /\ y \in upTo(y) /\ y \notin upTo(x)
    BY <1>2, <1>4
  <2>2. rank[x] = Cardinality(upTo(x)) /\ rank[y] = Cardinality(upTo(y))
    OBVIOUS
  <2> HIDE DEF upTo, rank
  <2>3. Cardinality(upTo(x)) <= Cardinality(upTo(y)) /\ Cardinality(upTo(x)) # Cardinality(upTo(y))
    BY <1>3, <2>1, FS_Subset
  <2>4. rank[x] \in Nat /\ rank[y] \in Nat
    BY <1>1, <1>3
  <2> QED
    BY <2>2, <2>3, <2>4
<1> HIDE DEF upTo
<1>5. rank \in [S -> 1..N]
  BY <1>3
<1> HIDE DEF rank
<1>6. \A x, y \in S : rank[x] = rank[y] => x = y
  <2> SUFFICES ASSUME NEW x \in S, NEW y \in S, x # y PROVE rank[x] # rank[y]
    OBVIOUS
  <2>1. key[x] < key[y] \/ key[y] < key[x]
    BY <1>2
  <2>2. rank[x] \in Nat /\ rank[y] \in Nat
    BY <1>3
  <2> QED
    BY <1>4, <2>1, <2>2
<1>7. rank \in Surjection(S, 1..N)
  <2>1. rank \in Injection(S, 1..N)
    BY <1>5, <1>6 DEF Injection, IsInjective
  <2>2. IsFiniteSet(1..N) /\ Cardinality(1..N) = N
    BY <1>1, FS_Interval
  <2> QED
    BY <2>1, <2>2, FS_Injection
<1>8. \A n \in 1..N : \E x \in S : rank[x] = n
  BY <1>7 DEF Surjection
<1> DEFINE line == [n \in 1..N |-> CHOOSE x \in S : rank[x] = n]
<1>9. \A n \in 1..N : line[n] \in S /\ rank[line[n]] = n
  BY <1>8
<1>10. line \in [1..N -> S]
  BY <1>9
<1> HIDE DEF line
<1>11. ASSUME NEW m \in 1..N, NEW n \in 1..N, m < n PROVE key[line[m]] < key[line[n]]
  <2>1. line[m] \in S /\ line[n] \in S /\ rank[line[m]] = m /\ rank[line[n]] = n
    BY <1>9
  <2>2. line[m] # line[n] /\ ~(rank[line[n]] < rank[line[m]])
    BY <1>1, <1>11, <2>1
  <2>3. ~(key[line[n]] < key[line[m]]) /\ key[line[m]] # key[line[n]]
    BY <1>4, <2>1, <2>2
  <2> QED
    BY <1>2, <2>1, <2>3
<1> QED
  BY <1>10, <1>11

\* The reports under the roots of an input, oldest first, are all of them.
LEMMA FoundAreThere ==
  ASSUME NEW reports, AreInputs(reports)
  PROVE  FindReports({reports}) \in [1..Cardinality(reports) -> reports]
<1> DEFINE key == [r \in reports |-> r.mtime]
<1>1. IsFiniteSet(reports) /\ key \in [reports -> Nat] /\ \A r, s \in reports : key[r] = key[s] => r = s
  BY DEF AreInputs, IsReport
<1> HIDE DEF key
<1>2. \E line \in [1..Cardinality(reports) -> reports] :
        \A m, n \in 1..Cardinality(reports) : m < n => key[line[m]] < key[line[n]]
  BY <1>1, CanBeLined
<1>3. \E line \in [1..Cardinality(reports) -> reports] :
        \A m, n \in 1..Cardinality(reports) : m < n => line[m].mtime < line[n].mtime
  BY <1>2 DEF key
<1>4. UNION {reports} = reports
  OBVIOUS
<1> QED
  BY <1>3, <1>4 DEF FindReports

\* What a request resolves to: in each place at most reports that were there.
AreResolved(inputs) ==
  /\ \E k \in Nat : DOMAIN inputs = 1..k
  /\ \A n \in DOMAIN inputs : \A r \in inputs[n] : IsReport(r)

LEMMA ResolvedInputs ==
  ASSUME NEW sources, sources \in Seq(Range(sources)), NEW experiment, AreInputs(experiment),
         \A n \in DOMAIN sources : AreInputs(sources[n])
  PROVE  AreResolved(Resolve(sources, experiment))
<1>1. CASE experiment # {}
  <2>1. Resolve(sources, experiment) = [n \in 1..Cardinality(experiment) |-> {FindReports({experiment})[n]}]
    BY <1>1 DEF Resolve
  <2>2. Cardinality(experiment) \in Nat
    BY FS_CardinalityType DEF AreInputs
  <2>3. \A n \in 1..Cardinality(experiment) : FindReports({experiment})[n] \in experiment
    BY FoundAreThere
  <2>4. \A r \in experiment : IsReport(r)
    BY DEF AreInputs
  <2> QED
    BY <2>1, <2>2, <2>3, <2>4 DEF AreResolved
<1>2. CASE experiment = {}
  <2>1. Resolve(sources, experiment) = [n \in DOMAIN sources |-> Newest(sources[n])]
    BY <1>2 DEF Resolve
  <2>2. DOMAIN sources = 1..Len(sources) /\ Len(sources) \in Nat
    OBVIOUS
  <2>3. ASSUME NEW n \in DOMAIN sources, NEW r \in Newest(sources[n]) PROVE IsReport(r)
    <3>1. sources[n] # {} /\ r = FindReports({sources[n]})[Cardinality(sources[n])]
      BY <2>3 DEF Newest
    <3>2. AreInputs(sources[n]) /\ Cardinality(sources[n]) \in Nat /\ Cardinality(sources[n]) # 0
      BY <3>1, FS_CardinalityType, FS_EmptySet DEF AreInputs
    <3>3. Cardinality(sources[n]) \in 1..Cardinality(sources[n])
      BY <3>2
    <3>4. r \in sources[n]
      BY <3>1, <3>2, <3>3, FoundAreThere
    <3> QED
      BY <3>2, <3>4 DEF AreInputs
  <2> QED
    BY <2>1, <2>2, <2>3 DEF AreResolved
<1> QED
  BY <1>1, <1>2

\* The valid inputs, in order, are exactly the valid ones, each in one place.
LEMMA ValidInOrder ==
  ASSUME NEW inputs, AreResolved(inputs)
  PROVE  LET places == ValidPlaces(inputs)
             valid  == {n \in DOMAIN inputs : IsValid(inputs[n])}
         IN  /\ Cardinality(valid) \in Nat /\ places \in [1..Cardinality(valid) -> valid]
             /\ \A m, n \in 1..Cardinality(valid) : places[m] = places[n] => m = n
             /\ \A p \in valid : \E n \in 1..Cardinality(valid) : places[n] = p
<1> DEFINE places == ValidPlaces(inputs)
           valid == {n \in DOMAIN inputs : IsValid(inputs[n])}
           N == Cardinality(valid)
           key == [n \in valid |-> n]
<1>1. IsFiniteSet(valid) /\ valid \in SUBSET Nat
  <2>1. PICK k \in Nat : DOMAIN inputs = 1..k
    BY DEF AreResolved
  <2>2. IsFiniteSet(1..k) /\ valid \in SUBSET (1..k) /\ 1..k \subseteq Nat
    BY <2>1, FS_Interval
  <2> HIDE DEF valid
  <2> QED
    BY <2>2, FS_Subset
<1>2. places = CHOOSE line \in [1..N -> valid] : \A m, n \in 1..N : m < n => line[m] < line[n]
  BY DEF ValidPlaces
<1> HIDE DEF valid, places
<1>3. N \in Nat
  BY <1>1, FS_CardinalityType
<1>4. \E line \in [1..N -> valid] : \A m, n \in 1..N : m < n => line[m] < line[n]
  <2>1. key \in [valid -> Nat] /\ \A x, y \in valid : key[x] = key[y] => x = y
    BY <1>1
  <2>2. \A x \in valid : key[x] = x
    OBVIOUS
  <2> HIDE DEF key
  <2>3. PICK line \in [1..N -> valid] : \A m, n \in 1..N : m < n => key[line[m]] < key[line[n]]
    BY <1>1, <2>1, CanBeLined
  <2>4. \A m, n \in 1..N : m < n => line[m] < line[n]
    BY <2>2, <2>3
  <2> QED
    BY <2>4
<1>5. places \in [1..N -> valid] /\ \A m, n \in 1..N : m < n => places[m] < places[n]
  BY <1>2, <1>4
<1>6. \A m, n \in 1..N : places[m] = places[n] => m = n
  <2> SUFFICES ASSUME NEW m \in 1..N, NEW n \in 1..N, m # n PROVE places[m] # places[n]
    OBVIOUS
  <2>1. m < n \/ n < m
    BY <1>3
  <2>2. places[m] \in Nat /\ places[n] \in Nat
    BY <1>1, <1>5
  <2> QED
    BY <1>5, <2>1, <2>2
<1>7. places \in Surjection(1..N, valid)
  <2>1. places \in Injection(1..N, valid)
    BY <1>5, <1>6 DEF Injection, IsInjective
  <2>2. IsFiniteSet(1..N) /\ Cardinality(1..N) = N
    BY <1>3, FS_Interval
  <2> QED
    BY <1>1, <2>1, <2>2, FS_Injection
<1>8. \A p \in valid : \E n \in 1..N : places[n] = p
  BY <1>7 DEF Surjection
<1> QED
  BY <1>3, <1>5, <1>6, <1>8 DEF places, valid

\* The runs compared are reports, as many as there are valid inputs.
LEMMA RunsAreReports ==
  ASSUME NEW inputs, AreResolved(inputs)
  PROVE  /\ \E k \in Nat : DOMAIN Runs(inputs) = 1..k /\ DOMAIN ValidPlaces(inputs) = 1..k
         /\ \A n \in DOMAIN Runs(inputs) : IsReport(Runs(inputs)[n])
<1> DEFINE places == ValidPlaces(inputs)
           valid == {n \in DOMAIN inputs : IsValid(inputs[n])}
           N == Cardinality(valid)
<1>1. N \in Nat /\ places \in [1..N -> valid]
  BY ValidInOrder
<1>2. Runs(inputs) = [n \in DOMAIN places |-> CHOOSE r \in inputs[places[n]] : TRUE]
  BY DEF Runs
<1>3. \A p \in valid : inputs[p] # {} /\ \A r \in inputs[p] : IsReport(r)
  BY DEF IsValid, AreResolved
<1> HIDE DEF places, valid, N
<1>4. DOMAIN Runs(inputs) = 1..N /\ DOMAIN places = 1..N
  BY <1>1, <1>2
<1>5. ASSUME NEW n \in 1..N PROVE IsReport(Runs(inputs)[n])
  <2>1. places[n] \in valid /\ Runs(inputs)[n] = CHOOSE r \in inputs[places[n]] : TRUE
    BY <1>1, <1>2, <1>4
  <2>2. Runs(inputs)[n] \in inputs[places[n]]
    BY <1>3, <2>1
  <2> QED
    BY <1>3, <2>1, <2>2
<1> QED
  BY <1>1, <1>4, <1>5 DEF places

\* A value read off a run is a number or missing.
LEMMA RepresentativeIsNumber ==
  ASSUME NEW stats, Measured(stats)
  PROVE  Representative(stats) \in Nat \cup {Nothing}
<1> DEFINE present == {n \in DOMAIN Preference : Preference[n] \in DOMAIN stats}
<1>1. Representative(stats) = IF present = {} THEN Nothing ELSE stats[Preference[Min(present)]]
  BY DEF Representative
<1>2. present \in SUBSET Nat
  BY DEF Preference
<1>3. present # {} => Min(present) \in present
  <2> HIDE DEF present
  <2> QED
    BY <1>2, MinIsLeast
<1>4. present # {} => Preference[Min(present)] \in DOMAIN stats
  BY <1>3
<1> QED
  BY <1>1, <1>4 DEF Measured

LEMMA ValueIsNumber ==
  ASSUME NEW run, IsRun(run), NEW o
  PROVE  Value(run, o) \in Nat \cup {Nothing} /\ (Value(run, o) # Nothing => o.name \in DOMAIN run.metrics)
BY RepresentativeIsNumber DEF Value, ValueOf, IsRun

\* The objectives are of two families.
LEMMA ObjectiveFamilies ==
  \A o \in ToSet(Objectives) : o.family \in {"latency", "throughput"} /\ o.better \in {"min", "max"}
BY DEF Objectives, Objective, ToSet

\* Values are compared in one unit: what a row carries is the physical quantity.
LEMMA RowsArePhysical ==
  ASSUME NEW run, IsReport(run), NEW o \in ToSet(Objectives)
  PROVE  /\ RowValue(run, o) = IF Value(run, o) = Nothing THEN {} ELSE {Physical(run, o)}
         /\ Value(run, o) # Nothing => Physical(run, o) \in Nat
<1> SUFFICES ASSUME Value(run, o) # Nothing
             PROVE  /\ ToCanonical(Value(run, o), run.metrics[o.name].units, o.family) = Physical(run, o)
                    /\ Physical(run, o) \in Nat
  BY DEF RowValue
<1>1. Value(run, o) \in Nat /\ o.name \in DOMAIN run.metrics
  BY ValueIsNumber DEF IsReport
<1> DEFINE units == run.metrics[o.name].units
<1>2. o.family # "latency" => units # "s"
  BY <1>1 DEF IsReport
<1>3. Physical(run, o) = Value(run, o) * (IF units = "s" THEN 1000 ELSE 1)
  BY DEF Physical
<1>4. o.family = "latency" \/ o.family = "throughput"
  BY ObjectiveFamilies
<1> HIDE DEF units
<1>5. ToCanonical(Value(run, o), units, o.family) =
        IF o.family = "latency" /\ units = "s" THEN Value(run, o) * 1000 ELSE Value(run, o)
  <2>1. CASE o.family = "latency"
    BY <1>1, <2>1 DEF ToCanonical, FamilyUnits, Factor
  <2>2. CASE o.family = "throughput"
    BY <1>1, <2>2 DEF ToCanonical, FamilyUnits, Factor
  <2> QED
    BY <1>4, <2>1, <2>2
<1>6. Physical(run, o) \in Nat
  BY <1>1, <1>3
<1> QED
  BY <1>1, <1>2, <1>3, <1>4, <1>5, <1>6 DEF units

\* The winner of a row is the best of the runs that carry the metric, and every delta is
\* from the baseline.
RowFair(runs, o, base, row) ==
  LET carry == {n \in DOMAIN runs : Value(runs[n], o) # Nothing}
  IN  /\ \A n \in carry : IF o.better = "min"
           THEN Physical(runs[row.best], o) <= Physical(runs[n], o)
           ELSE Physical(runs[row.best], o) >= Physical(runs[n], o)
      /\ base \in carry => \A n \in carry :
           row.delta[n] = {Physical(runs[n], o) - Physical(runs[base], o)}

LEMMA RowIsFair ==
  ASSUME NEW runs, NEW o \in ToSet(Objectives), NEW base, NEW k \in Nat, DOMAIN runs = 1..k,
         \A n \in DOMAIN runs : IsReport(runs[n]),
         \E n \in DOMAIN runs : Value(runs[n], o) # Nothing
  PROVE  RowFair(runs, o, base, Row(runs, o, base))
<1> DEFINE carry == {n \in DOMAIN runs : Value(runs[n], o) # Nothing}
           present == {n \in DOMAIN runs : RowValue(runs[n], o) # {}}
           value(n) == CHOOSE v \in RowValue(runs[n], o) : TRUE
           quantity(n) == Physical(runs[n], o)
           values == {value(n) : n \in present}
           best == IF o.better = "min" THEN Min(values) ELSE Max(values)
           winners == {n \in present : value(n) = best}
           row == Row(runs, o, base)
<1>1. present = carry /\ \A n \in carry : quantity(n) \in Nat /\ RowValue(runs[n], o) = {quantity(n)}
  BY RowsArePhysical
<1>2. \A n \in carry : value(n) = quantity(n)
  BY <1>1
<1>3. carry # {} /\ carry \subseteq 1..k /\ carry \in SUBSET Nat
  OBVIOUS
<1>4. /\ row.best = Min(winners)
      /\ row.delta = [n \in DOMAIN runs |-> IF {n, base} \subseteq present THEN {value(n) - value(base)} ELSE {}]
  BY DEF Row
<1> HIDE DEF quantity, row, value
<1>5. values \in SUBSET Nat /\ values # {} /\ IsFiniteSet(values)
  <2> DEFINE f == [n \in carry |-> value(n)]
  <2>1. f \in Surjection(carry, values)
    BY <1>1 DEF Surjection
  <2>2. IsFiniteSet(carry)
    <3>1. IsFiniteSet(1..k) /\ carry \in SUBSET (1..k)
      BY <1>3, FS_Interval
    <3> HIDE DEF carry
    <3> QED
      BY <3>1, FS_Subset
  <2>3. IsFiniteSet(values)
    <3> HIDE DEF f, values, carry
    <3> QED
      BY <2>1, <2>2, FS_Surjection
  <2>4. \A n \in present : value(n) \in Nat
    BY <1>1, <1>2
  <2>5. present # {}
    BY <1>1, <1>3
  <2> HIDE DEF present
  <2> QED
    BY <2>3, <2>4, <2>5
<1> HIDE DEF present, values
<1>6. best \in values /\ \A v \in values : IF o.better = "min" THEN best <= v ELSE best >= v
  <2>1. Min(values) \in values /\ \A v \in values : Min(values) <= v
    BY <1>5, MinIsLeast
  <2>2. values \in SUBSET Int
    BY <1>5
  <2>3. Max(values) \in values /\ \A v \in values : v <= Max(values)
    BY <1>5, <2>2, MaxIsGreatest
  <2>4. \A v \in values : v <= Max(values) => Max(values) >= v
    BY <1>5, <2>3
  <2> QED
    BY <2>1, <2>3, <2>4
<1> HIDE DEF best
<1>7. row.best \in carry /\ value(row.best) = best
  <2>1. winners # {} /\ winners \in SUBSET Nat
    BY <1>1, <1>3, <1>6 DEF values
  <2>2. Min(winners) \in winners
    <3> HIDE DEF winners
    <3> QED
      BY <2>1, MinIsLeast
  <2> QED
    BY <1>1, <1>4, <2>2
<1>8. \A n \in carry : quantity(n) \in values
  BY <1>1, <1>2 DEF values
<1>9. \A n \in carry : IF o.better = "min" THEN quantity(row.best) <= quantity(n)
                                          ELSE quantity(row.best) >= quantity(n)
  BY <1>2, <1>6, <1>7, <1>8
<1>10. base \in carry => \A n \in carry : row.delta[n] = {quantity(n) - quantity(base)}
  BY <1>1, <1>2, <1>4
<1> QED
  BY <1>9, <1>10 DEF RowFair, quantity, row

LEMMA BesideIsFair ==
  ASSUME NEW inputs, AreResolved(inputs), NEW requested
  PROVE  LET answered == CompareReports(inputs, requested)
         IN  /\ ComparisonFair(inputs, requested, answered)
             /\ answered.skipped \cup ToSet(ValidPlaces(inputs)) = DOMAIN inputs
<1> DEFINE answered == CompareReports(inputs, requested)
           runs == Runs(inputs)
           places == ValidPlaces(inputs)
           valid == {n \in DOMAIN inputs : IsValid(inputs[n])}
           base == Baseline(inputs, requested)
           shown == {o \in ToSet(Compared) : Cardinality({n \in DOMAIN runs : RowValue(runs[n], o) # {}}) >= 2}
<1>1. PICK k \in Nat : DOMAIN runs = 1..k /\ DOMAIN places = 1..k
  BY RunsAreReports
<1>2. \A n \in DOMAIN runs : IsReport(runs[n])
  BY RunsAreReports
<1>3. answered.rows \subseteq {Row(runs, o, base) : o \in shown} /\ answered.skipped = Skipped(inputs)
  BY DEF CompareReports, Rows
<1>4. ToSet(places) = valid
  <2>1. /\ places \in [1..Cardinality(valid) -> valid]
        /\ \A p \in valid : \E n \in 1..Cardinality(valid) : places[n] = p
    BY ValidInOrder
  <2> HIDE DEF places, valid
  <2> QED
    BY <2>1 DEF ToSet
<1>5. \A m, n \in DOMAIN places : places[m] = places[n] => m = n
  BY ValidInOrder
<1>6. Skipped(inputs) \cup valid = DOMAIN inputs
  BY DEF Skipped, IsValid, Loads
<1>7. \A b \in DOMAIN runs : places[b] = requested => base = b
  BY <1>1, <1>5 DEF Baseline
<1> HIDE DEF runs, places, valid, base, shown, answered
<1>8. ASSUME NEW row \in answered.rows
      PROVE  LET carry == {n \in DOMAIN runs : Value(runs[n], row.metric) # Nothing}
             IN  /\ \A n \in carry : IF row.metric.better = "min"
                      THEN Physical(runs[row.best], row.metric) <= Physical(runs[n], row.metric)
                      ELSE Physical(runs[row.best], row.metric) >= Physical(runs[n], row.metric)
                 /\ \A b \in {n \in DOMAIN runs : places[n] = requested} \cap carry, n \in carry :
                      row.delta[n] = {Physical(runs[n], row.metric) - Physical(runs[b], row.metric)}
  <2>1. PICK o \in shown : row = Row(runs, o, base)
    BY <1>3
  <2>2. row.metric = o
    BY <2>1 DEF Row
  <2>3. o \in ToSet(Objectives) /\ Cardinality({n \in DOMAIN runs : RowValue(runs[n], o) # {}}) >= 2
    BY DEF shown, Compared
  <2>4. {n \in DOMAIN runs : RowValue(runs[n], o) # {}} # {}
    BY <2>3, FS_EmptySet
  <2>5. \E n \in DOMAIN runs : Value(runs[n], o) # Nothing
    BY <2>4 DEF RowValue
  <2> DEFINE carry == {n \in DOMAIN runs : Value(runs[n], o) # Nothing}
  <2>6. /\ \A n \in carry : IF o.better = "min"
             THEN Physical(runs[row.best], o) <= Physical(runs[n], o)
             ELSE Physical(runs[row.best], o) >= Physical(runs[n], o)
        /\ base \in carry => \A n \in carry : row.delta[n] = {Physical(runs[n], o) - Physical(runs[base], o)}
    <3>1. RowFair(runs, o, base, row)
      BY <1>1, <1>2, <2>1, <2>3, <2>5, RowIsFair
    <3> QED
      BY <3>1 DEF RowFair
  <2>7. \A b \in {n \in DOMAIN runs : places[n] = requested} \cap carry, n \in carry :
          row.delta[n] = {Physical(runs[n], o) - Physical(runs[b], o)}
    BY <1>7, <2>6
  <2> HIDE DEF carry
  <2> QED
    BY <2>2, <2>6, <2>7 DEF carry
<1>9. ComparisonFair(inputs, requested, answered)
  BY <1>8 DEF ComparisonFair, runs, places
<1> QED
  BY <1>3, <1>4, <1>6, <1>9 DEF answered, places

\* The runs that speak for a metric are of the harnesses that measured it, and those are
\* named.
LEMMA AcrossIsNamed ==
  ASSUME NEW runs, NEW k \in Nat, DOMAIN runs = 1..k
  PROVE  LET across == CompareAcross(runs)
         IN  /\ \A o \in across.shared :
                  Cardinality({runs[n].harness : n \in across.speakers[o]} \ {"unknown"}) >= 2
             /\ across.shared # {} => across.compared
<1> DEFINE across == CompareAcross(runs)
           harnesses == {runs[n].harness : n \in DOMAIN runs} \ {"unknown"}
           voices(h, o) == {n \in DOMAIN runs : runs[n].harness = h /\ Value(runs[n], o) # Nothing}
<1>1. /\ \A o \in across.shared : /\ Cardinality(MeasuredBy(runs, o)) >= 2
                                  /\ across.speakers[o] = {Speaker(runs, h, o) : h \in MeasuredBy(runs, o)}
      /\ across.compared = (Cardinality(harnesses) >= 2)
  BY DEF CompareAcross
<1> HIDE DEF across
<1>2. ASSUME NEW o PROVE MeasuredBy(runs, o) \in SUBSET harnesses
  BY DEF MeasuredBy
<1>3. ASSUME NEW o, NEW h \in MeasuredBy(runs, o)
      PROVE  h # "unknown" /\ Speaker(runs, h, o) \in DOMAIN runs /\ runs[Speaker(runs, h, o)].harness = h
  <2>1. voices(h, o) # {} /\ voices(h, o) \in SUBSET Nat
    BY <1>3 DEF MeasuredBy
  <2>2. Min(voices(h, o)) \in voices(h, o)
    <3> HIDE DEF voices
    <3> QED
      BY <2>1, MinIsLeast
  <2>3. h # "unknown"
    BY <1>3 DEF MeasuredBy
  <2> QED
    BY <2>2, <2>3 DEF Speaker
<1>4. ASSUME NEW o \in across.shared
      PROVE  {runs[n].harness : n \in across.speakers[o]} \ {"unknown"} = MeasuredBy(runs, o)
  <2>1. {runs[n].harness : n \in across.speakers[o]} = {runs[Speaker(runs, h, o)].harness : h \in MeasuredBy(runs, o)}
    BY <1>1
  <2>2. {runs[Speaker(runs, h, o)].harness : h \in MeasuredBy(runs, o)} = MeasuredBy(runs, o)
    BY <1>3
  <2>3. "unknown" \notin MeasuredBy(runs, o)
    BY DEF MeasuredBy
  <2> QED
    BY <2>1, <2>2, <2>3
<1>5. IsFiniteSet(harnesses)
  <2> DEFINE all == {runs[n].harness : n \in DOMAIN runs}
             f == [n \in 1..k |-> runs[n].harness]
  <2>1. f \in Surjection(1..k, all)
    BY DEF Surjection
  <2>2. IsFiniteSet(1..k)
    BY FS_Interval
  <2> HIDE DEF f
  <2>3. IsFiniteSet(all)
    <3> HIDE DEF all
    <3> QED
      BY <2>1, <2>2, FS_Surjection
  <2>4. harnesses \in SUBSET all
    OBVIOUS
  <2> HIDE DEF all, harnesses
  <2> QED
    BY <2>3, <2>4, FS_Subset
<1>6. ASSUME NEW o \in across.shared PROVE Cardinality(harnesses) >= 2
  <2>1. MeasuredBy(runs, o) \in SUBSET harnesses
    BY <1>2
  <2> HIDE DEF harnesses
  <2>2. Cardinality(MeasuredBy(runs, o)) <= Cardinality(harnesses) /\ IsFiniteSet(MeasuredBy(runs, o))
    BY <1>5, <2>1, FS_Subset
  <2>3. Cardinality(MeasuredBy(runs, o)) \in Nat /\ Cardinality(harnesses) \in Nat
    BY <1>5, <2>2, FS_CardinalityType
  <2> QED
    BY <1>1, <2>2, <2>3
<1> HIDE DEF harnesses
<1> QED
  BY <1>1, <1>4, <1>6 DEF across

\* A comparison names the run that is really best and measures every delta from the run
\* that was asked for, in whatever units and with whatever reports dropped; a metric is
\* cross-validated only by runs of two named harnesses.
THEOREM ComparisonIsFair == VerdictSpec => []ComparedFairly
<1>1. Told => ComparedFairly
  <2> SUFFICES ASSUME Told, topic = "compare", answer # <<>> PROVE ComparedFairly
    BY DEF ComparedFairly, Answered
  <2> DEFINE inputs == Resolve(question.sources, question.experiment)
  <2>1. question \in Asked("compare")
    BY DEF Told, Asked
  <2>2. AreResolved(inputs)
    BY <2>1, ResolvedInputs, QuestionsAssumption
  <2>3. Result = [beside |-> CompareReports(inputs, question.requested), across |-> CompareAcross(Runs(inputs))]
    BY DEF Told, Answered
  <2> HIDE DEF inputs
  <2>4. Result.beside = CompareReports(inputs, question.requested) /\ Result.across = CompareAcross(Runs(inputs))
    BY <2>3
  <2>5. PICK k \in Nat : DOMAIN Runs(inputs) = 1..k
    BY <2>2, RunsAreReports
  <2> HIDE DEF Result
  <2>6. /\ ComparisonFair(inputs, question.requested, Result.beside)
        /\ Result.beside.skipped \cup ToSet(ValidPlaces(inputs)) = DOMAIN inputs
    BY <2>2, <2>4, BesideIsFair
  <2>7. /\ \A o \in Result.across.shared :
             Cardinality({Runs(inputs)[n].harness : n \in Result.across.speakers[o]} \ {"unknown"}) >= 2
        /\ Result.across.shared # {} => Result.across.compared
    BY <2>4, <2>5, AcrossIsNamed
  <2> QED
    BY <2>6, <2>7 DEF ComparedFairly, inputs
<1> HIDE DEF Told, ComparedFairly
<1> QED
  BY <1>1, ToldAlways, PTL
-----------------------------------------------------------------------------
(* A sweep. *)

\* Being better on an objective is a strict order of the values, and a value is a number.
LEMMA ValuesAreIntegers ==
  ASSUME NEW run, IsRun(run), NEW o
  PROVE  Value(run, o) \in Int
BY ValueIsNumber DEF Nothing

\* Domination is irreflexive and transitive.
LEMMA DominationIsStrict ==
  ASSUME NEW a, IsRun(a), NEW b, IsRun(b), NEW c, IsRun(c), NEW deciding
  PROVE  /\ ~Dominates(a, a, deciding)
         /\ Dominates(a, b, deciding) /\ Dominates(b, c, deciding) => Dominates(a, c, deciding)
<1>1. \A o : Value(a, o) \in Int /\ Value(b, o) \in Int /\ Value(c, o) \in Int
  BY ValuesAreIntegers
<1>2. \A o : ~Better(a, a, o)
  BY <1>1 DEF Better
<1>3. \A o : ~Better(b, a, o) /\ ~Better(c, b, o) => ~Better(c, a, o)
  BY <1>1 DEF Better
<1>4. \A o : Better(a, b, o) /\ ~Better(c, b, o) => Better(a, c, o)
  BY <1>1 DEF Better
<1> QED
  BY <1>2, <1>3, <1>4 DEF Dominates

\* Whatever is left out is beaten by a run that is starred: of the runs that beat it, one
\* that the fewest others beat.
LEMMA StarredAreFrontier ==
  ASSUME NEW runs, IsFiniteSet(DOMAIN runs), \A n \in DOMAIN runs : IsRun(runs[n]),
         NEW among \in SUBSET DOMAIN runs
  PROVE  FrontierCovers(runs, among, Frontier(runs, among))
<1> DEFINE deciding == Deciding(runs)
           starred == Frontier(runs, among)
           placed == {i \in among : deciding # {} /\ Placeable(runs[i], deciding)}
           beats(i) == {j \in among : Dominates(runs[j], runs[i], deciding)}
<1> HIDE DEF deciding
<1>1. starred = {i \in placed : \A j \in among \ {i} : ~Dominates(runs[j], runs[i], deciding)}
  BY DEF Frontier, deciding
<1> HIDE DEF starred
<1>2. \A i \in among : IsRun(runs[i])
  OBVIOUS
<1>3. \A i \in among : i \notin beats(i)
  BY <1>2, DominationIsStrict
<1>4. \A i \in placed : i \in starred <=> beats(i) = {}
  BY <1>1, <1>3
<1>5. ASSUME NEW i \in among PROVE IsFiniteSet(beats(i)) /\ Cardinality(beats(i)) \in Nat
  <2>1. beats(i) \in SUBSET DOMAIN runs
    OBVIOUS
  <2> HIDE DEF beats
  <2> QED
    BY <2>1, FS_Subset, FS_CardinalityType
<1>6. ASSUME NEW i \in among, NEW j \in beats(i) PROVE beats(j) \in SUBSET beats(i)
  BY <1>2, DominationIsStrict
<1>7. ASSUME NEW i \in placed \ starred PROVE \E j \in starred : Dominates(runs[j], runs[i], deciding)
  <2> DEFINE counts == {Cardinality(beats(j)) : j \in beats(i)}
  <2>1. beats(i) # {} /\ i \in among /\ \A j \in beats(i) : j \in among
    BY <1>4
  <2>2. \A j \in beats(i) : j \in placed
    BY DEF Dominates
  <2> HIDE DEF beats
  <2>3. counts \in SUBSET Nat /\ counts # {}
    BY <1>5, <2>1
  <2>4. Min(counts) \in counts /\ \A n \in counts : Min(counts) <= n
    <3> HIDE DEF counts
    <3> QED
      BY <2>3, MinIsLeast
  <2>5. PICK j \in beats(i) : Cardinality(beats(j)) = Min(counts)
    BY <2>4
  <2>6. \A l \in beats(i) : Cardinality(beats(j)) <= Cardinality(beats(l))
    BY <2>4, <2>5
  <2>7. ASSUME beats(j) # {} PROVE FALSE
    <3>1. PICK l : l \in beats(j)
      BY <2>7
    <3>2. l \in beats(i) /\ j \in among /\ l \in among
      BY <1>6, <2>1, <3>1
    <3>3. beats(l) \in SUBSET beats(j) /\ l \notin beats(l)
      BY <1>3, <1>6, <3>1, <3>2
    <3>4. IsFiniteSet(beats(j)) /\ Cardinality(beats(l)) \in Nat /\ Cardinality(beats(j)) \in Nat
      BY <1>5, <3>2
    <3>5. Cardinality(beats(l)) <= Cardinality(beats(j)) /\ Cardinality(beats(l)) # Cardinality(beats(j))
      BY <3>1, <3>3, <3>4, FS_Subset
    <3> QED
      BY <2>6, <3>2, <3>4, <3>5
  <2>8. j \in starred
    BY <1>4, <2>2, <2>7
  <2> QED
    BY <2>5, <2>8 DEF beats
<1>8. ASSUME NEW i \in starred, NEW j \in starred, \E o \in deciding : Better(runs[i], runs[j], o)
      PROVE  \E o \in deciding : Better(runs[j], runs[i], o)
  <2>1. i \in placed /\ j \in placed /\ beats(j) = {}
    BY <1>1, <1>4
  <2>2. ~Dominates(runs[i], runs[j], deciding)
    BY <2>1
  <2> QED
    BY <1>8, <2>1, <2>2 DEF Dominates
<1>9. starred \subseteq placed
  BY <1>1
<1> QED
  BY <1>7, <1>8, <1>9 DEF FrontierCovers, starred, deciding

LEMMA SweepIsTrue ==
  ASSUME NEW runs, IsFiniteSet(DOMAIN runs), \A n \in DOMAIN runs : IsRun(runs[n]), NEW slo
  PROVE  LET answered == Pareto(runs, slo)
         IN  /\ FrontierCovers(runs, DOMAIN runs, answered.frontier)
             /\ FrontierCovers(runs, answered.feasible, answered.sloFrontier)
             /\ answered.frontier \cap answered.feasible \subseteq answered.sloFrontier
             /\ \A i \in answered.sloFrontier : OverallMet(runs[i], slo)
<1> DEFINE answered == Pareto(runs, slo)
           fit == Feasible(runs, slo)
<1>1. answered.frontier = Frontier(runs, DOMAIN runs) /\ answered.feasible = fit
      /\ answered.sloFrontier = Frontier(runs, fit)
  BY DEF Pareto
<1>2. fit \in SUBSET DOMAIN runs /\ \A i \in fit : OverallMet(runs[i], slo)
  BY DEF Feasible
<1> HIDE DEF answered, fit
<1>3. Frontier(runs, DOMAIN runs) \cap fit \subseteq Frontier(runs, fit) /\ Frontier(runs, fit) \subseteq fit
  BY <1>2 DEF Frontier
<1>4. /\ FrontierCovers(runs, DOMAIN runs, Frontier(runs, DOMAIN runs))
      /\ FrontierCovers(runs, fit, Frontier(runs, fit))
  BY <1>2, StarredAreFrontier
<1> QED
  BY <1>1, <1>2, <1>3, <1>4 DEF answered

\* The block that is read off a report is one of its own.
Block(report, fields, keys) == StandardMetric(fields, keys, report.components, report.native)

LEMMA StandardFieldFirst ==
  ASSUME NEW fields, NEW components, DOMAIN fields \subseteq Nat, DOMAIN components \subseteq Nat,
         NEW c \in DOMAIN components, NEW f \in DOMAIN fields, fields[f] \in DOMAIN components[c]
  PROVE  \E p \in (DOMAIN components) \X (DOMAIN fields) :
           /\ fields[p[2]] \in DOMAIN components[p[1]]
           /\ StandardField(fields, components) = {p}
<1> DEFINE places == {p \in (DOMAIN components) \X (DOMAIN fields) : fields[p[2]] \in DOMAIN components[p[1]]}
           First(p) == \A q \in places : p[2] < q[2] \/ (p[2] = q[2] /\ p[1] <= q[1])
           seconds == {p[2] : p \in places}
           firsts == {p[1] : p \in {p \in places : p[2] = Min(seconds)}}
<1>1. <<c, f>> \in places
  OBVIOUS
<1>2. \A p \in places : p[1] \in Nat /\ p[2] \in Nat
  OBVIOUS
<1>3. StandardField(fields, components) = {CHOOSE p \in places : First(p)}
  BY <1>1 DEF StandardField
<1> HIDE DEF places
<1>4. seconds \in SUBSET Nat /\ seconds # {}
  BY <1>1, <1>2
<1>5. Min(seconds) \in seconds /\ \A n \in seconds : Min(seconds) <= n
  <2> HIDE DEF seconds
  <2> QED
    BY <1>4, MinIsLeast
<1>6. \A p \in places : Min(seconds) <= p[2]
  BY <1>5
<1>7. \E p \in places : p[2] = Min(seconds)
  BY <1>5
<1> HIDE DEF seconds
<1>8. firsts \in SUBSET Nat /\ firsts # {}
  BY <1>2, <1>7
<1>9. Min(firsts) \in firsts /\ \A n \in firsts : Min(firsts) <= n
  <2> HIDE DEF firsts
  <2> QED
    BY <1>8, MinIsLeast
<1>10. PICK p \in places : p[2] = Min(seconds) /\ p[1] = Min(firsts)
  BY <1>9
<1>11. \A q \in places : q[2] = Min(seconds) => Min(firsts) <= q[1]
  BY <1>9
<1>12. First(p)
  <2> SUFFICES ASSUME NEW q \in places PROVE p[2] < q[2] \/ (p[2] = q[2] /\ p[1] <= q[1])
    OBVIOUS
  <2>1. p[2] \in Nat /\ q[2] \in Nat /\ p[2] <= q[2]
    BY <1>2, <1>6, <1>10
  <2>2. q[2] = p[2] => p[1] <= q[1]
    BY <1>10, <1>11
  <2> QED
    BY <2>1, <2>2
<1>13. (CHOOSE q \in places : First(q)) \in places
  BY <1>12
<1> QED
  BY <1>3, <1>13 DEF places

LEMMA NativeBlocks ==
  ASSUME NEW entry, DOMAIN entry.components \subseteq Nat,
         \A b \in {entry.aggregated} \cup Range(entry.components) : \A stats \in b : Measured(stats)
  PROVE  \A stats \in NativeStat(entry) : Measured(stats)
<1> DEFINE blocks == {n \in DOMAIN entry.components : entry.components[n] # {}}
<1>1. blocks # {} => Min(blocks) \in DOMAIN entry.components
  <2>1. blocks \in SUBSET Nat
    OBVIOUS
  <2>2. blocks # {} => Min(blocks) \in blocks
    <3> HIDE DEF blocks
    <3> QED
      BY <2>1, MinIsLeast
  <2> QED
    BY <2>2
<1>2. NativeStat(entry) = IF entry.aggregated # {} THEN entry.aggregated
                          ELSE IF blocks # {} THEN entry.components[Min(blocks)] ELSE {}
  BY DEF NativeStat
<1>3. \A n \in DOMAIN entry.components : entry.components[n] \in Range(entry.components)
  BY DEF Range
<1> HIDE DEF blocks
<1> QED
  BY <1>1, <1>2, <1>3

LEMMA BlockIsMeasured ==
  ASSUME NEW report, IsReadable(report), NEW fields, NEW keys, DOMAIN fields \subseteq Nat, DOMAIN keys \subseteq Nat
  PROVE  \A stats \in Block(report, fields, keys) : Measured(stats)
<1> DEFINE components == report.components
           native == report.native
           present == {n \in DOMAIN keys : keys[n] \in DOMAIN native /\ NativeStat(native[keys[n]]) # {}}
           place == StandardField(fields, components)
<1>1. Block(report, fields, keys) =
        IF place # {} THEN {components[p[1]][fields[p[2]]] : p \in place}
        ELSE IF present # {} THEN NativeStat(native[keys[Min(present)]]) ELSE {}
  BY DEF Block, StandardMetric
<1>2. CASE place # {}
  <2>1. \E c \in DOMAIN components, f \in DOMAIN fields : fields[f] \in DOMAIN components[c]
    BY <1>2 DEF StandardField
  <2>2. DOMAIN components \subseteq Nat
    BY DEF IsReadable
  <2> HIDE DEF place, components
  <2>3. PICK p \in (DOMAIN components) \X (DOMAIN fields) :
           fields[p[2]] \in DOMAIN components[p[1]] /\ StandardField(fields, components) = {p}
    BY <2>1, <2>2, StandardFieldFirst
  <2>4. Block(report, fields, keys) = {components[p[1]][fields[p[2]]]}
    BY <1>1, <1>2, <2>3 DEF place
  <2>5. p[1] \in DOMAIN components
    BY <2>3
  <2> QED
    BY <2>3, <2>4, <2>5 DEF IsReadable, components
<1>3. CASE place = {} /\ present # {}
  <2>1. present \in SUBSET Nat
    OBVIOUS
  <2>2. Min(present) \in present
    <3> HIDE DEF present
    <3> QED
      BY <1>3, <2>1, MinIsLeast
  <2>3. keys[Min(present)] \in DOMAIN native
    BY <2>2
  <2>4. \A stats \in NativeStat(native[keys[Min(present)]]) : Measured(stats)
    BY <2>3, NativeBlocks DEF IsReadable
  <2> HIDE DEF present, place
  <2> QED
    BY <1>1, <1>3, <2>4
<1>4. CASE place = {} /\ present = {}
  <2> HIDE DEF present, place
  <2> QED
    BY <1>1, <1>4
<1> QED
  BY <1>2, <1>3, <1>4

\* What is read off a report is the representative statistic of its block.
LEMMA ReadValue ==
  ASSUME NEW report, IsReadable(report), NEW fields, NEW keys, DOMAIN fields \subseteq Nat, DOMAIN keys \subseteq Nat
  PROVE  LET block == Block(report, fields, keys)
             value == ValueOf(Read(report, fields, keys).standard, "itl")
         IN  /\ value = IF block = {} THEN Nothing ELSE Representative(CHOOSE v \in block : TRUE)
             /\ value \in Nat \cup {Nothing}
<1> DEFINE block == Block(report, fields, keys)
           value == ValueOf(Read(report, fields, keys).standard, "itl")
<1>1. Read(report, fields, keys).standard =
        [m \in (IF block = {} THEN {} ELSE {"itl"}) |-> [units |-> "ms", stats |-> CHOOSE v \in block : TRUE]]
  BY DEF Read, Block
<1>2. \A v \in block : Representative(v) \in Nat \cup {Nothing}
  BY BlockIsMeasured, RepresentativeIsNumber
<1> HIDE DEF block
<1>3. value = IF block = {} THEN Nothing ELSE Representative(CHOOSE v \in block : TRUE)
  BY <1>1 DEF ValueOf
<1> QED
  BY <1>2, <1>3 DEF block

\* The leader has the least value of the runs that have one.
LEMMA LeaderLeads ==
  ASSUME NEW runs, DOMAIN runs \subseteq Nat,
         \A i \in DOMAIN runs : ValueOf(runs[i].standard, "itl") \in Nat \cup {Nothing},
         Leader(runs, Itl) # 0
  PROVE  /\ Leader(runs, Itl) \in DOMAIN runs
         /\ \A i \in DOMAIN runs : ValueOf(runs[i].standard, "itl") # Nothing =>
              ValueOf(runs[Leader(runs, Itl)].standard, "itl") <= ValueOf(runs[i].standard, "itl")
<1> DEFINE value(i) == ValueOf(runs[i].standard, "itl")
           present == {i \in DOMAIN runs : value(i) # Nothing}
           values == {value(i) : i \in present}
           winners == {i \in present : value(i) = Min(values)}
<1>1. Leader(runs, Itl) = IF present = {} THEN 0 ELSE Min(winners)
  BY DEF Leader, Itl, Objective
<1> HIDE DEF value
<1>2. \A i \in DOMAIN runs : value(i) \in Nat \cup {Nothing}
  BY DEF value
<1>3. present # {} /\ Leader(runs, Itl) = Min(winners)
  BY <1>1
<1>4. values \in SUBSET Nat /\ values # {} /\ \A i \in present : value(i) \in values
  BY <1>2, <1>3
<1> HIDE DEF values
<1>5. Min(values) \in values /\ \A v \in values : Min(values) <= v
  BY <1>4, MinIsLeast
<1>6. winners \in SUBSET Nat /\ winners # {}
  BY <1>5 DEF values
<1>7. Min(winners) \in winners
  <2> HIDE DEF winners
  <2> QED
    BY <1>6, MinIsLeast
<1>8. Leader(runs, Itl) \in DOMAIN runs /\ value(Leader(runs, Itl)) = Min(values)
  BY <1>3, <1>7
<1>9. \A i \in DOMAIN runs : value(i) # Nothing => Min(values) <= value(i)
  BY <1>4, <1>5
<1> QED
  BY <1>8, <1>9 DEF value

\* Which of the conditional steps are offered.
StepNames == {"save_baseline", "compare_to_baseline", "trend_metric", "run_again", "run_sweep",
              "analyze_with_plots", "teardown"}

LEMMA StepOffered ==
  ASSUME NEW condition, NEW step \in StepNames
  PROVE  When(condition, step) \in Seq(StepNames) /\ ToSet(When(condition, step)) \subseteq {step}
         /\ (step \in ToSet(When(condition, step)) <=> condition)
<1>1. <<step>> \in Seq(StepNames) /\ ToSet(<<step>>) = {step} /\ <<>> \in Seq(StepNames) /\ ToSet(<<>>) = {}
  BY DEF ToSet
<1> QED
  BY <1>1 DEF When

LEMMA StepsOffered ==
  ASSUME NEW n, NEW missed, NEW stored, NEW prior
  PROVE  /\ "save_baseline" \in ToSet(NextSteps(n, missed, stored, prior)) <=> ~stored
         /\ "compare_to_baseline" \in ToSet(NextSteps(n, missed, stored, prior)) <=> n = 1 /\ prior >= 1
<1> DEFINE run == IF missed THEN "run_again" ELSE "run_sweep"
           a == When(~stored, "save_baseline")
           b == When(n = 1 /\ prior >= 1, "compare_to_baseline")
           c == When(n # 1 \/ prior >= 1, "trend_metric")
           d == When(n = 1, run)
           e == <<"analyze_with_plots", "teardown">>
<1>1. /\ a \in Seq(StepNames) /\ ToSet(a) \subseteq {"save_baseline"} /\ ("save_baseline" \in ToSet(a) <=> ~stored)
  BY StepOffered DEF StepNames
<1>2. /\ b \in Seq(StepNames) /\ ToSet(b) \subseteq {"compare_to_baseline"}
      /\ "compare_to_baseline" \in ToSet(b) <=> n = 1 /\ prior >= 1
  BY StepOffered DEF StepNames
<1>3. c \in Seq(StepNames) /\ ToSet(c) \subseteq {"trend_metric"}
  BY StepOffered DEF StepNames
<1>4. d \in Seq(StepNames) /\ ToSet(d) \subseteq {"run_again", "run_sweep"}
  <2>1. run \in StepNames /\ run \in {"run_again", "run_sweep"}
    BY DEF StepNames
  <2> HIDE DEF run
  <2> QED
    BY <2>1, StepOffered
<1>5. e \in Seq(StepNames) /\ ToSet(e) = {"analyze_with_plots", "teardown"}
  BY DEF StepNames, ToSet
<1> DEFINE ab == a \o b
           abc == ab \o c
           abcd == abc \o d
           steps == NextSteps(n, missed, stored, prior)
<1>6. steps = abcd \o e
  BY DEF NextSteps
<1> HIDE DEF a, b, c, d, e, abcd, steps
<1>7. ab \in Seq(StepNames) /\ ToSet(ab) = ToSet(a) \cup ToSet(b)
  BY <1>1, <1>2, ToSetOfBoth
<1> HIDE DEF ab
<1>8. abc \in Seq(StepNames) /\ ToSet(abc) = ToSet(ab) \cup ToSet(c)
  BY <1>3, <1>7, ToSetOfBoth
<1> HIDE DEF abc
<1>9. abcd \in Seq(StepNames) /\ ToSet(abcd) = ToSet(abc) \cup ToSet(d)
  BY <1>4, <1>8, ToSetOfBoth DEF abcd
<1>10. ToSet(steps) = ToSet(abcd) \cup ToSet(e)
  BY <1>5, <1>6, <1>9, ToSetOfBoth
<1>11. ToSet(steps) = ToSet(a) \cup ToSet(b) \cup ToSet(c) \cup ToSet(d) \cup ToSet(e)
  BY <1>7, <1>8, <1>9, <1>10
<1>12. "save_baseline" \in ToSet(steps) <=> ~stored
  BY <1>1, <1>2, <1>3, <1>4, <1>5, <1>11
<1>13. "compare_to_baseline" \in ToSet(steps) <=> n = 1 /\ prior >= 1
  BY <1>1, <1>2, <1>3, <1>4, <1>5, <1>11
<1> QED
  BY <1>12, <1>13 DEF steps

\* The same run leads however a harness spells the metric.
LEMMA LeaderIsTrue ==
  ASSUME NEW reports, reports \in Seq(Range(reports)), NEW fields, NEW keys,
         DOMAIN fields \subseteq Nat, DOMAIN keys \subseteq Nat,
         \A n \in DOMAIN reports : IsReadable(reports[n])
  PROVE  LeaderTrue(reports, fields, keys, Leader([n \in DOMAIN reports |-> Read(reports[n], fields, keys)], Itl))
<1> DEFINE runs == [n \in DOMAIN reports |-> Read(reports[n], fields, keys)]
           leader == Leader(runs, Itl)
           standard(n) == UNION {{Representative(reports[n].components[c][f]) :
                                    f \in ToSet(fields) \cap DOMAIN reports[n].components[c]} :
                                   c \in DOMAIN reports[n].components}
           value(n) == ValueOf(Read(reports[n], fields, keys).standard, "itl")
           block(n) == Block(reports[n], fields, keys)
<1> SUFFICES ASSUME leader # 0, NEW n \in DOMAIN reports, standard(n) # {}, Nothing \notin standard(n)
             PROVE  \E v \in standard(n) : value(leader) <= v
  BY DEF LeaderTrue
<1>1. DOMAIN runs \subseteq Nat /\ DOMAIN runs = DOMAIN reports
  OBVIOUS
<1>2. \A i \in DOMAIN reports : /\ value(i) \in Nat \cup {Nothing}
                                /\ value(i) = IF block(i) = {} THEN Nothing
                                              ELSE Representative(CHOOSE v \in block(i) : TRUE)
  BY ReadValue
<1>3. \A i \in DOMAIN reports : ValueOf(runs[i].standard, "itl") = value(i)
  OBVIOUS
<1>4. value(n) \in standard(n)
  <2>1. PICK c \in DOMAIN reports[n].components, f \in ToSet(fields) : f \in DOMAIN reports[n].components[c]
    OBVIOUS
  <2>2. PICK k \in DOMAIN fields : fields[k] = f
    BY DEF ToSet
  <2>3. DOMAIN reports[n].components \subseteq Nat
    BY DEF IsReadable
  <2>4. PICK p \in (DOMAIN reports[n].components) \X (DOMAIN fields) :
          /\ fields[p[2]] \in DOMAIN reports[n].components[p[1]]
          /\ StandardField(fields, reports[n].components) = {p}
    BY <2>1, <2>2, <2>3, StandardFieldFirst
  <2>5. block(n) = {reports[n].components[p[1]][fields[p[2]]]}
    BY <2>4 DEF Block, StandardMetric
  <2>6. value(n) = Representative(reports[n].components[p[1]][fields[p[2]]])
    BY <1>2, <2>5
  <2>7. p[1] \in DOMAIN reports[n].components /\ fields[p[2]] \in ToSet(fields)
    BY <2>4 DEF ToSet
  <2> HIDE DEF value, block
  <2> QED
    BY <2>4, <2>6, <2>7
<1> HIDE DEF standard, value, block
<1>5. value(n) # Nothing
  BY <1>4
<1> HIDE DEF runs
<1>6. leader \in DOMAIN reports /\ value(leader) <= value(n)
  BY <1>1, <1>2, <1>3, <1>5, LeaderLeads
<1> QED
  BY <1>4, <1>6

LEMMA SummaryIsTrue ==
  ASSUME NEW reports, reports \in Seq(Range(reports)), NEW fields, NEW keys, NEW records, NEW missed
  PROVE  StepsTrue(reports, records, ToSet(Summarized(reports, fields, keys, records, missed).steps))
<1> DEFINE answered == Summarized(reports, fields, keys, records, missed)
           runs == [n \in DOMAIN reports |-> Read(reports[n], fields, keys)]
           analyzed == {[uid |-> runs[n].uid, model |-> runs[n].model] : n \in DOMAIN runs}
           prior == ComparablePrior(analyzed, records)
           others == {r \in records : /\ \E a \in analyzed : a.model = r.model
                                      /\ \A a \in analyzed : a.uid # r.uid}
<1>1. answered.steps = NextSteps(Len(runs), missed, AlreadyStored(analyzed, records), prior)
  BY DEF Summarized
<1>2. \A n \in DOMAIN reports : runs[n].uid = reports[n].uid
  BY DEF Read
<1>3. DOMAIN runs = DOMAIN reports
  OBVIOUS
<1>4. prior = Cardinality(others)
  BY DEF ComparablePrior
<1> HIDE DEF answered, runs
<1>5. /\ \A n \in DOMAIN reports : \E a \in analyzed : a.uid = reports[n].uid
      /\ \A a \in analyzed : \E n \in DOMAIN reports : a.uid = reports[n].uid
  <2>1. ASSUME NEW n \in DOMAIN runs PROVE \E a \in analyzed : a.uid = runs[n].uid
    <3> DEFINE a == [uid |-> runs[n].uid, model |-> runs[n].model]
    <3>1. a \in analyzed /\ a.uid = runs[n].uid
      OBVIOUS
    <3> HIDE DEF a, analyzed
    <3> QED
      BY <3>1
  <2>2. \A a \in analyzed : \E n \in DOMAIN runs : a.uid = runs[n].uid
    OBVIOUS
  <2> HIDE DEF analyzed
  <2> QED
    BY <1>2, <1>3, <2>1, <2>2
<1> HIDE DEF analyzed, prior
<1>6. AlreadyStored(analyzed, records) <=> \E n \in DOMAIN reports, r \in records : r.uid = reports[n].uid
  BY <1>5 DEF AlreadyStored
<1>7. ASSUME prior >= 1 PROVE \E r \in records : \A n \in DOMAIN reports : reports[n].uid # r.uid
  <2>1. others # {}
    <3>1. ~(0 >= 1)
      OBVIOUS
    <3> HIDE DEF others
    <3> QED
      BY <1>4, <1>7, <3>1, FS_EmptySet
  <2> QED
    BY <1>5, <2>1
<1>8. /\ "save_baseline" \in ToSet(answered.steps) <=> ~AlreadyStored(analyzed, records)
      /\ "compare_to_baseline" \in ToSet(answered.steps) => prior >= 1
  BY <1>1, StepsOffered
<1> QED
  BY <1>6, <1>7, <1>8 DEF StepsTrue, answered

\* Of a sweep the starred runs are those that no other beats on both axes, overall and
\* among the runs that meet their targets; of a summary the leader has the least value,
\* and what is offered next fits what is saved.
THEOREM FrontierIsTrue == VerdictSpec => []FrontierTrue
<1>1. Told => FrontierTrue
  <2> SUFFICES ASSUME Told PROVE FrontierTrue
    OBVIOUS
  <2>1. ASSUME Answered("sweep")
        PROVE  /\ FrontierCovers(question.runs, DOMAIN question.runs, Result.frontier)
               /\ FrontierCovers(question.runs, Result.feasible, Result.sloFrontier)
               /\ Result.frontier \cap Result.feasible \subseteq Result.sloFrontier
               /\ \A i \in Result.sloFrontier : OverallMet(question.runs[i], question.slo)
    <3>1. question \in Asked("sweep") /\ Result = Pareto(question.runs, question.slo)
      BY <2>1 DEF Told, Answered, Asked
    <3>2. IsFiniteSet(DOMAIN question.runs) /\ \A n \in DOMAIN question.runs : IsRun(question.runs[n])
      BY <3>1, QuestionsAssumption
    <3> HIDE DEF Result
    <3> QED
      BY <3>1, <3>2, SweepIsTrue
  <2>2. ASSUME Answered("summary")
        PROVE  /\ LeaderTrue(question.reports, question.fields, question.keys, Result.leader)
               /\ StepsTrue(question.reports, question.records, ToSet(Result.steps))
    <3>1. /\ question \in Asked("summary")
          /\ Result = Summarized(question.reports, question.fields, question.keys, question.records, question.missed)
      BY <2>2 DEF Told, Answered, Asked
    <3>2. /\ question.reports \in Seq(Range(question.reports))
          /\ DOMAIN question.fields \subseteq Nat /\ DOMAIN question.keys \subseteq Nat
          /\ \A n \in DOMAIN question.reports : IsReadable(question.reports[n])
      BY <3>1, QuestionsAssumption
    <3> HIDE DEF Result
    <3>3. Result.leader =
            Leader([n \in DOMAIN question.reports |-> Read(question.reports[n], question.fields, question.keys)], Itl)
      BY <3>1 DEF Summarized
    <3>4. LeaderTrue(question.reports, question.fields, question.keys, Result.leader)
      BY <3>2, <3>3, LeaderIsTrue
    <3> QED
      BY <3>1, <3>2, <3>4, SummaryIsTrue
  <2> QED
    BY <2>1, <2>2 DEF FrontierTrue
<1> HIDE DEF Told, FrontierTrue
<1> QED
  BY <1>1, ToldAlways, PTL
-----------------------------------------------------------------------------
(* One run against its targets. *)

LEMMA Shares == \A k \in DOMAIN Share : Share[k] \in Nat /\ Share[k] <= 10000
<1>1. DOMAIN Share = {"p0p1", "p1", "p5", "p10", "p25", "p50", "p75", "p90", "p95", "p99", "p99p9"}
  BY DEF Share
<1>2. /\ Share["p0p1"] = 10 /\ Share["p1"] = 100 /\ Share["p5"] = 500 /\ Share["p10"] = 1000
      /\ Share["p25"] = 2500 /\ Share["p50"] = 5000 /\ Share["p75"] = 7500 /\ Share["p90"] = 9000
      /\ Share["p95"] = 9500 /\ Share["p99"] = 9900 /\ Share["p99p9"] = 9990
  BY DEF Share
<1> QED
  BY <1>1, <1>2

LEMMA Times ==
  ASSUME NEW y \in Nat, NEW a \in Int, NEW b \in Int, a <= b
  PROVE  y * a \in Int /\ y * b \in Int /\ y * a <= y * b
OBVIOUS

LEMMA Quotient ==
  ASSUME NEW x \in Int, NEW y \in Nat \ {0}
  PROVE  x \div y \in Int /\ y * (x \div y) <= x /\ x < y * (x \div y) + y
OBVIOUS

\* A quotient is bounded by what its numerator is bounded by, and does not fall with it.
LEMMA QuotientGrows ==
  ASSUME NEW x \in Int, NEW z \in Int, x <= z, NEW y \in Nat \ {0}
  PROVE  x \div y <= z \div y
<1> DEFINE p == x \div y
           q == z \div y
<1>1. p \in Int /\ q \in Int /\ y * p <= x /\ z < y * q + y
  BY Quotient
<1> HIDE DEF p, q
<1>2. ASSUME q + 1 <= p PROVE FALSE
  <2>1. y * (q + 1) <= y * p /\ y * (q + 1) \in Int /\ y * p \in Int
    BY <1>1, <1>2, Times
  <2>2. y * (q + 1) = y * q + y /\ y * q \in Int
    BY <1>1
  <2> QED
    BY <1>1, <2>1, <2>2
<1>3. p <= q
  BY <1>1, <1>2
<1> QED
  BY <1>3 DEF p, q

LEMMA QuotientBetween ==
  ASSUME NEW x \in Nat, NEW y \in Nat \ {0}, NEW r \in Nat, x < y * (r + 1)
  PROVE  0 <= x \div y /\ x \div y <= r
<1> DEFINE q == x \div y
<1>1. q \in Int /\ y * q <= x /\ x < y * q + y
  BY Quotient
<1> HIDE DEF q
<1>2. ASSUME q <= -1 PROVE FALSE
  <2>1. y * q <= y * (-1) /\ y * q \in Int
    BY <1>1, <1>2, Times
  <2> QED
    BY <1>1, <2>1
<1>3. ASSUME r + 1 <= q PROVE FALSE
  <2>1. y * (r + 1) <= y * q /\ y * q \in Int /\ y * (r + 1) \in Int
    BY <1>1, <1>3, Times
  <2> QED
    BY <1>1, <2>1
<1>4. 0 <= q /\ q <= r
  BY <1>1, <1>2, <1>3
<1> QED
  BY <1>4 DEF q

\* The percentiles of a metric that are values: the higher, the slower.
IsLadder(lat) ==
  /\ DOMAIN lat \subseteq DOMAIN Share /\ \A k \in DOMAIN lat : lat[k] \in Nat
  /\ \A j, k \in DOMAIN lat : Share[j] <= Share[k] => lat[j] <= lat[k]

LEMMA StatIsNumber ==
  ASSUME NEW metric, Measured(metric.stats), NEW stat
  PROVE  Stat(metric, stat) \in Nat \cup {Nothing}
<1>1. \A u \in DOMAIN Factor : Factor[u] \in Nat
  BY DEF Factor
<1>2. CASE stat \in DOMAIN metric.stats
  <2>1. metric.stats[stat] \in Nat
    BY <1>2 DEF Measured
  <2> QED
    BY <1>1, <1>2, <2>1 DEF Stat, Convert
<1> QED
  BY <1>2 DEF Stat

Ladder(metric) ==
  LET rungs == {k \in DOMAIN metric.stats \cap DOMAIN Share : Stat(metric, k) # Nothing}
  IN  [k \in rungs |-> Stat(metric, k)]

LEMMA LadderRises ==
  ASSUME NEW metric, Measured(metric.stats), Rising(metric.stats)
  PROVE  IsLadder(Ladder(metric))
<1> DEFINE lat == Ladder(metric)
           rungs == {k \in DOMAIN metric.stats \cap DOMAIN Share : Stat(metric, k) # Nothing}
           units == metric.units
<1>1. lat = [k \in rungs |-> Stat(metric, k)]
  BY DEF Ladder
<1>2. \A k \in rungs : k \in DOMAIN metric.stats /\ k \in DOMAIN Share /\ Stat(metric, k) \in Nat
  BY StatIsNumber
<1>3. ASSUME NEW j \in rungs, NEW k \in rungs, Share[j] <= Share[k] PROVE Stat(metric, j) <= Stat(metric, k)
  <2>1. /\ metric.stats[j] \in Nat /\ metric.stats[k] \in Nat /\ metric.stats[j] <= metric.stats[k]
        /\ Stat(metric, j) = Convert(metric.stats[j], units) /\ Stat(metric, k) = Convert(metric.stats[k], units)
    BY <1>2, <1>3 DEF Measured, Rising, Stat
  <2>2. CASE units = "none"
    BY <2>1, <2>2 DEF Convert
  <2>3. CASE units # "none" /\ units \in DOMAIN Factor
    <3>1. Factor[units] \in Nat
      BY <2>3 DEF Factor
    <3>2. Factor[units] * metric.stats[j] <= Factor[units] * metric.stats[k]
      BY <2>1, <3>1, Times
    <3>3. \A v \in Nat : Factor[units] * v = v * Factor[units]
      BY <3>1
    <3> QED
      BY <2>1, <2>3, <3>2, <3>3 DEF Convert
  <2>4. CASE units # "none" /\ units \notin DOMAIN Factor
    BY <1>2, <2>1, <2>4 DEF Convert
  <2> QED
    BY <2>2, <2>3, <2>4
<1> HIDE DEF lat, rungs
<1> QED
  BY <1>1, <1>2, <1>3 DEF IsLadder, lat

\* On a ladder the first and the last of some rungs are those of the least and of the
\* greatest share.
LEMMA LadderOrder ==
  ASSUME NEW lat, IsLadder(lat), NEW rungs \in SUBSET DOMAIN lat, rungs # {}
  PROVE  /\ Lowest(lat, rungs) \in rungs /\ \A j \in rungs : Share[Lowest(lat, rungs)] <= Share[j]
         /\ Highest(lat, rungs) \in rungs /\ \A j \in rungs : Share[j] <= Share[Highest(lat, rungs)]
<1>1. \A j \in rungs : lat[j] \in Nat /\ Share[j] \in Nat /\ Share[j] <= 10000
  BY Shares DEF IsLadder
<1>2. \A j, k \in rungs : UpTo(lat, j, k) <=> Share[j] <= Share[k]
  <2> SUFFICES ASSUME NEW j \in rungs, NEW k \in rungs PROVE UpTo(lat, j, k) <=> Share[j] <= Share[k]
    OBVIOUS
  <2>1. Share[j] <= Share[k] => lat[j] <= lat[k]
    BY DEF IsLadder
  <2>2. Share[k] <= Share[j] => lat[k] <= lat[j]
    BY DEF IsLadder
  <2> QED
    BY <1>1, <2>1, <2>2 DEF UpTo
<1> DEFINE shares == {Share[k] : k \in rungs}
           rest == {10000 - Share[k] : k \in rungs}
<1>3. PICK low \in rungs : \A j \in rungs : Share[low] <= Share[j]
  <2>1. shares \in SUBSET Nat /\ shares # {}
    BY <1>1
  <2>2. Min(shares) \in shares /\ \A n \in shares : Min(shares) <= n
    <3> HIDE DEF shares
    <3> QED
      BY <2>1, MinIsLeast
  <2> QED
    BY <2>2
<1>4. PICK high \in rungs : \A j \in rungs : Share[j] <= Share[high]
  <2>1. rest \in SUBSET Nat /\ rest # {}
    BY <1>1
  <2>2. \E m \in rest : \A n \in rest : m <= n
    <3> HIDE DEF rest
    <3> QED
      BY <2>1, MinIsLeast
  <2>3. PICK m \in rest : \A n \in rest : m <= n
    BY <2>2
  <2>4. PICK k \in rungs : m = 10000 - Share[k]
    OBVIOUS
  <2>5. \A j \in rungs : Share[j] <= Share[k]
    <3>1. \A j \in rungs : 10000 - Share[k] <= 10000 - Share[j]
      BY <2>3, <2>4
    <3> QED
      BY <1>1, <3>1
  <2> QED
    BY <2>5
<1>5. Lowest(lat, rungs) \in rungs /\ \A j \in rungs : UpTo(lat, Lowest(lat, rungs), j)
  BY <1>2, <1>3 DEF Lowest
<1>6. Highest(lat, rungs) \in rungs /\ \A j \in rungs : UpTo(lat, j, Highest(lat, rungs))
  BY <1>2, <1>4 DEF Highest
<1> QED
  BY <1>2, <1>5, <1>6

\* Between two rungs the share is between theirs, and grows with the target.
LEMMA Interpolation ==
  ASSUME NEW lat, IsLadder(lat), NEW low \in DOMAIN lat, NEW high \in DOMAIN lat,
         NEW s \in Nat, NEW t \in Nat, lat[low] < s, s <= t, t <= lat[high]
  PROVE  /\ Interpolated(lat, low, high, s) \in Int
         /\ Share[low] <= Interpolated(lat, low, high, s)
         /\ Interpolated(lat, low, high, s) <= Interpolated(lat, low, high, t)
         /\ Interpolated(lat, low, high, t) <= Share[high]
<1> DEFINE span == lat[high] - lat[low]
           rise == Share[high] - Share[low]
           over(x) == 2 * (x - lat[low]) * rise + span
           double == 2 * span
           part(x) == over(x) \div double
<1>1. /\ lat[low] \in Nat /\ lat[high] \in Nat /\ Share[low] \in Nat /\ Share[high] \in Nat
      /\ Share[high] <= Share[low] => lat[high] <= lat[low]
  BY Shares DEF IsLadder
<1>2. span \in Nat \ {0} /\ rise \in Nat /\ double = span + span /\ double \in Nat \ {0} /\ s - lat[low] \in Nat /\ t - lat[low] \in Nat
      /\ t - lat[low] <= span /\ s - lat[low] <= t - lat[low]
  BY <1>1
<1>3. \A x : Interpolated(lat, low, high, x) = Share[low] + part(x)
  BY DEF Interpolated
<1> HIDE DEF span, rise, double
<1> DEFINE ds == s - lat[low]
           dt == t - lat[low]
<1>4. /\ 2 * ds * rise = rise * (2 * ds) /\ 2 * dt * rise = rise * (2 * dt)
      /\ 2 * ds \in Nat /\ 2 * dt \in Nat /\ 2 * ds <= 2 * dt /\ 2 * dt <= double
  BY <1>2
<1>5. rise * (2 * ds) \in Nat /\ rise * (2 * ds) <= rise * (2 * dt) /\ rise * (2 * dt) <= rise * double
      /\ rise * (2 * dt) \in Nat /\ rise * double \in Nat
  BY <1>2, <1>4, Times
<1>6. over(s) = rise * (2 * ds) + span /\ over(t) = rise * (2 * dt) + span
  BY <1>4
<1>7. over(s) \in Nat /\ over(t) \in Nat /\ over(s) <= over(t) /\ over(t) <= rise * double + span
  BY <1>2, <1>5, <1>6
<1> HIDE DEF over
<1>8. part(s) \in Int /\ part(t) \in Int /\ part(s) <= part(t)
  BY <1>2, <1>7, Quotient, QuotientGrows
<1>9. 0 <= part(s) /\ part(t) <= rise
  <2>1. over(s) < double * (rise + 1) /\ over(t) < double * (rise + 1)
    <3>1. double * (rise + 1) = rise * double + double /\ span < double
      BY <1>2
    <3> QED
      BY <1>2, <1>5, <1>7, <3>1
  <2> QED
    BY <1>2, <1>7, <2>1, QuotientBetween
<1> HIDE DEF part
<1>10. Share[high] = Share[low] + rise
  BY <1>1 DEF rise
<1> QED
  BY <1>1, <1>2, <1>3, <1>8, <1>9, <1>10

\* What the ladder brackets: below a rung that is beyond the target, at least that of a
\* rung within it, and no less for a looser target.
LEMMA WithinBrackets ==
  ASSUME NEW lat, IsLadder(lat), DOMAIN lat # {}, NEW target \in Nat
  PROVE  LET first == Lowest(lat, DOMAIN lat)
             last  == Highest(lat, DOMAIN lat)
             low   == Highest(lat, {k \in DOMAIN lat : lat[k] < target})
             high  == Lowest(lat, {k \in DOMAIN lat : lat[k] >= target})
         IN  \/ target < lat[first] /\ ShareWithin(lat, target) = 0
             \/ target = lat[first] /\ ShareWithin(lat, target) = Share[first]
             \/ target > lat[first] /\ target >= lat[last] /\ ShareWithin(lat, target) = Share[last]
             \/ /\ target > lat[first] /\ target < lat[last]
                /\ low \in DOMAIN lat /\ lat[low] < target
                /\ \A k \in DOMAIN lat : lat[k] < target => Share[k] <= Share[low]
                /\ high \in DOMAIN lat /\ target <= lat[high]
                /\ \A k \in DOMAIN lat : target <= lat[k] => Share[high] <= Share[k]
                /\ ShareWithin(lat, target) = Interpolated(lat, low, high, target)
<1> DEFINE rungs == DOMAIN lat
           first == Lowest(lat, rungs)
           last  == Highest(lat, rungs)
           within == {k \in rungs : lat[k] < target}
           beyond == {k \in rungs : lat[k] >= target}
           low   == Highest(lat, within)
           high  == Lowest(lat, beyond)
<1>1. ShareWithin(lat, target) =
        IF target < lat[first] THEN 0
        ELSE IF target = lat[first] THEN Share[first]
        ELSE IF target >= lat[last] THEN Share[last]
        ELSE Interpolated(lat, low, high, target)
  BY DEF ShareWithin
<1>2. \A k \in rungs : lat[k] \in Nat
  BY DEF IsLadder
<1>3. first \in rungs /\ last \in rungs
  BY LadderOrder
<1>4. ASSUME target > lat[first], target < lat[last]
      PROVE  /\ low \in within /\ \A k \in within : Share[k] <= Share[low]
             /\ high \in beyond /\ \A k \in beyond : Share[high] <= Share[k]
  <2>1. first \in within /\ last \in beyond
    BY <1>2, <1>3, <1>4
  <2>2. within \in SUBSET rungs /\ beyond \in SUBSET rungs
    OBVIOUS
  <2> HIDE DEF within, beyond, first, last
  <2> QED
    BY <2>1, <2>2, LadderOrder
<1>5. \A k \in rungs : /\ k \in within <=> lat[k] < target
                       /\ k \in beyond <=> target <= lat[k]
  BY <1>2
<1>6. within \subseteq rungs /\ beyond \subseteq rungs
  OBVIOUS
<1> SUFFICES \/ target < lat[first] /\ ShareWithin(lat, target) = 0
             \/ target = lat[first] /\ ShareWithin(lat, target) = Share[first]
             \/ target > lat[first] /\ target >= lat[last] /\ ShareWithin(lat, target) = Share[last]
             \/ /\ target > lat[first] /\ target < lat[last]
                /\ low \in rungs /\ lat[low] < target
                /\ \A k \in rungs : lat[k] < target => Share[k] <= Share[low]
                /\ high \in rungs /\ target <= lat[high]
                /\ \A k \in rungs : target <= lat[k] => Share[high] <= Share[k]
                /\ ShareWithin(lat, target) = Interpolated(lat, low, high, target)
  OBVIOUS
<1> HIDE DEF first, last, within, beyond, low, high
<1>7. lat[first] \in Nat /\ lat[last] \in Nat
  BY <1>2, <1>3
<1>8. CASE target > lat[first] /\ target < lat[last]
  <2>1. ShareWithin(lat, target) = Interpolated(lat, low, high, target)
    BY <1>1, <1>7, <1>8
  <2>2. low \in rungs /\ lat[low] < target /\ \A k \in rungs : lat[k] < target => Share[k] <= Share[low]
    BY <1>4, <1>5, <1>6, <1>8
  <2>3. high \in rungs /\ target <= lat[high] /\ \A k \in rungs : target <= lat[k] => Share[high] <= Share[k]
    BY <1>4, <1>5, <1>6, <1>8
  <2> QED
    BY <1>8, <2>1, <2>2, <2>3
<1>9. CASE ~(target > lat[first] /\ target < lat[last])
  BY <1>1, <1>7, <1>9
<1> QED
  BY <1>8, <1>9

LEMMA WithinIsShare ==
  ASSUME NEW lat, IsLadder(lat), NEW target \in Nat
  PROVE  /\ ShareWithin(lat, target) \in Int
         /\ DOMAIN lat # {} => 0 <= ShareWithin(lat, target)
         /\ \A k \in DOMAIN lat : lat[k] > target => ShareWithin(lat, target) <= Share[k]
         /\ \A k \in DOMAIN lat : lat[k] < target => ShareWithin(lat, target) >= Share[k]
<1>1. CASE DOMAIN lat = {}
  BY <1>1 DEF ShareWithin, Nothing
<1>2. CASE DOMAIN lat # {}
  <2> DEFINE within == ShareWithin(lat, target)
             first == Lowest(lat, DOMAIN lat)
             last  == Highest(lat, DOMAIN lat)
             low   == Highest(lat, {k \in DOMAIN lat : lat[k] < target})
             high  == Lowest(lat, {k \in DOMAIN lat : lat[k] >= target})
  <2>1. \/ target < lat[first] /\ within = 0
        \/ target = lat[first] /\ within = Share[first]
        \/ target > lat[first] /\ target >= lat[last] /\ within = Share[last]
        \/ /\ target > lat[first] /\ target < lat[last]
           /\ low \in DOMAIN lat /\ lat[low] < target
           /\ \A k \in DOMAIN lat : lat[k] < target => Share[k] <= Share[low]
           /\ high \in DOMAIN lat /\ target <= lat[high]
           /\ \A k \in DOMAIN lat : target <= lat[k] => Share[high] <= Share[k]
           /\ within = Interpolated(lat, low, high, target)
    BY <1>2, WithinBrackets
  <2>2. /\ first \in DOMAIN lat /\ \A k \in DOMAIN lat : Share[first] <= Share[k]
        /\ last \in DOMAIN lat /\ \A k \in DOMAIN lat : Share[k] <= Share[last]
    BY <1>2, LadderOrder
  <2>3. \A k \in DOMAIN lat : lat[k] \in Nat /\ Share[k] \in Nat
    BY Shares DEF IsLadder
  <2>4. \A k \in DOMAIN lat : lat[first] <= lat[k] /\ lat[k] <= lat[last]
    BY <2>2 DEF IsLadder
  <2> HIDE DEF within, first, last, low, high
  <2>5. CASE target < lat[first] /\ within = 0
    BY <2>2, <2>3, <2>4, <2>5 DEF within
  <2>6. CASE target = lat[first] /\ within = Share[first]
    BY <2>2, <2>3, <2>4, <2>6 DEF within
  <2>7. CASE target > lat[first] /\ target >= lat[last] /\ within = Share[last]
    BY <2>2, <2>3, <2>4, <2>7 DEF within
  <2>8. CASE /\ target > lat[first] /\ target < lat[last]
             /\ low \in DOMAIN lat /\ lat[low] < target
             /\ \A k \in DOMAIN lat : lat[k] < target => Share[k] <= Share[low]
             /\ high \in DOMAIN lat /\ target <= lat[high]
             /\ \A k \in DOMAIN lat : target <= lat[k] => Share[high] <= Share[k]
             /\ within = Interpolated(lat, low, high, target)
    <3>1. within \in Int /\ Share[low] <= within /\ within <= Share[high]
      BY <2>8, Interpolation
    <3>2. ASSUME NEW k \in DOMAIN lat, lat[k] > target PROVE within <= Share[k]
      BY <2>3, <2>8, <3>1, <3>2
    <3>3. ASSUME NEW k \in DOMAIN lat, lat[k] < target PROVE within >= Share[k]
      BY <2>3, <2>8, <3>1, <3>3
    <3>4. 0 <= within
      BY <2>3, <2>8, <3>1
    <3> QED
      BY <3>1, <3>2, <3>3, <3>4 DEF within
  <2> QED
    BY <2>1, <2>5, <2>6, <2>7, <2>8
<1> QED
  BY <1>1, <1>2

\* A looser target never lowers the share: either the two lie between the same rungs, or
\* a rung lies between them.
LEMMA WithinGrows ==
  ASSUME NEW lat, IsLadder(lat), NEW s \in Nat, NEW t \in Nat, s <= t
  PROVE  ShareWithin(lat, s) <= ShareWithin(lat, t)
<1>1. ShareWithin(lat, s) \in Int /\ ShareWithin(lat, t) \in Int
  BY WithinIsShare
<1>2. CASE s = t
  BY <1>1, <1>2
<1>3. CASE DOMAIN lat = {}
  BY <1>3 DEF ShareWithin, Nothing
<1>4. ASSUME s < t, DOMAIN lat # {} PROVE ShareWithin(lat, s) <= ShareWithin(lat, t)
  <2> DEFINE first == Lowest(lat, DOMAIN lat)
             last == Highest(lat, DOMAIN lat)
             low(x) == Highest(lat, {k \in DOMAIN lat : lat[k] < x})
             high(x) == Lowest(lat, {k \in DOMAIN lat : lat[k] >= x})
  <2>1. \A k \in DOMAIN lat : lat[k] \in Nat /\ Share[k] \in Nat
    BY Shares DEF IsLadder
  <2>2. /\ first \in DOMAIN lat /\ \A k \in DOMAIN lat : Share[first] <= Share[k] /\ lat[first] <= lat[k]
        /\ last \in DOMAIN lat /\ \A k \in DOMAIN lat : Share[k] <= Share[last] /\ lat[k] <= lat[last]
    BY <1>4, LadderOrder DEF IsLadder
  <2>3. \/ s < lat[first] /\ ShareWithin(lat, s) = 0
        \/ s = lat[first] /\ ShareWithin(lat, s) = Share[first]
        \/ s > lat[first] /\ s >= lat[last] /\ ShareWithin(lat, s) = Share[last]
        \/ /\ s > lat[first] /\ s < lat[last]
           /\ low(s) \in DOMAIN lat /\ lat[low(s)] < s
           /\ high(s) \in DOMAIN lat /\ s <= lat[high(s)]
           /\ \A k \in DOMAIN lat : s <= lat[k] => Share[high(s)] <= Share[k]
           /\ ShareWithin(lat, s) = Interpolated(lat, low(s), high(s), s)
    BY <1>4, WithinBrackets
  <2>4. \/ t < lat[first]
        \/ t = lat[first]
        \/ t > lat[first] /\ t >= lat[last] /\ ShareWithin(lat, t) = Share[last]
        \/ t > lat[first] /\ t < lat[last] /\ ShareWithin(lat, t) = Interpolated(lat, low(t), high(t), t)
    BY <1>4, WithinBrackets
  <2>5. /\ 0 <= ShareWithin(lat, t)
        /\ \A k \in DOMAIN lat : lat[k] < t => Share[k] <= ShareWithin(lat, t)
    BY <1>4, WithinIsShare
  <2>6. ASSUME \A k \in DOMAIN lat : s <= lat[k] => ~(lat[k] < t)
        PROVE  low(s) = low(t) /\ high(s) = high(t)
    <3>1. \A k \in DOMAIN lat : (lat[k] < s <=> lat[k] < t) /\ (lat[k] >= s <=> lat[k] >= t)
      BY <1>4, <2>1, <2>6
    <3>2. {k \in DOMAIN lat : lat[k] < s} = {k \in DOMAIN lat : lat[k] < t}
      BY <3>1
    <3>3. {k \in DOMAIN lat : lat[k] >= s} = {k \in DOMAIN lat : lat[k] >= t}
      BY <3>1
    <3> QED
      BY <3>2, <3>3
  <2> HIDE DEF first, last, low, high
  <2>7. CASE s < lat[first] /\ ShareWithin(lat, s) = 0
    BY <2>5, <2>7
  <2>8. CASE s = lat[first] /\ ShareWithin(lat, s) = Share[first]
    BY <1>4, <2>2, <2>5, <2>8
  <2>9. CASE s > lat[first] /\ s >= lat[last] /\ ShareWithin(lat, s) = Share[last]
    <3>1. lat[last] < t
      BY <1>4, <2>1, <2>2, <2>9
    <3> QED
      BY <2>2, <2>5, <2>9, <3>1
  <2>10. CASE /\ s > lat[first] /\ s < lat[last]
              /\ low(s) \in DOMAIN lat /\ lat[low(s)] < s
              /\ high(s) \in DOMAIN lat /\ s <= lat[high(s)]
              /\ \A k \in DOMAIN lat : s <= lat[k] => Share[high(s)] <= Share[k]
              /\ ShareWithin(lat, s) = Interpolated(lat, low(s), high(s), s)
    <3>1. ShareWithin(lat, s) <= Share[high(s)]
      <4>1. Interpolated(lat, low(s), high(s), s) <= Share[high(s)]
        BY <2>10, Interpolation
      <4> QED
        BY <2>10, <4>1
    <3>2. Share[high(s)] \in Nat
      BY <2>1, <2>10
    <3>3. CASE \E k \in DOMAIN lat : s <= lat[k] /\ lat[k] < t
      <4>1. PICK k \in DOMAIN lat : s <= lat[k] /\ lat[k] < t
        BY <3>3
      <4>2. Share[high(s)] <= Share[k] /\ Share[k] <= ShareWithin(lat, t) /\ Share[k] \in Nat
        BY <2>1, <2>5, <2>10, <4>1
      <4> QED
        BY <1>1, <3>1, <3>2, <4>2
    <3>4. CASE \A k \in DOMAIN lat : s <= lat[k] => ~(lat[k] < t)
      <4>1. t <= lat[high(s)] /\ t > lat[first]
        BY <1>4, <2>1, <2>2, <2>10, <3>4
      <4>2. CASE t >= lat[last] /\ ShareWithin(lat, t) = Share[last]
        <5>1. Share[high(s)] <= Share[last] /\ Share[last] \in Nat
          BY <2>1, <2>2, <2>10
        <5> QED
          BY <1>1, <3>1, <3>2, <4>2, <5>1
      <4>3. CASE ShareWithin(lat, t) = Interpolated(lat, low(t), high(t), t)
        <5>1. ShareWithin(lat, t) = Interpolated(lat, low(s), high(s), t)
          BY <2>6, <3>4, <4>3
        <5>2. Interpolated(lat, low(s), high(s), s) <= Interpolated(lat, low(s), high(s), t)
          BY <1>4, <2>10, <4>1, Interpolation
        <5> QED
          BY <2>10, <5>1, <5>2
      <4>4. lat[first] \in Nat
        BY <2>1, <2>2
      <4> QED
        BY <2>4, <4>1, <4>2, <4>3, <4>4
    <3> QED
      BY <3>3, <3>4
  <2> QED
    BY <2>3, <2>7, <2>8, <2>9, <2>10
<1>5. s = t \/ s < t
  OBVIOUS
<1> QED
  BY <1>2, <1>3, <1>4, <1>5

\* The goodput of a metric is read off its ladder.
LEMMA GoodputOfLadder ==
  ASSUME NEW metric, NEW target
  PROVE  Goodput(metric, target) = ShareWithin(Ladder(metric), target)
BY DEF Goodput, Ladder

\* A quotient that is at least some number comes of a numerator that is.
LEMMA QuotientReaches ==
  ASSUME NEW x \in Int, NEW y \in Nat \ {0}, NEW n \in Int, n <= x \div y
  PROVE  y * n <= x
<1> DEFINE q == x \div y
<1>1. q \in Int /\ y * q <= x
  BY Quotient
<1> HIDE DEF q
<1>2. n <= q
  BY DEF q
<1>3. y * n <= y * q /\ y * n \in Int /\ y * q \in Int
  BY <1>1, <1>2, Times
<1> QED
  BY <1>1, <1>3

\* The verdict and the estimate never contradict each other.
LEMMA VerdictsDoAgree ==
  ASSUME NEW run, IsRun(run), \A m \in DOMAIN run.metrics : Rising(run.metrics[m].stats),
         NEW slo, IsTarget(slo)
  PROVE  VerdictsAgree(run, slo)
<1> SUFFICES ASSUME NEW k \in Limited(run, slo), slo.at \in DOMAIN Share, Stat(run.metrics[k], slo.at) # Nothing
             PROVE  /\ Stat(run.metrics[k], slo.at) > slo.latency[k] =>
                         Goodput(run.metrics[k], slo.latency[k]) <= Share[slo.at] /\ ~OverallMet(run, slo)
                    /\ Stat(run.metrics[k], slo.at) < slo.latency[k] =>
                         Goodput(run.metrics[k], slo.latency[k]) >= Share[slo.at]
  BY DEF VerdictsAgree
<1> DEFINE metric == run.metrics[k]
           target == slo.latency[k]
           lat == Ladder(metric)
<1>1. k \in DOMAIN run.metrics /\ k \in DOMAIN slo.latency /\ target \in Nat
  BY DEF Limited, IsTarget
<1>2. IsLadder(lat)
  BY <1>1, LadderRises DEF IsRun
<1>3. slo.at \in DOMAIN lat /\ lat[slo.at] = Stat(metric, slo.at)
  BY DEF Ladder, Stat
<1>4. lat[slo.at] \in Nat
  BY <1>2, <1>3 DEF IsLadder
<1>5. Goodput(metric, target) = ShareWithin(lat, target)
  BY GoodputOfLadder
<1> HIDE DEF lat, metric, target
<1>6. /\ lat[slo.at] > target => ShareWithin(lat, target) <= Share[slo.at]
      /\ lat[slo.at] < target => ShareWithin(lat, target) >= Share[slo.at]
  BY <1>1, <1>2, <1>3, WithinIsShare
<1>7. ASSUME Stat(metric, slo.at) > target PROVE ~OverallMet(run, slo)
  <2>1. ~(Stat(metric, slo.at) <= target)
    BY <1>1, <1>3, <1>4, <1>7
  <2>2. (Stat(metric, slo.at) <= target) \in LatencyGates(run, slo)
    BY DEF LatencyGates, metric, target
  <2>3. OverallMet(run, slo) => (Stat(metric, slo.at) <= target) \in {TRUE}
    BY <2>2, Zenon DEF OverallMet, Gates
  <2>4. (Stat(metric, slo.at) <= target) \in {TRUE} => Stat(metric, slo.at) <= target
    BY Zenon
  <2> QED
    BY <2>1, <2>3, <2>4
<1> QED
  BY <1>3, <1>5, <1>6, <1>7 DEF metric, target

\* What a run that meets its targets was judged by.
LEMMA MetIsMeasured ==
  ASSUME NEW run, NEW slo, OverallMet(run, slo)
  PROVE  /\ \/ \E k \in Limited(run, slo) : Stat(run.metrics[k], slo.at) # Nothing
            \/ slo.floor # Nothing /\ Rate(run) # Nothing
            \/ slo.success # Nothing /\ run.success # Nothing
         /\ slo.success # Nothing /\ run.success # Nothing => run.success >= slo.success
<1>1. LatencyGates(run, slo) # {} => \E k \in Limited(run, slo) : Stat(run.metrics[k], slo.at) # Nothing
  BY DEF LatencyGates
<1>2. \A v, floor : FloorGates(v, floor) # {} => floor # Nothing /\ v # Nothing
  BY DEF FloorGates
<1>3. LatencyGates(run, slo) # {} \/ FloorGates(Rate(run), slo.floor) # {} \/ FloorGates(run.success, slo.success) # {}
  BY DEF OverallMet, Gates
<1>4. ASSUME slo.success # Nothing, run.success # Nothing PROVE run.success >= slo.success
  <2>1. FloorGates(run.success, slo.success) = {run.success >= slo.success}
    BY <1>4, Zenon DEF FloorGates
  <2>2. FloorGates(run.success, slo.success) \subseteq {TRUE}
    BY Zenon DEF OverallMet, Gates
  <2> QED
    BY <2>1, <2>2, Zenon
<1> QED
  BY <1>1, <1>2, <1>3, <1>4

\* The verdict of a run against its targets and its goodput never contradict each other,
\* a pass rests on a measured target and on the success rate asked for, and looser is
\* never worse.
THEOREM TargetsAreJudged == VerdictSpec => []TargetsJudged
<1>1. Told => TargetsJudged
  <2> SUFFICES ASSUME Told, topic = "run", answer # <<>> PROVE TargetsJudged
    BY DEF TargetsJudged, Answered
  <2> DEFINE run == Summary(question.run)
             slo == question.slo
             total == question.run.total
             failures == question.run.failures
  <2>1. question \in Asked("run")
    BY DEF Told, Asked
  <2>2. /\ IsRun(question.run) /\ IsTarget(slo) /\ question.targets \subseteq Nat
        /\ \A m \in DOMAIN question.run.metrics : Rising(question.run.metrics[m].stats)
        /\ total \in Nat /\ failures \in 0..total
    BY <2>1, QuestionsAssumption
  <2>3. Result.met = OverallMet(run, slo)
    BY DEF Told, Answered
  <2>4. run.metrics = question.run.metrics
    BY DEF Summary
  <2>5. total > 0 => run.success = (20000 * (total - failures) + total) \div (2 * total)
    BY <2>2 DEF Summary, SuccessRate
  <2> HIDE DEF Result, run, slo, total, failures
  <2>6. IsRun(run) /\ \A m \in DOMAIN run.metrics : Rising(run.metrics[m].stats)
    BY <2>2, <2>4 DEF IsRun
  <2>7. VerdictsAgree(run, slo)
    BY <2>2, <2>6, VerdictsDoAgree
  <2>8. ASSUME NEW k \in Limited(run, slo) PROVE EstimateMonotone(run.metrics[k], question.targets)
    <3>1. k \in DOMAIN run.metrics
      BY DEF Limited
    <3>2. IsLadder(Ladder(run.metrics[k]))
      BY <2>6, <3>1, LadderRises DEF IsRun
    <3> QED
      BY <2>2, <3>2, GoodputOfLadder, WithinGrows DEF EstimateMonotone
  <2>9. Result.met => \/ \E k \in Limited(run, slo) : Stat(run.metrics[k], slo.at) # Nothing
                      \/ slo.floor # Nothing /\ Rate(run) # Nothing
                      \/ slo.success # Nothing /\ run.success # Nothing
    BY <2>3, MetIsMeasured
  <2>10. ASSUME Result.met, slo.success # Nothing, total > 0
         PROVE  20000 * (total - failures) >= (2 * slo.success - 1) * total
    <3>1. slo.success \in Nat
      BY <2>2, <2>10 DEF IsTarget
    <3>2. total \in Nat \ {0}
      BY <2>2, <2>10
    <3> DEFINE rate == (20000 * (total - failures) + total) \div (2 * total)
    <3> DEFINE sum == 20000 * (total - failures) + total
    <3>3. 2 * total \in Nat \ {0} /\ sum \in Nat /\ sum < (2 * total) * (20000 + 1)
      <4>1. failures \in Nat /\ failures <= total
        BY <2>2
      <4> QED
        BY <3>2, <4>1
    <3>4. rate \in Int /\ run.success = rate /\ rate # Nothing
      <4>1. rate = sum \div (2 * total) /\ run.success = rate
        BY <2>5, <2>10
      <4> HIDE DEF rate, sum
      <4>2. rate \in Int /\ 0 <= rate
        BY <3>3, <4>1, Quotient, QuotientBetween
      <4> QED
        BY <4>1, <4>2 DEF Nothing
    <3> HIDE DEF rate
    <3>5. rate >= slo.success
      BY <2>3, <2>10, <3>4, MetIsMeasured
    <3> DEFINE met == total - failures
    <3>6. met \in Nat /\ sum = 20000 * met + total
      BY <2>2
    <3>7. rate = sum \div (2 * total)
      BY DEF rate
    <3> HIDE DEF sum, met
    <3>8. slo.success <= rate
      BY <3>1, <3>4, <3>5
    <3>9. (2 * total) * slo.success <= sum
      <4> DEFINE twice == 2 * total
      <4>1. twice \in Nat \ {0} /\ sum \in Int /\ slo.success <= sum \div twice
        BY <3>1, <3>2, <3>6, <3>7, <3>8
      <4> HIDE DEF twice
      <4>2. twice * slo.success <= sum
        BY <3>1, <4>1, QuotientReaches
      <4> QED
        BY <4>2 DEF twice
    <3>10. (2 * total) * slo.success = (2 * slo.success - 1) * total + total /\ (2 * slo.success - 1) * total \in Int
      BY <3>1, <3>2
    <3>11. 20000 * met >= (2 * slo.success - 1) * total
      BY <3>2, <3>6, <3>9, <3>10
    <3> QED
      BY <3>11 DEF met
  <2> QED
    BY <2>7, <2>8, <2>9, <2>10 DEF TargetsJudged, run, slo, total, failures
<1> HIDE DEF Told, TargetsJudged
<1> QED
  BY <1>1, ToldAlways, PTL
-----------------------------------------------------------------------------
(* Retention. *)

\* The bytes at places of a line.
LEMMA BytesAt ==
  ASSUME NEW line, NEW places, IsFiniteSet(places), \A n \in places : line[n].size \in Nat
  PROVE  Bytes(line, places) \in Nat /\ (places = {} => Bytes(line, places) = 0)
<1> DEFINE f == [n \in places |-> line[n].size]
<1>1. Bytes(line, places) = SumFunctionOnSet(f, places)
  BY DEF Bytes, SumFunction
<1>2. \A n \in places : f[n] \in Nat
  OBVIOUS
<1> HIDE DEF f
<1> QED
  BY <1>1, <1>2, SumStep

\* What survives the byte cap: the pass goes on from a beginning of the line that is gone
\* to a longer one, no further than it must.
LEMMA BytesFromTheOldest ==
  ASSUME NEW X, NEW line \in Seq(X), \A n \in DOMAIN line : line[n].size \in Nat,
         NEW caps, caps.bytes \in Nat, NEW c \in 0..Len(line)
  PROVE  \E d \in c..Len(line) :
           /\ OverBytes(line, caps, 1..c) = 1..d
           /\ caps.bytes > 0 => Bytes(line, (d + 1)..Len(line)) <= caps.bytes
           /\ d > c => caps.bytes > 0 /\ Bytes(line, d..Len(line)) > caps.bytes
<1> DEFINE L == Len(line)
           next(out, n) == IF Bytes(line, DOMAIN line \ out) > caps.bytes THEN out \cup {n} ELSE out
           after == CHOOSE a : a = [n \in 0..L |-> IF n = 0 THEN 1..c
                                                   ELSE IF Bytes(line, DOMAIN line \ a[n - 1]) > caps.bytes
                                                        THEN a[n - 1] \cup {n} ELSE a[n - 1]]
<1>0. L \in Nat /\ DOMAIN line = 1..L /\ c \in 0..L
  OBVIOUS
<1>1. OverBytes(line, caps, 1..c) = IF caps.bytes = 0 THEN 1..c ELSE after[L]
  BY DEF OverBytes
<1>2. CASE caps.bytes = 0
  BY <1>0, <1>1, <1>2
<1> HIDE DEF L
<1>b. \A d \in Nat : Bytes(line, (d + 1)..L) \in Nat /\ (d >= L => Bytes(line, (d + 1)..L) = 0)
  <2> SUFFICES ASSUME NEW d \in Nat PROVE Bytes(line, (d + 1)..L) \in Nat /\ (d >= L => Bytes(line, (d + 1)..L) = 0)
    OBVIOUS
  <2>0. d + 1 \in Int /\ L \in Int
    BY <1>0
  <2>1. IsFiniteSet((d + 1)..L)
    BY <2>0, FS_Interval
  <2>s. \A n \in (d + 1)..L : line[n].size \in Nat
    BY <1>0
  <2>2. d >= L => (d + 1)..L = {}
    BY <1>0
  <2> QED
    BY <2>1, <2>2, <2>s, BytesAt
<1>3. CASE caps.bytes > 0
  <2>1. \A n \in 0..L : after[n] = IF n = 0 THEN 1..c ELSE next(after[n - 1], n)
    <3> DEFINE step == [p \in (1..L) \X SUBSET Nat |-> next(p[2], p[1])]
    <3>1. step \in [(1..L) \X SUBSET Nat -> SUBSET Nat]
      <4>1. \A p \in (1..L) \X SUBSET Nat : next(p[2], p[1]) \in SUBSET Nat
        <5> SUFFICES ASSUME NEW p \in (1..L) \X SUBSET Nat PROVE next(p[2], p[1]) \in SUBSET Nat
          OBVIOUS
        <5>1. p[1] \in Nat /\ p[2] \in SUBSET Nat
          OBVIOUS
        <5> QED
          BY <5>1
      <4> HIDE DEF next
      <4> QED
        BY <4>1
    <3>2. 1..c \in SUBSET Nat
      OBVIOUS
    <3> HIDE DEF step
    <3> DEFINE X0 == SUBSET Nat
               first == 1..c
    <3>x. first \in X0 /\ step \in [(1..L) \X X0 -> X0]
      BY <3>1, <3>2
    <3>y. ASSUME NEW a, Follows(a, L, first, step)
          PROVE  \A n \in 0..L : a[n] = IF n = 0 THEN 1..c ELSE step[<<n, a[n - 1]>>]
      BY <3>y DEF Follows
    <3> HIDE DEF X0, first
    <3>z. PICK a \in [0..L -> X0] : Follows(a, L, first, step)
      BY <1>0, <3>x, Recursion
    <3>3. a \in [0..L -> SUBSET Nat] /\ \A n \in 0..L : a[n] = IF n = 0 THEN 1..c ELSE step[<<n, a[n - 1]>>]
      BY <3>y, <3>z DEF X0
    <3>4. \A n \in 0..L : a[n] = IF n = 0 THEN 1..c ELSE next(a[n - 1], n)
      <4> SUFFICES ASSUME NEW n \in 0..L, n # 0 PROVE a[n] = next(a[n - 1], n)
        BY <3>3
      <4>1. n - 1 \in 0..L /\ n \in 1..L
        BY <1>0
      <4>2. step[<<n, a[n - 1]>>] = next(a[n - 1], n)
        <5> DEFINE p == <<n, a[n - 1]>>
        <5>1. p \in (1..L) \X SUBSET Nat /\ p[1] = n /\ p[2] = a[n - 1]
          BY <3>3, <4>1
        <5> HIDE DEF p, next
        <5>2. step[p] = next(p[2], p[1])
          BY <5>1 DEF step
        <5> QED
          BY <5>1, <5>2 DEF p
      <4> HIDE DEF next
      <4> QED
        BY <3>3, <4>1, <4>2
    <3>5. a = [n \in 0..L |-> IF n = 0 THEN 1..c ELSE next(a[n - 1], n)]
      <4> HIDE DEF next
      <4> QED
        BY <3>4
    <3>6. after = [n \in 0..L |-> IF n = 0 THEN 1..c ELSE next(after[n - 1], n)]
      BY <3>5
    <3> HIDE DEF after, next
    <3> QED
      BY <3>6
  <2> HIDE DEF after
  <2> DEFINE Reached(n, d) ==
        /\ after[n] = 1..d
        /\ d > c => d <= n /\ Bytes(line, d..L) > caps.bytes
        /\ d < n => Bytes(line, (d + 1)..L) <= caps.bytes
      K == {n \in Nat : n <= L => \E d \in c..L : Reached(n, d)}
  <2>2. 0 \in K
    <3>0. 0 \in 0..L /\ c \in c..L
      BY <1>0
    <3>1. after[0] = 1..c
      <4> HIDE DEF next
      <4> QED
        BY <2>1, <3>0
    <3>2. Reached(0, c)
      BY <3>1
    <3> QED
      BY <3>0, <3>2
  <2>3. ASSUME NEW n \in Nat, n \in K PROVE n + 1 \in K
    <3> SUFFICES ASSUME n + 1 <= L PROVE \E d \in c..L : Reached(n + 1, d)
      OBVIOUS
    <3>1. PICK d \in c..L : Reached(n, d)
      BY <1>0, <2>3
    <3>2. after[n + 1] = next(1..d, n + 1)
      <4>1. n + 1 \in 0..L /\ n + 1 # 0 /\ (n + 1) - 1 = n
        BY <1>0
      <4>2. after[n + 1] = next(after[(n + 1) - 1], n + 1)
        <5> HIDE DEF next
        <5> QED
          BY <2>1, <4>1
      <4> HIDE DEF next
      <4> QED
        BY <3>1, <4>1, <4>2
    <3>3. next(1..d, n + 1) = IF Bytes(line, (d + 1)..L) > caps.bytes THEN 1..d \cup {n + 1} ELSE 1..d
      <4>1. DOMAIN line \ 1..d = (d + 1)..L
        BY <1>0
      <4> QED
        BY <4>1
    <3> HIDE DEF next
    <3>4. d \in Nat /\ Bytes(line, (d + 1)..L) \in Nat
      BY <1>b
    <3>5. CASE Bytes(line, (d + 1)..L) <= caps.bytes
      <4>1. after[n + 1] = 1..d
        <5>1. ~(Bytes(line, (d + 1)..L) > caps.bytes)
          <6> DEFINE b == Bytes(line, (d + 1)..L)
          <6>1. b \in Nat /\ b <= caps.bytes
            BY <3>4, <3>5
          <6> HIDE DEF b
          <6>2. ~(b > caps.bytes)
            BY <6>1
          <6> QED
            BY <6>2 DEF b
        <5> QED
          BY <3>2, <3>3, <5>1
      <4>2. Reached(n + 1, d)
        BY <3>1, <3>5, <4>1
      <4> QED
        BY <4>2
    <3>6. CASE Bytes(line, (d + 1)..L) > caps.bytes
      <4>1. after[n + 1] = 1..d \cup {n + 1}
        BY <3>2, <3>3, <3>6
      <4>2. ~(d < n)
        BY <3>1, <3>4, <3>6
      <4>3. CASE d = n
        <5>1. 1..d \cup {n + 1} = 1..(d + 1) /\ d + 1 \in c..L
          BY <1>0, <3>4, <4>3
        <5>2. Reached(n + 1, d + 1)
          BY <3>4, <3>6, <4>1, <4>3, <5>1
        <5> QED
          BY <5>1, <5>2
      <4>4. CASE d > n
        <5>1. 1..d \cup {n + 1} = 1..d
          BY <3>4, <4>4
        <5>2. Reached(n + 1, d)
          BY <3>1, <3>4, <4>1, <4>4, <5>1
        <5> QED
          BY <5>2
      <4> QED
        BY <3>4, <4>2, <4>3, <4>4
    <3> QED
      BY <3>4, <3>5, <3>6
  <2>4. \A n \in Nat : n \in K
    <3> HIDE DEF K
    <3> QED
      BY <2>2, <2>3, Climb
  <2>5. PICK d \in c..L : Reached(L, d)
    BY <1>0, <2>4
  <2>6. d = L => Bytes(line, (d + 1)..L) = 0
    BY <1>0, <1>b
  <2> QED
    BY <1>0, <1>1, <1>3, <2>5, <2>6
<1> QED
  BY <1>2, <1>3

\* A line of different things, and what stands in it from a place on.
IsLine(line, things, L) ==
  /\ line \in [1..L -> things] /\ \A i \in things : i.size \in Nat
  /\ \A m, n \in 1..L : line[m] = line[n] => m = n
From(line, k, L) == {line[n] : n \in k..L}

FromPlace(line, k, L) ==
  /\ IsFiniteSet(From(line, k, L)) /\ Cardinality(From(line, k, L)) = (L + 1) - k
  /\ SumFunction([i \in From(line, k, L) |-> i.size]) = Bytes(line, k..L)
  /\ Bytes(line, k..L) \in Nat

LEMMA FromPlaceOn ==
  ASSUME NEW L \in Nat, NEW things, NEW line, IsLine(line, things, L), NEW k \in 1..(L + 1)
  PROVE  FromPlace(line, k, L)
<1> DEFINE P == k..L
           T == From(line, k, L)
           h == [n \in P |-> line[n]]
           f == [n \in P |-> line[n].size]
           g == [i \in T |-> i.size]
           back == [i \in T |-> CHOOSE n \in P : line[n] = i]
<1>1. IsFiniteSet(P) /\ Cardinality(P) = (L + 1) - k
  <2>1. k \in Int /\ L \in Int
    OBVIOUS
  <2>2. IsFiniteSet(P) /\ Cardinality(P) = IF k > L THEN 0 ELSE L - k + 1
    BY <2>1, FS_Interval
  <2> QED
    BY <2>2
<1>2. \A n \in P : n \in 1..L /\ line[n] \in things /\ line[n].size \in Nat
  BY DEF IsLine
<1>3. \A m, n \in P : line[m] = line[n] => m = n
  BY <1>2 DEF IsLine
<1>4. T = {line[n] : n \in P}
  BY DEF From
<1> HIDE DEF P
<1>5. h \in [P -> T] /\ \A m, n \in P : h[m] = h[n] => m = n
  BY <1>3, <1>4
<1> HIDE DEF T
<1>6. h \in Surjection(P, T) /\ h \in Injection(P, T)
  <2>1. \A t \in T : \E n \in P : h[n] = t
    BY <1>4
  <2> HIDE DEF h
  <2> QED
    BY <1>5, <2>1 DEF Surjection, Injection, IsInjective
<1>7. IsFiniteSet(T) /\ Cardinality(T) = Cardinality(P)
  <2> HIDE DEF h
  <2> QED
    BY <1>1, <1>6, FS_Surjection
<1>8. \A n \in P : f[n] \in Nat /\ f[n] <= g[h[n]]
  BY <1>2, <1>4
<1>9. \A i \in T : g[i] \in Nat
  BY <1>2, <1>4
<1>10. back \in [T -> P] /\ (\A i \in T : line[back[i]] = i)
  BY <1>4
<1>11. \A i, j \in T : back[i] = back[j] => i = j
  <2> HIDE DEF back
  <2> QED
    BY <1>10
<1>12. \A i \in T : g[i] <= f[back[i]]
  <2> HIDE DEF back
  <2> QED
    BY <1>9, <1>10
<1>13. Bytes(line, P) = SumFunctionOnSet(f, P) /\ SumFunction(g) = SumFunctionOnSet(g, T)
  BY DEF Bytes, SumFunction
<1> HIDE DEF f, g, h, back
<1>14. SumFunctionOnSet(f, P) <= SumFunctionOnSet(g, T)
  BY <1>1, <1>5, <1>7, <1>8, <1>9, SumBound
<1>15. SumFunctionOnSet(g, T) <= SumFunctionOnSet(f, P)
  BY <1>1, <1>7, <1>8, <1>9, <1>10, <1>11, <1>12, SumBound
<1>16. SumFunctionOnSet(f, P) \in Nat /\ SumFunctionOnSet(g, T) \in Nat
  BY <1>1, <1>7, <1>8, <1>9, SumStep
<1>17. SumFunctionOnSet(f, P) = SumFunctionOnSet(g, T)
  BY <1>14, <1>15, <1>16
<1>18. SumFunction(g) = Bytes(line, P) /\ Bytes(line, P) \in Nat
  BY <1>13, <1>16, <1>17
<1> QED
  BY <1>1, <1>7, <1>18 DEF FromPlace, P, T, g

\* The idle items, oldest first, are all of them, each once.
InOrder(line, idle, L) ==
  /\ IsLine(line, idle, L) /\ \A m, n \in 1..L : m < n => line[m].mtime < line[n].mtime
  /\ \A i \in idle : \E n \in 1..L : line[n] = i
  /\ L \in Nat

LEMMA OldestAreFirst ==
  ASSUME NEW q, AreItems(q)
  PROVE  LET idle == {i \in q.items : ~i.active}
         IN  InOrder(OldestFirst(q.items), idle, Cardinality(idle))
<1> DEFINE idle == {i \in q.items : ~i.active}
           L == Cardinality(idle)
           key == [i \in idle |-> i.mtime]
           line == OldestFirst(q.items)
<1>1. IsFiniteSet(idle)
  BY FS_Subset DEF AreItems
<1>2. L \in Nat
  BY <1>1, FS_CardinalityType
<1>3. \A i \in idle : i.mtime \in Nat /\ i.size \in Nat
  BY DEF AreItems
<1>4. \A i, j \in idle : i.mtime = j.mtime => i = j
  BY DEF AreItems
<1> HIDE DEF idle
<1>5. key \in [idle -> Nat] /\ \A i, j \in idle : key[i] = key[j] => i = j
  BY <1>3, <1>4
<1>k. \A i \in idle : key[i] = i.mtime
  OBVIOUS
<1>6. \E l \in [1..L -> idle] : \A m, n \in 1..L : m < n => l[m].mtime < l[n].mtime
  <2> HIDE DEF key
  <2>1. PICK l \in [1..L -> idle] : \A m, n \in 1..L : m < n => key[l[m]] < key[l[n]]
    BY <1>1, <1>5, CanBeLined
  <2>2. \A n \in 1..L : key[l[n]] = l[n].mtime
    BY <1>k
  <2> QED
    BY <2>1, <2>2
<1>7. line = CHOOSE l \in [1..L -> idle] : \A m, n \in 1..L : m < n => l[m].mtime < l[n].mtime
  BY DEF OldestFirst, idle
<1>8. line \in [1..L -> idle] /\ \A m, n \in 1..L : m < n => line[m].mtime < line[n].mtime
  BY <1>6, <1>7
<1> HIDE DEF line, L, key
<1>9. \A m, n \in 1..L : line[m] = line[n] => m = n
  <2> SUFFICES ASSUME NEW m \in 1..L, NEW n \in 1..L, m # n PROVE line[m] # line[n]
    OBVIOUS
  <2>1. m < n \/ n < m
    BY <1>2
  <2>2. line[m].mtime < line[n].mtime \/ line[n].mtime < line[m].mtime
    BY <1>8, <2>1
  <2>3. line[m].mtime \in Nat /\ line[n].mtime \in Nat
    BY <1>3, <1>8
  <2> QED
    BY <2>2, <2>3
<1>10. IsFiniteSet(1..L) /\ Cardinality(1..L) = L
  BY <1>2, 1 \in Int, L \in Int, FS_Interval
<1>11. line \in Injection(1..L, idle)
  BY <1>8, <1>9 DEF Injection, IsInjective
<1>12. line \in Surjection(1..L, idle)
  BY <1>1, <1>10, <1>11, FS_Injection DEF L
<1>13. \A i \in idle : \E n \in 1..L : line[n] = i
  BY <1>12 DEF Surjection
<1> QED
  BY <1>2, <1>3, <1>8, <1>9, <1>13 DEF InOrder, IsLine, line, idle, L

IsBeginning(places, L) == \E c \in 0..L : places = 1..c

\* What is over the age or the count cap is a beginning of the line.
LEMMA OldGoFirst ==
  ASSUME NEW L, NEW idle, NEW line, InOrder(line, idle, L), \A i \in idle : i.mtime \in Nat,
         NEW caps \in [age : Nat, items : Nat, bytes : Nat], NEW now \in Nat
  PROVE  IsBeginning(TooOld(line, caps, now) \cup Overflow(line, caps), L)
<1> DEFINE old == TooOld(line, caps, now)
           over == Overflow(line, caps)
<1>0. L \in Nat /\ DOMAIN line = 1..L /\ Len(line) = L /\ caps.age \in Nat /\ caps.items \in Nat
  BY DEF InOrder, IsLine
<1>1. old = {n \in 1..L : caps.age > 0 /\ now - line[n].mtime > caps.age}
  BY <1>0 DEF TooOld
<1>2. over = {n \in 1..L : caps.items > 0 /\ n + caps.items <= L}
  BY <1>0 DEF Overflow
<1>3. \A n \in 1..L : line[n].mtime \in Nat
  BY DEF InOrder, IsLine
<1>4. ASSUME NEW n \in old, NEW m \in 1..L, m <= n PROVE m \in old
  <2>0. n \in 1..L
    BY <1>1
  <2>1. m = n \/ m < n
    BY <1>4, <2>0
  <2>2. line[m].mtime <= line[n].mtime
    BY <1>3, <2>0, <2>1 DEF InOrder
  <2>3. now - line[n].mtime > caps.age /\ caps.age > 0
    BY <1>1
  <2>4. now - line[m].mtime > caps.age
    BY <1>0, <1>3, <2>0, <2>2, <2>3
  <2> QED
    BY <1>1, <2>3, <2>4
<1>5. ASSUME NEW n \in over, NEW m \in 1..L, m <= n PROVE m \in over
  BY <1>0, <1>2, <1>5
<1> DEFINE gone == old \cup over
<1>6. gone \in SUBSET (1..L)
  BY <1>1, <1>2
<1>7. \A n \in gone, m \in 1..L : m <= n => m \in gone
  BY <1>4, <1>5
<1> HIDE DEF gone
<1>8. \E c \in 0..L : gone = 1..c
  BY <1>0, <1>6, <1>7, Beginning
<1> QED
  BY <1>8 DEF gone, IsBeginning

\* How far along the line the pass goes, and why no less far.
Reaches(line, caps, now, L, d) ==
  /\ d \in 0..L
  /\ OverBytes(line, caps, TooOld(line, caps, now) \cup Overflow(line, caps)) = 1..d
  /\ caps.age > 0 => \A n \in (d + 1)..L : now - line[n].mtime <= caps.age
  /\ caps.items > 0 => L - d <= caps.items
  /\ caps.bytes > 0 => Bytes(line, (d + 1)..L) <= caps.bytes
  /\ d > 0 => \/ caps.age > 0 /\ now - line[d].mtime > caps.age
              \/ caps.items > 0 /\ d + caps.items <= L
              \/ caps.bytes > 0 /\ Bytes(line, d..L) > caps.bytes

LEMMA NoFurther ==
  ASSUME NEW L, NEW idle, NEW line, InOrder(line, idle, L), \A i \in idle : i.mtime \in Nat,
         NEW caps \in [age : Nat, items : Nat, bytes : Nat], NEW now \in Nat
  PROVE  \E d \in 0..L : Reaches(line, caps, now, L, d)
<1> DEFINE gone == TooOld(line, caps, now) \cup Overflow(line, caps)
<1>0. L \in Nat /\ DOMAIN line = 1..L /\ Len(line) = L /\ line \in Seq(idle)
  BY DEF InOrder, IsLine
<1>a. caps.age \in Nat /\ caps.items \in Nat /\ caps.bytes \in Nat
  OBVIOUS
<1>1. \A n \in 1..L : line[n].mtime \in Nat /\ line[n].size \in Nat
  BY DEF InOrder, IsLine
<1>b. IsBeginning(gone, L)
  BY OldGoFirst
<1>2. PICK c \in 0..L : gone = 1..c
  BY <1>b DEF IsBeginning
<1>3. \A n \in 1..L : n \in gone <=> \/ caps.age > 0 /\ now - line[n].mtime > caps.age
                                     \/ caps.items > 0 /\ n + caps.items <= L
  BY <1>0 DEF TooOld, Overflow
<1>4. \E d \in c..L :
        /\ OverBytes(line, caps, 1..c) = 1..d
        /\ caps.bytes > 0 => Bytes(line, (d + 1)..L) <= caps.bytes
        /\ d > c => caps.bytes > 0 /\ Bytes(line, d..L) > caps.bytes
  <2>1. c \in 0..Len(line) /\ \A n \in DOMAIN line : line[n].size \in Nat
    BY <1>0, <1>1
  <2> QED
    BY <1>0, <1>a, <2>1, BytesFromTheOldest
<1>5. PICK d \in c..L :
        /\ OverBytes(line, caps, 1..c) = 1..d
        /\ caps.bytes > 0 => Bytes(line, (d + 1)..L) <= caps.bytes
        /\ d > c => caps.bytes > 0 /\ Bytes(line, d..L) > caps.bytes
  BY <1>4
<1>6. d \in 0..L /\ c \in Nat /\ d \in Nat
  BY <1>0, <1>2, <1>5
<1>7. OverBytes(line, caps, gone) = 1..d
  BY <1>2, <1>5
<1>8. ASSUME caps.age > 0, NEW n \in (d + 1)..L PROVE now - line[n].mtime <= caps.age
  <2>1. n \in 1..L /\ n \notin gone
    BY <1>0, <1>2, <1>5, <1>6
  <2>2. ~(now - line[n].mtime > caps.age) /\ line[n].mtime \in Nat
    BY <1>1, <1>3, <1>8, <2>1
  <2> QED
    BY <1>a, <2>2
<1>9. ASSUME caps.items > 0 PROVE L - d <= caps.items
  <2>1. CASE c = L
    BY <1>0, <1>5, <1>6, <1>a, <2>1
  <2>2. CASE c < L
    <3>1. c + 1 \in 1..L /\ c + 1 \notin gone
      BY <1>0, <1>2, <1>6, <2>2
    <3>2. ~((c + 1) + caps.items <= L)
      BY <1>3, <1>9, <3>1
    <3> QED
      BY <1>0, <1>5, <1>6, <1>a, <3>2
  <2> QED
    BY <1>0, <1>2, <2>1, <2>2
<1>10. ASSUME d > 0, ~(d > c)
       PROVE  \/ caps.age > 0 /\ now - line[d].mtime > caps.age
              \/ caps.items > 0 /\ d + caps.items <= L
  <2>1. d \in 1..L /\ d \in gone
    BY <1>0, <1>2, <1>5, <1>6, <1>10
  <2> HIDE DEF gone
  <2> QED
    BY <1>3, <2>1
<1> HIDE DEF gone
<1>11. caps.bytes > 0 => Bytes(line, (d + 1)..L) <= caps.bytes
  BY <1>5
<1>12. d > 0 => \/ caps.age > 0 /\ now - line[d].mtime > caps.age
                \/ caps.items > 0 /\ d + caps.items <= L
                \/ caps.bytes > 0 /\ Bytes(line, d..L) > caps.bytes
  BY <1>5, <1>10
<1> QED
  BY <1>6, <1>7, <1>8, <1>9, <1>11, <1>12 DEF Reaches, gone

\* The pass keeps what it promises, for any items and caps.
LEMMA PruningIsLeast ==
  ASSUME NEW q, AreItems(q)
  PROVE  RemovesLeast(q.items, q.caps, q.now, Pruned(q.items, q.caps, q.now))
<1> DEFINE items == q.items
           caps == q.caps
           now == q.now
           idle == {i \in items : ~i.active}
           L == Cardinality(idle)
           line == OldestFirst(items)
           gone == Pruned(items, caps, now)
           old == {i \in items : i.id \in gone}
           within(kept) ==
             LET rest == {i \in kept : ~i.active}
             IN  /\ caps.age > 0 => \A i \in rest : now - i.mtime <= caps.age
                 /\ caps.items > 0 => Cardinality(rest) <= caps.items
                 /\ caps.bytes > 0 => SumFunction([i \in rest |-> i.size]) <= caps.bytes
<1>0. now \in Nat /\ caps \in [age : Nat, items : Nat, bytes : Nat]
  BY DEF AreItems
<1>a. caps.age \in Nat /\ caps.items \in Nat /\ caps.bytes \in Nat
  BY <1>0
<1>1. \A i \in items : i.mtime \in Nat /\ i.size \in Nat /\ i.active \in BOOLEAN
  BY DEF AreItems
<1>2. \A i, j \in items : i.id = j.id => i = j
  BY DEF AreItems
<1>3. InOrder(line, idle, L)
  BY OldestAreFirst
<1>4. PICK d \in 0..L : Reaches(line, caps, now, L, d)
  <2>1. \A i \in idle : i.mtime \in Nat
    BY <1>1
  <2> HIDE DEF idle, line, L, caps, now
  <2> QED
    BY <1>0, <1>3, <2>1, NoFurther
<1>5. gone = {line[n].id : n \in 1..d}
  BY <1>4 DEF Reaches, Pruned
<1>i. \A i \in items : i \in idle <=> ~i.active
  OBVIOUS
<1>s. idle \subseteq items
  OBVIOUS
<1> HIDE DEF idle, line, L, gone
<1>6. L \in Nat /\ IsLine(line, idle, L) /\ d \in Nat /\ d <= L
  BY <1>3, <1>4 DEF InOrder
<1>7. \A n \in 1..L : line[n] \in idle /\ line[n] \in items
  BY <1>6, <1>s DEF IsLine
<1>8. old = {line[n] : n \in 1..d}
  <2>1. ASSUME NEW i \in old PROVE \E n \in 1..d : i = line[n]
    <3>1. PICK n \in 1..d : i.id = line[n].id
      BY <1>5
    <3>2. n \in 1..L
      BY <1>6
    <3> QED
      BY <1>2, <1>7, <3>1, <3>2
  <2>2. ASSUME NEW n \in 1..d PROVE line[n] \in old
    <3>1. n \in 1..L
      BY <1>6
    <3> QED
      BY <1>5, <1>7, <3>1
  <2> HIDE DEF old
  <2> QED
    BY <2>1, <2>2
<1>o. old \subseteq items
  OBVIOUS
<1> HIDE DEF old, items
<1>9. \A i \in old : i \in idle
  BY <1>6, <1>7, <1>8
<1>10. {i \in items \ old : ~i.active} = From(line, d + 1, L)
  <2>1. ASSUME NEW i \in items \ old, ~i.active PROVE \E n \in (d + 1)..L : i = line[n]
    <3>1. i \in idle
      BY <1>i, <2>1
    <3>2. PICK n \in 1..L : line[n] = i
      BY <1>3, <3>1 DEF InOrder
    <3>3. ~(n \in 1..d)
      BY <1>8, <3>2
    <3> QED
      BY <1>6, <3>2, <3>3
  <2>2. ASSUME NEW n \in (d + 1)..L PROVE line[n] \in items \ old /\ ~line[n].active
    <3>1. n \in 1..L /\ ~(n \in 1..d)
      BY <1>6
    <3>2. line[n] \notin old
      <4> SUFFICES ASSUME NEW m \in 1..d, line[m] = line[n] PROVE FALSE
        BY <1>8
      <4>1. m \in 1..L
        BY <1>6
      <4> QED
        BY <1>6, <3>1, <4>1 DEF IsLine
    <3> QED
      BY <1>7, <1>i, <3>1, <3>2
  <2> QED
    BY <2>1, <2>2 DEF From
<1>11. ASSUME NEW i \in old, NEW j \in items \ old, ~j.active PROVE i.mtime < j.mtime
  <2>1. PICK n \in (d + 1)..L : j = line[n]
    BY <1>10, <1>11 DEF From
  <2>2. PICK m \in 1..d : i = line[m]
    BY <1>8
  <2>3. m \in 1..L /\ n \in 1..L /\ m < n
    BY <1>6
  <2> QED
    BY <1>3, <2>1, <2>2, <2>3 DEF InOrder
<1>12. within(items \ old)
  <2> DEFINE rest == {i \in items \ old : ~i.active}
  <2>1. rest = From(line, d + 1, L)
    BY <1>10
  <2>2. FromPlace(line, d + 1, L)
    BY <1>6, FromPlaceOn, d + 1 \in 1..(L + 1)
  <2> HIDE DEF rest
  <2>3. caps.age > 0 => \A i \in rest : now - i.mtime <= caps.age
    BY <1>4, <2>1 DEF Reaches, From
  <2>4. caps.items > 0 => Cardinality(rest) <= caps.items
    <3>1. Cardinality(rest) = (L + 1) - (d + 1)
      BY <2>1, <2>2 DEF FromPlace
    <3>2. caps.items > 0 => L - d <= caps.items
      BY <1>4 DEF Reaches
    <3>3. (L + 1) - (d + 1) = L - d
      BY <1>6
    <3> QED
      BY <3>1, <3>2, <3>3
  <2>5. caps.bytes > 0 => SumFunction([i \in rest |-> i.size]) <= caps.bytes
    <3>1. SumFunction([i \in rest |-> i.size]) = Bytes(line, (d + 1)..L)
      BY <2>1, <2>2 DEF FromPlace
    <3> QED
      BY <1>4, <3>1 DEF Reaches
  <2> QED
    BY <2>3, <2>4, <2>5 DEF rest
<1>13. ASSUME NEW i \in old, \A j \in old : j.mtime <= i.mtime PROVE ~within((items \ old) \cup {i})
  <2>1. d > 0 /\ i = line[d] /\ d \in 1..L
    <3>1. PICK m \in 1..d : i = line[m]
      BY <1>8
    <3>2. d \in 1..d /\ d \in 1..L /\ m \in 1..L
      BY <1>6, <3>1
    <3>3. line[d].mtime <= line[m].mtime
      BY <1>8, <1>13, <3>1, <3>2
    <3>4. line[d].mtime \in Nat /\ line[m].mtime \in Nat
      BY <1>1, <1>7, <3>2
    <3>5. ~(m < d)
      <4>1. m < d => line[m].mtime < line[d].mtime
        BY <1>3, <3>2 DEF InOrder
      <4> QED
        BY <3>3, <3>4, <4>1
    <3>6. m = d
      BY <1>6, <3>2, <3>5
    <3> QED
      BY <1>6, <3>1, <3>2, <3>6
  <2> DEFINE rest == {j \in (items \ old) \cup {i} : ~j.active}
  <2>2. rest = From(line, d, L)
    <3>1. ~i.active
      BY <1>9, <1>i, <1>o
    <3>2. rest = {j \in items \ old : ~j.active} \cup {i}
      BY <3>1
    <3>3. From(line, d, L) = From(line, d + 1, L) \cup {line[d]}
      <4>1. d..L = (d + 1)..L \cup {d}
        BY <1>6, <2>1
      <4> QED
        BY <4>1 DEF From
    <3> QED
      BY <1>10, <2>1, <3>2, <3>3
  <2>3. FromPlace(line, d, L)
    BY <1>6, <2>1, FromPlaceOn, d \in 1..(L + 1)
  <2> HIDE DEF rest
  <2>4. Cardinality(rest) = (L + 1) - d /\ SumFunction([j \in rest |-> j.size]) = Bytes(line, d..L)
        /\ Bytes(line, d..L) \in Nat
    BY <2>2, <2>3 DEF FromPlace
  <2>5. i \in rest
    <3>1. d \in d..L
      BY <1>6, <2>1
    <3> QED
      BY <2>1, <2>2, <3>1 DEF From
  <2>6. \/ caps.age > 0 /\ now - i.mtime > caps.age
        \/ caps.items > 0 /\ d + caps.items <= L
        \/ caps.bytes > 0 /\ Bytes(line, d..L) > caps.bytes
    BY <1>4, <2>1 DEF Reaches
  <2>7. CASE caps.age > 0 /\ now - i.mtime > caps.age
    <3>1. i.mtime \in Nat
      BY <1>1, <1>o
    <3>2. ~(now - i.mtime <= caps.age)
      BY <1>0, <1>a, <2>7, <3>1
    <3> QED
      BY <2>5, <2>7, <3>2 DEF rest
  <2>8. CASE caps.items > 0 /\ d + caps.items <= L
    <3>1. ~(Cardinality(rest) <= caps.items)
      BY <1>6, <1>a, <2>4, <2>8
    <3> QED
      BY <2>8, <3>1 DEF rest
  <2>9. CASE caps.bytes > 0 /\ Bytes(line, d..L) > caps.bytes
    <3> DEFINE sum == SumFunction([j \in rest |-> j.size])
    <3>0. sum \in Nat /\ sum > caps.bytes
      BY <2>4, <2>9
    <3> HIDE DEF sum
    <3>1. ~(sum <= caps.bytes)
      BY <1>a, <3>0
    <3> QED
      BY <2>9, <3>1 DEF rest, sum
  <2> QED
    BY <2>6, <2>7, <2>8, <2>9
<1> HIDE DEF within
<1>14. /\ \A i \in old : ~i.active
       /\ \A i \in old, j \in items \ old : j.active \/ i.mtime < j.mtime
       /\ within(items \ old)
       /\ \A i \in old : (\A j \in old : j.mtime <= i.mtime) => ~within((items \ old) \cup {i})
  BY <1>9, <1>11, <1>12, <1>13, <1>i, <1>o
<1> QED
  BY <1>14 DEF RemovesLeast, within, old, items, gone

\* The retention pass leaves what is within every cap and takes no more than that: the
\* oldest, none of an active session, none of which could have been kept.
THEOREM RetentionIsLeast == VerdictSpec => []PrunesLeast
<1>1. Told => PrunesLeast
  <2> SUFFICES ASSUME Told, topic = "retention", answer # <<>> PROVE PrunesLeast
    BY DEF PrunesLeast, Answered
  <2>1. question \in Asked("retention")
    BY DEF Told, Asked
  <2>2. AreItems(question)
    BY <2>1, QuestionsAssumption
  <2> QED
    BY <2>2, PruningIsLeast DEF Told, PrunesLeast, Answered
<1> HIDE DEF Told, PrunesLeast
<1> QED
  BY <1>1, ToldAlways, PTL
-----------------------------------------------------------------------------
(* Estimates. *)

\* Every stage of a benchmark is bounded by the least time limit the file sets it.
Bounded(stages, limits) ==
  /\ 1 \in DOMAIN stages /\ IsFiniteSet(DOMAIN stages) /\ limits \subseteq Nat
  /\ \A k \in DOMAIN stages : stages[k].duration = IF limits = {} THEN {} ELSE {Min(limits)}

LEMMA StagesAreBounded ==
  ASSUME NEW p, IsProfile(p), p.layout = "spec", NEW n \in DOMAIN p.benchmarks
  PROVE  Bounded(StagesOf(Overridden(p.spec, p.benchmarks[n])), TimeLimits(p, p.benchmarks[n]))
<1> DEFINE b == p.benchmarks[n]
           C == DOMAIN p.spec.constraints
           s == Overridden(p.spec, b)
           limits == TimeLimits(p, b)
           kind(i) == IF <<i, "kind">> \in DOMAIN b THEN b[<<i, "kind">>] ELSE p.spec.constraints[i].kind
           seconds(i) == IF <<i, "seconds">> \in DOMAIN b THEN b[<<i, "seconds">>] ELSE p.spec.constraints[i].seconds
           T == Tightest(s.constraints, "max_duration", "seconds")
           values == IF s.kind = "concurrent" THEN s.streams ELSE s.rates
<1>1. limits = UNION {seconds(i) : i \in {i \in C : kind(i) = "max_duration"}}
  BY DEF TimeLimits
<1>2. DOMAIN s.constraints = C /\ \A i \in C : s.constraints[i].kind = kind(i) /\ s.constraints[i].seconds = seconds(i)
  BY DEF Overridden
<1>3. \A i \in C : seconds(i) \subseteq Nat
  BY DEF IsProfile, IsBenchmark, IsOptional
<1>4. s.streams = (IF <<"streams">> \in DOMAIN b THEN b[<<"streams">>] ELSE p.spec.streams)
      /\ s.rates = (IF <<"rates">> \in DOMAIN b THEN b[<<"rates">>] ELSE p.spec.rates)
  BY DEF Overridden
<1>5. IsNumberList(values)
  <2>1. IsNumberList(s.streams)
    BY <1>4 DEF IsProfile, IsBenchmark
  <2>2. IsNumberList(s.rates)
    BY <1>4 DEF IsProfile, IsBenchmark
  <2> QED
    BY <2>1, <2>2
<1> HIDE DEF s, kind, seconds, b, limits, C
<1>6. T = IF limits = {} THEN {} ELSE {Min(limits)}
  <2>1. {i \in DOMAIN s.constraints : s.constraints[i].kind = "max_duration"} = {i \in C : kind(i) = "max_duration"}
    BY <1>2
  <2>2. UNION {s.constraints[i].seconds : i \in {i \in DOMAIN s.constraints : s.constraints[i].kind = "max_duration"}} = limits
    BY <1>1, <1>2, <2>1
  <2> QED
    BY <2>2 DEF Tightest
<1>7. limits \subseteq Nat
  BY <1>1, <1>3
<1> HIDE DEF T, values
<1>8. \A k \in DOMAIN StagesOf(s) : StagesOf(s)[k].duration = T
  BY DEF StagesOf, T, values
<1>9. DOMAIN StagesOf(s) = IF values = <<>> THEN {1} ELSE DOMAIN values
  BY DEF StagesOf, values
<1>10. 1 \in DOMAIN StagesOf(s) /\ IsFiniteSet(DOMAIN StagesOf(s))
  <2>1. CASE values = <<>>
    BY <1>9, <2>1, FS_Singleton
  <2>2. CASE values # <<>>
    <3> DEFINE M == Len(values)
    <3>1. M \in Nat /\ DOMAIN values = 1..M /\ M # 0
      BY <1>5, <2>2 DEF IsNumberList
    <3> HIDE DEF M
    <3>2. 1 \in Int /\ M \in Int
      BY <3>1
    <3>3. IsFiniteSet(1..M)
      BY <3>2, FS_Interval
    <3>4. 1 \in 1..M
      BY <3>1
    <3> QED
      BY <1>9, <2>2, <3>1, <3>3, <3>4
  <2> QED
    BY <2>1, <2>2
<1> QED
  BY <1>6, <1>7, <1>8, <1>10 DEF Bounded, s, b, limits

\* The stages of a spec: each has a benchmark, whose limit it is under.
InBenchmarks(p, stages) ==
  /\ IsFiniteSet(DOMAIN stages)
  /\ \A s \in DOMAIN stages : s[1] \in DOMAIN p.benchmarks
  /\ \A n \in DOMAIN p.benchmarks : <<n, 1>> \in DOMAIN stages
  /\ \A s \in DOMAIN stages :
       LET limits == TimeLimits(p, p.benchmarks[s[1]])
       IN  limits \subseteq Nat /\ stages[s].duration = IF limits = {} THEN {} ELSE {Min(limits)}

LEMMA StagesInBenchmarks ==
  ASSUME NEW p, IsProfile(p), p.layout = "spec"
  PROVE  InBenchmarks(p, SpecStages(p))
<1> DEFINE of(n) == StagesOf(Overridden(p.spec, p.benchmarks[n]))
           D == DOMAIN p.benchmarks
           at(n) == {n} \X DOMAIN of(n)
           places == UNION {at(n) : n \in D}
           stages == SpecStages(p)
<1>1. stages = [s \in places |-> of(s[1])[s[2]]]
  BY DEF SpecStages
<1>2. \A n \in D : Bounded(of(n), TimeLimits(p, p.benchmarks[n]))
  BY StagesAreBounded
<1> HIDE DEF of, stages
<1>3. IsFiniteSet(places)
  <2>1. \A n \in D : IsFiniteSet(at(n))
    <3> SUFFICES ASSUME NEW n \in D PROVE IsFiniteSet(at(n))
      OBVIOUS
    <3>1. IsFiniteSet({n}) /\ IsFiniteSet(DOMAIN of(n))
      BY <1>2, FS_Singleton DEF Bounded
    <3> QED
      BY <3>1, FS_Product
  <2>2. IsFiniteSet(D)
    <3> DEFINE M == Len(p.benchmarks)
    <3>1. M \in Nat /\ D = 1..M
      BY DEF IsProfile
    <3> HIDE DEF M
    <3> QED
      BY <3>1, 1 \in Int, M \in Int, FS_Interval
  <2> DEFINE all == {at(n) : n \in D}
  <2>3. IsFiniteSet(all)
    <3> DEFINE f == [n \in D |-> at(n)]
    <3>1. f \in Surjection(D, all)
      BY DEF Surjection
    <3> HIDE DEF f, all
    <3> QED
      BY <2>2, <3>1, FS_Surjection
  <2>4. \A t \in all : IsFiniteSet(t)
    BY <2>1
  <2> HIDE DEF all
  <2> QED
    BY <2>3, <2>4, FS_UNION DEF all
<1>4. ASSUME NEW s \in places
      PROVE  s[1] \in D /\ s[2] \in DOMAIN of(s[1])
  OBVIOUS
<1>5. ASSUME NEW n \in D PROVE <<n, 1>> \in places
  <2>1. 1 \in DOMAIN of(n)
    BY <1>2 DEF Bounded
  <2> QED
    BY <2>1
<1>6. DOMAIN stages = places /\ \A s \in places : stages[s] = of(s[1])[s[2]]
  BY <1>1
<1> HIDE DEF places, D
<1>7. ASSUME NEW s \in places
      PROVE  LET limits == TimeLimits(p, p.benchmarks[s[1]])
             IN  limits \subseteq Nat /\ stages[s].duration = IF limits = {} THEN {} ELSE {Min(limits)}
  <2>1. Bounded(of(s[1]), TimeLimits(p, p.benchmarks[s[1]])) /\ s[2] \in DOMAIN of(s[1])
    BY <1>2, <1>4
  <2>2. stages[s] = of(s[1])[s[2]]
    BY <1>6
  <2> QED
    BY <2>1, <2>2 DEF Bounded
<1> QED
  BY <1>3, <1>4, <1>5, <1>6, <1>7 DEF InBenchmarks, stages, D

\* A number that is there is the only one.
LEMMA OnlyOne ==
  ASSUME NEW v, IsOptional(v), v # {}
  PROVE  Only(v) \in Nat /\ v = {Only(v)}
BY DEF IsOptional, Only

\* A spec is timed exactly if each of its benchmarks is bounded, by no less than their
\* limits together: the first stage of a benchmark takes as long as its limit.
LEMMA SpecIsHonest ==
  ASSUME NEW p, IsProfile(p), p.layout = "spec"
  PROVE  LET told == EstimateRun(LoadShape(p))
             limits(n) == TimeLimits(p, p.benchmarks[n])
         IN  /\ told.estimable <=> DOMAIN p.benchmarks # {} /\ \A n \in DOMAIN p.benchmarks : limits(n) # {}
             /\ told.estimable => told.seconds >= SumFunction([n \in DOMAIN p.benchmarks |-> Min(limits(n))])
<1> DEFINE stages == SpecStages(p)
           load == SpecLoad(p)
           told == EstimateRun(load)
           D == DOMAIN p.benchmarks
           limits(n) == TimeLimits(p, p.benchmarks[n])
           timed == DOMAIN stages # {} /\ \A n \in DOMAIN stages : stages[n].duration # {}
           g == Durations(stages)
           f == [n \in D |-> Min(limits(n))]
<1>1. InBenchmarks(p, stages)
  BY StagesInBenchmarks
<1>2. LoadShape(p) = load
  BY DEF LoadShape
<1>3. load.total = (IF timed THEN {Total(g)} ELSE {}) /\ load.maxSeconds = {} /\ load.requests = {}
  BY DEF SpecLoad
<1>4. told.estimable <=> timed
  <2> HIDE DEF load, stages, g
  <2>1. CASE timed
    BY <1>3, <2>1 DEF EstimateRun, Estimated
  <2>2. CASE ~timed
    BY <1>3, <2>2 DEF EstimateRun
  <2> QED
    BY <2>1, <2>2
<1>5. timed => told.seconds = Total(g)
  <2> HIDE DEF load, stages, g, timed
  <2> SUFFICES ASSUME timed PROVE told.seconds = Total(g)
    OBVIOUS
  <2>1. load.total = {Total(g)}
    BY <1>3
  <2>2. Only(load.total) = Total(g)
    BY <2>1 DEF Only
  <2> QED
    BY <2>1, <2>2 DEF EstimateRun, Estimated
<1>6. timed <=> D # {} /\ \A n \in D : limits(n) # {}
  <2>1. \A s \in DOMAIN stages : s[1] \in D /\ (stages[s].duration # {} <=> limits(s[1]) # {})
    BY <1>1 DEF InBenchmarks
  <2>2. \A n \in D : <<n, 1>> \in DOMAIN stages /\ <<n, 1>>[1] = n
    BY <1>1 DEF InBenchmarks
  <2> HIDE DEF stages, limits, D
  <2> QED
    BY <2>1, <2>2
<1>7. ASSUME timed PROVE SumFunction(f) <= Total(g)
  <2> DEFINE T == DOMAIN stages
             h == [n \in D |-> <<n, 1>>]
  <2>1. g = [s \in T |-> Only(stages[s].duration)]
    BY <1>7 DEF Durations, Numbers
  <2>2. \A s \in T : limits(s[1]) # {} /\ limits(s[1]) \subseteq Nat /\ stages[s].duration = {Min(limits(s[1]))}
    BY <1>1, <1>7 DEF InBenchmarks
  <2> HIDE DEF stages
  <2>3. \A s \in T : g[s] = Min(limits(s[1])) /\ g[s] \in Nat
    <3> SUFFICES ASSUME NEW s \in T PROVE g[s] = Min(limits(s[1])) /\ g[s] \in Nat
      OBVIOUS
    <3>1. Only(stages[s].duration) = Min(limits(s[1]))
      BY <2>2 DEF Only
    <3>2. limits(s[1]) \in SUBSET Nat /\ limits(s[1]) # {}
      BY <2>2
    <3> HIDE DEF limits
    <3>3. Min(limits(s[1])) \in Nat
      BY <3>2, MinIsLeast
    <3> QED
      BY <2>1, <3>1, <3>3
  <2>4. h \in [D -> T] /\ (\A m, n \in D : h[m] = h[n] => m = n) /\ \A n \in D : h[n][1] = n
    BY <1>1 DEF InBenchmarks, stages
  <2>5. DOMAIN g = T /\ DOMAIN f = D
    BY <2>1
  <2> HIDE DEF T, h, g, limits
  <2>6. \A n \in D : f[n] \in Nat /\ f[n] <= g[h[n]]
    <3> SUFFICES ASSUME NEW n \in D PROVE f[n] \in Nat /\ f[n] <= g[h[n]]
      OBVIOUS
    <3>1. h[n] \in T /\ h[n][1] = n
      BY <2>4
    <3>2. g[h[n]] = Min(limits(n)) /\ g[h[n]] \in Nat
      BY <2>3, <3>1
    <3>3. f[n] = Min(limits(n))
      OBVIOUS
    <3> HIDE DEF f
    <3> QED
      BY <3>2, <3>3
  <2>7. IsFiniteSet(T)
    BY <1>1 DEF InBenchmarks, T
  <2>8. IsFiniteSet(D)
    <3> DEFINE M == Len(p.benchmarks)
    <3>1. M \in Nat /\ D = 1..M
      BY DEF IsProfile
    <3> HIDE DEF M, D
    <3> QED
      BY <3>1, 1 \in Int, M \in Int, FS_Interval
  <2> HIDE DEF f, D
  <2>9. SumFunctionOnSet(f, D) <= SumFunctionOnSet(g, T)
    BY <2>3, <2>4, <2>6, <2>7, <2>8, SumBound
  <2> QED
    BY <2>5, <2>9 DEF SumFunction, Total
<1>8. timed => told.seconds >= SumFunction(f)
  <2> SUFFICES ASSUME timed PROVE told.seconds >= SumFunction(f)
    OBVIOUS
  <2> HIDE DEF timed, told, f, g
  <2>1. \A a, b : a <= b => b >= a
    OBVIOUS
  <2> QED
    BY <1>5, <1>7, <2>1
<1> HIDE DEF timed, told
<1>9. told.estimable <=> D # {} /\ \A n \in D : limits(n) # {}
  BY <1>4, <1>6
<1>10. told.estimable => told.seconds >= SumFunction(f)
  BY <1>4, <1>8
<1> QED
  BY <1>2, <1>9, <1>10 DEF told

\* What is taken some times is no less than itself.
LEMMA TimesAtLeastOne ==
  ASSUME NEW a \in Nat, NEW n \in Nat, n > 0
  PROVE  a * n >= a
<1>1. n - 1 \in Nat
  OBVIOUS
<1>2. a * (n - 1) \in Nat
  BY <1>1
<1>3. a * n = a * (n - 1) + a
  OBVIOUS
<1> QED
  BY <1>2, <1>3

\* What is said of a flat profile covers some limit or number of requests in it.
LEMMA FlatIsHonest ==
  ASSUME NEW p, IsProfile(p), p.layout = "flat", EstimateRun(LoadShape(p)).estimable
  PROVE  LET seconds == EstimateRun(LoadShape(p)).seconds
         IN  \/ \E n \in DOMAIN p.stages : p.stages[n].duration # {} /\ seconds >= Only(p.stages[n].duration)
             \/ p.maxSeconds # {} /\ seconds >= Only(p.maxSeconds)
             \/ p.prompts \cup p.requests # {}
<1> DEFINE load == FlatLoad(p)
           told == EstimateRun(load)
           g == Durations(p.stages)
           T == DOMAIN g
           count == Cardinality(DOMAIN load.rates)
<1>1. LoadShape(p) = load
  BY DEF LoadShape
<1>2. load.total = (IF T # {} THEN {Total(g)} ELSE {}) /\ load.maxSeconds = p.maxSeconds
      /\ load.requests = (IF p.prompts # {} THEN p.prompts ELSE p.requests)
      /\ load.rates = (IF DOMAIN p.stages # {} THEN Rates(p.stages) ELSE p.rates)
  BY DEF FlatLoad
<1>3. g = [n \in T |-> Only(p.stages[n].duration)] /\ T = {n \in DOMAIN p.stages : p.stages[n].duration # {}}
  BY DEF Durations, Numbers
<1>4. \A n \in T : n \in DOMAIN p.stages /\ p.stages[n].duration # {} /\ g[n] = Only(p.stages[n].duration) /\ g[n] \in Nat
  <2> SUFFICES ASSUME NEW n \in T
               PROVE  n \in DOMAIN p.stages /\ p.stages[n].duration # {} /\ g[n] = Only(p.stages[n].duration) /\ g[n] \in Nat
    OBVIOUS
  <2>1. n \in DOMAIN p.stages /\ p.stages[n].duration # {} /\ g[n] = Only(p.stages[n].duration)
    BY <1>3
  <2>2. IsOptional(p.stages[n].duration)
    BY <2>1 DEF IsProfile
  <2> QED
    BY <2>1, <2>2, OnlyOne
<1>f. IsFiniteSet(DOMAIN p.stages) /\ IsFiniteSet(DOMAIN p.rates)
  <2> DEFINE M == Len(p.stages)
             N == Len(p.rates)
  <2>1. M \in Nat /\ DOMAIN p.stages = 1..M /\ N \in Nat /\ DOMAIN p.rates = 1..N
    BY DEF IsProfile, IsNumberList
  <2> HIDE DEF M, N
  <2>2. IsFiniteSet(1..M)
    BY <2>1, 1 \in Int, M \in Int, FS_Interval
  <2>3. IsFiniteSet(1..N)
    BY <2>1, 1 \in Int, N \in Int, FS_Interval
  <2> QED
    BY <2>1, <2>2, <2>3
<1>5. IsFiniteSet(T)
  BY <1>3, <1>f, FS_Subset
<1>6. count \in Nat
  <2>1. DOMAIN Rates(p.stages) \subseteq DOMAIN p.stages
    BY DEF Rates, Numbers
  <2>2. IsFiniteSet(DOMAIN load.rates)
    BY <1>2, <1>f, <2>1, FS_Subset
  <2> QED
    BY <2>2, FS_CardinalityType
<1> HIDE DEF load, g, T
<1>7. CASE T # {}
  <2>1. PICK n \in T : TRUE
    BY <1>7
  <2>2. Total(g) = g[n] + SumFunctionOnSet(g, T \ {n}) /\ SumFunctionOnSet(g, T \ {n}) \in Nat
    <3>1. Total(g) = SumFunctionOnSet(g, T)
      BY DEF Total, SumFunction, T
    <3>2. SumFunctionOnSet(g, T) = g[n] + SumFunctionOnSet(g, T \ {n})
      BY <1>4, <1>5, SumStep
    <3>3. IsFiniteSet(T \ {n}) /\ \A m \in T \ {n} : g[m] \in Nat
      BY <1>4, <1>5, FS_Subset
    <3>4. SumFunctionOnSet(g, T \ {n}) \in Nat
      BY <3>3, SumStep
    <3> QED
      BY <3>1, <3>2, <3>4
  <2>3. load.total = {Total(g)}
    BY <1>2, <1>7
  <2>4. told.seconds = Total(g)
    <3>1. Only(load.total) = Total(g)
      BY <2>3 DEF Only
    <3> QED
      BY <2>3, <3>1 DEF EstimateRun, Estimated
  <2>5. g[n] \in Nat
    BY <1>4
  <2> HIDE DEF told
  <2>6. told.seconds >= g[n]
    BY <2>2, <2>4, <2>5
  <2> QED
    BY <1>1, <1>4, <2>6 DEF told
<1>8. CASE T = {} /\ p.maxSeconds # {} /\ count > 0
  <2>1. Only(p.maxSeconds) \in Nat
    BY <1>8, OnlyOne DEF IsProfile
  <2>2. told.seconds = Only(p.maxSeconds) * count
    BY <1>2, <1>8 DEF EstimateRun, Estimated
  <2> HIDE DEF told, count
  <2>3. told.seconds >= Only(p.maxSeconds)
    BY <1>6, <1>8, <2>1, <2>2, TimesAtLeastOne
  <2> QED
    BY <1>1, <1>8, <2>3 DEF told
<1>9. CASE T = {} /\ ~(p.maxSeconds # {} /\ count > 0)
  <2>1. load.requests # {}
    BY <1>1, <1>2, <1>9 DEF EstimateRun
  <2> QED
    BY <1>2, <2>1
<1> QED
  BY <1>7, <1>8, <1>9

\* What a profile lacks is named, and enough once the first of it is there.
LEMMA SuppliedIsEnough ==
  ASSUME NEW p, IsProfile(p), ~EstimateRun(LoadShape(p)).estimable
  PROVE  LET missing == EstimateRun(LoadShape(p)).missing
         IN  missing # {} /\ EstimateRun(Supplied(LoadShape(p), missing)).estimable
<1> DEFINE load == LoadShape(p)
           told == EstimateRun(load)
           D == DOMAIN load.rates
<1>1. \E s, r, m, q, t : load = [stages |-> s, rates |-> r, maxSeconds |-> m, requests |-> q, total |-> t]
  BY DEF LoadShape, SpecLoad, FlatLoad
<1>2. load.maxSeconds # {} => IsFiniteSet(D)
  <2>1. CASE p.layout = "spec"
    BY <2>1 DEF LoadShape, SpecLoad
  <2>2. CASE p.layout # "spec"
    <3>0. p.layout = "flat" /\ load = FlatLoad(p)
      BY <2>2 DEF LoadShape, IsProfile
    <3>1. D \subseteq DOMAIN p.stages \/ D = DOMAIN p.rates
      BY <3>0 DEF FlatLoad, Rates, Numbers
    <3> DEFINE M == Len(p.stages)
               N == Len(p.rates)
    <3>2. M \in Nat /\ DOMAIN p.stages = 1..M /\ N \in Nat /\ DOMAIN p.rates = 1..N
      BY <3>0 DEF IsProfile, IsNumberList
    <3> HIDE DEF M, N
    <3>3. IsFiniteSet(1..M)
      BY <3>2, 1 \in Int, M \in Int, FS_Interval
    <3>4. IsFiniteSet(1..N)
      BY <3>2, 1 \in Int, N \in Int, FS_Interval
    <3> HIDE DEF D
    <3> QED
      BY <3>1, <3>2, <3>3, <3>4, FS_Subset
  <2> QED
    BY <2>1, <2>2
<1> HIDE DEF load
<1>3. load.total = {} /\ (load.maxSeconds = {} \/ ~(Cardinality(D) > 0))
  BY DEF EstimateRun, Estimated, load
<1>4. told.missing = Missing(load)
  BY DEF EstimateRun, Estimated, load
<1>5. CASE load.maxSeconds = {}
  <2>1. "duration" \in told.missing
    BY <1>3, <1>4, <1>5 DEF Missing
  <2>2. Supplied(load, told.missing).total = {1}
    BY <1>1, <2>1 DEF Supplied
  <2>3. EstimateRun(Supplied(load, told.missing)).estimable
    BY <2>2 DEF EstimateRun, Estimated
  <2> QED
    BY <2>1, <2>3 DEF load
<1>6. CASE load.maxSeconds # {}
  <2>1. D = {}
    <3>1. IsFiniteSet(D) /\ ~(Cardinality(D) > 0)
      BY <1>2, <1>3, <1>6
    <3>2. Cardinality(D) = 0
      BY <3>1, FS_CardinalityType
    <3> QED
      BY <3>1, <3>2, FS_EmptySet
  <2>2. "rate" \in told.missing /\ "duration" \notin told.missing
    <3>1. "rate" \in Missing(load)
      BY <2>1 DEF Missing
    <3>2. "duration" \notin Missing(load)
      BY <1>6 DEF Missing
    <3> QED
      BY <1>4, <3>1, <3>2
  <2> DEFINE new == Supplied(load, told.missing)
  <2>3. new = [load EXCEPT !.rates = <<1>>]
    BY <2>2 DEF Supplied
  <2>4. new.rates = <<1>> /\ new.maxSeconds # {}
    BY <1>1, <1>6, <2>3
  <2>5. Cardinality(DOMAIN new.rates) = 1
    <3>1. DOMAIN new.rates = {1}
      BY <2>4
    <3> QED
      BY <3>1, FS_Singleton
  <2> HIDE DEF new
  <2>6. EstimateRun(new).estimable
    <3>1. Cardinality(DOMAIN new.rates) > 0
      BY <2>5
    <3> QED
      BY <2>4, <3>1 DEF EstimateRun, Estimated
  <2> QED
    BY <2>2, <2>6 DEF load, new
<1> QED
  BY <1>5, <1>6

\* A workload that a harness lists is found under it, and without naming one.
LEMMA ListedAreFound ==
  ASSUME NEW files, \A f \in files : f.harness \in ToSet(SearchOrder)
  PROVE  ListedIsFound(files)
<1> DEFINE of(h, base) == {f \in files : f.harness = h /\ f.base = base}
           best(some) == CHOOSE f \in some : f.template \/ \A g \in some : ~g.template
<1>1. \A some : some # {} => best(some) \in some
  OBVIOUS
<1>2. SUFFICES ASSUME NEW h \in {f.harness : f \in files}, NEW base \in Listed(files, h)
               PROVE  /\ \E f \in ReadProfile(files, h, base) : f.harness = h /\ f.base = base
                      /\ ReadProfile(files, "", base) # {}
  BY DEF ListedIsFound
<1>3. of(h, base) # {}
  BY DEF Listed
<1>4. h \in ToSet(SearchOrder)
  OBVIOUS
<1>5. h # "" /\ \E n \in DOMAIN SearchOrder : SearchOrder[n] = h
  <2>1. \E n \in DOMAIN SearchOrder : SearchOrder[n] = h
    BY <1>4 DEF ToSet
  <2>2. \A n \in DOMAIN SearchOrder : SearchOrder[n] # ""
    <3>1. DOMAIN SearchOrder = {1, 2, 3}
      BY DEF SearchOrder
    <3>2. SearchOrder[1] # "" /\ SearchOrder[2] # "" /\ SearchOrder[3] # ""
      BY DEF SearchOrder
    <3> QED
      BY <3>1, <3>2
  <2> QED
    BY <2>1, <2>2
<1>6. ReadProfile(files, h, base) = {best(of(h, base))}
  <2> DEFINE order == IF h # "" THEN <<h>> ELSE SearchOrder
             having == {n \in DOMAIN order : of(order[n], base) # {}}
             first == of(order[Min(having)], base)
  <2>1. ReadProfile(files, h, base) = IF having = {} THEN {} ELSE {best(first)}
    BY DEF ReadProfile
  <2>2. order = <<h>>
    BY <1>5
  <2> HIDE DEF order, of, best
  <2>3. having = {1}
    BY <1>3, <2>2
  <2>4. Min(having) = 1
    <3> HIDE DEF having
    <3> QED
      BY <2>3, MinIsLeast
  <2>5. first = of(h, base)
    BY <2>2, <2>4
  <2> HIDE DEF first, having
  <2> QED
    BY <2>1, <2>3, <2>5
<1>7. ReadProfile(files, "", base) # {}
  <2> DEFINE having == {n \in DOMAIN SearchOrder : of(SearchOrder[n], base) # {}}
  <2>1. having # {}
    BY <1>3, <1>5
  <2>2. ReadProfile(files, "", base) = LET first == of(SearchOrder[Min(having)], base)
                                       IN  IF having = {} THEN {} ELSE {best(first)}
    BY DEF ReadProfile
  <2> HIDE DEF having
  <2> QED
    BY <2>1, <2>2
<1>8. best(of(h, base)) \in of(h, base)
  BY <1>1, <1>3
<1> HIDE DEF best
<1>9. best(of(h, base)).harness = h /\ best(of(h, base)).base = base
  BY <1>8
<1> QED
  BY <1>6, <1>7, <1>9

\* Of either layout.
LEMMA EstimatesAreHonest ==
  ASSUME NEW p, IsProfile(p)
  PROVE  EstimateHonest(p, EstimateRun(LoadShape(p)))
<1> DEFINE load == LoadShape(p)
           told == EstimateRun(load)
<1>1. p.layout = "spec" =>
        /\ told.estimable <=> DOMAIN p.benchmarks # {} /\ \A n \in DOMAIN p.benchmarks : TimeLimits(p, p.benchmarks[n]) # {}
        /\ told.estimable =>
             told.seconds >= SumFunction([n \in DOMAIN p.benchmarks |-> Min(TimeLimits(p, p.benchmarks[n]))])
  BY SpecIsHonest
<1>2. p.layout = "flat" /\ told.estimable =>
        \/ \E n \in DOMAIN p.stages : p.stages[n].duration # {} /\ told.seconds >= Only(p.stages[n].duration)
        \/ p.maxSeconds # {} /\ told.seconds >= Only(p.maxSeconds)
        \/ p.prompts \cup p.requests # {}
  BY FlatIsHonest
<1>3. ~told.estimable => told.missing # {} /\ EstimateRun(Supplied(load, told.missing)).estimable
  BY SuppliedIsEnough
<1> HIDE DEF told, load
<1> QED
  BY <1>1, <1>2, <1>3 DEF EstimateHonest, load, told

\* A duration is said only of a load that is bounded, and covers its limits; what is
\* missing is named; a workload that is listed can be previewed.
THEOREM EstimateIsTrue == VerdictSpec => []EstimateTrue
<1>1. Told => EstimateTrue
  <2> SUFFICES ASSUME Told, topic = "estimate", answer # <<>> PROVE EstimateTrue
    BY DEF EstimateTrue, Answered
  <2>1. question \in Asked("estimate")
    BY DEF Told, Asked
  <2>2. IsProfile(question.profile) /\ \A f \in question.files : f.harness \in ToSet(SearchOrder)
    BY <2>1, QuestionsAssumption
  <2>3. Result = EstimateRun(LoadShape(question.profile))
    BY DEF Told, Answered
  <2>4. EstimateHonest(question.profile, Result)
    BY <2>2, <2>3, EstimatesAreHonest
  <2>5. ListedIsFound(question.files)
    BY <2>2, ListedAreFound
  <2> QED
    BY <2>4, <2>5 DEF EstimateTrue
<1> HIDE DEF Told, EstimateTrue
<1> QED
  BY <1>1, ToldAlways, PTL

-----------------------------------------------------------------------------
(* Designs. *)

\* A place in a matrix of rows of L is a row and a place in it.
InMatrix(C, L) ==
  /\ \A k \in 1..(C * L) : ((k - 1) \div L) + 1 \in 1..C /\ ((k - 1) % L) + 1 \in 1..L
  /\ \A a \in 1..C, b \in 1..L :
       \E k \in 1..(C * L) : ((k - 1) \div L) + 1 = a /\ ((k - 1) % L) + 1 = b

\* The rows and columns of a matrix of C times L are those of its C * L places.
LEMMA PlaceInMatrix ==
  ASSUME NEW C \in Nat, NEW L \in Nat
  PROVE  InMatrix(C, L)
<1>0. C * L \in Nat
  OBVIOUS
<1>1. ASSUME NEW k \in 1..(C * L) PROVE ((k - 1) \div L) + 1 \in 1..C /\ ((k - 1) % L) + 1 \in 1..L
  <2>0. L # 0 /\ C # 0
    BY <1>0
  <2> DEFINE x == k - 1
             q == x \div L
             r == x % L
  <2>1. x \in Nat /\ x < C * L
    BY <1>0
  <2>2. q \in Int /\ L * q <= x /\ x < L * q + L
    BY <2>0, <2>1, Quotient
  <2>3. r \in 0..(L - 1)
    BY <2>0, <2>1
  <2>4. 0 <= q /\ q <= C - 1
    <3>1. C - 1 \in Nat /\ L * ((C - 1) + 1) = C * L
      BY <2>0
    <3>2. x < L * ((C - 1) + 1)
      BY <2>1, <3>1
    <3> QED
      BY <2>0, <2>1, <3>1, <3>2, QuotientBetween
  <2> HIDE DEF q, r, x
  <2>5. q + 1 \in 1..C /\ r + 1 \in 1..L
    BY <2>2, <2>3, <2>4
  <2> QED
    BY <2>5 DEF q, r, x
<1>2. ASSUME NEW a \in 1..C, NEW b \in 1..L
      PROVE  \E k \in 1..(C * L) : ((k - 1) \div L) + 1 = a /\ ((k - 1) % L) + 1 = b
  <2> DEFINE base == L * (a - 1)
             k == base + b
             q == (k - 1) \div L
             r == (k - 1) % L
  <2>0. L \in Nat \ {0} /\ a - 1 \in Nat /\ base \in Nat /\ C - a \in Nat
    OBVIOUS
  <2>1. base + L <= C * L
    <3>1. L * a <= L * C /\ L * a \in Int /\ L * C \in Int
      BY <2>0, Times
    <3>2. base = L * a - L /\ L * C = C * L
      BY <2>0
    <3> HIDE DEF base
    <3> QED
      BY <2>0, <3>1, <3>2
  <2>2. k \in 1..(C * L)
    <3> HIDE DEF base
    <3> QED
      BY <1>0, <2>0, <2>1
  <2>3. q \in Int /\ L * q <= k - 1 /\ k - 1 < L * q + L /\ r = (k - 1) - L * q
    <3>1. k - 1 \in Int
      BY <2>2
    <3> DEFINE x == k - 1
    <3> HIDE DEF k
    <3>2. x \in Int
      BY <3>1
    <3> HIDE DEF x
    <3>3. x \div L \in Int /\ L * (x \div L) <= x /\ x < L * (x \div L) + L /\ x % L = x - L * (x \div L)
      BY <2>0, <3>2, Quotient
    <3> QED
      BY <3>3 DEF x
  <2> HIDE DEF q, r, k
  <2>4. q = a - 1
    <3>1. ASSUME q + 1 <= a - 1 PROVE FALSE
      <4>1. L * (q + 1) <= L * (a - 1) /\ L * (q + 1) = L * q + L /\ L * q \in Int
        BY <2>0, <2>3, <3>1, Times
      <4> HIDE DEF base
      <4>2. k - 1 < base
        <5>1. k \in Int /\ L * q + L <= base /\ base \in Int
          BY <2>0, <2>2, <4>1 DEF base
        <5> QED
          BY <2>3, <4>1, <5>1
      <4> QED
        BY <2>0, <4>2 DEF k
    <3>2. ASSUME (a - 1) + 1 <= q PROVE FALSE
      <4>1. L * ((a - 1) + 1) <= L * q /\ L * ((a - 1) + 1) = base + L /\ L * q \in Int
        BY <2>0, <2>3, <3>2, Times
      <4> HIDE DEF base
      <4>2. base + L <= k - 1
        BY <2>0, <2>2, <2>3, <4>1
      <4> QED
        BY <2>0, <4>2 DEF k
    <3> QED
      BY <2>0, <2>3, <3>1, <3>2
  <2>5. r = b - 1
    <3> HIDE DEF base
    <3>1. L * q = base
      BY <2>4 DEF base
    <3> QED
      BY <2>0, <2>3, <3>1 DEF k
  <2> QED
    BY <2>0, <2>2, <2>4, <2>5 DEF q, r
<1> QED
  BY <1>1, <1>2 DEF InMatrix

\* The combinations of a crossing are those of a combination and a level.
Crosses(all, combos, levels, V) ==
  /\ all \in Seq(Seq(V))
  /\ \A k \in DOMAIN all : \E a \in DOMAIN combos, b \in DOMAIN levels : all[k] = Append(combos[a], levels[b])
  /\ \A a \in DOMAIN combos, b \in DOMAIN levels : \E k \in DOMAIN all : all[k] = Append(combos[a], levels[b])

\* Crossing pairs every combination with every level, and nothing else.
LEMMA CrossedAll ==
  ASSUME NEW V, NEW combos \in Seq(Seq(V)), NEW levels \in Seq(V)
  PROVE  Crosses(Crossed(combos, levels), combos, levels, V)
<1> DEFINE C == Len(combos)
           L == Len(levels)
           row(k) == ((k - 1) \div L) + 1
           column(k) == ((k - 1) % L) + 1
           all == Crossed(combos, levels)
<1>1. C \in Nat /\ L \in Nat /\ DOMAIN combos = 1..C /\ DOMAIN levels = 1..L
  OBVIOUS
<1>2. all = [k \in 1..(C * L) |-> Append(combos[row(k)], levels[column(k)])]
  BY DEF Crossed
<1> HIDE DEF C, L, all
<1>3. /\ \A k \in 1..(C * L) : row(k) \in 1..C /\ column(k) \in 1..L
      /\ \A a \in 1..C, b \in 1..L : \E k \in 1..(C * L) : row(k) = a /\ column(k) = b
  <2>1. InMatrix(C, L)
    BY <1>1, PlaceInMatrix
  <2> QED
    BY <2>1 DEF InMatrix
<1> HIDE DEF row, column
<1>4. \A k \in 1..(C * L) : Append(combos[row(k)], levels[column(k)]) \in Seq(V)
  BY <1>1, <1>3
<1>5. C * L \in Nat
  BY <1>1
<1>6. DOMAIN all = 1..(C * L) /\ \A k \in 1..(C * L) : all[k] = Append(combos[row(k)], levels[column(k)])
  BY <1>2
<1>7. all \in Seq(Seq(V))
  <2>1. all \in [1..(C * L) -> Seq(V)]
    BY <1>2, <1>4
  <2> QED
    BY <1>5, <2>1
<1> DEFINE cell(a, b) == Append(combos[a], levels[b])
           M == C * L
<1>a. DOMAIN all = 1..M /\ \A k \in 1..M : all[k] = cell(row(k), column(k)) /\ row(k) \in 1..C /\ column(k) \in 1..L
  BY <1>3, <1>6
<1>b. \A a \in 1..C, b \in 1..L : \E k \in 1..M : row(k) = a /\ column(k) = b
  BY <1>3
<1>8. \A k \in DOMAIN all : \E a \in DOMAIN combos, b \in DOMAIN levels : all[k] = cell(a, b)
  <2> HIDE DEF M, cell
  <2> QED
    BY <1>1, <1>a
<1>9. \A a \in DOMAIN combos, b \in DOMAIN levels : \E k \in DOMAIN all : all[k] = cell(a, b)
  <2> SUFFICES ASSUME NEW a \in 1..C, NEW b \in 1..L PROVE \E k \in DOMAIN all : all[k] = cell(a, b)
    BY <1>1
  <2>1. PICK k \in 1..M : row(k) = a /\ column(k) = b
    BY <1>b
  <2>2. all[k] = cell(row(k), column(k)) /\ k \in DOMAIN all
    <3> HIDE DEF M, cell
    <3> QED
      BY <1>a, <2>1
  <2>3. all[k] = cell(a, b)
    BY <2>1, <2>2
  <2> QED
    BY <2>2, <2>3
<1> QED
  BY <1>7, <1>8, <1>9 DEF Crosses, all

\* The combinations of one level of each of the first n factors.
OneOfEach(factors, n, V) == {c \in [1..n -> V] : \A m \in 1..n : c[m] \in ToSet(factors[m].levels)}

\* A list of combinations that has each of them.
Lists(combos, factors, n, V) == combos \in Seq(Seq(V)) /\ ToSet(combos) = OneOfEach(factors, n, V)

\* The levels are taken from V.
LevelsOf(factors, V) ==
  /\ factors \in Seq(Range(factors)) /\ \A n \in DOMAIN factors : factors[n].levels \in Seq(V)

\* A sequence of n+1 is one of n and a last element.
LEMMA AppendIs ==
  ASSUME NEW V, NEW n \in Nat, NEW c \in [1..n -> V], NEW l \in V
  PROVE  /\ Append(c, l) \in [1..(n + 1) -> V] /\ Append(c, l)[n + 1] = l
         /\ \A m \in 1..n : Append(c, l)[m] = c[m]
<1>1. c \in Seq(V) /\ Len(c) = n
  OBVIOUS
<1>2. Append(c, l) \in Seq(V) /\ Len(Append(c, l)) = n + 1
  BY <1>1
<1>3. \A s \in Seq(V) : s \in [1..Len(s) -> V]
  OBVIOUS
<1>4. Append(c, l) \in [1..(n + 1) -> V]
  BY <1>2, <1>3
<1> QED
  BY <1>1, <1>4

\* Crossed with one factor more, a list of all combinations is one of all the longer ones.
LEMMA CrossedLists ==
  ASSUME NEW V, NEW factors, LevelsOf(factors, V), NEW n \in Nat, n + 1 \in DOMAIN factors,
         NEW combos, Lists(combos, factors, n, V)
  PROVE  Lists(Crossed(combos, factors[n + 1].levels), factors, n + 1, V)
<1> DEFINE levels == factors[n + 1].levels
           all == Crossed(combos, levels)
<1>1. levels \in Seq(V) /\ combos \in Seq(Seq(V)) /\ ToSet(combos) = OneOfEach(factors, n, V)
  BY DEF LevelsOf, Lists
<1> HIDE DEF levels, all
<1>2. Crosses(all, combos, levels, V)
  BY <1>1, CrossedAll DEF all
<1>3. ASSUME NEW c \in OneOfEach(factors, n, V), NEW l \in ToSet(levels) PROVE Append(c, l) \in OneOfEach(factors, n + 1, V)
  <2>1. c \in [1..n -> V] /\ \A m \in 1..n : c[m] \in ToSet(factors[m].levels)
    BY DEF OneOfEach
  <2>2. l \in V
    BY <1>1 DEF ToSet
  <2>3. c \in Seq(V) /\ Len(c) = n
    BY <2>1
  <2>4. Append(c, l) \in [1..(n + 1) -> V]
    BY <2>1, <2>2, AppendIs
  <2>5. ASSUME NEW m \in 1..(n + 1) PROVE Append(c, l)[m] \in ToSet(factors[m].levels)
    <3>1. CASE m = n + 1
      <4>1. Append(c, l)[m] = l
        BY <2>3, <3>1
      <4> QED
        BY <3>1, <4>1 DEF levels
    <3>2. CASE m # n + 1
      <4>1. m \in 1..n /\ Append(c, l)[m] = c[m]
        BY <2>3, <3>2
      <4> QED
        BY <2>1, <4>1
    <3> QED
      BY <3>1, <3>2
  <2> QED
    BY <2>4, <2>5 DEF OneOfEach
<1>4. ASSUME NEW d \in OneOfEach(factors, n + 1, V)
      PROVE  \E c \in OneOfEach(factors, n, V), l \in ToSet(levels) : d = Append(c, l)
  <2>1. d \in [1..(n + 1) -> V] /\ \A m \in 1..(n + 1) : d[m] \in ToSet(factors[m].levels)
    BY DEF OneOfEach
  <2> DEFINE c == [m \in 1..n |-> d[m]]
             l == d[n + 1]
  <2>2. \A m \in 1..n : m \in 1..(n + 1) /\ d[m] \in V
    BY <2>1
  <2>3. c \in [1..n -> V] /\ \A m \in 1..n : c[m] \in ToSet(factors[m].levels)
    BY <2>1, <2>2
  <2>4. c \in OneOfEach(factors, n, V)
    BY <2>3 DEF OneOfEach
  <2>5. l \in ToSet(levels) /\ l \in V
    <3>1. n + 1 \in 1..(n + 1)
      OBVIOUS
    <3> QED
      BY <2>1, <3>1 DEF levels
  <2>6. d = Append(c, l)
    <3>1. c \in Seq(V) /\ Len(c) = n
      BY <2>3
    <3>2. Append(c, l) \in [1..(n + 1) -> V]
      BY <2>3, <2>5, AppendIs
    <3>3. \A m \in 1..(n + 1) : Append(c, l)[m] = d[m]
      BY <2>5, <3>1
    <3> HIDE DEF c, l
    <3> QED
      BY <2>1, <3>2, <3>3
  <2> QED
    BY <2>4, <2>5, <2>6
<1>5. ASSUME NEW d \in ToSet(all) PROVE d \in OneOfEach(factors, n + 1, V)
  <2>1. PICK a \in DOMAIN combos, b \in DOMAIN levels : d = Append(combos[a], levels[b])
    <3>1. PICK k \in DOMAIN all : d = all[k]
      BY DEF ToSet
    <3>2. \E a \in DOMAIN combos, b \in DOMAIN levels : all[k] = Append(combos[a], levels[b])
      BY <1>2 DEF Crosses
    <3> QED
      BY <3>1, <3>2
  <2>2. combos[a] \in ToSet(combos) /\ levels[b] \in ToSet(levels)
    BY DEF ToSet
  <2> QED
    BY <1>1, <1>3, <2>1, <2>2
<1>6. ASSUME NEW d \in OneOfEach(factors, n + 1, V) PROVE d \in ToSet(all)
  <2>1. PICK c \in OneOfEach(factors, n, V), l \in ToSet(levels) : d = Append(c, l)
    BY <1>4
  <2>2. PICK a \in DOMAIN combos : combos[a] = c
    BY <1>1 DEF ToSet
  <2>3. PICK b \in DOMAIN levels : levels[b] = l
    BY DEF ToSet
  <2>4. PICK k \in DOMAIN all : all[k] = Append(combos[a], levels[b])
    BY <1>2 DEF Crosses
  <2> QED
    BY <2>1, <2>2, <2>3, <2>4 DEF ToSet
<1>7. all \in Seq(Seq(V))
  BY <1>2 DEF Crosses
<1> QED
  BY <1>5, <1>6, <1>7 DEF Lists, all, levels

\* The product has every combination.
LEMMA ProductLists ==
  ASSUME NEW V, NEW factors, LevelsOf(factors, V)
  PROVE  Lists(Product(factors), factors, Len(factors), V)
<1> DEFINE N == Len(factors)
           X == Seq(Seq(V))
           next(combos, n) == Crossed(combos, factors[n].levels)
           first == << <<>> >>
           of == CHOOSE of : of = [n \in 0..N |-> IF n = 0 THEN << <<>> >> ELSE Crossed(of[n - 1], factors[n].levels)]
           step == [p \in (1..N) \X X |-> next(p[2], p[1])]
<1>0. N \in Nat /\ DOMAIN factors = 1..N
  BY DEF LevelsOf
<1>1. Product(factors) = of[N]
  BY DEF Product
<1> HIDE DEF N
<1>2. \A n \in 1..N, combos \in X : next(combos, n) \in X
  <2> SUFFICES ASSUME NEW n \in 1..N, NEW combos \in X PROVE next(combos, n) \in X
    OBVIOUS
  <2>1. factors[n].levels \in Seq(V)
    BY <1>0 DEF LevelsOf
  <2> DEFINE levels == factors[n].levels
  <2> HIDE DEF levels
  <2>2. Crosses(Crossed(combos, levels), combos, levels, V)
    BY <2>1, CrossedAll DEF levels
  <2> QED
    BY <2>2 DEF Crosses, levels
<1>3. first \in X
  OBVIOUS
<1> HIDE DEF next, X
<1>4. step \in [(1..N) \X X -> X]
  BY <1>2
<1>5. \A n \in 1..N, combos \in X : step[<<n, combos>>] = next(combos, n)
  OBVIOUS
<1> HIDE DEF step, first
<1>6. PICK a \in [0..N -> X] : Follows(a, N, first, step)
  BY <1>0, <1>3, <1>4, Recursion
<1>7. \A n \in 0..N : a[n] = IF n = 0 THEN first ELSE next(a[n - 1], n)
  <2> SUFFICES ASSUME NEW n \in 0..N PROVE a[n] = IF n = 0 THEN first ELSE next(a[n - 1], n)
    OBVIOUS
  <2>1. n # 0 => n - 1 \in 0..N /\ n \in 1..N
    BY <1>0
  <2> QED
    BY <1>5, <1>6, <2>1 DEF Follows
<1>8. a = [n \in 0..N |-> IF n = 0 THEN first ELSE next(a[n - 1], n)]
  BY <1>7
<1>9. of = [n \in 0..N |-> IF n = 0 THEN first ELSE next(of[n - 1], n)]
  BY <1>8 DEF first, next
<1> HIDE DEF of
<1>10. of[0] = first /\ \A n \in 1..N : of[n] = next(of[n - 1], n)
  <2>1. 0 \in 0..N /\ \A n \in 1..N : n \in 0..N /\ n # 0
    BY <1>0
  <2> QED
    BY <1>9, <2>1
<1> DEFINE K == {n \in Nat : n <= N => Lists(of[n], factors, n, V)}
<1>11. 0 \in K
  <2>1. ToSet(first) = {<<>>}
    BY DEF first, ToSet
  <2>2. OneOfEach(factors, 0, V) = {<<>>}
    <3>1. \A c \in [1..0 -> V] : c = <<>>
      <4> SUFFICES ASSUME NEW c \in [1..0 -> V] PROVE c = <<>>
        OBVIOUS
      <4>1. c \in Seq(V) /\ Len(c) = 0
        BY 0 \in Nat
      <4> QED
        BY <4>1
    <3>2. <<>> \in [1..0 -> V]
      OBVIOUS
    <3> QED
      <4>1. \A m \in 1..0 : <<>>[m] \in ToSet(factors[m].levels)
        OBVIOUS
      <4> QED
        BY <3>1, <3>2, <4>1 DEF OneOfEach
  <2> QED
    BY <1>3, <1>10, <2>1, <2>2 DEF Lists, X
<1>12. ASSUME NEW n \in Nat, n \in K PROVE n + 1 \in K
  <2> SUFFICES ASSUME n + 1 <= N PROVE Lists(of[n + 1], factors, n + 1, V)
    OBVIOUS
  <2>1. Lists(of[n], factors, n, V) /\ n + 1 \in 1..N /\ (n + 1) - 1 = n
    BY <1>0, <1>12
  <2>2. of[n + 1] = Crossed(of[n], factors[n + 1].levels)
    <3>1. of[n + 1] = next(of[(n + 1) - 1], n + 1)
      BY <1>10, <2>1
    <3> QED
      BY <2>1, <3>1 DEF next
  <2>3. Lists(Crossed(of[n], factors[n + 1].levels), factors, n + 1, V)
    BY <1>0, <2>1, CrossedLists
  <2> QED
    BY <2>2, <2>3
<1>13. \A n \in Nat : n \in K
  <2> HIDE DEF K
  <2> QED
    BY <1>11, <1>12, Climb
<1> QED
  BY <1>0, <1>1, <1>13 DEF N

\* A name is deduplicated to one of its own: of so many numbers one is not taken.
LEMMA DedupedIsNew ==
  ASSUME NEW name, NEW taken, IsFiniteSet(taken)
  PROVE  /\ Deduped(name, taken) \notin taken
         /\ Deduped(name, taken) = name \/ \E i \in Nat : Deduped(name, taken) = [text |-> Text(name), number |-> i]
<1> DEFINE C == Cardinality(taken)
           numbered(i) == [text |-> Text(name), number |-> i]
           free == {i \in 2..(C + 2) : numbered(i) \notin taken}
<1>0. C \in Nat
  BY FS_CardinalityType
<1>1. ASSUME free = {} PROVE FALSE
  <2> DEFINE f == [i \in 2..(C + 2) |-> numbered(i)]
  <2>1. \A i, j \in 2..(C + 2) : numbered(i) = numbered(j) => i = j
    <3> SUFFICES ASSUME NEW i \in 2..(C + 2), NEW j \in 2..(C + 2), numbered(i) = numbered(j) PROVE i = j
      OBVIOUS
    <3>1. numbered(i).number = i /\ numbered(j).number = j
      OBVIOUS
    <3> QED
      BY <3>1
  <2>2. \A i \in 2..(C + 2) : numbered(i) \in taken
    BY <1>1
  <2> HIDE DEF numbered, C
  <2>3. f \in Injection(2..(C + 2), taken)
    BY <2>1, <2>2 DEF Injection, IsInjective
  <2>4. IsFiniteSet(2..(C + 2)) /\ Cardinality(2..(C + 2)) = C + 1
    <3>1. 2 \in Int /\ C + 2 \in Int
      BY <1>0
    <3>2. Cardinality(2..(C + 2)) = (IF 2 > C + 2 THEN 0 ELSE (C + 2) - 2 + 1) /\ IsFiniteSet(2..(C + 2))
      BY <3>1, FS_Interval
    <3> QED
      BY <1>0, <3>2
  <2> HIDE DEF f
  <2>5. Cardinality(2..(C + 2)) <= C
    BY <2>3, FS_Injection DEF C
  <2> QED
    BY <1>0, <2>4, <2>5
<1>2. Deduped(name, taken) = IF name \notin taken THEN name ELSE numbered(Min(free))
  BY DEF Deduped
<1>3. Min(free) \in free /\ Min(free) \in Nat
  <2>1. free \in SUBSET Nat
    OBVIOUS
  <2> HIDE DEF free
  <2> QED
    BY <1>1, <2>1, MinIsLeast
<1>4. numbered(Min(free)) \notin taken
  BY <1>3
<1> HIDE DEF free, C
<1> QED
  BY <1>2, <1>3, <1>4

\* What tells the elements of a sequence apart is as many as they are.
LEMMA CountedOnce ==
  ASSUME NEW L \in Nat, NEW f, DOMAIN f = 1..L, \A m, n \in 1..L : f[m] = f[n] => m = n
  PROVE  Cardinality({f[n] : n \in 1..L}) = L
<1> DEFINE T == {f[n] : n \in 1..L}
           h == [n \in 1..L |-> f[n]]
<1>1. IsFiniteSet(1..L) /\ Cardinality(1..L) = L
  BY 1 \in Int, L \in Int, FS_Interval
<1>2. h \in Surjection(1..L, T)
  BY DEF Surjection
<1>3. h \in Injection(1..L, T)
  BY DEF Injection, IsInjective
<1> HIDE DEF h, T
<1>4. Cardinality(T) = L
  BY <1>1, <1>2, <1>3, FS_Surjection
<1> QED
  BY <1>4 DEF T

\* What the treatments of a list of combinations are made of.
NamesOf(factors, combos) ==
  LET names == {TreatmentName(factors, combo) : combo \in ToSet(combos)}
  IN  names \cup {[text |-> Text(name), number |-> i] : name \in names, i \in Nat}
RowsOf(factors, combos) == [name : NamesOf(factors, combos), levels : ToSet(combos)]

\* No treatment is there twice, and there is one for each of the first n combinations.
Apart(rows) ==
  \A i, j \in DOMAIN rows :
    i # j => rows[i].name # rows[j].name /\ Signature(rows[i].levels) # Signature(rows[j].levels)
Treat(rows, combos, n) ==
  /\ Apart(rows)
  /\ \A k \in 1..n : \E i \in DOMAIN rows : Signature(rows[i].levels) = Signature(combos[k])

\* There are finitely many names to keep clear of.
LEMMA NamesTaken ==
  ASSUME NEW Made, NEW rows \in Seq(Made)
  PROVE  IsFiniteSet({row.name : row \in ToSet(rows)})
<1> DEFINE L == Len(rows)
           f == [n \in 1..L |-> rows[n].name]
           names == {row.name : row \in ToSet(rows)}
<1>1. L \in Nat /\ DOMAIN rows = 1..L
  OBVIOUS
<1> HIDE DEF L
<1>2. IsFiniteSet(1..L)
  BY <1>1, 1 \in Int, L \in Int, FS_Interval
<1>3. f \in Surjection(1..L, names)
  <2>1. \A n \in 1..L : f[n] \in names
    BY <1>1 DEF ToSet
  <2>2. \A name \in names : \E n \in 1..L : f[n] = name
    BY <1>1 DEF ToSet
  <2> HIDE DEF names
  <2> QED
    BY <2>1, <2>2 DEF Surjection
<1> HIDE DEF f, names
<1>4. IsFiniteSet(names)
  BY <1>2, <1>3, FS_Surjection
<1> QED
  BY <1>4 DEF names

\* The treatments stay, and the combination has one.
AddsRow(new, rows, combo, factors, combos) ==
  /\ new \in Seq(RowsOf(factors, combos))
  /\ Apart(rows) => Apart(new)
  /\ \A i \in DOMAIN rows : i \in DOMAIN new /\ new[i] = rows[i]
  /\ \E i \in DOMAIN new : Signature(new[i].levels) = Signature(combo)

\* A combination is added under a name of its own, or is there already.
LEMMA AddedRow ==
  ASSUME NEW factors, NEW combos, NEW rows \in Seq(RowsOf(factors, combos)), NEW combo \in ToSet(combos)
  PROVE  AddsRow(Added(rows, factors, combo), rows, combo, factors, combos)
<1> DEFINE Made == RowsOf(factors, combos)
           seen == \E row \in ToSet(rows) : Signature(row.levels) = Signature(combo)
           taken == {row.name : row \in ToSet(rows)}
           name == Deduped(TreatmentName(factors, combo), taken)
           row0 == [name |-> name, levels |-> combo]
           all == Added(rows, factors, combo)
<1>1. all = IF seen THEN rows ELSE Append(rows, row0)
  BY DEF Added
<1>2. CASE seen
  <2>1. \E i \in DOMAIN rows : Signature(rows[i].levels) = Signature(combo)
    BY <1>2 DEF ToSet
  <2>2. all = rows
    BY <1>1, <1>2
  <2> HIDE DEF all, seen
  <2>3. AddsRow(all, rows, combo, factors, combos)
    BY <2>1, <2>2 DEF AddsRow
  <2> QED
    BY <2>3 DEF all
<1>3. CASE ~seen
  <2>1. IsFiniteSet(taken)
    BY NamesTaken
  <2>2. name \notin taken /\ (name = TreatmentName(factors, combo)
                              \/ \E i \in Nat : name = [text |-> Text(TreatmentName(factors, combo)), number |-> i])
    <3> HIDE DEF taken
    <3> QED
      BY <2>1, DedupedIsNew
  <2> HIDE DEF name
  <2>3. name \in NamesOf(factors, combos)
    BY <2>2 DEF NamesOf
  <2>4. row0 \in Made
    BY <2>3 DEF RowsOf
  <2>5. \A i \in DOMAIN rows : rows[i].name # name /\ Signature(rows[i].levels) # Signature(combo)
    BY <1>3, <2>2 DEF ToSet
  <2>6. row0.name = name /\ row0.levels = combo
    OBVIOUS
  <2> HIDE DEF row0, seen, taken, all, Made
  <2>7. all = Append(rows, row0)
    BY <1>1, <1>3
  <2>8. rows \in Seq(Made)
    BY DEF Made
  <2> DEFINE L == Len(rows)
  <2>9. L \in Nat /\ DOMAIN rows = 1..L
    BY <2>8
  <2>10. all \in Seq(Made) /\ DOMAIN all = 1..(L + 1) /\ all[L + 1] = row0 /\ \A i \in 1..L : all[i] = rows[i]
    BY <2>4, <2>7, <2>8
  <2> HIDE DEF L
  <2>11. \A i \in DOMAIN all : i \in DOMAIN rows \/ i = L + 1
    BY <2>9, <2>10
  <2>12. Apart(rows) => Apart(all)
    <3> SUFFICES ASSUME Apart(rows), NEW i \in DOMAIN all, NEW j \in DOMAIN all, i # j
                 PROVE  all[i].name # all[j].name /\ Signature(all[i].levels) # Signature(all[j].levels)
      BY DEF Apart
    <3>1. CASE i \in DOMAIN rows /\ j \in DOMAIN rows
      BY <2>9, <2>10, <3>1 DEF Apart
    <3>2. CASE i \in DOMAIN rows /\ j = L + 1
      BY <2>5, <2>6, <2>9, <2>10, <3>2
    <3>3. CASE i = L + 1 /\ j \in DOMAIN rows
      BY <2>5, <2>6, <2>9, <2>10, <3>3
    <3> QED
      BY <2>11, <3>1, <3>2, <3>3
  <2>13. \A i \in DOMAIN rows : i \in DOMAIN all /\ all[i] = rows[i]
    BY <2>9, <2>10
  <2>14. L + 1 \in DOMAIN all /\ Signature(all[L + 1].levels) = Signature(combo)
    BY <2>6, <2>9, <2>10
  <2> QED
    BY <2>10, <2>12, <2>13, <2>14 DEF AddsRow, all, Made
<1> QED
  BY <1>2, <1>3

\* Once all combinations are added, each has one treatment.
LEMMA ExpandTreats ==
  ASSUME NEW V, NEW factors, LevelsOf(factors, V), factors # <<>>
  PROVE  LET combos == Product(factors)
         IN  /\ Expand(factors) \in Seq(RowsOf(factors, combos))
             /\ Treat(Expand(factors), combos, Len(combos))
<1> DEFINE combos == Product(factors)
           N == Len(combos)
           X == Seq(RowsOf(factors, combos))
           next(some, n) == Added(some, factors, combos[n])
           rows == CHOOSE rows : rows = [n \in 0..N |-> IF n = 0 THEN <<>> ELSE Added(rows[n - 1], factors, combos[n])]
           step == [p \in (1..N) \X X |-> next(p[2], p[1])]
<1>1. Expand(factors) = rows[N]
  BY DEF Expand
<1>0. combos \in Seq(Seq(V))
  BY ProductLists DEF Lists
<1> HIDE DEF combos
<1>2. N \in Nat /\ DOMAIN combos = 1..N
  BY <1>0
<1> HIDE DEF N
<1>3. \A n \in 1..N : combos[n] \in ToSet(combos)
  BY <1>2 DEF ToSet
<1>4. \A n \in 1..N, some \in X : next(some, n) \in X
  BY <1>3, AddedRow DEF AddsRow
<1>5. <<>> \in X
  OBVIOUS
<1>x. \A some \in X : some \in Seq(RowsOf(factors, combos))
  OBVIOUS
<1> HIDE DEF next, X
<1>6. step \in [(1..N) \X X -> X]
  BY <1>4
<1>7. \A n \in 1..N, some \in X : step[<<n, some>>] = next(some, n)
  OBVIOUS
<1> HIDE DEF step
<1>8. PICK a \in [0..N -> X] : Follows(a, N, <<>>, step)
  BY <1>2, <1>5, <1>6, Recursion
<1>9. \A n \in 0..N : a[n] = IF n = 0 THEN <<>> ELSE next(a[n - 1], n)
  <2> SUFFICES ASSUME NEW n \in 0..N PROVE a[n] = IF n = 0 THEN <<>> ELSE next(a[n - 1], n)
    OBVIOUS
  <2>1. n # 0 => n - 1 \in 0..N /\ n \in 1..N
    BY <1>2
  <2> QED
    BY <1>7, <1>8, <2>1 DEF Follows
<1>10. a = [n \in 0..N |-> IF n = 0 THEN <<>> ELSE next(a[n - 1], n)]
  BY <1>9
<1>11. rows = [n \in 0..N |-> IF n = 0 THEN <<>> ELSE next(rows[n - 1], n)]
  BY <1>10 DEF next
<1> HIDE DEF rows
<1>12. rows[0] = <<>> /\ \A n \in 1..N : rows[n] = next(rows[n - 1], n)
  <2>1. 0 \in 0..N /\ \A n \in 1..N : n \in 0..N /\ n # 0
    BY <1>2
  <2> QED
    BY <1>11, <2>1
<1> DEFINE K == {n \in Nat : n <= N => rows[n] \in X /\ Treat(rows[n], combos, n)}
<1>13. 0 \in K
  <2>1. Apart(<<>>)
    BY DEF Apart
  <2>2. Treat(<<>>, combos, 0)
    BY <2>1 DEF Treat
  <2> QED
    BY <1>5, <1>12, <2>2
<1>14. ASSUME NEW n \in Nat, n \in K PROVE n + 1 \in K
  <2> SUFFICES ASSUME n + 1 <= N PROVE rows[n + 1] \in X /\ Treat(rows[n + 1], combos, n + 1)
    OBVIOUS
  <2> DEFINE old == rows[n]
             combo == combos[n + 1]
             new == Added(old, factors, combo)
  <2>1. old \in X /\ Treat(old, combos, n) /\ n + 1 \in 1..N /\ (n + 1) - 1 = n
    BY <1>2, <1>14
  <2>2. rows[n + 1] = new
    BY <1>12, <2>1 DEF next
  <2>3. old \in Seq(RowsOf(factors, combos)) /\ combo \in ToSet(combos)
    BY <1>3, <1>x, <2>1
  <2> HIDE DEF old, combo, new
  <2>a. AddsRow(new, old, combo, factors, combos)
    BY <2>3, AddedRow DEF new
  <2>4. /\ new \in Seq(RowsOf(factors, combos))
        /\ Apart(old) => Apart(new)
        /\ \A i \in DOMAIN old : i \in DOMAIN new /\ new[i] = old[i]
        /\ \E i \in DOMAIN new : Signature(new[i].levels) = Signature(combo)
    BY <2>a DEF AddsRow
  <2>5. ASSUME NEW k \in 1..(n + 1) PROVE \E i \in DOMAIN new : Signature(new[i].levels) = Signature(combos[k])
    <3>1. CASE k = n + 1
      BY <2>4, <3>1 DEF combo
    <3>2. CASE k # n + 1
      <4>1. k \in 1..n
        BY <3>2
      <4>2. PICK i \in DOMAIN old : Signature(old[i].levels) = Signature(combos[k])
        BY <2>1, <4>1 DEF Treat
      <4> QED
        BY <2>4, <4>2
    <3> QED
      BY <3>1, <3>2
  <2>6. Treat(new, combos, n + 1)
    BY <2>1, <2>4, <2>5 DEF Treat
  <2> QED
    BY <2>2, <2>4, <2>6 DEF X
<1>15. \A n \in Nat : n \in K
  <2> HIDE DEF K
  <2> QED
    BY <1>13, <1>14, Climb
<1>16. rows[N] \in Seq(RowsOf(factors, combos)) /\ Treat(rows[N], combos, N)
  BY <1>2, <1>15, <1>x
<1> QED
  BY <1>1, <1>16 DEF N, combos

\* A design has every combination of distinct levels once, under a name of its own.
LEMMA SweepIsComplete ==
  ASSUME NEW factors, AreFactors(factors)
  PROVE  SweepComplete(factors, Expand(factors))
<1> DEFINE N == Len(factors)
           V == UNION {Range(factors[n].levels) : n \in DOMAIN factors}
           rows == Expand(factors)
           kinds(n) == {<<l.type, l.value>> : l \in ToSet(factors[n].levels)}
           choices == {c \in [DOMAIN factors -> UNION {kinds(n) : n \in DOMAIN factors}] :
                         \A n \in DOMAIN factors : c[n] \in kinds(n)}
           of(row) == [n \in DOMAIN factors |-> <<row.levels[n].type, row.levels[n].value>>]
<1>1. CASE factors = <<>>
  <2>1. rows = <<>>
    BY <1>1 DEF Expand
  <2>2. ToSet(rows) = {}
    BY <2>1 DEF ToSet
  <2>3. {of(row) : row \in ToSet(rows)} = {} /\ {row.name : row \in ToSet(rows)} = {}
    BY <2>2
  <2>4. Len(rows) = 0 /\ Cardinality({}) = 0
    BY <2>1, FS_EmptySet
  <2> HIDE DEF rows
  <2> QED
    BY <1>1, <2>3, <2>4 DEF SweepComplete, rows
<1>2. CASE factors # <<>>
  <2>0. N \in Nat /\ DOMAIN factors = 1..N
    BY DEF AreFactors
  <2>1. LevelsOf(factors, V)
    <3>1. ASSUME NEW n \in DOMAIN factors PROVE factors[n].levels \in Seq(V)
      <4> DEFINE levels == factors[n].levels
      <4>1. levels \in Seq(Range(levels)) /\ Range(levels) \subseteq V
        BY DEF AreFactors
      <4> HIDE DEF levels, V
      <4>2. levels \in Seq(V)
        BY <4>1
      <4> QED
        BY <4>2 DEF levels
    <3> HIDE DEF V
    <3> QED
      BY <3>1 DEF LevelsOf, AreFactors
  <2> DEFINE combos == Product(factors)
  <2> HIDE DEF V
  <2>2. combos \in Seq(Seq(V)) /\ ToSet(combos) = OneOfEach(factors, N, V)
    BY <2>1, ProductLists DEF Lists
  <2>3. rows \in Seq(RowsOf(factors, combos)) /\ Treat(rows, combos, Len(combos))
    BY <1>2, <2>1, ExpandTreats
  <2> HIDE DEF combos, rows
  <2>4. \A i \in DOMAIN rows : rows[i].levels \in OneOfEach(factors, N, V)
    <3> SUFFICES ASSUME NEW i \in DOMAIN rows PROVE rows[i].levels \in OneOfEach(factors, N, V)
      OBVIOUS
    <3>1. rows[i] \in RowsOf(factors, combos)
      BY <2>3
    <3>2. rows[i].levels \in ToSet(combos)
      BY <3>1 DEF RowsOf
    <3> QED
      BY <2>2, <3>2
  <2> HIDE DEF N
  <2>5. \A combo \in OneOfEach(factors, N, V) : DOMAIN combo = 1..N
    BY DEF OneOfEach
  <2>6. \A i \in DOMAIN rows : of(rows[i]) = Signature(rows[i].levels)
    BY <2>0, <2>4, <2>5 DEF Signature
  <2>7. ASSUME NEW i \in DOMAIN rows PROVE of(rows[i]) \in choices
    <3>1. \A n \in DOMAIN factors : rows[i].levels[n] \in ToSet(factors[n].levels)
      BY <2>0, <2>4 DEF OneOfEach
    <3>2. \A n \in DOMAIN factors : of(rows[i])[n] \in kinds(n)
      BY <3>1
    <3> QED
      BY <3>2
  <2>8. ASSUME NEW c \in choices PROVE \E i \in DOMAIN rows : of(rows[i]) = c
    <3> DEFINE level(n) == CHOOSE l \in ToSet(factors[n].levels) : <<l.type, l.value>> = c[n]
               combo == [n \in 1..N |-> level(n)]
    <3>1. \A n \in 1..N : level(n) \in ToSet(factors[n].levels) /\ <<level(n).type, level(n).value>> = c[n]
      <4> SUFFICES ASSUME NEW n \in 1..N
                   PROVE  level(n) \in ToSet(factors[n].levels) /\ <<level(n).type, level(n).value>> = c[n]
        OBVIOUS
      <4>1. \E l \in ToSet(factors[n].levels) : <<l.type, l.value>> = c[n]
        BY <2>0
      <4> QED
        BY <4>1
    <3> HIDE DEF level
    <3>2. \A n \in 1..N : level(n) \in V
      <4> SUFFICES ASSUME NEW n \in 1..N PROVE level(n) \in V
        OBVIOUS
      <4> DEFINE levels == factors[n].levels
      <4>1. levels \in Seq(V) /\ level(n) \in ToSet(levels)
        BY <2>0, <2>1, <3>1 DEF LevelsOf
      <4> HIDE DEF levels
      <4> QED
        BY <4>1 DEF ToSet
    <3>3. combo \in OneOfEach(factors, N, V)
      BY <3>1, <3>2 DEF OneOfEach
    <3>4. Signature(combo) = c
      <4>1. Signature(combo) = [n \in 1..N |-> <<level(n).type, level(n).value>>]
        BY DEF Signature
      <4>2. c = [n \in 1..N |-> c[n]]
        BY <2>0
      <4> QED
        BY <3>1, <4>1, <4>2
    <3> HIDE DEF combo
    <3>5. PICK k \in 1..Len(combos) : combos[k] = combo
      BY <2>2, <3>3 DEF ToSet
    <3>6. PICK i \in DOMAIN rows : Signature(rows[i].levels) = Signature(combos[k])
      BY <2>3 DEF Treat
    <3> HIDE DEF of
    <3> QED
      BY <2>6, <3>4, <3>5, <3>6
  <2> HIDE DEF of, choices
  <2>9. {of(row) : row \in ToSet(rows)} = choices
    BY <2>7, <2>8 DEF ToSet
  <2> DEFINE L == Len(rows)
             names == [i \in 1..L |-> rows[i].name]
             kind == [i \in 1..L |-> of(rows[i])]
  <2>10. L \in Nat /\ DOMAIN rows = 1..L
    BY <2>3
  <2> HIDE DEF L
  <2>11. {row.name : row \in ToSet(rows)} = {names[i] : i \in 1..L}
    BY <2>10 DEF ToSet
  <2>12. {of(row) : row \in ToSet(rows)} = {kind[i] : i \in 1..L}
    BY <2>10 DEF ToSet
  <2>13. \A i, j \in 1..L : i # j => names[i] # names[j] /\ kind[i] # kind[j]
    BY <2>3, <2>6, <2>10 DEF Treat, Apart
  <2>14. DOMAIN names = 1..L /\ DOMAIN kind = 1..L
    OBVIOUS
  <2> HIDE DEF names, kind
  <2>15. Cardinality({names[i] : i \in 1..L}) = L
    BY <2>10, <2>13, <2>14, CountedOnce
  <2>16. Cardinality({kind[i] : i \in 1..L}) = L
    BY <2>10, <2>13, <2>14, CountedOnce
  <2> QED
    BY <1>2, <2>9, <2>11, <2>12, <2>15, <2>16 DEF SweepComplete, L, rows, of, choices
<1> QED
  BY <1>1, <1>2

-----------------------------------------------------------------------------
(* Scenarios, and what is authored. *)

\* A key that begins another is no longer, and is the other when it is as long.
Begins(p, q) == IsPrefix(p, q) => Len(p) <= Len(q) /\ (Len(p) = Len(q) => p = q)

LEMMA BeginningIsShorter ==
  ASSUME NEW p, p \in Seq(Range(p)), NEW q, q \in Seq(Range(q))
  PROVE  Begins(p, q) /\ IsPrefix(p, p)
<1>1. \A X : \A s \in Seq(X) : SubSeq(s, 1, Len(s)) = s
  OBVIOUS
<1>2. SubSeq(p, 1, Len(p)) = p /\ SubSeq(q, 1, Len(q)) = q
  BY <1>1
<1>3. Len(p) \in Nat /\ Len(q) \in Nat
  OBVIOUS
<1>4. IsPrefix(p, p)
  BY <1>3 DEF IsPrefix
<1>5. ASSUME IsPrefix(p, q) PROVE Len(p) <= Len(q)
  BY <1>5 DEF IsPrefix
<1>6. ASSUME IsPrefix(p, q), Len(p) = Len(q) PROVE p = q
  <2>1. SubSeq(p, 1, Len(p)) = SubSeq(q, 1, Len(p))
    BY <1>6 DEF IsPrefix
  <2>2. SubSeq(q, 1, Len(p)) = SubSeq(q, 1, Len(q))
    BY <1>6
  <2> QED
    BY <1>2, <2>1, <2>2
<1> QED
  BY <1>4, <1>5, <1>6 DEF Begins

\* The keys in a line, each before the keys under it.
KeyOrder(line, keys, N) ==
  /\ N \in Nat /\ line \in [1..N -> keys]
  /\ \A p \in keys : \E n \in 1..N : line[n] = p
  /\ \A m, n \in 1..N : m < n => ~IsPrefix(line[n], line[m])

\* By length, keys can be put in such a line.
LEMMA KeysLineUp ==
  ASSUME NEW keys, IsFiniteSet(keys), \A p \in keys : p \in Seq(Range(p))
  PROVE  KeyOrder(Sorted(keys), keys, Cardinality(keys))
<1> DEFINE N == Cardinality(keys)
           line == Sorted(keys)
<1>1. N \in Nat /\ ExistsBijection(1..N, keys)
  BY FS_CardinalityType
<1>2. \A p \in keys : Len(p) \in Nat
  OBVIOUS
<1>3. \A p, q \in keys : Begins(p, q) /\ IsPrefix(p, p)
  BY BeginningIsShorter
<1>4. line = CHOOSE l \in [1..N -> keys] : \A m, n \in 1..N : m < n => ~IsPrefix(l[n], l[m])
  BY DEF Sorted
<1> HIDE DEF N, line
<1>5. PICK f \in Bijection(1..N, keys) : TRUE
  BY <1>1 DEF ExistsBijection
<1>6. \A p \in keys : \E n \in 1..N : f[n] = p
  BY <1>5 DEF Bijection, Surjection
<1> DEFINE place(p) == CHOOSE n \in 1..N : f[n] = p
           key == [p \in keys |-> Len(p) * (N + 1) + place(p)]
<1>7. \A p \in keys : place(p) \in 1..N /\ f[place(p)] = p
  BY <1>6
<1> HIDE DEF place
<1>8. \A p \in keys : key[p] = Len(p) * (N + 1) + place(p)
  OBVIOUS
<1>9. \A a, b \in Nat : a <= b => a * (N + 1) <= b * (N + 1)
  <2> SUFFICES ASSUME NEW a \in Nat, NEW b \in Nat, a <= b PROVE a * (N + 1) <= b * (N + 1)
    OBVIOUS
  <2>1. (N + 1) * a <= (N + 1) * b
    BY <1>1, Times
  <2>2. (N + 1) * a = a * (N + 1) /\ (N + 1) * b = b * (N + 1)
    BY <1>1
  <2> QED
    BY <2>1, <2>2
<1>10. \A p, q \in keys : Len(p) < Len(q) => key[p] < key[q]
  <2> SUFFICES ASSUME NEW p \in keys, NEW q \in keys, Len(p) < Len(q) PROVE key[p] < key[q]
    OBVIOUS
  <2> DEFINE a == Len(p)
             b == Len(q)
             i == place(p)
             j == place(q)
  <2>1. a \in Nat /\ b \in Nat /\ a + 1 <= b /\ i \in 1..N /\ j \in 1..N
    BY <1>2, <1>7
  <2>2. key[p] = a * (N + 1) + i /\ key[q] = b * (N + 1) + j
    BY <1>8
  <2> HIDE DEF a, b, i, j, key
  <2>3. (a + 1) * (N + 1) <= b * (N + 1)
    BY <1>9, <2>1
  <2>4. (a + 1) * (N + 1) = a * (N + 1) + (N + 1) /\ a * (N + 1) \in Nat /\ b * (N + 1) \in Nat
    BY <1>1, <2>1
  <2> DEFINE u == a * (N + 1)
             v == b * (N + 1)
  <2>5. u + (N + 1) <= v /\ u \in Nat /\ v \in Nat /\ key[p] = u + i /\ key[q] = v + j
    BY <2>2, <2>3, <2>4
  <2> HIDE DEF u, v
  <2> QED
    BY <1>1, <2>1, <2>5
<1>11. key \in [keys -> Nat]
  <2>1. \A p \in keys : Len(p) * (N + 1) + place(p) \in Nat
    <3> SUFFICES ASSUME NEW p \in keys PROVE Len(p) * (N + 1) + place(p) \in Nat
      OBVIOUS
    <3>1. place(p) \in Nat /\ Len(p) \in Nat /\ N + 1 \in Nat
      BY <1>1, <1>2, <1>7
    <3> QED
      BY <3>1
  <2> QED
    BY <2>1
<1>12. \A p, q \in keys : key[p] = key[q] => p = q
  <2> SUFFICES ASSUME NEW p \in keys, NEW q \in keys, key[p] = key[q] PROVE p = q
    OBVIOUS
  <2> HIDE DEF key
  <2>1. key[p] \in Nat /\ key[q] \in Nat /\ Len(p) \in Nat /\ Len(q) \in Nat
    BY <1>2, <1>11
  <2>2. Len(p) = Len(q)
    BY <1>10, <2>1
  <2>3. place(p) = place(q)
    <3>1. place(p) \in Nat /\ place(q) \in Nat /\ Len(p) * (N + 1) \in Nat
      BY <1>1, <1>7, <2>1
    <3>2. Len(p) * (N + 1) + place(p) = Len(p) * (N + 1) + place(q)
      BY <1>8, <2>2
    <3> QED
      BY <3>1, <3>2
  <2> QED
    BY <1>7, <2>3
<1> HIDE DEF key
<1>13. PICK l \in [1..N -> keys] : \A m, n \in 1..N : m < n => key[l[m]] < key[l[n]]
  BY <1>11, <1>12, CanBeLined DEF N
<1>14. \A m, n \in 1..N : m < n => ~IsPrefix(l[n], l[m])
  <2> SUFFICES ASSUME NEW m \in 1..N, NEW n \in 1..N, m < n, IsPrefix(l[n], l[m]) PROVE FALSE
    OBVIOUS
  <2> DEFINE p == l[m]
             q == l[n]
  <2>1. p \in keys /\ q \in keys /\ key[p] < key[q] /\ IsPrefix(q, p)
    BY <1>13
  <2> HIDE DEF p, q
  <2>2. Len(q) <= Len(p) /\ (Len(q) = Len(p) => q = p)
    BY <1>3, <2>1 DEF Begins
  <2>3. key[p] \in Nat /\ key[q] \in Nat /\ Len(p) \in Nat /\ Len(q) \in Nat
    BY <1>2, <1>11, <2>1
  <2>4. Len(q) < Len(p) => key[q] < key[p]
    BY <1>10, <2>1
  <2>5. q # p
    BY <2>1, <2>3
  <2> QED
    BY <2>1, <2>2, <2>3, <2>4, <2>5
<1>15. line \in [1..N -> keys] /\ \A m, n \in 1..N : m < n => ~IsPrefix(line[n], line[m])
  BY <1>4, <1>14
<1>16. \A m, n \in 1..N : line[m] = line[n] => m = n
  <2> SUFFICES ASSUME NEW m \in 1..N, NEW n \in 1..N, line[m] = line[n], m # n PROVE FALSE
    OBVIOUS
  <2>1. m < n \/ n < m
    BY <1>1
  <2>2. line[m] \in keys /\ IsPrefix(line[m], line[m])
    BY <1>3, <1>15
  <2> QED
    BY <1>15, <2>1, <2>2
<1>17. IsFiniteSet(1..N) /\ Cardinality(1..N) = N
  BY <1>1, 1 \in Int, N \in Int, FS_Interval
<1>18. line \in Injection(1..N, keys)
  BY <1>15, <1>16 DEF Injection, IsInjective
<1>19. line \in Surjection(1..N, keys)
  BY <1>17, <1>18, FS_Injection DEF N
<1>20. \A p \in keys : \E n \in 1..N : line[n] = p
  BY <1>19 DEF Surjection
<1> QED
  BY <1>1, <1>15, <1>20 DEF KeyOrder, N, line

\* The document of the first n keys: each is there with its value, or one under it is set.
Built(document, line, content, n) ==
  /\ DOMAIN document \subseteq {line[k] : k \in 1..n}
  /\ \A p \in DOMAIN document : document[p] = content[p]
  /\ \A k \in 1..n :
       \/ line[k] \in DOMAIN document
       \/ \E j \in 1..n : line[j] # line[k] /\ IsPrefix(line[k], line[j])

\* A value set at a key stays out of the way of none but the keys it begins.
LEMMA SetBuilds ==
  ASSUME NEW line, NEW content, NEW N, KeyOrder(line, DOMAIN content, N), NEW n \in Nat, n + 1 <= N,
         NEW document, Built(document, line, content, n)
  PROVE  Built(DeepSet(document, line[n + 1], content[line[n + 1]]), line, content, n + 1)
<1> DEFINE path == line[n + 1]
           value == content[path]
           clash(p) == IsPrefix(p, path) \/ IsPrefix(path, p)
           kept == {p \in DOMAIN document : ~clash(p)}
           new == DeepSet(document, path, value)
<1>0. N \in Nat /\ \A k \in 1..n : k \in 1..(n + 1) /\ k \in 1..N /\ n + 1 \in 1..N /\ k < n + 1
  BY DEF KeyOrder
<1>1. new = [p \in kept \cup {path} |-> IF p = path THEN value ELSE document[p]]
  BY DEF DeepSet
<1>2. DOMAIN new = kept \cup {path} /\ \A p \in kept \cup {path} : new[p] = IF p = path THEN value ELSE document[p]
  BY <1>1
<1> HIDE DEF new
<1>3. DOMAIN new \subseteq {line[k] : k \in 1..(n + 1)}
  <2> SUFFICES ASSUME NEW p \in DOMAIN new PROVE \E k \in 1..(n + 1) : p = line[k]
    OBVIOUS
  <2>1. CASE p = path
    <3>1. n + 1 \in 1..(n + 1)
      OBVIOUS
    <3> QED
      BY <2>1, <3>1
  <2>2. CASE p # path
    <3>1. p \in DOMAIN document
      BY <1>2, <2>2
    <3>2. PICK k \in 1..n : p = line[k]
      BY <3>1 DEF Built
    <3> QED
      BY <1>0, <3>2
  <2> QED
    BY <2>1, <2>2
<1>4. \A p \in DOMAIN new : new[p] = content[p]
  BY <1>2 DEF Built
<1>5. ASSUME NEW k \in 1..(n + 1)
      PROVE  line[k] \in DOMAIN new \/ \E j \in 1..(n + 1) : line[j] # line[k] /\ IsPrefix(line[k], line[j])
  <2>0. n + 1 \in 1..(n + 1)
    OBVIOUS
  <2>1. CASE line[k] = path
    BY <1>2, <2>1
  <2>2. CASE line[k] # path
    <3>1. k \in 1..n
      BY <2>2
    <3>2. ~IsPrefix(path, line[k])
      BY <1>0, <3>1 DEF KeyOrder
    <3>3. CASE IsPrefix(line[k], path)
      BY <2>0, <2>2, <3>3
    <3>4. CASE ~IsPrefix(line[k], path)
      <4>1. line[k] \in DOMAIN document \/ \E j \in 1..n : line[j] # line[k] /\ IsPrefix(line[k], line[j])
        BY <3>1 DEF Built
      <4>2. line[k] \in DOMAIN document => line[k] \in kept
        BY <3>2, <3>4
      <4> HIDE DEF kept, path
      <4> QED
        BY <1>0, <1>2, <4>1, <4>2
    <3> QED
      BY <3>3, <3>4
  <2> QED
    BY <2>1, <2>2
<1> HIDE DEF path, value
<1>6. Built(new, line, content, n + 1)
  BY <1>3, <1>4, <1>5 DEF Built
<1> QED
  BY <1>6 DEF new, path, value

\* The document that is authored is built of all keys.
LEMMA DocumentBuilt ==
  ASSUME NEW content, AreKnobs(content)
  PROVE  LET line == Sorted(DOMAIN content)
             N == Cardinality(DOMAIN content)
         IN  KeyOrder(line, DOMAIN content, N) /\ Built(ScenarioDocument(content), line, content, N)
<1> DEFINE line == Sorted(DOMAIN content)
           keys == DOMAIN content
           N == Len(line)
           X == UNION {[D -> Range(content)] : D \in SUBSET keys}
           next(document, n) == DeepSet(document, line[n], content[line[n]])
           document == CHOOSE document : document = [n \in 0..N |->
                         IF n = 0 THEN <<>> ELSE DeepSet(document[n - 1], line[n], content[line[n]])]
           step == [p \in (1..N) \X X |-> next(p[2], p[1])]
<1>1. ScenarioDocument(content) = document[N]
  BY DEF ScenarioDocument
<1>2. KeyOrder(line, keys, Cardinality(keys))
  BY KeysLineUp DEF AreKnobs
<1> HIDE DEF line
<1>3. N = Cardinality(keys) /\ N \in Nat /\ line \in [1..N -> keys]
  <2> DEFINE C == Cardinality(keys)
  <2>1. C \in Nat /\ line \in [1..C -> keys]
    BY <1>2 DEF KeyOrder
  <2> HIDE DEF C
  <2>2. line \in Seq(keys) /\ Len(line) = C
    BY <2>1
  <2> QED
    BY <2>1, <2>2 DEF C
<1> HIDE DEF N
<1>4. \A n \in 1..N, some \in X : next(some, n) \in X
  <2> SUFFICES ASSUME NEW n \in 1..N, NEW some \in X PROVE next(some, n) \in X
    OBVIOUS
  <2> DEFINE path == line[n]
             value == content[path]
             clash(p) == IsPrefix(p, path) \/ IsPrefix(path, p)
             kept == {p \in DOMAIN some : ~clash(p)}
             new == [p \in kept \cup {path} |-> IF p = path THEN value ELSE some[p]]
  <2>1. path \in keys
    BY <1>3
  <2>2. value \in Range(content)
    BY <2>1 DEF Range
  <2>3. PICK D \in SUBSET keys : some \in [D -> Range(content)]
    OBVIOUS
  <2>4. kept \subseteq D
    BY <2>3
  <2>5. next(some, n) = new
    BY DEF DeepSet
  <2> HIDE DEF kept, path, value, next
  <2>6. new \in [kept \cup {path} -> Range(content)]
    BY <2>2, <2>3, <2>4
  <2>7. kept \cup {path} \in SUBSET keys
    BY <2>1, <2>4
  <2> HIDE DEF new
  <2>8. new \in X
    BY <2>6, <2>7
  <2> QED
    BY <2>5, <2>8
<1>5. <<>> \in X
  <2>1. <<>> \in [{} -> Range(content)] /\ {} \in SUBSET keys
    OBVIOUS
  <2> QED
    BY <2>1
<1> HIDE DEF next, X
<1>6. step \in [(1..N) \X X -> X]
  BY <1>4
<1>7. \A n \in 1..N, some \in X : step[<<n, some>>] = next(some, n)
  OBVIOUS
<1> HIDE DEF step
<1>8. PICK a \in [0..N -> X] : Follows(a, N, <<>>, step)
  BY <1>3, <1>5, <1>6, Recursion
<1>9. \A n \in 0..N : a[n] = IF n = 0 THEN <<>> ELSE next(a[n - 1], n)
  <2> SUFFICES ASSUME NEW n \in 0..N PROVE a[n] = IF n = 0 THEN <<>> ELSE next(a[n - 1], n)
    OBVIOUS
  <2>1. n # 0 => n - 1 \in 0..N /\ n \in 1..N
    BY <1>3
  <2> QED
    BY <1>7, <1>8, <2>1 DEF Follows
<1>10. a = [n \in 0..N |-> IF n = 0 THEN <<>> ELSE next(a[n - 1], n)]
  BY <1>9
<1>11. document = [n \in 0..N |-> IF n = 0 THEN <<>> ELSE next(document[n - 1], n)]
  BY <1>10 DEF next
<1> HIDE DEF document
<1>12. document[0] = <<>> /\ \A n \in 1..N : document[n] = next(document[n - 1], n)
  <2>1. 0 \in 0..N /\ \A n \in 1..N : n \in 0..N /\ n # 0
    BY <1>3
  <2> QED
    BY <1>11, <2>1
<1> DEFINE K == {n \in Nat : n <= N => Built(document[n], line, content, n)}
<1>13. 0 \in K
  <2>1. DOMAIN document[0] = {}
    BY <1>12
  <2>2. \A k \in 1..0 : FALSE
    OBVIOUS
  <2> QED
    BY <2>1, <2>2 DEF Built
<1>14. ASSUME NEW n \in Nat, n \in K PROVE n + 1 \in K
  <2> SUFFICES ASSUME n + 1 <= N PROVE Built(document[n + 1], line, content, n + 1)
    OBVIOUS
  <2>1. Built(document[n], line, content, n) /\ n + 1 \in 1..N /\ (n + 1) - 1 = n
    BY <1>3, <1>14
  <2>2. document[n + 1] = DeepSet(document[n], line[n + 1], content[line[n + 1]])
    <3>1. document[n + 1] = next(document[(n + 1) - 1], n + 1)
      BY <1>12, <2>1
    <3> QED
      BY <2>1, <3>1 DEF next
  <2>3. KeyOrder(line, DOMAIN content, N)
    BY <1>2, <1>3
  <2>4. Built(DeepSet(document[n], line[n + 1], content[line[n + 1]]), line, content, n + 1)
    BY <2>1, <2>3, SetBuilds
  <2> QED
    BY <2>2, <2>4
<1>15. \A n \in Nat : n \in K
  <2> HIDE DEF K
  <2> QED
    BY <1>13, <1>14, Climb
<1>16. Built(document[N], line, content, N)
  BY <1>3, <1>15
<1> QED
  BY <1>1, <1>2, <1>3, <1>16 DEF line

\* Every knob that is set lands, or gives way to one under it.
LEMMA KnobsDoLand ==
  ASSUME NEW content, AreKnobs(content), NEW roots, NEW known
  PROVE  KnobsLand(content, AuthorScenario(content, roots, known))
<1> DEFINE line == Sorted(DOMAIN content)
           N == Cardinality(DOMAIN content)
           document == ScenarioDocument(content)
<1>1. KeyOrder(line, DOMAIN content, N) /\ Built(document, line, content, N)
  BY DocumentBuilt
<1>2. AuthorScenario(content, roots, known).document = document
  BY DEF AuthorScenario
<1> HIDE DEF line, N, document
<1>3. DOMAIN document \subseteq DOMAIN content
  BY <1>1 DEF KeyOrder, Built
<1>4. ASSUME NEW p \in DOMAIN content
      PROVE  \/ p \in DOMAIN document /\ document[p] = content[p]
             \/ \E q \in DOMAIN content \ {p} : IsPrefix(p, q)
  <2>1. PICK k \in 1..N : line[k] = p
    BY <1>1 DEF KeyOrder
  <2>2. CASE p \in DOMAIN document
    BY <1>1, <2>2 DEF Built
  <2>3. CASE p \notin DOMAIN document
    <3>1. PICK j \in 1..N : line[j] # p /\ IsPrefix(p, line[j])
      BY <1>1, <2>1, <2>3 DEF Built
    <3>2. line[j] \in DOMAIN content
      BY <1>1 DEF KeyOrder
    <3> QED
      BY <3>1, <3>2
  <2> QED
    BY <2>2, <2>3
<1> QED
  BY <1>2, <1>3, <1>4 DEF KnobsLand

\* A design has every combination once under a name of its own, whatever levels compare
\* equal or read alike; a knob of a scenario lands with its value, or one under it does.
THEOREM DesignIsComplete == VerdictSpec => []DesignComplete
<1>1. Told => DesignComplete
  <2>1. ASSUME Told, Answered("design"), Result.generated
        PROVE  SweepComplete(question.run, Result.runs) /\ SweepComplete(question.setup, Result.setups)
    <3>1. question \in Asked("design")
      BY <2>1 DEF Told, Asked, Answered
    <3>2. AreFactors(question.setup) /\ AreFactors(question.run)
      BY <3>1, QuestionsAssumption
    <3>3. Result = Generate(question.setup, question.run, question.constants, question.known)
      BY <2>1 DEF Told
    <3>4. Result.runs = Expand(question.run) /\ Result.setups = Expand(question.setup)
      BY <2>1, <3>3 DEF Generate
    <3> QED
      BY <3>2, <3>4, SweepIsComplete
  <2>2. ASSUME Told, Answered("scenario") PROVE KnobsLand(question.content, Result)
    <3>1. question \in Asked("scenario")
      BY <2>2 DEF Told, Asked, Answered
    <3>2. AreKnobs(question.content)
      BY <3>1, QuestionsAssumption
    <3>3. Result = AuthorScenario(question.content, question.roots, question.known)
      BY <2>2 DEF Told
    <3> QED
      BY <3>2, <3>3, KnobsDoLand
  <2> QED
    BY <2>1, <2>2 DEF DesignComplete
<1> HIDE DEF Told, DesignComplete
<1> QED
  BY <1>1, ToldAlways, PTL
=============================================================================
