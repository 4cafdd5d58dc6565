-------------------------- MODULE TimedQueueProofs --------------------------
(***************************************************************************)
(* Proofs about TimedQueue and MetricsJson:                                *)
(* - sums, that is FoldFunctionOnSet(+, 0, f, S), by induction: with sets  *)
(*   of numbers and of sets, as a theorem that takes a predicate as a      *)
(*   parameter cannot be used;                                             *)
(* - queues and timers: what was started, and the time spent, is what the  *)
(*   metrics hold and what the running timers will give them;              *)
(* - decimals: rounding to Digits digits is monotone, close, idempotent;   *)
(* - doubles: reading is monotone, close and keeps doubles as they are;    *)
(* - labels, metrics, families and the registry, written and read.         *)
(***************************************************************************)
EXTENDS TimedQueue, FiniteSetTheorems, WellFoundedInduction, TLAPS

-----------------------------------------------------------------------------
(* Induction *)

LEMMA LeastNumber ==
  ASSUME NEW T \in SUBSET Nat, T # {}
  PROVE  \E n \in T : \A m \in T : n <= m
  <1>1. IsWellFoundedOn(OpToRel(<, Nat), Nat)
    BY NatLessThanWellFounded
  <1>2. PICK n \in T : \A m \in T : ~(<<m, n>> \in OpToRel(<, Nat))
    BY <1>1, WFMin
  <1>3. \A m \in T : ~(m < n)
    BY <1>2 DEF OpToRel
  <1> QED
    BY <1>3

LEMMA Induction ==
  ASSUME NEW T \in SUBSET Nat, 0 \in T, \A n \in T : n + 1 \in T
  PROVE  T = Nat
  <1> SUFFICES ASSUME Nat \ T # {} PROVE FALSE
    OBVIOUS
  <1>1. PICK n \in Nat \ T : \A m \in Nat \ T : n <= m
    BY LeastNumber
  <1>2. n # 0 /\ n - 1 \in Nat
    BY <1>1
  <1>3. n - 1 \in T
    BY <1>1, <1>2
  <1> QED
    BY <1>1, <1>2, <1>3

LEMMA SetInduction ==
  ASSUME NEW S, IsFiniteSet(S), NEW F \in SUBSET SUBSET S, {} \in F,
         \A T \in F : \A x \in S \ T : T \cup {x} \in F
  PROVE  S \in F
  <1> DEFINE N == {n \in Nat : \A T \in SUBSET S : Cardinality(T) = n => T \in F}
  <1>1. 0 \in N
    <2>1. \A T \in SUBSET S : Cardinality(T) = 0 => T = {}
      BY FS_Subset, FS_EmptySet
    <2> QED
      BY <2>1
  <1>2. ASSUME NEW n \in N PROVE n + 1 \in N
    <2> SUFFICES ASSUME NEW T \in SUBSET S, Cardinality(T) = n + 1 PROVE T \in F
      OBVIOUS
    <2>1. IsFiniteSet(T) /\ T # {}
      BY FS_Subset, FS_EmptySet
    <2>2. PICK x \in T : TRUE
      BY <2>1
    <2>3. IsFiniteSet(T \ {x}) /\ Cardinality(T \ {x}) = n
      <3>1. Cardinality(T \ {x}) = Cardinality(T) - 1
        BY <2>1, <2>2, FS_RemoveElement
      <3>2. IsFiniteSet(T \ {x})
        BY <2>1, FS_RemoveElement
      <3> QED
        BY <3>1, <3>2
    <2>4. T \ {x} \in F
      BY <2>3
    <2>5. (T \ {x}) \cup {x} \in F
      BY <2>2, <2>4
    <2>6. (T \ {x}) \cup {x} = T
      BY <2>2
    <2> QED
      BY <2>5, <2>6
  <1> HIDE DEF N
  <1>3. N = Nat
    BY <1>1, <1>2, Induction DEF N
  <1>4. Cardinality(S) \in Nat
    BY FS_CardinalityType
  <1> QED
    BY <1>3, <1>4 DEF N

-----------------------------------------------------------------------------
(* Sums: the function the fold is defined by *)

Some(T) == CHOOSE x \in T : TRUE

Adds(f, S, g) ==
  g = [T \in SUBSET S |-> IF T = {} THEN 0 ELSE f[Some(T)] + g[T \ {Some(T)}]]

LEMMA TotalIs ==
  ASSUME NEW f, NEW S
  PROVE  Total(f, S) = (CHOOSE g : Adds(f, S, g))[S]
  BY DEF Total, FoldFunctionOnSet, MapThenFoldSet, Adds, Some

LEMMA SomeIn == ASSUME NEW T, T # {} PROVE Some(T) \in T
  BY DEF Some

\* The subsets of S with n elements at most
UpTo(S, n) == {T \in SUBSET S : Cardinality(T) <= n}

LEMMA Smaller ==
  ASSUME NEW S, IsFiniteSet(S), NEW n \in Nat, NEW T \in UpTo(S, n + 1), T # {}
  PROVE  T \ {Some(T)} \in UpTo(S, n)
  <1>1. Some(T) \in T /\ T \in SUBSET S /\ IsFiniteSet(T) /\ Cardinality(T) <= n + 1
    BY SomeIn, FS_Subset DEF UpTo
  <1>2. Cardinality(T \ {Some(T)}) = Cardinality(T) - 1 /\ Cardinality(T) \in Nat
    BY <1>1, FS_RemoveElement, FS_CardinalityType
  <1> QED
    BY <1>1, <1>2 DEF UpTo

LEMMA UpToZero ==
  ASSUME NEW S, IsFiniteSet(S)
  PROVE  UpTo(S, 0) = {{}}
  <1>1. \A T \in SUBSET S : Cardinality(T) <= 0 => T = {}
    BY FS_Subset, FS_EmptySet, FS_CardinalityType
  <1>2. Cardinality({}) = 0
    BY FS_EmptySet
  <1> QED
    BY <1>1, <1>2 DEF UpTo

LEMMA UpToAll ==
  ASSUME NEW S, IsFiniteSet(S)
  PROVE  UpTo(S, Cardinality(S)) = SUBSET S /\ Cardinality(S) \in Nat
  BY FS_Subset, FS_CardinalityType DEF UpTo

\* What g has to be on the subsets with n elements at most
AddsUpTo(f, S, n, g) ==
  /\ g \in [UpTo(S, n) -> Int]
  /\ \A T \in UpTo(S, n) : g[T] = IF T = {} THEN 0 ELSE f[Some(T)] + g[T \ {Some(T)}]

LEMMA AddsExists ==
  ASSUME NEW S, IsFiniteSet(S), NEW f, \A x \in S : f[x] \in Int
  PROVE  \E g : Adds(f, S, g)
  <1> DEFINE N == {n \in Nat : \E g : AddsUpTo(f, S, n, g)}
  <1>1. 0 \in N
    <2> DEFINE g == [T \in UpTo(S, 0) |-> 0]
    <2>1. AddsUpTo(f, S, 0, g)
      BY UpToZero DEF AddsUpTo
    <2> QED
      BY <2>1
  <1>2. ASSUME NEW n \in N PROVE n + 1 \in N
    <2>1. PICK g : AddsUpTo(f, S, n, g)
      OBVIOUS
    <2> DEFINE h == [T \in UpTo(S, n + 1) |->
                       IF T = {} THEN 0 ELSE f[Some(T)] + g[T \ {Some(T)}]]
    <2>2. \A T \in UpTo(S, n) : T \in UpTo(S, n + 1)
      <3>1. \A T \in SUBSET S : Cardinality(T) \in Nat
        BY FS_Subset, FS_CardinalityType
      <3> QED
        BY <3>1 DEF UpTo
    <2>3. \A T \in UpTo(S, n) : h[T] = g[T]
      BY <2>1, <2>2 DEF AddsUpTo
    <2>4. ASSUME NEW T \in UpTo(S, n + 1), T # {}
          PROVE  /\ T \ {Some(T)} \in UpTo(S, n)
                 /\ f[Some(T)] \in Int /\ g[T \ {Some(T)}] \in Int
      <3>1. T \ {Some(T)} \in UpTo(S, n)
        BY <2>4, Smaller
      <3>2. Some(T) \in S
        BY <2>4, SomeIn DEF UpTo
      <3> QED
        BY <2>1, <3>1, <3>2 DEF AddsUpTo
    <2>5. h \in [UpTo(S, n + 1) -> Int]
      <3>1. ASSUME NEW T \in UpTo(S, n + 1)
            PROVE  (IF T = {} THEN 0 ELSE f[Some(T)] + g[T \ {Some(T)}]) \in Int
        <4>1. CASE T = {}
          BY ONLY <4>1
        <4>2. CASE T # {}
          <5>1. f[Some(T)] \in Int /\ g[T \ {Some(T)}] \in Int
            BY ONLY <2>4, <4>2
          <5> QED
            BY ONLY <4>2, <5>1
        <4> QED
          BY ONLY <4>1, <4>2
      <3> QED
        BY ONLY <3>1
    <2>6. \A T \in UpTo(S, n + 1) : T # {} => h[T] = f[Some(T)] + h[T \ {Some(T)}]
      BY <2>3, <2>4
    <2>7. \A T \in UpTo(S, n + 1) : T = {} => h[T] = 0
      OBVIOUS
    <2> HIDE DEF h
    <2>8. AddsUpTo(f, S, n + 1, h)
      BY <2>5, <2>6, <2>7 DEF AddsUpTo
    <2> QED
      BY <2>8
  <1> HIDE DEF N
  <1>3. N = Nat
    BY <1>1, <1>2, Induction DEF N
  <1>4. PICK g : AddsUpTo(f, S, Cardinality(S), g)
    BY <1>3, UpToAll DEF N
  <1>5. Adds(f, S, g)
    BY <1>4, UpToAll DEF AddsUpTo, Adds
  <1> QED
    BY <1>5

LEMMA AddsAt ==
  ASSUME NEW S, NEW f, NEW g, Adds(f, S, g), NEW T \in SUBSET S
  PROVE  g[T] = IF T = {} THEN 0 ELSE f[Some(T)] + g[T \ {Some(T)}]
  <1> DEFINE h == [U \in SUBSET S |-> IF U = {} THEN 0 ELSE f[Some(U)] + g[U \ {Some(U)}]]
  <1>1. g = h
    BY DEF Adds
  <1>2. h[T] = IF T = {} THEN 0 ELSE f[Some(T)] + g[T \ {Some(T)}]
    OBVIOUS
  <1> QED
    BY <1>1, <1>2

LEMMA AddsTake ==
  ASSUME NEW S, NEW f, NEW g, Adds(f, S, g), NEW T \in SUBSET S, NEW x \in T, Some(T) = x
  PROVE  g[T] = f[x] + g[T \ {x}]
  BY AddsAt

LEMMA AddsNothing ==
  ASSUME NEW S, NEW f, NEW g, Adds(f, S, g)
  PROVE  g[{}] = 0
  BY AddsAt

LEMMA AddsType ==
  ASSUME NEW S, IsFiniteSet(S), NEW f, \A x \in S : f[x] \in Int, NEW g, Adds(f, S, g)
  PROVE  \A T \in SUBSET S : g[T] \in Int
  <1> DEFINE N == {n \in Nat : \A T \in UpTo(S, n) : g[T] \in Int}
  <1>1. 0 \in N
    <2>1. g[{}] = 0
      BY AddsAt
    <2> QED
      BY <2>1, UpToZero
  <1>2. ASSUME NEW n \in N PROVE n + 1 \in N
    <2> SUFFICES ASSUME NEW T \in UpTo(S, n + 1) PROVE g[T] \in Int
      OBVIOUS
    <2>1. T \in SUBSET S
      BY DEF UpTo
    <2>2. CASE T = {}
      <3>1. g[T] = 0
        BY <2>1, <2>2, AddsAt
      <3> QED
        BY <3>1
    <2>3. CASE T # {}
      <3>1. g[T] = f[Some(T)] + g[T \ {Some(T)}]
        BY <2>1, <2>3, AddsAt
      <3>2. g[T \ {Some(T)}] \in Int
        BY <2>3, Smaller
      <3>3. f[Some(T)] \in Int
        BY <2>1, <2>3, SomeIn
      <3> QED
        BY <3>1, <3>2, <3>3
    <2> QED
      BY <2>2, <2>3
  <1> HIDE DEF N
  <1>3. N = Nat
    BY <1>1, <1>2, Induction DEF N
  <1> QED
    BY <1>3, UpToAll DEF N

\* The order does not matter: any element may be added last.
LEMMA AddsOne ==
  ASSUME NEW S, IsFiniteSet(S), NEW f, \A x \in S : f[x] \in Int, NEW g, Adds(f, S, g)
  PROVE  \A T \in SUBSET S : \A x \in S \ T : g[T \cup {x}] = g[T] + f[x]
  <1> DEFINE N == {n \in Nat : \A T \in UpTo(S, n) : \A x \in S \ T :
                                 g[T \cup {x}] = g[T] + f[x]}
  <1>0. ASSUME NEW T \in SUBSET S, NEW x \in S \ T, Some(T \cup {x}) = x
        PROVE  g[T \cup {x}] = g[T] + f[x]
    <2>1. g[T \cup {x}] = f[x] + g[(T \cup {x}) \ {x}]
      BY <1>0, AddsTake
    <2>2. (T \cup {x}) \ {x} = T
      OBVIOUS
    <2>3. g[T] \in Int /\ f[x] \in Int
      BY AddsType
    <2>4. g[T \cup {x}] = f[x] + g[T]
      BY <2>1, <2>2
    <2> QED
      BY <2>3, <2>4
  <1>1. 0 \in N
    <2> SUFFICES ASSUME NEW T \in UpTo(S, 0), NEW x \in S \ T PROVE g[T \cup {x}] = g[T] + f[x]
      OBVIOUS
    <2>1. T = {} /\ T \in SUBSET S
      BY UpToZero
    <2>2. Some(T \cup {x}) = x
      BY <2>1, SomeIn
    <2> QED
      BY <1>0, <2>1, <2>2
  <1>2. ASSUME NEW n \in N PROVE n + 1 \in N
    <2> SUFFICES ASSUME NEW T \in UpTo(S, n + 1), NEW x \in S \ T
                 PROVE  g[T \cup {x}] = g[T] + f[x]
      OBVIOUS
    <2>1. T \in SUBSET S
      BY DEF UpTo
    <2>2. CASE Some(T \cup {x}) = x
      BY <1>0, <2>1, <2>2
    <2>3. CASE Some(T \cup {x}) # x
      <3> DEFINE y == Some(T \cup {x})
                 U == T \ {y}
      <3>1. y \in T /\ y \in S /\ y # x
        BY <2>1, <2>3, SomeIn
      <3>2. U \in SUBSET S /\ x \in S \ U /\ y \in S \ U
        BY <2>1, <3>1
      <3>3. U \in UpTo(S, n)
        <4>1. IsFiniteSet(T) /\ Cardinality(T) <= n + 1
          BY <2>1, FS_Subset DEF UpTo
        <4>2. Cardinality(U) = Cardinality(T) - 1 /\ Cardinality(T) \in Nat
          BY <3>1, <4>1, FS_RemoveElement, FS_CardinalityType
        <4> QED
          BY <3>2, <4>1, <4>2 DEF UpTo
      <3>4. g[U \cup {x}] = g[U] + f[x] /\ g[U \cup {y}] = g[U] + f[y]
        BY <3>2, <3>3
      <3>5. (T \cup {x}) \ {y} = U \cup {x} /\ U \cup {y} = T
        BY <3>1
      <3>6. g[T \cup {x}] = f[y] + g[(T \cup {x}) \ {y}]
        <4>1. T \cup {x} \in SUBSET S /\ y \in T \cup {x} /\ Some(T \cup {x}) = y
          BY <2>1, <3>1
        <4> HIDE DEF y
        <4> QED
          BY <4>1, AddsTake
      <3>7. g[U] \in Int /\ f[x] \in Int /\ f[y] \in Int
        BY <3>1, <3>2, AddsType
      <3>8. g[T \cup {x}] = f[y] + g[U \cup {x}] /\ g[U \cup {y}] = g[T]
        BY <3>5, <3>6
      <3> HIDE DEF y, U
      <3> QED
        BY <3>4, <3>7, <3>8
    <2> QED
      BY <2>2, <2>3
  <1> HIDE DEF N
  <1>3. N = Nat
    BY <1>1, <1>2, Induction DEF N
  <1>4. Cardinality(S) \in N /\ UpTo(S, Cardinality(S)) = SUBSET S
    BY <1>3, UpToAll
  <1> QED
    BY <1>4 DEF N

LEMMA AddsSame ==
  ASSUME NEW S, IsFiniteSet(S), NEW f, \A x \in S : f[x] \in Int, NEW g, Adds(f, S, g),
         NEW R, IsFiniteSet(R), NEW h, \A x \in R : h[x] \in Int, NEW k, Adds(h, R, k),
         NEW T, T \subseteq S, T \subseteq R, \A x \in T : f[x] = h[x]
  PROVE  g[T] = k[T]
  <1> DEFINE F == {U \in SUBSET T : g[U] = k[U]}
  <1>1. IsFiniteSet(T)
    BY FS_Subset
  <1>2. {} \in F
    <2>1. g[{}] = 0
      BY ONLY Adds(f, S, g), AddsNothing
    <2>2. k[{}] = 0
      BY ONLY Adds(h, R, k), AddsNothing
    <2> QED
      BY <2>1, <2>2
  <1>3. ASSUME NEW U \in F, NEW x \in T \ U PROVE U \cup {x} \in F
    <2>0. U \in SUBSET S /\ U \in SUBSET R /\ x \in S \ U /\ x \in R \ U
      OBVIOUS
    <2>1. g[U \cup {x}] = g[U] + f[x]
      BY <2>0, AddsOne
    <2>2. k[U \cup {x}] = k[U] + h[x]
      BY <2>0, AddsOne
    <2> QED
      BY <2>1, <2>2
  <1> HIDE DEF F
  <1>4. T \in F
    BY <1>1, <1>2, <1>3, SetInduction DEF F
  <1> QED
    BY <1>4 DEF F

-----------------------------------------------------------------------------
(* Sums: the facts the rest is proved from *)

LEMMA TotalAdds ==
  ASSUME NEW S, IsFiniteSet(S), NEW f, \A x \in S : f[x] \in Int
  PROVE  \E g : Adds(f, S, g) /\ Total(f, S) = g[S]
  <1>1. \E g : Adds(f, S, g)
    BY AddsExists
  <1>2. Adds(f, S, CHOOSE g : Adds(f, S, g))
    BY <1>1
  <1> QED
    BY <1>2, TotalIs

LEMMA TotalEmpty == ASSUME NEW f PROVE Total(f, {}) = 0
  <1>1. IsFiniteSet({}) /\ {} \in SUBSET {}
    BY FS_EmptySet
  <1>2. PICK g : Adds(f, {}, g) /\ Total(f, {}) = g[{}]
    BY <1>1, TotalAdds
  <1>3. g[{}] = 0
    BY <1>1, <1>2, AddsAt
  <1> QED
    BY <1>2, <1>3

LEMMA TotalType ==
  ASSUME NEW S, IsFiniteSet(S), NEW f, \A x \in S : f[x] \in Int
  PROVE  Total(f, S) \in Int
  <1>1. PICK g : Adds(f, S, g) /\ Total(f, S) = g[S]
    BY TotalAdds
  <1>2. g[S] \in Int
    BY <1>1, AddsType
  <1> QED
    BY <1>1, <1>2

LEMMA TotalSame ==
  ASSUME NEW S, IsFiniteSet(S), NEW f, NEW h, \A x \in S : f[x] \in Int /\ h[x] = f[x]
  PROVE  Total(h, S) = Total(f, S)
  <1>1. PICK g : Adds(f, S, g) /\ Total(f, S) = g[S]
    BY TotalAdds
  <1>2. PICK k : Adds(h, S, k) /\ Total(h, S) = k[S]
    BY TotalAdds
  <1>3. S \subseteq S /\ \A x \in S : f[x] = h[x] /\ h[x] \in Int
    OBVIOUS
  <1>4. g[S] = k[S]
    BY <1>1, <1>2, <1>3, AddsSame
  <1> QED
    BY <1>1, <1>2, <1>4

LEMMA TotalAdd ==
  ASSUME NEW S, IsFiniteSet(S), NEW x, x \notin S, NEW f, f[x] \in Int,
         \A y \in S : f[y] \in Int
  PROVE  Total(f, S \cup {x}) = Total(f, S) + f[x]
  <1> DEFINE R == S \cup {x}
  <1>1. IsFiniteSet(R)
    BY FS_AddElement
  <1>2. x \in R \ S /\ S \in SUBSET R /\ S \subseteq S /\ (\A y \in R : f[y] \in Int)
    OBVIOUS
  <1> HIDE DEF R
  <1>3. PICK g : Adds(f, S, g) /\ Total(f, S) = g[S]
    BY TotalAdds
  <1>4. PICK k : Adds(f, R, k) /\ Total(f, R) = k[R]
    BY <1>1, <1>2, TotalAdds
  <1>5. g[S] = k[S]
    BY <1>1, <1>2, <1>3, <1>4, AddsSame
  <1>6. k[S \cup {x}] = k[S] + f[x]
    BY <1>1, <1>2, <1>4, AddsOne
  <1> QED
    BY <1>3, <1>4, <1>5, <1>6 DEF R

LEMMA TotalRemove ==
  ASSUME NEW S, IsFiniteSet(S), NEW x \in S, NEW f, \A y \in S : f[y] \in Int
  PROVE  Total(f, S) = Total(f, S \ {x}) + f[x]
  <1> DEFINE R == S \ {x}
  <1>1. IsFiniteSet(R)
    BY FS_RemoveElement
  <1>2. x \notin R /\ R \cup {x} = S /\ \A y \in R : f[y] \in Int
    OBVIOUS
  <1> HIDE DEF R
  <1>3. Total(f, R \cup {x}) = Total(f, R) + f[x]
    BY <1>1, <1>2, TotalAdd
  <1> QED
    BY <1>2, <1>3 DEF R

LEMMA TotalUnion ==
  ASSUME NEW S, IsFiniteSet(S), NEW T, IsFiniteSet(T), S \cap T = {},
         NEW f, \A x \in S \cup T : f[x] \in Int
  PROVE  Total(f, S \cup T) = Total(f, S) + Total(f, T)
  <1> DEFINE F == {U \in SUBSET T : Total(f, S \cup U) = Total(f, S) + Total(f, U)}
  <1>1. {} \in F
    <2>1. S \cup {} = S /\ Total(f, S) \in Int
      BY TotalType
    <2> QED
      BY <2>1, TotalEmpty
  <1>2. ASSUME NEW U \in F, NEW x \in T \ U PROVE U \cup {x} \in F
    <2> DEFINE V == S \cup U
    <2>1. IsFiniteSet(U) /\ IsFiniteSet(V)
      BY FS_Subset, FS_Union
    <2>2. /\ x \notin U /\ x \notin V /\ f[x] \in Int
          /\ (\A y \in U : f[y] \in Int) /\ (\A y \in V : f[y] \in Int)
          /\ (\A y \in S : f[y] \in Int)
          /\ S \cup (U \cup {x}) = V \cup {x}
      OBVIOUS
    <2>3. Total(f, V) = Total(f, S) + Total(f, U)
      OBVIOUS
    <2> HIDE DEF V
    <2>4. Total(f, V \cup {x}) = Total(f, V) + f[x]
      BY <2>1, <2>2, TotalAdd
    <2>5. Total(f, U \cup {x}) = Total(f, U) + f[x]
      BY <2>1, <2>2, TotalAdd
    <2>6. Total(f, S) \in Int /\ Total(f, U) \in Int
      BY <2>1, <2>2, TotalType
    <2>7. Total(f, S \cup (U \cup {x})) = Total(f, S) + Total(f, U \cup {x})
      <3>1. Total(f, S \cup (U \cup {x})) = Total(f, V \cup {x})
        BY <2>2
      <3>2. f[x] \in Int
        BY <2>2
      <3>3. Total(f, V \cup {x}) = Total(f, S) + Total(f, U \cup {x})
        BY <3>2, <2>3, <2>4, <2>5, <2>6
      <3> QED
        BY <3>1, <3>3
    <2> QED
      BY <2>7
  <1> HIDE DEF F
  <1>3. T \in F
    BY <1>1, <1>2, SetInduction DEF F
  <1> QED
    BY <1>3 DEF F

LEMMA TotalZero ==
  ASSUME NEW S, IsFiniteSet(S), NEW f, \A x \in S : f[x] = 0
  PROVE  Total(f, S) = 0
  <1> DEFINE F == {T \in SUBSET S : Total(f, T) = 0}
  <1>1. {} \in F
    BY TotalEmpty
  <1>2. ASSUME NEW T \in F, NEW x \in S \ T PROVE T \cup {x} \in F
    <2>1. IsFiniteSet(T) /\ (\A y \in T : f[y] \in Int) /\ f[x] = 0 /\ f[x] \in Int
      BY FS_Subset
    <2>2. Total(f, T \cup {x}) = Total(f, T) + f[x]
      BY <2>1, TotalAdd
    <2> QED
      BY <2>1, <2>2
  <1> HIDE DEF F
  <1>3. S \in F
    BY <1>1, <1>2, SetInduction DEF F
  <1> QED
    BY <1>3 DEF F

\* Only the elements where f is not zero count.
LEMMA TotalWithin ==
  ASSUME NEW S, IsFiniteSet(S), NEW T \in SUBSET S,
         NEW f, \A x \in S : f[x] \in Int, \A x \in S \ T : f[x] = 0
  PROVE  Total(f, S) = Total(f, T)
  <1> DEFINE R == S \ T
  <1>1. IsFiniteSet(T) /\ IsFiniteSet(R) /\ T \cap R = {} /\ T \cup R = S
    BY FS_Subset
  <1>2. (\A x \in R : f[x] = 0) /\ \A x \in T : f[x] \in Int
    OBVIOUS
  <1> HIDE DEF R
  <1>3. Total(f, R) = 0
    BY <1>1, <1>2, TotalZero
  <1>4. Total(f, T \cup R) = Total(f, T) + Total(f, R)
    BY <1>1, TotalUnion
  <1>5. Total(f, T) \in Int
    BY <1>1, <1>2, TotalType
  <1>6. Total(f, T \cup R) = Total(f, T)
    BY <1>3, <1>4, <1>5
  <1> QED
    BY <1>1, <1>6

LEMMA TotalPlus ==
  ASSUME NEW S, IsFiniteSet(S), NEW f, NEW g, NEW h,
         \A x \in S : f[x] \in Int /\ g[x] \in Int /\ h[x] = f[x] + g[x]
  PROVE  Total(h, S) = Total(f, S) + Total(g, S)
  <1> DEFINE F == {T \in SUBSET S : Total(h, T) = Total(f, T) + Total(g, T)}
  <1>1. {} \in F
    BY TotalEmpty
  <1>2. ASSUME NEW T \in F, NEW x \in S \ T PROVE T \cup {x} \in F
    <2>1. /\ IsFiniteSet(T) /\ x \notin T
          /\ (\A y \in T : f[y] \in Int) /\ (\A y \in T : g[y] \in Int)
          /\ (\A y \in T : h[y] \in Int)
      BY FS_Subset
    <2>2. f[x] \in Int /\ g[x] \in Int /\ h[x] = f[x] + g[x] /\ h[x] \in Int
      OBVIOUS
    <2>3. Total(h, T) = Total(f, T) + Total(g, T)
      OBVIOUS
    <2>4. Total(f, T) \in Int /\ Total(g, T) \in Int
      BY <2>1, TotalType
    <2>5. /\ Total(f, T \cup {x}) = Total(f, T) + f[x]
          /\ Total(g, T \cup {x}) = Total(g, T) + g[x]
          /\ Total(h, T \cup {x}) = Total(h, T) + h[x]
      <3>1. Total(f, T \cup {x}) = Total(f, T) + f[x]
        BY ONLY <2>1, <2>2, TotalAdd
      <3>2. Total(g, T \cup {x}) = Total(g, T) + g[x]
        BY ONLY <2>1, <2>2, TotalAdd
      <3>3. Total(h, T \cup {x}) = Total(h, T) + h[x]
        BY ONLY <2>1, <2>2, TotalAdd
      <3> QED
        BY <3>1, <3>2, <3>3
    <2>6. Total(h, T \cup {x}) = Total(f, T \cup {x}) + Total(g, T \cup {x})
      BY <2>2, <2>3, <2>4, <2>5
    <2> QED
      BY <2>6
  <1> HIDE DEF F
  <1>3. S \in F
    BY <1>1, <1>2, SetInduction DEF F
  <1> QED
    BY <1>3 DEF F

\* One summand changes.
LEMMA TotalChange ==
  ASSUME NEW S, IsFiniteSet(S), NEW x \in S, NEW f, NEW h, h[x] \in Int,
         \A y \in S : f[y] \in Int, \A y \in S \ {x} : h[y] = f[y]
  PROVE  Total(h, S) = Total(f, S) - f[x] + h[x]
  <1> DEFINE R == S \ {x}
  <1>1. IsFiniteSet(R)
    BY FS_RemoveElement
  <1>2. \A y \in R : f[y] \in Int /\ h[y] = f[y]
    OBVIOUS
  <1>3. \A y \in S : h[y] \in Int
    OBVIOUS
  <1>4. Total(f, S) = Total(f, R) + f[x]
    BY TotalRemove
  <1>5. Total(h, S) = Total(h, R) + h[x]
    BY <1>3, TotalRemove
  <1> HIDE DEF R
  <1>6. Total(h, R) = Total(f, R) /\ Total(f, R) \in Int
    BY <1>1, <1>2, TotalSame, TotalType
  <1> QED
    BY <1>4, <1>5, <1>6

LEMMA TotalNat ==
  ASSUME NEW S, IsFiniteSet(S), NEW f, \A x \in S : f[x] \in Nat
  PROVE  Total(f, S) \in Nat
  <1> DEFINE F == {T \in SUBSET S : Total(f, T) \in Nat}
  <1>1. {} \in F
    BY TotalEmpty
  <1>2. ASSUME NEW T \in F, NEW x \in S \ T PROVE T \cup {x} \in F
    <2>1. IsFiniteSet(T) /\ (\A y \in T : f[y] \in Int) /\ f[x] \in Nat /\ f[x] \in Int
      BY FS_Subset
    <2>2. Total(f, T \cup {x}) = Total(f, T) + f[x]
      BY <2>1, TotalAdd
    <2> QED
      BY <2>1, <2>2
  <1> HIDE DEF F
  <1>3. S \in F
    BY <1>1, <1>2, SetInduction DEF F
  <1> QED
    BY <1>3 DEF F

LEMMA TotalAtLeast ==
  ASSUME NEW S, IsFiniteSet(S), NEW f, \A x \in S : f[x] \in Nat, NEW x \in S
  PROVE  f[x] <= Total(f, S)
  <1>1. Total(f, S) = Total(f, S \ {x}) + f[x]
    BY TotalRemove
  <1>2. IsFiniteSet(S \ {x})
    BY FS_RemoveElement
  <1>3. Total(f, S \ {x}) \in Nat
    BY <1>2, TotalNat
  <1> QED
    BY <1>1, <1>3

\* A sum over other names for the same things
LEMMA TotalRenamed ==
  ASSUME NEW S, IsFiniteSet(S), NEW b, NEW T,
         \A x \in S : b[x] \in T, \A z \in T : \E x \in S : b[x] = z,
         \A x, y \in S : b[x] = b[y] => x = y,
         NEW f, NEW h, \A x \in S : f[b[x]] \in Int /\ h[x] = f[b[x]]
  PROVE  IsFiniteSet(T) /\ Total(f, T) = Total(h, S)
  <1>0. T = {b[x] : x \in S}
    OBVIOUS
  <1> DEFINE F == {U \in SUBSET S : /\ IsFiniteSet({b[x] : x \in U})
                                    /\ Total(f, {b[x] : x \in U}) = Total(h, U)}
  <1>1. {} \in F
    <2>1. {b[x] : x \in {}} = {}
      OBVIOUS
    <2> QED
      BY <2>1, TotalEmpty, FS_EmptySet
  <1>2. ASSUME NEW U \in F, NEW x \in S \ U PROVE U \cup {x} \in F
    <2> DEFINE V == {b[y] : y \in U}
    <2>1. IsFiniteSet(U) /\ IsFiniteSet(V)
      BY FS_Subset
    <2>2. /\ b[x] \notin V /\ {b[y] : y \in U \cup {x}} = V \cup {b[x]}
          /\ f[b[x]] \in Int /\ (\A y \in V : f[y] \in Int)
      OBVIOUS
    <2>3. (\A y \in U : h[y] \in Int) /\ h[x] = f[b[x]] /\ h[x] \in Int /\ x \notin U
      OBVIOUS
    <2>4. Total(f, V) = Total(h, U)
      OBVIOUS
    <2> HIDE DEF V
    <2>5. Total(f, V \cup {b[x]}) = Total(f, V) + f[b[x]]
      BY ONLY <2>1, <2>2, TotalAdd
    <2>6. Total(h, U \cup {x}) = Total(h, U) + h[x]
      <3>1. IsFiniteSet(U) /\ x \notin U /\ h[x] \in Int /\ \A y \in U : h[y] \in Int
        BY <2>1, <2>3
      <3> QED
        BY ONLY <3>1, TotalAdd
    <2>7. IsFiniteSet(V \cup {b[x]})
      BY <2>1, FS_AddElement
    <2>8. Total(f, {b[y] : y \in U \cup {x}}) = Total(h, U \cup {x})
      BY <2>2, <2>3, <2>4, <2>5, <2>6
    <2>9. IsFiniteSet({b[y] : y \in U \cup {x}})
      BY <2>2, <2>7
    <2> QED
      BY <2>8, <2>9
  <1> HIDE DEF F
  <1>3. S \in F
    BY <1>1, <1>2, SetInduction DEF F
  <1> QED
    BY <1>0, <1>3 DEF F

LEMMA TotalOfOnes ==
  ASSUME NEW S, IsFiniteSet(S), NEW f, \A x \in S : f[x] = 1
  PROVE  Total(f, S) = Cardinality(S)
  <1> DEFINE F == {T \in SUBSET S : Total(f, T) = Cardinality(T)}
  <1>1. {} \in F
    BY TotalEmpty, FS_EmptySet
  <1>2. ASSUME NEW T \in F, NEW x \in S \ T PROVE T \cup {x} \in F
    <2>1. IsFiniteSet(T) /\ (\A y \in T : f[y] \in Int) /\ f[x] = 1 /\ f[x] \in Int
      BY FS_Subset
    <2>2. Total(f, T \cup {x}) = Total(f, T) + f[x]
      BY <2>1, TotalAdd
    <2>3. Cardinality(T \cup {x}) = Cardinality(T) + 1
      BY <2>1, FS_AddElement
    <2> QED
      BY <2>1, <2>2, <2>3
  <1> HIDE DEF F
  <1>3. S \in F
    BY <1>1, <1>2, SetInduction DEF F
  <1> QED
    BY <1>3 DEF F

-----------------------------------------------------------------------------

(* Sums of weights: what a timer and a set of observations count for *)

Weights == [Durations -> Nat]
One     == [d \in Durations |-> 1]   \* the weights with which the sum counts
Time    == [d \in Durations |-> d]   \* the weights with which it adds durations up

\* What is in a Timer when the clock shows c
Running(c) == [metric : Metrics \cup {NoMetric}, since : 0..c]

Weighed(s, w)           == Total([d \in Durations |-> w[d] * s[d]], Durations)
Part(t, m, w, c)        == IF t.metric = m THEN w[c - t.since] ELSE 0
InQueue(ts, m, w, c)    == Total([i \in DOMAIN ts |-> Part(ts[i], m, w, c)], DOMAIN ts)
InQueues(qu, m, w, c)   == Total([q \in Queues |-> InQueue(qu[q], m, w, c)], Queues)
InTimers(ti, m, w, c)   == Total([t \in Timers |-> Part(ti[t], m, w, c)], Timers)
Pending(qu, ti, m, w, c) == InQueues(qu, m, w, c) + InTimers(ti, m, w, c)

LEMMA DurationsFinite == Durations \in SUBSET Nat /\ IsFiniteSet(Durations) /\ 0 \in Durations
  BY MetricAssumption, FS_Interval DEF Durations

LEMMA WeightsType == One \in Weights /\ Time \in Weights
  BY DurationsFinite DEF One, Time, Weights

LEMMA Product ==
  ASSUME NEW a \in Nat, NEW b \in Nat
  PROVE  a * b \in Nat /\ a * (b + 1) = a * b + a
  OBVIOUS

LEMMA Distributive ==
  ASSUME NEW a \in Nat, NEW b \in Nat, NEW c \in Nat
  PROVE  a * (b + c) = a * b + a * c
  OBVIOUS

LEMMA WeighedType ==
  ASSUME NEW w \in Weights, NEW s \in [Durations -> Nat]
  PROVE  Weighed(s, w) \in Nat
  <1> DEFINE f == [d \in Durations |-> w[d] * s[d]]
  <1>1. ASSUME NEW d \in Durations PROVE f[d] \in Nat
    <2>1. w[d] \in Nat /\ s[d] \in Nat
      BY DEF Weights
    <2>2. w[d] * s[d] \in Nat
      BY <2>1, Product
    <2> QED
      BY <2>2
  <1> HIDE DEF f
  <1>2. Total(f, Durations) \in Nat
    BY <1>1, DurationsFinite, TotalNat
  <1> QED
    BY <1>2 DEF f, Weighed

LEMMA PartType ==
  ASSUME NEW c \in Durations, NEW t \in Running(c), NEW w \in Weights, NEW m
  PROVE  Part(t, m, w, c) \in Nat /\ c - t.since \in Durations
  <1>1. c - t.since \in Durations
    BY MetricAssumption DEF Running, Durations
  <1> QED
    BY <1>1 DEF Part, Weights

LEMMA QueueType ==
  ASSUME NEW c \in Durations, NEW ts \in Seq(Running(c))
  PROVE  /\ IsFiniteSet(DOMAIN ts) /\ DOMAIN ts = 1..Len(ts) /\ Len(ts) \in Nat
         /\ \A i \in DOMAIN ts : ts[i] \in Running(c)
  BY FS_Interval

LEMMA InQueueType ==
  ASSUME NEW c \in Durations, NEW ts \in Seq(Running(c)), NEW w \in Weights, NEW m
  PROVE  InQueue(ts, m, w, c) \in Nat
  <1> DEFINE f == [i \in DOMAIN ts |-> Part(ts[i], m, w, c)]
  <1>1. \A i \in DOMAIN ts : f[i] \in Nat
    BY QueueType, PartType
  <1> HIDE DEF f
  <1>2. Total(f, DOMAIN ts) \in Nat
    BY <1>1, QueueType, TotalNat
  <1> QED
    BY <1>2 DEF f, InQueue

\* A sum over observed durations is the sum over the timers that took them.
LEMMA Fibers ==
  ASSUME NEW S, IsFiniteSet(S), NEW P \in SUBSET S, NEW e, \A i \in P : e[i] \in Durations,
         NEW w \in Weights
  PROVE  /\ \A d \in Durations : Cardinality({i \in S : i \in P /\ e[i] = d}) \in Nat
         /\ Weighed([d \in Durations |-> Cardinality({i \in S : i \in P /\ e[i] = d})], w)
              = Total([i \in S |-> IF i \in P THEN w[e[i]] ELSE 0], S)
  <1> DEFINE At(T, d) == {i \in T : i \in P /\ e[i] = d}
             f(T) == [d \in Durations |-> w[d] * Cardinality(At(T, d))]
             g == [i \in S |-> IF i \in P THEN w[e[i]] ELSE 0]
             F == {T \in SUBSET S : Total(f(T), Durations) = Total(g, T)}
  <1>0. ASSUME NEW T \in SUBSET S, NEW d \in Durations
        PROVE  /\ IsFiniteSet(T) /\ IsFiniteSet(At(T, d))
               /\ Cardinality(At(T, d)) \in Nat /\ f(T)[d] \in Nat
    <2>1. IsFiniteSet(T) /\ IsFiniteSet(At(T, d))
      BY FS_Subset
    <2>2. Cardinality(At(T, d)) \in Nat /\ w[d] \in Nat
      BY <2>1, FS_CardinalityType DEF Weights
    <2>3. w[d] * Cardinality(At(T, d)) \in Nat
      BY <2>2, Product
    <2> QED
      BY <2>1, <2>2, <2>3
  <1>1. \A i \in S : g[i] \in Int
    BY DEF Weights
  <1>2. {} \in F
    <2>1. ASSUME NEW d \in Durations PROVE f({})[d] = 0
      <3>1. At({}, d) = {} /\ w[d] \in Nat
        BY DEF Weights
      <3>2. Cardinality(At({}, d)) = 0
        BY <3>1, FS_EmptySet
      <3>3. w[d] * 0 = 0
        BY <3>1
      <3> QED
        BY <3>2, <3>3
    <2> HIDE DEF f
    <2>2. Total(f({}), Durations) = 0
      BY <2>1, DurationsFinite, TotalZero
    <2>3. Total(g, {}) = 0
      BY TotalEmpty
    <2> QED
      BY <2>2, <2>3
  <1>3. ASSUME NEW T \in F, NEW x \in S \ T PROVE T \cup {x} \in F
    <2> DEFINE U == T \cup {x}
    <2>1. /\ T \in SUBSET S /\ U \in SUBSET S /\ x \notin T
          /\ Total(f(T), Durations) = Total(g, T)
      OBVIOUS
    <2>2. Total(g, U) = Total(g, T) + g[x]
      <3>1. IsFiniteSet(T) /\ (\A y \in T : g[y] \in Int) /\ g[x] \in Int
        BY <1>1, FS_Subset
      <3> HIDE DEF g
      <3> QED
        BY <2>1, <3>1, TotalAdd
    <2>3. \A d \in Durations : f(T)[d] \in Int /\ f(U)[d] \in Int
      <3> HIDE DEF f, U
      <3>1. \A d \in Durations : f(T)[d] \in Nat
        BY <1>0, <2>1
      <3>2. \A d \in Durations : f(U)[d] \in Nat
        BY <1>0, <2>1
      <3> QED
        BY <3>1, <3>2
    <2>4. CASE x \notin P
      <3>1. \A d \in Durations : At(U, d) = At(T, d)
        BY <2>4
      <3>2. \A d \in Durations : f(U)[d] = f(T)[d]
        BY <3>1
      <3>3. g[x] = 0
        BY <2>4
      <3>4. Total(g, T) \in Int
        <4>1. IsFiniteSet(T) /\ (\A y \in T : g[y] \in Int)
          BY <1>1, FS_Subset
        <4> HIDE DEF g
        <4> QED
          BY <4>1, TotalType
      <3> HIDE DEF f, g
      <3>5. Total(f(U), Durations) = Total(f(T), Durations)
        BY <2>3, <3>2, DurationsFinite, TotalSame
      <3>6. Total(f(U), Durations) = Total(g, U)
        BY <2>1, <2>2, <3>3, <3>4, <3>5
      <3> QED
        BY <3>6, <2>1
    <2>5. CASE x \in P
      <3> DEFINE b == e[x]
      <3>1. b \in Durations /\ g[x] = w[b] /\ w[b] \in Nat
        BY <2>5 DEF Weights
      <3>2. \A d \in Durations \ {b} : At(U, d) = At(T, d)
        OBVIOUS
      <3>3. \A d \in Durations \ {b} : f(U)[d] = f(T)[d]
        BY <3>2
      <3>4. At(U, b) = At(T, b) \cup {x} /\ x \notin At(T, b)
        BY <2>5
      <3>5. Cardinality(At(U, b)) = Cardinality(At(T, b)) + 1 /\ Cardinality(At(T, b)) \in Nat
        <4>1. IsFiniteSet(At(T, b)) /\ Cardinality(At(T, b)) \in Nat
          BY <1>0, <2>1, <3>1
        <4> HIDE DEF At
        <4>2. Cardinality(At(T, b) \cup {x}) = Cardinality(At(T, b)) + 1
          BY <3>4, <4>1, FS_AddElement
        <4> QED
          BY <3>4, <4>1, <4>2
      <3>6. f(U)[b] = f(T)[b] + w[b]
        <4> HIDE DEF At
        <4>1. w[b] * (Cardinality(At(T, b)) + 1) = w[b] * Cardinality(At(T, b)) + w[b]
          BY <3>1, <3>5, Product
        <4> QED
          BY <3>1, <3>5, <4>1
      <3> HIDE DEF f, g, b, U
      <3>7. Total(f(U), Durations) = Total(f(T), Durations) - f(T)[b] + f(U)[b]
        <4> DEFINE j == f(T)
                   h == f(U)
        <4>1. /\ h[b] \in Int /\ (\A d \in Durations : j[d] \in Int)
              /\ (\A d \in Durations \ {b} : h[d] = j[d])
          BY <2>3, <3>1, <3>3
        <4> HIDE DEF j, h
        <4>2. b \in Durations /\ IsFiniteSet(Durations)
          BY <3>1, DurationsFinite
        <4>3. Total(h, Durations) = Total(j, Durations) - j[b] + h[b]
          BY ONLY <4>1, <4>2, TotalChange
        <4> QED
          BY <4>3 DEF j, h
      <3>8. Total(f(T), Durations) \in Int /\ f(T)[b] \in Int
        BY <2>3, <3>1, DurationsFinite, TotalType
      <3>9. Total(f(U), Durations) = Total(f(T), Durations) + w[b]
        BY <3>1, <3>6, <3>7, <3>8
      <3>10. Total(f(U), Durations) = Total(g, U)
        BY <2>1, <2>2, <3>1, <3>9
      <3> QED
        BY <2>1, <3>10 DEF U
    <2> QED
      BY <2>4, <2>5
  <1> HIDE DEF F
  <1>4. S \in F
    BY <1>2, <1>3, SetInduction DEF F
  <1>5. Total(f(S), Durations) = Total(g, S)
    BY <1>4 DEF F
  <1>6. \A d \in Durations : Cardinality(At(S, d)) \in Nat
    BY <1>0
  <1> DEFINE c == [d \in Durations |-> Cardinality(At(S, d))]
  <1>7. f(S) = [d \in Durations |-> w[d] * c[d]]
    OBVIOUS
  <1> QED
    BY <1>5, <1>6, <1>7 DEF Weighed

-----------------------------------------------------------------------------
(* What operations on queues and timers do to the sums *)

LEMMA EmptyQueue ==
  ASSUME NEW m, NEW w, NEW c
  PROVE  InQueue(<<>>, m, w, c) = 0
  <1> DEFINE f == [i \in DOMAIN <<>> |-> Part(<<>>[i], m, w, c)]
  <1>1. DOMAIN <<>> = {}
    OBVIOUS
  <1> HIDE DEF f
  <1>2. Total(f, DOMAIN <<>>) = 0
    BY <1>1, TotalEmpty
  <1> QED
    BY <1>2 DEF InQueue, f

LEMMA QueueOfOne ==
  ASSUME NEW c \in Durations, NEW t \in Running(c), NEW w \in Weights, NEW m
  PROVE  InQueue(<<t>>, m, w, c) = Part(t, m, w, c)
  <1> DEFINE f == [i \in DOMAIN <<t>> |-> Part(<<t>>[i], m, w, c)]
  <1>1. DOMAIN <<t>> = {} \cup {1} /\ f[1] = Part(t, m, w, c) /\ f[1] \in Int
    BY PartType
  <1> HIDE DEF f
  <1>2. IsFiniteSet({}) /\ 1 \notin {} /\ \A y \in {} : f[y] \in Int
    BY FS_EmptySet
  <1>3. Total(f, {} \cup {1}) = Total(f, {}) + f[1]
    BY <1>1, <1>2, TotalAdd
  <1>4. Total(f, {}) = 0
    BY TotalEmpty
  <1>5. Total(f, DOMAIN <<t>>) = f[1]
    BY <1>1, <1>3, <1>4
  <1> QED
    BY <1>1, <1>5 DEF InQueue, f

LEMMA QueueAppended ==
  ASSUME NEW c \in Durations, NEW ts \in Seq(Running(c)), NEW t \in Running(c),
         NEW w \in Weights, NEW m
  PROVE  InQueue(Append(ts, t), m, w, c) = InQueue(ts, m, w, c) + Part(t, m, w, c)
  <1> DEFINE us == Append(ts, t)
             n == Len(ts) + 1
             S == DOMAIN ts
             f == [i \in DOMAIN ts |-> Part(ts[i], m, w, c)]
             h == [i \in DOMAIN us |-> Part(us[i], m, w, c)]
  <1>1. /\ us \in Seq(Running(c)) /\ DOMAIN us = S \cup {n} /\ n \notin S /\ us[n] = t
        /\ \A i \in S : us[i] = ts[i]
    OBVIOUS
  <1>2. IsFiniteSet(S) /\ \A i \in S : f[i] \in Int
    BY QueueType, PartType
  <1>3. h[n] = Part(t, m, w, c) /\ h[n] \in Int /\ \A i \in S : h[i] = f[i]
    BY <1>1, PartType
  <1> HIDE DEF f, h, us, n, S
  <1>4. \A i \in S : h[i] \in Int
    BY <1>2, <1>3
  <1>5. Total(h, S \cup {n}) = Total(h, S) + h[n]
    BY <1>1, <1>2, <1>3, <1>4, TotalAdd
  <1>6. Total(h, S) = Total(f, S)
    BY <1>2, <1>3, TotalSame
  <1>7. Total(h, S \cup {n}) = Total(f, S) + Part(t, m, w, c)
    BY <1>3, <1>5, <1>6
  <1>8. InQueue(us, m, w, c) = Total(h, S \cup {n}) /\ InQueue(ts, m, w, c) = Total(f, S)
    BY <1>1 DEF InQueue, f, h, S
  <1> QED
    BY <1>7, <1>8 DEF us

LEMMA QueueHeadTail ==
  ASSUME NEW c \in Durations, NEW ts \in Seq(Running(c)), ts # <<>>,
         NEW w \in Weights, NEW m
  PROVE  /\ Head(ts) \in Running(c) /\ Tail(ts) \in Seq(Running(c))
         /\ InQueue(ts, m, w, c) = Part(Head(ts), m, w, c) + InQueue(Tail(ts), m, w, c)
  <1> DEFINE us == Tail(ts)
             f == [i \in DOMAIN ts |-> Part(ts[i], m, w, c)]
             h == [i \in DOMAIN us |-> Part(us[i], m, w, c)]
             S == DOMAIN us
             T == DOMAIN ts \ {1}
             b == [i \in S |-> i + 1]
  <1>1. /\ us \in Seq(Running(c)) /\ Head(ts) \in Running(c)
        /\ Len(ts) \in Nat /\ Len(ts) # 0 /\ S = 1..(Len(ts) - 1) /\ DOMAIN ts = 1..Len(ts)
        /\ Head(ts) = ts[1] /\ \A i \in S : us[i] = ts[i + 1]
    OBVIOUS
  <1>2. /\ \A i \in S : b[i] \in T
        /\ \A j \in T : \E i \in S : b[i] = j
    <2>1. \A j \in T : j - 1 \in S /\ b[j - 1] = j
      BY <1>1
    <2>2. \A i \in S : b[i] \in T
      BY <1>1
    <2> HIDE DEF b, S, T
    <2> QED
      BY <2>1, <2>2
  <1>3. \A x, y \in S : b[x] = b[y] => x = y
    BY <1>1
  <1>4. IsFiniteSet(S) /\ IsFiniteSet(DOMAIN ts) /\ 1 \in DOMAIN ts
    BY <1>1, FS_Interval
  <1>5. \A i \in DOMAIN ts : f[i] \in Int
    BY QueueType, PartType
  <1>6. \A i \in S : h[i] = f[b[i]] /\ f[b[i]] \in Int
    <2> SUFFICES ASSUME NEW i \in S PROVE h[i] = f[b[i]] /\ f[b[i]] \in Int
      OBVIOUS
    <2>1. b[i] = i + 1 /\ i + 1 \in DOMAIN ts /\ us[i] = ts[i + 1]
      BY <1>1
    <2> HIDE DEF b, us
    <2> QED
      BY <1>5, <2>1
  <1>7. f[1] = Part(Head(ts), m, w, c)
    BY <1>1
  <1> HIDE DEF f, h, us, S, b
  <1>8. Total(f, DOMAIN ts) = Total(f, T) + f[1]
    BY <1>4, <1>5, TotalRemove
  <1>9. Total(f, T) = Total(h, S)
    <2> HIDE DEF T
    <2> QED
      BY <1>2, <1>3, <1>4, <1>6, TotalRenamed
  <1>10. InQueue(ts, m, w, c) = Total(f, DOMAIN ts) /\ InQueue(us, m, w, c) = Total(h, S)
    BY DEF InQueue, f, h, S
  <1>11. Total(h, S) \in Int /\ f[1] \in Int
    <2>1. InQueue(us, m, w, c) \in Nat
      BY <1>1, InQueueType
    <2> QED
      BY <1>4, <1>5, <1>10, <2>1
  <1>12. InQueue(ts, m, w, c) = f[1] + InQueue(us, m, w, c)
    BY <1>8, <1>9, <1>10, <1>11
  <1> QED
    BY <1>1, <1>7, <1>12 DEF us

AllQueues(c) == [Queues -> Seq(Running(c))]
AllTimers(c) == [Timers -> Running(c)]

LEMMA PendingType ==
  ASSUME NEW c \in Durations, NEW qu \in AllQueues(c), NEW ti \in AllTimers(c),
         NEW w \in Weights, NEW m
  PROVE  InQueues(qu, m, w, c) \in Nat /\ InTimers(ti, m, w, c) \in Nat
  <1> DEFINE f == [q \in Queues |-> InQueue(qu[q], m, w, c)]
             h == [t \in Timers |-> Part(ti[t], m, w, c)]
  <1>1. \A q \in Queues : f[q] \in Nat
    BY InQueueType DEF AllQueues
  <1>2. \A t \in Timers : h[t] \in Nat
    BY PartType DEF AllTimers
  <1> HIDE DEF f, h
  <1>3. Total(f, Queues) \in Nat
    BY <1>1, MetricAssumption, TotalNat
  <1>4. Total(h, Timers) \in Nat
    BY <1>2, MetricAssumption, TotalNat
  <1> QED
    BY <1>3, <1>4 DEF f, h, InQueues, InTimers

\* Of a function only the value for x changes.
Becomes(g, f, x, v) == g = [f EXCEPT ![x] = v]

\* One queue changes.
LEMMA QueueChanged ==
  ASSUME NEW c \in Durations, NEW qu \in AllQueues(c), NEW q \in Queues,
         NEW ts \in Seq(Running(c)), NEW w \in Weights, NEW m,
         NEW qv, Becomes(qv, qu, q, ts)
  PROVE  /\ qv \in AllQueues(c)
         /\ InQueues(qv, m, w, c)
              = InQueues(qu, m, w, c) - InQueue(qu[q], m, w, c) + InQueue(ts, m, w, c)
  <1> DEFINE f == [p \in Queues |-> InQueue(qu[p], m, w, c)]
             h == [p \in Queues |-> InQueue(qv[p], m, w, c)]
  <1>1. qv \in AllQueues(c) /\ qv[q] = ts /\ \A p \in Queues \ {q} : qv[p] = qu[p]
    BY DEF AllQueues, Becomes
  <1>2. \A p \in Queues : f[p] \in Int
    BY InQueueType DEF AllQueues
  <1>3. h[q] = InQueue(ts, m, w, c) /\ h[q] \in Int /\ f[q] = InQueue(qu[q], m, w, c)
    BY <1>1, InQueueType
  <1>4. \A p \in Queues \ {q} : h[p] = f[p]
    BY <1>1
  <1> HIDE DEF f, h
  <1>5. IsFiniteSet(Queues)
    BY MetricAssumption
  <1>6. Total(h, Queues) = Total(f, Queues) - f[q] + h[q]
    BY <1>2, <1>3, <1>4, <1>5, TotalChange
  <1> QED
    BY <1>1, <1>3, <1>6 DEF InQueues, f, h

\* One timer changes.
LEMMA TimerChanged ==
  ASSUME NEW c \in Durations, NEW ti \in AllTimers(c), NEW t \in Timers,
         NEW r \in Running(c), NEW w \in Weights, NEW m,
         NEW tj, Becomes(tj, ti, t, r)
  PROVE  /\ tj \in AllTimers(c)
         /\ InTimers(tj, m, w, c)
              = InTimers(ti, m, w, c) - Part(ti[t], m, w, c) + Part(r, m, w, c)
  <1> DEFINE f == [u \in Timers |-> Part(ti[u], m, w, c)]
             h == [u \in Timers |-> Part(tj[u], m, w, c)]
  <1>1. tj \in AllTimers(c) /\ tj[t] = r /\ \A u \in Timers \ {t} : tj[u] = ti[u]
    BY DEF AllTimers, Becomes
  <1>2. \A u \in Timers : f[u] \in Int
    BY PartType DEF AllTimers
  <1>3. h[t] = Part(r, m, w, c) /\ h[t] \in Int /\ f[t] = Part(ti[t], m, w, c)
    BY <1>1, PartType
  <1>4. \A u \in Timers \ {t} : h[u] = f[u]
    BY <1>1
  <1> HIDE DEF f, h
  <1>5. IsFiniteSet(Timers)
    BY MetricAssumption
  <1>6. Total(h, Timers) = Total(f, Timers) - f[t] + h[t]
    BY <1>2, <1>3, <1>4, <1>5, TotalChange
  <1> QED
    BY <1>1, <1>3, <1>6 DEF InTimers, f, h

-----------------------------------------------------------------------------
(* The invariant *)

\* What the metric m observed and what is still running for it, weighed alike
Held(m, w) == Weighed(samples[m], w) + Pending(queue, timer, m, w, clock)

\* TypeOK, and what it takes for no timer to get lost: the queues are sequences
\* and there is nothing in a destroyed one, which a move would overwrite.
TypeInv ==
  /\ clock \in Durations
  /\ metric \in [Queues -> Metrics \cup {NoMetric, Destroyed}]
  /\ queue \in AllQueues(clock)
  /\ timer \in AllTimers(clock)
  /\ samples \in [Metrics -> [Durations -> Nat]]
  /\ started \in [Metrics \cup {NoMetric} -> 0..MaxStarts]
  /\ busy \in [Metrics -> Nat]
  /\ \A q \in Queues : metric[q] = Destroyed => queue[q] = <<>>

\* The number of timers started for m, and the time spent in them
HeldInv ==
  \A m \in Metrics : started[m] = Held(m, One) /\ busy[m] = Held(m, Time)

IInv == TypeInv /\ HeldInv

LEMMA TypeInvOK == ASSUME TypeInv PROVE TypeOK
  <1>1. \A q \in Queues : \A i \in DOMAIN queue[q] :
          queue[q][i] \in [metric : Metrics \cup {NoMetric}, since : 0..clock]
    <2>1. \A q \in Queues : queue[q] \in Seq(Running(clock))
      BY DEF TypeInv, AllQueues
    <2> QED
      BY <2>1, QueueType DEF TypeInv, Running
  <1> QED
    BY <1>1 DEF TypeInv, TypeOK, AllTimers, Running

\* A timer that starts counts for the weight of no time, if for a metric.
LEMMA StartedType ==
  ASSUME TypeInv, NEW p \in Metrics \cup {NoMetric}
  PROVE  /\ StartedFor(p) \in Running(clock) /\ Idle \in Running(clock)
         /\ \A m \in Metrics, w \in Weights :
              /\ Part(StartedFor(p), m, w, clock) = IF p = m THEN w[0] ELSE 0
              /\ Part(Idle, m, w, clock) = 0
  <1>1. clock \in Nat /\ clock - clock = 0 /\ clock \in 0..clock /\ 0 \in 0..clock
    BY DEF TypeInv, Durations
  <1>2. StartedFor(p) \in Running(clock) /\ Idle \in Running(clock)
    BY <1>1 DEF StartedFor, Idle, Running
  <1>3. ASSUME NEW m \in Metrics, NEW w \in Weights
        PROVE  /\ Part(StartedFor(p), m, w, clock) = IF p = m THEN w[0] ELSE 0
               /\ Part(Idle, m, w, clock) = 0
    <2>1. m # NoMetric /\ Idle.metric = NoMetric
      BY MetricAssumption DEF Idle
    <2>2. CASE p = NoMetric
      BY <2>1, <2>2 DEF Part, StartedFor
    <2>3. CASE p # NoMetric
      <3>1. StartedFor(p).metric = p /\ StartedFor(p).since = clock
        BY <2>3 DEF StartedFor
      <3> QED
        BY <1>1, <2>1, <3>1 DEF Part
    <2> QED
      BY <2>2, <2>3
  <1> QED
    BY <1>2, <1>3

\* Observing timers adds what they count for to what the metrics observed.
LEMMA Observing ==
  ASSUME TypeInv, NEW ts \in Seq(Running(clock))
  PROVE  /\ Observed(ts) \in [Metrics -> [Durations -> Nat]]
         /\ \A m \in Metrics, w \in Weights :
              Weighed(Observed(ts)[m], w)
                = Weighed(samples[m], w) + InQueue(ts, m, w, clock)
  <1> DEFINE S == DOMAIN ts
             e == [i \in S |-> Elapsed(ts[i])]
             P(m) == {i \in S : ts[i].metric = m}
             k(m) == [d \in Durations |-> Cardinality({i \in S : i \in P(m) /\ e[i] = d})]
             o(m) == [d \in Durations |-> samples[m][d] + k(m)[d]]
  <1>1. IsFiniteSet(S) /\ clock \in Durations /\ samples \in [Metrics -> [Durations -> Nat]]
    BY QueueType DEF TypeInv
  <1>2. \A m : P(m) \in SUBSET S
    OBVIOUS
  <1>3. \A i \in S : e[i] \in Durations /\ e[i] = clock - ts[i].since
    BY <1>1, QueueType, PartType, WeightsType DEF Elapsed
  <1>4. ASSUME NEW m \in Metrics, NEW w \in Weights
        PROVE  /\ \A d \in Durations : k(m)[d] \in Nat
               /\ Weighed(k(m), w) = InQueue(ts, m, w, clock)
    <2> DEFINE g == [i \in S |-> IF i \in P(m) THEN w[e[i]] ELSE 0]
               h == [i \in S |-> Part(ts[i], m, w, clock)]
    <2>1. g = h
      BY <1>3 DEF Part
    <2>2. \A i \in P(m) : e[i] \in Durations
      BY <1>2, <1>3
    <2>3. /\ \A d \in Durations : Cardinality({i \in S : i \in P(m) /\ e[i] = d}) \in Nat
          /\ Weighed([d \in Durations |-> Cardinality({i \in S : i \in P(m) /\ e[i] = d})], w)
               = Total([i \in S |-> IF i \in P(m) THEN w[e[i]] ELSE 0], S)
      <3> HIDE DEF P, e, S
      <3> QED
        BY <1>1, <1>2, <2>2, Fibers
    <2> QED
      BY <2>1, <2>3 DEF InQueue
  <1>5. ASSUME NEW m \in Metrics
        PROVE  Observed(ts)[m] = o(m)
    <2>1. \A d \in Durations : {i \in DOMAIN ts : ts[i].metric = m /\ Elapsed(ts[i]) = d}
                                 = {i \in S : i \in P(m) /\ e[i] = d}
      OBVIOUS
    <2> QED
      BY <2>1 DEF Observed
  <1>6. \A m \in Metrics : o(m) \in [Durations -> Nat]
    <2> SUFFICES ASSUME NEW m \in Metrics PROVE o(m) \in [Durations -> Nat]
      OBVIOUS
    <2>1. \A d \in Durations : samples[m][d] \in Nat /\ k(m)[d] \in Nat
      BY <1>1, <1>4, WeightsType
    <2> HIDE DEF k
    <2> QED
      BY <2>1
  <1>7. Observed(ts) \in [Metrics -> [Durations -> Nat]]
    BY <1>5, <1>6 DEF Observed
  <1>8. ASSUME NEW m \in Metrics, NEW w \in Weights
        PROVE  Weighed(o(m), w) = Weighed(samples[m], w) + Weighed(k(m), w)
    <2> DEFINE f == [d \in Durations |-> w[d] * samples[m][d]]
               g == [d \in Durations |-> w[d] * k(m)[d]]
               h == [d \in Durations |-> w[d] * o(m)[d]]
    <2>1. ASSUME NEW d \in Durations
          PROVE  f[d] \in Int /\ g[d] \in Int /\ h[d] = f[d] + g[d]
      <3>1. w[d] \in Nat /\ samples[m][d] \in Nat /\ k(m)[d] \in Nat
        BY <1>1, <1>4 DEF Weights
      <3>2. /\ w[d] * samples[m][d] \in Nat /\ w[d] * k(m)[d] \in Nat
            /\ w[d] * (samples[m][d] + k(m)[d]) = w[d] * samples[m][d] + w[d] * k(m)[d]
        <4> HIDE DEF k
        <4> DEFINE a == samples[m][d]
                   b == k(m)[d]
        <4>1. w[d] * a \in Nat /\ w[d] * b \in Nat
          BY <3>1, Product
        <4>2. w[d] * (a + b) = w[d] * a + w[d] * b
          BY <3>1, Distributive
        <4> QED
          BY <4>1, <4>2
      <3> HIDE DEF k
      <3> QED
        BY <3>2
    <2> HIDE DEF f, g, h
    <2>2. Total(h, Durations) = Total(f, Durations) + Total(g, Durations)
      BY <2>1, DurationsFinite, TotalPlus
    <2> QED
      BY <2>2 DEF f, g, h, Weighed
  <1> HIDE DEF o, k
  <1> QED
    BY <1>4, <1>5, <1>7, <1>8

-----------------------------------------------------------------------------
(* The timers that run, one by one *)

LEMMA RunningForIs ==
  ASSUME NEW m, NEW r
  PROVE  r \in RunningFor(m) <=>
           \/ \E q \in Queues : \E i \in DOMAIN queue[q] : /\ queue[q][i].metric = m
                                                         /\ r = <<q, i>>
           \/ \E t \in Timers : timer[t].metric = m /\ r = <<t>>
  BY DEF RunningFor

\* A sum over the timers of m that run, each by its own name, is what the
\* queues and the timers hold.
LEMMA RunningTotal ==
  ASSUME TypeInv, NEW m \in Metrics, NEW w \in Weights, NEW f,
         \A q \in Queues : \A i \in DOMAIN queue[q] :
           queue[q][i].metric = m => f[<<q, i>>] = w[clock - queue[q][i].since],
         \A t \in Timers :
           timer[t].metric = m => f[<<t>>] = w[clock - timer[t].since]
  PROVE  /\ IsFiniteSet(RunningFor(m))
         /\ Total(f, RunningFor(m)) = Pending(queue, timer, m, w, clock)
         /\ \A r \in RunningFor(m) : f[r] \in Nat
  <1> DEFINE I(q) == {i \in DOMAIN queue[q] : queue[q][i].metric = m}
             In(q) == {<<q, i>> : i \in I(q)}
             InAll(Q) == UNION {In(q) : q \in Q}
             J == {t \in Timers : timer[t].metric = m}
             T == {<<t>> : t \in J}
             h == [q \in Queues |-> InQueue(queue[q], m, w, clock)]
             k == [t \in Timers |-> Part(timer[t], m, w, clock)]
  <1>0. /\ clock \in Durations /\ IsFiniteSet(Queues) /\ IsFiniteSet(Timers)
        /\ \A q \in Queues : queue[q] \in Seq(Running(clock))
        /\ \A t \in Timers : timer[t] \in Running(clock)
    BY MetricAssumption DEF TypeInv, AllQueues, AllTimers
  <1>1. ASSUME NEW q \in Queues
        PROVE  /\ IsFiniteSet(In(q)) /\ Total(f, In(q)) = h[q] /\ h[q] \in Nat
               /\ \A r \in In(q) : f[r] \in Nat
    <2> DEFINE ts == queue[q]
               S == DOMAIN ts
               p == [i \in S |-> Part(ts[i], m, w, clock)]
               b == [i \in I(q) |-> <<q, i>>]
    <2>1. IsFiniteSet(S) /\ \A i \in S : p[i] \in Nat
      BY <1>0, QueueType, PartType
    <2>2. /\ I(q) \in SUBSET S /\ IsFiniteSet(I(q))
          /\ \A i \in S \ I(q) : p[i] = 0
      BY <2>1, FS_Subset DEF Part
    <2>3. \A i \in I(q) : p[i] = f[b[i]] /\ f[b[i]] \in Nat
      <3> SUFFICES ASSUME NEW i \in I(q) PROVE p[i] = f[b[i]] /\ p[i] \in Nat
        OBVIOUS
      <3>1. b[i] = <<q, i>> /\ i \in S /\ ts[i].metric = m
        OBVIOUS
      <3>2. p[i] = w[clock - ts[i].since]
        BY <3>1 DEF Part
      <3>3. f[<<q, i>>] = w[clock - ts[i].since]
        BY <3>1
      <3> QED
        BY <2>1, <3>1, <3>2, <3>3
    <2>4. /\ \A i \in I(q) : b[i] \in In(q)
          /\ \A z \in In(q) : \E i \in I(q) : b[i] = z
          /\ \A x, y \in I(q) : b[x] = b[y] => x = y
      OBVIOUS
    <2>5. h[q] = Total(p, S)
      BY DEF InQueue
    <2> HIDE DEF I, In, p, b, S, h
    <2>6. IsFiniteSet(In(q)) /\ Total(f, In(q)) = Total(p, I(q))
      <3> DEFINE N == I(q)
                 R == In(q)
      <3>1. /\ IsFiniteSet(N)
            /\ \A i \in N : f[b[i]] \in Int /\ p[i] = f[b[i]]
            /\ \A i \in N : b[i] \in R
            /\ \A z \in R : \E i \in N : b[i] = z
            /\ \A x, y \in N : b[x] = b[y] => x = y
        BY <2>2, <2>3, <2>4
      <3> HIDE DEF N, R
      <3>2. IsFiniteSet(R) /\ Total(f, R) = Total(p, N)
        BY ONLY <3>1, TotalRenamed
      <3> QED
        BY <3>2 DEF N, R
    <2>7. Total(p, S) = Total(p, I(q))
      BY <2>1, <2>2, TotalWithin
    <2>8. Total(p, S) \in Nat
      BY <2>1, TotalNat
    <2> QED
      BY <2>3, <2>4, <2>5, <2>6, <2>7, <2>8
  <1> DEFINE F == {Q \in SUBSET Queues : /\ IsFiniteSet(InAll(Q))
                                         /\ Total(f, InAll(Q)) = Total(h, Q)}
  <1>2. {} \in F
    <2>1. InAll({}) = {}
      OBVIOUS
    <2> HIDE DEF InAll
    <2> QED
      BY <2>1, TotalEmpty, FS_EmptySet
  <1>3. ASSUME NEW Q \in SUBSET Queues
        PROVE  \A r \in InAll(Q) : f[r] \in Nat
    <2> SUFFICES ASSUME NEW r \in InAll(Q) PROVE f[r] \in Nat
      OBVIOUS
    <2>1. PICK q \in Q : r \in In(q)
      OBVIOUS
    <2> HIDE DEF In
    <2> QED
      BY <1>1, <2>1
  <1>4. ASSUME NEW Q \in F, NEW q \in Queues \ Q PROVE Q \cup {q} \in F
    <2>1. InAll(Q \cup {q}) = InAll(Q) \cup In(q)
      <3> HIDE DEF In
      <3> QED
        OBVIOUS
    <2>2. InAll(Q) \cap In(q) = {}
      OBVIOUS
    <2>3. /\ Q \in SUBSET Queues /\ IsFiniteSet(InAll(Q)) /\ q \notin Q
          /\ Total(f, InAll(Q)) = Total(h, Q)
      OBVIOUS
    <2> HIDE DEF InAll, In, h, F
    <2>4. \A r \in InAll(Q) \cup In(q) : f[r] \in Int
      BY <1>1, <1>3, <2>3
    <2>5. Total(f, InAll(Q) \cup In(q)) = Total(f, InAll(Q)) + Total(f, In(q))
      BY <1>1, <2>2, <2>3, <2>4, TotalUnion
    <2>6. IsFiniteSet(InAll(Q) \cup In(q))
      BY <1>1, <2>3, FS_Union
    <2>7. Total(h, Q \cup {q}) = Total(h, Q) + h[q]
      <3>1. IsFiniteSet(Q) /\ h[q] \in Int /\ \A y \in Q : h[y] \in Int
        BY <1>0, <1>1, <2>3, FS_Subset
      <3> QED
        BY ONLY <2>3, <3>1, TotalAdd
    <2>8. Total(f, InAll(Q \cup {q})) = Total(h, Q \cup {q})
      BY <1>1, <2>1, <2>3, <2>5, <2>7
    <2>9. IsFiniteSet(InAll(Q \cup {q}))
      BY <2>1, <2>6
    <2> QED
      BY <2>3, <2>8, <2>9 DEF F
  <1>5. IsFiniteSet(InAll(Queues)) /\ Total(f, InAll(Queues)) = Total(h, Queues)
    <2> HIDE DEF F
    <2>1. Queues \in F
      BY <1>0, <1>2, <1>4, SetInduction DEF F
    <2> QED
      BY <2>1 DEF F
  <1>6. IsFiniteSet(T) /\ Total(f, T) = Total(k, Timers) /\ \A r \in T : f[r] \in Nat
    <2> DEFINE b == [t \in J |-> <<t>>]
    <2>1. \A t \in Timers : k[t] \in Nat
      BY <1>0, PartType
    <2>2. J \in SUBSET Timers /\ IsFiniteSet(J) /\ \A t \in Timers \ J : k[t] = 0
      BY <1>0, FS_Subset DEF Part
    <2>3. \A t \in J : k[t] = f[b[t]] /\ f[b[t]] \in Nat
      <3> SUFFICES ASSUME NEW t \in J PROVE k[t] = f[b[t]] /\ k[t] \in Nat
        OBVIOUS
      <3>1. b[t] = <<t>> /\ k[t] = w[clock - timer[t].since]
        BY DEF Part
      <3>2. f[<<t>>] = w[clock - timer[t].since]
        OBVIOUS
      <3> QED
        BY <2>1, <3>1, <3>2
    <2>4. /\ \A t \in J : b[t] \in T
          /\ \A z \in T : \E t \in J : b[t] = z
          /\ \A x, y \in J : b[x] = b[y] => x = y
      OBVIOUS
    <2> HIDE DEF J, T, k, b
    <2>5. IsFiniteSet(T) /\ Total(f, T) = Total(k, J)
      BY ONLY <2>2, <2>3, <2>4, TotalRenamed
    <2>6. Total(k, Timers) = Total(k, J)
      BY <1>0, <2>1, <2>2, TotalWithin
    <2> QED
      BY <2>3, <2>4, <2>5, <2>6
  <1>7. InAll(Queues) \cap T = {}
    <2>1. \A r \in InAll(Queues) : Len(r) = 2
      OBVIOUS
    <2>2. \A r \in T : Len(r) = 1
      OBVIOUS
    <2> HIDE DEF InAll, T
    <2> QED
      BY <2>1, <2>2
  <1>8. RunningFor(m) = InAll(Queues) \cup T
    <2>1. \A r : r \in InAll(Queues) <=>
            \E q \in Queues : \E i \in DOMAIN queue[q] : /\ queue[q][i].metric = m
                                                       /\ r = <<q, i>>
      OBVIOUS
    <2>2. \A r : r \in T <=> \E t \in Timers : timer[t].metric = m /\ r = <<t>>
      OBVIOUS
    <2> HIDE DEF InAll, T
    <2>3. \A r : r \in RunningFor(m) <=> r \in InAll(Queues) \cup T
      BY <2>1, <2>2, RunningForIs
    <2> QED
      BY <2>3
  <1>9. Pending(queue, timer, m, w, clock) = Total(h, Queues) + Total(k, Timers)
    BY DEF Pending, InQueues, InTimers
  <1> HIDE DEF InAll, T, h, k
  <1>10. \A r \in InAll(Queues) \cup T : f[r] \in Nat
    BY <1>3, <1>6
  <1>11. Total(f, InAll(Queues) \cup T) = Total(f, InAll(Queues)) + Total(f, T)
    BY <1>5, <1>6, <1>7, <1>10, TotalUnion
  <1>12. IsFiniteSet(InAll(Queues) \cup T)
    BY <1>5, <1>6, FS_Union
  <1> QED
    BY <1>5, <1>6, <1>8, <1>9, <1>10, <1>11, <1>12

\* The number of timers of m that run
LEMMA RunningCount ==
  ASSUME TypeInv, NEW m \in Metrics
  PROVE  /\ Cardinality(RunningFor(m)) = Pending(queue, timer, m, One, clock)
         /\ Cardinality(RunningFor(m)) \in Nat
  <1> DEFINE f == [r \in RunningFor(m) |-> 1]
  <1>1. \A q \in Queues : \A i \in DOMAIN queue[q] :
          queue[q][i].metric = m => f[<<q, i>>] = One[clock - queue[q][i].since]
    <2> SUFFICES ASSUME NEW q \in Queues, NEW i \in DOMAIN queue[q], queue[q][i].metric = m
                 PROVE  f[<<q, i>>] = One[clock - queue[q][i].since]
      OBVIOUS
    <2>1. <<q, i>> \in RunningFor(m)
      BY RunningForIs
    <2>2. clock \in Durations /\ queue[q] \in Seq(Running(clock))
      BY DEF TypeInv, AllQueues
    <2>3. clock - queue[q][i].since \in Durations
      BY <2>2, QueueType, PartType, WeightsType
    <2> QED
      BY <2>1, <2>3 DEF One
  <1>2. \A t \in Timers : timer[t].metric = m => f[<<t>>] = One[clock - timer[t].since]
    <2> SUFFICES ASSUME NEW t \in Timers, timer[t].metric = m
                 PROVE  f[<<t>>] = One[clock - timer[t].since]
      OBVIOUS
    <2>1. <<t>> \in RunningFor(m)
      BY RunningForIs
    <2>2. clock - timer[t].since \in Durations
      BY PartType, WeightsType DEF TypeInv, AllTimers
    <2> QED
      BY <2>1, <2>2 DEF One
  <1>3. \A r \in RunningFor(m) : f[r] = 1
    OBVIOUS
  <1> HIDE DEF f
  <1>4. /\ IsFiniteSet(RunningFor(m))
        /\ Total(f, RunningFor(m)) = Pending(queue, timer, m, One, clock)
    BY <1>1, <1>2, WeightsType, RunningTotal
  <1>5. Total(f, RunningFor(m)) = Cardinality(RunningFor(m))
    BY <1>3, <1>4, TotalOfOnes
  <1> QED
    BY <1>4, <1>5, FS_CardinalityType

\* Their ages, added up
LEMMA RunningAges ==
  ASSUME TypeInv, NEW m \in Metrics
  PROVE  Total([r \in RunningFor(m) |-> Age(r)], RunningFor(m))
           = Pending(queue, timer, m, Time, clock)
  <1> DEFINE f == [r \in RunningFor(m) |-> Age(r)]
  <1>1. \A q \in Queues : \A i \in DOMAIN queue[q] :
          queue[q][i].metric = m => f[<<q, i>>] = Time[clock - queue[q][i].since]
    <2> SUFFICES ASSUME NEW q \in Queues, NEW i \in DOMAIN queue[q], queue[q][i].metric = m
                 PROVE  f[<<q, i>>] = Time[clock - queue[q][i].since]
      OBVIOUS
    <2>1. <<q, i>> \in RunningFor(m)
      BY RunningForIs
    <2>2. clock \in Durations /\ queue[q] \in Seq(Running(clock))
      BY DEF TypeInv, AllQueues
    <2>3. clock - queue[q][i].since \in Durations
      BY <2>2, QueueType, PartType, WeightsType
    <2>4. Age(<<q, i>>) = clock - queue[q][i].since
      BY DEF Age, Elapsed
    <2> QED
      BY <2>1, <2>3, <2>4 DEF Time
  <1>2. \A t \in Timers : timer[t].metric = m => f[<<t>>] = Time[clock - timer[t].since]
    <2> SUFFICES ASSUME NEW t \in Timers, timer[t].metric = m
                 PROVE  f[<<t>>] = Time[clock - timer[t].since]
      OBVIOUS
    <2>1. <<t>> \in RunningFor(m)
      BY RunningForIs
    <2>2. clock - timer[t].since \in Durations
      BY PartType, WeightsType DEF TypeInv, AllTimers
    <2>3. Age(<<t>>) = clock - timer[t].since
      BY DEF Age, Elapsed
    <2> QED
      BY <2>1, <2>2, <2>3 DEF Time
  <1> HIDE DEF f
  <1>3. Total(f, RunningFor(m)) = Pending(queue, timer, m, Time, clock)
    BY <1>1, <1>2, WeightsType, RunningTotal
  <1> QED
    BY <1>3 DEF f

-----------------------------------------------------------------------------
(* What the operations keep *)

\* An operation that starts no timer, and one that starts one for p
Keeps ==
  TypeInv' /\ \A m \in Metrics, w \in Weights : Held(m, w)' = Held(m, w)

StartsFor(p) ==
  /\ TypeInv'
  /\ \A m \in Metrics, w \in Weights :
       Held(m, w)' = Held(m, w) + (IF p = m THEN w[0] ELSE 0)

LEMMA HeldParts ==
  ASSUME TypeInv, NEW m \in Metrics, NEW w \in Weights
  PROVE  /\ Weighed(samples[m], w) \in Nat
         /\ InQueues(queue, m, w, clock) \in Nat
         /\ InTimers(timer, m, w, clock) \in Nat
         /\ Held(m, w) = Weighed(samples[m], w) + InQueues(queue, m, w, clock)
                           + InTimers(timer, m, w, clock)
  <1>1. /\ Weighed(samples[m], w) \in Nat
        /\ InQueues(queue, m, w, clock) \in Nat
        /\ InTimers(timer, m, w, clock) \in Nat
    BY WeighedType, PendingType DEF TypeInv
  <1> QED
    BY <1>1 DEF Held, Pending

LEMMA MayStartOne ==
  ASSUME TypeInv, MayStart, NEW p \in Metrics \cup {NoMetric}, Increment(p)
  PROVE  started' \in [Metrics \cup {NoMetric} -> 0..MaxStarts]
  <1> DEFINE S == Metrics \cup {NoMetric}
  <1>1. IsFiniteSet(S) /\ \A x \in S : started[x] \in Nat
    BY MetricAssumption, FS_AddElement DEF TypeInv
  <1>2. p \in S /\ started \in [S -> 0..MaxStarts]
    BY DEF TypeInv
  <1> HIDE DEF S
  <1>3. started[p] <= Total(started, S) /\ Total(started, S) \in Nat
    BY <1>1, <1>2, TotalAtLeast, TotalNat
  <1>4. Total(started, S) < MaxStarts /\ MaxStarts \in Nat
    BY MetricAssumption DEF MayStart, S
  <1>5. started[p] + 1 \in 0..MaxStarts
    BY <1>1, <1>2, <1>3, <1>4
  <1> QED
    BY <1>2, <1>5 DEF Increment, S

LEMMA PushStarts ==
  ASSUME TypeInv, NEW q \in Queues, Push(q)
  PROVE  StartsFor(metric[q])
  <1> DEFINE p == metric[q]
             t == StartedFor(p)
             ts == Append(queue[q], t)
  <1>1. /\ p \in Metrics \cup {NoMetric} /\ p # Destroyed /\ MayStart /\ Increment(p)
        /\ queue' = [queue EXCEPT ![q] = ts]
        /\ UNCHANGED <<clock, metric, timer, samples, busy>>
    BY DEF Push, TypeInv
  <1>2. clock \in Durations /\ queue \in AllQueues(clock) /\ queue[q] \in Seq(Running(clock))
    BY DEF TypeInv, AllQueues
  <1>3. t \in Running(clock)
    BY <1>1, StartedType
  <1>4. ts \in Seq(Running(clock))
    BY <1>2, <1>3
  <1>5. started' \in [Metrics \cup {NoMetric} -> 0..MaxStarts]
    BY <1>1, MayStartOne
  <1>0. Becomes(queue', queue, q, ts)
    BY <1>1 DEF Becomes
  <1>6. queue' \in AllQueues(clock)
    BY <1>0, <1>2, <1>4, QueueChanged, WeightsType
  <1>7. TypeInv'
    <2>1. \A r \in Queues : metric'[r] = Destroyed => queue'[r] = <<>>
      BY <1>1, <1>2 DEF TypeInv, AllQueues
    <2> HIDE DEF p, ts
    <2> QED
      BY <1>1, <1>5, <1>6, <2>1 DEF TypeInv
  <1>8. ASSUME NEW m \in Metrics, NEW w \in Weights
        PROVE  Held(m, w)' = Held(m, w) + (IF p = m THEN w[0] ELSE 0)
    <2>1. InQueues(queue', m, w, clock)
            = InQueues(queue, m, w, clock) - InQueue(queue[q], m, w, clock)
                + InQueue(ts, m, w, clock)
      <3> HIDE DEF ts
      <3> QED
        BY ONLY <1>0, <1>2, <1>4, QueueChanged, q \in Queues, m \in Metrics, w \in Weights
    <2>2. InQueue(ts, m, w, clock) = InQueue(queue[q], m, w, clock) + Part(t, m, w, clock)
      BY <1>2, <1>3, QueueAppended
    <2>3. Part(t, m, w, clock) = IF p = m THEN w[0] ELSE 0
      BY <1>1, StartedType
    <2>4. InQueue(queue[q], m, w, clock) \in Nat /\ Part(t, m, w, clock) \in Nat
      BY <1>2, <1>3, InQueueType, PartType
    <2>5. Held(m, w)' = Weighed(samples[m], w)
                          + (InQueues(queue', m, w, clock) + InTimers(timer, m, w, clock))
      BY <1>1 DEF Held, Pending
    <2> HIDE DEF p, t, ts
    <2> QED
      BY <2>1, <2>2, <2>3, <2>4, <2>5, HeldParts
  <1> QED
    BY <1>7, <1>8 DEF StartsFor

LEMMA ConstructKeeps ==
  ASSUME TypeInv, NEW q \in Queues, NEW p \in Metrics \cup {NoMetric}, Construct(q, p)
  PROVE  Keeps
  <1>1. /\ metric[q] = Destroyed /\ metric' = [metric EXCEPT ![q] = p]
        /\ UNCHANGED <<clock, queue, timer, samples, started, busy>>
    BY DEF Construct
  <1>2. TypeInv'
    BY <1>1 DEF TypeInv
  <1>3. \A m \in Metrics, w \in Weights : Held(m, w)' = Held(m, w)
    BY <1>1 DEF Held
  <1> QED
    BY <1>2, <1>3 DEF Keeps

\* The timers ts leave a queue and are observed.
LEMMA LeaveKeeps ==
  ASSUME TypeInv, NEW q \in Queues,
         NEW ts \in Seq(Running(clock)), NEW us \in Seq(Running(clock)),
         \A m \in Metrics, w \in Weights :
           InQueue(queue[q], m, w, clock)
             = InQueue(ts, m, w, clock) + InQueue(us, m, w, clock),
         samples' = Observed(ts), queue' = [queue EXCEPT ![q] = us],
         metric' \in [Queues -> Metrics \cup {NoMetric, Destroyed}],
         \A r \in Queues : metric'[r] = Destroyed => queue'[r] = <<>>,
         UNCHANGED <<clock, timer, started, busy>>
  PROVE  Keeps
  <1>1. clock \in Durations /\ queue \in AllQueues(clock) /\ queue[q] \in Seq(Running(clock))
    BY DEF TypeInv, AllQueues
  <1>0. Becomes(queue', queue, q, us)
    BY DEF Becomes
  <1>2. queue' \in AllQueues(clock)
    BY <1>0, <1>1, QueueChanged, WeightsType
  <1>3. samples' \in [Metrics -> [Durations -> Nat]]
    BY Observing
  <1>4. TypeInv'
    BY <1>2, <1>3 DEF TypeInv
  <1>5. ASSUME NEW m \in Metrics, NEW w \in Weights
        PROVE  Held(m, w)' = Held(m, w)
    <2>1. InQueues(queue', m, w, clock)
            = InQueues(queue, m, w, clock) - InQueue(queue[q], m, w, clock)
                + InQueue(us, m, w, clock)
      BY ONLY <1>0, <1>1, QueueChanged, m \in Metrics, w \in Weights, q \in Queues,
              us \in Seq(Running(clock))
    <2>2. Weighed(samples'[m], w) = Weighed(samples[m], w) + InQueue(ts, m, w, clock)
      BY Observing
    <2>3. InQueue(us, m, w, clock) \in Nat /\ InQueue(ts, m, w, clock) \in Nat
      BY <1>1, InQueueType
    <2>4. Held(m, w)' = Weighed(samples'[m], w)
                          + (InQueues(queue', m, w, clock) + InTimers(timer, m, w, clock))
      BY DEF Held, Pending
    <2>5. InQueue(queue[q], m, w, clock)
            = InQueue(ts, m, w, clock) + InQueue(us, m, w, clock)
      OBVIOUS
    <2> QED
      BY <2>1, <2>2, <2>3, <2>4, <2>5, HeldParts
  <1> QED
    BY <1>4, <1>5 DEF Keeps

LEMMA PopKeeps ==
  ASSUME TypeInv, NEW q \in Queues, Pop(q)
  PROVE  Keeps
  <1> DEFINE ts == <<Head(queue[q])>>
             us == Tail(queue[q])
  <1>1. /\ queue[q] # <<>> /\ samples' = Observed(ts) /\ queue' = [queue EXCEPT ![q] = us]
        /\ UNCHANGED <<clock, metric, timer, started, busy>>
    BY DEF Pop
  <1>2. /\ clock \in Durations /\ queue[q] \in Seq(Running(clock)) /\ DOMAIN queue = Queues
        /\ metric \in [Queues -> Metrics \cup {NoMetric, Destroyed}]
        /\ \A r \in Queues : metric[r] = Destroyed => queue[r] = <<>>
    BY DEF TypeInv, AllQueues
  <1>3. us \in Seq(Running(clock)) /\ Head(queue[q]) \in Running(clock)
    BY <1>1, <1>2, QueueHeadTail, WeightsType
  <1>4. ts \in Seq(Running(clock))
    BY <1>3
  <1>5. \A m \in Metrics, w \in Weights :
          InQueue(queue[q], m, w, clock)
            = InQueue(ts, m, w, clock) + InQueue(us, m, w, clock)
    BY <1>1, <1>2, <1>3, QueueHeadTail, QueueOfOne
  <1> HIDE DEF ts, us
  <1>6. metric' \in [Queues -> Metrics \cup {NoMetric, Destroyed}]
    BY <1>1, <1>2
  <1>7. \A r \in Queues : metric'[r] = Destroyed => queue'[r] = <<>>
    BY <1>1, <1>2
  <1> QED
    BY ONLY TypeInv, q \in Queues, <1>1, <1>3, <1>4, <1>5, <1>6, <1>7, LeaveKeeps

LEMMA DestroyKeeps ==
  ASSUME TypeInv, NEW q \in Queues, Destroy(q)
  PROVE  Keeps
  <1> DEFINE ts == queue[q]
             us == <<>>
  <1>1. /\ samples' = Observed(ts) /\ queue' = [queue EXCEPT ![q] = us]
        /\ metric' = [metric EXCEPT ![q] = Destroyed]
        /\ UNCHANGED <<clock, timer, started, busy>>
    BY DEF Destroy
  <1>2. /\ clock \in Durations /\ ts \in Seq(Running(clock)) /\ DOMAIN queue = Queues
        /\ metric \in [Queues -> Metrics \cup {NoMetric, Destroyed}]
        /\ \A r \in Queues : metric[r] = Destroyed => queue[r] = <<>>
    BY DEF TypeInv, AllQueues
  <1>3. us \in Seq(Running(clock))
    OBVIOUS
  <1>4. \A m \in Metrics, w \in Weights :
          InQueue(queue[q], m, w, clock)
            = InQueue(ts, m, w, clock) + InQueue(us, m, w, clock)
    BY <1>2, EmptyQueue, InQueueType
  <1>5. \A r \in Queues : metric'[r] = Destroyed => queue'[r] = <<>>
    BY <1>1, <1>2
  <1>6. metric' \in [Queues -> Metrics \cup {NoMetric, Destroyed}]
    BY <1>1, <1>2
  <1>7. ts \in Seq(Running(clock))
    BY <1>2
  <1>8. /\ samples' = Observed(ts) /\ queue' = [queue EXCEPT ![q] = us]
        /\ UNCHANGED <<clock, timer, started, busy>>
    BY <1>1
  <1> HIDE DEF ts, us
  <1> QED
    BY ONLY TypeInv, q \in Queues, <1>3, <1>4, <1>5, <1>6, <1>7, <1>8, LeaveKeeps

\* The timers of `from` move to `to`, those of `to` are gone.
LEMMA Moved ==
  ASSUME TypeInv, NEW from \in Queues, NEW to \in Queues, from # to
  PROVE  LET qv == [queue EXCEPT ![from] = <<>>, ![to] = queue[from]]
         IN  /\ qv \in AllQueues(clock)
             /\ qv[from] = <<>> /\ qv[to] = queue[from]
             /\ \A r \in Queues \ {from, to} : qv[r] = queue[r]
             /\ \A m \in Metrics, w \in Weights :
                  InQueues(qv, m, w, clock)
                    = InQueues(queue, m, w, clock) - InQueue(queue[to], m, w, clock)
  <1> DEFINE left == [queue EXCEPT ![from] = <<>>]
             qv == [left EXCEPT ![to] = queue[from]]
  <1>1. [queue EXCEPT ![from] = <<>>, ![to] = queue[from]] = qv
    OBVIOUS
  <1>2. /\ clock \in Durations /\ queue \in AllQueues(clock) /\ DOMAIN queue = Queues
        /\ queue[from] \in Seq(Running(clock)) /\ queue[to] \in Seq(Running(clock))
        /\ <<>> \in Seq(Running(clock))
    BY DEF TypeInv, AllQueues
  <1>0. Becomes(left, queue, from, <<>>) /\ Becomes(qv, left, to, queue[from])
    BY DEF Becomes
  <1>3. left \in AllQueues(clock) /\ left[to] = queue[to]
    <2>1. left[to] = queue[to]
      BY <1>2
    <2> HIDE DEF left
    <2> QED
      BY <1>0, <1>2, <2>1, QueueChanged, WeightsType
  <1>4. /\ qv[from] = <<>> /\ qv[to] = queue[from]
        /\ \A r \in Queues \ {from, to} : qv[r] = queue[r]
    BY <1>2
  <1>5. ASSUME NEW m \in Metrics, NEW w \in Weights
        PROVE  InQueues(left, m, w, clock)
                 = InQueues(queue, m, w, clock) - InQueue(queue[from], m, w, clock)
    <2>1. InQueues(left, m, w, clock)
            = InQueues(queue, m, w, clock) - InQueue(queue[from], m, w, clock)
                + InQueue(<<>>, m, w, clock)
      <3> DEFINE us == <<>>
      <3>1. us \in Seq(Running(clock)) /\ Becomes(left, queue, from, us)
        BY <1>0
      <3>2. clock \in Durations /\ queue \in AllQueues(clock)
        BY <1>2
      <3> HIDE DEF us, left
      <3>3. InQueues(left, m, w, clock)
              = InQueues(queue, m, w, clock) - InQueue(queue[from], m, w, clock)
                  + InQueue(us, m, w, clock)
        BY ONLY <3>1, <3>2, QueueChanged, from \in Queues, m \in Metrics, w \in Weights
      <3> QED
        BY <3>3 DEF us
    <2>2. /\ InQueues(queue, m, w, clock) \in Nat
          /\ InQueue(queue[from], m, w, clock) \in Nat
          /\ InQueue(<<>>, m, w, clock) = 0
      BY <1>2, HeldParts, InQueueType, EmptyQueue
    <2> HIDE DEF left
    <2> QED
      BY <2>1, <2>2
  <1> HIDE DEF left
  <1>6. qv \in AllQueues(clock)
    <2> HIDE DEF qv
    <2> QED
      BY <1>0, <1>2, <1>3, QueueChanged, WeightsType
  <1>7. ASSUME NEW m \in Metrics, NEW w \in Weights
        PROVE  InQueues(qv, m, w, clock)
                 = InQueues(queue, m, w, clock) - InQueue(queue[to], m, w, clock)
    <2>1. InQueues(qv, m, w, clock)
            = InQueues(left, m, w, clock) - InQueue(queue[to], m, w, clock)
                + InQueue(queue[from], m, w, clock)
      <3> HIDE DEF qv
      <3>1. left[to] = queue[to] /\ left \in AllQueues(clock) /\ clock \in Durations
            /\ queue[from] \in Seq(Running(clock)) /\ Becomes(qv, left, to, queue[from])
        BY <1>0, <1>2, <1>3
      <3> QED
        BY ONLY <3>1, QueueChanged, to \in Queues, m \in Metrics, w \in Weights
    <2>2. /\ InQueues(queue, m, w, clock) \in Nat
          /\ InQueue(queue[from], m, w, clock) \in Nat
          /\ InQueue(queue[to], m, w, clock) \in Nat
      BY <1>2, HeldParts, InQueueType
    <2> HIDE DEF qv
    <2> QED
      BY <1>5, <2>1, <2>2
  <1> HIDE DEF qv
  <1> QED
    BY <1>1, <1>4, <1>6, <1>7

LEMMA MoveConstructKeeps ==
  ASSUME TypeInv, NEW from \in Queues, NEW to \in Queues, MoveConstruct(from, to)
  PROVE  Keeps
  <1> DEFINE qv == [queue EXCEPT ![from] = <<>>, ![to] = queue[from]]
  <1>1. /\ metric[from] # Destroyed /\ metric[to] = Destroyed /\ from # to
        /\ metric' = [metric EXCEPT ![to] = metric[from]] /\ queue' = qv
        /\ UNCHANGED <<clock, timer, samples, started, busy>>
    BY DEF MoveConstruct
  <1>2. /\ qv \in AllQueues(clock)
        /\ qv[from] = <<>> /\ qv[to] = queue[from]
        /\ \A r \in Queues \ {from, to} : qv[r] = queue[r]
        /\ \A m \in Metrics, w \in Weights :
             InQueues(qv, m, w, clock)
               = InQueues(queue, m, w, clock) - InQueue(queue[to], m, w, clock)
    BY <1>1, Moved
  <1> HIDE DEF qv
  <1>3. TypeInv'
    <2>1. \A r \in Queues : metric'[r] = Destroyed => queue'[r] = <<>>
      BY <1>1, <1>2 DEF TypeInv
    <2> QED
      BY <1>1, <1>2, <2>1 DEF TypeInv
  <1>4. ASSUME NEW m \in Metrics, NEW w \in Weights
        PROVE  Held(m, w)' = Held(m, w)
    <2>1. queue[to] = <<>>
      BY <1>1 DEF TypeInv
    <2>2. InQueues(queue', m, w, clock) = InQueues(queue, m, w, clock)
      BY <1>1, <1>2, <2>1, EmptyQueue, HeldParts
    <2> QED
      BY <1>1, <2>2 DEF Held, Pending
  <1> QED
    BY <1>3, <1>4 DEF Keeps

LEMMA MoveAssignKeeps ==
  ASSUME TypeInv, NEW from \in Queues, NEW to \in Queues, MoveAssign(from, to)
  PROVE  Keeps
  <1> DEFINE qv == [queue EXCEPT ![from] = <<>>, ![to] = queue[from]]
             ts == queue[to]
  <1>1. /\ metric[from] # Destroyed /\ metric[to] # Destroyed /\ from # to
        /\ metric' = [metric EXCEPT ![to] = metric[from]] /\ queue' = qv
        /\ samples' = Observed(ts)
        /\ UNCHANGED <<clock, timer, started, busy>>
    BY DEF MoveAssign
  <1>2. /\ qv \in AllQueues(clock)
        /\ qv[from] = <<>> /\ qv[to] = queue[from]
        /\ \A r \in Queues \ {from, to} : qv[r] = queue[r]
        /\ \A m \in Metrics, w \in Weights :
             InQueues(qv, m, w, clock)
               = InQueues(queue, m, w, clock) - InQueue(ts, m, w, clock)
    BY <1>1, Moved
  <1>3. clock \in Durations /\ ts \in Seq(Running(clock))
    BY DEF TypeInv, AllQueues
  <1> HIDE DEF qv, ts
  <1>4. samples' \in [Metrics -> [Durations -> Nat]]
    BY <1>1, <1>3, Observing
  <1>5. TypeInv'
    <2>1. \A r \in Queues : metric'[r] = Destroyed => queue'[r] = <<>>
      BY <1>1, <1>2 DEF TypeInv
    <2> QED
      BY <1>1, <1>2, <1>4, <2>1 DEF TypeInv
  <1>6. ASSUME NEW m \in Metrics, NEW w \in Weights
        PROVE  Held(m, w)' = Held(m, w)
    <2>1. Weighed(samples'[m], w) = Weighed(samples[m], w) + InQueue(ts, m, w, clock)
      BY <1>1, <1>3, Observing
    <2>2. InQueue(ts, m, w, clock) \in Nat
      BY <1>3, InQueueType
    <2>3. Held(m, w)' = Weighed(samples'[m], w)
                          + (InQueues(qv, m, w, clock) + InTimers(timer, m, w, clock))
      BY <1>1 DEF Held, Pending
    <2> QED
      BY <1>2, <2>1, <2>2, <2>3, HeldParts
  <1> QED
    BY <1>5, <1>6 DEF Keeps

\* The timer in t is observed, and r takes its place.
LEMMA ReplaceType ==
  ASSUME TypeInv, NEW t \in Timers, NEW r \in Running(clock)
  PROVE  /\ <<timer[t]>> \in Seq(Running(clock))
         /\ [timer EXCEPT ![t] = r] \in AllTimers(clock)
         /\ Observed(<<timer[t]>>) \in [Metrics -> [Durations -> Nat]]
         /\ \A m \in Metrics, w \in Weights :
              /\ Weighed(Observed(<<timer[t]>>)[m], w)
                   = Weighed(samples[m], w) + Part(timer[t], m, w, clock)
              /\ InTimers([timer EXCEPT ![t] = r], m, w, clock)
                   = InTimers(timer, m, w, clock) - Part(timer[t], m, w, clock)
                       + Part(r, m, w, clock)
              /\ Part(timer[t], m, w, clock) \in Nat /\ Part(r, m, w, clock) \in Nat
  <1> DEFINE o == timer[t]
             ts == <<o>>
  <1>1. clock \in Durations /\ timer \in AllTimers(clock) /\ o \in Running(clock)
    BY DEF TypeInv, AllTimers
  <1>2. ts \in Seq(Running(clock))
    BY <1>1
  <1> DEFINE tj == [timer EXCEPT ![t] = r]
  <1>0. Becomes(tj, timer, t, r)
    BY DEF Becomes
  <1>3. tj \in AllTimers(clock)
    <2> HIDE DEF tj
    <2> QED
      BY <1>0, <1>1, TimerChanged, WeightsType
  <1>4. ASSUME NEW m \in Metrics, NEW w \in Weights
        PROVE  /\ Weighed(Observed(ts)[m], w)
                    = Weighed(samples[m], w) + Part(o, m, w, clock)
               /\ InTimers(tj, m, w, clock)
                    = InTimers(timer, m, w, clock) - Part(o, m, w, clock)
                        + Part(r, m, w, clock)
               /\ Part(o, m, w, clock) \in Nat /\ Part(r, m, w, clock) \in Nat
    <2>1. InQueue(ts, m, w, clock) = Part(o, m, w, clock)
      <3> HIDE DEF o
      <3> QED
        BY <1>1, QueueOfOne
    <2>2. Weighed(Observed(ts)[m], w) = Weighed(samples[m], w) + InQueue(ts, m, w, clock)
      <3> HIDE DEF ts
      <3> QED
        BY <1>2, Observing
    <2>3. InTimers(tj, m, w, clock)
            = InTimers(timer, m, w, clock) - Part(timer[t], m, w, clock) + Part(r, m, w, clock)
      <3>1. clock \in Durations /\ timer \in AllTimers(clock)
        BY <1>1
      <3> HIDE DEF tj
      <3> QED
        BY ONLY <1>0, <3>1, TimerChanged, t \in Timers, r \in Running(clock),
                m \in Metrics, w \in Weights
    <2>4. Part(o, m, w, clock) \in Nat /\ Part(r, m, w, clock) \in Nat
      BY <1>1, PartType
    <2> HIDE DEF ts, tj
    <2>5. InTimers(tj, m, w, clock)
            = InTimers(timer, m, w, clock) - Part(o, m, w, clock) + Part(r, m, w, clock)
      BY <2>3
    <2> HIDE DEF o
    <2> QED
      BY <2>1, <2>2, <2>4, <2>5
  <1>5. Observed(ts) \in [Metrics -> [Durations -> Nat]]
    <2> HIDE DEF ts
    <2> QED
      BY <1>2, Observing
  <1> QED
    BY <1>2, <1>3, <1>4, <1>5

LEMMA ResetStarts ==
  ASSUME TypeInv, NEW t \in Timers, NEW p \in Metrics \cup {NoMetric}, Reset(t, p)
  PROVE  StartsFor(p)
  <1> DEFINE r == StartedFor(p)
             tj == [timer EXCEPT ![t] = r]
  <1>1. /\ MayStart /\ Increment(p) /\ samples' = Observed(<<timer[t]>>) /\ timer' = tj
        /\ UNCHANGED <<clock, metric, queue, busy>>
    BY DEF Reset
  <1>2. r \in Running(clock)
    BY StartedType
  <1> HIDE DEF r
  <1>3. /\ tj \in AllTimers(clock)
        /\ samples' \in [Metrics -> [Durations -> Nat]]
        /\ \A m \in Metrics, w \in Weights :
             /\ Weighed(samples'[m], w)
                  = Weighed(samples[m], w) + Part(timer[t], m, w, clock)
             /\ InTimers(tj, m, w, clock)
                  = InTimers(timer, m, w, clock) - Part(timer[t], m, w, clock)
                      + Part(r, m, w, clock)
             /\ Part(timer[t], m, w, clock) \in Nat /\ Part(r, m, w, clock) \in Nat
    BY <1>1, <1>2, ReplaceType
  <1> HIDE DEF tj
  <1>4. started' \in [Metrics \cup {NoMetric} -> 0..MaxStarts]
    BY <1>1, MayStartOne
  <1>5. TypeInv'
    BY <1>1, <1>3, <1>4 DEF TypeInv
  <1>6. ASSUME NEW m \in Metrics, NEW w \in Weights
        PROVE  Held(m, w)' = Held(m, w) + (IF p = m THEN w[0] ELSE 0)
    <2>1. Part(r, m, w, clock) = IF p = m THEN w[0] ELSE 0
      BY StartedType DEF r
    <2>2. Held(m, w)' = Weighed(samples'[m], w)
                          + (InQueues(queue, m, w, clock) + InTimers(tj, m, w, clock))
      BY <1>1 DEF Held, Pending
    <2>3. Held(m, w)' = Held(m, w) + Part(r, m, w, clock)
      BY <1>3, <2>2, HeldParts
    <2> QED
      BY <2>1, <2>3
  <1> QED
    BY <1>5, <1>6 DEF StartsFor

LEMMA DestroyTimerKeeps ==
  ASSUME TypeInv, NEW t \in Timers, DestroyTimer(t)
  PROVE  Keeps
  <1> DEFINE r == Idle
             tj == [timer EXCEPT ![t] = r]
  <1>1. /\ samples' = Observed(<<timer[t]>>) /\ timer' = tj
        /\ UNCHANGED <<clock, metric, queue, started, busy>>
    BY DEF DestroyTimer
  <1>2. r \in Running(clock) /\ \A m \in Metrics, w \in Weights : Part(r, m, w, clock) = 0
    BY StartedType
  <1> HIDE DEF r
  <1>3. /\ tj \in AllTimers(clock)
        /\ samples' \in [Metrics -> [Durations -> Nat]]
        /\ \A m \in Metrics, w \in Weights :
             /\ Weighed(samples'[m], w)
                  = Weighed(samples[m], w) + Part(timer[t], m, w, clock)
             /\ InTimers(tj, m, w, clock)
                  = InTimers(timer, m, w, clock) - Part(timer[t], m, w, clock)
                      + Part(r, m, w, clock)
             /\ Part(timer[t], m, w, clock) \in Nat
    BY <1>1, <1>2, ReplaceType
  <1> HIDE DEF tj
  <1>4. TypeInv'
    BY <1>1, <1>3 DEF TypeInv
  <1>5. ASSUME NEW m \in Metrics, NEW w \in Weights
        PROVE  Held(m, w)' = Held(m, w)
    <2>1. Part(r, m, w, clock) = 0
      BY <1>2
    <2>2. Held(m, w)' = Weighed(samples'[m], w)
                          + (InQueues(queue, m, w, clock) + InTimers(tj, m, w, clock))
      BY <1>1 DEF Held, Pending
    <2> QED
      BY <1>3, <2>1, <2>2, HeldParts
  <1> QED
    BY <1>4, <1>5 DEF Keeps

LEMMA MoveTimerKeeps ==
  ASSUME TypeInv, NEW from \in Timers, NEW to \in Timers, MoveTimer(from, to)
  PROVE  Keeps
  <1> DEFINE o == timer[from]
             put == [timer EXCEPT ![to] = o]
             tj == [put EXCEPT ![from] = Idle]
  <1>1. /\ from # to /\ samples' = Observed(<<timer[to]>>)
        /\ UNCHANGED <<clock, metric, queue, started, busy>>
    BY DEF MoveTimer
  <1>2. clock \in Durations /\ timer \in AllTimers(clock) /\ o \in Running(clock)
    BY DEF TypeInv, AllTimers
  <1>3. timer' = tj /\ put[from] = o
    BY <1>1, <1>2 DEF MoveTimer, AllTimers
  <1>4. /\ Idle \in Running(clock)
        /\ \A m \in Metrics, w \in Weights : Part(Idle, m, w, clock) = 0
    BY StartedType
  <1> HIDE DEF o
  <1>5. /\ put \in AllTimers(clock)
        /\ samples' \in [Metrics -> [Durations -> Nat]]
        /\ \A m \in Metrics, w \in Weights :
             /\ Weighed(samples'[m], w)
                  = Weighed(samples[m], w) + Part(timer[to], m, w, clock)
             /\ InTimers(put, m, w, clock)
                  = InTimers(timer, m, w, clock) - Part(timer[to], m, w, clock)
                      + Part(o, m, w, clock)
             /\ Part(timer[to], m, w, clock) \in Nat /\ Part(o, m, w, clock) \in Nat
    BY <1>1, <1>2, ReplaceType
  <1> HIDE DEF put
  <1>6. /\ tj \in AllTimers(clock)
        /\ \A m \in Metrics, w \in Weights :
             InTimers(tj, m, w, clock) = InTimers(put, m, w, clock)
                 - Part(put[from], m, w, clock) + Part(Idle, m, w, clock)
    <2> DEFINE r == Idle
    <2>1. clock \in Durations /\ r \in Running(clock) /\ put \in AllTimers(clock)
      BY <1>2, <1>4, <1>5
    <2>2. Becomes(tj, put, from, r)
      BY DEF Becomes
    <2> HIDE DEF r, tj
    <2>3. ASSUME NEW m \in Metrics, NEW w \in Weights
          PROVE  /\ tj \in AllTimers(clock)
                 /\ InTimers(tj, m, w, clock) = InTimers(put, m, w, clock)
                      - Part(put[from], m, w, clock) + Part(r, m, w, clock)
      BY ONLY <2>1, <2>2, TimerChanged, from \in Timers, m \in Metrics, w \in Weights
    <2>4. tj \in AllTimers(clock)
      BY <2>1, <2>2 DEF AllTimers, Becomes
    <2> QED
      BY <2>3, <2>4 DEF r
  <1> HIDE DEF tj
  <1>7. TypeInv'
    BY <1>1, <1>3, <1>5, <1>6 DEF TypeInv
  <1>8. ASSUME NEW m \in Metrics, NEW w \in Weights
        PROVE  Held(m, w)' = Held(m, w)
    <2>1. InTimers(tj, m, w, clock) = InTimers(timer, m, w, clock)
                                        - Part(timer[to], m, w, clock)
      <3>1. InTimers(tj, m, w, clock) = InTimers(put, m, w, clock) - Part(o, m, w, clock) + 0
        BY <1>3, <1>4, <1>6
      <3> QED
        BY <1>5, <3>1, HeldParts
    <2>2. Held(m, w)' = Weighed(samples'[m], w)
                          + (InQueues(queue, m, w, clock) + InTimers(tj, m, w, clock))
      BY <1>1, <1>3 DEF Held, Pending
    <2> QED
      BY <1>5, <2>1, <2>2, HeldParts
  <1> QED
    BY <1>7, <1>8 DEF Keeps

-----------------------------------------------------------------------------
(* Time passes *)

\* From one unit of time to the next, the weight v becomes w, which is u more.
Grows(w, v, u, c) == \A d \in 0..c : w[d + 1] = v[d] + u[d]

LEMMA PartAged ==
  ASSUME NEW c \in Durations, c + 1 \in Durations, NEW t \in Running(c),
         NEW w \in Weights, NEW v \in Weights, NEW u \in Weights,
         Grows(w, v, u, c), NEW m
  PROVE  /\ t \in Running(c + 1)
         /\ Part(t, m, w, c + 1) = Part(t, m, v, c) + Part(t, m, u, c)
  <1>1. c \in Nat /\ t.since \in 0..c /\ t \in Running(c + 1)
    BY DurationsFinite DEF Running
  <1>2. c - t.since \in 0..c /\ c + 1 - t.since = (c - t.since) + 1
    BY <1>1
  <1>3. w[c + 1 - t.since] = v[c - t.since] + u[c - t.since]
    BY <1>2 DEF Grows
  <1> QED
    BY <1>1, <1>3 DEF Part

LEMMA QueueAged ==
  ASSUME NEW c \in Durations, c + 1 \in Durations, NEW ts \in Seq(Running(c)),
         NEW w \in Weights, NEW v \in Weights, NEW u \in Weights,
         Grows(w, v, u, c), NEW m
  PROVE  /\ ts \in Seq(Running(c + 1))
         /\ InQueue(ts, m, w, c + 1) = InQueue(ts, m, v, c) + InQueue(ts, m, u, c)
  <1> DEFINE S == DOMAIN ts
             f == [i \in S |-> Part(ts[i], m, v, c)]
             g == [i \in S |-> Part(ts[i], m, u, c)]
             h == [i \in S |-> Part(ts[i], m, w, c + 1)]
  <1>1. IsFiniteSet(S) /\ \A i \in S : ts[i] \in Running(c)
    BY QueueType
  <1>2. \A i \in S : ts[i] \in Running(c + 1)
    BY <1>1, PartAged
  <1>3. ts \in Seq(Running(c + 1))
    BY <1>2
  <1>4. \A i \in S : f[i] \in Int /\ g[i] \in Int
    BY <1>1, PartType
  <1>5. \A i \in S : h[i] = f[i] + g[i]
    BY <1>1, PartAged
  <1> HIDE DEF f, g, h
  <1>6. Total(h, S) = Total(f, S) + Total(g, S)
    <2> HIDE DEF S
    <2> QED
      BY <1>1, <1>4, <1>5, TotalPlus
  <1> QED
    BY <1>3, <1>6 DEF InQueue, f, g, h

LEMMA PendingAged ==
  ASSUME NEW c \in Durations, c + 1 \in Durations,
         NEW qu \in AllQueues(c), NEW ti \in AllTimers(c),
         NEW w \in Weights, NEW v \in Weights, NEW u \in Weights,
         Grows(w, v, u, c), NEW m
  PROVE  /\ qu \in AllQueues(c + 1) /\ ti \in AllTimers(c + 1)
         /\ Pending(qu, ti, m, w, c + 1) = Pending(qu, ti, m, v, c) + Pending(qu, ti, m, u, c)
  <1>1. /\ IsFiniteSet(Queues) /\ IsFiniteSet(Timers)
        /\ \A q \in Queues : qu[q] \in Seq(Running(c))
        /\ \A t \in Timers : ti[t] \in Running(c)
    BY MetricAssumption DEF AllQueues, AllTimers
  <1>2. InQueues(qu, m, w, c + 1) = InQueues(qu, m, v, c) + InQueues(qu, m, u, c)
    <2> DEFINE f == [q \in Queues |-> InQueue(qu[q], m, v, c)]
               g == [q \in Queues |-> InQueue(qu[q], m, u, c)]
               h == [q \in Queues |-> InQueue(qu[q], m, w, c + 1)]
    <2>1. \A q \in Queues : f[q] \in Int /\ g[q] \in Int
      BY <1>1, InQueueType
    <2>2. \A q \in Queues : h[q] = f[q] + g[q]
      BY <1>1, QueueAged
    <2> HIDE DEF f, g, h
    <2>3. Total(h, Queues) = Total(f, Queues) + Total(g, Queues)
      BY <1>1, <2>1, <2>2, TotalPlus
    <2> QED
      BY <2>3 DEF InQueues, f, g, h
  <1>3. InTimers(ti, m, w, c + 1) = InTimers(ti, m, v, c) + InTimers(ti, m, u, c)
    <2> DEFINE f == [t \in Timers |-> Part(ti[t], m, v, c)]
               g == [t \in Timers |-> Part(ti[t], m, u, c)]
               h == [t \in Timers |-> Part(ti[t], m, w, c + 1)]
    <2>1. \A t \in Timers : f[t] \in Int /\ g[t] \in Int
      BY <1>1, PartType
    <2>2. \A t \in Timers : h[t] = f[t] + g[t]
      BY <1>1, PartAged
    <2> HIDE DEF f, g, h
    <2>3. Total(h, Timers) = Total(f, Timers) + Total(g, Timers)
      BY <1>1, <2>1, <2>2, TotalPlus
    <2> QED
      BY <2>3 DEF InTimers, f, g, h
  <1>4. qu \in AllQueues(c + 1)
    <2>1. \A q \in Queues : qu[q] \in Seq(Running(c + 1))
      BY <1>1, QueueAged
    <2> QED
      BY <2>1 DEF AllQueues
  <1>5. ti \in AllTimers(c + 1)
    <2>1. \A t \in Timers : ti[t] \in Running(c + 1)
      BY <1>1, PartAged
    <2> QED
      BY <2>1 DEF AllTimers
  <1>6. /\ InQueues(qu, m, v, c) \in Nat /\ InQueues(qu, m, u, c) \in Nat
        /\ InTimers(ti, m, v, c) \in Nat /\ InTimers(ti, m, u, c) \in Nat
    BY PendingType
  <1> QED
    BY <1>2, <1>3, <1>4, <1>5, <1>6 DEF Pending

Nothing == [d \in Durations |-> 0]

LEMMA NothingPending ==
  ASSUME NEW c \in Durations, NEW qu \in AllQueues(c), NEW ti \in AllTimers(c), NEW m
  PROVE  Pending(qu, ti, m, Nothing, c) = 0 /\ Nothing \in Weights
  <1>1. Nothing \in Weights /\ \A t \in Running(c) : Part(t, m, Nothing, c) = 0
    BY PartType, WeightsType DEF Nothing, Weights, Part
  <1>2. ASSUME NEW ts \in Seq(Running(c)) PROVE InQueue(ts, m, Nothing, c) = 0
    <2> DEFINE f == [i \in DOMAIN ts |-> Part(ts[i], m, Nothing, c)]
    <2>1. IsFiniteSet(DOMAIN ts) /\ \A i \in DOMAIN ts : f[i] = 0
      BY <1>1, QueueType
    <2> HIDE DEF f
    <2>2. Total(f, DOMAIN ts) = 0
      BY <2>1, TotalZero
    <2> QED
      BY <2>2 DEF InQueue, f
  <1> DEFINE g == [q \in Queues |-> InQueue(qu[q], m, Nothing, c)]
             h == [t \in Timers |-> Part(ti[t], m, Nothing, c)]
  <1>3. \A q \in Queues : g[q] = 0
    BY <1>2 DEF AllQueues
  <1>4. \A t \in Timers : h[t] = 0
    BY <1>1 DEF AllTimers
  <1> HIDE DEF g, h
  <1>5. Total(g, Queues) = 0 /\ Total(h, Timers) = 0
    BY <1>3, <1>4, MetricAssumption, TotalZero
  <1> QED
    BY <1>1, <1>5 DEF Pending, InQueues, InTimers, g, h

\* A tick ages what runs by one, and is all the time that metrics are busy.
LEMMA TickAges ==
  ASSUME TypeInv, Tick
  PROVE  /\ TypeInv'
         /\ \A m \in Metrics :
              /\ Held(m, One)' = Held(m, One)
              /\ Held(m, Time)' = Held(m, Time) + Cardinality(RunningFor(m))
              /\ busy'[m] = busy[m] + Cardinality(RunningFor(m))
  <1>1. /\ clock \in Durations /\ clock' = clock + 1 /\ clock + 1 \in Durations
        /\ queue \in AllQueues(clock) /\ timer \in AllTimers(clock)
        /\ busy' = [m \in Metrics |-> busy[m] + Cardinality(RunningFor(m))]
        /\ UNCHANGED <<metric, queue, timer, samples, started>>
    BY MetricAssumption DEF TypeInv, Tick, Durations
  <1>2. \A d \in 0..clock : d \in Durations /\ d + 1 \in Durations
    BY <1>1, MetricAssumption DEF Durations
  <1>3. Grows(One, One, Nothing, clock) /\ Grows(Time, Time, One, clock)
    BY <1>2 DEF Grows, One, Time, Nothing
  <1>4. ASSUME NEW m \in Metrics
        PROVE  /\ Cardinality(RunningFor(m)) = Pending(queue, timer, m, One, clock)
               /\ Cardinality(RunningFor(m)) \in Nat
    BY RunningCount
  <1>5. queue \in AllQueues(clock + 1) /\ timer \in AllTimers(clock + 1)
    BY <1>1, <1>3, WeightsType, NothingPending, PendingAged
  <1>6. TypeInv'
    <2>1. busy' \in [Metrics -> Nat]
      BY <1>1, <1>4 DEF TypeInv
    <2> QED
      BY <1>1, <1>5, <2>1 DEF TypeInv
  <1>7. ASSUME NEW m \in Metrics
        PROVE  /\ Held(m, One)' = Held(m, One)
               /\ Held(m, Time)' = Held(m, Time) + Cardinality(RunningFor(m))
    <2>1. Pending(queue, timer, m, One, clock + 1) = Pending(queue, timer, m, One, clock)
      <3>1. Pending(queue, timer, m, One, clock + 1)
              = Pending(queue, timer, m, One, clock) + Pending(queue, timer, m, Nothing, clock)
        BY <1>1, <1>3, WeightsType, NothingPending, PendingAged
      <3> QED
        BY <1>1, <1>4, <3>1, NothingPending
    <2>2. Pending(queue, timer, m, Time, clock + 1)
            = Pending(queue, timer, m, Time, clock) + Pending(queue, timer, m, One, clock)
      BY <1>1, <1>3, WeightsType, PendingAged
    <2>3. /\ Held(m, One)' = Weighed(samples[m], One) + Pending(queue, timer, m, One, clock + 1)
          /\ Held(m, Time)'
               = Weighed(samples[m], Time) + Pending(queue, timer, m, Time, clock + 1)
      BY <1>1 DEF Held
    <2>4. Weighed(samples[m], Time) \in Nat /\ Pending(queue, timer, m, Time, clock) \in Nat
      BY <1>1, HeldParts, WeightsType, PendingType DEF Pending
    <2> QED
      BY <1>4, <2>1, <2>2, <2>3, <2>4 DEF Held
  <1> QED
    BY <1>1, <1>6, <1>7

-----------------------------------------------------------------------------
(* The invariant is inductive *)

LEMMA IInvInit == ASSUME Init PROVE IInv
  <1>1. /\ clock = 0 /\ metric = [q \in Queues |-> Destroyed]
        /\ queue = [q \in Queues |-> <<>>] /\ timer = [t \in Timers |-> Idle]
        /\ samples = [m \in Metrics |-> [d \in Durations |-> 0]]
        /\ started = [m \in Metrics \cup {NoMetric} |-> 0]
        /\ busy = [m \in Metrics |-> 0]
    BY DEF Init
  <1>2. TypeInv
    <2>1. clock \in Durations
      BY <1>1, DurationsFinite
    <2>2. Idle \in Running(clock)
      BY <1>1 DEF Idle, Running
    <2>3. queue \in AllQueues(clock) /\ timer \in AllTimers(clock)
      BY <1>1, <2>2 DEF AllQueues, AllTimers
    <2>4. started \in [Metrics \cup {NoMetric} -> 0..MaxStarts]
      BY <1>1, MetricAssumption
    <2> QED
      BY <1>1, <2>1, <2>3, <2>4 DEF TypeInv
  <1>3. ASSUME NEW m \in Metrics, NEW w \in Weights PROVE Held(m, w) = 0
    <2> DEFINE f == [d \in Durations |-> w[d] * samples[m][d]]
               g == [q \in Queues |-> InQueue(queue[q], m, w, clock)]
               h == [t \in Timers |-> Part(timer[t], m, w, clock)]
    <2>1. \A d \in Durations : f[d] = 0
      BY <1>1 DEF Weights
    <2>2. \A q \in Queues : g[q] = 0
      BY <1>1, EmptyQueue
    <2>3. \A t \in Timers : h[t] = 0
      BY <1>1, MetricAssumption DEF Part, Idle
    <2> HIDE DEF f, g, h
    <2>4. Total(f, Durations) = 0 /\ Total(g, Queues) = 0 /\ Total(h, Timers) = 0
      BY <2>1, <2>2, <2>3, DurationsFinite, MetricAssumption, TotalZero
    <2> QED
      BY <2>4 DEF Held, Pending, InQueues, InTimers, Weighed, f, g, h
  <1>4. HeldInv
    BY <1>1, <1>3, WeightsType DEF HeldInv
  <1> QED
    BY <1>2, <1>4 DEF IInv

LEMMA KeptInv ==
  ASSUME IInv, Keeps, UNCHANGED <<started, busy>>
  PROVE  IInv'
  BY WeightsType DEF IInv, HeldInv, Keeps

LEMMA StartedInv ==
  ASSUME IInv, NEW p \in Metrics \cup {NoMetric}, StartsFor(p), Increment(p), UNCHANGED busy
  PROVE  IInv'
  <1>1. TypeInv'
    BY DEF StartsFor
  <1>2. ASSUME NEW m \in Metrics
        PROVE  started'[m] = Held(m, One)' /\ busy'[m] = Held(m, Time)'
    <2>1. One[0] = 1 /\ Time[0] = 0
      BY DurationsFinite DEF One, Time
    <2>2. /\ Held(m, One)' = Held(m, One) + (IF p = m THEN 1 ELSE 0)
          /\ Held(m, Time)' = Held(m, Time) + 0
      BY <2>1, WeightsType DEF StartsFor
    <2>3. started'[m] = started[m] + (IF p = m THEN 1 ELSE 0) /\ busy'[m] = busy[m] + 0
      BY DEF Increment, IInv, TypeInv
    <2> QED
      BY <2>2, <2>3 DEF IInv, HeldInv
  <1> QED
    BY <1>1, <1>2 DEF IInv, HeldInv

LEMMA IInvNext == ASSUME IInv, [Next]_vars PROVE IInv'
  <1>0. TypeInv /\ HeldInv
    BY DEF IInv
  <1>1. ASSUME NEW q \in Queues, NEW m \in Metrics \cup {NoMetric}, Construct(q, m)
        PROVE  IInv'
    BY <1>0, <1>1, ConstructKeeps, KeptInv DEF Construct
  <1>2. ASSUME NEW q \in Queues, Push(q) PROVE IInv'
    <2>1. metric[q] \in Metrics \cup {NoMetric}
      BY <1>0, <1>2 DEF Push, TypeInv
    <2>2. Increment(metric[q]) /\ UNCHANGED busy
      BY <1>2 DEF Push
    <2>3. StartsFor(metric[q])
      BY <1>0, <1>2, PushStarts
    <2> QED
      BY <2>1, <2>2, <2>3, StartedInv
  <1>3. ASSUME NEW q \in Queues, Pop(q) PROVE IInv'
    BY <1>0, <1>3, PopKeeps, KeptInv DEF Pop
  <1>4. ASSUME NEW q \in Queues, Destroy(q) PROVE IInv'
    BY <1>0, <1>4, DestroyKeeps, KeptInv DEF Destroy
  <1>5. ASSUME NEW p \in Queues, NEW q \in Queues, MoveConstruct(p, q) PROVE IInv'
    BY <1>0, <1>5, MoveConstructKeeps, KeptInv DEF MoveConstruct
  <1>6. ASSUME NEW p \in Queues, NEW q \in Queues, MoveAssign(p, q) PROVE IInv'
    BY <1>0, <1>6, MoveAssignKeeps, KeptInv DEF MoveAssign
  <1>7. ASSUME NEW t \in Timers, NEW m \in Metrics \cup {NoMetric}, Reset(t, m)
        PROVE  IInv'
    <2>1. Increment(m) /\ UNCHANGED busy
      BY <1>7 DEF Reset
    <2>2. StartsFor(m)
      BY <1>0, <1>7, ResetStarts
    <2> QED
      BY <2>1, <2>2, StartedInv
  <1>8. ASSUME NEW t \in Timers, DestroyTimer(t) PROVE IInv'
    BY <1>0, <1>8, DestroyTimerKeeps, KeptInv DEF DestroyTimer
  <1>9. ASSUME NEW u \in Timers, NEW t \in Timers, MoveTimer(u, t) PROVE IInv'
    BY <1>0, <1>9, MoveTimerKeeps, KeptInv DEF MoveTimer
  <1>10. CASE Tick
    <2>1. /\ TypeInv'
          /\ \A m \in Metrics : /\ Held(m, One)' = Held(m, One)
                                /\ Held(m, Time)' = Held(m, Time) + Cardinality(RunningFor(m))
                                /\ busy'[m] = busy[m] + Cardinality(RunningFor(m))
      BY <1>0, <1>10, TickAges
    <2>2. UNCHANGED started
      BY <1>10 DEF Tick
    <2>3. HeldInv'
      BY <1>0, <2>1, <2>2 DEF HeldInv
    <2> QED
      BY <2>1, <2>3 DEF IInv
  <1>11. ASSUME UNCHANGED <<clock, metric, queue, timer, samples, started, busy>>
         PROVE  IInv'
    BY <1>0, <1>11 DEF IInv, TypeInv, HeldInv, Held
  <1>13. CASE UNCHANGED vars
    BY <1>11, <1>13 DEF vars
  <1>14. CASE Next
    BY <1>1, <1>2, <1>3, <1>4, <1>5, <1>6, <1>7, <1>8, <1>9, <1>10, <1>14 DEF Next
  <1> QED
    BY <1>13, <1>14

\* Whatever the operations of TimedQueue and Timer do to it, the inductive
\* invariant holds: what was started, and the time spent, is what the metrics
\* hold and what the timers that run will give them.
THEOREM Invariance == Spec => []IInv
  <1>1. Init => IInv
    BY IInvInit
  <1>2. IInv /\ [Next]_vars => IInv'
    BY IInvNext
  <1> QED
    BY <1>1, <1>2, PTL DEF Spec

\* What a metric counts and sums up are the two ways to weigh what it observed.
LEMMA CountAndSum ==
  ASSUME TypeInv, NEW m \in Metrics
  PROVE  Count(m) = Weighed(samples[m], One) /\ Sum(m) = Weighed(samples[m], Time)
  <1> DEFINE s == samples[m]
             f == [d \in Durations |-> One[d] * s[d]]
  <1>1. \A d \in Durations : s[d] \in Int /\ f[d] = s[d]
    BY DEF TypeInv, One
  <1>2. [d \in Durations |-> d * s[d]] = [d \in Durations |-> Time[d] * s[d]]
    BY DEF Time
  <1> HIDE DEF f, s
  <1>3. Total(f, Durations) = Total(s, Durations)
    BY <1>1, DurationsFinite, TotalSame
  <1> QED
    BY <1>2, <1>3 DEF Count, Sum, Weighed, f, s

LEMMA HeldCount ==
  ASSUME IInv, NEW m \in Metrics
  PROVE  /\ started[m] = Count(m) + Cardinality(RunningFor(m))
         /\ busy[m] = Sum(m) + Total([r \in RunningFor(m) |-> Age(r)], RunningFor(m))
  <1>1. TypeInv /\ started[m] = Held(m, One) /\ busy[m] = Held(m, Time)
    BY DEF IInv, HeldInv
  <1>2. Count(m) = Weighed(samples[m], One) /\ Sum(m) = Weighed(samples[m], Time)
    BY <1>1, CountAndSum
  <1>3. Cardinality(RunningFor(m)) = Pending(queue, timer, m, One, clock)
    BY <1>1, RunningCount
  <1>4. Total([r \in RunningFor(m) |-> Age(r)], RunningFor(m))
          = Pending(queue, timer, m, Time, clock)
    BY <1>1, RunningAges
  <1> QED
    BY <1>1, <1>2, <1>3, <1>4 DEF Held

\* TimedQueue, Timer: whatever the queues, timers and metrics, a running timer
\* never started later than now, so no observed duration is negative, and each
\* is among those the metric counts.
THEOREM TypeCorrect == Spec => []TypeOK
  <1>1. IInv => TypeOK
    BY TypeInvOK DEF IInv
  <1> QED
    BY <1>1, Invariance, PTL

\* Timer::reset, ~ScopeTimer and the moves of TimedQueue.h and Timer.h: any
\* number of timers, pushed, popped, moved, assigned over, reset or abandoned
\* in any order, are each observed once and by the metric they started for.
THEOREM EveryTimerOnce == Spec => []ObservedOnce
  <1>1. IInv => ObservedOnce
    BY HeldCount DEF ObservedOnce
  <1> QED
    BY <1>1, Invariance, PTL

\* The same for the time they measure: what the metrics summed up and the ages
\* of the timers that run are all the time that timers ran, however they moved.
THEOREM NoTimeLost == Spec => []TimeConserved
  <1>1. IInv => TimeConserved
    BY HeldCount DEF TimeConserved
  <1> QED
    BY <1>1, Invariance, PTL

-----------------------------------------------------------------------------
(* Powers of ten *)

PowersUpTo(g, n) ==
  /\ g \in [0..n -> Nat] /\ g[0] = 1
  /\ \A i \in 0..n : i # 0 => g[i] = 10 * g[i - 1]

LEMMA PowersExist ==
  ASSUME NEW n \in Nat
  PROVE  \E g : PowersUpTo(g, n)
  <1> DEFINE N == {k \in Nat : \E g : PowersUpTo(g, k)}
  <1>1. 0 \in N
    <2>1. PowersUpTo([i \in 0..0 |-> 1], 0)
      BY DEF PowersUpTo
    <2> QED
      BY <2>1
  <1>2. ASSUME NEW k \in N PROVE k + 1 \in N
    <2>1. PICK g : PowersUpTo(g, k)
      OBVIOUS
    <2> DEFINE h == [i \in 0..(k + 1) |-> IF i = k + 1 THEN 10 * g[k] ELSE g[i]]
    <2>2. k \in Nat /\ g[k] \in Nat
      BY <2>1 DEF PowersUpTo
    <2>3. h \in [0..(k + 1) -> Nat] /\ h[0] = 1
      BY <2>1, <2>2 DEF PowersUpTo
    <2>4. ASSUME NEW i \in 0..(k + 1), i # 0 PROVE h[i] = 10 * h[i - 1]
      <3>1. CASE i = k + 1
        BY <2>2, <3>1
      <3>2. CASE i # k + 1
        BY <2>1, <2>2, <2>4, <3>2 DEF PowersUpTo
      <3> QED
        BY <3>1, <3>2
    <2> HIDE DEF h
    <2>5. PowersUpTo(h, k + 1)
      BY <2>3, <2>4 DEF PowersUpTo
    <2> QED
      BY <2>2, <2>5
  <1> HIDE DEF N
  <1>3. N = Nat
    BY <1>1, <1>2, Induction DEF N
  <1> QED
    BY <1>3 DEF N

LEMMA PowersAgree ==
  ASSUME NEW n \in Nat, NEW g, PowersUpTo(g, n), NEW m \in Nat, NEW h, PowersUpTo(h, m),
         n <= m
  PROVE  g[n] = h[n]
  <1> DEFINE N == {i \in Nat : i <= n => g[i] = h[i]}
  <1>1. 0 \in N
    BY DEF PowersUpTo
  <1>2. ASSUME NEW i \in N PROVE i + 1 \in N
    <2> SUFFICES ASSUME i + 1 <= n PROVE g[i + 1] = h[i + 1]
      OBVIOUS
    <2>1. /\ i + 1 \in 0..n /\ i + 1 \in 0..m /\ i + 1 # 0 /\ (i + 1) - 1 = i
          /\ g[i] = h[i]
      OBVIOUS
    <2>2. g[i + 1] = 10 * g[i] /\ h[i + 1] = 10 * h[i]
      BY <2>1 DEF PowersUpTo
    <2> QED
      BY <2>1, <2>2
  <1> HIDE DEF N
  <1>3. N = Nat
    BY <1>1, <1>2, Induction DEF N
  <1> QED
    BY <1>3 DEF N

LEMMA PowerOf10Is ==
  /\ PowerOf10[0] = 1
  /\ \A n \in Nat : PowerOf10[n] \in Nat /\ PowerOf10[n + 1] = 10 * PowerOf10[n]
  <1> DEFINE p(n) == CHOOSE g : PowersUpTo(g, n)
             G == [n \in Nat |-> p(n)[n]]
  <1>1. \A n \in Nat : PowersUpTo(p(n), n)
    BY PowersExist
  <1> HIDE DEF p
  <1>2. \A n \in Nat : G[n] \in Nat /\ G[0] = 1
    BY <1>1 DEF PowersUpTo
  <1>3. ASSUME NEW n \in Nat PROVE G[n + 1] = 10 * G[n]
    <2>1. p(n)[n] = p(n + 1)[n]
      BY <1>1, PowersAgree
    <2>2. p(n + 1)[n + 1] = 10 * p(n + 1)[n]
      <3>1. n + 1 \in 0..(n + 1) /\ n + 1 # 0 /\ (n + 1) - 1 = n
        OBVIOUS
      <3> QED
        BY <1>1, <3>1 DEF PowersUpTo
    <2> QED
      BY <2>1, <2>2
  <1>4. G = [n \in Nat |-> IF n = 0 THEN 1 ELSE 10 * G[n - 1]]
    <2>1. ASSUME NEW n \in Nat, n # 0 PROVE G[n] = 10 * G[n - 1]
      <3>1. n - 1 \in Nat /\ (n - 1) + 1 = n
        BY <2>1
      <3> HIDE DEF G
      <3> QED
        BY <1>3, <3>1
    <2>2. G[0] = 1 /\ G = [n \in Nat |-> G[n]]
      BY <1>2
    <2> HIDE DEF G
    <2> QED
      BY <2>1, <2>2
  <1> HIDE DEF G
  <1>5. PowerOf10 = [n \in Nat |-> IF n = 0 THEN 1 ELSE 10 * PowerOf10[n - 1]]
    BY <1>4 DEF PowerOf10
  <1> DEFINE H == [n \in Nat |-> IF n = 0 THEN 1 ELSE 10 * PowerOf10[n - 1]]
  <1>6. ASSUME NEW n \in Nat
        PROVE  PowerOf10[n] = IF n = 0 THEN 1 ELSE 10 * PowerOf10[n - 1]
    <2>1. H[n] = IF n = 0 THEN 1 ELSE 10 * PowerOf10[n - 1]
      OBVIOUS
    <2> QED
      BY <1>5, <2>1
  <1>7. PowerOf10[0] = 1
    BY <1>6
  <1>8. ASSUME NEW n \in Nat PROVE PowerOf10[n + 1] = 10 * PowerOf10[n]
    <2>1. n + 1 \in Nat /\ n + 1 # 0 /\ (n + 1) - 1 = n
      OBVIOUS
    <2> QED
      BY <1>6, <2>1
  <1> DEFINE N == {n \in Nat : PowerOf10[n] \in Nat}
  <1>9. 0 \in N /\ \A n \in N : n + 1 \in N
    BY <1>7, <1>8
  <1> HIDE DEF N
  <1>10. N = Nat
    BY <1>9, Induction DEF N
  <1> QED
    BY <1>7, <1>8, <1>10 DEF N

\* Positive, and more than their exponent
LEMMA PowerExceeds == \A n \in Nat : PowerOf10[n] \in Nat /\ PowerOf10[n] > n
  <1> DEFINE N == {n \in Nat : PowerOf10[n] > n}
  <1>1. 0 \in N
    BY PowerOf10Is
  <1>2. ASSUME NEW n \in N PROVE n + 1 \in N
    BY PowerOf10Is
  <1> HIDE DEF N
  <1>3. N = Nat
    BY <1>1, <1>2, Induction DEF N
  <1> QED
    BY <1>3, PowerOf10Is DEF N

LEMMA PowerGrows ==
  ASSUME NEW m \in Nat, NEW n \in Nat, m <= n
  PROVE  PowerOf10[m] <= PowerOf10[n]
  <1> DEFINE N == {i \in Nat : PowerOf10[m] <= PowerOf10[m + i]}
  <1>1. 0 \in N
    BY PowerOf10Is
  <1>2. ASSUME NEW i \in N PROVE i + 1 \in N
    <2>1. PowerOf10[(m + i) + 1] = 10 * PowerOf10[m + i] /\ PowerOf10[m + i] \in Nat
      BY PowerOf10Is
    <2>2. (m + i) + 1 = m + (i + 1) /\ PowerOf10[m] <= PowerOf10[m + i]
      OBVIOUS
    <2>3. PowerOf10[m + (i + 1)] = 10 * PowerOf10[m + i] /\ PowerOf10[m] \in Nat
      BY <2>1, <2>2, PowerOf10Is
    <2>4. PowerOf10[m] <= PowerOf10[m + (i + 1)]
      BY <2>1, <2>2, <2>3
    <2> QED
      BY <2>4
  <1> HIDE DEF N
  <1>3. N = Nat
    BY <1>1, <1>2, Induction DEF N
  <1>4. n - m \in N /\ m + (n - m) = n
    BY <1>3
  <1> QED
    BY <1>4 DEF N

LEMMA PowerSum ==
  ASSUME NEW m \in Nat, NEW n \in Nat
  PROVE  PowerOf10[m + n] = PowerOf10[m] * PowerOf10[n]
  <1> DEFINE N == {i \in Nat : PowerOf10[i + n] = PowerOf10[i] * PowerOf10[n]}
  <1>1. 0 \in N
    BY PowerOf10Is
  <1>2. ASSUME NEW i \in N PROVE i + 1 \in N
    <2> DEFINE a == PowerOf10[i]
               b == PowerOf10[n]
    <2>1. /\ PowerOf10[(i + n) + 1] = 10 * PowerOf10[i + n] /\ (i + n) + 1 = (i + 1) + n
          /\ PowerOf10[i + 1] = 10 * a /\ a \in Nat /\ b \in Nat
      BY PowerOf10Is
    <2>2. PowerOf10[i + n] = a * b
      OBVIOUS
    <2> HIDE DEF a, b
    <2>3. 10 * (a * b) = (10 * a) * b
      BY <2>1
    <2>4. PowerOf10[(i + 1) + n] = PowerOf10[i + 1] * b
      BY <2>1, <2>2, <2>3
    <2> QED
      BY <2>4 DEF b
  <1> HIDE DEF N
  <1>3. N = Nat
    BY <1>1, <1>2, Induction DEF N
  <1> QED
    BY <1>3 DEF N

-----------------------------------------------------------------------------
(* What the writer makes of a double *)

LEMMA Division ==
  ASSUME NEW d \in Nat, NEW s \in Nat, s > 0
  PROVE  /\ d % s = d - s * (d \div s)
         /\ d \div s \in Nat /\ d % s \in Nat /\ d % s < s
  <1>1. d % s = d - s * (d \div s)
    OBVIOUS
  <1>2. d % s \in Nat /\ d % s < s
    OBVIOUS
  <1>3. d \div s \in Nat
    OBVIOUS
  <1> QED
    BY <1>1, <1>2, <1>3, Zenon

LEMMA DivisionIs ==
  ASSUME NEW d \in Nat, NEW s \in Nat, s > 0, NEW q \in Nat, NEW r \in Nat, r < s,
         d = s * q + r
  PROVE  q = d \div s /\ r = d % s
  OBVIOUS

LEMMA TimesGrows ==
  ASSUME NEW s \in Nat, NEW a \in Nat, NEW b \in Nat, a <= b
  PROVE  s * a <= s * b /\ s * a \in Nat /\ s * b \in Nat
  OBVIOUS

LEMMA TimesReflects ==
  ASSUME NEW s \in Nat, s > 0, NEW a \in Nat, NEW b \in Nat, s * a < s * b
  PROVE  a < b
  <1> SUFFICES ASSUME b <= a PROVE FALSE
    OBVIOUS
  <1>1. s * b <= s * a /\ s * a \in Nat /\ s * b \in Nat
    BY TimesGrows
  <1> QED
    BY <1>1

\* Nearest rounds q times s, and r, to v times s.
Rounds(d, s, q, r, v) ==
  /\ v = q \/ v = q + 1
  /\ d = s * q + r /\ r < s
  /\ Nearest(d, s) = s * v
  /\ v = q => 2 * r <= s
  /\ v = q + 1 => 2 * r >= s /\ r > 0
  /\ (2 * r > s \/ (2 * r = s /\ q % 2 = 1)) <=> v = q + 1

\* Nearest(d, s) is one of the multiples of s around d, and at most half of s
\* away from it.
LEMMA NearestIs ==
  ASSUME NEW d \in Nat, NEW s \in Nat, s > 0
  PROVE  \E q \in Nat, r \in Nat, v \in Nat : Rounds(d, s, q, r, v)
  <1> DEFINE q == d \div s
             r == d % s
             up == 2 * r > s \/ (2 * r = s /\ q % 2 = 1)
             v == IF up THEN q + 1 ELSE q
  <1>0. r = d - s * q /\ q \in Nat /\ r \in Nat /\ r < s
    BY Division, Zenon
  <1>2. Nearest(d, s) = s * v
    BY DEF Nearest
  <1> HIDE DEF q, r
  <1>1. d = s * q + r /\ q \in Nat /\ r \in Nat /\ r < s
    <2>1. s * q \in Nat
      BY <1>0, Product
    <2> QED
      BY <1>0, <2>1
  <1>3. v \in Nat /\ (v = q \/ v = q + 1) /\ (v = q => 2 * r <= s) /\ (v = q + 1 => 2 * r >= s)
    BY <1>1
  <1>4. up <=> v = q + 1
    BY <1>1
  <1>5. v = q + 1 => r > 0
    BY <1>1, <1>3
  <1>6. Rounds(d, s, q, r, v)
    BY <1>1, <1>2, <1>3, <1>4, <1>5 DEF Rounds
  <1> QED
    BY <1>1, <1>3, <1>6

LEMMA NearestType ==
  ASSUME NEW d \in Nat, NEW s \in Nat, s > 0
  PROVE  Nearest(d, s) \in Nat
  <1>1. PICK q \in Nat, r \in Nat, v \in Nat : Rounds(d, s, q, r, v)
    BY NearestIs
  <1>2. Nearest(d, s) = s * v
    BY <1>1 DEF Rounds
  <1> QED
    BY <1>2, Product

LEMMA NearestClose ==
  ASSUME NEW d \in Nat, NEW s \in Nat, s > 0
  PROVE  2 * (d - Nearest(d, s)) <= s /\ 2 * (Nearest(d, s) - d) <= s
  <1>1. PICK q \in Nat, r \in Nat, v \in Nat : Rounds(d, s, q, r, v)
    BY NearestIs
  <1>0. /\ v = q \/ v = q + 1
        /\ d = s * q + r /\ r < s
        /\ Nearest(d, s) = s * v
        /\ v = q => 2 * r <= s
        /\ v = q + 1 => 2 * r >= s
    BY <1>1 DEF Rounds
  <1> DEFINE a == s * q
  <1>2. a \in Nat /\ s * (q + 1) = a + s
    BY <1>0, Product
  <1>3. CASE v = q
    <2>1. Nearest(d, s) = a
      BY <1>0, <1>3
    <2>2. d = a + r
      BY <1>0
    <2> HIDE DEF a
    <2> QED
      BY <1>0, <1>2, <1>3, <2>1, <2>2
  <1>4. CASE v = q + 1
    <2>1. Nearest(d, s) = a + s
      BY <1>0, <1>2, <1>4
    <2>2. d = a + r
      BY <1>0
    <2> HIDE DEF a
    <2> QED
      BY <1>0, <1>2, <1>4, <2>1, <2>2
  <1> QED
    BY <1>0, <1>3, <1>4

LEMMA NearestOfMultiple ==
  ASSUME NEW s \in Nat, s > 0, NEW v \in Nat
  PROVE  Nearest(s * v, s) = s * v
  <1>1. s * v \in Nat /\ s * v = s * v + 0
    BY Product
  <1>2. v = (s * v) \div s /\ 0 = (s * v) % s
    <2> DEFINE d == s * v
    <2>1. d \in Nat /\ d = s * v + 0
      BY <1>1
    <2> HIDE DEF d
    <2>2. v = d \div s /\ 0 = d % s
      BY <2>1, DivisionIs
    <2> QED
      BY <2>2 DEF d
  <1>3. 2 * ((s * v) % s) = 0
    BY <1>2
  <1> QED
    BY <1>2, <1>3 DEF Nearest

LEMMA NearestGrows ==
  ASSUME NEW d \in Nat, NEW e \in Nat, d <= e, NEW s \in Nat, s > 0
  PROVE  Nearest(d, s) <= Nearest(e, s)
  <1>1. PICK q \in Nat, r \in Nat, v \in Nat : Rounds(d, s, q, r, v)
    BY NearestIs
  <1>2. PICK q2 \in Nat, r2 \in Nat, v2 \in Nat : Rounds(e, s, q2, r2, v2)
    BY NearestIs
  <1>0. /\ v = q \/ v = q + 1
        /\ d = s * q + r /\ r < s /\ Nearest(d, s) = s * v
        /\ (2 * r > s \/ (2 * r = s /\ q % 2 = 1)) <=> v = q + 1
        /\ v2 = q2 \/ v2 = q2 + 1
        /\ e = s * q2 + r2 /\ r2 < s /\ Nearest(e, s) = s * v2
        /\ (2 * r2 > s \/ (2 * r2 = s /\ q2 % 2 = 1)) <=> v2 = q2 + 1
    BY <1>1, <1>2 DEF Rounds
  <1>3. s * q \in Nat /\ s * q2 \in Nat /\ s * (q2 + 1) = s * q2 + s
    BY Product
  <1>4. q <= q2
    <2>1. s * q < s * (q2 + 1)
      <3> DEFINE a == s * q
                 b == s * q2
      <3>1. d = a + r /\ e = b + r2 /\ s * (q2 + 1) = b + s /\ a \in Nat /\ b \in Nat
        BY <1>0, <1>3
      <3> HIDE DEF a, b
      <3>2. a < b + s
        BY <1>0, <3>1
      <3> QED
        BY <3>1, <3>2 DEF a
    <2>2. q < q2 + 1
      BY <2>1, TimesReflects
    <2> QED
      BY <2>2
  <1>5. v <= v2
    <2>1. CASE q = q2
      <3>1. r <= r2
        <4> DEFINE a == s * q
        <4>1. d = a + r /\ e = a + r2 /\ a \in Nat
          BY <1>0, <1>3, <2>1
        <4> HIDE DEF a
        <4> QED
          BY <4>1, <1>0
      <3> QED
        BY <1>0, <2>1, <3>1
    <2>2. CASE q # q2
      BY <1>0, <1>4, <2>2
    <2> QED
      BY <2>1, <2>2
  <1>7. s * v <= s * v2
    BY <1>5, TimesGrows
  <1> QED
    BY <1>0, <1>7

LEMMA DigitsKept ==
  /\ Digits \in Nat /\ Digits > 0 /\ Digits - 1 \in Nat
  /\ PowerOf10[Digits - 1] \in Nat /\ PowerOf10[Digits - 1] > 0
  /\ PowerOf10[Digits] = 10 * PowerOf10[Digits - 1]
  <1>1. Digits \in Nat /\ Digits > 0 /\ Digits - 1 \in Nat /\ (Digits - 1) + 1 = Digits
    BY DigitsAssumption
  <1>2. PowerOf10[(Digits - 1) + 1] = 10 * PowerOf10[Digits - 1]
    BY <1>1, PowerOf10Is
  <1>3. PowerOf10[Digits - 1] \in Nat /\ PowerOf10[Digits - 1] > Digits - 1
    BY <1>1, PowerExceeds
  <1> QED
    BY <1>1, <1>2, <1>3

\* d has Digits digits and k more.
HasExcess(d, k) ==
  d < PowerOf10[k + Digits] /\ (k = 0 \/ d >= PowerOf10[k - 1 + Digits])

LEMMA ExcessExists ==
  ASSUME NEW d \in Nat
  PROVE  \E k \in Nat : HasExcess(d, k)
  <1>0. Digits \in Nat /\ Digits > 0
    BY DigitsAssumption
  <1> DEFINE T == {k \in Nat : d < PowerOf10[k + Digits]}
  <1>1. d \in T
    <2>1. PowerOf10[d + Digits] > d + Digits
      BY <1>0, PowerExceeds
    <2>2. PowerOf10[d + Digits] \in Nat
      BY <1>0, PowerExceeds
    <2> QED
      BY <1>0, <2>1, <2>2
  <1>2. PICK k \in T : \A i \in T : k <= i
    BY <1>1, LeastNumber
  <1>3. ASSUME k # 0 PROVE d >= PowerOf10[k - 1 + Digits]
    <2>1. k - 1 \in Nat /\ k - 1 \notin T
      BY <1>2, <1>3
    <2>2. PowerOf10[k - 1 + Digits] \in Nat
      BY <1>0, <2>1, PowerExceeds
    <2> QED
      BY <2>1, <2>2
  <1> QED
    BY <1>3 DEF HasExcess

LEMMA ExcessUnique ==
  ASSUME NEW d \in Nat, NEW k \in Nat, NEW l \in Nat, HasExcess(d, k), HasExcess(d, l)
  PROVE  k = l
  <1>0. Digits \in Nat /\ Digits > 0
    BY DigitsAssumption
  <1>1. ASSUME NEW i \in Nat, NEW j \in Nat, HasExcess(d, i), HasExcess(d, j), i < j
        PROVE  FALSE
    <2>1. j - 1 \in Nat /\ i + Digits <= j - 1 + Digits /\ j # 0
          /\ i + Digits \in Nat /\ j - 1 + Digits \in Nat
      BY <1>0, <1>1
    <2>2. PowerOf10[i + Digits] <= PowerOf10[j - 1 + Digits]
      BY <2>1, PowerGrows
    <2>3. PowerOf10[i + Digits] \in Nat /\ PowerOf10[j - 1 + Digits] \in Nat
      BY <2>1, PowerExceeds
    <2>4. d < PowerOf10[i + Digits] /\ d >= PowerOf10[j - 1 + Digits]
      BY <1>1, <2>1 DEF HasExcess
    <2> QED
      BY <2>2, <2>3, <2>4
  <1>2. ~(k < l) /\ ~(l < k)
    BY <1>1
  <1> QED
    BY <1>2

\* Another digit more
LEMMA ExcessOfTenth ==
  ASSUME NEW d \in Nat, d >= PowerOf10[Digits], NEW k \in Nat, HasExcess(d \div 10, k)
  PROVE  HasExcess(d, 1 + k)
  <1> DEFINE q == d \div 10
  <1>1. q \in Nat /\ 10 * q <= d /\ d < 10 * q + 10
    OBVIOUS
  <1> HIDE DEF q
  <1>2. Digits \in Nat /\ k + Digits \in Nat /\ (k + Digits) + 1 = 1 + k + Digits
        /\ 1 + k - 1 + Digits = k + Digits
    BY DigitsKept
  <1>3. PowerOf10[k + Digits] \in Nat /\ PowerOf10[1 + k + Digits] = 10 * PowerOf10[k + Digits]
    BY <1>2, PowerOf10Is
  <1>4. d < PowerOf10[1 + k + Digits]
    <2>1. q < PowerOf10[k + Digits]
      BY DEF HasExcess, q
    <2> QED
      BY <1>1, <1>3, <2>1
  <1>5. d >= PowerOf10[k + Digits]
    <2>1. CASE k = 0
      BY <1>2, <2>1
    <2>2. CASE k # 0
      <3>1. q >= PowerOf10[k - 1 + Digits]
        BY <2>2 DEF HasExcess, q
      <3>2. k - 1 + Digits \in Nat /\ (k - 1 + Digits) + 1 = k + Digits
        BY <1>2, <2>2
      <3>3. PowerOf10[k - 1 + Digits] \in Nat
            /\ PowerOf10[k + Digits] = 10 * PowerOf10[k - 1 + Digits]
        BY <3>2, PowerOf10Is
      <3> QED
        BY <1>1, <3>1, <3>3
    <2> QED
      BY <2>1, <2>2
  <1>6. 1 + k \in Nat /\ 1 + k # 0
    OBVIOUS
  <1> QED
    BY <1>2, <1>4, <1>5, <1>6 DEF HasExcess

LEMMA ExcessIs ==
  ASSUME NEW d \in Nat
  PROVE  /\ Excess[d] \in Nat /\ HasExcess(d, Excess[d])
         /\ \A k \in Nat : HasExcess(d, k) => k = Excess[d]
  <1> DEFINE x(e) == CHOOSE k \in Nat : HasExcess(e, k)
             G == [e \in Nat |-> x(e)]
  <1>1. \A e \in Nat : x(e) \in Nat /\ HasExcess(e, x(e))
    BY ExcessExists
  <1> HIDE DEF x
  <1>2. ASSUME NEW e \in Nat, e < PowerOf10[Digits] PROVE x(e) = 0
    <2>1. 0 + Digits = Digits
      BY DigitsKept
    <2>2. HasExcess(e, 0)
      BY <1>2, <2>1 DEF HasExcess
    <2> QED
      BY <1>1, <2>2, ExcessUnique
  <1>3. ASSUME NEW e \in Nat, ~(e < PowerOf10[Digits])
        PROVE  e \div 10 \in Nat /\ e \div 10 < e /\ x(e) = 1 + x(e \div 10)
    <2>1. e \div 10 \in Nat
      OBVIOUS
    <2>2. PowerOf10[Digits] \in Nat /\ PowerOf10[Digits] > 0
      BY DigitsKept, PowerExceeds
    <2>3. e >= PowerOf10[Digits] /\ e > 0 /\ e \div 10 < e
      BY <1>3, <2>2
    <2>4. HasExcess(e, 1 + x(e \div 10)) /\ 1 + x(e \div 10) \in Nat
      BY <1>1, <2>1, <2>3, ExcessOfTenth
    <2> QED
      BY <1>1, <2>1, <2>3, <2>4, ExcessUnique
  <1>4. G = [e \in Nat |-> IF e < PowerOf10[Digits] THEN 0 ELSE 1 + G[e \div 10]]
    <2>1. ASSUME NEW e \in Nat
          PROVE  G[e] = IF e < PowerOf10[Digits] THEN 0 ELSE 1 + G[e \div 10]
      <3>1. CASE e < PowerOf10[Digits]
        BY <1>2, <3>1
      <3>2. CASE ~(e < PowerOf10[Digits])
        <4>1. e \div 10 \in Nat /\ x(e) = 1 + x(e \div 10)
          BY <1>3, <3>2
        <4>2. G[e] = x(e) /\ G[e \div 10] = x(e \div 10)
          BY <4>1
        <4> HIDE DEF G
        <4> QED
          BY <3>2, <4>1, <4>2
      <3> QED
        BY <3>1, <3>2
    <2>2. G = [e \in Nat |-> G[e]]
      OBVIOUS
    <2> HIDE DEF G
    <2> QED
      BY <2>1, <2>2
  <1>5. \A e \in Nat : G[e] = x(e)
    OBVIOUS
  <1> HIDE DEF G
  <1>6. Excess = [e \in Nat |-> IF e < PowerOf10[Digits] THEN 0 ELSE 1 + Excess[e \div 10]]
    BY <1>4 DEF Excess
  <1> DEFINE H == [e \in Nat |-> IF e < PowerOf10[Digits] THEN 0 ELSE 1 + Excess[e \div 10]]
  <1>7. ASSUME NEW e \in Nat
        PROVE  Excess[e] = IF e < PowerOf10[Digits] THEN 0 ELSE 1 + Excess[e \div 10]
    <2>1. H[e] = IF e < PowerOf10[Digits] THEN 0 ELSE 1 + Excess[e \div 10]
      OBVIOUS
    <2> QED
      BY <1>6, <2>1
  <1> DEFINE T == {e \in Nat : Excess[e] # x(e)}
  <1>8. T = {}
    <2> SUFFICES ASSUME T # {} PROVE FALSE
      OBVIOUS
    <2>1. PICK e \in T : \A i \in T : e <= i
      BY LeastNumber
    <2>2. CASE e < PowerOf10[Digits]
      BY <1>2, <1>7, <2>1, <2>2
    <2>3. CASE ~(e < PowerOf10[Digits])
      <3>1. e \div 10 \in Nat /\ e \div 10 < e /\ x(e) = 1 + x(e \div 10)
        BY <1>3, <2>1, <2>3
      <3>2. Excess[e \div 10] = x(e \div 10)
        BY <2>1, <3>1
      <3> QED
        BY <1>7, <2>1, <2>3, <3>1, <3>2
    <2> QED
      BY <2>2, <2>3
  <1>9. Excess[d] = x(d)
    BY <1>8
  <1> HIDE DEF H, T
  <1> QED
    BY <1>1, <1>9, ExcessUnique

LEMMA NotSpecial == ASSUME NEW d \in Int PROVE d \notin Special
  BY SpecialAssumption DEF Special

-----------------------------------------------------------------------------
(* The digits that are kept *)

\* d has k digits more than the p stands for: s = 10^k, 10p = 10^Digits.
Scaled(d, k, s, p) ==
  /\ s > 0 /\ s = PowerOf10[k]
  /\ p = PowerOf10[Digits - 1] /\ p > 0
  /\ d < s * (10 * p)
  /\ k = 0 => s = 1
  /\ k # 0 => d >= s * p

LEMMA ScaledIs ==
  ASSUME NEW d \in Nat, NEW k \in Nat, NEW s \in Nat, NEW p \in Nat,
         s = PowerOf10[k], p = PowerOf10[Digits - 1]
  PROVE  HasExcess(d, k) <=> Scaled(d, k, s, p)
  <1>1. PowerOf10[k + Digits] = s * (10 * p)
    <2>1. Digits \in Nat /\ PowerOf10[Digits] = 10 * p
      BY DigitsKept
    <2> QED
      BY <2>1, PowerSum
  <1>2. ASSUME k # 0 PROVE PowerOf10[k - 1 + Digits] = s * p
    <2>1. Digits - 1 \in Nat /\ k - 1 + Digits = k + (Digits - 1)
      BY DigitsKept
    <2>2. PowerOf10[k + (Digits - 1)] = s * p
      BY <2>1, PowerSum
    <2> QED
      BY <2>1, <2>2
  <1>3. s > 0 /\ p > 0
    BY DigitsKept, PowerExceeds
  <1>4. k = 0 => s = 1
    BY PowerOf10Is
  <1> QED
    BY <1>1, <1>2, <1>3, <1>4 DEF HasExcess, Scaled

LEMMA ShortenedIs ==
  ASSUME NEW d \in Nat
  PROVE  \E k \in Nat, s \in Nat, p \in Nat :
           k = Excess[d] /\ Scaled(d, k, s, p) /\ Shortened(d) = Nearest(d, s)
  <1>1. Excess[d] \in Nat /\ HasExcess(d, Excess[d])
    BY ExcessIs
  <1>2. PowerOf10[Excess[d]] \in Nat /\ PowerOf10[Digits - 1] \in Nat
    BY <1>1, PowerExceeds, DigitsKept
  <1>3. Scaled(d, Excess[d], PowerOf10[Excess[d]], PowerOf10[Digits - 1])
    BY <1>1, <1>2, ScaledIs
  <1>4. Shortened(d) = Nearest(d, PowerOf10[Excess[d]])
    BY NotSpecial DEF Shortened
  <1> QED
    BY <1>1, <1>2, <1>3, <1>4

\* What Shortened is, when the number has the scale s.
LEMMA ShortenedAt ==
  ASSUME NEW d \in Nat, NEW k \in Nat, NEW s \in Nat, NEW p \in Nat,
         s = PowerOf10[k], p = PowerOf10[Digits - 1], Scaled(d, k, s, p)
  PROVE  Shortened(d) = Nearest(d, s)
  <1>1. HasExcess(d, k)
    BY ScaledIs
  <1>2. k = Excess[d]
    BY <1>1, ExcessIs
  <1> QED
    BY <1>2, NotSpecial DEF Shortened

LEMMA ShortenedType ==
  ASSUME NEW d \in Nat
  PROVE  Shortened(d) \in Nat
  <1>1. PICK k \in Nat, s \in Nat, p \in Nat :
          k = Excess[d] /\ Scaled(d, k, s, p) /\ Shortened(d) = Nearest(d, s)
    BY ShortenedIs
  <1>2. s > 0
    BY <1>1 DEF Scaled
  <1>3. Nearest(d, s) \in Nat
    BY <1>2, NearestType
  <1> QED
    BY <1>1, <1>3

\* A number of no more digits than are written is written as it is.
LEMMA ShortenedExact ==
  ASSUME NEW d \in Nat, d < PowerOf10[Digits]
  PROVE  Shortened(d) = d
  <1>1. HasExcess(d, 0)
    <2>1. 0 + Digits = Digits
      BY DigitsKept
    <2> QED
      BY <2>1 DEF HasExcess
  <1>2. Excess[d] = 0
    BY <1>1, ExcessIs
  <1>3. Shortened(d) = Nearest(d, 1)
    BY <1>2, NotSpecial, PowerOf10Is DEF Shortened
  <1>4. Nearest(1 * d, 1) = 1 * d
    BY NearestOfMultiple
  <1> QED
    BY <1>3, <1>4

\* Of two numbers the larger is never written as the smaller.
LEMMA ShortenedGrows ==
  ASSUME NEW d \in Nat, NEW e \in Nat, d <= e
  PROVE  Shortened(d) <= Shortened(e)
  <1>1. PICK k \in Nat, s \in Nat, p \in Nat :
          k = Excess[d] /\ Scaled(d, k, s, p) /\ Shortened(d) = Nearest(d, s)
    BY ShortenedIs
  <1>2. PICK l \in Nat, t \in Nat, r \in Nat :
          l = Excess[e] /\ Scaled(e, l, t, r) /\ Shortened(e) = Nearest(e, t)
    BY ShortenedIs
  <1>3. /\ r = p /\ s > 0 /\ t > 0 /\ s = PowerOf10[k] /\ t = PowerOf10[l]
        /\ p > 0
        /\ d < s * (10 * p) /\ (k # 0 => d >= s * p)
        /\ e < t * (10 * p) /\ (l # 0 => e >= t * p)
    BY <1>1, <1>2 DEF Scaled
  <1>4. CASE k = l
    <2>1. Nearest(d, s) <= Nearest(e, s)
      BY <1>3, NearestGrows
    <2> QED
      BY <1>1, <1>2, <1>3, <1>4, <2>1
  \* The larger one has more digits: the power of ten is between them.
  <1>5. CASE k < l
    <2>1. s * 10 <= t
      <3>1. k + 1 \in Nat /\ k + 1 <= l
        BY <1>5
      <3>2. PowerOf10[k + 1] <= PowerOf10[l]
        BY <3>1, PowerGrows
      <3>3. PowerOf10[k + 1] = 10 * PowerOf10[k]
        BY PowerOf10Is
      <3> QED
        BY <1>3, <3>2, <3>3
    <2>2. s * (10 * p) <= t * p
      <3>1. p * (s * 10) <= p * t /\ p * (s * 10) = s * (10 * p) /\ p * t = t * p
        BY <2>1, TimesGrows
      <3> QED
        BY <3>1
    <2>3. Nearest(d, s) <= s * (10 * p)
      <3>1. s * (10 * p) \in Nat /\ 10 * p \in Nat
        BY Product
      <3>2. Nearest(d, s) <= Nearest(s * (10 * p), s)
        <4> DEFINE b == s * (10 * p)
        <4>1. b \in Nat /\ d <= b
          BY <1>3, <3>1
        <4> HIDE DEF b
        <4>2. Nearest(d, s) <= Nearest(b, s)
          BY <1>3, <4>1, NearestGrows
        <4> QED
          BY <4>2 DEF b
      <3>3. Nearest(s * (10 * p), s) = s * (10 * p)
        BY <1>3, <3>1, NearestOfMultiple
      <3> QED
        BY <3>2, <3>3
    <2>4. t * p <= Nearest(e, t)
      <3>1. t * p \in Nat
        BY Product
      <3>2. Nearest(t * p, t) <= Nearest(e, t)
        <4> DEFINE b == t * p
        <4>1. b \in Nat /\ b <= e
          BY <1>3, <1>5, <3>1
        <4> HIDE DEF b
        <4>2. Nearest(b, t) <= Nearest(e, t)
          BY <1>3, <4>1, NearestGrows
        <4> QED
          BY <4>2 DEF b
      <3>3. Nearest(t * p, t) = t * p
        BY <1>3, NearestOfMultiple
      <3> QED
        BY <3>2, <3>3
    <2>5. Nearest(d, s) \in Nat /\ Nearest(e, t) \in Nat
      BY <1>3, NearestType
    <2> DEFINE a == s * (10 * p)
               b == t * p
    <2>6. a \in Nat /\ b \in Nat
      BY Product
    <2>7. a <= b /\ Nearest(d, s) <= a /\ b <= Nearest(e, t)
      BY <2>2, <2>3, <2>4
    <2> HIDE DEF a, b
    <2>8. Nearest(d, s) <= Nearest(e, t)
      BY <2>5, <2>6, <2>7
    <2> QED
      BY <1>1, <1>2, <2>8
  <1>6. CASE l < k
    <2>1. t * 10 <= s
      <3>1. l + 1 \in Nat /\ l + 1 <= k
        BY <1>6
      <3>2. PowerOf10[l + 1] <= PowerOf10[k]
        BY <3>1, PowerGrows
      <3>3. PowerOf10[l + 1] = 10 * PowerOf10[l]
        BY PowerOf10Is
      <3> QED
        BY <1>3, <3>2, <3>3
    <2>2. t * (10 * p) <= s * p
      <3>1. p * (t * 10) <= p * s /\ p * (t * 10) = t * (10 * p) /\ p * s = s * p
        BY <2>1, TimesGrows
      <3> QED
        BY <3>1
    <2> DEFINE a == t * (10 * p)
               b == s * p
    <2>3. a \in Nat /\ b \in Nat
      BY Product
    <2>4. a <= b /\ e < a /\ b <= d
      BY <1>3, <1>6, <2>2
    <2> HIDE DEF a, b
    <2> QED
      BY <2>3, <2>4
  <1> QED
    BY <1>4, <1>5, <1>6

\* What was written is written again as it is.
LEMMA ShortenedTwice ==
  ASSUME NEW d \in Nat
  PROVE  Shortened(Shortened(d)) = Shortened(d)
  <1>1. PICK k \in Nat, s \in Nat, p \in Nat :
          k = Excess[d] /\ Scaled(d, k, s, p) /\ Shortened(d) = Nearest(d, s)
    BY ShortenedIs
  <1>0. /\ s > 0 /\ s = PowerOf10[k] /\ p = PowerOf10[Digits - 1] /\ p > 0
        /\ d < s * (10 * p) /\ (k # 0 => d >= s * p) /\ (k = 0 => s = 1)
    BY <1>1 DEF Scaled
  <1>2. PICK q \in Nat, r \in Nat, v \in Nat : Rounds(d, s, q, r, v)
    BY <1>0, NearestIs
  <1>3. Nearest(d, s) = s * v /\ (v = q \/ v = q + 1) /\ d = s * q + r /\ r < s
    BY <1>2 DEF Rounds
  <1>4. q < 10 * p
    <2>1. s * q \in Nat /\ 10 * p \in Nat
      BY Product
    <2>2. s * q <= d
      <3> DEFINE a == s * q
      <3>1. d = a + r /\ a \in Nat
        BY <1>3, <2>1
      <3> HIDE DEF a
      <3>2. a <= d
        BY <3>1
      <3> QED
        BY <3>2 DEF a
    <2>3. s * q < s * (10 * p)
      <3> DEFINE a == s * q
                 b == s * (10 * p)
      <3>1. a \in Nat /\ b \in Nat /\ a <= d /\ d < b
        BY <1>0, <2>1, <2>2, Product
      <3> HIDE DEF a, b
      <3>2. a < b
        BY <3>1
      <3> QED
        BY <3>2 DEF a, b
    <2> QED
      BY <1>0, <2>1, <2>3, TimesReflects
  <1>5. k # 0 => q >= p
    <2> SUFFICES ASSUME k # 0, q < p PROVE FALSE
      OBVIOUS
    <2>1. s * (q + 1) <= s * p
      <3>1. q + 1 <= p
        OBVIOUS
      <3> QED
        BY <3>1, TimesGrows
    <2> DEFINE a == s * q
               b == s * p
    <2>2. a \in Nat /\ b \in Nat /\ s * (q + 1) = a + s
      BY Product
    <2>3. a + s <= b /\ d = a + r /\ b <= d
      BY <1>0, <1>3, <2>1, <2>2
    <2> HIDE DEF a, b
    <2> QED
      BY <1>3, <2>2, <2>3
  <1>6. Nearest(s * v, s) = s * v
    BY <1>0, NearestOfMultiple
  <1>7. CASE v < 10 * p
    <2>1. s * v < s * (10 * p) /\ s * v \in Nat
      <3>1. v + 1 <= 10 * p /\ 10 * p \in Nat
        BY <1>7
      <3>2. s * (v + 1) <= s * (10 * p) /\ s * (10 * p) \in Nat
        BY <3>1, TimesGrows
      <3> DEFINE a == s * v
                 b == s * (10 * p)
      <3>3. a + s <= b /\ a \in Nat /\ b \in Nat
        <4>1. s * (v + 1) = s * v + s
          BY Product
        <4> QED
          BY <3>2, <4>1, Product
      <3> HIDE DEF a, b
      <3>4. a < b /\ a \in Nat
        BY <1>0, <3>3
      <3> QED
        BY <3>4 DEF a, b
    <2>2. k # 0 => s * v >= s * p
      <3>1. k # 0 => p <= v
        BY <1>3, <1>5
      <3> QED
        BY <3>1, TimesGrows
    <2>3. Scaled(s * v, k, s, p)
      BY <1>0, <2>1, <2>2 DEF Scaled
    <2> DEFINE a == s * v
    <2>4. a \in Nat /\ Scaled(a, k, s, p)
      BY <2>1, <2>3
    <2> HIDE DEF a
    <2>5. Shortened(a) = Nearest(a, s)
      BY <1>0, <2>4, ShortenedAt
    <2> QED
      BY <1>1, <1>3, <1>6, <2>5 DEF a
  \* Rounded up to a power of ten, it has one digit more.
  <1>8. CASE v = 10 * p
    <2> DEFINE t == PowerOf10[k + 1]
    <2>1. t \in Nat /\ t = 10 * s /\ t > 0
      BY <1>0, PowerOf10Is
    <2>2. s * v = t * p
      BY <1>8, <2>1
    <2>3. t * p \in Nat /\ t * p < t * (10 * p)
      <3>1. p + 1 <= 10 * p /\ 10 * p \in Nat /\ p + 1 \in Nat
        BY <1>0
      <3>2. t * (p + 1) <= t * (10 * p) /\ t * (10 * p) \in Nat
        BY <2>1, <3>1, TimesGrows
      <3> HIDE DEF t
      <3>3. t * (p + 1) = t * p + t /\ t * p \in Nat
        BY <2>1, Product
      <3> DEFINE a == t * p
                 b == t * (10 * p)
      <3>4. a + t <= b /\ a \in Nat /\ b \in Nat
        BY <3>2, <3>3
      <3> HIDE DEF a, b
      <3>5. a \in Nat /\ a < b
        BY <2>1, <3>4
      <3> QED
        BY <3>5 DEF a, b
    <2> DEFINE a == t * p
    <2>4. Scaled(a, k + 1, t, p)
      BY <1>0, <2>1, <2>3 DEF Scaled
    <2>5. Nearest(a, t) = a
      <3> HIDE DEF t
      <3> QED
        BY <2>1, NearestOfMultiple
    <2>6. a \in Nat /\ k + 1 \in Nat
      BY <2>3
    <2> HIDE DEF a
    <2>7. Shortened(a) = Nearest(a, t)
      BY <1>0, <2>1, <2>4, <2>6, ShortenedAt
    <2>8. s * v = a
      BY <2>2 DEF a
    <2> QED
      BY <1>1, <1>3, <2>5, <2>7, <2>8
  <1> QED
    BY <1>3, <1>4, <1>7, <1>8

\* Half a unit of the last digit kept
LEMMA ShortenedClose ==
  ASSUME NEW d \in Nat
  PROVE  2 * Distance(d, Shortened(d)) <= PowerOf10[Excess[d]]
  <1>1. PICK k \in Nat, s \in Nat, p \in Nat :
          k = Excess[d] /\ Scaled(d, k, s, p) /\ Shortened(d) = Nearest(d, s)
    BY ShortenedIs
  <1>2. s > 0 /\ s = PowerOf10[Excess[d]]
    BY <1>1 DEF Scaled
  <1>3. 2 * (d - Nearest(d, s)) <= s /\ 2 * (Nearest(d, s) - d) <= s
    BY <1>2, NearestClose
  <1>4. Shortened(d) \in Nat
    BY ShortenedType
  <1> QED
    BY <1>1, <1>2, <1>3, <1>4 DEF Distance

\* The multiple of s that is less than half of s away is the nearest.
LEMMA NearestUnique ==
  ASSUME NEW d \in Nat, NEW s \in Nat, s > 0, NEW v \in Nat,
         2 * (d - s * v) < s, 2 * (s * v - d) < s
  PROVE  Nearest(d, s) = s * v
  <1>1. PICK q \in Nat, r \in Nat, w \in Nat : Rounds(d, s, q, r, w)
    BY NearestIs
  <1>2. Nearest(d, s) = s * w
    BY <1>1 DEF Rounds
  <1>3. 2 * (d - s * w) <= s /\ 2 * (s * w - d) <= s
    BY <1>2, NearestClose
  <1>4. /\ s * v \in Nat /\ s * (v + 1) = s * v + s
        /\ s * w \in Nat /\ s * (w + 1) = s * w + s
    BY Product
  <1>5. s * v < s * (w + 1) /\ s * w < s * (v + 1)
    <2> DEFINE a == s * v
               b == s * w
    <2>1. /\ a \in Nat /\ b \in Nat /\ 2 * (d - a) < s /\ 2 * (a - d) < s
          /\ 2 * (d - b) <= s /\ 2 * (b - d) <= s
          /\ s * (v + 1) = a + s /\ s * (w + 1) = b + s
      BY <1>3, <1>4
    <2> HIDE DEF a, b
    <2>2. a < b + s /\ b < a + s
      BY <2>1
    <2> QED
      BY <2>1, <2>2 DEF a, b
  <1>6. v < w + 1 /\ w < v + 1
    BY <1>5, TimesReflects
  <1>7. v = w
    BY <1>6
  <1> QED
    BY <1>2, <1>7

\* A power of ten has one significant digit.
LEMMA PowerWritten ==
  ASSUME NEW e \in Nat
  PROVE  Shortened(PowerOf10[e]) = PowerOf10[e]
  <1>0. /\ Digits \in Nat /\ Digits > 0 /\ Digits - 1 \in Nat /\ PowerOf10[e] \in Nat
        /\ PowerOf10[Digits - 1] \in Nat /\ PowerOf10[Digits] = 10 * PowerOf10[Digits - 1]
        /\ PowerOf10[Digits - 1] > 0
    BY DigitsKept, PowerExceeds
  <1>1. CASE e <= Digits - 1
    <2>1. PowerOf10[e] <= PowerOf10[Digits - 1]
      BY <1>0, <1>1, PowerGrows
    <2>2. PowerOf10[e] < PowerOf10[Digits]
      BY <1>0, <2>1
    <2> QED
      BY <1>0, <2>2, ShortenedExact
  <1>2. CASE ~(e <= Digits - 1)
    <2> DEFINE k == e - (Digits - 1)
               s == PowerOf10[k]
               p == PowerOf10[Digits - 1]
    <2>1. k \in Nat /\ k + (Digits - 1) = e /\ k # 0
      BY <1>0, <1>2
    <2> HIDE DEF k
    <2>2. s \in Nat /\ s > 0
      BY <2>1, PowerExceeds
    <2>3. PowerOf10[e] = s * p
      <3>1. PowerOf10[k + (Digits - 1)] = PowerOf10[k] * PowerOf10[Digits - 1]
        BY <1>0, <2>1, PowerSum
      <3> QED
        BY <2>1, <3>1
    <2>4. s * p < s * (10 * p)
      <3>1. p + 1 <= 10 * p /\ 10 * p \in Nat /\ p + 1 \in Nat /\ p \in Nat
        BY <1>0
      <3> HIDE DEF s, p
      <3>2. s * (p + 1) <= s * (10 * p) /\ s * (10 * p) \in Nat
        BY <2>2, <3>1, TimesGrows
      <3>3. s * (p + 1) = s * p + s /\ s * p \in Nat
        BY <2>2, <3>1, Product
      <3> DEFINE a == s * p
                 b == s * (10 * p)
      <3>4. a + s <= b /\ a \in Nat /\ b \in Nat
        BY <3>2, <3>3
      <3> HIDE DEF a, b
      <3>5. a < b
        BY <2>2, <3>4
      <3> QED
        BY <3>5 DEF a, b
    <2> DEFINE a == s * p
    <2>5. a \in Nat /\ a = PowerOf10[e]
      BY <1>0, <2>3
    <2>6. Scaled(a, k, s, p)
      <3>1. a < s * (10 * p) /\ a >= s * p
        BY <2>3, <2>4, <2>5
      <3> QED
        BY <1>0, <2>1, <2>2, <3>1 DEF Scaled
    <2>7. Nearest(a, s) = a
      <3>1. p \in Nat
        BY <1>0
      <3> HIDE DEF s, p
      <3> QED
        BY <2>2, <3>1, NearestOfMultiple
    <2>8. Shortened(a) = Nearest(a, s)
      <3> HIDE DEF a
      <3> QED
        BY <1>0, <2>1, <2>2, <2>5, <2>6, ShortenedAt
    <2> QED
      BY <2>5, <2>7, <2>8
  <1> QED
    BY <1>1, <1>2

\* A decimal is a multiple of the unit of its last digit, and of any smaller.
LEMMA ShortenedMultiple ==
  ASSUME NEW d \in Nat, Shortened(d) = d, NEW k \in Nat, k <= Excess[d]
  PROVE  \E v \in Nat : d = PowerOf10[k] * v
  <1>1. PICK l \in Nat, s \in Nat, p \in Nat :
          l = Excess[d] /\ Scaled(d, l, s, p) /\ Shortened(d) = Nearest(d, s)
    BY ShortenedIs
  <1>2. s > 0 /\ s = PowerOf10[l] /\ k <= l
    BY <1>1 DEF Scaled
  <1>3. PICK v \in Nat : d = s * v
    <2>1. PICK q \in Nat, r \in Nat, v \in Nat : Rounds(d, s, q, r, v)
      BY <1>2, NearestIs
    <2>2. Nearest(d, s) = s * v
      BY <2>1 DEF Rounds
    <2> QED
      BY <1>1, <2>2
  <1>4. l - k \in Nat /\ k + (l - k) = l
    BY <1>2
  <1>5. PowerOf10[k] \in Nat /\ PowerOf10[l - k] \in Nat
        /\ PowerOf10[k + (l - k)] = PowerOf10[k] * PowerOf10[l - k]
    BY <1>4, PowerExceeds, PowerSum
  <1> DEFINE a == PowerOf10[k]
             b == PowerOf10[l - k]
  <1>6. s = a * b /\ a \in Nat /\ b \in Nat
    BY <1>2, <1>4, <1>5
  <1> HIDE DEF a, b
  <1>7. (a * b) * v = a * (b * v) /\ b * v \in Nat
    BY <1>6, Product
  <1>8. d = a * (b * v)
    BY <1>3, <1>6, <1>7
  <1> QED
    BY <1>7, <1>8 DEF a

\* The larger of two numbers does not have fewer digits.
LEMMA ExcessGrows ==
  ASSUME NEW d \in Nat, NEW e \in Nat, d <= e
  PROVE  Excess[d] <= Excess[e]
  <1> DEFINE k == Excess[d]
             l == Excess[e]
  <1>1. k \in Nat /\ l \in Nat /\ HasExcess(d, k) /\ HasExcess(e, l)
    BY ExcessIs
  <1> HIDE DEF k, l
  <1> SUFFICES ASSUME l < k PROVE FALSE
    BY <1>1 DEF k, l
  <1>2. /\ Digits \in Nat /\ k # 0 /\ l + Digits \in Nat /\ k - 1 + Digits \in Nat
        /\ l + Digits <= k - 1 + Digits
    BY <1>1, DigitsKept
  <1>3. PowerOf10[l + Digits] <= PowerOf10[k - 1 + Digits]
        /\ PowerOf10[l + Digits] \in Nat /\ PowerOf10[k - 1 + Digits] \in Nat
    BY <1>2, PowerGrows, PowerExceeds
  <1>4. e < PowerOf10[l + Digits] /\ d >= PowerOf10[k - 1 + Digits]
    BY <1>1, <1>2 DEF HasExcess
  <1> QED
    BY <1>3, <1>4

\* A number less than half a unit away from a decimal is written as it.
LEMMA WrittenAgain ==
  ASSUME NEW t \in Nat, Shortened(t) = t, NEW x \in Nat,
         2 * Distance(x, t) < PowerOf10[Excess[IF x < t THEN x ELSE t]]
  PROVE  Shortened(x) = t
  <1> DEFINE k == Excess[IF x < t THEN x ELSE t]
             s == PowerOf10[k]
  <1>1. k \in Nat /\ k <= Excess[t] /\ (x < t => k = Excess[x]) /\ (x >= t => k = Excess[t])
    BY ExcessIs, ExcessGrows
  <1> HIDE DEF k
  <1>2. s \in Nat /\ s > 0 /\ 2 * (x - t) < s /\ 2 * (t - x) < s
    <2>1. s \in Nat /\ s > 0
      BY <1>1, PowerExceeds
    <2>2. 2 * Distance(x, t) < s
      BY DEF k
    <2> HIDE DEF s
    <2> QED
      BY <2>1, <2>2 DEF Distance
  <1>3. PICK v \in Nat : t = s * v
    BY <1>1, ShortenedMultiple
  <1>4. k = Excess[x]
    <2>1. CASE x < t
      BY <1>1, <2>1
    <2>2. CASE ~(x < t)
      <3>1. k = Excess[t] /\ HasExcess(t, k)
        BY <1>1, <2>2, ExcessIs
      <3>2. Digits \in Nat /\ k + Digits \in Nat /\ PowerOf10[Digits] \in Nat
            /\ PowerOf10[k + Digits] = s * PowerOf10[Digits]
        <4>1. Digits \in Nat /\ k + Digits \in Nat
          BY <1>1, DigitsKept
        <4>2. PowerOf10[Digits] \in Nat
          BY <4>1, PowerExceeds
        <4>3. PowerOf10[k + Digits] = PowerOf10[k] * PowerOf10[Digits]
          BY <1>1, <4>1, PowerSum
        <4> QED
          BY <4>1, <4>2, <4>3
      <3> DEFINE p == PowerOf10[Digits]
      <3>3. x < s * p
        <4> HIDE DEF s, p
        <4>1. s * v < s * p
          BY <1>3, <3>1, <3>2 DEF HasExcess, p
        <4>2. v < p /\ p \in Nat
          BY <1>2, <3>2, <4>1, TimesReflects DEF p
        <4>3. s * (v + 1) <= s * p /\ s * p \in Nat
          BY <1>2, <4>2, TimesGrows
        <4>4. s * (v + 1) = t + s
          BY <1>2, <1>3, Product
        <4> DEFINE a == s * p
        <4>5. t + s <= a /\ a \in Nat
          BY <4>3, <4>4
        <4> HIDE DEF a
        <4>6. x < a
          BY <1>2, <2>2, <4>5
        <4> QED
          BY <4>6 DEF a
      <3>4. HasExcess(x, k)
        <4>1. k # 0 => x >= PowerOf10[k - 1 + Digits]
          <5>1. k # 0 => t >= PowerOf10[k - 1 + Digits] /\ PowerOf10[k - 1 + Digits] \in Nat
            BY <1>1, <3>1, <3>2, PowerExceeds DEF HasExcess
          <5> QED
            BY <2>2, <5>1
        <4> QED
          BY <3>2, <3>3, <4>1 DEF HasExcess
      <3> QED
        BY <1>1, <3>4, ExcessIs
    <2> QED
      BY <2>1, <2>2
  <1>5. Nearest(x, s) = t
    <2> HIDE DEF s
    <2> QED
      BY <1>2, <1>3, NearestUnique
  <1>6. Shortened(x) = Nearest(x, s)
    BY <1>4, NotSpecial DEF Shortened
  <1> QED
    BY <1>5, <1>6

-----------------------------------------------------------------------------
(* What the reader makes of a decimal *)

LEMMA DoubleType ==
  /\ Infinite \in Nat /\ MinNormal \in Nat /\ 0 < MinNormal /\ MinNormal < Infinite
  /\ \A n \in 0..Infinite : Double[n] \in Nat
  BY DoubleAssumption

LEMMA DoubleGrows ==
  ASSUME NEW m \in 0..Infinite, NEW n \in 0..Infinite, m <= n
  PROVE  Double[m] <= Double[n] /\ (m < n => Double[m] < Double[n])
  <1> DEFINE N == {i \in Nat : m + i <= Infinite => Double[m] + i <= Double[m + i]}
  <1>0. m \in Nat /\ n \in Nat /\ Infinite \in Nat
    BY DoubleType
  <1>1. 0 \in N
    <2>1. m + 0 = m /\ Double[m] \in Nat
      BY <1>0, DoubleType
    <2> QED
      BY <2>1
  <1>2. ASSUME NEW i \in N PROVE i + 1 \in N
    <2> SUFFICES ASSUME m + (i + 1) <= Infinite
                 PROVE  Double[m] + (i + 1) <= Double[m + (i + 1)]
      OBVIOUS
    <2>1. m + i \in 0..(Infinite - 1) /\ (m + i) + 1 = m + (i + 1) /\ m + i \in 0..Infinite
          /\ m + (i + 1) \in 0..Infinite
      BY <1>0
    <2>2. Double[m + i] < Double[(m + i) + 1]
      BY <2>1, DoubleAssumption
    <2>3. Double[m] \in Nat /\ Double[m + i] \in Nat /\ Double[m + (i + 1)] \in Nat
      BY <2>1, DoubleType
    <2>4. Double[m] + i <= Double[m + i]
      BY <1>0, <2>1
    <2> QED
      BY <2>1, <2>2, <2>3, <2>4
  <1> HIDE DEF N
  <1>3. N = Nat
    BY <1>1, <1>2, Induction DEF N
  <1>4. n - m \in N /\ m + (n - m) = n
    BY <1>0, <1>3
  <1>5. Double[m] + (n - m) <= Double[n]
    BY <1>0, <1>4 DEF N
  <1> QED
    BY <1>0, <1>5, DoubleType

IsBelow(n, t) ==
  /\ n \in 0..Infinite
  /\ Double[n] <= t
  /\ n = Infinite \/ t < Double[n + 1]

LEMMA BelowIs ==
  ASSUME NEW t \in Nat
  PROVE  IsBelow(Below(t), t)
  <1> DEFINE T == {i \in Nat : i <= Infinite /\ Double[Infinite - i] <= t}
  <1>0. Infinite \in Nat
    BY DoubleType
  <1>1. Infinite \in T
    <2>1. Infinite - Infinite = 0 /\ Double[0] = 0
      BY <1>0, DoubleAssumption
    <2> QED
      BY <1>0, <2>1
  <1>2. PICK i \in T : \A j \in T : i <= j
    BY <1>1, LeastNumber
  <1> DEFINE n == Infinite - i
  <1>3. n \in 0..Infinite /\ Double[n] <= t
    BY <1>0, <1>2
  <1>4. ASSUME n # Infinite PROVE t < Double[n + 1]
    <2>1. i - 1 \in Nat /\ i - 1 <= Infinite /\ n + 1 = Infinite - (i - 1)
          /\ n + 1 \in 0..Infinite
      BY <1>0, <1>2, <1>4
    <2>2. i - 1 \notin T
      BY <1>2, <2>1
    <2>3. ~(Double[n + 1] <= t) /\ Double[n + 1] \in Nat
      BY <2>1, <2>2, DoubleType
    <2> QED
      BY <2>3
  <1> HIDE DEF n
  <1> QED
    BY <1>3, <1>4 DEF Below, IsBelow

LEMMA BelowGrows ==
  ASSUME NEW t \in Nat, NEW u \in Nat, t <= u
  PROVE  Below(t) <= Below(u)
  <1> DEFINE m == Below(t)
             n == Below(u)
  <1>1. IsBelow(m, t) /\ IsBelow(n, u)
    BY BelowIs
  <1> HIDE DEF m, n
  <1>2. m \in 0..Infinite /\ n \in 0..Infinite /\ Infinite \in Nat
    BY <1>1, DoubleType DEF IsBelow
  <1> SUFFICES ASSUME n < m PROVE FALSE
    BY <1>2 DEF m, n
  <1>3. n # Infinite /\ n + 1 \in 0..Infinite /\ n + 1 <= m
    BY <1>2
  <1>4. Double[n + 1] <= Double[m] /\ Double[n + 1] \in Nat /\ Double[m] \in Nat
    BY <1>2, <1>3, DoubleGrows, DoubleType
  <1>5. u < Double[n + 1] /\ Double[m] <= t
    BY <1>1, <1>3 DEF IsBelow
  <1> QED
    BY <1>4, <1>5

\* t is nearer to the double after the n-th, or as near and that one is even.
IsUp(n, t) ==
  \/ 2 * t > Double[n] + Double[n + 1]
  \/ 2 * t = Double[n] + Double[n + 1] /\ n % 2 = 1

LEMMA PatternIs ==
  ASSUME NEW t \in Nat, NEW n, n = Below(t)
  PROVE  /\ n \in 0..Infinite /\ Pattern(t) \in 0..Infinite
         /\ n < Infinite /\ IsUp(n, t) => Pattern(t) = n + 1
         /\ ~(n < Infinite /\ IsUp(n, t)) => Pattern(t) = n
  <1>1. n \in 0..Infinite /\ Infinite \in Nat
    BY BelowIs, DoubleType DEF IsBelow
  <1>2. Pattern(t) = IF n < Infinite /\ IsUp(n, t) THEN n + 1 ELSE n
    BY DEF Pattern, IsUp
  <1> QED
    BY <1>1, <1>2

LEMMA PatternGrows ==
  ASSUME NEW t \in Nat, NEW u \in Nat, t <= u
  PROVE  Pattern(t) <= Pattern(u)
  <1> DEFINE m == Below(t)
             n == Below(u)
  <1>1. m <= n
    BY BelowGrows
  <1>2. /\ m \in 0..Infinite /\ Pattern(t) \in 0..Infinite
        /\ m < Infinite /\ IsUp(m, t) => Pattern(t) = m + 1
        /\ ~(m < Infinite /\ IsUp(m, t)) => Pattern(t) = m
    BY PatternIs
  <1>3. /\ n \in 0..Infinite /\ Pattern(u) \in 0..Infinite
        /\ n < Infinite /\ IsUp(n, u) => Pattern(u) = n + 1
        /\ ~(n < Infinite /\ IsUp(n, u)) => Pattern(u) = n
    BY PatternIs
  <1> HIDE DEF m, n
  <1>4. Infinite \in Nat
    BY DoubleType
  <1>5. CASE m = n
    <2>1. CASE m < Infinite /\ IsUp(m, t)
      <3>1. n + 1 \in 0..Infinite
        BY <1>3, <1>4, <1>5, <2>1
      <3>2. Double[n] \in Nat /\ Double[n + 1] \in Nat
        BY <1>3, <3>1, DoubleType
      <3>3. IsUp(n, u)
        BY <1>5, <2>1, <3>2 DEF IsUp
      <3> QED
        BY <1>2, <1>3, <1>5, <2>1, <3>3
    <2>2. CASE ~(m < Infinite /\ IsUp(m, t))
      BY <1>2, <1>3, <1>5, <2>2
    <2> QED
      BY <2>1, <2>2
  <1>6. CASE m # n
    <2>1. m + 1 <= n
      BY <1>1, <1>2, <1>3, <1>6
    <2>2. Pattern(t) <= m + 1 /\ n <= Pattern(u)
      BY <1>2, <1>3
    <2> QED
      BY <1>2, <1>3, <2>1, <2>2
  <1> QED
    BY <1>5, <1>6

\* A double is read as itself.
LEMMA PatternOfDouble ==
  ASSUME NEW n \in 0..(Infinite - 1)
  PROVE  Pattern(Double[n]) = n
  <1> DEFINE t == Double[n]
             m == Below(t)
  <1>0. Infinite \in Nat /\ n \in 0..Infinite /\ n + 1 \in 0..Infinite /\ n < Infinite
    BY DoubleType
  <1>1. t \in Nat /\ Double[n + 1] \in Nat /\ t < Double[n + 1]
    BY <1>0, DoubleType, DoubleAssumption
  <1>2. IsBelow(m, t)
    BY <1>1, BelowIs
  <1>3. /\ m < Infinite /\ IsUp(m, t) => Pattern(t) = m + 1
        /\ ~(m < Infinite /\ IsUp(m, t)) => Pattern(t) = m
    BY <1>1, PatternIs
  <1> HIDE DEF m
  <1>4. m \in 0..Infinite
    BY <1>2 DEF IsBelow
  <1>5. ~(n < m)
    <2> SUFFICES ASSUME n < m PROVE FALSE
      OBVIOUS
    <2>1. n + 1 <= m
      BY <1>0, <1>4
    <2>2. Double[n + 1] <= Double[m] /\ Double[m] \in Nat
      BY <1>0, <1>4, <2>1, DoubleGrows, DoubleType
    <2>3. Double[m] <= t
      BY <1>2 DEF IsBelow
    <2> QED
      BY <1>1, <2>2, <2>3
  <1>6. ~(m < n)
    <2> SUFFICES ASSUME m < n PROVE FALSE
      OBVIOUS
    <2>1. m + 1 \in 0..Infinite /\ m + 1 <= n /\ m # Infinite
      BY <1>0, <1>4
    <2>2. Double[m + 1] <= t /\ Double[m + 1] \in Nat
      BY <1>0, <2>1, DoubleGrows, DoubleType
    <2>3. t < Double[m + 1]
      BY <1>2, <2>1 DEF IsBelow
    <2> QED
      BY <1>1, <2>2, <2>3
  <1>7. m = n
    BY <1>0, <1>4, <1>5, <1>6
  <1>8. ~IsUp(n, t)
    <2> HIDE DEF t
    <2>1. t = Double[n]
      BY DEF t
    <2> QED
      BY <1>1, <2>1 DEF IsUp
  <1> QED
    BY <1>3, <1>7, <1>8

\* Half the distance of the doubles around it
LEMMA ReadClose ==
  ASSUME NEW t \in Nat, Pattern(t) # Infinite
  PROVE  /\ Double[Pattern(t)] \in Nat /\ Gap(t) \in Nat
         /\ 2 * Distance(t, Double[Pattern(t)]) <= Gap(t)
  <1> DEFINE n == Below(t)
  <1>1. IsBelow(n, t)
    BY BelowIs
  <1>2. /\ n \in 0..Infinite /\ Pattern(t) \in 0..Infinite
        /\ n < Infinite /\ IsUp(n, t) => Pattern(t) = n + 1
        /\ ~(n < Infinite /\ IsUp(n, t)) => Pattern(t) = n
    BY PatternIs
  <1>3. Gap(t) = Double[n + 1] - Double[n]
    BY DEF Gap
  <1> HIDE DEF n
  <1>4. n < Infinite /\ n + 1 \in 0..Infinite
    BY <1>2, DoubleType
  <1>5. Double[n] \in Nat /\ Double[n + 1] \in Nat /\ Double[n] <= t /\ t < Double[n + 1]
    BY <1>1, <1>2, <1>4, DoubleType DEF IsBelow
  <1>6. CASE IsUp(n, t)
    <2>1. Double[Pattern(t)] = Double[n + 1]
      BY <1>2, <1>4, <1>6
    <2>2. 2 * t >= Double[n] + Double[n + 1]
      BY <1>5, <1>6 DEF IsUp
    <2> QED
      BY <1>3, <1>5, <2>1, <2>2 DEF Distance
  <1>7. CASE ~IsUp(n, t)
    <2>1. Double[Pattern(t)] = Double[n]
      BY <1>2, <1>7
    <2>2. 2 * t <= Double[n] + Double[n + 1]
      BY <1>5, <1>7 DEF IsUp
    <2> QED
      BY <1>3, <1>5, <2>1, <2>2 DEF Distance
  <1> QED
    BY <1>6, <1>7

-----------------------------------------------------------------------------
(* A double, written and read *)

Doubles == Finite \cup Special

LEMMA DoubleIs ==
  ASSUME NEW d \in Doubles
  PROVE  /\ d \in Special => AsScraped(d) = d /\ Shortened(d) = d /\ ~Unreadable(d)
         /\ d \notin Special =>
              /\ d \in Nat /\ d \in Finite
              /\ Shortened(d) \in Nat /\ Shortened(d) \notin Special
              /\ AsScraped(d) = Double[Pattern(Shortened(d))]
              /\ AsScraped(d) \in Nat
              /\ Unreadable(d) <=> \/ Pattern(Shortened(d)) = Infinite
                                   \/ /\ Pattern(Shortened(d)) < MinNormal
                                      /\ AsScraped(d) # Shortened(d)
  <1>1. CASE d \in Special
    <2>1. Shortened(d) = d
      BY <1>1 DEF Shortened
    <2> QED
      BY <1>1, <2>1 DEF AsScraped, Unreadable, DoubleThrows, ReadDouble, WriteDouble, Text
  <1>2. CASE d \notin Special
    <2>1. d \in Finite /\ d \in Nat
      BY <1>2, DoubleAssumption DEF Doubles, Finite
    <2> DEFINE t == Shortened(d)
    <2>2. t \in Nat /\ t \notin Special
      BY <2>1, ShortenedType, NotSpecial
    <2>3. WriteDouble(d).v = t
      BY DEF WriteDouble, Text
    <2>4. AsScraped(d) = Double[Pattern(t)]
      BY <2>2, <2>3 DEF AsScraped, ReadDouble
    <2>5. Double[Pattern(t)] \in Nat
      BY <2>2, PatternIs, DoubleType
    <2>6. Unreadable(d) <=> \/ Pattern(t) = Infinite
                            \/ Pattern(t) < MinNormal /\ Double[Pattern(t)] # t
      BY <2>2, <2>3 DEF Unreadable, DoubleThrows
    <2> QED
      BY <1>2, <2>1, <2>2, <2>4, <2>5, <2>6
  <1> QED
    BY <1>1, <1>2

\* What is written as it is, is read as it is.
LEMMA ScrapedExactly ==
  ASSUME NEW d \in Doubles, Shortened(d) = d
  PROVE  AsScraped(d) = d
  <1>1. CASE d \in Special
    BY <1>1, DoubleIs
  <1>2. CASE d \notin Special
    <2>1. AsScraped(d) = Double[Pattern(d)] /\ d \in Finite
      BY <1>2, DoubleIs
    <2>2. PICK n \in 0..(Infinite - 1) : d = Double[n]
      BY <2>1 DEF Finite
    <2>3. Pattern(d) = n
      BY <2>2, PatternOfDouble
    <2> QED
      BY <2>1, <2>2, <2>3
  <1> QED
    BY <1>1, <1>2

LEMMA ScrapedClose ==
  ASSUME NEW d \in Doubles, ~Unreadable(d)
  PROVE  Close(d, AsScraped(d))
  <1>1. CASE d \in Special
    BY <1>1, DoubleIs DEF Close
  <1>2. CASE d \notin Special
    <2> DEFINE t == Shortened(d)
               b == AsScraped(d)
    <2>1. /\ d \in Nat /\ t \in Nat /\ b \in Nat /\ b = Double[Pattern(t)]
          /\ Pattern(t) # Infinite
      BY <1>2, DoubleIs
    <2>2. Gap(t) \in Nat /\ 2 * Distance(t, b) <= Gap(t)
      BY <2>1, ReadClose
    <2>3. 2 * Distance(d, t) <= PowerOf10[Excess[d]]
      BY <2>1, ShortenedClose
    <2>4. PowerOf10[Excess[d]] \in Nat
      BY <2>1, ExcessIs, PowerExceeds
    <2>5. t = d => b = d
      BY ScrapedExactly
    <2>6. b \notin Special
      BY <2>1, NotSpecial
    <2> HIDE DEF t, b
    <2>7. 2 * Distance(d, b) <= PowerOf10[Excess[d]] + Gap(t)
      BY <2>1, <2>2, <2>3, <2>4 DEF Distance
    <2> QED
      BY <1>2, <2>5, <2>6, <2>7 DEF Close, t, b
  <1> QED
    BY <1>1, <1>2

LEMMA ScrapedRewritten ==
  ASSUME NEW d \in Doubles, Recalls(WriteDouble(d))
  PROVE  WriteDouble(AsScraped(d)) = WriteDouble(d)
  <1>1. CASE d \in Special
    BY <1>1, DoubleIs
  <1>2. CASE d \notin Special
    <2> DEFINE t == Shortened(d)
               x == AsScraped(d)
    <2>1. d \in Nat /\ t \in Nat /\ t \notin Special /\ x \in Nat
      BY <1>2, DoubleIs
    <2>2. WriteDouble(d).v = t /\ ReadDouble(WriteDouble(d)) = x
      BY DEF WriteDouble, Text, AsScraped
    <2>3. Shortened(t) = t
      BY <2>1, ShortenedTwice
    <2> HIDE DEF t, x
    <2>4. 2 * Distance(x, t) < PowerOf10[Excess[IF x < t THEN x ELSE t]]
      BY <2>1, <2>2 DEF Recalls
    <2>5. Shortened(x) = t
      BY <2>1, <2>3, <2>4, WrittenAgain
    <2> QED
      BY <2>5 DEF WriteDouble, t, x
  <1> QED
    BY <1>1, <1>2

LEMMA ScrapedGrows ==
  ASSUME NEW a \in Nat, NEW b \in Nat, a <= b
  PROVE  AsScraped(a) <= AsScraped(b)
  <1> DEFINE t == Shortened(a)
             u == Shortened(b)
  <1>1. t \in Nat /\ u \in Nat /\ t <= u /\ t \notin Special /\ u \notin Special
    BY ShortenedType, ShortenedGrows, NotSpecial
  <1>2. AsScraped(a) = Double[Pattern(t)] /\ AsScraped(b) = Double[Pattern(u)]
    BY <1>1 DEF AsScraped, ReadDouble, WriteDouble, Text
  <1> HIDE DEF t, u
  <1>3. Pattern(t) <= Pattern(u) /\ Pattern(t) \in 0..Infinite /\ Pattern(u) \in 0..Infinite
    BY <1>1, PatternGrows, PatternIs
  <1> QED
    BY <1>2, <1>3, DoubleGrows

LEMMA AsDoubleGrows ==
  ASSUME NEW a \in Nat, NEW b \in Nat, a <= b
  PROVE  AsDouble(a) \in Nat /\ AsDouble(b) \in Nat /\ AsDouble(a) <= AsDouble(b)
  <1> DEFINE p == PowerOf10[Places]
  <1>1. p \in Nat
    BY DigitsAssumption, PowerExceeds
  <1> HIDE DEF p
  <1>2. p * a <= p * b /\ p * a \in Nat /\ p * b \in Nat /\ p * a = a * p /\ p * b = b * p
    BY <1>1, TimesGrows
  <1> QED
    BY <1>2 DEF AsDouble, p

\* The whole numbers are doubles that are read without an exception.
LEMMA WholeReadable ==
  ASSUME NEW n \in 0..MaxWhole
  PROVE  AsDouble(n) \in Doubles /\ ~Unreadable(AsDouble(n))
  <1> DEFINE d == AsDouble(n)
             t == Shortened(d)
  <1>0. MaxWhole \in Nat /\ n \in Nat /\ n <= MaxWhole
    BY WholeAssumption
  <1>1. d \in Finite /\ d \in Doubles /\ d \in Nat /\ d \notin Special
    BY <1>0, WholeAssumption, AsDoubleGrows, NotSpecial DEF Doubles
  <1>2. /\ t \in Nat /\ AsScraped(d) = Double[Pattern(t)]
        /\ Unreadable(d) <=> \/ Pattern(t) = Infinite
                             \/ Pattern(t) < MinNormal /\ AsScraped(d) # t
    BY <1>1, DoubleIs
  <1>3. Infinite \in Nat /\ MinNormal \in Nat /\ MinNormal < Infinite
        /\ MinNormal \in 0..(Infinite - 1) /\ Infinite - 1 \in 0..(Infinite - 1)
        /\ Pattern(t) \in 0..Infinite
    BY <1>2, DoubleType, PatternIs
  <1>4. Pattern(t) # Infinite
    <2>1. PICK e \in 0..Infinite : /\ AsDouble(MaxWhole) <= PowerOf10[e]
                                   /\ PowerOf10[e] <= Double[Infinite - 1]
      BY WholeAssumption
    <2> DEFINE p == PowerOf10[e]
               l == Double[Infinite - 1]
    <2>2. p \in Nat /\ Shortened(p) = p /\ l \in Nat
      BY <1>3, <2>1, PowerExceeds, PowerWritten, DoubleType
    <2>3. d <= p
      <3>1. d <= AsDouble(MaxWhole) /\ AsDouble(MaxWhole) \in Nat
        BY <1>0, AsDoubleGrows
      <3> QED
        BY <1>1, <2>1, <2>2, <3>1
    <2>4. t <= p
      <3>1. Shortened(d) <= Shortened(p)
        BY <1>1, <2>2, <2>3, ShortenedGrows
      <3> QED
        BY <2>2, <3>1
    <2>5. t <= l
      BY <1>2, <2>1, <2>2, <2>4
    <2>6. Pattern(t) <= Pattern(l) /\ Pattern(l) = Infinite - 1
      BY <1>2, <1>3, <2>2, <2>5, PatternGrows, PatternOfDouble
    <2> QED
      BY <1>3, <2>6
  <1>5. CASE n = 0
    <2>1. d = 0
      BY <1>5, DigitsAssumption, PowerExceeds DEF AsDouble
    <2>2. t = 0
      <3>1. 0 < PowerOf10[Digits]
        BY DigitsKept
      <3> QED
        BY <2>1, <3>1, ShortenedExact
    <2>3. AsScraped(d) = t
      BY <1>1, <2>1, <2>2, ScrapedExactly
    <2> QED
      BY <1>1, <1>2, <1>4, <2>3
  <1>6. CASE n # 0
    <2> DEFINE o == AsDouble(1)
    <2>1. o \in Nat /\ o <= d /\ o = PowerOf10[Places] /\ Shortened(o) = o
      <3>1. o \in Nat /\ o <= d
        BY <1>0, <1>6, AsDoubleGrows
      <3>2. o = PowerOf10[Places]
        BY DigitsAssumption, PowerExceeds DEF AsDouble
      <3> QED
        BY <3>1, <3>2, DigitsAssumption, PowerWritten
    <2>2. o <= t
      <3> HIDE DEF o
      <3>1. Shortened(o) <= Shortened(d)
        BY <1>1, <2>1, ShortenedGrows
      <3> QED
        BY <2>1, <3>1
    <2>3. Double[MinNormal] <= t /\ Double[MinNormal] \in Nat
      <3>1. Double[MinNormal] <= o /\ Double[MinNormal] \in Nat
        BY <1>3, WholeAssumption, DoubleType
      <3> HIDE DEF o
      <3> QED
        BY <1>2, <2>1, <2>2, <3>1
    <2>4. Pattern(Double[MinNormal]) <= Pattern(t) /\ Pattern(Double[MinNormal]) = MinNormal
      BY <1>2, <1>3, <2>3, PatternGrows, PatternOfDouble
    <2> QED
      BY <1>1, <1>2, <1>3, <1>4, <2>4
  <1> QED
    BY <1>5, <1>6

\* A whole number of no more digits than are written is written as it is.
LEMMA WholeExact ==
  ASSUME NEW n \in Nat, n < PowerOf10[Digits]
  PROVE  Shortened(AsDouble(n)) = AsDouble(n)
  <1> DEFINE d == AsDouble(n)
             k == Excess[d]
             s == PowerOf10[k]
             w == PowerOf10[Places - k]
             q == PowerOf10[Places]
             p == PowerOf10[Digits]
  <1>0. Digits \in Nat /\ Places \in Nat
    BY DigitsAssumption
  <1>1. d \in Nat /\ k \in Nat /\ HasExcess(d, k)
    BY AsDoubleGrows, ExcessIs
  <1>2. q \in Nat /\ q > 0 /\ p \in Nat /\ PowerOf10[Places + Digits] = q * p
    <2>1. q \in Nat /\ q > 0 /\ p \in Nat
      BY <1>0, PowerExceeds
    <2>2. PowerOf10[Places + Digits] = PowerOf10[Places] * PowerOf10[Digits]
      BY <1>0, PowerSum
    <2> QED
      BY <2>1, <2>2
  <1>3. d < PowerOf10[Places + Digits]
    <2>1. d = n * q
      BY DEF AsDouble
    <2>2. q * (n + 1) <= q * p /\ q * p \in Nat
      <3> HIDE DEF q, p
      <3>1. n + 1 \in Nat /\ n + 1 <= p
        BY <1>2 DEF p
      <3> QED
        BY <1>2, <3>1, TimesGrows
    <2> HIDE DEF d, q, p
    <2>3. q * (n + 1) = q * n + q /\ q * n = n * q /\ n * q \in Nat
      BY <1>2, Product
    <2> DEFINE a == q * p
    <2>4. d + q <= a /\ a \in Nat /\ a = PowerOf10[Places + Digits]
      BY <1>2, <2>1, <2>2, <2>3
    <2> HIDE DEF a
    <2> QED
      BY <1>1, <1>2, <2>4
  <1>4. k <= Places
    <2> SUFFICES ASSUME k > Places PROVE FALSE
      BY <1>0, <1>1
    <2> HIDE DEF k, d
    <2>1. /\ k # 0 /\ Places + Digits \in Nat /\ k - 1 + Digits \in Nat
          /\ Places + Digits <= k - 1 + Digits
      BY <1>0, <1>1
    <2>2. PowerOf10[Places + Digits] <= PowerOf10[k - 1 + Digits]
      BY <2>1, PowerGrows
    <2>3. PowerOf10[Places + Digits] \in Nat /\ PowerOf10[k - 1 + Digits] \in Nat
      BY <2>1, PowerExceeds
    <2>4. d >= PowerOf10[k - 1 + Digits]
      BY <1>1, <2>1 DEF HasExcess
    <2> QED
      BY <1>1, <1>3, <2>2, <2>3, <2>4
  <1> HIDE DEF k
  <1>5. s \in Nat /\ s > 0 /\ w \in Nat /\ q = s * w
    <2>1. Places - k \in Nat /\ k + (Places - k) = Places
      BY <1>0, <1>1, <1>4
    <2>2. PowerOf10[k + (Places - k)] = PowerOf10[k] * PowerOf10[Places - k]
      BY <1>1, <2>1, PowerSum
    <2> QED
      BY <1>1, <2>1, <2>2, PowerExceeds
  <1>6. d = s * (n * w) /\ n * w \in Nat
    <2>1. d = n * q
      BY DEF AsDouble
    <2> HIDE DEF d, q, s, w
    <2>2. n * w \in Nat
      BY <1>5, Product
    <2> QED
      BY <1>5, <2>1, <2>2
  <1>7. Nearest(d, s) = d
    <2> HIDE DEF d, s, w
    <2> QED
      BY <1>5, <1>6, NearestOfMultiple
  <1>8. Shortened(d) = Nearest(d, s)
    BY <1>1, NotSpecial DEF Shortened, k
  <1> QED
    BY <1>7, <1>8

\* The sum of observations is at most MaxTime times their number.
LEMMA WeighedBound ==
  ASSUME NEW s \in [Durations -> Nat]
  PROVE  Weighed(s, Time) <= MaxTime * Weighed(s, One)
  <1> DEFINE f == [d \in Durations |-> Time[d] * s[d]]
             g == [d \in Durations |-> One[d] * s[d]]
             F == {T \in SUBSET Durations : /\ Total(f, T) \in Nat /\ Total(g, T) \in Nat
                                            /\ Total(f, T) <= MaxTime * Total(g, T)}
  <1>0. MaxTime \in Nat /\ Durations = 0..MaxTime /\ IsFiniteSet(Durations)
    BY MetricAssumption, DurationsFinite DEF Durations
  <1>1. ASSUME NEW d \in Durations
        PROVE  f[d] \in Nat /\ g[d] \in Nat /\ f[d] <= MaxTime * g[d]
    <2>1. d \in Nat /\ d <= MaxTime /\ s[d] \in Nat
      BY <1>0
    <2>2. f[d] = d * s[d] /\ g[d] = s[d]
      BY <2>1 DEF Time, One
    <2> HIDE DEF f, g
    <2>3. s[d] * d <= s[d] * MaxTime /\ s[d] * d \in Nat
      BY <1>0, <2>1, TimesGrows
    <2>4. s[d] * d = d * s[d] /\ s[d] * MaxTime = MaxTime * s[d]
      BY <1>0, <2>1
    <2> QED
      BY <2>1, <2>2, <2>3, <2>4
  <1> HIDE DEF f, g
  <1>2. {} \in F
    BY <1>0, TotalEmpty
  <1>3. ASSUME NEW T \in F, NEW x \in Durations \ T PROVE T \cup {x} \in F
    <2>1. IsFiniteSet(T) /\ T \cup {x} \in SUBSET Durations
      BY <1>0, FS_Subset
    <2>2. /\ Total(f, T) \in Nat /\ Total(g, T) \in Nat
          /\ Total(f, T) <= MaxTime * Total(g, T)
      OBVIOUS
    <2>5. f[x] \in Nat /\ g[x] \in Nat /\ f[x] <= MaxTime * g[x]
      BY <1>1
    <2>10. x \notin T /\ f[x] \in Int /\ g[x] \in Int
           /\ (\A y \in T : f[y] \in Int) /\ (\A y \in T : g[y] \in Int)
      BY <1>1, <2>5
    <2>3. Total(f, T \cup {x}) = Total(f, T) + f[x]
      BY ONLY <2>1, <2>10, TotalAdd
    <2>4. Total(g, T \cup {x}) = Total(g, T) + g[x]
      BY ONLY <2>1, <2>10, TotalAdd
    <2> DEFINE a == Total(f, T)
               b == Total(g, T)
    <2>6. MaxTime * (b + g[x]) = MaxTime * b + MaxTime * g[x]
      BY <1>0, <2>2, <2>5, Distributive
    <2>7. MaxTime * b \in Nat /\ MaxTime * g[x] \in Nat
      BY <1>0, <2>2, <2>5, Product
    <2>8. a + f[x] <= MaxTime * (b + g[x])
      <3> DEFINE u == MaxTime * b
                 v == MaxTime * g[x]
      <3>1. u \in Nat /\ v \in Nat /\ a <= u /\ f[x] <= v /\ a \in Nat
            /\ MaxTime * (b + g[x]) = u + v
        BY <2>2, <2>5, <2>6, <2>7
      <3> HIDE DEF u, v, a, b
      <3> QED
        BY <2>5, <3>1
    <2> HIDE DEF F
    <2>9. /\ Total(f, T \cup {x}) \in Nat /\ Total(g, T \cup {x}) \in Nat
          /\ Total(f, T \cup {x}) <= MaxTime * Total(g, T \cup {x})
      BY <2>2, <2>3, <2>4, <2>5, <2>8
    <2> QED
      BY <2>1, <2>9 DEF F
  <1>4. Durations \in F
    <2>1. F \in SUBSET SUBSET Durations
      OBVIOUS
    <2> HIDE DEF F
    <2> QED
      BY <1>0, <1>2, <1>3, <2>1, SetInduction
  <1> QED
    BY <1>4 DEF Weighed, f, g

\* What is counted and summed up are whole numbers.
LEMMA CountedWhole ==
  ASSUME IInv, NEW m \in Metrics
  PROVE  started[m] \in 0..MaxWhole /\ Sum(m) \in 0..MaxWhole
  <1>0. /\ MaxWhole \in Nat /\ MaxStarts \in Nat /\ MaxTime \in Nat
        /\ MaxStarts <= MaxWhole /\ MaxTime * MaxStarts <= MaxWhole
    BY WholeAssumption, MetricAssumption
  <1>1. TypeInv /\ started[m] = Held(m, One) /\ started[m] \in 0..MaxStarts
    BY DEF IInv, HeldInv, TypeInv
  <1> DEFINE c == Weighed(samples[m], One)
             p == Pending(queue, timer, m, One, clock)
  <1>2. c \in Nat /\ p \in Nat /\ started[m] = c + p
    <2>1. c \in Nat
      BY <1>1, WeighedType, WeightsType DEF TypeInv
    <2>2. p \in Nat
      <3>1. /\ InQueues(queue, m, One, clock) \in Nat
            /\ InTimers(timer, m, One, clock) \in Nat
        BY <1>1, PendingType, WeightsType DEF TypeInv
      <3> QED
        BY <3>1 DEF Pending
    <2> QED
      BY <1>1, <2>1, <2>2 DEF Held
  <1>3. Sum(m) = Weighed(samples[m], Time) /\ Sum(m) \in Nat
    BY <1>1, CountAndSum, WeighedType, WeightsType DEF TypeInv
  <1>4. Sum(m) <= MaxTime * c
    BY <1>1, <1>3, WeighedBound DEF TypeInv
  <1> HIDE DEF c, p
  <1>5. c <= MaxStarts
    BY <1>0, <1>1, <1>2
  <1>6. MaxTime * c <= MaxTime * MaxStarts /\ MaxTime * c \in Nat /\ MaxTime * MaxStarts \in Nat
    BY <1>0, <1>2, <1>5, TimesGrows
  <1> DEFINE a == MaxTime * c
             b == MaxTime * MaxStarts
  <1>7. a \in Nat /\ b \in Nat /\ Sum(m) <= a /\ a <= b /\ b <= MaxWhole
    BY <1>0, <1>4, <1>6
  <1> HIDE DEF a, b
  <1> QED
    BY <1>0, <1>1, <1>3, <1>7

-----------------------------------------------------------------------------
(* What is scraped only grows *)

\* Every step observes some timers, or leaves what was observed alone.
LEMMA StepObserves ==
  ASSUME TypeInv, Next
  PROVE  samples' = samples \/ \E ts \in Seq(Running(clock)) : samples' = Observed(ts)
  <1>1. /\ \A q \in Queues : queue[q] \in Seq(Running(clock))
        /\ \A t \in Timers : timer[t] \in Running(clock)
    BY DEF TypeInv, AllQueues, AllTimers
  <1>2. ASSUME NEW q \in Queues, Pop(q)
        PROVE  \E ts \in Seq(Running(clock)) : samples' = Observed(ts)
    <2>1. Head(queue[q]) \in Running(clock)
      BY <1>1, <1>2 DEF Pop
    <2>2. <<Head(queue[q])>> \in Seq(Running(clock))
      BY <2>1
    <2> QED
      BY <1>2, <2>2 DEF Pop
  <1>3. ASSUME NEW t \in Timers, samples' = Observed(<<timer[t]>>)
        PROVE  \E ts \in Seq(Running(clock)) : samples' = Observed(ts)
    <2>1. timer[t] \in Running(clock)
      BY <1>1
    <2>2. <<timer[t]>> \in Seq(Running(clock))
      BY <2>1
    <2> QED
      BY <1>3, <2>2
  <1> QED
    BY <1>1, <1>2, <1>3 DEF Next, Construct, Push, Destroy, MoveConstruct, MoveAssign,
       Reset, DestroyTimer, MoveTimer, Tick

LEMMA StepStarts ==
  ASSUME TypeInv, TypeInv', Next, NEW m \in Metrics
  PROVE  started[m] \in Nat /\ started'[m] \in Nat /\ started'[m] >= started[m]
  <1>1. started[m] \in Nat /\ started'[m] \in Nat
    BY MetricAssumption DEF TypeInv
  <1>2. ASSUME NEW p, Increment(p) PROVE started'[m] >= started[m]
    BY <1>1, <1>2 DEF Increment, TypeInv
  <1>3. started' = started \/ \E p : Increment(p)
    BY DEF Next, Construct, Push, Pop, Destroy, MoveConstruct, MoveAssign,
       Reset, DestroyTimer, MoveTimer, Tick
  <1> QED
    BY <1>1, <1>2, <1>3

LEMMA SumWeighed ==
  ASSUME NEW s
  PROVE  Total([d \in Durations |-> d * s[d]], Durations) = Weighed(s, Time)
  <1>1. [d \in Durations |-> d * s[d]] = [d \in Durations |-> Time[d] * s[d]]
    BY DEF Time
  <1> QED
    BY <1>1 DEF Weighed

LEMMA StepSums ==
  ASSUME TypeInv, Next, NEW m \in Metrics
  PROVE  Sum(m) \in Nat /\ Sum(m)' \in Nat /\ Sum(m)' >= Sum(m)
  <1>1. Sum(m) = Weighed(samples[m], Time) /\ Sum(m)' = Weighed(samples'[m], Time)
    BY SumWeighed DEF Sum
  <1>2. Weighed(samples[m], Time) \in Nat
    BY WeighedType, WeightsType DEF TypeInv
  <1>3. CASE samples' = samples
    BY <1>1, <1>2, <1>3
  <1>4. ASSUME NEW ts \in Seq(Running(clock)), samples' = Observed(ts)
        PROVE  Weighed(samples'[m], Time) \in Nat
               /\ Weighed(samples'[m], Time) >= Weighed(samples[m], Time)
    <2>1. Weighed(samples'[m], Time) = Weighed(samples[m], Time) + InQueue(ts, m, Time, clock)
      BY <1>4, Observing, WeightsType
    <2>2. clock \in Durations
      BY DEF TypeInv
    <2>3. InQueue(ts, m, Time, clock) \in Nat
      BY <2>2, InQueueType, WeightsType
    <2> QED
      BY <1>2, <2>1, <2>3
  <1> QED
    BY <1>1, <1>2, <1>3, <1>4, StepObserves

\* prometheus::Counter and the sums of Histogram and Summary, as JsonWriter
\* writes and JsonReader reads them: whatever the digits kept and however the
\* timers move, no value read from the database is below one read before.
THEOREM ScrapesGrow == Spec => ScrapedOnlyGrows
  <1>1. ASSUME IInv, IInv', [Next]_vars
        PROVE  [\A m \in Metrics : /\ AsScraped(AsDouble(started'[m])) >= AsScraped(AsDouble(started[m]))
                                   /\ AsScraped(AsDouble(Sum(m)')) >= AsScraped(AsDouble(Sum(m)))]_<<started, samples>>
    <2>1. CASE UNCHANGED vars
      BY <2>1 DEF vars
    <2>2. CASE Next
      <3>1. TypeInv /\ TypeInv'
        BY <1>1 DEF IInv
      <3>2. ASSUME NEW a \in Nat, NEW b \in Nat, b >= a
            PROVE  AsScraped(AsDouble(b)) >= AsScraped(AsDouble(a))
        <4>1. /\ AsDouble(a) \in Nat /\ AsDouble(b) \in Nat /\ AsDouble(a) <= AsDouble(b)
          BY <3>2, AsDoubleGrows
        <4>2. AsScraped(AsDouble(a)) <= AsScraped(AsDouble(b))
          BY <4>1, ScrapedGrows
        <4> QED
          BY <4>2
      <3>3. ASSUME NEW m \in Metrics
            PROVE  /\ AsScraped(AsDouble(started'[m])) >= AsScraped(AsDouble(started[m]))
                   /\ AsScraped(AsDouble(Sum(m)')) >= AsScraped(AsDouble(Sum(m)))
        <4>1. AsScraped(AsDouble(started'[m])) >= AsScraped(AsDouble(started[m]))
          BY <2>2, <3>1, <3>2, StepStarts
        <4>2. AsScraped(AsDouble(Sum(m)')) >= AsScraped(AsDouble(Sum(m)))
          BY <2>2, <3>1, <3>2, StepSums
        <4> QED
          BY <4>1, <4>2
      <3> QED
        BY <3>3
    <2> QED
      BY <1>1, <2>1, <2>2
  <1> QED
    BY <1>1, Invariance, PTL DEF Spec, ScrapedOnlyGrows

-----------------------------------------------------------------------------
(* Sequences *)

LEMMA SequenceIs ==
  ASSUME NEW n \in Nat, NEW g, g = [i \in 1..n |-> g[i]]
  PROVE  DOMAIN g = 1..n /\ Len(g) = n
  <1>1. g \in Seq({g[i] : i \in 1..n})
    OBVIOUS
  <1> QED
    BY <1>1

\* SetToSeq lists a finite set, each element once.
LEMMA SetToSeqIs ==
  ASSUME NEW S, IsFiniteSet(S)
  PROVE  /\ Cardinality(S) \in Nat
         /\ SetToSeq(S) \in [1..Cardinality(S) -> S]
         /\ \A i, j \in 1..Cardinality(S) : SetToSeq(S)[i] = SetToSeq(S)[j] => i = j
         /\ \A x \in S : \E i \in 1..Cardinality(S) : SetToSeq(S)[i] = x
  <1> DEFINE n == Cardinality(S)
             o == SetToSeq(S)
  <1>1. n \in Nat /\ ExistsBijection(1..n, S)
    BY FS_CardinalityType
  <1>2. PICK f : f \in Bijection(1..n, S)
    BY <1>1 DEF ExistsBijection
  <1>3. f \in [1..n -> S] /\ IsInjective(f)
    BY <1>2 DEF Bijection, Injection
  <1>4. o \in [1..n -> S] /\ IsInjective(o)
    BY <1>3 DEF SetToSeq
  <1> HIDE DEF o
  <1>5. o \in Injection(1..n, S)
    BY <1>4 DEF Injection
  <1>6. Cardinality(1..n) = n
    BY <1>1, FS_Interval
  <1>7. o \in Surjection(1..n, S)
    <2>1. Cardinality(1..n) = Cardinality(S) <=> o \in Surjection(1..n, S)
      BY <1>5, FS_Injection
    <2> QED
      BY <1>6, <2>1
  <1>8. \A x \in S : \E i \in 1..n : o[i] = x
    BY <1>7 DEF Surjection
  <1>9. \A i, j \in 1..n : o[i] = o[j] => i = j
    BY <1>4 DEF IsInjective
  <1> QED
    BY <1>1, <1>4, <1>8, <1>9 DEF o

-----------------------------------------------------------------------------
(* Labels *)

\* Labels with names of their own
Labelling(l, n) ==
  /\ n \in Nat /\ l = [i \in 1..n |-> Label(l[i].name, l[i].value)]
  /\ \A i, j \in 1..n : l[i].name = l[j].name => i = j

Names(l) == {b.name : b \in Range(l)}

LEMMA NamesAre ==
  ASSUME NEW l, NEW n, Labelling(l, n)
  PROVE  /\ DOMAIN l = 1..n /\ n \in Nat /\ Len(l) = n
         /\ \A x : x \in Names(l) <=> \E i \in 1..n : x = l[i].name
         /\ IsFiniteSet(Names(l)) /\ Cardinality(Names(l)) = n
  <1>1. DOMAIN l = 1..n /\ n \in Nat
    BY DEF Labelling
  <1>2. Len(l) = n
    <2>1. l = [i \in 1..n |-> l[i]]
      BY DEF Labelling
    <2> QED
      BY <1>1, <2>1, SequenceIs
  <1>3. \A x : x \in Names(l) <=> \E i \in 1..n : x = l[i].name
    BY <1>1 DEF Names, Range
  <1> DEFINE b == [i \in 1..n |-> l[i].name]
  <1>4. b \in [1..n -> Names(l)]
    BY <1>3
  <1>5. IsInjective(b)
    BY DEF IsInjective, Labelling
  <1>6. \A x \in Names(l) : \E i \in 1..n : b[i] = x
    BY <1>3
  <1> HIDE DEF b
  <1>7. b \in Bijection(1..n, Names(l))
    BY <1>4, <1>5, <1>6 DEF Bijection, Injection, Surjection
  <1>8. IsFiniteSet(1..n) /\ Cardinality(1..n) = n
    BY <1>1, FS_Interval
  <1>9. ExistsBijection(1..n, Names(l))
    BY <1>7 DEF ExistsBijection
  <1>10. IsFiniteSet(Names(l)) /\ Cardinality(Names(l)) = Cardinality(1..n)
    BY <1>8, <1>9, FS_Bijection
  <1> QED
    BY <1>1, <1>2, <1>3, <1>8, <1>10

LEMMA LabelsWritten ==
  ASSUME NEW l, NEW n, Labelling(l, n)
  PROVE  /\ WriteLabels(l) = [x \in Names(l) |-> WriteLabels(l)[x]]
         /\ \A i \in 1..n : WriteLabels(l)[l[i].name] = Text(l[i].value)
  <1>1. WriteLabels(l) = [x \in Names(l) |-> WriteLabels(l)[x]]
    BY DEF WriteLabels, Names
  <1>2. ASSUME NEW i \in 1..n
        PROVE  WriteLabels(l)[l[i].name] = Text(l[i].value)
    <2> DEFINE c == CHOOSE k \in DOMAIN l :
                      /\ l[k].name = l[i].name
                      /\ \A j \in DOMAIN l : l[j].name = l[i].name => j <= k
    <2>1. DOMAIN l = 1..n /\ l[i].name \in Names(l) /\ n \in Nat
      BY NamesAre
    <2>2. \A j \in DOMAIN l : l[j].name = l[i].name => j = i
      BY <2>1 DEF Labelling
    <2>3. c = i
      BY <2>1, <2>2
    <2>4. WriteLabels(l)[l[i].name] = Text(l[c].value)
      BY <2>1 DEF WriteLabels, Names
    <2> QED
      BY <2>3, <2>4
  <1> QED
    BY <1>1, <1>2

\* Labels read in another order
SameLabels(l, r, n) ==
  /\ Labelling(l, n) /\ Labelling(r, n)
  /\ Range(r) = Range(l) /\ Len(r) = Len(l)

\* What is read of the labels that were written has the same labels in it.
LEMMA LabelsRead ==
  ASSUME NEW l, NEW n, Labelling(l, n), NEW mtc,
         "labels" \in DOMAIN mtc, mtc["labels"] = WriteLabels(l)
  PROVE  SameLabels(l, ReadLabels(mtc), n)
  <1> DEFINE o == SetToSeq(Names(l))
             r == ReadLabels(mtc)
  <1>1. /\ DOMAIN l = 1..n /\ n \in Nat /\ Len(l) = n
        /\ \A x : x \in Names(l) <=> \E i \in 1..n : x = l[i].name
        /\ IsFiniteSet(Names(l)) /\ Cardinality(Names(l)) = n
    BY NamesAre
  <1>2. /\ o \in [1..n -> Names(l)]
        /\ \A i, j \in 1..n : o[i] = o[j] => i = j
        /\ \A x \in Names(l) : \E i \in 1..n : o[i] = x
    BY <1>1, SetToSeqIs
  <1>3. DOMAIN WriteLabels(l) = Names(l)
    BY LabelsWritten
  <1>4. r = [i \in 1..n |-> [name |-> o[i], value |-> WriteLabels(l)[o[i]].v]]
    <2> DEFINE w == mtc["labels"]
    <2>1. w = WriteLabels(l) /\ DOMAIN w = Names(l)
      BY <1>3
    <2>2. r = [i \in DOMAIN SetToSeq(DOMAIN w) |->
                 [name |-> SetToSeq(DOMAIN w)[i], value |-> w[SetToSeq(DOMAIN w)[i]].v]]
      BY DEF ReadLabels, Mapped
    <2>3. DOMAIN o = 1..n
      BY <1>2
    <2> HIDE DEF w
    <2> QED
      BY <2>1, <2>2, <2>3
  <1> HIDE DEF o, r
  <1>5. ASSUME NEW i \in 1..n, NEW j \in 1..n, o[i] = l[j].name
        PROVE  r[i] = l[j]
    <2>1. WriteLabels(l)[l[j].name] = Text(l[j].value)
      BY LabelsWritten
    <2>2. r[i] = [name |-> l[j].name, value |-> Text(l[j].value).v]
      BY <1>4, <1>5, <2>1
    <2>3. l[j] = Label(l[j].name, l[j].value)
      BY DEF Labelling
    <2> QED
      BY <2>2, <2>3 DEF Label, Text
  <1>6. \A i \in 1..n : \E j \in 1..n : o[i] = l[j].name /\ r[i] = l[j]
    BY <1>1, <1>2, <1>5
  <1>7. ASSUME NEW j \in 1..n
        PROVE  \E i \in 1..n : o[i] = l[j].name /\ r[i] = l[j]
    <2>1. l[j].name \in Names(l)
      BY <1>1
    <2>2. PICK i \in 1..n : o[i] = l[j].name
      BY <1>2, <2>1
    <2> QED
      BY <1>5, <2>2
  <1>8. DOMAIN r = 1..n /\ Len(r) = n
    <2>1. r = [i \in 1..n |-> r[i]]
      BY <1>4
    <2> QED
      BY <1>1, <2>1, SequenceIs
  <1>9. Range(r) = Range(l)
    <2>1. \A y : y \in Range(r) <=> \E i \in 1..n : y = r[i]
      BY <1>8 DEF Range
    <2>2. \A y : y \in Range(l) <=> \E i \in 1..n : y = l[i]
      BY <1>1 DEF Range
    <2>3. \A i \in 1..n : \E j \in 1..n : r[i] = l[j]
      BY <1>6
    <2>4. \A j \in 1..n : \E i \in 1..n : r[i] = l[j]
      BY <1>7
    <2>5. Range(r) \subseteq Range(l)
      BY ONLY <2>1, <2>2, <2>3
    <2>6. Range(l) \subseteq Range(r)
      BY ONLY <2>1, <2>2, <2>4
    <2> QED
      BY <2>5, <2>6
  <1>10. Labelling(r, n)
    <2>1. \A i \in 1..n : r[i].name = o[i] /\ r[i] = Label(r[i].name, r[i].value)
      BY <1>4 DEF Label
    <2> QED
      BY <1>1, <1>2, <1>4, <2>1 DEF Labelling, Label
  <1> QED
    BY <1>1, <1>8, <1>9, <1>10 DEF SameLabels, r

\* The order of labels is not written.
LEMMA LabelsRewritten ==
  ASSUME NEW l, NEW r, NEW n, SameLabels(l, r, n)
  PROVE  WriteLabels(r) = WriteLabels(l)
  <1>1. Labelling(l, n) /\ Labelling(r, n) /\ Range(r) = Range(l)
    BY DEF SameLabels
  <1>2. Names(r) = Names(l)
    BY <1>1 DEF Names
  <1>3. DOMAIN l = 1..n /\ DOMAIN r = 1..n
        /\ \A x : x \in Names(l) <=> \E i \in 1..n : x = l[i].name
    BY <1>1, NamesAre
  <1>4. ASSUME NEW x \in Names(l) PROVE WriteLabels(r)[x] = WriteLabels(l)[x]
    <2>1. PICK i \in 1..n : x = l[i].name
      BY <1>3
    <2>2. l[i] \in Range(r)
      BY <1>1, <1>3 DEF Range
    <2>3. PICK j \in 1..n : r[j] = l[i]
      BY <1>3, <2>2 DEF Range
    <2> QED
      BY <1>1, <2>1, <2>3, LabelsWritten
  <1>5. /\ WriteLabels(l) = [x \in Names(l) |-> WriteLabels(l)[x]]
        /\ WriteLabels(r) = [x \in Names(l) |-> WriteLabels(r)[x]]
    BY <1>1, <1>2, LabelsWritten
  <1> QED
    BY <1>4, <1>5

\* A list of labels is empty if and only if there are none.
LEMMA NoLabels ==
  ASSUME NEW l, NEW n, Labelling(l, n)
  PROVE  l # <<>> <=> n # 0
  <1>1. n \in Nat /\ DOMAIN l = 1..n /\ l = [i \in 1..n |-> l[i]]
    BY DEF Labelling
  <1>2. ASSUME n = 0 PROVE l = <<>>
    <2>1. DOMAIN l = {} /\ l \in Seq({})
      BY <1>1, <1>2
    <2> QED
      BY <2>1
  <1>3. ASSUME n # 0 PROVE l # <<>>
    BY <1>1, <1>3
  <1> QED
    BY <1>2, <1>3

-----------------------------------------------------------------------------
(* Metrics, one by one *)

LEMMA MergedIs ==
  ASSUME NEW f, NEW g
  PROVE  /\ DOMAIN Merged(f, g) = DOMAIN f \cup DOMAIN g
         /\ \A x \in DOMAIN f : Merged(f, g)[x] = f[x]
         /\ \A x \in DOMAIN g : x \notin DOMAIN f => Merged(f, g)[x] = g[x]
  BY DEF Merged

\* The metadata as it is written
Metadata(l, t) == Merged(Optional(l # <<>>, [labels |-> WriteLabels(l)]),
                         Optional(t # 0, [timestamp_ms |-> Number(t)]))

LEMMA MetadataIs ==
  ASSUME NEW l, NEW t
  PROVE  /\ DOMAIN Metadata(l, t) \subseteq {"labels", "timestamp_ms"}
         /\ "labels" \in DOMAIN Metadata(l, t) <=> l # <<>>
         /\ "timestamp_ms" \in DOMAIN Metadata(l, t) <=> t # 0
         /\ l # <<>> => Metadata(l, t)["labels"] = WriteLabels(l)
         /\ t # 0 => Metadata(l, t)["timestamp_ms"] = Number(t)
  <1> DEFINE f == Optional(l # <<>>, [labels |-> WriteLabels(l)])
             g == Optional(t # 0, [timestamp_ms |-> Number(t)])
  <1>1. /\ l # <<>> => DOMAIN f = {"labels"} /\ f["labels"] = WriteLabels(l)
        /\ l = <<>> => DOMAIN f = {}
    BY DEF Optional, Null
  <1>2. /\ t # 0 => DOMAIN g = {"timestamp_ms"} /\ g["timestamp_ms"] = Number(t)
        /\ t = 0 => DOMAIN g = {}
    BY DEF Optional, Null
  <1>3. Metadata(l, t) = Merged(f, g)
    BY DEF Metadata
  <1> HIDE DEF f, g
  <1>4. /\ DOMAIN Merged(f, g) = DOMAIN f \cup DOMAIN g
        /\ \A x \in DOMAIN f : Merged(f, g)[x] = f[x]
        /\ \A x \in DOMAIN g : x \notin DOMAIN f => Merged(f, g)[x] = g[x]
    BY ONLY MergedIs
  <1> QED
    BY ONLY <1>1, <1>2, <1>3, <1>4

\* What is read of a written metric, whose values are v
LEMMA MetadataRead ==
  ASSUME NEW l, NEW n, Labelling(l, n), NEW t, NEW v,
         "labels" \notin DOMAIN v, "timestamp_ms" \notin DOMAIN v,
         NEW j, j = Merged(Metadata(l, t), v)
  PROVE  /\ SameLabels(l, ReadLabels(j), n)
         /\ ReadMetadata(j) = [label |-> ReadLabels(j), timestamp_ms |-> t]
         /\ DOMAIN v \subseteq DOMAIN j /\ \A x \in DOMAIN v : j[x] = v[x]
         /\ DOMAIN j \subseteq DOMAIN v \cup {"labels", "timestamp_ms"}
  <1> DEFINE M == Metadata(l, t)
  <1>1. /\ DOMAIN M \subseteq {"labels", "timestamp_ms"}
        /\ "labels" \in DOMAIN M <=> l # <<>>
        /\ "timestamp_ms" \in DOMAIN M <=> t # 0
        /\ l # <<>> => M["labels"] = WriteLabels(l)
        /\ t # 0 => M["timestamp_ms"] = Number(t)
    BY MetadataIs
  <1> HIDE DEF M
  <1>2. /\ DOMAIN j = DOMAIN M \cup DOMAIN v
        /\ \A x \in DOMAIN M : j[x] = M[x]
        /\ \A x \in DOMAIN v : x \notin DOMAIN M => j[x] = v[x]
    <2>1. /\ DOMAIN Merged(M, v) = DOMAIN M \cup DOMAIN v
          /\ \A x \in DOMAIN M : Merged(M, v)[x] = M[x]
          /\ \A x \in DOMAIN v : x \notin DOMAIN M => Merged(M, v)[x] = v[x]
      BY ONLY MergedIs
    <2>2. j = Merged(M, v)
      BY DEF M
    <2> QED
      BY ONLY <2>1, <2>2
  <1>3. SameLabels(l, ReadLabels(j), n)
    <2>1. CASE l # <<>>
      <3>1. "labels" \in DOMAIN j /\ j["labels"] = WriteLabels(l)
        BY <1>1, <1>2, <2>1
      <3> QED
        BY <3>1, LabelsRead
    <2>2. CASE l = <<>>
      <3>1. "labels" \notin DOMAIN j
        BY <1>1, <1>2, <2>2
      <3>2. ReadLabels(j) = l
        BY <2>2, <3>1 DEF ReadLabels
      <3> QED
        BY <3>2 DEF SameLabels
    <2> QED
      BY <2>1, <2>2
  <1>4. ReadMetadata(j) = [label |-> ReadLabels(j), timestamp_ms |-> t]
    <2>1. CASE t # 0
      <3>1. "timestamp_ms" \in DOMAIN j /\ j["timestamp_ms"] = Number(t)
        BY <1>1, <1>2, <2>1
      <3> QED
        BY <3>1 DEF ReadMetadata, Number
    <2>2. CASE t = 0
      <3>1. "timestamp_ms" \notin DOMAIN j
        BY <1>1, <1>2, <2>2
      <3> QED
        BY <2>2, <3>1 DEF ReadMetadata
    <2> QED
      BY <2>1, <2>2
  <1> QED
    BY <1>1, <1>2, <1>3, <1>4

LEMMA MetadataRewritten ==
  ASSUME NEW l, NEW r, NEW n, SameLabels(l, r, n), NEW t
  PROVE  Metadata(r, t) = Metadata(l, t)
  <1>1. WriteLabels(r) = WriteLabels(l)
    BY LabelsRewritten
  <1>2. (l # <<>>) = (r # <<>>)
    BY NoLabels DEF SameLabels
  <1> QED
    BY <1>1, <1>2 DEF Metadata, Optional

\* How the metrics of a family are read
ReadAs(type, j) ==
  CASE type \in {"Counter", "Gauge", "Untyped"} -> ReadValue(j)
    [] type = "Histogram"                       -> ReadHistogram(j)
    [] type = "Summary"                         -> ReadSummary(j)

\* Nothing is missing in what is read, and reading it throws or does not.
Whole(j, type) ==
  /\ MetricMembers(type) \subseteq DOMAIN j
  /\ "buckets" \in DOMAIN j => \A b \in Range(j["buckets"]) : {"count", "max"} \subseteq DOMAIN b
  /\ "quantiles" \in DOMAIN j =>
       \A q \in Range(j["quantiles"]) : {"quantile", "value"} \subseteq DOMAIN q

MetricThrows(j)   == \E x \in DoublesIn(j) : DoubleThrows(x)
MetricRecalled(j) == \A x \in DoublesIn(j) : Recalls(x)

\* A metric m survives being written and read.
Survives(m, type) ==
  LET j == WriteMetric(m, type)
      r == ReadAs(type, j)
  IN  /\ Whole(j, type)
      /\ ~MetricThrows(j) => SameMetric(m, r, type)
      /\ MetricRecalled(j) => WriteMetric(r, type) = j

Readable(d) == d \in Doubles /\ ~Unreadable(d)

LEMMA InfinityReadable == Readable(Inf) /\ Readable(NaN) /\ Shortened(Inf) = Inf
  <1>1. Inf \in Doubles /\ Inf \in Special /\ NaN \in Doubles /\ NaN \in Special
    BY DEF Doubles, Special
  <1> QED
    BY <1>1, DoubleIs DEF Readable

LEMMA ValueSurvives ==
  ASSUME NEW l, NEW n, Labelling(l, n), NEW t, NEW d \in Doubles,
         NEW type \in {"Counter", "Gauge", "Untyped"}
  PROVE  /\ Survives(AsValue(l, t, d), type)
         /\ MetricThrows(WriteMetric(AsValue(l, t, d), type)) <=> Unreadable(d)
  <1> DEFINE m == AsValue(l, t, d)
             v == [value |-> WriteDouble(d)]
             j == WriteMetric(m, type)
             L == ReadLabels(j)
             r == AsValue(L, t, AsScraped(d))
  <1>1. j = Merged(Metadata(l, t), v)
    BY DEF WriteMetric, AsValue, Metadata
  <1>2. DOMAIN v = {"value"} /\ v["value"] = WriteDouble(d)
    OBVIOUS
  <1> HIDE DEF v, j
  <1>3. /\ SameLabels(l, L, n)
        /\ ReadMetadata(j) = [label |-> L, timestamp_ms |-> t]
        /\ "value" \in DOMAIN j /\ j["value"] = WriteDouble(d)
        /\ DOMAIN j \subseteq {"value", "labels", "timestamp_ms"}
    <2>1. "labels" \notin DOMAIN v /\ "timestamp_ms" \notin DOMAIN v
      BY <1>2
    <2> QED
      BY <1>1, <1>2, <2>1, MetadataRead
  <1>4. ReadAs(type, j) = r
    <2>1. ReadDouble(j["value"]) = AsScraped(d)
      BY <1>3 DEF AsScraped
    <2>2. ReadValue(j) = Merged([label |-> L, timestamp_ms |-> t], [value |-> AsScraped(d)])
      BY <1>3, <2>1 DEF ReadValue
    <2>3. ReadValue(j) = r
      BY <2>2 DEF Merged, AsValue
    <2> QED
      BY <2>3 DEF ReadAs
  <1>9. DoublesIn(j) = {WriteDouble(d)}
    BY <1>3 DEF DoublesIn
  <1>8. MetricThrows(j) <=> Unreadable(d)
    BY <1>9 DEF MetricThrows, Unreadable
  <1>5. ~MetricThrows(j) => SameMetric(m, r, type)
    <2>1. ~MetricThrows(j) => Close(d, AsScraped(d))
      BY <1>8, ScrapedClose
    <2> QED
      BY <1>3, <2>1 DEF SameMetric, AsValue, SameLabels
  <1>6. ASSUME MetricRecalled(j) PROVE WriteMetric(r, type) = j
    <2>1. WriteMetric(r, type) = Merged(Metadata(L, t), [value |-> WriteDouble(AsScraped(d))])
      BY DEF WriteMetric, AsValue, Metadata
    <2>2. WriteDouble(AsScraped(d)) = WriteDouble(d)
      BY <1>6, <1>9, ScrapedRewritten DEF MetricRecalled
    <2>3. Metadata(L, t) = Metadata(l, t)
      BY <1>3, MetadataRewritten
    <2> QED
      BY <1>1, <2>1, <2>2, <2>3 DEF v
  <1>7. Whole(j, type)
    BY <1>3 DEF Whole, MetricMembers
  <1> QED
    BY <1>4, <1>5, <1>6, <1>7, <1>8 DEF Survives, j

HistogramOf(l, t, c, s, b) ==
  [label |-> l, timestamp_ms |-> t, sample_count |-> c, sample_sum |-> s, bucket |-> b]

\* Buckets, k of them, with boundaries that are written exactly
Buckets(b, k) ==
  /\ k \in Nat
  /\ b = [i \in 1..k |-> [cumulative_count |-> b[i].cumulative_count,
                          upper_bound      |-> b[i].upper_bound]]
  /\ \A i \in 1..k : Readable(b[i].upper_bound) /\ Shortened(b[i].upper_bound) = b[i].upper_bound

LEMMA BucketsRead ==
  ASSUME NEW b, NEW k, Buckets(b, k)
  PROVE  /\ Mapped(ReadBucket, Mapped(WriteBucket, b)) = b
         /\ \A w \in Range(Mapped(WriteBucket, b)) :
              {"count", "max"} \subseteq DOMAIN w /\ ~DoubleThrows(w["max"])
  <1> DEFINE w == [i \in 1..k |-> WriteBucket(b[i])]
  <1>1. Mapped(WriteBucket, b) = w
    <2>1. DOMAIN b = 1..k
      BY DEF Buckets
    <2> QED
      BY <2>1 DEF Mapped
  <1>2. DOMAIN w = 1..k /\ \A i \in 1..k : w[i] = WriteBucket(b[i])
    OBVIOUS
  <1> HIDE DEF w
  <1>3. ASSUME NEW i \in 1..k
        PROVE  /\ ReadBucket(w[i]) = b[i] /\ ~DoubleThrows(w[i]["max"])
               /\ {"count", "max"} \subseteq DOMAIN w[i]
    <2> DEFINE u == b[i].upper_bound
               c == b[i].cumulative_count
    <2>1. /\ Readable(u) /\ Shortened(u) = u
          /\ b[i] = [cumulative_count |-> c, upper_bound |-> u]
      BY DEF Buckets
    <2>2. w[i] = [max |-> WriteDouble(u), count |-> Number(c)]
      BY <1>2 DEF WriteBucket
    <2> HIDE DEF u, c
    <2>3. /\ w[i]["max"] = WriteDouble(u) /\ w[i]["count"] = Number(c)
          /\ DOMAIN w[i] = {"max", "count"}
      BY <2>2
    <2>4. ReadBucket(w[i]) = [cumulative_count |-> c, upper_bound |-> u]
      <3>1. ReadDouble(WriteDouble(u)) = u
        BY <2>1, ScrapedExactly DEF AsScraped, Readable
      <3> QED
        BY <2>3, <3>1 DEF ReadBucket, Number
    <2>5. ~DoubleThrows(WriteDouble(u))
      BY <2>1 DEF Readable, Unreadable
    <2> QED
      BY <2>1, <2>3, <2>4, <2>5
  <1>4. Mapped(ReadBucket, w) = b
    <2>1. Mapped(ReadBucket, w) = [i \in 1..k |-> ReadBucket(w[i])]
      BY <1>2 DEF Mapped
    <2>2. b = [i \in 1..k |-> b[i]]
      BY DEF Buckets
    <2> QED
      BY <1>3, <2>1, <2>2
  <1>5. \A x \in Range(w) : \E i \in 1..k : x = w[i]
    BY <1>2 DEF Range
  <1> QED
    BY <1>1, <1>3, <1>4, <1>5

LEMMA HistogramSurvives ==
  ASSUME NEW l, NEW n, Labelling(l, n), NEW t, NEW c, NEW s, Readable(s), NEW b, NEW k, Buckets(b, k)
  PROVE  /\ Survives(HistogramOf(l, t, c, s, b), "Histogram")
         /\ ~MetricThrows(WriteMetric(HistogramOf(l, t, c, s, b), "Histogram"))
  <1> DEFINE m == HistogramOf(l, t, c, s, b)
             w == Mapped(WriteBucket, b)
             v == [count |-> Number(c), sum |-> WriteDouble(s), buckets |-> w]
             j == WriteMetric(m, "Histogram")
             L == ReadLabels(j)
             r == HistogramOf(L, t, c, AsScraped(s), b)
  <1>0. s \in Doubles /\ ~DoubleThrows(WriteDouble(s))
    BY DEF Readable, Unreadable
  <1>1. j = Merged(Metadata(l, t), v)
    BY DEF WriteMetric, HistogramOf, Metadata
  <1>2. /\ DOMAIN v = {"count", "sum", "buckets"} /\ v["count"] = Number(c)
        /\ v["sum"] = WriteDouble(s) /\ v["buckets"] = w
    OBVIOUS
  <1> HIDE DEF v, j, w
  <1>3. /\ SameLabels(l, L, n)
        /\ ReadMetadata(j) = [label |-> L, timestamp_ms |-> t]
        /\ {"count", "sum", "buckets"} \subseteq DOMAIN j
        /\ j["count"] = Number(c) /\ j["sum"] = WriteDouble(s) /\ j["buckets"] = w
        /\ DOMAIN j \subseteq {"count", "sum", "buckets", "labels", "timestamp_ms"}
    <2>1. "labels" \notin DOMAIN v /\ "timestamp_ms" \notin DOMAIN v
      BY <1>2
    <2>2. /\ SameLabels(l, L, n)
          /\ ReadMetadata(j) = [label |-> L, timestamp_ms |-> t]
          /\ DOMAIN v \subseteq DOMAIN j /\ \A x \in DOMAIN v : j[x] = v[x]
          /\ DOMAIN j \subseteq DOMAIN v \cup {"labels", "timestamp_ms"}
      BY <1>1, <2>1, MetadataRead
    <2> QED
      BY <1>2, <2>2
  <1>4. ReadAs("Histogram", j) = r
    <2>1. /\ ReadDouble(j["sum"]) = AsScraped(s) /\ j["count"].v = c
          /\ Mapped(ReadBucket, j["buckets"]) = b
      BY <1>3, BucketsRead DEF AsScraped, Number, w
    <2>2. ReadHistogram(j)
            = Merged([label |-> L, timestamp_ms |-> t],
                     [sample_count |-> c, sample_sum |-> AsScraped(s), bucket |-> b])
      BY <1>3, <2>1 DEF ReadHistogram
    <2>3. ReadHistogram(j) = r
      BY <2>2 DEF Merged, HistogramOf
    <2> QED
      BY <2>3 DEF ReadAs
  <1>5. SameMetric(m, r, "Histogram")
    <2>1. Close(s, AsScraped(s))
      BY ScrapedClose DEF Readable
    <2> QED
      BY <1>3, <2>1 DEF SameMetric, HistogramOf, SameLabels
  <1>6. ASSUME MetricRecalled(j) PROVE WriteMetric(r, "Histogram") = j
    <2>1. WriteMetric(r, "Histogram")
            = Merged(Metadata(L, t), [count |-> Number(c), sum |-> WriteDouble(AsScraped(s)),
                                      buckets |-> w])
      BY DEF WriteMetric, HistogramOf, Metadata, w
    <2>2. WriteDouble(AsScraped(s)) = WriteDouble(s)
      <3>1. WriteDouble(s) \in DoublesIn(j)
        BY <1>3 DEF DoublesIn
      <3> QED
        BY <1>0, <1>6, <3>1, ScrapedRewritten DEF MetricRecalled
    <2>3. Metadata(L, t) = Metadata(l, t)
      BY <1>3, MetadataRewritten
    <2> QED
      BY <1>1, <2>1, <2>2, <2>3 DEF v
  <1>7. /\ \A x \in Range(w) : {"count", "max"} \subseteq DOMAIN x /\ ~DoubleThrows(x["max"])
        /\ ~DoubleThrows(j["sum"])
    BY <1>0, <1>3, BucketsRead DEF w
  <1>8. Whole(j, "Histogram")
    BY <1>3, <1>7 DEF Whole, MetricMembers
  <1>9. ~MetricThrows(j)
    <2>1. \A x \in DoublesIn(j) : x = j["sum"] \/ \E b1 \in Range(w) : x = b1["max"]
      BY <1>3 DEF DoublesIn
    <2> QED
      BY <1>7, <2>1 DEF MetricThrows
  <1> QED
    BY <1>4, <1>5, <1>6, <1>8, <1>9 DEF Survives, j

SummaryOf(l, t, c, s, q) ==
  [label |-> l, timestamp_ms |-> t, sample_count |-> c, sample_sum |-> s, quantile |-> q]

Quantiles(q, k) ==
  /\ k \in Nat
  /\ q = [i \in 1..k |-> [quantile |-> q[i].quantile, value |-> q[i].value]]
  /\ \A i \in 1..k : Readable(q[i].quantile) /\ Readable(q[i].value)

LEMMA QuantilesRead ==
  ASSUME NEW q, NEW k, Quantiles(q, k), NEW z, z = Mapped(ReadQuantile, Mapped(WriteQuantile, q))
  PROVE  /\ z = [i \in 1..k |-> [quantile |-> AsScraped(q[i].quantile),
                                 value    |-> AsScraped(q[i].value)]]
         /\ (\A w \in Range(Mapped(WriteQuantile, q)) : Recalls(w["quantile"]) /\ Recalls(w["value"]))
              => Mapped(WriteQuantile, z) = Mapped(WriteQuantile, q)
         /\ \A w \in Range(Mapped(WriteQuantile, q)) :
              /\ {"quantile", "value"} \subseteq DOMAIN w
              /\ ~DoubleThrows(w["quantile"]) /\ ~DoubleThrows(w["value"])
  <1> DEFINE w == [i \in 1..k |-> WriteQuantile(q[i])]
  <1>1. Mapped(WriteQuantile, q) = w
    <2>1. DOMAIN q = 1..k
      BY DEF Quantiles
    <2> QED
      BY <2>1 DEF Mapped
  <1>2. DOMAIN w = 1..k /\ w = [i \in 1..k |-> w[i]] /\ \A i \in 1..k : w[i] = WriteQuantile(q[i])
    OBVIOUS
  <1> HIDE DEF w
  <1>3. z = [i \in 1..k |-> ReadQuantile(w[i])]
    BY <1>1, <1>2 DEF Mapped
  <1>4. ASSUME NEW i \in 1..k
        PROVE  /\ ReadQuantile(w[i]) = [quantile |-> AsScraped(q[i].quantile),
                                        value    |-> AsScraped(q[i].value)]
               /\ Recalls(w[i]["quantile"]) /\ Recalls(w[i]["value"]) => WriteQuantile(z[i]) = w[i]
               /\ {"quantile", "value"} \subseteq DOMAIN w[i]
               /\ ~DoubleThrows(w[i]["quantile"]) /\ ~DoubleThrows(w[i]["value"])
    <2> DEFINE u == q[i].quantile
               c == q[i].value
    <2>1. Readable(u) /\ Readable(c)
      BY DEF Quantiles
    <2>2. w[i] = [quantile |-> WriteDouble(u), value |-> WriteDouble(c)]
      BY <1>2 DEF WriteQuantile
    <2> HIDE DEF u, c
    <2>3. /\ w[i]["quantile"] = WriteDouble(u) /\ w[i]["value"] = WriteDouble(c)
          /\ DOMAIN w[i] = {"quantile", "value"}
      BY <2>2
    <2>4. ReadQuantile(w[i]) = [quantile |-> AsScraped(u), value |-> AsScraped(c)]
      <3>1. ReadDouble(WriteDouble(u)) = AsScraped(u) /\ ReadDouble(WriteDouble(c)) = AsScraped(c)
        BY DEF AsScraped
      <3>2. ReadDouble(w[i]["quantile"]) = AsScraped(u) /\ ReadDouble(w[i]["value"]) = AsScraped(c)
        BY <2>3, <3>1
      <3> QED
        BY ONLY <3>2 DEF ReadQuantile
    <2>6. z[i].quantile = AsScraped(u) /\ z[i].value = AsScraped(c)
      BY <1>3, <2>4
    <2>7. ASSUME Recalls(w[i]["quantile"]), Recalls(w[i]["value"])
          PROVE  WriteQuantile(z[i]) = w[i]
      <3>1. WriteQuantile(z[i]) = [quantile |-> WriteDouble(AsScraped(u)),
                                   value    |-> WriteDouble(AsScraped(c))]
        BY ONLY <2>6 DEF WriteQuantile
      <3>2. WriteDouble(AsScraped(u)) = WriteDouble(u) /\ WriteDouble(AsScraped(c)) = WriteDouble(c)
        BY <2>1, <2>3, <2>7, ScrapedRewritten DEF Readable
      <3> QED
        BY <2>2, <3>1, <3>2
    <2>8. ~DoubleThrows(w[i]["quantile"]) /\ ~DoubleThrows(w[i]["value"])
      BY <2>1, <2>3 DEF Readable, Unreadable
    <2> QED
      BY <2>3, <2>4, <2>7, <2>8 DEF u, c
  <1>5. ASSUME \A x \in Range(w) : Recalls(x["quantile"]) /\ Recalls(x["value"])
        PROVE  Mapped(WriteQuantile, z) = w
    <2>1. DOMAIN z = 1..k
      BY <1>3
    <2>2. Mapped(WriteQuantile, z) = [i \in 1..k |-> WriteQuantile(z[i])]
      BY <2>1 DEF Mapped
    <2>3. \A i \in 1..k : w[i] \in Range(w)
      BY <1>2 DEF Range
    <2>4. \A i \in 1..k : WriteQuantile(z[i]) = w[i]
      BY <1>4, <1>5, <2>3
    <2> QED
      BY <1>2, <2>2, <2>4
  <1>6. \A x \in Range(w) : \E i \in 1..k : x = w[i]
    BY <1>2 DEF Range
  <1>7. z = [i \in 1..k |-> [quantile |-> AsScraped(q[i].quantile),
                             value    |-> AsScraped(q[i].value)]]
    BY <1>3, <1>4
  <1>8. \A x \in Range(w) : /\ {"quantile", "value"} \subseteq DOMAIN x
                            /\ ~DoubleThrows(x["quantile"]) /\ ~DoubleThrows(x["value"])
    BY <1>4, <1>6
  <1> QED
    BY ONLY <1>1, <1>5, <1>7, <1>8

LEMMA SummarySurvives ==
  ASSUME NEW l, NEW n, Labelling(l, n), NEW t, NEW c, NEW s, Readable(s), NEW q, NEW k, Quantiles(q, k)
  PROVE  /\ Survives(SummaryOf(l, t, c, s, q), "Summary")
         /\ ~MetricThrows(WriteMetric(SummaryOf(l, t, c, s, q), "Summary"))
  <1> DEFINE m == SummaryOf(l, t, c, s, q)
             w == Mapped(WriteQuantile, q)
             z == Mapped(ReadQuantile, w)
             v == [count |-> Number(c), sum |-> WriteDouble(s), quantiles |-> w]
             j == WriteMetric(m, "Summary")
             L == ReadLabels(j)
             r == SummaryOf(L, t, c, AsScraped(s), z)
  <1>0. s \in Doubles /\ ~DoubleThrows(WriteDouble(s))
    BY DEF Readable, Unreadable
  <1>1. j = Merged(Metadata(l, t), v)
    BY DEF WriteMetric, SummaryOf, Metadata
  <1>2. /\ DOMAIN v = {"count", "sum", "quantiles"} /\ v["count"] = Number(c)
        /\ v["sum"] = WriteDouble(s) /\ v["quantiles"] = w
    OBVIOUS
  <1>10. /\ z = [i \in 1..k |-> [quantile |-> AsScraped(q[i].quantile),
                                 value    |-> AsScraped(q[i].value)]]
         /\ (\A x \in Range(w) : Recalls(x["quantile"]) /\ Recalls(x["value"]))
              => Mapped(WriteQuantile, z) = w
         /\ \A x \in Range(w) : /\ {"quantile", "value"} \subseteq DOMAIN x
                                /\ ~DoubleThrows(x["quantile"]) /\ ~DoubleThrows(x["value"])
    BY QuantilesRead
  <1> HIDE DEF v, j, w
  <1>3. /\ SameLabels(l, L, n)
        /\ ReadMetadata(j) = [label |-> L, timestamp_ms |-> t]
        /\ {"count", "sum", "quantiles"} \subseteq DOMAIN j
        /\ j["count"] = Number(c) /\ j["sum"] = WriteDouble(s) /\ j["quantiles"] = w
        /\ DOMAIN j \subseteq {"count", "sum", "quantiles", "labels", "timestamp_ms"}
    <2>1. "labels" \notin DOMAIN v /\ "timestamp_ms" \notin DOMAIN v
      BY <1>2
    <2>2. /\ SameLabels(l, L, n)
          /\ ReadMetadata(j) = [label |-> L, timestamp_ms |-> t]
          /\ DOMAIN v \subseteq DOMAIN j /\ \A x \in DOMAIN v : j[x] = v[x]
          /\ DOMAIN j \subseteq DOMAIN v \cup {"labels", "timestamp_ms"}
      BY <1>1, <2>1, MetadataRead
    <2> QED
      BY <1>2, <2>2
  <1>4. ReadAs("Summary", j) = r
    <2>1. ReadDouble(j["sum"]) = AsScraped(s) /\ j["count"].v = c
      BY <1>3 DEF AsScraped, Number
    <2>2. ReadSummary(j)
            = Merged([label |-> L, timestamp_ms |-> t],
                     [sample_count |-> c, sample_sum |-> AsScraped(s), quantile |-> z])
      BY <1>3, <2>1 DEF ReadSummary
    <2> HIDE DEF z
    <2>3. ReadSummary(j) = r
      BY <2>2 DEF Merged, SummaryOf
    <2> QED
      BY <2>3 DEF ReadAs
  <1>5. SameMetric(m, r, "Summary")
    <2>1. /\ k \in Nat /\ DOMAIN q = 1..k /\ Len(q) = k /\ DOMAIN z = 1..k /\ Len(z) = k
      <3>1. k \in Nat /\ q = [i \in 1..k |-> q[i]]
        BY DEF Quantiles
      <3> HIDE DEF z
      <3>2. z = [i \in 1..k |-> z[i]]
        BY <1>10
      <3> QED
        BY <3>1, <3>2, SequenceIs
    <2>2. ASSUME NEW i \in 1..k
          PROVE  /\ Close(q[i].quantile, z[i].quantile)
                 /\ Close(q[i].value, z[i].value)
      <3>1. Readable(q[i].quantile) /\ Readable(q[i].value)
        BY DEF Quantiles
      <3> HIDE DEF z
      <3>2. z[i].quantile = AsScraped(q[i].quantile) /\ z[i].value = AsScraped(q[i].value)
        BY <1>10
      <3> QED
        BY <3>1, <3>2, ScrapedClose DEF Readable
    <2>3. Close(s, AsScraped(s))
      BY ScrapedClose DEF Readable
    <2> HIDE DEF z
    <2> QED
      BY <1>3, <2>1, <2>2, <2>3 DEF SameMetric, SummaryOf, SameLabels
  <1>11. /\ \A x \in Range(w) : x["quantile"] \in DoublesIn(j) /\ x["value"] \in DoublesIn(j)
         /\ WriteDouble(s) \in DoublesIn(j)
    BY <1>3 DEF DoublesIn
  <1>6. ASSUME MetricRecalled(j) PROVE WriteMetric(r, "Summary") = j
    <2>1. WriteMetric(r, "Summary")
            = Merged(Metadata(L, t), [count |-> Number(c), sum |-> WriteDouble(AsScraped(s)),
                                      quantiles |-> Mapped(WriteQuantile, z)])
      BY DEF WriteMetric, SummaryOf, Metadata
    <2>2. WriteDouble(AsScraped(s)) = WriteDouble(s)
      BY <1>0, <1>6, <1>11, ScrapedRewritten DEF MetricRecalled
    <2>3. Metadata(L, t) = Metadata(l, t)
      BY <1>3, MetadataRewritten
    <2> HIDE DEF z
    <2>4. Mapped(WriteQuantile, z) = w
      BY <1>6, <1>10, <1>11 DEF MetricRecalled
    <2> QED
      BY <1>1, <2>1, <2>2, <2>3, <2>4 DEF v
  <1>7. ~DoubleThrows(j["sum"])
    BY <1>0, <1>3
  <1>8. Whole(j, "Summary")
    BY <1>3, <1>10 DEF Whole, MetricMembers
  <1>9. ~MetricThrows(j)
    <2>1. \A x \in DoublesIn(j) :
            x = j["sum"] \/ \E y \in Range(w) : x = y["quantile"] \/ x = y["value"]
      BY <1>3 DEF DoublesIn
    <2> QED
      BY <1>7, <1>10, <2>1 DEF MetricThrows
  <1> QED
    BY <1>4, <1>5, <1>6, <1>8, <1>9 DEF Survives, j

-----------------------------------------------------------------------------
(* Families *)

WholeFamily(fam) ==
  /\ {"name", "help", "type", "metrics"} \subseteq DOMAIN fam
  /\ \A mtc \in Range(fam["metrics"]) : Whole(mtc, ReadType(fam["type"]))

FamilyThrows(fam)   == \E mtc \in Range(fam["metrics"]) : MetricThrows(mtc)
FamilyRecalled(fam) == \A mtc \in Range(fam["metrics"]) : MetricRecalled(mtc)

\* A family f survives being written and read, and reading it throws if and
\* only if `throws`.
FamilySurvives(f, throws) ==
  LET j == WriteFamily(f)
      g == ReadFamily(j)
  IN  /\ WholeFamily(j)
      /\ FamilyThrows(j) <=> throws
      /\ ~FamilyThrows(j) => SameFamily(f, g)
      /\ FamilyRecalled(j) => WriteFamily(g) = j

LEMMA FamilyRead ==
  ASSUME NEW name, NEW type \in MetricTypes, NEW k \in Nat,
         NEW ms, ms = [i \in 1..k |-> ms[i]],
         \A i \in 1..k : Survives(ms[i], type)
  PROVE  FamilySurvives(Family(name, type, ms),
                        \E i \in 1..k : MetricThrows(WriteMetric(ms[i], type)))
  <1> DEFINE f == Family(name, type, ms)
             js == [i \in 1..k |-> WriteMetric(ms[i], type)]
             rs == [i \in 1..k |-> ReadAs(type, js[i])]
             j == [name |-> Text(name), help |-> Text("help"), type |-> Text(type),
                   metrics |-> js]
             g == [name |-> name, help |-> "help", type |-> type, metric |-> rs]
  <1>1. DOMAIN ms = 1..k
    OBVIOUS
  <1>2. WriteFamily(f) = j
    BY <1>1 DEF WriteFamily, Family, Mapped
  <1>3. DOMAIN js = 1..k /\ \A i \in 1..k : js[i] = WriteMetric(ms[i], type)
    OBVIOUS
  <1> HIDE DEF js
  <1>4. /\ DOMAIN rs = 1..k /\ rs = [i \in 1..k |-> rs[i]]
        /\ \A i \in 1..k : rs[i] = ReadAs(type, js[i])
    OBVIOUS
  <1>5. ReadMetrics(type, js) = rs
    <2>1. CASE type \in {"Counter", "Gauge", "Untyped"}
      <3>1. ReadMetrics(type, js) = [i \in 1..k |-> ReadValue(js[i])]
        BY <1>3, <2>1 DEF ReadMetrics, Mapped
      <3>2. \A i \in 1..k : ReadAs(type, js[i]) = ReadValue(js[i])
        BY <2>1 DEF ReadAs
      <3> QED
        BY <3>1, <3>2
    <2>2. CASE type = "Histogram"
      <3>1. ReadMetrics(type, js) = [i \in 1..k |-> ReadHistogram(js[i])]
        BY <1>3, <2>2 DEF ReadMetrics, Mapped
      <3>2. \A i \in 1..k : ReadAs(type, js[i]) = ReadHistogram(js[i])
        BY <2>2 DEF ReadAs
      <3> QED
        BY <3>1, <3>2
    <2>3. CASE type = "Summary"
      <3>1. ReadMetrics(type, js) = [i \in 1..k |-> ReadSummary(js[i])]
        BY <1>3, <2>3 DEF ReadMetrics, Mapped
      <3>2. \A i \in 1..k : ReadAs(type, js[i]) = ReadSummary(js[i])
        BY <2>3 DEF ReadAs
      <3> QED
        BY <3>1, <3>2
    <2> QED
      BY <2>1, <2>2, <2>3 DEF MetricTypes
  <1> HIDE DEF rs
  <1>6. ReadType(Text(type)) = type
    BY DEF ReadType, Text
  <1>7. /\ j["name"] = Text(name) /\ j["help"] = Text("help") /\ j["type"] = Text(type)
        /\ j["metrics"] = js /\ DOMAIN j = {"name", "help", "type", "metrics"}
    OBVIOUS
  <1> HIDE DEF j
  <1>8. ReadFamily(j) = g
    <2>1. Text(name).v = name /\ Text("help").v = "help"
      BY DEF Text
    <2> QED
      BY <1>5, <1>6, <1>7, <2>1 DEF ReadFamily
  <1>12. \A x : x \in Range(js) <=> \E i \in 1..k : x = js[i]
    BY <1>3 DEF Range
  <1>9. \A i \in 1..k : /\ ~MetricThrows(js[i]) => SameMetric(ms[i], rs[i], type)
                        /\ MetricRecalled(js[i]) => WriteMetric(rs[i], type) = js[i]
                        /\ Whole(js[i], type)
    BY <1>3, <1>4 DEF Survives
  <1>10. ASSUME ~FamilyThrows(j) PROVE SameFamily(f, g)
    <2>1. Len(ms) = k /\ Len(rs) = k
      BY <1>4, SequenceIs
    <2>2. \A i \in 1..k : SameMetric(ms[i], rs[i], type)
      BY <1>7, <1>9, <1>10, <1>12 DEF FamilyThrows
    <2> QED
      BY <1>1, <2>1, <2>2 DEF SameFamily, Family
  <1>11. ASSUME FamilyRecalled(j) PROVE WriteFamily(g) = j
    <2>1. WriteFamily(g) = [name |-> Text(name), help |-> Text("help"), type |-> Text(type),
                            metrics |-> [i \in 1..k |-> WriteMetric(rs[i], type)]]
      BY <1>4 DEF WriteFamily, Mapped
    <2>2. [i \in 1..k |-> WriteMetric(rs[i], type)] = [i \in 1..k |-> WriteMetric(ms[i], type)]
      BY <1>3, <1>7, <1>9, <1>11, <1>12 DEF FamilyRecalled
    <2> QED
      BY <2>1, <2>2 DEF j, js
  <1>13. WholeFamily(j)
    BY <1>6, <1>7, <1>9, <1>12 DEF WholeFamily
  <1>14. FamilyThrows(j) <=> \E i \in 1..k : MetricThrows(WriteMetric(ms[i], type))
    BY <1>3, <1>7, <1>12 DEF FamilyThrows
  <1> HIDE DEF f, g
  <1>15. FamilySurvives(f, \E i \in 1..k : MetricThrows(WriteMetric(ms[i], type)))
    BY <1>2, <1>8, <1>10, <1>11, <1>13, <1>14 DEF FamilySurvives
  <1> QED
    BY <1>15 DEF f

-----------------------------------------------------------------------------
(* The registry *)

LEMMA OneLabel ==
  ASSUME NEW x, NEW v
  PROVE  Labelling(<<Label(x, v)>>, 1)
  <1> DEFINE l == <<Label(x, v)>>
  <1>1. DOMAIN l = 1..1 /\ l[1] = Label(x, v) /\ l \in Seq({Label(x, v)})
    OBVIOUS
  <1>2. l[1] = Label(l[1].name, l[1].value)
    BY <1>1 DEF Label
  <1> HIDE DEF l
  <1>3. l = [i \in 1..1 |-> Label(l[i].name, l[i].value)]
    BY <1>1, <1>2
  <1>4. Labelling(l, 1)
    BY <1>3 DEF Labelling
  <1> QED
    BY <1>4 DEF l

LEMMA TwoLabels ==
  ASSUME NEW x, NEW v, NEW y, NEW w, x # y
  PROVE  Labelling(<<Label(x, v), Label(y, w)>>, 2)
  <1> DEFINE l == <<Label(x, v), Label(y, w)>>
  <1>1. DOMAIN l = 1..2 /\ l[1] = Label(x, v) /\ l[2] = Label(y, w)
        /\ l \in Seq({Label(x, v), Label(y, w)})
    OBVIOUS
  <1>2. l[1] = Label(l[1].name, l[1].value) /\ l[2] = Label(l[2].name, l[2].value)
        /\ l[1].name = x /\ l[2].name = y
    BY <1>1 DEF Label
  <1> HIDE DEF l
  <1>3. \A i \in 1..2 : i = 1 \/ i = 2
    OBVIOUS
  <1>4. l = [i \in 1..2 |-> Label(l[i].name, l[i].value)]
    <2>1. \A i \in 1..2 : l[i] = Label(l[i].name, l[i].value)
      BY <1>2, <1>3
    <2>2. l = [i \in 1..2 |-> l[i]]
      BY <1>1
    <2> QED
      BY <2>1, <2>2
  <1>5. \A i, j \in 1..2 : l[i].name = l[j].name => i = j
    BY <1>2, <1>3
  <1>6. Labelling(l, 2)
    BY <1>4, <1>5 DEF Labelling
  <1> QED
    BY <1>6 DEF l

LEMMA NoLabel == Labelling(<<>>, 0)
  <1>1. <<>> = [i \in 1..0 |-> Label(<<>>[i].name, <<>>[i].value)]
    OBVIOUS
  <1> QED
    BY <1>1 DEF Labelling

\* The metrics of a family, listed in some order
ListOf(S, h) == [i \in DOMAIN SetToSeq(S) |-> h[SetToSeq(S)[i]]]

LEMMA Listed ==
  ASSUME NEW S, IsFiniteSet(S), NEW h, NEW ms, ms = ListOf(S, h)
  PROVE  \E k \in Nat : /\ ms = [i \in 1..k |-> ms[i]]
                        /\ \A i \in 1..k : \E x \in S : ms[i] = h[x]
  <1> DEFINE o == SetToSeq(S)
             k == Cardinality(S)
  <1>1. k \in Nat /\ o \in [1..k -> S]
    BY SetToSeqIs
  <1>2. ms = [i \in DOMAIN o |-> h[o[i]]]
    BY DEF ListOf
  <1> HIDE DEF o, k
  <1>3. ms = [i \in 1..k |-> h[o[i]]]
    BY <1>1, <1>2
  <1>4. ms = [i \in 1..k |-> ms[i]] /\ \A i \in 1..k : ms[i] = h[o[i]] /\ o[i] \in S
    BY <1>1, <1>3
  <1> QED
    BY <1>1, <1>4

\* A metric observed something if it has a longest observation.
LEMMA LongestType ==
  ASSUME TypeInv, NEW m \in Metrics, Count(m) # 0
  PROVE  Longest(m) \in 0..MaxTime
  <1> DEFINE s == samples[m]
             T == {d \in Durations : s[d] > 0}
  <1>1. s \in [Durations -> Nat]
    BY DEF TypeInv
  <1>2. Count(m) = Total(s, Durations)
    BY DEF Count
  <1> HIDE DEF s
  <1>3. T # {}
    <2> SUFFICES ASSUME T = {} PROVE FALSE
      OBVIOUS
    <2>1. \A d \in Durations : s[d] = 0
      BY <1>1
    <2>2. Total(s, Durations) = 0
      BY <2>1, DurationsFinite, TotalZero
    <2> QED
      BY <1>2, <2>2
  <1>4. T \subseteq 0..MaxTime /\ MaxTime \in Nat
    BY MetricAssumption DEF Durations
  <1> DEFINE U == {n \in Nat : \E d \in T : n = MaxTime - d}
  <1> HIDE DEF T
  <1>5. PICK d0 : d0 \in T
    BY <1>3
  <1>6. MaxTime - d0 \in U
    BY <1>4, <1>5
  <1>7. PICK n \in U : \A i \in U : n <= i
    <2> HIDE DEF U
    <2>1. U \subseteq Nat
      BY DEF U
    <2> QED
      BY <1>6, <2>1, LeastNumber
  <1>8. PICK d \in T : n = MaxTime - d
    BY <1>7
  <1>9. \A e \in T : d >= e
    <2> SUFFICES ASSUME NEW e \in T PROVE d >= e
      OBVIOUS
    <2>1. MaxTime - e \in U
      BY <1>4
    <2> HIDE DEF U
    <2>2. n <= MaxTime - e
      BY <1>7, <2>1
    <2>3. d \in 0..MaxTime /\ e \in 0..MaxTime
      BY <1>4
    <2> QED
      BY <1>4, <1>8, <2>2, <2>3
  <1>10. Max(T) \in T
    BY <1>9 DEF Max
  <1> QED
    BY <1>4, <1>10 DEF T, Longest, s

\* What the invariant says of what is collected
LEMMA CollectedType ==
  ASSUME IInv, NEW m \in Metrics
  PROVE  /\ Readable(AsDouble(Sum(m)))
         /\ Buckets(CollectHistogram(m).bucket, Len(Bounds) + 1)
         /\ Quantiles(CollectSummary(m).quantile, 1)
  <1>1. /\ \A n \in 0..MaxWhole : Readable(AsDouble(n))
        /\ MaxTime \in Nat /\ MaxWhole \in Nat /\ MaxTime <= MaxWhole /\ 1 \in 0..MaxWhole
    BY WholeReadable, WholeAssumption, MetricAssumption DEF Readable
  <1>2. Readable(AsDouble(Sum(m)))
    BY <1>1, CountedWhole
  <1>3. Buckets(CollectHistogram(m).bucket, Len(Bounds) + 1)
    <2> DEFINE n == Len(Bounds)
               bk(c, u) == [cumulative_count |-> c, upper_bound |-> u]
               lo == [i \in 1..n |-> bk(CountUpTo(m, Bounds[i]), AsDouble(Bounds[i]))]
               hi == bk(Count(m), Inf)
               b == lo \o <<hi>>
               B == {lo[i] : i \in 1..n} \cup {hi}
    <2>1. /\ n \in Nat /\ DOMAIN Bounds = 1..n
          /\ \A i \in 1..n : Bounds[i] \in 0..MaxTime
          /\ \A i \in 1..n : Bounds[i] < PowerOf10[Digits]
      BY MetricAssumption
    <2>2. CollectHistogram(m).bucket = b
      BY <2>1 DEF CollectHistogram
    <2>3. lo \in Seq(B) /\ Len(lo) = n /\ <<hi>> \in Seq(B) /\ Len(<<hi>>) = 1 /\ <<hi>>[1] = hi
      <3>1. lo = [i \in 1..n |-> lo[i]] /\ \A i \in 1..n : lo[i] \in B
        OBVIOUS
      <3>2. hi \in B
        OBVIOUS
      <3> HIDE DEF lo, hi, B
      <3> QED
        BY <2>1, <3>1, <3>2, SequenceIs
    <2>4. \A i \in 1..n : lo[i] = bk(CountUpTo(m, Bounds[i]), AsDouble(Bounds[i]))
      OBVIOUS
    <2>5. /\ b = [i \in 1..(n + 1) |-> b[i]]
          /\ \A i \in 1..n : b[i] = lo[i]
          /\ b[n + 1] = hi
      <3> HIDE DEF lo, hi, B, n
      <3> QED
        BY <2>1, <2>3
    <2>6. Readable(Inf) /\ Shortened(Inf) = Inf
      BY InfinityReadable
    <2>7. ASSUME NEW i \in 1..(n + 1)
          PROVE  /\ b[i] = [cumulative_count |-> b[i].cumulative_count,
                            upper_bound |-> b[i].upper_bound]
                 /\ Readable(b[i].upper_bound)
                 /\ Shortened(b[i].upper_bound) = b[i].upper_bound
      <3> HIDE DEF b, lo
      <3>1. CASE i \in 1..n
        <4> DEFINE u == AsDouble(Bounds[i])
                   c == CountUpTo(m, Bounds[i])
        <4>1. b[i] = bk(c, u)
          BY <2>4, <2>5, <3>1
        <4>2. Bounds[i] \in Nat /\ Bounds[i] < PowerOf10[Digits] /\ Bounds[i] \in 0..MaxWhole
          BY <1>1, <2>1, <3>1
        <4>3. Readable(u) /\ Shortened(u) = u
          BY <1>1, <4>2, WholeExact
        <4> HIDE DEF u, c, n
        <4> QED
          BY <4>1, <4>3
      <3>2. CASE i = n + 1
        <4>1. b[i] = bk(Count(m), Inf)
          BY <2>5, <3>2
        <4> QED
          BY <2>6, <4>1
      <3> QED
        BY <2>1, <3>1, <3>2
    <2>8. b = [i \in 1..(n + 1) |-> [cumulative_count |-> b[i].cumulative_count,
                                     upper_bound |-> b[i].upper_bound]]
      <3> HIDE DEF b, n
      <3> QED
        BY <2>5, <2>7
    <2>9. n + 1 \in Nat
      BY <2>1
    <2> HIDE DEF b, n
    <2>10. Buckets(b, n + 1)
      BY <2>7, <2>8, <2>9 DEF Buckets
    <2> QED
      BY <2>2, <2>10 DEF n
  <1>4. Quantiles(CollectSummary(m).quantile, 1)
    <2> DEFINE u == IF Count(m) = 0 THEN NaN ELSE AsDouble(Longest(m))
               o == AsDouble(1)
               q == <<[quantile |-> o, value |-> u]>>
    <2>1. CollectSummary(m).quantile = q
      BY DEF CollectSummary
    <2>2. Readable(u)
      <3>1. CASE Count(m) = 0
        BY <3>1, InfinityReadable
      <3>2. CASE Count(m) # 0
        <4>1. Longest(m) \in 0..MaxTime
          BY <3>2, LongestType DEF IInv
        <4>2. Longest(m) \in 0..MaxWhole
          BY <1>1, <4>1
        <4> QED
          BY <1>1, <3>2, <4>2
      <3> QED
        BY <3>1, <3>2
    <2>3. Readable(o)
      BY <1>1
    <2> HIDE DEF u, o
    <2>4. DOMAIN q = 1..1 /\ q[1] = [quantile |-> o, value |-> u]
          /\ q \in Seq({[quantile |-> o, value |-> u]})
      OBVIOUS
    <2> HIDE DEF q
    <2>5. q = [i \in 1..1 |-> [quantile |-> q[i].quantile, value |-> q[i].value]]
      BY <2>4
    <2>6. Quantiles(q, 1)
      BY <2>2, <2>3, <2>4, <2>5 DEF Quantiles
    <2> QED
      BY <2>1, <2>6 DEF o
  <1> QED
    BY <1>2, <1>3, <1>4

LEMMA PushesSurvive ==
  ASSUME IInv
  PROVE  FamilySurvives(Registry[1], FALSE)
  <1> DEFINE S == Metrics \cup {NoMetric}
             h == [m \in S |-> Pushes(m)]
             o == SetToSeq(S)
             ms == [i \in DOMAIN o |-> h[o[i]]]
  <1>1. IsFiniteSet(S)
    BY MetricAssumption, FS_AddElement
  <1>2. \A i \in DOMAIN o : o[i] \in S
    <2> HIDE DEF S
    <2> QED
      BY <1>1, SetToSeqIs
  <1>3. Registry[1] = Family("pushes", "Counter", ms)
    <2>1. Registry[1] = Family("pushes", "Counter", [i \in DOMAIN o |-> Pushes(o[i])])
      BY DEF Registry, Mapped, CounterOrder
    <2>2. ms = [i \in DOMAIN o |-> Pushes(o[i])]
      BY <1>2
    <2> QED
      BY <2>1, <2>2
  <1>4. ASSUME NEW m \in S
        PROVE  Survives(h[m], "Counter") /\ ~MetricThrows(WriteMetric(h[m], "Counter"))
    <2>1. Readable(AsDouble(started[m]))
      <3>1. started[m] \in 0..MaxStarts
        BY DEF IInv, TypeInv
      <3>2. started[m] \in 0..MaxWhole
        BY <3>1, MetricAssumption, WholeAssumption
      <3> QED
        BY <3>2, WholeReadable DEF Readable
    <2> DEFINE l == <<Label("queue", m)>>
    <2>2. Labelling(l, 1) /\ h[m] = AsValue(l, 0, AsDouble(started[m]))
      BY OneLabel DEF Pushes
    <2> HIDE DEF l, h
    <2> QED
      BY <2>1, <2>2, ValueSurvives DEF Readable
  <1> HIDE DEF h, S
  <1>10. ms = ListOf(S, h)
    BY DEF ListOf
  <1> HIDE DEF ms
  <1>5. PICK k \in Nat : /\ ms = [i \in 1..k |-> ms[i]]
                         /\ \A i \in 1..k : \E x \in S : ms[i] = h[x]
    BY ONLY <1>1, <1>10, Listed
  <1>6. \A i \in 1..k : Survives(ms[i], "Counter") /\ ~MetricThrows(WriteMetric(ms[i], "Counter"))
    BY <1>4, <1>5
  <1>7. "Counter" \in MetricTypes
    BY DEF MetricTypes
  <1>8. FamilySurvives(Family("pushes", "Counter", ms),
                       \E i \in 1..k : MetricThrows(WriteMetric(ms[i], "Counter")))
    BY <1>5, <1>6, <1>7, FamilyRead
  <1>9. FamilySurvives(Family("pushes", "Counter", ms), FALSE)
    BY <1>6, <1>8 DEF FamilySurvives
  <1> QED
    BY <1>3, <1>9

LEMMA WaitsSurvive ==
  ASSUME IInv
  PROVE  FamilySurvives(Registry[2], FALSE)
  <1> DEFINE S == Histograms
             h == [m \in S |-> CollectHistogram(m)]
             o == SetToSeq(S)
             ms == [i \in DOMAIN o |-> h[o[i]]]
  <1>1. IsFiniteSet(S) /\ S \subseteq Metrics
    <2>1. S \in SUBSET Metrics
      BY DEF Metrics
    <2> QED
      BY <2>1, MetricAssumption, FS_Subset
  <1>2. \A i \in DOMAIN o : o[i] \in S
    <2> HIDE DEF S
    <2> QED
      BY <1>1, SetToSeqIs
  <1>3. Registry[2] = Family("wait_seconds", "Histogram", ms)
    <2>1. Registry[2] = Family("wait_seconds", "Histogram",
                               [i \in DOMAIN o |-> CollectHistogram(o[i])])
      BY DEF Registry, Mapped, HistogramOrder
    <2>2. ms = [i \in DOMAIN o |-> CollectHistogram(o[i])]
      BY <1>2
    <2> QED
      BY <2>1, <2>2
  <1>4. ASSUME NEW m \in S
        PROVE  Survives(h[m], "Histogram") /\ ~MetricThrows(WriteMetric(h[m], "Histogram"))
    <2> DEFINE l == <<Label("queue", m)>>
               b == CollectHistogram(m).bucket
    <2>1. Labelling(l, 1)
      BY OneLabel
    <2>2. Readable(AsDouble(Sum(m))) /\ Buckets(b, Len(Bounds) + 1)
      BY <1>1, CollectedType
    <2>3. h[m] = HistogramOf(l, 0, Count(m), AsDouble(Sum(m)), b)
      BY DEF CollectHistogram, HistogramOf
    <2> HIDE DEF l, b, h
    <2> QED
      BY <2>1, <2>2, <2>3, HistogramSurvives
  <1> HIDE DEF h, S
  <1>5. ms = ListOf(S, h)
    BY DEF ListOf
  <1> HIDE DEF ms
  <1>6. PICK k \in Nat : /\ ms = [i \in 1..k |-> ms[i]]
                         /\ \A i \in 1..k : \E x \in S : ms[i] = h[x]
    BY ONLY <1>1, <1>5, Listed
  <1>7. \A i \in 1..k : /\ Survives(ms[i], "Histogram")
                        /\ ~MetricThrows(WriteMetric(ms[i], "Histogram"))
    BY <1>4, <1>6
  <1>8. "Histogram" \in MetricTypes
    BY DEF MetricTypes
  <1>9. FamilySurvives(Family("wait_seconds", "Histogram", ms),
                       \E i \in 1..k : MetricThrows(WriteMetric(ms[i], "Histogram")))
    BY <1>6, <1>7, <1>8, FamilyRead
  <1>10. FamilySurvives(Family("wait_seconds", "Histogram", ms), FALSE)
    BY <1>7, <1>9 DEF FamilySurvives
  <1> QED
    BY <1>3, <1>10

LEMMA QueriesSurvive ==
  ASSUME IInv
  PROVE  FamilySurvives(Registry[3], FALSE)
  <1> DEFINE S == Summaries
             h == [m \in S |-> CollectSummary(m)]
             o == SetToSeq(S)
             ms == [i \in DOMAIN o |-> h[o[i]]]
  <1>1. IsFiniteSet(S) /\ S \subseteq Metrics
    <2>1. S \in SUBSET Metrics
      BY DEF Metrics
    <2> QED
      BY <2>1, MetricAssumption, FS_Subset
  <1>2. \A i \in DOMAIN o : o[i] \in S
    <2> HIDE DEF S
    <2> QED
      BY <1>1, SetToSeqIs
  <1>3. Registry[3] = Family("query_seconds", "Summary", ms)
    <2>1. Registry[3] = Family("query_seconds", "Summary",
                               [i \in DOMAIN o |-> CollectSummary(o[i])])
      BY DEF Registry, Mapped, SummaryOrder
    <2>2. ms = [i \in DOMAIN o |-> CollectSummary(o[i])]
      BY <1>2
    <2> QED
      BY <2>1, <2>2
  <1>4. ASSUME NEW m \in S
        PROVE  Survives(h[m], "Summary") /\ ~MetricThrows(WriteMetric(h[m], "Summary"))
    <2> DEFINE l == <<Label("stage", "query"), Label("address", m)>>
               b == CollectSummary(m).quantile
    <2>1. Labelling(l, 2)
      BY TwoLabels
    <2>2. Readable(AsDouble(Sum(m))) /\ Quantiles(b, 1)
      BY <1>1, CollectedType
    <2>3. h[m] = SummaryOf(l, 0, Count(m), AsDouble(Sum(m)), b)
      BY DEF CollectSummary, SummaryOf
    <2> HIDE DEF l, b, h
    <2> QED
      BY <2>1, <2>2, <2>3, SummarySurvives
  <1> HIDE DEF h, S
  <1>5. ms = ListOf(S, h)
    BY DEF ListOf
  <1> HIDE DEF ms
  <1>6. PICK k \in Nat : /\ ms = [i \in 1..k |-> ms[i]]
                         /\ \A i \in 1..k : \E x \in S : ms[i] = h[x]
    BY ONLY <1>1, <1>5, Listed
  <1>7. \A i \in 1..k : Survives(ms[i], "Summary") /\ ~MetricThrows(WriteMetric(ms[i], "Summary"))
    BY <1>4, <1>6
  <1>8. "Summary" \in MetricTypes
    BY DEF MetricTypes
  <1>9. FamilySurvives(Family("query_seconds", "Summary", ms),
                       \E i \in 1..k : MetricThrows(WriteMetric(ms[i], "Summary")))
    BY <1>6, <1>7, <1>8, FamilyRead
  <1>10. FamilySurvives(Family("query_seconds", "Summary", ms), FALSE)
    BY <1>7, <1>9 DEF FamilySurvives
  <1> QED
    BY <1>3, <1>10

LEMMA LoadSurvives ==
  ASSUME TypeInv
  PROVE  FamilySurvives(Registry[4], Unreadable(Load[clock]))
  <1> DEFINE a == AsValue(<<>>, 0, Load[clock])
             b == AsValue(<<>>, clock, Load[clock])
             ms == <<a, b>>
  <1>1. Registry[4] = Family("load", "Gauge", ms)
    BY DEF Registry
  <1>2. Load[clock] \in Doubles
    BY MetricAssumption DEF TypeInv, Durations, Doubles
  <1>3. /\ Survives(a, "Gauge") /\ Survives(b, "Gauge")
        /\ MetricThrows(WriteMetric(a, "Gauge")) <=> Unreadable(Load[clock])
        /\ MetricThrows(WriteMetric(b, "Gauge")) <=> Unreadable(Load[clock])
    BY <1>2, NoLabel, ValueSurvives
  <1> HIDE DEF a, b
  <1>4. /\ ms = [i \in 1..2 |-> ms[i]] /\ ms[1] = a /\ ms[2] = b
        /\ \A i \in 1..2 : i = 1 \/ i = 2
    OBVIOUS
  <1> HIDE DEF ms
  <1>5. ASSUME NEW i \in 1..2
        PROVE  /\ Survives(ms[i], "Gauge")
               /\ MetricThrows(WriteMetric(ms[i], "Gauge")) <=> Unreadable(Load[clock])
    <2>1. ms[i] = a \/ ms[i] = b
      BY <1>4
    <2>2. CASE ms[i] = a
      BY ONLY <1>3, <2>2, Zenon
    <2>3. CASE ms[i] = b
      BY ONLY <1>3, <2>3, Zenon
    <2> QED
      BY <2>1, <2>2, <2>3
  <1>6. "Gauge" \in MetricTypes /\ 2 \in Nat /\ 1 \in 1..2
    BY DEF MetricTypes
  <1>7. FamilySurvives(Family("load", "Gauge", ms),
                       \E i \in 1..2 : MetricThrows(WriteMetric(ms[i], "Gauge")))
    BY <1>4, <1>5, <1>6, FamilyRead
  <1>8. FamilySurvives(Family("load", "Gauge", ms), Unreadable(Load[clock]))
    BY <1>5, <1>6, <1>7 DEF FamilySurvives
  <1> QED
    BY <1>1, <1>8

LEMMA SpareSurvives == FamilySurvives(Registry[5], FALSE)
  <1> DEFINE ms == <<>>
  <1>1. Registry[5] = Family("spare", "Untyped", ms)
    BY DEF Registry
  <1>2. ms = [i \in 1..0 |-> ms[i]] /\ (\A i \in 1..0 : FALSE) /\ 0 \in Nat
    OBVIOUS
  <1> HIDE DEF ms
  <1>3. "Untyped" \in MetricTypes
    BY DEF MetricTypes
  <1>4. FamilySurvives(Family("spare", "Untyped", ms),
                       \E i \in 1..0 : MetricThrows(WriteMetric(ms[i], "Untyped")))
    BY <1>2, <1>3, FamilyRead
  <1>5. FamilySurvives(Family("spare", "Untyped", ms), FALSE)
    BY <1>2, <1>4 DEF FamilySurvives
  <1> QED
    BY <1>1, <1>5

\* The answer, family by family
LEMMA AnswerIs ==
  ASSUME IInv
  PROVE  /\ ScrapedIsCollected /\ RewrittenAlike /\ ReadsWhatIsWritten
  <1> DEFINE R == Registry
             js == [i \in 1..5 |-> WriteFamily(R[i])]
             rs == [i \in 1..5 |-> ReadFamily(js[i])]
             A == [families |-> js]
  <1>1. DOMAIN R = 1..5 /\ Len(R) = 5 /\ (\A i \in 1..5 : i = 1 \/ i = 2 \/ i = 3 \/ i = 4 \/ i = 5)
    BY DEF Registry
  <1>2. \A i \in 1..5 : FamilySurvives(R[i], i = 4 /\ Unreadable(Load[clock]))
    <2>1. /\ FamilySurvives(R[1], FALSE) /\ FamilySurvives(R[2], FALSE)
          /\ FamilySurvives(R[3], FALSE) /\ FamilySurvives(R[4], Unreadable(Load[clock]))
          /\ FamilySurvives(R[5], FALSE)
      BY PushesSurvive, WaitsSurvive, QueriesSurvive, LoadSurvives, SpareSurvives DEF IInv
    <2> HIDE DEF R
    <2> QED
      BY <1>1, <2>1 DEF FamilySurvives
  <1> HIDE DEF R
  <1>3. Answer = A
    BY <1>1 DEF Answer, WriteFamilies, Mapped, R
  <1>4. A["families"] = js /\ DOMAIN A = {"families"}
    OBVIOUS
  <1>5. DOMAIN js = 1..5 /\ \A i \in 1..5 : js[i] = WriteFamily(R[i])
    OBVIOUS
  <1> HIDE DEF js, A
  <1>6. ReadFamilies(A) = rs
    BY <1>4, <1>5 DEF ReadFamilies, Mapped
  <1>7. DOMAIN rs = 1..5 /\ rs = [i \in 1..5 |-> rs[i]] /\ \A i \in 1..5 : rs[i] = ReadFamily(js[i])
    OBVIOUS
  <1> HIDE DEF rs
  <1>8. ASSUME NEW i \in 1..5
        PROVE  /\ WholeFamily(js[i])
               /\ FamilyThrows(js[i]) <=> i = 4 /\ Unreadable(Load[clock])
               /\ ~FamilyThrows(js[i]) => SameFamily(R[i], rs[i])
               /\ FamilyRecalled(js[i]) => WriteFamily(rs[i]) = js[i]
    <2>1. js[i] = WriteFamily(R[i]) /\ rs[i] = ReadFamily(js[i])
      BY <1>5, <1>7
    <2>2. FamilySurvives(R[i], i = 4 /\ Unreadable(Load[clock]))
      BY <1>2
    <2> QED
      BY ONLY <2>1, <2>2, Zenon DEF FamilySurvives
  <1>11. \A x : x \in Range(js) <=> \E i \in 1..5 : x = js[i]
    BY <1>5 DEF Range
  <1>14. \A x : x \in DoublesOf(A) <=>
           \E fam \in Range(js) : \E mtc \in Range(fam["metrics"]) : x \in DoublesIn(mtc)
    BY <1>4 DEF DoublesOf
  <1>15. Throws(A) <=> \E i \in 1..5 : FamilyThrows(js[i])
    <2>1. Throws(A) <=> \E fam \in Range(js) : FamilyThrows(fam)
      BY <1>14 DEF Throws, FamilyThrows, MetricThrows
    <2> QED
      BY <1>11, <2>1
  <1>9. ScrapedIsCollected
    <2>1. Len(rs) = 5
      BY <1>7, SequenceIs
    <2>2. ~Throws(A) => \A i \in 1..5 : SameFamily(R[i], rs[i])
      BY <1>8, <1>15
    <2> QED
      BY <1>1, <1>3, <1>6, <2>1, <2>2 DEF ScrapedIsCollected, Answer, R
  <1>10. RewrittenAlike
    <2>1. WriteFamilies(rs) = [families |-> [i \in 1..5 |-> WriteFamily(rs[i])]]
      BY <1>7 DEF WriteFamilies, Mapped
    <2>2. ASSUME \A x \in DoublesOf(A) : Recalls(x)
          PROVE  [i \in 1..5 |-> WriteFamily(rs[i])] = js
      <3>1. \A i \in 1..5 : FamilyRecalled(js[i])
        BY <1>11, <1>14, <2>2 DEF FamilyRecalled, MetricRecalled
      <3> QED
        BY <1>8, <3>1 DEF js
    <2> QED
      BY <1>3, <1>6, <2>1, <2>2 DEF RewrittenAlike, A
  <1>12. Complete(A)
    BY <1>4, <1>8, <1>11 DEF Complete, WholeFamily, Whole
  <1>13. Throws(A) <=> Unreadable(Load[clock])
    <2>2. 4 \in 1..5
      OBVIOUS
    <2> QED
      BY <1>8, <1>15, <2>2
  <1> QED
    BY <1>3, <1>9, <1>10, <1>12, <1>13 DEF ReadsWhatIsWritten

LEMMA CollectedInv == Spec => [](ScrapedIsCollected /\ RewrittenAlike /\ ReadsWhatIsWritten)
  <1>1. IInv => ScrapedIsCollected /\ RewrittenAlike /\ ReadsWhatIsWritten
    BY AnswerIs
  <1> QED
    BY <1>1, Invariance, PTL

\* JsonWriter and JsonReader: whatever the metrics hold, however many digits
\* are written and wherever the doubles lie, an answer the reader does not throw
\* at is read as the families collected, in order, with their labels, exact
\* counts and boundaries, and each value at most half a unit of the last digit
\* written and half the distance between two doubles away.
THEOREM ScrapesFaithful == Spec => []ScrapedIsCollected
  BY CollectedInv, PTL

\* JsonReader and JsonWriter again: an answer all of whose decimals have a double
\* within half a unit of their last digit is written as it was read, so a number
\* that was shortened once is not shortened again.
THEOREM RewritesAlike == Spec => []RewrittenAlike
  BY CollectedInv, PTL

\* JsonReader on what JsonWriter wrote: it takes no member that is not there,
\* and leaves by an exception if and only if std::stod rejects the decimal that
\* was written of the gauge; whole numbers up to MaxWhole it never rejects.
THEOREM ReadsWhole == Spec => []ReadsWhatIsWritten
  BY CollectedInv, PTL
=============================================================================
