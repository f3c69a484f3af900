----------------------------- MODULE StatsProofs -----------------------------
(***************************************************************************)
(* Theorems about Stats, for any finite sets of users and rebuilds, any    *)
(* number of worker processes, days and events.                            *)
(***************************************************************************)
EXTENDS Stats, FiniteSetTheorems, SequenceTheorems, WellFoundedInduction, TLAPS

-----------------------------------------------------------------------------
(* Induction over finite sets                                              *)

\* What holds of a finite set when it holds of all its proper subsets.
LEMMA SubsetsDown ==
    ASSUME NEW S, IsFiniteSet(S), NEW C,
           \A T \in SUBSET S : (\A U \in SUBSET T : U # T => U \in C) => T \in C
    PROVE  S \in C
<1> SUFFICES ASSUME S \notin C PROVE FALSE
  OBVIOUS
<1> DEFINE Out == {T \in FiniteSubsetsOf(S) : T \notin C}
<1>1. S \in Out
  BY DEF FiniteSubsetsOf
<1>2. PICK T \in Out : \A U \in Out : <<U, T>> \notin StrictSubsetOrdering(S)
  <2>1. Out \subseteq FiniteSubsetsOf(S)
    OBVIOUS
  <2> HIDE DEF Out
  <2> QED
    BY <1>1, <2>1, FS_StrictSubsetOrderingWellFounded, WFMin
<1>3. T \in SUBSET S /\ IsFiniteSet(T) /\ T \notin C
  BY DEF FiniteSubsetsOf
<1>4. ASSUME NEW U \in SUBSET T, U # T PROVE U \in C
  <2>1. IsFiniteSet(U)
    BY <1>3, FS_Subset
  <2>2. U \in FiniteSubsetsOf(S)
    BY <1>3, <2>1 DEF FiniteSubsetsOf
  <2>3. <<U, T>> \in StrictSubsetOrdering(S)
    BY <1>3, <1>4 DEF StrictSubsetOrdering
  <2> QED
    BY <1>2, <2>2, <2>3
<1> QED
  BY <1>3, <1>4

\* What holds of the empty set, and goes on to one element more.
LEMMA SubsetsUp ==
    ASSUME NEW S, IsFiniteSet(S), NEW C, {} \in C,
           \A T \in SUBSET S : \A x \in S \ T : T \in C => T \cup {x} \in C
    PROVE  S \in C
<1>1. ASSUME NEW T \in SUBSET S, \A U \in SUBSET T : U # T => U \in C
      PROVE  T \in C
  <2>1. CASE T = {}
    BY <2>1
  <2>2. CASE T # {}
    <3>1. PICK x \in T : TRUE
      BY <2>2
    <3>2. T \ {x} \in C
      BY <1>1, <3>1
    <3>3. T = (T \ {x}) \cup {x} /\ x \in S \ (T \ {x}) /\ T \ {x} \in SUBSET S
      BY <3>1
    <3> QED
      BY <3>2, <3>3
  <2> QED
    BY <2>1, <2>2
<1> QED
  BY <1>1, SubsetsDown

LEMMA ImageFinite ==
    ASSUME NEW S, IsFiniteSet(S), NEW e
    PROVE  IsFiniteSet({e[x] : x \in S})
<1> DEFINE C == {T \in SUBSET S : IsFiniteSet({e[x] : x \in T})}
<1>1. {} \in C
  <2>1. {e[x] : x \in {}} = {}
    OBVIOUS
  <2> QED
    BY <2>1, FS_EmptySet
<1>2. ASSUME NEW T \in SUBSET S, NEW x \in S \ T, T \in C
      PROVE  T \cup {x} \in C
  <2>1. {e[y] : y \in T \cup {x}} = {e[y] : y \in T} \cup {e[x]}
    OBVIOUS
  <2>2. IsFiniteSet({e[y] : y \in T} \cup {e[x]})
    BY <1>2, FS_AddElement
  <2> QED
    BY <2>1, <2>2
<1>3. S \in C
  <2> HIDE DEF C
  <2> QED
    BY <1>1, <1>2, SubsetsUp
<1> QED
  BY <1>3

-----------------------------------------------------------------------------
(* Sums over finite sets                                                   *)

Any(s) == CHOOSE x \in s : TRUE

LEMMA AnyIn == ASSUME NEW s, s # {} PROVE Any(s) \in s
  BY DEF Any

\* The equation of which SumFunctionOnSet takes the solution.
Adds(f, S, g) == [s \in SUBSET S |-> IF s = {} THEN 0 ELSE f[Any(s)] + g[s \ {Any(s)}]]

LEMMA SumIs ==
    ASSUME NEW f, NEW S
    PROVE  SumFunctionOnSet(f, S) = (CHOOSE g : g = Adds(f, S, g))[S]
  BY Zenon DEF SumFunctionOnSet, FoldFunctionOnSet, MapThenFoldSet, Adds, Any

\* What holds of 0, and of k + 1 when it holds of k, holds of all numbers up to n.
LEMMA Upwards ==
    ASSUME NEW n \in Nat, NEW C, 0 \in C, \A k \in 0..n : k \in C /\ k < n => k + 1 \in C
    PROVE  n \in C
<1> DEFINE S == 1..n
<1>1. IsFiniteSet(S) /\ Cardinality(S) = n
  BY FS_Interval
<1> DEFINE D == {T \in SUBSET S : Cardinality(T) \in C}
<1>2. S \in D
  <2>1. {} \in D
    BY FS_EmptySet
  <2>2. ASSUME NEW T \in SUBSET S, NEW x \in S \ T, T \in D
        PROVE  T \cup {x} \in D
    <3>1. IsFiniteSet(T) /\ Cardinality(T) \in Nat
      BY <1>1, FS_Subset, FS_CardinalityType
    <3>2. Cardinality(T \cup {x}) = Cardinality(T) + 1
      BY <2>2, <3>1, FS_AddElement
    <3>3. T \cup {x} \in SUBSET S
      BY <2>2
    <3>4. Cardinality(T \cup {x}) <= n
      BY <1>1, <3>3, FS_Subset
    <3> HIDE DEF S
    <3> QED
      BY <2>2, <3>1, <3>2, <3>3, <3>4
  <2> HIDE DEF S, D
  <2> QED
    BY <1>1, <2>1, <2>2, SubsetsUp
<1> QED
  BY <1>1, <1>2

\* The equation has a solution: from the small subsets to the large ones.
LEMMA AddsExist ==
    ASSUME NEW f, NEW S, IsFiniteSet(S)
    PROVE  \E g : g = Adds(f, S, g)
<1> DEFINE Small(n) == {s \in SUBSET S : Cardinality(s) <= n}
           Step(g, s) == IF s = {} THEN 0 ELSE f[Any(s)] + g[s \ {Any(s)}]
           N == Cardinality(S)
           C == {n \in Nat : \E g : g = [s \in Small(n) |-> Step(g, s)]}
<1>1. N \in Nat
  BY FS_CardinalityType
<1>2. \A s \in SUBSET S : IsFiniteSet(s) /\ Cardinality(s) \in Nat /\ Cardinality(s) <= N
  BY FS_Subset, FS_CardinalityType
<1>3. 0 \in C
  <2>1. \A s \in Small(0) : s = {}
    BY <1>2, FS_EmptySet
  <2> DEFINE g == [s \in Small(0) |-> 0]
  <2>2. \A s \in Small(0) : g[s] = Step(g, s)
    BY <2>1
  <2>3. g = [s \in Small(0) |-> g[s]]
    OBVIOUS
  <2> HIDE DEF g, Small, Step
  <2>4. g = [s \in Small(0) |-> Step(g, s)]
    BY <2>2, <2>3
  <2> QED
    BY <2>4
<1>4. ASSUME NEW n \in 0..N, n \in C, n < N
      PROVE  n + 1 \in C
  <2>1. PICK g : g = [s \in Small(n) |-> Step(g, s)]
    BY <1>4
  <2> DEFINE h == [s \in Small(n + 1) |-> Step(g, s)]
  <2>2. ASSUME NEW s \in Small(n + 1), s # {}
        PROVE  s \ {Any(s)} \in Small(n) /\ s \ {Any(s)} \in Small(n + 1)
    <3>1. Any(s) \in s /\ s \in SUBSET S
      BY <2>2, AnyIn
    <3>2. Cardinality(s \ {Any(s)}) = Cardinality(s) - 1
      BY <1>2, <3>1, FS_RemoveElement
    <3> QED
      BY <1>1, <1>2, <3>1, <3>2
  <2>3. ASSUME NEW s \in Small(n + 1)
        PROVE  Step(g, s) = Step(h, s)
    <3>1. CASE s = {}
      BY <3>1
    <3>2. CASE s # {}
      <4> DEFINE t == s \ {Any(s)}
      <4>1. t \in Small(n) /\ t \in Small(n + 1)
        BY <2>2, <3>2
      <4>2. g[t] = h[t]
        <5> HIDE DEF Small, Step, t
        <5> QED
          BY <2>1, <4>1, Zenon
      <4> HIDE DEF h
      <4> QED
        BY <4>2
    <3> QED
      BY <3>1, <3>2
  <2>4. h = [s \in Small(n + 1) |-> Step(h, s)]
    <3> DEFINE D == Small(n + 1)
    <3>1. \A s \in D : h[s] = Step(h, s)
      <4> HIDE DEF Step
      <4> QED
        BY <2>3
    <3>2. h = [s \in D |-> h[s]]
      OBVIOUS
    <3>3. [s \in D |-> h[s]] = [s \in D |-> Step(h, s)]
      <4> HIDE DEF h, D, Step
      <4> QED
        BY <3>1, Zenon
    <3> HIDE DEF h, Small, Step
    <3> QED
      BY <3>2, <3>3, Zenon
  <2>5. n + 1 \in Nat
    BY <1>1
  <2>6. \E k : k = [s \in Small(n + 1) |-> Step(k, s)]
    <3> HIDE DEF h, Small, Step
    <3> QED
      BY <2>4, Zenon
  <2> HIDE DEF h, Small, Step
  <2> QED
    BY <2>5, <2>6
<1>5. N \in C
  <2> HIDE DEF C, N
  <2> QED
    BY <1>1, <1>3, <1>4, Upwards
<1>6. Small(N) = SUBSET S
  BY <1>2
<1> QED
  <2> HIDE DEF N, Small
  <2> QED
    BY <1>5, <1>6 DEF Adds

\* It has one solution, whatever the set of which its sets are subsets.
LEMMA AddsUnique ==
    ASSUME NEW f, NEW S, NEW T, NEW g, NEW h, g = Adds(f, S, g), h = Adds(f, T, h),
           NEW s, s \in SUBSET S, s \in SUBSET T, IsFiniteSet(s)
    PROVE  g[s] = h[s]
<1> DEFINE C == {u \in SUBSET s : g[u] = h[u]}
<1>1. ASSUME NEW u \in SUBSET s, \A v \in SUBSET u : v # u => v \in C
      PROVE  u \in C
  <2>1. /\ g[u] = IF u = {} THEN 0 ELSE f[Any(u)] + g[u \ {Any(u)}]
        /\ h[u] = IF u = {} THEN 0 ELSE f[Any(u)] + h[u \ {Any(u)}]
    BY Zenon DEF Adds
  <2>2. u # {} => g[u \ {Any(u)}] = h[u \ {Any(u)}]
    BY <1>1, AnyIn
  <2> QED
    BY <2>1, <2>2
<1>2. s \in C
  <2> HIDE DEF C
  <2> QED
    BY <1>1, SubsetsDown
<1> QED
  BY <1>2

LEMMA SumSolves ==
    ASSUME NEW f, NEW S, IsFiniteSet(S)
    PROVE  \E g : g = Adds(f, S, g) /\ SumFunctionOnSet(f, S) = g[S]
<1> DEFINE g == CHOOSE h : h = Adds(f, S, h)
<1>1. g = Adds(f, S, g)
  BY AddsExist, Zenon
<1> QED
  BY <1>1, SumIs, Zenon

LEMMA SumEmpty == ASSUME NEW f PROVE SumFunctionOnSet(f, {}) = 0
<1>1. PICK g : g = Adds(f, {}, g) /\ SumFunctionOnSet(f, {}) = g[{}]
  BY SumSolves, FS_EmptySet
<1>2. {} \in SUBSET {}
  OBVIOUS
<1>3. g[{}] = IF {} = {} THEN 0 ELSE f[Any({})] + g[{} \ {Any({})}]
  BY <1>1, <1>2, Zenon DEF Adds
<1> QED
  BY <1>1, <1>3

\* The sum takes off some element first, and then sums up the others.
LEMMA SumUnfolds ==
    ASSUME NEW f, NEW S, IsFiniteSet(S), S # {}
    PROVE  SumFunctionOnSet(f, S) = f[Any(S)] + SumFunctionOnSet(f, S \ {Any(S)})
<1> DEFINE T == S \ {Any(S)}
<1>1. PICK g : g = Adds(f, S, g) /\ SumFunctionOnSet(f, S) = g[S]
  BY SumSolves
<1>2. IsFiniteSet(T)
  BY FS_Subset
<1>3. PICK h : h = Adds(f, T, h) /\ SumFunctionOnSet(f, T) = h[T]
  BY <1>2, SumSolves
<1>4. g[T] = h[T]
  BY <1>1, <1>2, <1>3, AddsUnique
<1>5. g[S] = IF S = {} THEN 0 ELSE f[Any(S)] + g[S \ {Any(S)}]
  <2>1. S \in SUBSET S
    OBVIOUS
  <2> QED
    BY <1>1, <2>1, Zenon DEF Adds
<1> QED
  BY <1>1, <1>3, <1>4, <1>5

\* The sum depends on what the function says of the elements only.
LEMMA SumSame ==
    ASSUME NEW f, NEW h, NEW S, IsFiniteSet(S), \A x \in S : f[x] = h[x]
    PROVE  SumFunctionOnSet(f, S) = SumFunctionOnSet(h, S)
<1> DEFINE C == {T \in SUBSET S : SumFunctionOnSet(f, T) = SumFunctionOnSet(h, T)}
<1>1. ASSUME NEW T \in SUBSET S, \A U \in SUBSET T : U # T => U \in C
      PROVE  T \in C
  <2>1. CASE T = {}
    BY <2>1, SumEmpty
  <2>2. CASE T # {}
    <3>1. Any(T) \in T /\ IsFiniteSet(T)
      BY <2>2, AnyIn, FS_Subset
    <3>2. SumFunctionOnSet(f, T \ {Any(T)}) = SumFunctionOnSet(h, T \ {Any(T)})
      BY <1>1, <3>1
    <3> QED
      BY <2>2, <3>1, <3>2, SumUnfolds
  <2> QED
    BY <2>1, <2>2
<1>2. S \in C
  <2> HIDE DEF C
  <2> QED
    BY <1>1, SubsetsDown
<1> QED
  BY <1>2

LEMMA SumType ==
    ASSUME NEW f, NEW S, IsFiniteSet(S), \A x \in S : f[x] \in Nat
    PROVE  SumFunctionOnSet(f, S) \in Nat
<1> DEFINE C == {T \in SUBSET S : SumFunctionOnSet(f, T) \in Nat}
<1>1. ASSUME NEW T \in SUBSET S, \A U \in SUBSET T : U # T => U \in C
      PROVE  T \in C
  <2>1. CASE T = {}
    BY <2>1, SumEmpty
  <2>2. CASE T # {}
    <3>1. Any(T) \in T /\ IsFiniteSet(T)
      BY <2>2, AnyIn, FS_Subset
    <3>2. SumFunctionOnSet(f, T \ {Any(T)}) \in Nat /\ f[Any(T)] \in Nat
      BY <1>1, <3>1
    <3> QED
      BY <2>2, <3>1, <3>2, SumUnfolds
  <2> QED
    BY <2>1, <2>2
<1>2. S \in C
  <2> HIDE DEF C
  <2> QED
    BY <1>1, SubsetsDown
<1> QED
  BY <1>2

\* It does not matter which element is taken off first.
LEMMA SumAdds ==
    ASSUME NEW f, NEW S, IsFiniteSet(S), NEW z, z \notin S, \A x \in S \cup {z} : f[x] \in Nat
    PROVE  SumFunctionOnSet(f, S \cup {z}) = f[z] + SumFunctionOnSet(f, S)
<1> DEFINE Sum(T) == SumFunctionOnSet(f, T)
           W == S \cup {z}
           C == {T \in SUBSET W : \A x \in W \ T : Sum(T \cup {x}) = f[x] + Sum(T)}
<1>1. IsFiniteSet(W)
  BY FS_AddElement
<1>2. ASSUME NEW T \in SUBSET W PROVE Sum(T) \in Nat
  BY <1>1, FS_Subset, SumType
<1>3. ASSUME NEW T \in SUBSET W, \A U \in SUBSET T : U # T => U \in C
      PROVE  T \in C
  <2> SUFFICES ASSUME NEW x \in W \ T PROVE Sum(T \cup {x}) = f[x] + Sum(T)
    OBVIOUS
  <2> DEFINE V == T \cup {x}
             y == Any(V)
  <2>1. y \in V /\ IsFiniteSet(V) /\ V # {}
    BY <1>1, AnyIn, FS_Subset
  <2>2. Sum(V) = f[y] + Sum(V \ {y})
    BY <2>1, SumUnfolds
  <2>3. CASE y = x
    BY <2>2, <2>3
  <2>4. CASE y # x
    <3> DEFINE U == T \ {y}
    <3>1. y \in T /\ U \in C
      BY <1>3, <2>1, <2>4
    <3>2. Sum(U \cup {x}) = f[x] + Sum(U) /\ Sum(U \cup {y}) = f[y] + Sum(U)
      BY <3>1
    <3>3. V \ {y} = U \cup {x} /\ U \cup {y} = T
      BY <2>4, <3>1
    <3>4. Sum(U) \in Nat /\ f[x] \in Nat /\ f[y] \in Nat
      BY <1>2, <3>1
    <3>5. Sum(V) = f[x] + Sum(T)
      <4> HIDE DEF Sum, U, V, y
      <4> QED
        BY <2>2, <3>2, <3>3, <3>4
    <3> QED
      BY <3>5
  <2> QED
    BY <2>3, <2>4
<1>4. S \in C
  <2>1. IsFiniteSet(S) /\ S \in SUBSET W
    OBVIOUS
  <2>2. \A T \in SUBSET S : (\A U \in SUBSET T : U # T => U \in C) => T \in C
    BY <1>3
  <2> HIDE DEF C
  <2> QED
    BY <2>1, <2>2, SubsetsDown
<1> QED
  BY <1>4

\* Sums of disjoint sets.
LEMMA SumOfTwo ==
    ASSUME NEW f, NEW S, IsFiniteSet(S), NEW T, IsFiniteSet(T), S \cap T = {},
           \A x \in S \cup T : f[x] \in Nat
    PROVE  SumFunctionOnSet(f, S \cup T) = SumFunctionOnSet(f, S) + SumFunctionOnSet(f, T)
<1> DEFINE Sum(U) == SumFunctionOnSet(f, U)
           C == {U \in SUBSET T : Sum(S \cup U) = Sum(S) + Sum(U)}
<1>1. \A U \in SUBSET T : IsFiniteSet(U) /\ IsFiniteSet(S \cup U)
  BY FS_Subset, FS_Union
<1>2. \A U \in SUBSET T : Sum(U) \in Nat /\ Sum(S \cup U) \in Nat /\ Sum(S) \in Nat
  BY <1>1, SumType
<1>3. {} \in C
  <2>1. Sum({}) = 0
    BY SumEmpty
  <2>2. S \cup {} = S /\ {} \in SUBSET T
    OBVIOUS
  <2> HIDE DEF Sum
  <2> QED
    BY <1>2, <2>1, <2>2
<1>4. ASSUME NEW U \in SUBSET T, NEW x \in T \ U, U \in C
      PROVE  U \cup {x} \in C
  <2>1. Sum(U \cup {x}) = f[x] + Sum(U)
    BY <1>1, SumAdds
  <2>2. Sum((S \cup U) \cup {x}) = f[x] + Sum(S \cup U)
    <3>1. x \notin S \cup U
      BY <1>4
    <3> QED
      BY <1>1, <3>1, SumAdds
  <2>3. (S \cup U) \cup {x} = S \cup (U \cup {x}) /\ U \cup {x} \in SUBSET T
    OBVIOUS
  <2>4. Sum(S \cup U) = Sum(S) + Sum(U) /\ f[x] \in Nat
    BY <1>4
  <2>5. Sum(S) \in Nat /\ Sum(U) \in Nat
    BY <1>2
  <2>6. Sum(S \cup (U \cup {x})) = Sum(S) + Sum(U \cup {x})
    <3> HIDE DEF Sum
    <3> QED
      BY <2>1, <2>2, <2>3, <2>4, <2>5
  <2> QED
    BY <2>3, <2>6
<1>5. T \in C
  <2> HIDE DEF C
  <2> QED
    BY <1>3, <1>4, SubsetsUp
<1> QED
  BY <1>5

\* A part adds up to no more than the whole.
LEMMA SumOfPart ==
    ASSUME NEW f, NEW S, IsFiniteSet(S), NEW T \in SUBSET S, \A x \in S : f[x] \in Nat
    PROVE  SumFunctionOnSet(f, T) <= SumFunctionOnSet(f, S)
<1>1. IsFiniteSet(T) /\ IsFiniteSet(S \ T) /\ T \cup (S \ T) = S /\ T \cap (S \ T) = {}
  BY FS_Subset
<1>2. SumFunctionOnSet(f, T) \in Nat /\ SumFunctionOnSet(f, S \ T) \in Nat
  BY <1>1, SumType
<1>3. SumFunctionOnSet(f, S) = SumFunctionOnSet(f, T) + SumFunctionOnSet(f, S \ T)
  <2>1. \A x \in T \cup (S \ T) : f[x] \in Nat
    OBVIOUS
  <2> QED
    BY <1>1, <2>1, SumOfTwo
<1> QED
  BY <1>2, <1>3

\* U falls into the disjoint finite sets A[i], over which f adds up to F[i].
Splits(f, U, I, A, F) ==
    /\ IsFiniteSet(I)
    /\ \A i \in I : IsFiniteSet(A[i]) /\ F[i] = SumFunctionOnSet(f, A[i])
    /\ \A i \in I : \A x \in A[i] : f[x] \in Nat
    /\ \A i, j \in I : i # j => A[i] \cap A[j] = {}
    /\ \A x : x \in U <=> \E i \in I : x \in A[i]

\* A sum over several disjoint sets is the sum of their sums.
LEMMA SumOfSums ==
    ASSUME NEW f, NEW U, NEW I, NEW A, NEW F, Splits(f, U, I, A, F)
    PROVE  SumFunctionOnSet(F, I) = SumFunctionOnSet(f, U)
<1> USE DEF Splits
<1> DEFINE Sum(V) == SumFunctionOnSet(f, V)
           All(J) == UNION {A[i] : i \in J}
           C == {J \in SUBSET I : /\ IsFiniteSet(All(J))
                                  /\ SumFunctionOnSet(F, J) = Sum(All(J))}
<1>1. {} \in C
  <2>1. All({}) = {}
    OBVIOUS
  <2>2. Sum({}) = 0 /\ SumFunctionOnSet(F, {}) = 0 /\ IsFiniteSet({})
    BY SumEmpty, FS_EmptySet
  <2> HIDE DEF Sum, All
  <2> QED
    BY <2>1, <2>2
<1>2. ASSUME NEW J \in SUBSET I, NEW k \in I \ J, J \in C
      PROVE  J \cup {k} \in C
  <2>1. IsFiniteSet(J) /\ IsFiniteSet(A[k]) /\ IsFiniteSet(All(J))
    BY <1>2, FS_Subset
  <2>2. All(J \cup {k}) = A[k] \cup All(J) /\ A[k] \cap All(J) = {}
    OBVIOUS
  <2>3. IsFiniteSet(A[k] \cup All(J))
    BY <2>1, FS_Union
  <2>4. \A x \in A[k] \cup All(J) : f[x] \in Nat
    OBVIOUS
  <2>5. Sum(A[k] \cup All(J)) = Sum(A[k]) + Sum(All(J))
    <3> HIDE DEF All
    <3> QED
      BY <2>1, <2>2, <2>4, SumOfTwo
  <2>6. \A i \in I : F[i] = Sum(A[i]) /\ F[i] \in Nat
    BY SumType
  <2>7. SumFunctionOnSet(F, J \cup {k}) = F[k] + SumFunctionOnSet(F, J)
    BY <2>1, <2>6, SumAdds
  <2>8. SumFunctionOnSet(F, J) = Sum(All(J))
    BY <1>2
  <2> HIDE DEF Sum, All
  <2> QED
    BY <2>2, <2>3, <2>5, <2>6, <2>7, <2>8
<1>3. I \in C
  <2> HIDE DEF C
  <2> QED
    BY <1>1, <1>2, SubsetsUp
<1>4. U = All(I)
  OBVIOUS
<1> QED
  BY <1>3, <1>4

\* The same sum under other names for the elements.
LEMMA SumRenamed ==
    ASSUME NEW f, NEW h, NEW S, IsFiniteSet(S), NEW e,
           \A x \in S : f[x] \in Nat /\ h[e[x]] = f[x],
           \A x, y \in S : e[x] = e[y] => x = y
    PROVE  SumFunctionOnSet(h, {e[x] : x \in S}) = SumFunctionOnSet(f, S)
<1> DEFINE Img(T) == {e[x] : x \in T}
           C == {T \in SUBSET S : /\ IsFiniteSet(Img(T))
                                  /\ SumFunctionOnSet(h, Img(T)) = SumFunctionOnSet(f, T)}
<1>1. {} \in C
  <2>1. Img({}) = {}
    OBVIOUS
  <2> HIDE DEF Img
  <2> QED
    BY <2>1, SumEmpty, FS_EmptySet
<1>2. ASSUME NEW T \in SUBSET S, NEW x \in S \ T, T \in C
      PROVE  T \cup {x} \in C
  <2>1. Img(T \cup {x}) = Img(T) \cup {e[x]} /\ e[x] \notin Img(T)
    OBVIOUS
  <2>2. IsFiniteSet(T) /\ IsFiniteSet(Img(T)) /\ IsFiniteSet(Img(T) \cup {e[x]})
    BY <1>2, FS_Subset, FS_AddElement
  <2>3. SumFunctionOnSet(f, T \cup {x}) = f[x] + SumFunctionOnSet(f, T)
    BY <2>2, SumAdds
  <2>4. \A y \in Img(T) \cup {e[x]} : h[y] \in Nat
    OBVIOUS
  <2>5. SumFunctionOnSet(h, Img(T) \cup {e[x]}) = h[e[x]] + SumFunctionOnSet(h, Img(T))
    <3> HIDE DEF Img
    <3> QED
      BY <2>1, <2>2, <2>4, SumAdds
  <2>6. SumFunctionOnSet(h, Img(T)) = SumFunctionOnSet(f, T) /\ h[e[x]] = f[x]
    BY <1>2
  <2> HIDE DEF Img
  <2> QED
    BY <2>1, <2>2, <2>3, <2>5, <2>6
<1>3. S \in C
  <2> HIDE DEF C
  <2> QED
    BY <1>1, <1>2, SubsetsUp
<1> QED
  BY <1>3

\* One more of one thing is one more in the sum.
LEMMA SumOneMore ==
    ASSUME NEW f, NEW h, NEW S, IsFiniteSet(S), NEW x \in S, \A y \in S : f[y] \in Nat,
           h[x] = f[x] + 1, \A y \in S \ {x} : h[y] = f[y]
    PROVE  SumFunctionOnSet(h, S) = SumFunctionOnSet(f, S) + 1
<1> DEFINE T == S \ {x}
<1>1. IsFiniteSet(T) /\ x \notin T /\ S = T \cup {x}
  BY FS_Subset
<1>2. SumFunctionOnSet(f, S) = f[x] + SumFunctionOnSet(f, T)
  BY <1>1, SumAdds
<1>3. SumFunctionOnSet(h, S) = h[x] + SumFunctionOnSet(h, T)
  BY <1>1, SumAdds
<1>4. SumFunctionOnSet(h, T) = SumFunctionOnSet(f, T)
  BY <1>1, SumSame
<1>5. SumFunctionOnSet(f, T) \in Nat
  BY <1>1, SumType
<1> HIDE DEF T
<1> QED
  BY <1>2, <1>3, <1>4, <1>5

\* Taking something off adds nothing.
LEMMA SumOfLess ==
    ASSUME NEW f, NEW h, NEW S, IsFiniteSet(S),
           \A x \in S : f[x] \in Nat /\ h[x] \in Nat /\ h[x] <= f[x]
    PROVE  SumFunctionOnSet(h, S) <= SumFunctionOnSet(f, S)
<1> DEFINE C == {T \in SUBSET S : SumFunctionOnSet(h, T) <= SumFunctionOnSet(f, T)}
<1>1. {} \in C
  BY SumEmpty
<1>2. ASSUME NEW T \in SUBSET S, NEW x \in S \ T, T \in C
      PROVE  T \cup {x} \in C
  <2>1. IsFiniteSet(T)
    BY FS_Subset
  <2>2. /\ SumFunctionOnSet(f, T \cup {x}) = f[x] + SumFunctionOnSet(f, T)
        /\ SumFunctionOnSet(h, T \cup {x}) = h[x] + SumFunctionOnSet(h, T)
    BY <2>1, SumAdds
  <2>3. SumFunctionOnSet(f, T) \in Nat /\ SumFunctionOnSet(h, T) \in Nat
    BY <2>1, SumType
  <2> QED
    BY <1>2, <2>2, <2>3
<1>3. S \in C
  <2> HIDE DEF C
  <2> QED
    BY <1>1, <1>2, SubsetsUp
<1> QED
  BY <1>3

-----------------------------------------------------------------------------
(* The inductive invariant                                                 *)

Of(d, kind) == [u \in Users |-> source[d][[kind |-> kind, user |-> u]]]

\* Everything counted has happened.
Counted ==
    /\ \A d \in Days, s \in Sources : source[d][s] <= events
    /\ \A d \in Days, kind \in Kinds : SumFunctionOnSet(Of(d, kind), Users) <= events

\* No two rows of S have the same key.
Distinct(S) == \A x, y \in S : SameKey(x, y) => x = y

Clear(S, T) == \A x \in S, y \in T : ~ SameKey(x, y)

\* The rows for the users on which a row for all has been summed up.
SameSelect(x, y) == x.by = y.by /\ x.day = y.day /\ x.metric = y.metric

Parts(S, x) == {y \in S : SameSelect(x, y) /\ y.user \in Users}

Value == [x \in Row |-> x.value]

\* A row for all is the sum of the rows for users inserted with it, and without such a row
\* there are none.
Balanced(S) ==
    \A x \in S : x.metric # "login failed" =>
        IF x.user = "all" THEN x.value = SumFunctionOnSet(Value, Parts(S, x))
        ELSE \E y \in S : SameSelect(x, y) /\ y.user = "all"

\* Rows that others can see are by rebuilds that have been committed.
Committed(S) == \A x \in S : run[x.by].pc = "over"

Table == Distinct(stats) /\ Balanced(stats) /\ Committed(stats)

\* The days a rebuild has still to do are different ones, the rows it is about to insert are
\* those of its SELECT, and the rows it has inserted are of earlier ones.
InOrder(t) ==
    /\ t.pc \in {"delete", "deleting", "select", "insert"} =>
           Len(t.days) \in 1..2 /\ \A i, j \in DOMAIN t.days : t.days[i] = t.days[j] => i = j
    /\ \A x \in t.batch :
           t.pc = "insert" /\ x.day = Head(t.days) /\ x.metric \in Selects[t.next]
    /\ \A x \in t.put : \A i \in DOMAIN t.days :
           t.pc # "commit" /\ x.day = t.days[i] =>
               /\ i = 1 /\ t.pc \in {"select", "insert"}
               /\ \E n \in 1..(t.next - 1) : x.metric \in Selects[n]

\* A DELETE finds and takes the rows that a rebuild has inserted for a day all together.
Together(S) == \A x \in S, y \in stats : x.by = y.by /\ x.day = y.day => y \in S

TakesAll(t) == /\ Committed(t.todo) /\ Committed(t.off)
               /\ Together(t.todo) /\ Together(t.off)

\* What a rebuild has inserted has no rivals, nor will have when it is committed.
NoRivals(r, t) ==
    /\ Distinct(t.put) /\ Clear(stats \ t.off, t.put)
    /\ \A q \in Others(r) : Clear(run[q].put, t.put)

\* What it inserts adds up.
Inserts(r, t) ==
    /\ \A x \in t.put \cup t.batch : x.by = r
    /\ Distinct(t.batch) /\ Balanced(t.put) /\ Balanced(t.batch)

Fits(r, t) == InOrder(t) /\ TakesAll(t) /\ NoRivals(r, t) /\ Inserts(r, t)

IInv == TypeOK /\ Counted /\ Table /\ \A r \in Rebuilds : Fits(r, run[r])

-----------------------------------------------------------------------------
(* Constants and rows                                                      *)

LEMMA Bound ==
    /\ IsFiniteSet(Users) /\ IsFiniteSet(Rebuilds) /\ "all" \notin Users
    /\ MaxDays \in Nat \ {0} /\ MaxEvents \in Nat
  BY ConstantsAssumption, Zenon DEF ConstantsAssumption

LEMMA SelectsAre ==
    /\ Len(Selects) = 4 /\ DOMAIN Selects = 1..4
    /\ Selects[1] = {"ocr", "ocr failed"} /\ Selects[2] = {"ai"}
    /\ Selects[3] = {"pipeline"} /\ Selects[4] = {"login failed"}
  BY DEF Selects

LEMMA MetricsAre ==
    /\ Metrics = Kinds \cup {"login failed"}
    /\ \A n \in 1..Len(Selects) :
          /\ Selects[n] \subseteq Metrics
          /\ Selects[n] # {"login failed"} => Selects[n] \subseteq Kinds
          /\ \A k \in 1..Len(Selects) : k # n => Selects[k] \cap Selects[n] = {}
<1>1. Metrics = Selects[1] \cup Selects[2] \cup Selects[3] \cup Selects[4]
  <2>1. 1..4 = {1, 2, 3, 4}
    OBVIOUS
  <2> QED
    BY <2>1, SelectsAre DEF Metrics
<1>2. \A n \in 1..Len(Selects) : n = 1 \/ n = 2 \/ n = 3 \/ n = 4
  <2>1. Len(Selects) = 4
    BY SelectsAre
  <2> QED
    BY <2>1
<1> QED
  BY <1>1, <1>2, SelectsAre DEF Kinds

\* There are finitely many rows.
LEMMA RowFinite == IsFiniteSet(Row)
<1> DEFINE P == ((Rebuilds \X Days) \X (Metrics \X (Users \cup {"all"}))) \X (0..MaxEvents)
           Q(p) == [by |-> p[1][1][1], day |-> p[1][1][2], metric |-> p[1][2][1],
                    user |-> p[1][2][2], value |-> p[2]]
           e == [p \in P |-> Q(p)]
<1>1. IsFiniteSet(Days) /\ IsFiniteSet(0..MaxEvents)
  BY Bound, FS_Interval DEF Days
<1>2. IsFiniteSet(Metrics)
  <2>1. Metrics = {} \cup {"ocr"} \cup {"ocr failed"} \cup {"ai"} \cup {"pipeline"}
                     \cup {"login failed"}
    BY MetricsAre DEF Kinds
  <2> QED
    BY <2>1, FS_EmptySet, FS_AddElement
<1>3. IsFiniteSet(Users \cup {"all"})
  BY Bound, FS_AddElement
<1>4. IsFiniteSet(Rebuilds \X Days) /\ IsFiniteSet(Metrics \X (Users \cup {"all"}))
  BY <1>1, <1>2, <1>3, Bound, FS_Product
<1>5. IsFiniteSet((Rebuilds \X Days) \X (Metrics \X (Users \cup {"all"})))
  BY <1>4, FS_Product
<1>6. IsFiniteSet(P)
  BY <1>1, <1>5, FS_Product
<1>7. IsFiniteSet({e[p] : p \in P})
  <2> HIDE DEF P, e
  <2> QED
    BY <1>6, ImageFinite
<1>8. Row \subseteq {e[p] : p \in P}
  <2> SUFFICES ASSUME NEW x \in Row PROVE \E p \in P : x = e[p]
    OBVIOUS
  <2> DEFINE p == <<<<<<x.by, x.day>>, <<x.metric, x.user>>>>, x.value>>
  <2>1. p \in P
    BY DEF Row
  <2>2. x = Q(p)
    BY DEF Row
  <2>3. e[p] = Q(p)
    BY <2>1
  <2> HIDE DEF P, Q, e
  <2> QED
    BY <2>1, <2>2, <2>3
<1> QED
  <2> HIDE DEF P, e
  <2> QED
    BY <1>7, <1>8, FS_Subset

-----------------------------------------------------------------------------
(* What the invariant says of the series                                   *)

LEMMA ValueType ==
    ASSUME NEW S \in SUBSET Row
    PROVE  IsFiniteSet(S) /\ \A x \in S : Value[x] = x.value /\ Value[x] \in Nat
<1>1. IsFiniteSet(S)
  BY RowFinite, FS_Subset
<1>2. \A x \in Row : x.value \in Nat
  BY Bound DEF Row
<1>3. \A x \in Row : Value[x] = x.value
  BY DEF Value
<1> QED
  BY <1>1, <1>2, <1>3

\* The sum of one series over some days.
LEMMA ShownIs ==
    ASSUME TypeOK, NEW from, NEW to, NEW m, NEW user
    PROVE  /\ Points(from, to, m, user) \in SUBSET Row
           /\ Shown(from, to, m, user) = SumFunctionOnSet(Value, Points(from, to, m, user))
<1> DEFINE P == Points(from, to, m, user)
           V == [x \in stats |-> x.value]
<1>1. P \subseteq stats /\ P \in SUBSET Row
  BY DEF Points, TypeOK
<1>2. \A x \in P : V[x] = Value[x]
  BY <1>1, ValueType
<1>3. IsFiniteSet(P)
  BY <1>1, ValueType
<1>4. SumFunctionOnSet(V, P) = SumFunctionOnSet(Value, P)
  <2> HIDE DEF P, V
  <2> QED
    BY <1>2, <1>3, SumSame
<1> QED
  BY <1>1, <1>4 DEF Shown

\* The rows for all of a metric are the sums of disjoint parts of the table, which make up
\* the rows for the users.
LEMMA SeriesAddUp ==
    ASSUME TypeOK, Table, NEW from, NEW to, NEW m \in Kinds
    PROVE  Shown(from, to, m, "all") = SumFunction([u \in Users |-> Shown(from, to, m, u)])
<1> DEFINE totals == Points(from, to, m, "all")
           part == [x \in totals |-> Parts(stats, x)]
           series == [u \in Users |-> Points(from, to, m, u)]
           sums == [x \in totals |-> SumFunctionOnSet(Value, part[x])]
           shown == [u \in Users |-> Shown(from, to, m, u)]
           rows == {z \in stats : z.metric = m /\ z.user \in Users /\ from <= z.day /\ z.day <= to}
<1>1. stats \in SUBSET Row /\ totals \in SUBSET Row /\ IsFiniteSet(totals) /\ IsFiniteSet(Users)
  BY ValueType, Bound DEF TypeOK, Points
<1>2. \A x \in totals : part[x] \in SUBSET Row
  BY <1>1 DEF Parts
<1>3. \A x \in totals : Value[x] = sums[x]
  <2> TAKE x \in totals
  <2>1. x \in stats /\ x.metric # "login failed" /\ x.user = "all"
    BY DEF Points, Kinds
  <2>2. x.value = SumFunctionOnSet(Value, Parts(stats, x))
    BY <2>1 DEF Table, Balanced
  <2> QED
    BY <1>1, <2>2, ValueType
<1>4. SumFunctionOnSet(Value, totals) = SumFunctionOnSet(sums, totals)
  <2> HIDE DEF totals, sums
  <2> QED
    BY <1>1, <1>3, SumSame
<1>5. \A x, y \in totals : x # y => part[x] \cap part[y] = {}
  <2> SUFFICES ASSUME NEW x \in totals, NEW y \in totals, x # y, NEW z \in part[x], z \in part[y]
               PROVE  FALSE
    OBVIOUS
  <2>1. x \in stats /\ y \in stats /\ x.user = "all" /\ y.user = "all"
    BY DEF Points
  <2>2. SameSelect(x, z) /\ SameSelect(y, z)
    BY DEF Parts
  <2>3. SameKey(x, y)
    BY <2>1, <2>2 DEF SameSelect, SameKey
  <2> QED
    BY <2>1, <2>3 DEF Table, Distinct
<1>6. SumFunctionOnSet(sums, totals) = SumFunctionOnSet(Value, rows)
  <2>1. \A x \in totals : IsFiniteSet(part[x]) /\ \A z \in part[x] : Value[z] \in Nat
    <3> HIDE DEF part
    <3> QED
      BY <1>2, ValueType
  <2>2. \A x \in totals : sums[x] = SumFunctionOnSet(Value, part[x])
    BY Zenon
  <2>3. ASSUME NEW x \in totals, NEW z \in part[x]
        PROVE  z \in rows
    <3>1. z \in stats /\ SameSelect(x, z) /\ z.user \in Users
      BY <2>3 DEF Parts
    <3> QED
      BY <3>1 DEF Points, SameSelect
  <2>4. ASSUME NEW z \in rows
        PROVE  \E x \in totals : z \in part[x]
    <3>1. PICK x \in stats : SameSelect(z, x) /\ x.user = "all"
      BY Bound DEF Table, Balanced, Kinds
    <3>2. x \in totals
      BY <3>1 DEF Points, SameSelect
    <3>3. z \in Parts(stats, x)
      BY <3>1 DEF Parts, SameSelect
    <3> QED
      BY <3>2, <3>3
  <2>5. Splits(Value, rows, totals, part, sums)
    <3> HIDE DEF totals, part, sums, rows
    <3> QED
      BY <1>1, <1>5, <2>1, <2>2, <2>3, <2>4 DEF Splits
  <2> HIDE DEF totals, part, sums, rows, series, shown
  <2> QED
    BY <2>5, SumOfSums
<1>7. \A u \in Users : series[u] \in SUBSET Row /\ shown[u] = SumFunctionOnSet(Value, series[u])
  BY ShownIs
<1>8. \A u, v \in Users : u # v => series[u] \cap series[v] = {}
  BY DEF Points
<1>9. SumFunctionOnSet(shown, Users) = SumFunctionOnSet(Value, rows)
  <2>1. \A u \in Users : IsFiniteSet(series[u]) /\ \A z \in series[u] : Value[z] \in Nat
    <3> HIDE DEF series
    <3> QED
      BY <1>7, ValueType
  <2>2. \A z : z \in rows <=> \E u \in Users : z \in series[u]
    BY DEF Points
  <2>3. Splits(Value, rows, Users, series, shown)
    <3> HIDE DEF series, shown, rows
    <3> QED
      BY <1>1, <1>7, <1>8, <2>1, <2>2 DEF Splits
  <2> HIDE DEF totals, part, sums, rows, series, shown
  <2> QED
    BY <2>3, SumOfSums
<1>10. SumFunction(shown) = SumFunctionOnSet(shown, Users)
  BY DEF SumFunction
<1>11. Shown(from, to, m, "all") = SumFunctionOnSet(Value, totals)
  BY ShownIs
<1> QED
  BY <1>4, <1>6, <1>9, <1>10, <1>11

LEMMA AddsUp == TypeOK /\ Table => RollupsAddUp
<1> SUFFICES ASSUME TypeOK, Table, NEW from \in Days, NEW to \in Days, NEW m \in Metrics
             PROVE  /\ \A user \in Users \cup {"all"} :
                         \A x, y \in Points(from, to, m, user) : x.day = y.day => x = y
                    /\ m # "login failed" =>
                         Shown(from, to, m, "all")
                           = SumFunction([u \in Users |-> Shown(from, to, m, u)])
  BY Zenon DEF RollupsAddUp
<1>1. \A user \in Users \cup {"all"} :
         \A x, y \in Points(from, to, m, user) : x.day = y.day => x = y
  BY DEF Points, Table, Distinct, SameKey
<1>2. m # "login failed" => m \in Kinds
  BY MetricsAre
<1> QED
  BY <1>1, <1>2, SeriesAddUp

-----------------------------------------------------------------------------
(* What a SELECT yields                                                    *)

LEMMA LoginRowsAre ==
    ASSUME TypeOK, NEW r \in Rebuilds, NEW d \in Days
    PROVE  /\ LoginRows(r, d) \in SUBSET Row
           /\ \A x \in LoginRows(r, d) : x.by = r /\ x.day = d /\ x.metric = "login failed"
           /\ Distinct(LoginRows(r, d)) /\ Balanced(LoginRows(r, d))
<1> DEFINE s == [kind |-> "login failed", user |-> "all"]
           x == [by |-> r, day |-> d, metric |-> "login failed", user |-> "all",
                 value |-> source[d][s]]
<1>1. s \in Sources
  BY DEF Sources
<1>2. source[d][s] \in 0..MaxEvents
  BY <1>1 DEF TypeOK
<1>3. x \in Row
  BY <1>2, MetricsAre DEF Row
<1>4. LoginRows(r, d) \subseteq {x}
  BY DEF LoginRows
<1>5. x.by = r /\ x.day = d /\ x.metric = "login failed"
  OBVIOUS
<1> HIDE DEF x
<1>6. \A y \in LoginRows(r, d) : y = x
  BY <1>4
<1> QED
  BY <1>3, <1>5, <1>6 DEF Distinct, Balanced

LEMMA OfType ==
    ASSUME TypeOK, NEW d \in Days, NEW kind \in Kinds
    PROVE  \A u \in Users : Of(d, kind)[u] \in 0..MaxEvents
<1> TAKE u \in Users
<1>1. [kind |-> kind, user |-> u] \in Sources
  BY DEF Sources
<1> QED
  BY <1>1 DEF Of, TypeOK

\* Sums do not exceed the bound on what happens.
LEMMA TotalIs ==
    ASSUME TypeOK, Counted, NEW d \in Days, NEW m \in Kinds, NEW users \in SUBSET Users
    PROVE  /\ Total(d, m, users) = SumFunctionOnSet(Of(d, m), users)
           /\ Total(d, m, users) \in 0..MaxEvents
<1>1. Total(d, m, users) = SumFunctionOnSet(Of(d, m), users)
  BY Zenon DEF Total, Of
<1>2. \A u \in Users : Of(d, m)[u] \in Nat
  BY OfType
<1>3. IsFiniteSet(Users) /\ IsFiniteSet(users)
  BY Bound, FS_Subset
<1>4. SumFunctionOnSet(Of(d, m), users) <= SumFunctionOnSet(Of(d, m), Users)
  BY <1>2, <1>3, SumOfPart
<1>5. SumFunctionOnSet(Of(d, m), users) \in Nat /\ SumFunctionOnSet(Of(d, m), Users) \in Nat
  BY <1>2, <1>3, SumType
<1>6. SumFunctionOnSet(Of(d, m), Users) <= events /\ events \in 0..MaxEvents
  BY DEF Counted, TypeOK
<1> QED
  BY <1>1, <1>4, <1>5, <1>6, Bound

\* What _insert_grouped inserts adds up.
LEMMA UserRowsAre ==
    ASSUME TypeOK, Counted, NEW r \in Rebuilds, NEW d \in Days, NEW metrics \in SUBSET Kinds
    PROVE  /\ UserRows(r, d, metrics) \in SUBSET Row
           /\ \A x \in UserRows(r, d, metrics) : x.by = r /\ x.day = d /\ x.metric \in metrics
           /\ Distinct(UserRows(r, d, metrics)) /\ Balanced(UserRows(r, d, metrics))
<1> DEFINE users == Grouped(d, metrics)
           row(m, u, v) == [by |-> r, day |-> d, metric |-> m, user |-> u, value |-> v]
           ofUser(m, u) == row(m, u, Of(d, m)[u])
           ofAll(m) == row(m, "all", Total(d, m, users))
           rows == UserRows(r, d, metrics)
<1>1. users \in SUBSET Users /\ "all" \notin Users
  BY Bound DEF Grouped
<1>2. \A m \in metrics, u \in users : ofUser(m, u) \in rows
  BY <1>1 DEF UserRows, Of
<1>3. users # {} => \A m \in metrics : ofAll(m) \in rows
  BY DEF UserRows
<1>4. ASSUME NEW x \in rows
      PROVE  \E m \in metrics :
                \/ \E u \in users : x = ofUser(m, u)
                \/ users # {} /\ x = ofAll(m)
  <2>1. PICK m \in metrics :
               x \in {row(m, u, source[d][[kind |-> m, user |-> u]]) : u \in users} \cup
                     (IF users = {} THEN {} ELSE {row(m, "all", Total(d, m, users))})
    BY <1>4, Zenon DEF UserRows
  <2> QED
    BY <1>1, <2>1 DEF Of
<1>5. ASSUME NEW m \in metrics
      PROVE  /\ \A u \in users : Of(d, m)[u] \in 0..MaxEvents
             /\ Total(d, m, users) \in 0..MaxEvents
             /\ Total(d, m, users) = SumFunctionOnSet(Of(d, m), users)
  BY <1>1, OfType, TotalIs
<1>6. metrics \subseteq Metrics
  BY MetricsAre
<1>7. \A m \in metrics, u \in users \cup {"all"} : \A v \in 0..MaxEvents :
        /\ row(m, u, v) \in Row
        /\ row(m, u, v).by = r /\ row(m, u, v).day = d /\ row(m, u, v).metric = m
        /\ row(m, u, v).user = u /\ row(m, u, v).value = v
  BY <1>1, <1>6 DEF Row
<1> HIDE DEF users, rows, row
<1>8. /\ rows \in SUBSET Row
      /\ \A x \in rows : x.by = r /\ x.day = d /\ x.metric \in metrics
  BY <1>4, <1>5, <1>7
<1>9. Distinct(rows)
  <2> SUFFICES ASSUME NEW x \in rows, NEW y \in rows, SameKey(x, y) PROVE x = y
    BY DEF Distinct
  <2>1. PICK m \in metrics : (\E u \in users : x = ofUser(m, u)) \/ (users # {} /\ x = ofAll(m))
    BY <1>4
  <2>2. PICK k \in metrics : (\E u \in users : y = ofUser(k, u)) \/ (users # {} /\ y = ofAll(k))
    BY <1>4
  <2>3. m = k /\ x.user = y.user
    BY <1>5, <1>7, <2>1, <2>2 DEF SameKey
  <2>4. CASE x.user = "all"
    <3>1. \A u \in users : ofUser(m, u).user = u /\ ofUser(k, u).user = u
      BY <1>5, <1>7
    <3>2. \A u \in users : u # "all"
      BY <1>1
    <3>3. \A u \in users : x # ofUser(m, u) /\ y # ofUser(k, u)
      <4>1. \A u \in users : x.user # u /\ y.user # u
        BY <2>3, <2>4, <3>2
      <4> HIDE DEF ofUser
      <4> QED
        BY <3>1, <4>1
    <3> QED
      BY <2>1, <2>2, <2>3, <3>3
  <2>5. CASE x.user # "all"
    BY <1>1, <1>5, <1>7, <2>1, <2>2, <2>3, <2>5
  <2> QED
    BY <2>4, <2>5
<1>10. Balanced(rows)
  <2> SUFFICES ASSUME NEW x \in rows
               PROVE  IF x.user = "all" THEN x.value = SumFunctionOnSet(Value, Parts(rows, x))
                      ELSE \E y \in rows : SameSelect(x, y) /\ y.user = "all"
    BY DEF Balanced
  <2>1. PICK m \in metrics : (\E u \in users : x = ofUser(m, u)) \/ (users # {} /\ x = ofAll(m))
    BY <1>4
  <2>2. CASE \E u \in users : x = ofUser(m, u)
    <3>1. x.user \in users /\ ofAll(m) \in rows
      BY <1>3, <1>5, <1>7, <2>2
    <3>2. SameSelect(x, ofAll(m)) /\ ofAll(m).user = "all"
      BY <1>5, <1>7, <2>2 DEF SameSelect
    <3> QED
      BY <1>1, <3>1, <3>2
  <2>3. CASE users # {} /\ x = ofAll(m)
    <3> DEFINE e == [u \in users |-> ofUser(m, u)]
    <3>1. x.user = "all" /\ x.value = SumFunctionOnSet(Of(d, m), users)
      BY <1>5, <1>7, <2>3
    <3>2. Parts(rows, x) = {e[u] : u \in users}
      <4>1. ASSUME NEW y \in Parts(rows, x) PROVE y \in {e[u] : u \in users}
        <5>1. y \in rows /\ y.metric = m /\ y.user \in Users
          BY <1>5, <1>7, <2>3, <4>1 DEF Parts, SameSelect
        <5>2. PICK k \in metrics : \/ \E u \in users : y = ofUser(k, u)
                                   \/ users # {} /\ y = ofAll(k)
          BY <1>4, <5>1
        <5>3. k = m /\ y # ofAll(k)
          BY <1>1, <1>5, <1>7, <5>1, <5>2
        <5> QED
          BY <5>2, <5>3
      <4>2. ASSUME NEW u \in users PROVE e[u] \in Parts(rows, x)
        BY <1>1, <1>2, <1>5, <1>7, <2>3 DEF Parts, SameSelect
      <4> HIDE DEF e
      <4> QED
        BY <4>1, <4>2
    <3>3. \A u \in users : Of(d, m)[u] \in Nat /\ Value[e[u]] = Of(d, m)[u]
      BY <1>1, <1>5, <1>7, Bound DEF Value
    <3>4. \A u, v \in users : e[u] = e[v] => u = v
      BY <1>5, <1>7
    <3>5. IsFiniteSet(users)
      BY <1>1, Bound, FS_Subset
    <3>6. SumFunctionOnSet(Value, {e[u] : u \in users}) = SumFunctionOnSet(Of(d, m), users)
      <4> HIDE DEF e
      <4> QED
        BY <3>3, <3>4, <3>5, SumRenamed
    <3> QED
      BY <3>1, <3>2, <3>6
  <2> QED
    BY <2>1, <2>2, <2>3
<1> QED
  BY <1>8, <1>9, <1>10 DEF rows

-----------------------------------------------------------------------------
(* Steps of a rebuild                                                      *)

\* Two sets of rows of different SELECTs are as balanced together as they are apart.
LEMMA BalancedUnion ==
    ASSUME NEW S, NEW T, Balanced(S), Balanced(T), \A x \in S, y \in T : ~ SameSelect(x, y)
    PROVE  Balanced(S \cup T)
<1>1. \A x \in S : Parts(S \cup T, x) = Parts(S, x)
  BY DEF Parts
<1>2. \A x \in T : Parts(S \cup T, x) = Parts(T, x)
  BY DEF Parts, SameSelect
<1> SUFFICES ASSUME NEW x \in S \cup T, x.metric # "login failed"
             PROVE  IF x.user = "all" THEN x.value = SumFunctionOnSet(Value, Parts(S \cup T, x))
                    ELSE \E y \in S \cup T : SameSelect(x, y) /\ y.user = "all"
  BY DEF Balanced
<1>3. CASE x \in S
  <2>1. IF x.user = "all" THEN x.value = SumFunctionOnSet(Value, Parts(S, x))
        ELSE \E y \in S : SameSelect(x, y) /\ y.user = "all"
    BY <1>3 DEF Balanced
  <2> QED
    BY <1>1, <1>3, <2>1
<1>4. CASE x \in T
  <2>1. IF x.user = "all" THEN x.value = SumFunctionOnSet(Value, Parts(T, x))
        ELSE \E y \in T : SameSelect(x, y) /\ y.user = "all"
    BY <1>4 DEF Balanced
  <2> QED
    BY <1>2, <1>4, <2>1
<1> QED
  BY <1>3, <1>4

LEMMA NoRows == Distinct({}) /\ Balanced({}) /\ Committed({}) /\ Together({})
  BY DEF Distinct, Balanced, Committed, Together

\* A rebuild that changes its own record only keeps the invariant when the new record fits.
LEMMA RecordFits ==
    ASSUME IInv, NEW r \in Rebuilds, NEW t \in Run, run[r].pc # "over", Becomes(r, t), Fits(r, t)
    PROVE  IInv'
<1> USE DEF IInv, TypeOK, Becomes
<1>1. run' \in [Rebuilds -> Run] /\ run'[r] = t /\ \A q \in Others(r) : run'[q] = run[q]
  BY DEF Others
<1>2. TypeOK' /\ Counted'
  BY <1>1 DEF Counted, Of
<1>3. ASSUME NEW S, Committed(S) PROVE Committed(S)'
  BY <1>1, <1>3 DEF Committed, Others
<1>4. Table'
  <2>1. stats' = stats
    OBVIOUS
  <2>2. Committed(stats)'
    BY <1>1, <2>1 DEF Table, Committed, Others
  <2> QED
    BY <2>1, <2>2 DEF Table, Distinct, Balanced, Parts
<1>5. ASSUME NEW q \in Rebuilds, NEW z \in Run, Fits(q, z),
             \A p \in Others(q) : Clear(run'[p].put, z.put)
      PROVE  Fits(q, z)'
  <2>1. TakesAll(z)'
    BY <1>3, <1>5 DEF Fits, TakesAll, Together
  <2> QED
    BY <1>5, <2>1 DEF Fits, InOrder, NoRivals, Inserts, Distinct, Balanced, Parts, Clear
<1>6. Fits(r, t)'
  <2>1. \A p \in Others(r) : Clear(run'[p].put, t.put)
    BY <1>1 DEF Fits, NoRivals
  <2> QED
    BY <1>5, <2>1
<1>7. ASSUME NEW q \in Others(r) PROVE Fits(q, run[q])'
  <2>1. q \in Rebuilds /\ q # r /\ run[q] \in Run /\ Fits(q, run[q])
    BY DEF Others
  <2>2. Clear(t.put, run[q].put)
    BY DEF Fits, NoRivals, Clear, SameKey, Others
  <2>3. \A p \in Others(q) : Clear(run'[p].put, run[q].put)
    BY <1>1, <2>1, <2>2 DEF Fits, NoRivals, Others
  <2>4. run'[q] = run[q]
    BY <1>1
  <2> QED
    BY <1>5, <2>1, <2>3, <2>4
<1> QED
  <2>1. \A q \in Rebuilds : Fits(q, run[q])'
    BY <1>1, <1>6, <1>7 DEF Others
  <2> QED
    BY <1>2, <1>4, <2>1

LEMMA RunIs ==
    Run = [pc : PC, days : Seq(Days), next : 1..4, todo : SUBSET Row, batch : SUBSET Row,
           off : SUBSET Row, put : SUBSET Row]
  BY SelectsAre DEF Run

LEMMA SecondDay ==
    ASSUME NEW s \in Seq(Days), Len(s) = 2
    PROVE  /\ Tail(s) \in Seq(Days) /\ Len(Tail(s)) = 1
           /\ Tail(s)[1] = s[2] /\ DOMAIN Tail(s) = {1}
<1>1. s # <<>>
  OBVIOUS
<1>2. Tail(s) \in Seq(Days) /\ Len(Tail(s)) = 1
  BY <1>1
<1>3. Tail(s)[1] = s[2]
  BY HeadTailProperties
<1>4. DOMAIN Tail(s) = 1..1
  <2> DEFINE q == Tail(s)
  <2> HIDE DEF q
  <2>1. \A k \in Seq(Days) : DOMAIN k = 1..Len(k)
    OBVIOUS
  <2>2. q \in Seq(Days) /\ Len(q) = 1
    BY <1>2 DEF q
  <2>3. DOMAIN q = 1..1
    BY <2>1, <2>2
  <2> QED
    BY <2>3 DEF q
<1>5. 1..1 = {1}
  OBVIOUS
<1> QED
  BY <1>2, <1>3, <1>4, <1>5

\* Rows that have no rivals can be inserted, and what was inserted before is of other SELECTs.
LEMMA InsertedFits ==
    ASSUME IInv, NEW r \in Rebuilds, NEW t \in Run, Fits(r, t), t.pc \in {"select", "insert"},
           Clear(stats \ t.off, t.batch), \A q \in Others(r) : Clear(run[q].put, t.batch)
    PROVE  AfterInsert(t) \in Run /\ Fits(r, AfterInsert(t))
<1> DEFINE put == t.put \cup t.batch
           z == AfterInsert(t)
<1>1. /\ t.days \in Seq(Days) /\ Len(t.days) \in 1..2 /\ DOMAIN t.days = 1..Len(t.days)
      /\ t.next \in 1..4 /\ Len(Selects) = 4 /\ Head(t.days) = t.days[1]
      /\ t.put \in SUBSET Row /\ t.batch \in SUBSET Row
      /\ \A i, j \in 1..Len(t.days) : t.days[i] = t.days[j] => i = j
  <2>1. /\ t.days \in Seq(Days) /\ t.next \in 1..4 /\ Len(Selects) = 4
        /\ t.put \in SUBSET Row /\ t.batch \in SUBSET Row
    BY RunIs, SelectsAre
  <2>2. Len(t.days) \in 1..2 /\ \A i, j \in DOMAIN t.days : t.days[i] = t.days[j] => i = j
    BY DEF Fits, InOrder
  <2>3. DOMAIN t.days = 1..Len(t.days) /\ Head(t.days) = t.days[1]
    BY <2>1, <2>2
  <2> QED
    BY <2>1, <2>2, <2>3
<1>2. \A x \in t.batch : x.day = t.days[1] /\ x.metric \in Selects[t.next]
  BY <1>1 DEF Fits, InOrder
<1>3. ASSUME NEW x \in t.put, NEW i \in DOMAIN t.days, x.day = t.days[i]
      PROVE  i = 1 /\ \E n \in 1..(t.next - 1) : x.metric \in Selects[n]
  BY <1>3 DEF Fits, InOrder
<1>4. ASSUME NEW x \in t.put, NEW y \in t.batch, x.day = y.day
      PROVE  x.metric # y.metric
  <2>1. PICK n \in 1..(t.next - 1) : x.metric \in Selects[n]
    BY <1>1, <1>2, <1>3, <1>4
  <2>2. n \in 1..4 /\ n # t.next
    BY <1>1
  <2>3. Selects[n] \cap Selects[t.next] = {}
    BY <1>1, <2>2, MetricsAre
  <2> QED
    BY <1>2, <2>1, <2>3
<1> DEFINE w == [t EXCEPT !.put = put, !.batch = {}]
<1>5. /\ t.next < 4 => z = [w EXCEPT !.pc = "select", !.next = t.next + 1]
      /\ t.next = 4 /\ Len(t.days) = 2
            => z = [w EXCEPT !.pc = "delete", !.days = Tail(t.days), !.next = 1]
      /\ t.next = 4 /\ Len(t.days) # 2 => z = [w EXCEPT !.pc = "commit"]
  <2>1. w \in Run /\ w.next = t.next /\ w.days = t.days
    BY <1>1, RunIs
  <2>2. z = CASE t.next < Len(Selects) -> [w EXCEPT !.pc = "select", !.next = @ + 1]
              [] t.next = Len(Selects) /\ Len(t.days) > 1
                   -> [w EXCEPT !.pc = "delete", !.days = Tail(@), !.next = 1]
              [] OTHER -> [w EXCEPT !.pc = "commit"]
    BY Zenon DEF AfterInsert
  <2> DEFINE n == Len(t.days)
  <2>3. n \in 1..2 /\ t.next \in 1..4 /\ Len(Selects) = 4
    BY <1>1
  <2> HIDE DEF w, z, n
  <2>4. (n > 1 <=> n = 2) /\ (t.next < 4 \/ t.next = 4)
    BY <2>3
  <2> QED
    BY <2>1, <2>2, <2>3, <2>4 DEF n
<1>6. Len(t.days) = 2 => Tail(t.days) \in Seq(Days) /\ Len(Tail(t.days)) = 1
                         /\ Tail(t.days)[1] = t.days[2] /\ DOMAIN Tail(t.days) = {1}
  BY <1>1, SecondDay
<1>7. put \in SUBSET Row
  BY <1>1
<1>8. /\ z.put = put /\ z.batch = {} /\ z.off = t.off /\ z.todo = t.todo /\ z \in Run
      /\ t.next < 4 => z.pc = "select" /\ z.days = t.days /\ z.next = t.next + 1
      /\ t.next = 4 /\ Len(t.days) = 2 => z.pc = "delete" /\ z.days = Tail(t.days)
      /\ t.next = 4 /\ Len(t.days) # 2 => z.pc = "commit"
  <2> HIDE DEF put
  <2>1. /\ w \in Run /\ w.put = put /\ w.batch = {} /\ w.off = t.off /\ w.todo = t.todo
        /\ w.days = t.days /\ w.next = t.next
    BY <1>7, RunIs
  <2> DEFINE two == Len(t.days) = 2
             tail == Tail(t.days)
  <2>2. two => tail \in Seq(Days)
    BY <1>6
  <2>3. t.next \in 1..4 /\ (t.next < 4 \/ t.next = 4)
    BY <1>1
  <2> HIDE DEF w, z, two, tail
  <2>4. CASE t.next < 4
    <3>1. t.next + 1 \in 1..4
      BY <2>3, <2>4
    <3> QED
      BY <1>5, <2>1, <2>4, <3>1, RunIs DEF PC
  <2>5. CASE t.next = 4 /\ two
    <3>1. z = [w EXCEPT !.pc = "delete", !.days = tail, !.next = 1]
      BY <1>5, <2>5 DEF two, tail
    <3>2. z \in Run /\ z.pc = "delete" /\ z.days = tail
      <4>1. tail \in Seq(Days)
        BY <2>2, <2>5
      <4> DEFINE D == Seq(Days)
      <4>2. Run = [pc : PC, days : D, next : 1..4, todo : SUBSET Row, batch : SUBSET Row,
                   off : SUBSET Row, put : SUBSET Row]
        BY RunIs
      <4>3. tail \in D /\ "delete" \in PC /\ 1 \in 1..4
        BY <4>1 DEF PC
      <4> HIDE DEF D
      <4> QED
        BY <2>1, <3>1, <4>2, <4>3
    <3> QED
      BY <2>1, <2>5, <3>1, <3>2, RunIs DEF two, tail
  <2>6. CASE t.next = 4 /\ ~ two
    <3>1. z = [w EXCEPT !.pc = "commit"]
      BY <1>5, <2>6 DEF two
    <3>2. z \in Run /\ z.pc = "commit"
      BY <2>1, <2>6, <3>1, RunIs DEF PC
    <3> QED
      BY <2>1, <2>6, <3>1, <3>2, RunIs DEF two
  <2> QED
    BY <2>3, <2>4, <2>5, <2>6
<1> HIDE DEF z, put
<1>9. InOrder(z)
  <2>1. CASE t.next < 4
    <3>1. z.pc = "select" /\ z.days = t.days /\ z.next = t.next + 1
      BY <1>8, <2>1
    <3>2. ASSUME NEW x \in z.put, NEW i \in DOMAIN z.days, x.day = z.days[i]
          PROVE  i = 1 /\ \E n \in 1..(z.next - 1) : x.metric \in Selects[n]
      <4>1. CASE x \in t.put
        BY <1>1, <1>3, <3>1, <3>2, <4>1
      <4>2. CASE x \in t.batch
        <5>1. i = 1
          BY <1>1, <1>2, <3>1, <3>2, <4>2
        <5>2. t.next \in 1..(z.next - 1) /\ x.metric \in Selects[t.next]
          BY <1>1, <1>2, <3>1, <4>2
        <5> QED
          BY <5>1, <5>2
      <4> QED
        BY <1>8, <3>2, <4>1, <4>2 DEF put
    <3> QED
      BY <1>1, <1>8, <3>1, <3>2 DEF InOrder
  <2>2. CASE t.next = 4 /\ Len(t.days) = 2
    <3>1. z.pc = "delete" /\ z.days = Tail(t.days) /\ Len(z.days) = 1 /\ DOMAIN z.days = {1}
          /\ z.days[1] = t.days[2]
      BY <1>6, <1>8, <2>2
    <3>2. ASSUME NEW x \in z.put PROVE x.day # z.days[1]
      BY <1>1, <1>2, <1>3, <1>8, <2>2, <3>1 DEF put
    <3> QED
      BY <1>8, <3>1, <3>2 DEF InOrder
  <2>3. CASE t.next = 4 /\ Len(t.days) # 2
    BY <1>8, <2>3 DEF InOrder
  <2> QED
    BY <1>1, <2>1, <2>2, <2>3
<1>10. TakesAll(z)
  BY <1>8 DEF Fits, TakesAll
<1>11. NoRivals(r, z)
  <2>1. Distinct(put)
    BY <1>4 DEF Fits, NoRivals, Inserts, Distinct, SameKey, put
  <2>2. Clear(stats \ t.off, put)
    BY DEF Fits, NoRivals, Clear, put
  <2>3. \A q \in Others(r) : Clear(run[q].put, put)
    BY DEF Fits, NoRivals, Clear, put
  <2> QED
    BY <1>8, <2>1, <2>2, <2>3 DEF NoRivals
<1>12. Inserts(r, z)
  <2>1. Balanced(put)
    BY <1>4, BalancedUnion DEF Fits, Inserts, SameSelect, put
  <2>2. \A x \in put : x.by = r
    BY DEF Fits, Inserts, put
  <2> QED
    BY <1>8, <2>1, <2>2, NoRows DEF Inserts
<1> QED
  BY <1>8, <1>9, <1>10, <1>11, <1>12 DEF Fits, z

LEMMA NewFits ==
    ASSUME NEW r \in Rebuilds
    PROVE  New \in Run /\ Fits(r, New)
<1>1. /\ New.pc = "new" /\ New.days = <<>> /\ New.next = 1
      /\ New.todo = {} /\ New.batch = {} /\ New.off = {} /\ New.put = {}
  BY DEF New
<1>2. New \in Run
  <2>1. <<>> \in Seq(Days)
    OBVIOUS
  <2> QED
    BY <2>1, RunIs DEF New, PC
<1>3. NoRivals(r, New)
  BY <1>1, NoRows DEF NoRivals, Clear
<1> QED
  BY <1>1, <1>2, <1>3, NoRows DEF Fits, InOrder, TakesAll, Inserts

\* A rebuild that is over holds nothing.
LEMMA OverFits ==
    ASSUME NEW r \in Rebuilds
    PROVE  Over \in Run /\ Fits(r, Over)
<1>1. /\ Over.pc = "over" /\ Over.days = <<>> /\ Over.next = 1
      /\ Over.todo = {} /\ Over.batch = {} /\ Over.off = {} /\ Over.put = {}
  BY DEF Over, New
<1>2. Over \in Run
  BY NewFits, RunIs DEF Over, PC
<1>3. NoRivals(r, Over)
  BY <1>1, NoRows DEF NoRivals, Clear
<1> QED
  BY <1>1, <1>2, <1>3, NoRows DEF Fits, InOrder, TakesAll, Inserts

-----------------------------------------------------------------------------
(* The invariant is inductive                                              *)

LEMMA SumOfNothing ==
    ASSUME NEW f, NEW S, IsFiniteSet(S), \A x \in S : f[x] = 0
    PROVE  SumFunctionOnSet(f, S) = 0
<1> DEFINE C == {T \in SUBSET S : SumFunctionOnSet(f, T) = 0}
<1>1. {} \in C
  BY SumEmpty
<1>2. ASSUME NEW T \in SUBSET S, NEW x \in S \ T, T \in C
      PROVE  T \cup {x} \in C
  <2>1. IsFiniteSet(T)
    BY FS_Subset
  <2>2. SumFunctionOnSet(f, T \cup {x}) = f[x] + SumFunctionOnSet(f, T)
    BY <2>1, SumAdds
  <2> QED
    BY <1>2, <2>2
<1>3. S \in C
  <2> HIDE DEF C
  <2> QED
    BY <1>1, <1>2, SubsetsUp
<1> QED
  BY <1>3

LEMMA Initially == Init => IInv
<1> SUFFICES ASSUME Init PROVE IInv
  OBVIOUS
<1> USE DEF Init
<1>1. \A r \in Rebuilds : run[r] = New
  OBVIOUS
<1>2. TypeOK
  <2>1. 1 \in Days /\ 0 \in 0..MaxEvents
    BY Bound DEF Days
  <2>2. run \in [Rebuilds -> Run]
    <3> HIDE DEF Init
    <3> QED
      BY NewFits DEF Init
  <2> QED
    BY <2>1, <2>2 DEF TypeOK
<1>3. Counted
  <2>1. ASSUME NEW d \in Days, NEW kind \in Kinds
        PROVE  SumFunctionOnSet(Of(d, kind), Users) = 0
    <3>1. \A u \in Users : Of(d, kind)[u] = 0
      BY DEF Of, Sources
    <3> QED
      BY <3>1, Bound, SumOfNothing
  <2> QED
    BY <2>1 DEF Counted
<1>4. Table
  BY NoRows DEF Table
<1>5. \A r \in Rebuilds : Fits(r, run[r])
  BY <1>1, NewFits
<1> QED
  BY <1>2, <1>3, <1>4, <1>5 DEF IInv

\* What users do, and undo, leaves the rows alone.
LEMMA RowsStay ==
    ASSUME IInv, today' \in Days, source' \in [Days -> [Sources -> 0..MaxEvents]],
           events' \in 0..MaxEvents, Counted', stats' = stats, run' = run
    PROVE  IInv'
<1>1. TypeOK'
  BY DEF IInv, TypeOK
<1>2. Table'
  BY DEF IInv, Table, Distinct, Balanced, Parts, Committed
<1>3. ASSUME NEW r \in Rebuilds PROVE Fits(r, run[r])'
  <2>1. Fits(r, run[r])
    BY DEF IInv
  <2> QED
    BY <2>1 DEF Fits, InOrder, TakesAll, Committed, Together, NoRivals, Inserts, Distinct, Balanced,
                Parts, Clear
<1> QED
  BY <1>1, <1>2, <1>3 DEF IInv

LEMMA MidnightStep == IInv /\ Midnight => IInv'
<1> SUFFICES ASSUME IInv, Midnight PROVE IInv'
  OBVIOUS
<1>1. today' \in Days
  BY Bound DEF IInv, TypeOK, Midnight, Days
<1>2. Counted'
  BY DEF IInv, Midnight, Counted, Of
<1> QED
  BY <1>1, <1>2, RowsStay DEF IInv, TypeOK, Midnight

LEMMA HappensStep ==
    ASSUME IInv, NEW d \in Days, NEW s \in Sources, Happens(d, s)
    PROVE  IInv'
<1>1. /\ events \in Nat /\ events' = events + 1 /\ events' \in 0..MaxEvents
      /\ source' = [source EXCEPT ![d][s] = @ + 1]
      /\ today' = today /\ stats' = stats /\ run' = run
  <2>1. events \in 0..MaxEvents /\ events < MaxEvents /\ MaxEvents \in Nat
    BY Bound DEF IInv, TypeOK, Happens
  <2>2. events' = events + 1 /\ source' = [source EXCEPT ![d][s] = @ + 1]
        /\ today' = today /\ stats' = stats /\ run' = run
    BY DEF Happens
  <2> QED
    BY <2>1, <2>2
<1>2. /\ source \in [Days -> [Sources -> 0..MaxEvents]]
      /\ \A e \in Days, z \in Sources : source[e][z] \in Nat /\ source[e][z] <= events
  BY Bound DEF IInv, TypeOK, Counted
<1>3. \A e \in Days, z \in Sources :
         source'[e][z] = IF e = d /\ z = s THEN source[e][z] + 1 ELSE source[e][z]
  BY <1>1, <1>2
<1>4. source' \in [Days -> [Sources -> 0..MaxEvents]]
  <2>1. source[d][s] + 1 \in 0..MaxEvents
    BY <1>1, <1>2, Bound
  <2> QED
    BY <1>1, <1>2, <2>1
<1>5. \A e \in Days, z \in Sources : source'[e][z] <= events'
  BY <1>1, <1>2, <1>3
<1>6. ASSUME NEW e \in Days, NEW kind \in Kinds
      PROVE  SumFunctionOnSet(Of(e, kind)', Users) <= events'
  <2> DEFINE f == Of(e, kind)
             h == Of(e, kind)'
             z(u) == [kind |-> kind, user |-> u]
  <2>1. \A u \in Users : z(u) \in Sources
    BY DEF Sources
  <2>2. \A u \in Users : f[u] = source[e][z(u)] /\ f[u] \in Nat /\ h[u] = source'[e][z(u)]
    BY <1>2, <2>1 DEF Of
  <2>3. SumFunctionOnSet(f, Users) <= events /\ SumFunctionOnSet(f, Users) \in Nat
    <3>1. SumFunctionOnSet(f, Users) <= events
      BY DEF IInv, Counted
    <3> HIDE DEF f
    <3> QED
      BY <2>2, <3>1, Bound, SumType
  <2>4. \A u \in Users : h[u] = IF e = d /\ z(u) = s THEN f[u] + 1 ELSE f[u]
    <3> HIDE DEF f, h, z
    <3> QED
      BY <1>3, <2>1, <2>2
  <2>5. \A u \in Users : z(u).kind = kind /\ z(u).user = u
    OBVIOUS
  <2>6. CASE e = d /\ s.kind = kind /\ s.user \in Users
    <3>1. PICK w \in Users : z(w) = s
      BY <2>6 DEF Sources
    <3>2. \A u \in Users : z(u) = s <=> u = w
      BY <2>5, <3>1
    <3> HIDE DEF f, h, z
    <3>3. h[w] = f[w] + 1 /\ \A u \in Users \ {w} : h[u] = f[u]
      BY <2>4, <2>6, <3>2
    <3>4. SumFunctionOnSet(h, Users) = SumFunctionOnSet(f, Users) + 1
      BY <2>2, <3>3, Bound, SumOneMore
    <3> QED
      BY <1>1, <2>3, <3>4 DEF h
  <2>7. CASE ~ (e = d /\ s.kind = kind /\ s.user \in Users)
    <3>1. \A u \in Users : ~ (e = d /\ z(u) = s)
      BY <2>5, <2>7
    <3> HIDE DEF f, h, z
    <3>2. \A u \in Users : h[u] = f[u]
      BY <2>4, <3>1
    <3>3. SumFunctionOnSet(h, Users) = SumFunctionOnSet(f, Users)
      BY <3>2, Bound, SumSame
    <3> QED
      BY <1>1, <2>3, <3>3 DEF h
  <2> QED
    BY <2>6, <2>7
<1>7. Counted'
  BY <1>5, <1>6 DEF Counted
<1> QED
  BY <1>1, <1>4, <1>7, RowsStay DEF IInv, TypeOK

LEMMA ErasedStep ==
    ASSUME IInv, NEW w \in Users, Erased(w)
    PROVE  IInv'
<1>1. /\ events' = events /\ today' = today /\ stats' = stats /\ run' = run
      /\ events \in Nat
  BY Bound DEF IInv, TypeOK, Erased
<1>2. /\ source \in [Days -> [Sources -> 0..MaxEvents]]
      /\ \A e \in Days, z \in Sources : source[e][z] \in Nat /\ source[e][z] <= events
  BY Bound DEF IInv, TypeOK, Counted
<1>3. \A e \in Days, z \in Sources : source'[e][z] = 0 \/ source'[e][z] = source[e][z]
  BY DEF Erased
<1>4. source' \in [Days -> [Sources -> 0..MaxEvents]]
  BY <1>2, Bound DEF Erased
<1>5. \A e \in Days, z \in Sources : source'[e][z] \in Nat /\ source'[e][z] <= source[e][z]
  BY <1>2, <1>3
<1>6. ASSUME NEW e \in Days, NEW kind \in Kinds
      PROVE  SumFunctionOnSet(Of(e, kind)', Users) <= events
  <2> DEFINE f == Of(e, kind)
             h == Of(e, kind)'
             z(u) == [kind |-> kind, user |-> u]
  <2>1. \A u \in Users : z(u) \in Sources
    BY DEF Sources
  <2>2. \A u \in Users : f[u] = source[e][z(u)] /\ h[u] = source'[e][z(u)]
    BY DEF Of
  <2>3. \A u \in Users : f[u] \in Nat /\ h[u] \in Nat /\ h[u] <= f[u]
    BY <1>2, <1>5, <2>1, <2>2
  <2>4. SumFunctionOnSet(f, Users) <= events
    BY DEF IInv, Counted
  <2> HIDE DEF f, h
  <2>5. SumFunctionOnSet(h, Users) <= SumFunctionOnSet(f, Users)
    BY <2>3, Bound, SumOfLess
  <2>6. SumFunctionOnSet(f, Users) \in Nat /\ SumFunctionOnSet(h, Users) \in Nat
    BY <2>3, Bound, SumType
  <2>7. SumFunctionOnSet(h, Users) <= events
    BY <1>1, <2>4, <2>5, <2>6
  <2> QED
    BY <2>7 DEF h
<1>7. Counted'
  <2>1. \A e \in Days, z \in Sources : source'[e][z] <= events
    BY <1>1, <1>2, <1>3
  <2> QED
    BY <1>1, <1>6, <2>1 DEF Counted
<1> QED
  BY <1>1, <1>4, <1>7, RowsStay DEF IInv, TypeOK

LEMMA BeginStep ==
    ASSUME IInv, NEW r \in Rebuilds, NEW days \in Seq(Days), Len(days) \in 1..2,
           \A i, j \in DOMAIN days : days[i] = days[j] => i = j, Begin(r, days)
    PROVE  IInv'
<1> DEFINE t == [New EXCEPT !.pc = "delete", !.days = days]
<1>1. t \in Run
  BY NewFits, RunIs DEF PC
<1>2. /\ t.pc = "delete" /\ t.days = days
      /\ t.todo = {} /\ t.batch = {} /\ t.off = {} /\ t.put = {}
  BY DEF New
<1>3. run[r].pc # "over" /\ Becomes(r, t)
  BY DEF Begin
<1> HIDE DEF t
<1>4. InOrder(t)
  BY <1>2 DEF InOrder
<1>5. NoRivals(r, t)
  BY <1>2, NoRows DEF NoRivals, Clear
<1>6. Fits(r, t)
  BY <1>2, <1>4, <1>5, NoRows DEF Fits, TakesAll, Inserts
<1> QED
  BY <1>1, <1>3, <1>6, RecordFits

LEMMA BeginCronStep == ASSUME IInv, NEW r \in Rebuilds, BeginCron(r) PROVE IInv'
<1>1. today \in Days /\ today \in Nat /\ (today > 1 => today - 1 \in Days)
  BY Bound DEF IInv, TypeOK, Days
<1>2. CASE today > 1
  <2> DEFINE days == <<today - 1, today>>
  <2>1. days \in Seq(Days) /\ Len(days) = 2 /\ days[1] # days[2]
    BY <1>1, <1>2
  <2>2. Begin(r, days)
    BY <1>2 DEF BeginCron
  <2> HIDE DEF days
  <2>3. DOMAIN days = 1..2
    BY <2>1
  <2>4. \A i, j \in DOMAIN days : days[i] = days[j] => i = j
    BY <2>1, <2>3
  <2> QED
    BY <2>1, <2>2, <2>4, BeginStep
<1>3. CASE ~ (today > 1)
  <2> DEFINE days == <<today>>
  <2>1. days \in Seq(Days) /\ Len(days) = 1
    BY <1>1
  <2>2. Begin(r, days)
    BY <1>3 DEF BeginCron
  <2> HIDE DEF days
  <2>3. DOMAIN days = 1..1
    BY <2>1
  <2> QED
    BY <2>1, <2>2, <2>3, BeginStep
<1> QED
  BY <1>2, <1>3

LEMMA BeginOfStep == ASSUME IInv, NEW r \in Rebuilds, NEW d \in Days, BeginOf(r, d) PROVE IInv'
<1> DEFINE days == <<d>>
<1>1. days \in Seq(Days) /\ Len(days) = 1
  OBVIOUS
<1>2. Begin(r, days)
  BY DEF BeginOf
<1> HIDE DEF days
<1>3. DOMAIN days = 1..1
  BY <1>1
<1> QED
  BY <1>1, <1>2, <1>3, BeginStep

LEMMA FindRowsStep == ASSUME IInv, NEW r \in Rebuilds, FindRows(r) PROVE IInv'
<1> DEFINE found == {x \in stats : x.day = Head(run[r].days)}
           t == [run[r] EXCEPT !.pc = "deleting", !.todo = found]
<1>1. run[r] \in Run /\ run[r].pc = "delete" /\ stats \in SUBSET Row /\ Fits(r, run[r])
  BY DEF IInv, TypeOK, FindRows
<1>2. Becomes(r, t)
  BY DEF FindRows
<1>3. Committed(found) /\ Together(found)
  BY DEF IInv, Table, Committed, Together
<1>4. found \in SUBSET Row
  BY <1>1
<1> HIDE DEF found
<1>5. /\ t \in Run /\ t.pc = "deleting" /\ t.days = run[r].days /\ t.next = run[r].next
      /\ t.todo = found /\ t.batch = run[r].batch /\ t.off = run[r].off /\ t.put = run[r].put
  BY <1>1, <1>4, RunIs DEF PC
<1> HIDE DEF t
<1>6. Fits(r, t)
  BY <1>1, <1>3, <1>5 DEF Fits, InOrder, TakesAll, NoRivals, Inserts
<1> QED
  BY <1>1, <1>2, <1>5, <1>6, RecordFits

LEMMA DeleteRowsStep == ASSUME IInv, NEW r \in Rebuilds, DeleteRows(r) PROVE IInv'
<1> DEFINE off == run[r].off \cup (run[r].todo \cap stats)
           t == [run[r] EXCEPT !.pc = "select", !.next = 1, !.todo = {}, !.off = off]
<1>1. run[r] \in Run /\ run[r].pc = "deleting" /\ stats \in SUBSET Row /\ Fits(r, run[r])
  BY DEF IInv, TypeOK, DeleteRows
<1>2. Becomes(r, t)
  BY DEF DeleteRows
<1>3. Committed(off) /\ Together(off)
  BY <1>1 DEF Fits, TakesAll, Committed, Together
<1>4. off \in SUBSET Row /\ run[r].off \subseteq off
  BY <1>1, RunIs
<1> HIDE DEF off
<1>5. /\ t \in Run /\ t.pc = "select" /\ t.days = run[r].days /\ t.next = 1
      /\ t.todo = {} /\ t.batch = run[r].batch /\ t.off = off /\ t.put = run[r].put
  <2>1. 1 \in 1..4 /\ {} \in SUBSET Row /\ "select" \in PC
    BY DEF PC
  <2> QED
    BY <1>1, <1>4, <2>1, RunIs
<1> HIDE DEF t
<1>6. InOrder(t)
  BY <1>1, <1>5 DEF Fits, InOrder
<1>7. NoRivals(r, t)
  BY <1>1, <1>4, <1>5 DEF Fits, NoRivals, Clear
<1>8. Fits(r, t)
  BY <1>1, <1>3, <1>5, <1>6, <1>7, NoRows DEF Fits, TakesAll, Inserts
<1> QED
  BY <1>1, <1>2, <1>5, <1>8, RecordFits

LEMMA SelectRowsStep == ASSUME IInv, NEW r \in Rebuilds, SelectRows(r) PROVE IInv'
<1> DEFINE d == Head(run[r].days)
           metrics == Selects[run[r].next]
           rows == IF metrics = {"login failed"} THEN LoginRows(r, d) ELSE UserRows(r, d, metrics)
           t == [run[r] EXCEPT !.pc = "insert", !.batch = rows]
<1>1. run[r] \in Run /\ run[r].pc = "select" /\ Fits(r, run[r]) /\ TypeOK /\ Counted
  BY DEF IInv, TypeOK, SelectRows
<1>2. Becomes(r, IF rows = {} THEN AfterInsert(run[r]) ELSE t)
  BY DEF SelectRows
<1>3. d \in Days
  <2>1. run[r].days \in Seq(Days)
    BY <1>1, RunIs
  <2>2. Len(run[r].days) \in 1..2
    BY <1>1 DEF Fits, InOrder
  <2> QED
    BY <2>1, <2>2
<1>4. metrics # {"login failed"} => metrics \in SUBSET Kinds
  <2>1. run[r].next \in 1..Len(Selects)
    BY <1>1, RunIs, SelectsAre
  <2> QED
    BY <2>1, MetricsAre
<1>5. /\ rows \in SUBSET Row
      /\ \A x \in rows : x.by = r /\ x.day = d /\ x.metric \in metrics
      /\ Distinct(rows) /\ Balanced(rows)
  <2> HIDE DEF d, metrics
  <2>1. CASE metrics = {"login failed"}
    <3>1. rows = LoginRows(r, d)
      BY <2>1
    <3>2. "login failed" \in metrics
      BY <2>1
    <3> HIDE DEF rows
    <3>3. /\ LoginRows(r, d) \in SUBSET Row
          /\ \A x \in LoginRows(r, d) : x.by = r /\ x.day = d /\ x.metric = "login failed"
          /\ Distinct(LoginRows(r, d)) /\ Balanced(LoginRows(r, d))
      BY <1>1, <1>3, LoginRowsAre
    <3> QED
      BY <3>1, <3>2, <3>3
  <2>2. CASE metrics # {"login failed"}
    BY <1>1, <1>3, <1>4, <2>2, UserRowsAre
  <2> QED
    BY <2>1, <2>2
<1> HIDE DEF rows
<1>6. run[r].batch = {}
  BY <1>1 DEF Fits, InOrder
<1>7. CASE rows = {}
  <2>1. /\ Clear(stats \ run[r].off, run[r].batch)
        /\ \A q \in Others(r) : Clear(run[q].put, run[r].batch)
    BY <1>6 DEF Clear
  <2>2. AfterInsert(run[r]) \in Run /\ Fits(r, AfterInsert(run[r]))
    BY <1>1, <2>1, InsertedFits
  <2> QED
    BY <1>1, <1>2, <1>7, <2>2, RecordFits
<1>8. CASE rows # {}
  <2>1. /\ t \in Run /\ t.pc = "insert" /\ t.days = run[r].days /\ t.next = run[r].next
        /\ t.todo = run[r].todo /\ t.batch = rows /\ t.off = run[r].off /\ t.put = run[r].put
    BY <1>1, <1>5, RunIs DEF PC
  <2> HIDE DEF t
  <2>2. InOrder(t)
    BY <1>1, <1>5, <2>1 DEF Fits, InOrder
  <2>3. Inserts(r, t)
    BY <1>1, <1>5, <2>1 DEF Fits, Inserts
  <2>4. Fits(r, t)
    BY <1>1, <2>1, <2>2, <2>3 DEF Fits, TakesAll, NoRivals
  <2> QED
    BY <1>1, <1>2, <1>8, <2>1, <2>4, RecordFits
<1> QED
  BY <1>7, <1>8

LEMMA InsertRowsStep == ASSUME IInv, NEW r \in Rebuilds, InsertRows(r) PROVE IInv'
<1> DEFINE rivals == Colliding(r, stats \ run[r].off)
<1>1. run[r] \in Run /\ run[r].pc = "insert" /\ Fits(r, run[r])
  BY DEF IInv, TypeOK, InsertRows
<1>2. CASE rivals = {}
  <2>1. Becomes(r, AfterInsert(run[r]))
    BY <1>2 DEF InsertRows
  <2>2. Clear(stats \ run[r].off, run[r].batch)
    BY <1>2 DEF Colliding, Clear
  <2>3. \A q \in Others(r) : Clear(run[q].put, run[r].batch)
    BY DEF InsertRows, Colliding, Clear
  <2>4. AfterInsert(run[r]) \in Run /\ Fits(r, AfterInsert(run[r]))
    BY <1>1, <2>2, <2>3, InsertedFits
  <2> QED
    BY <1>1, <2>1, <2>4, RecordFits
<1>3. CASE rivals # {}
  <2>1. Becomes(r, Over)
    BY <1>3 DEF InsertRows
  <2> QED
    BY <1>1, <2>1, OverFits, RecordFits
<1> QED
  BY <1>2, <1>3

LEMMA FaultStep == ASSUME IInv, NEW r \in Rebuilds, Fault(r) PROVE IInv'
<1>1. run[r].pc # "over" /\ Becomes(r, Over)
  BY DEF Fault, UnderWay
<1> QED
  BY <1>1, OverFits, RecordFits

\* What is committed keeps what others see whole, and has no rivals among what they hold.
LEMMA CommitStep == ASSUME IInv, NEW r \in Rebuilds, Commit(r) PROVE IInv'
<1> DEFINE off == run[r].off
           put == run[r].put
           kept == stats \ off
<1>1. /\ run[r] \in Run /\ run[r].pc = "commit" /\ Fits(r, run[r])
      /\ stats' = kept \cup put /\ run' = [run EXCEPT ![r] = Over]
      /\ today' = today /\ source' = source /\ events' = events
  BY DEF IInv, TypeOK, Commit
<1>2. run \in [Rebuilds -> Run] /\ stats \in SUBSET Row /\ put \in SUBSET Row
  BY <1>1, RunIs DEF IInv, TypeOK
<1>3. run' \in [Rebuilds -> Run] /\ run'[r] = Over /\ \A q \in Others(r) : run'[q] = run[q]
  BY <1>1, <1>2, OverFits DEF Others
<1>4. TypeOK' /\ Counted'
  BY <1>1, <1>2, <1>3 DEF IInv, TypeOK, Counted, Of
<1>5. /\ Distinct(stats) /\ Balanced(stats) /\ Committed(stats)
      /\ Committed(off) /\ Together(off)
      /\ Distinct(put) /\ Clear(kept, put) /\ Balanced(put) /\ \A x \in put : x.by = r
      /\ \A q \in Others(r) : Clear(run[q].put, put)
  BY <1>1 DEF IInv, Table, Fits, TakesAll, NoRivals, Inserts
<1>6. Over.pc = "over" /\ Over.put = {}
  BY DEF Over, New
<1>7. \A x \in stats \cup off : x.by # r
  BY <1>1, <1>5 DEF Committed
<1> HIDE DEF put, off, kept
<1>8. ASSUME NEW x \in stats \cup off PROVE run'[x.by].pc = "over"
  <2>1. run[x.by].pc = "over"
    BY <1>5 DEF Committed
  <2> QED
    BY <1>1, <1>2, <1>6, <2>1
<1>9. Table'
  <2>1. Distinct(kept \cup put)
    BY <1>5 DEF Distinct, Clear, SameKey, kept
  <2>2. Balanced(kept)
    <3>1. ASSUME NEW x \in kept, NEW y \in stats, SameSelect(x, y) PROVE y \in kept
      BY <1>5, <3>1 DEF Together, SameSelect, kept
    <3>2. \A x \in kept : Parts(kept, x) = Parts(stats, x)
      BY <3>1 DEF Parts, kept
    <3> QED
      BY <1>5, <3>1, <3>2 DEF Balanced, kept
  <2>3. \A x \in kept, y \in put : ~ SameSelect(x, y)
    BY <1>5, <1>7 DEF SameSelect, kept
  <2>4. Balanced(kept \cup put)
    BY <1>5, <2>2, <2>3, BalancedUnion
  <2>5. \A x \in kept \cup put : run'[x.by].pc = "over"
    BY <1>3, <1>5, <1>6, <1>8 DEF kept
  <2> QED
    BY <1>1, <2>1, <2>4, <2>5 DEF Table, Distinct, Balanced, Parts, Committed
<1>10. ASSUME NEW q \in Others(r) PROVE Fits(q, run[q])'
  <2>1. q \in Rebuilds /\ q # r /\ run'[q] = run[q] /\ run[q] \in Run
    BY <1>2, <1>3 DEF Others
  <2>2. InOrder(run[q]) /\ TakesAll(run[q]) /\ NoRivals(q, run[q]) /\ Inserts(q, run[q])
    BY <2>1 DEF IInv, Fits
  <2> DEFINE t == run[q]
  <2> HIDE DEF t
  <2>3. ASSUME NEW S \in {t.todo, t.off}
        PROVE  /\ \A x \in S : run'[x.by].pc = "over"
               /\ \A x \in S, y \in kept \cup put : x.by = y.by /\ x.day = y.day => y \in S
    <3>1. Committed(S) /\ Together(S)
      BY <2>2 DEF TakesAll, t
    <3>2. \A x \in S : run'[x.by].pc = "over" /\ x.by # r
      <4> TAKE x \in S
      <4>1. run[x.by].pc = "over"
        BY <3>1 DEF Committed
      <4> QED
        BY <1>1, <1>2, <1>6, <4>1
    <3> QED
      BY <1>5, <3>1, <3>2 DEF Together, kept
  <2>4. /\ \A x \in (kept \cup put) \ t.off, y \in t.put : ~ SameKey(x, y)
        /\ \A p \in Others(q) : \A x \in run'[p].put, y \in t.put : ~ SameKey(x, y)
    <3>1. Clear(kept \ t.off, t.put)
      BY <2>2 DEF NoRivals, Clear, kept, t
    <3>2. Clear(put, t.put)
      BY <1>5 DEF Clear, SameKey, t
    <3>3. \A p \in Others(q) : Clear(run'[p].put, t.put)
      BY <1>3, <1>6, <2>1, <2>2 DEF NoRivals, Clear, Others, t
    <3> QED
      BY <3>1, <3>2, <3>3 DEF Clear
  <2>5. run'[q] = t
    BY <2>1 DEF t
  <2>6. InOrder(run[q])' /\ Inserts(q, run[q])'
    BY <2>1, <2>2 DEF InOrder, Inserts, Distinct, Balanced, Parts
  <2>7. TakesAll(run[q])'
    BY <1>1, <2>3, <2>5 DEF TakesAll, Committed, Together
  <2>8. NoRivals(q, run[q])'
    <3>1. Distinct(run[q].put)'
      BY <2>1, <2>2 DEF NoRivals, Distinct
    <3> QED
      BY <1>1, <2>4, <2>5, <3>1 DEF NoRivals, Clear
  <2> QED
    BY <2>6, <2>7, <2>8 DEF Fits
<1>11. Fits(r, run[r])'
  <2>1. Over \in Run /\ InOrder(Over) /\ Over.todo = {} /\ Over.off = {} /\ Over.batch = {}
    BY OverFits DEF Fits, Over, New
  <2>2. InOrder(run[r])'
    BY <1>3, <2>1 DEF InOrder
  <2>3. TakesAll(run[r])'
    BY <1>3, <2>1 DEF TakesAll, Committed, Together
  <2>4. NoRivals(r, run[r])' /\ Inserts(r, run[r])'
    BY <1>3, <1>6, <2>1 DEF NoRivals, Inserts, Distinct, Balanced, Clear
  <2> QED
    BY <2>2, <2>3, <2>4 DEF Fits
<1>12. \A q \in Rebuilds : Fits(q, run[q])'
  BY <1>10, <1>11 DEF Others
<1> QED
  BY <1>4, <1>9, <1>12 DEF IInv

LEMMA Inductive == IInv /\ [Next]_vars => IInv'
<1> SUFFICES ASSUME IInv, [Next]_vars PROVE IInv'
  OBVIOUS
<1>1. CASE Midnight
  BY <1>1, MidnightStep
<1>2. ASSUME NEW d \in Days, NEW s \in Sources, Happens(d, s) PROVE IInv'
  BY <1>2, HappensStep
<1>3. ASSUME NEW u \in Users, Erased(u) PROVE IInv'
  BY <1>3, ErasedStep
<1>4. ASSUME NEW r \in Rebuilds, BeginCron(r) PROVE IInv'
  BY <1>4, BeginCronStep
<1>5. ASSUME NEW r \in Rebuilds, NEW d \in Days, BeginOf(r, d) PROVE IInv'
  BY <1>5, BeginOfStep
<1>6. ASSUME NEW r \in Rebuilds, FindRows(r) PROVE IInv'
  BY <1>6, FindRowsStep
<1>7. ASSUME NEW r \in Rebuilds, DeleteRows(r) PROVE IInv'
  BY <1>7, DeleteRowsStep
<1>8. ASSUME NEW r \in Rebuilds, SelectRows(r) PROVE IInv'
  BY <1>8, SelectRowsStep
<1>9. ASSUME NEW r \in Rebuilds, InsertRows(r) PROVE IInv'
  BY <1>9, InsertRowsStep
<1>10. ASSUME NEW r \in Rebuilds, Commit(r) PROVE IInv'
  BY <1>10, CommitStep
<1>11. ASSUME NEW r \in Rebuilds, Fault(r) PROVE IInv'
  BY <1>11, FaultStep
<1>12. CASE UNCHANGED vars
  <2>1. Counted'
    BY <1>12 DEF IInv, vars, Counted, Of
  <2> QED
    BY <1>12, <2>1, RowsStay DEF IInv, TypeOK, vars
<1> QED
  BY <1>1, <1>2, <1>3, <1>4, <1>5, <1>6, <1>7, <1>8, <1>9, <1>10, <1>11, <1>12 DEF Next

-----------------------------------------------------------------------------
(* Theorems                                                                *)

LEMMA Always == Spec => []IInv
<1> QED
  BY Initially, Inductive, PTL DEF Spec

\* The variables hold what the code can put into them; no count exceeds what has been done.
THEOREM TypeCorrect == Spec => []TypeOK
<1>1. IInv => TypeOK
  BY DEF IInv
<1> QED
  BY <1>1, Always, PTL

\* However rebuilds of any number of days overlap, fail and meet erasures, a series has one
\* point for a day, and what it shows for all adds up to what it shows for the users: the
\* rows for all of a metric are the sums of disjoint sets of rows for users, and these are
\* all there are.
THEOREM SeriesAddUpAlways == Spec => []RollupsAddUp
<1>1. IInv => RollupsAddUp
  BY AddsUp DEF IInv
<1> QED
  BY <1>1, Always, PTL

====
