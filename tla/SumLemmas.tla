----------------------------- MODULE SumLemmas -----------------------------
(***************************************************************************)
(* What SumFunction of the community modules computes: the total of an     *)
(* order, the cost of a basket and the shares of a wheel are such sums.    *)
(*                                                                         *)
(* SumFunction folds a recursive function over subsets.  That there is     *)
(* such a function, and what it yields, is shown by induction over finite  *)
(* subsets, stated for a set of subsets instead of a predicate.            *)
(***************************************************************************)
EXTENDS Integers, Functions, FiniteSetTheorems, WellFoundedInduction, TLAPS

\* A set of subsets that contains each subset when it contains all smaller
\* ones contains them all.
LEMMA SubsetInduction ==
  ASSUME NEW S, IsFiniteSet(S), NEW G,
         \A T \in SUBSET S : (\A U \in SUBSET T : U # T => U \in G) => T \in G
  PROVE  \A T \in SUBSET S : T \in G
<1> DEFINE Bad == (SUBSET S) \ G
<1> SUFFICES ASSUME Bad # {} PROVE FALSE
  OBVIOUS
<1>1. IsWellFoundedOn(StrictSubsetOrdering(S), SUBSET S)
  <2>1. IsWellFoundedOn(StrictSubsetOrdering(S), FiniteSubsetsOf(S))
    BY FS_StrictSubsetOrderingWellFounded
  <2>2. FiniteSubsetsOf(S) = SUBSET S
    BY FS_FiniteSubsetsOfFinite
  <2> QED
    BY <2>1, <2>2
<1>2. Bad \subseteq SUBSET S
  OBVIOUS
<1> HIDE DEF Bad
<1>3. PICK T \in Bad : \A U \in Bad : ~(<<U, T>> \in StrictSubsetOrdering(S))
  BY <1>1, <1>2, WFMin
<1>4. \A U \in SUBSET T : U # T => U \in G
  BY <1>2, <1>3 DEF StrictSubsetOrdering, Bad
<1> QED
  BY <1>3, <1>4 DEF Bad

-----------------------------------------------------------------------------
(* The recursive function. *)

Pick(s) == CHOOSE x \in s : TRUE

\* h sums f over the subsets of T.
Sums(f, T, h) ==
  h = [s \in SUBSET T |-> IF s = {} THEN 0 ELSE f[Pick(s)] + h[s \ {Pick(s)}]]

LEMMA PickIn == \A s : s # {} => Pick(s) \in s
  BY DEF Pick

\* Two such functions agree where both are defined.
LEMMA SumsUnique ==
  ASSUME NEW f, NEW S, IsFiniteSet(S), NEW T \in SUBSET S, NEW U \in SUBSET S,
         NEW g, NEW h, Sums(f, T, g), Sums(f, U, h),
         NEW V \in SUBSET T, V \in SUBSET U
  PROVE  g[V] = h[V]
<1> DEFINE G == {W \in SUBSET S : W \subseteq T /\ W \subseteq U => g[W] = h[W]}
<1>1. ASSUME NEW W \in SUBSET S, \A X \in SUBSET W : X # W => X \in G
      PROVE  W \in G
  <2> SUFFICES ASSUME W \subseteq T, W \subseteq U PROVE g[W] = h[W]
    OBVIOUS
  <2>1. CASE W = {}
    BY <2>1 DEF Sums
  <2>2. CASE W # {}
    <3> DEFINE X == W \ {Pick(W)}
    <3>1. X \in SUBSET W /\ X # W
      BY <2>2, PickIn
    <3>2. g[X] = h[X]
      BY <1>1, <3>1
    <3>3. g[W] = f[Pick(W)] + g[X] /\ h[W] = f[Pick(W)] + h[X]
      BY <2>2 DEF Sums
    <3> QED
      BY <3>2, <3>3
  <2> QED
    BY <2>1, <2>2
<1> HIDE DEF G
<1>2. \A W \in SUBSET S : W \in G
  BY <1>1, SubsetInduction
<1> QED
  BY <1>2 DEF G

\* There is one.
LEMMA SumsExist ==
  ASSUME NEW f, NEW S, IsFiniteSet(S)
  PROVE  \E h : Sums(f, S, h)
<1> DEFINE G == {T \in SUBSET S : \E h : Sums(f, T, h)}
<1>1. ASSUME NEW T \in SUBSET S, \A U \in SUBSET T : U # T => U \in G
      PROVE  T \in G
  <2> DEFINE H(U) == CHOOSE h : Sums(f, U, h)
             Value(U) == IF U = {} THEN 0
                         ELSE f[Pick(U)] + H(U \ {Pick(U)})[U \ {Pick(U)}]
             h == [U \in SUBSET T |-> Value(U)]
  <2>1. \A U \in SUBSET T : U # T => Sums(f, U, H(U))
    BY <1>1
  <2> HIDE DEF H
  <2>2. ASSUME NEW U \in SUBSET T, U # T
        PROVE  h[U] = H(U)[U]
    <3>1. Sums(f, U, H(U))
      BY <2>1, <2>2
    <3>2. CASE U = {}
      BY <3>1, <3>2 DEF Sums
    <3>3. CASE U # {}
      <4> DEFINE V == U \ {Pick(U)}
      <4>1. /\ V \in SUBSET U /\ V \in SUBSET T /\ V # T
            /\ U \in SUBSET S /\ V \in SUBSET S
        BY <3>3, PickIn
      <4>2. Sums(f, V, H(V))
        BY <2>1, <4>1
      <4>3. H(U)[V] = H(V)[V]
        <5> HIDE DEF V
        <5>1. PICK g : g = H(U) /\ Sums(f, U, g)
          BY <3>1
        <5>2. PICK k : k = H(V) /\ Sums(f, V, k)
          BY <4>2
        <5>3. g[V] = k[V]
          BY <4>1, <5>1, <5>2, SumsUnique
        <5> QED
          BY <5>1, <5>2, <5>3
      <4>4. H(U)[U] = f[Pick(U)] + H(U)[V]
        BY <3>1, <3>3 DEF Sums
      <4> QED
        BY <3>3, <4>3, <4>4
    <3> QED
      BY <3>2, <3>3
  <2>3. ASSUME NEW U \in SUBSET T, U # {}
        PROVE  h[U] = f[Pick(U)] + h[U \ {Pick(U)}]
    <3>1. U \ {Pick(U)} \in SUBSET T /\ U \ {Pick(U)} # T
      BY <2>3, PickIn
    <3> QED
      BY <2>2, <2>3, <3>1
  <2>4. Sums(f, T, h)
    BY <2>3 DEF Sums
  <2> QED
    BY <2>4
<1> HIDE DEF G
<1>2. \A T \in SUBSET S : T \in G
  BY <1>1, SubsetInduction
<1> QED
  BY <1>2 DEF G

\* Over a finite set SumFunctionOnSet is the value of such a function.
LEMMA SumIsSums ==
  ASSUME NEW f, NEW S, IsFiniteSet(S)
  PROVE  \E h : Sums(f, S, h) /\ SumFunctionOnSet(f, S) = h[S]
<1> DEFINE h == CHOOSE g : Sums(f, S, g)
<1>1. Sums(f, S, h)
  BY SumsExist
<1>2. SumFunctionOnSet(f, S) = h[S]
  BY DEF SumFunctionOnSet, FoldFunctionOnSet, MapThenFoldSet, Sums, Pick
<1> QED
  BY <1>1, <1>2

\* The sum over the empty set, and with one element more.
LEMMA SumOfNone == ASSUME NEW f PROVE SumFunctionOnSet(f, {}) = 0
<1>1. PICK h : Sums(f, {}, h) /\ SumFunctionOnSet(f, {}) = h[{}]
  BY SumIsSums, FS_EmptySet
<1> QED
  BY <1>1 DEF Sums

\* Sums of integers are integers, and any element may be added last.
LEMMA SumOfOneMore ==
  ASSUME NEW S, IsFiniteSet(S), NEW f, \A x \in S : f[x] \in Int
  PROVE  \A T \in SUBSET S :
           /\ SumFunctionOnSet(f, T) \in Int
           /\ \A x \in T : SumFunctionOnSet(f, T) =
                             f[x] + SumFunctionOnSet(f, T \ {x})
<1>1. PICK h : Sums(f, S, h)
  BY SumsExist
<1>2. ASSUME NEW T \in SUBSET S
      PROVE  SumFunctionOnSet(f, T) = h[T]
  <2>1. IsFiniteSet(T)
    BY FS_Subset
  <2>2. PICK g : Sums(f, T, g) /\ SumFunctionOnSet(f, T) = g[T]
    BY <2>1, SumIsSums
  <2>3. g[T] = h[T]
    BY <1>1, <2>2, SumsUnique
  <2> QED
    BY <2>2, <2>3
<1>3. /\ h[{}] = 0
      /\ \A T \in SUBSET S : T # {} => h[T] = f[Pick(T)] + h[T \ {Pick(T)}]
  BY <1>1 DEF Sums
<1> DEFINE G == {T \in SUBSET S : h[T] \in Int
                                  /\ \A x \in T : h[T] = f[x] + h[T \ {x}]}
<1>4. ASSUME NEW T \in SUBSET S, \A U \in SUBSET T : U # T => U \in G
      PROVE  T \in G
  <2>1. CASE T = {}
    BY <2>1, <1>3
  <2>2. CASE T # {}
    <3> DEFINE p == Pick(T)
    <3>1. p \in T /\ h[T] = f[p] + h[T \ {p}]
      BY <1>3, <2>2, PickIn
    <3> HIDE DEF p
    <3>2. T \ {p} \in G /\ f[p] \in Int
      BY <1>4, <3>1
    <3>3. ASSUME NEW x \in T, x # p
          PROVE  h[T] = f[x] + h[T \ {x}]
      <4> DEFINE U == T \ {p, x}
      <4>1. T \ {x} \in G /\ U \in G /\ f[x] \in Int
        BY <1>4, <3>1
      <4>2. (T \ {p}) \ {x} = U /\ (T \ {x}) \ {p} = U
        OBVIOUS
      <4>3. h[T \ {p}] = f[x] + h[U]
        BY <3>2, <3>3, <4>2
      <4>4. h[T \ {x}] = f[p] + h[U]
        BY <3>1, <3>3, <4>1, <4>2
      <4>5. h[U] \in Int
        BY <4>1
      <4> QED
        BY <3>1, <3>2, <4>1, <4>3, <4>4, <4>5
    <3>4. \A x \in T : h[T] = f[x] + h[T \ {x}]
      BY <3>1, <3>3
    <3>5. h[T] \in Int
      BY <3>1, <3>2
    <3> QED
      BY <3>4, <3>5
  <2> QED
    BY <2>1, <2>2
<1> HIDE DEF G
<1>5. \A T \in SUBSET S : T \in G
  BY <1>4, SubsetInduction
<1>6. ASSUME NEW T \in SUBSET S, NEW x \in T
      PROVE  h[T] \in Int /\ h[T] = f[x] + h[T \ {x}]
  BY <1>5 DEF G
<1>7. \A T \in SUBSET S : h[T] \in Int
  BY <1>5 DEF G
<1> QED
  BY <1>2, <1>6, <1>7

\* An element and the rest.
LEMMA SumSplit ==
  ASSUME NEW S, IsFiniteSet(S), NEW f, \A x \in S : f[x] \in Int, NEW v \in S
  PROVE  SumFunctionOnSet(f, S) = f[v] + SumFunctionOnSet(f, S \ {v})
  BY SumOfOneMore

\* Sums of naturals are naturals.
LEMMA SumOfNaturals ==
  ASSUME NEW S, IsFiniteSet(S), NEW f, \A x \in S : f[x] \in Nat
  PROVE  SumFunctionOnSet(f, S) \in Nat
<1> DEFINE G == {T \in SUBSET S : SumFunctionOnSet(f, T) \in Nat}
<1>1. ASSUME NEW T \in SUBSET S, \A U \in SUBSET T : U # T => U \in G
      PROVE  T \in G
  <2>1. CASE T = {}
    BY <2>1, SumOfNone
  <2>2. CASE T # {}
    <3>1. PICK x \in T : TRUE
      BY <2>2
    <3>2. SumFunctionOnSet(f, T) = f[x] + SumFunctionOnSet(f, T \ {x})
      BY SumOfOneMore
    <3>3. SumFunctionOnSet(f, T \ {x}) \in Nat
      BY <1>1
    <3> QED
      BY <3>2, <3>3
  <2> QED
    BY <2>1, <2>2
<1> HIDE DEF G
<1>2. S \in G
  BY <1>1, SubsetInduction
<1> QED
  BY <1>2 DEF G

\* Elements that contribute nothing may be left out.
LEMMA SumOfSupport ==
  ASSUME NEW S, IsFiniteSet(S), NEW f, \A x \in S : f[x] \in Int,
         NEW T \in SUBSET S, \A x \in S \ T : f[x] = 0
  PROVE  SumFunctionOnSet(f, S) = SumFunctionOnSet(f, T)
<1> DEFINE G == {U \in SUBSET S : SumFunctionOnSet(f, U)
                                    = SumFunctionOnSet(f, U \cap T)}
<1>1. ASSUME NEW U \in SUBSET S, \A V \in SUBSET U : V # U => V \in G
      PROVE  U \in G
  <2>1. CASE U = {}
    BY <2>1
  <2>2. CASE U # {}
    <3>1. PICK x \in U : TRUE
      BY <2>2
    <3> DEFINE V == U \ {x}
    <3>2. /\ SumFunctionOnSet(f, U) = f[x] + SumFunctionOnSet(f, V)
          /\ SumFunctionOnSet(f, V) \in Int
          /\ SumFunctionOnSet(f, V) = SumFunctionOnSet(f, V \cap T)
      BY <1>1, SumOfOneMore
    <3>3. CASE x \in T
      <4>1. (U \cap T) \ {x} = V \cap T /\ U \cap T \in SUBSET S
        OBVIOUS
      <4>2. SumFunctionOnSet(f, U \cap T)
              = f[x] + SumFunctionOnSet(f, (U \cap T) \ {x})
        BY <3>3, <4>1, SumOfOneMore
      <4> QED
        BY <3>2, <4>1, <4>2
    <3>4. CASE x \notin T
      <4>1. U \cap T = V \cap T /\ f[x] = 0
        BY <3>4
      <4>2. SumFunctionOnSet(f, U) = SumFunctionOnSet(f, V)
        BY <3>2, <4>1
      <4> HIDE DEF V
      <4> QED
        BY <3>2, <4>1, <4>2
    <3> QED
      BY <3>3, <3>4
  <2> QED
    BY <2>1, <2>2
<1> HIDE DEF G
<1>2. S \in G
  BY <1>1, SubsetInduction
<1>3. S \cap T = T
  OBVIOUS
<1> QED
  BY <1>2, <1>3 DEF G

\* A sum may be indexed differently.
LEMMA SumReindexed ==
  ASSUME NEW S, IsFiniteSet(S), NEW f, NEW g, NEW T, NEW m \in [S -> T],
         \A x \in S : f[x] \in Int /\ f[x] = g[m[x]],
         \A x, y \in S : m[x] = m[y] => x = y,
         \A t \in T : \E x \in S : m[x] = t
  PROVE  SumFunctionOnSet(f, S) = SumFunctionOnSet(g, T)
<1> DEFINE Image(U) == {t \in T : \E x \in U : m[x] = t}
           G == {U \in SUBSET S : SumFunctionOnSet(f, U)
                                    = SumFunctionOnSet(g, Image(U))}
<1>1. IsFiniteSet(T)
  <2>1. m \in Surjection(S, T)
    BY DEF Surjection
  <2> QED
    BY <2>1, FS_Surjection
<1>2. \A t \in T : g[t] \in Int
  OBVIOUS
<1>3. ASSUME NEW U \in SUBSET S, \A V \in SUBSET U : V # U => V \in G
      PROVE  U \in G
  <2>1. CASE U = {}
    <3>1. Image(U) = {}
      BY <2>1
    <3> QED
      BY <2>1, <3>1, SumOfNone
  <2>2. CASE U # {}
    <3>1. PICK x \in U : TRUE
      BY <2>2
    <3> DEFINE V == U \ {x}
    <3>2. SumFunctionOnSet(f, U) = f[x] + SumFunctionOnSet(f, V)
      BY SumOfOneMore
    <3>3. SumFunctionOnSet(f, V) = SumFunctionOnSet(g, Image(V))
      BY <1>3
    <3>4. Image(U) \in SUBSET T /\ m[x] \in Image(U)
          /\ Image(U) \ {m[x]} = Image(V)
      OBVIOUS
    <3> HIDE DEF V, Image
    <3>5. SumFunctionOnSet(g, Image(U))
            = g[m[x]] + SumFunctionOnSet(g, Image(U) \ {m[x]})
      BY <1>1, <1>2, <3>4, SumOfOneMore
    <3>6. f[x] = g[m[x]]
      OBVIOUS
    <3> QED
      BY <3>2, <3>3, <3>4, <3>5, <3>6
  <2> QED
    BY <2>1, <2>2
<1> HIDE DEF G
<1>4. S \in G
  BY <1>3, SubsetInduction
<1>5. Image(S) = T
  OBVIOUS
<1> QED
  BY <1>4, <1>5 DEF G

\* Only the values that are summed matter.
LEMMA SumOfSame ==
  ASSUME NEW S, IsFiniteSet(S), NEW f, NEW g,
         \A x \in S : f[x] \in Int /\ f[x] = g[x]
  PROVE  SumFunctionOnSet(f, S) = SumFunctionOnSet(g, S)
<1> DEFINE m == [x \in S |-> x]
<1>1. /\ m \in [S -> S] /\ \A x \in S : f[x] = g[m[x]]
      /\ \A x, y \in S : m[x] = m[y] => x = y
      /\ \A t \in S : \E x \in S : m[x] = t
  OBVIOUS
<1> HIDE DEF m
<1> QED
  BY <1>1, SumReindexed

\* A sum of values that are each at most so much more than others.
LEMMA SumWithin ==
  ASSUME NEW S, IsFiniteSet(S), NEW f, NEW g, NEW c \in Nat,
         \A x \in S : f[x] \in Int /\ g[x] \in Int /\ f[x] <= g[x] + c
  PROVE  SumFunctionOnSet(f, S) <= SumFunctionOnSet(g, S) + Cardinality(S) * c
<1> DEFINE F(T) == SumFunctionOnSet(f, T)
           H(T) == SumFunctionOnSet(g, T)
           G == {T \in SUBSET S : F(T) <= H(T) + Cardinality(T) * c}
<1>1. ASSUME NEW T \in SUBSET S, \A U \in SUBSET T : U # T => U \in G
      PROVE  T \in G
  <2>1. CASE T = {}
    <3>1. F({}) = 0 /\ H({}) = 0 /\ Cardinality({}) = 0
      BY SumOfNone, FS_EmptySet
    <3> HIDE DEF F, H
    <3> QED
      BY <2>1, <3>1
  <2>2. CASE T # {}
    <3>1. PICK x \in T : TRUE
      BY <2>2
    <3> DEFINE V == T \ {x}
    <3>2. /\ F(T) = f[x] + F(V) /\ F(V) \in Int
          /\ H(T) = g[x] + H(V) /\ H(V) \in Int
      BY SumOfOneMore
    <3>3. V \in G
      BY <1>1
    <3>4. IsFiniteSet(T) /\ IsFiniteSet(V)
      BY FS_Subset
    <3>5. Cardinality(T) \in Nat /\ Cardinality(V) = Cardinality(T) - 1
          /\ Cardinality(V) \in Nat
      BY <3>1, <3>4, FS_RemoveElement, FS_CardinalityType
    <3>6. F(V) <= H(V) + Cardinality(V) * c
      BY <3>3
    <3>7. f[x] \in Int /\ g[x] \in Int /\ f[x] <= g[x] + c
      OBVIOUS
    <3> DEFINE k == Cardinality(V)
    <3>8. Cardinality(T) = k + 1 /\ k \in Nat
      BY <3>5
    <3>9. (k + 1) * c = k * c + c /\ k * c \in Int
      <4> HIDE DEF k
      <4> QED
        BY <3>8
    <3> HIDE DEF F, H, V
    <3> QED
      BY <3>2, <3>6, <3>7, <3>8, <3>9
  <2> QED
    BY <2>1, <2>2
<1> HIDE DEF G
<1>2. S \in G
  BY <1>1, SubsetInduction
<1> QED
  BY <1>2 DEF G

\* The sum over a part and the sum over the rest.
LEMMA SumOfParts ==
  ASSUME NEW S, IsFiniteSet(S), NEW f, \A x \in S : f[x] \in Int,
         NEW T \in SUBSET S
  PROVE  SumFunctionOnSet(f, S)
           = SumFunctionOnSet(f, T) + SumFunctionOnSet(f, S \ T)
<1> DEFINE F(U) == SumFunctionOnSet(f, U)
           G == {U \in SUBSET S : F(U) = F(U \cap T) + F(U \ T)}
<1>1. ASSUME NEW U \in SUBSET S, \A V \in SUBSET U : V # U => V \in G
      PROVE  U \in G
  <2>1. CASE U = {}
    <3>1. U \cap T = {} /\ U \ T = {} /\ F({}) = 0
      BY <2>1, SumOfNone
    <3> HIDE DEF F
    <3> QED
      BY <2>1, <3>1
  <2>2. CASE U # {}
    <3>1. PICK x \in U : TRUE
      BY <2>2
    <3> DEFINE V == U \ {x}
    <3>2. F(V) = F(V \cap T) + F(V \ T)
      BY <1>1, <3>1
    <3>3. /\ F(U) = f[x] + F(V) /\ f[x] \in Int
          /\ F(V \cap T) \in Int /\ F(V \ T) \in Int
      BY <3>1, SumOfOneMore
    <3>4. CASE x \in T
      <4>1. U \cap T \in SUBSET S /\ x \in U \cap T
        BY <3>4
      <4>2. (U \cap T) \ {x} = V \cap T /\ U \ T = V \ T
        BY <3>4
      <4>3. F(U \cap T) = f[x] + F(V \cap T)
        BY <4>1, <4>2, SumOfOneMore
      <4>4. F(U \ T) = F(V \ T)
        BY <4>2
      <4> HIDE DEF F, V
      <4> QED
        BY <3>2, <3>3, <4>3, <4>4
    <3>5. CASE x \notin T
      <4>1. U \ T \in SUBSET S /\ x \in U \ T
        BY <3>5
      <4>2. (U \ T) \ {x} = V \ T /\ U \cap T = V \cap T
        BY <3>5
      <4>3. F(U \ T) = f[x] + F(V \ T)
        BY <4>1, <4>2, SumOfOneMore
      <4>4. F(U \cap T) = F(V \cap T)
        BY <4>2
      <4> HIDE DEF F, V
      <4> QED
        BY <3>2, <3>3, <4>3, <4>4
    <3> QED
      BY <3>4, <3>5
  <2> QED
    BY <2>1, <2>2
<1> HIDE DEF G
<1>2. S \in G
  BY <1>1, SubsetInduction
<1>3. S \cap T = T
  OBVIOUS
<1> QED
  BY <1>2, <1>3 DEF G

\* A part of naturals adds up to no more than all of them.
LEMMA SumOfPart ==
  ASSUME NEW S, IsFiniteSet(S), NEW f, \A x \in S : f[x] \in Nat,
         NEW T \in SUBSET S
  PROVE  SumFunctionOnSet(f, T) <= SumFunctionOnSet(f, S)
<1>1. IsFiniteSet(T) /\ IsFiniteSet(S \ T)
  BY FS_Subset
<1>2. /\ SumFunctionOnSet(f, T) \in Nat
      /\ SumFunctionOnSet(f, S \ T) \in Nat
  BY <1>1, SumOfNaturals
<1>3. SumFunctionOnSet(f, S)
        = SumFunctionOnSet(f, T) + SumFunctionOnSet(f, S \ T)
  BY SumOfParts
<1> QED
  BY <1>2, <1>3

-----------------------------------------------------------------------------
(* Sequences. *)

\* Of finitely many indices one is the last.
LEMMA LastIndex ==
  ASSUME NEW n \in Nat, NEW I \in SUBSET (1 .. n), I # {}
  PROVE  \E i \in I : \A j \in I : j <= i
<1> DEFINE G == {J \in SUBSET (1 .. n) :
                   J # {} => \E i \in J : \A j \in J : j <= i}
<1>1. ASSUME NEW J \in SUBSET (1 .. n), \A K \in SUBSET J : K # J => K \in G
      PROVE  J \in G
  <2> SUFFICES ASSUME J # {}
               PROVE  \E i \in J : \A j \in J : j <= i
    OBVIOUS
  <2>1. PICK k \in J : TRUE
    OBVIOUS
  <2>2. CASE J = {k}
    BY <2>2
  <2>3. CASE J # {k}
    <3>1. PICK i \in J \ {k} : \A j \in J \ {k} : j <= i
      BY <1>1, <2>3
    <3> QED
      BY <3>1
  <2> QED
    BY <2>2, <2>3
<1> HIDE DEF G
<1>2. IsFiniteSet(1 .. n)
  BY FS_Interval
<1>3. \A J \in SUBSET (1 .. n) : J \in G
  BY <1>1, <1>2, SubsetInduction
<1> QED
  BY <1>3 DEF G
=============================================================================
