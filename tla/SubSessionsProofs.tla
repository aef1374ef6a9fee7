------------------------- MODULE SubSessionsProofs -------------------------
(***************************************************************************)
(* That a tree of sub-sessions stays within its limits and what it spends  *)
(* is bounded, for every number of sub-sessions, of starts, of restarts    *)
(* and every value of the limits (server/services/sub_sessions.py).        *)
(*                                                                         *)
(* Two things have to be said of data first: what a sum over a finite set  *)
(* is, and that the layer of a conversation depends only on the rows above *)
(* it.  Both go by a least counterexample (WFMin).                         *)
(***************************************************************************)
EXTENDS SubSessions, FiniteSetTheorems, WellFoundedInduction, TLAPS

-----------------------------------------------------------------------------
(* Induction. *)

\* What holds of a subset when it holds of every smaller one holds of every subset.
LEMMA FiniteInduction ==
    ASSUME NEW U, IsFiniteSet(U), NEW P \in SUBSET (SUBSET U),
           \A T \in SUBSET U : (\A V \in SUBSET T : V # T => V \in P) => T \in P
    PROVE  \A T \in SUBSET U : T \in P
  <1> DEFINE R == StrictSubsetOrdering(U)
             B == (SUBSET U) \ P
  <1>1. IsWellFoundedOn(R, SUBSET U)
    BY FS_StrictSubsetOrderingWellFounded, FS_FiniteSubsetsOfFinite
  <1> SUFFICES ASSUME B # {} PROVE FALSE
    OBVIOUS
  <1>2. PICK T \in B : \A V \in B : ~(<<V, T>> \in R)
    <2>1. B \subseteq SUBSET U
      OBVIOUS
    <2> HIDE DEF B, R
    <2> QED
      BY <1>1, <2>1, WFMin
  <1>3. ASSUME NEW V \in SUBSET T, V # T PROVE V \in P
    <2>1. V \in SUBSET U
      BY <1>2
    <2>2. V \subseteq T /\ V # T /\ T \in SUBSET U
      BY <1>2, <1>3
    <2>3. <<V, T>> \in R
      BY <2>1, <2>2 DEF StrictSubsetOrdering
    <2> QED
      BY <1>2, <2>1, <2>3
  <1> QED
    BY <1>2, <1>3

\* The order of the naturals.
Below == {ss \in Nat \X Nat : ss[1] < ss[2]}

\* What holds of 0, and of n + 1 when it holds of n, holds of every natural.
LEMMA Induction ==
    ASSUME NEW S \in SUBSET Nat, 0 \in S, \A n \in S : n + 1 \in S
    PROVE  \A n \in Nat : n \in S
  <1> SUFFICES ASSUME Nat \ S # {} PROVE FALSE
    OBVIOUS
  <1>1. IsWellFoundedOn(Below, Nat)
    BY NatLessThanWellFounded, Zenon DEF OpToRel, Below
  <1>2. PICK n \in Nat \ S : \A m \in Nat \ S : ~(<<m, n>> \in Below)
    BY <1>1, WFMin
  <1>3. n # 0 /\ n - 1 \in Nat
    OBVIOUS
  <1>4. n - 1 \in S
    <2> SUFFICES ASSUME n - 1 \notin S PROVE FALSE
      OBVIOUS
    <2>1. <<n - 1, n>> \in Below
      BY <1>3 DEF Below
    <2> QED
      BY <1>2, <1>3, <2>1
  <1> QED
    BY <1>2, <1>4

-----------------------------------------------------------------------------
(* What Sum computes.  It is a recursive function, a choice of a function  *)
(* that satisfies its own equation: there is one (TotalsExist) and only    *)
(* one (TotalsAgree).                                                      *)

\* The element a sum takes out first.
Pick(s) == CHOOSE x \in s : TRUE

\* The recursion of a sum, over subsets of S of at most n elements.
Adds(f, S, n, g) ==
    g = [s \in {t \in SUBSET S : Cardinality(t) <= n} |-> IF s = {} THEN 0 ELSE f[Pick(s)] + g[s \ {Pick(s)}]]
Totals(f, S, g) ==
    g = [s \in SUBSET S |-> IF s = {} THEN 0 ELSE f[Pick(s)] + g[s \ {Pick(s)}]]

\* The sum as the choice it is.
LEMMA SumIs == ASSUME NEW f, NEW S PROVE Sum(f, S) = (CHOOSE g : Totals(f, S, g))[S]
  BY Zenon DEF Sum, MapThenSumSet, MapThenFoldSet, Totals, Pick

\* What is taken out is an element.
LEMMA PickIn == ASSUME NEW s, s # {} PROVE Pick(s) \in s
  BY DEF Pick

\* There is such a function, built up from the empty set.
LEMMA TotalsExist ==
    ASSUME NEW f, NEW S, IsFiniteSet(S)
    PROVE  \E g : Totals(f, S, g)
  <1> DEFINE N == {n \in Nat : \E g : Adds(f, S, n, g)}
  <1>0. \A s \in SUBSET S : /\ IsFiniteSet(s) /\ Cardinality(s) \in Nat /\ Cardinality(s) <= Cardinality(S)
                            /\ Cardinality(s) = 0 <=> s = {}
    BY FS_Subset, FS_CardinalityType, FS_EmptySet
  <1>00. \A s \in SUBSET S : s # {} => s \ {Pick(s)} \in SUBSET S /\ Cardinality(s \ {Pick(s)}) = Cardinality(s) - 1
    BY <1>0, FS_RemoveElement, PickIn
  <1>1. 0 \in N
    <2> DEFINE D0 == {t \in SUBSET S : Cardinality(t) <= 0}
               g == [s \in D0 |-> 0]
    <2>1. \A s \in D0 : s = {}
      BY <1>0
    <2>2. g = [s \in D0 |-> IF s = {} THEN 0 ELSE f[Pick(s)] + g[s \ {Pick(s)}]]
      BY <2>1
    <2>3. Adds(f, S, 0, g)
      BY <2>2 DEF Adds
    <2> QED
      BY <2>3
  <1>2. ASSUME NEW n \in N
        PROVE  n + 1 \in N
    <2>1. n \in Nat /\ \E g : Adds(f, S, n, g)
      OBVIOUS
    <2>2. PICK g : Adds(f, S, n, g)
      BY <2>1
    <2> DEFINE D0 == {t \in SUBSET S : Cardinality(t) <= n}
               D1 == {t \in SUBSET S : Cardinality(t) <= n + 1}
               h == [s \in D1 |-> IF s = {} THEN 0 ELSE f[Pick(s)] + g[s \ {Pick(s)}]]
    <2>3. \A s \in D0 : g[s] = IF s = {} THEN 0 ELSE f[Pick(s)] + g[s \ {Pick(s)}]
      BY <2>2 DEF Adds
    <2>4. \A s \in D0 : s \in D1 /\ h[s] = g[s]
      BY <1>0, <2>1, <2>3
    <2>5. \A s \in D1 : s # {} => s \ {Pick(s)} \in D0
      BY <1>0, <1>00, <2>1
    <2>6. h = [s \in D1 |-> IF s = {} THEN 0 ELSE f[Pick(s)] + h[s \ {Pick(s)}]]
      BY <2>4, <2>5
    <2>7. Adds(f, S, n + 1, h)
      BY <2>6 DEF Adds
    <2> QED
      BY <2>1, <2>7
  <1>3. Cardinality(S) \in N
    <2> HIDE DEF N
    <2>1. N \in SUBSET Nat
      BY DEF N
    <2>2. Cardinality(S) \in Nat
      BY FS_CardinalityType
    <2> QED
      BY <1>1, <1>2, <2>1, <2>2, Induction
  <1>4. PICK g : Adds(f, S, Cardinality(S), g)
    BY <1>3
  <1>5. {t \in SUBSET S : Cardinality(t) <= Cardinality(S)} = SUBSET S
    BY <1>0
  <1>6. Totals(f, S, g)
    BY <1>4, <1>5 DEF Adds, Totals
  <1> QED
    BY <1>6

\* Two recursions agree where both are defined.
LEMMA TotalsAgree ==
    ASSUME NEW f, NEW S, NEW T \in SUBSET S, IsFiniteSet(S), NEW g, NEW h, Totals(f, S, g), Totals(f, T, h)
    PROVE  \A s \in SUBSET T : g[s] = h[s]
  <1> DEFINE R == StrictSubsetOrdering(T)
             B == {s \in SUBSET T : g[s] # h[s]}
  <1> SUFFICES ASSUME B # {} PROVE FALSE
    OBVIOUS
  <1>1. IsWellFoundedOn(R, SUBSET T)
    BY FS_StrictSubsetOrderingWellFounded, FS_FiniteSubsetsOfFinite, FS_Subset
  <1>2. PICK s \in B : \A v \in B : ~(<<v, s>> \in R)
    BY <1>1, WFMin
  <1>3. g[s] = (IF s = {} THEN 0 ELSE f[Pick(s)] + g[s \ {Pick(s)}]) /\ h[s] = (IF s = {} THEN 0 ELSE f[Pick(s)] + h[s \ {Pick(s)}])
    BY <1>2 DEF Totals
  <1>4. s # {}
    BY <1>2, <1>3
  <1> DEFINE v == s \ {Pick(s)}
  <1>5. v \in SUBSET T /\ s \in SUBSET T /\ v \subseteq s /\ v # s
    BY <1>2, <1>4, PickIn
  <1>6. <<v, s>> \in R
    BY <1>5 DEF StrictSubsetOrdering
  <1>7. g[v] = h[v]
    BY <1>2, <1>5, <1>6
  <1> QED
    BY <1>2, <1>3, <1>7

\* The equation of a sum.
LEMMA SumFirst ==
    ASSUME NEW f, NEW S, IsFiniteSet(S)
    PROVE  Sum(f, S) = IF S = {} THEN 0 ELSE f[Pick(S)] + Sum(f, S \ {Pick(S)})
  <1> DEFINE T == S \ {Pick(S)}
             g == CHOOSE k : Totals(f, S, k)
             h == CHOOSE k : Totals(f, T, k)
  <1>1. IsFiniteSet(T) /\ T \in SUBSET S
    BY FS_Subset
  <1>2. Totals(f, S, g) /\ Totals(f, T, h)
    BY <1>1, TotalsExist
  <1>3. Sum(f, S) = g[S] /\ Sum(f, T) = h[T]
    BY SumIs
  <1> HIDE DEF g, h, T
  <1>4. g[T] = h[T]
    BY <1>1, <1>2, TotalsAgree
  <1>5. g[S] = IF S = {} THEN 0 ELSE f[Pick(S)] + g[T]
    BY <1>2 DEF Totals, T
  <1> QED
    BY <1>3, <1>4, <1>5 DEF T

-----------------------------------------------------------------------------
(* Sums of whole numbers. *)

\* A sum of whole numbers is one.
LEMMA SumType ==
    ASSUME NEW S, IsFiniteSet(S), NEW f, \A c \in S : f[c] \in Int
    PROVE  \A T \in SUBSET S : Sum(f, T) \in Int
  <1> DEFINE P == {T \in SUBSET S : Sum(f, T) \in Int}
  <1>1. ASSUME NEW T \in SUBSET S, \A V \in SUBSET T : V # T => V \in P
        PROVE  T \in P
    <2>1. Sum(f, T) = IF T = {} THEN 0 ELSE f[Pick(T)] + Sum(f, T \ {Pick(T)})
      BY SumFirst, FS_Subset
    <2>2. CASE T = {}
      BY <2>1, <2>2
    <2>3. CASE T # {}
      <3>1. Pick(T) \in T
        BY <2>3, PickIn
      <3>2. T \ {Pick(T)} \in P
        BY <1>1, <3>1
      <3> QED
        BY <2>1, <2>3, <3>1, <3>2
    <2> QED
      BY <2>2, <2>3
  <1>2. P \in SUBSET (SUBSET S)
    OBVIOUS
  <1> HIDE DEF P
  <1>3. \A T \in SUBSET S : T \in P
    BY <1>1, <1>2, FiniteInduction
  <1> QED
    BY <1>3 DEF P

\* Any element may be taken out first.
LEMMA SumTake ==
    ASSUME NEW S, IsFiniteSet(S), NEW f, \A c \in S : f[c] \in Int
    PROVE  \A T \in SUBSET S : \A x \in T : Sum(f, T) = f[x] + Sum(f, T \ {x})
  <1> DEFINE P == {T \in SUBSET S : \A x \in T : Sum(f, T) = f[x] + Sum(f, T \ {x})}
  <1>1. ASSUME NEW T \in SUBSET S, \A V \in SUBSET T : V # T => V \in P
        PROVE  T \in P
    <2> SUFFICES ASSUME NEW x \in T PROVE Sum(f, T) = f[x] + Sum(f, T \ {x})
      OBVIOUS
    <2> DEFINE p == Pick(T)
    <2>1. p \in T
      BY PickIn
    <2>2. Sum(f, T) = f[p] + Sum(f, T \ {p})
      BY SumFirst, FS_Subset
    <2> HIDE DEF p
    <2>3. CASE p = x
      BY <2>2, <2>3
    <2>4. CASE p # x
      <3>1. T \ {p} \in P /\ T \ {x} \in P
        BY <1>1, <2>1
      <3> DEFINE W == (T \ {p}) \ {x}
      <3>2. (T \ {x}) \ {p} = W /\ W \in SUBSET S
        OBVIOUS
      <3>3. Sum(f, T \ {p}) = f[x] + Sum(f, W)
        BY <3>1, <2>1, <2>4
      <3>4. Sum(f, T \ {x}) = f[p] + Sum(f, W)
        <4>1. Sum(f, T \ {x}) = f[p] + Sum(f, (T \ {x}) \ {p})
          BY <3>1, <2>1, <2>4
        <4> QED
          BY <4>1, <3>2, Zenon
      <3>5. Sum(f, W) \in Int /\ f[x] \in Int /\ f[p] \in Int
        BY <3>2, <2>1, SumType
      <3> HIDE DEF W, P
      <3> QED
        BY <2>2, <3>3, <3>4, <3>5
    <2> QED
      BY <2>3, <2>4
  <1>2. P \in SUBSET (SUBSET S)
    OBVIOUS
  <1> HIDE DEF P
  <1>3. \A T \in SUBSET S : T \in P
    BY <1>1, <1>2, FiniteInduction
  <1> QED
    BY <1>3 DEF P

\* A sum of less is no more.
LEMMA SumLeq ==
    ASSUME NEW S, IsFiniteSet(S), NEW f, NEW g, \A c \in S : f[c] \in Int /\ g[c] \in Int /\ f[c] <= g[c]
    PROVE  \A T \in SUBSET S : Sum(f, T) <= Sum(g, T)
  <1> DEFINE P == {T \in SUBSET S : Sum(f, T) <= Sum(g, T)}
  <1>1. ASSUME NEW T \in SUBSET S, \A V \in SUBSET T : V # T => V \in P
        PROVE  T \in P
    <2>1. /\ Sum(f, T) = IF T = {} THEN 0 ELSE f[Pick(T)] + Sum(f, T \ {Pick(T)})
          /\ Sum(g, T) = IF T = {} THEN 0 ELSE g[Pick(T)] + Sum(g, T \ {Pick(T)})
      BY SumFirst, FS_Subset
    <2>2. CASE T = {}
      BY <2>1, <2>2
    <2>3. CASE T # {}
      <3>1. Pick(T) \in T
        BY <2>3, PickIn
      <3>2. T \ {Pick(T)} \in P
        BY <1>1, <3>1
      <3>3. Sum(f, T \ {Pick(T)}) \in Int /\ Sum(g, T \ {Pick(T)}) \in Int
        BY SumType
      <3> QED
        BY <2>1, <2>3, <3>1, <3>2, <3>3
    <2> QED
      BY <2>2, <2>3
  <1>2. P \in SUBSET (SUBSET S)
    OBVIOUS
  <1> HIDE DEF P
  <1>3. \A T \in SUBSET S : T \in P
    BY <1>1, <1>2, FiniteInduction
  <1> QED
    BY <1>3 DEF P

\* The sum of a sum of functions.
LEMMA SumAdd ==
    ASSUME NEW S, IsFiniteSet(S), NEW f, NEW g, NEW h,
           \A c \in S : f[c] \in Int /\ g[c] \in Int /\ h[c] = f[c] + g[c]
    PROVE  \A T \in SUBSET S : Sum(h, T) = Sum(f, T) + Sum(g, T)
  <1> DEFINE P == {T \in SUBSET S : Sum(h, T) = Sum(f, T) + Sum(g, T)}
  <1>1. ASSUME NEW T \in SUBSET S, \A V \in SUBSET T : V # T => V \in P
        PROVE  T \in P
    <2>1. /\ Sum(f, T) = IF T = {} THEN 0 ELSE f[Pick(T)] + Sum(f, T \ {Pick(T)})
          /\ Sum(g, T) = IF T = {} THEN 0 ELSE g[Pick(T)] + Sum(g, T \ {Pick(T)})
          /\ Sum(h, T) = IF T = {} THEN 0 ELSE h[Pick(T)] + Sum(h, T \ {Pick(T)})
      BY SumFirst, FS_Subset
    <2>2. CASE T = {}
      BY <2>1, <2>2
    <2>3. CASE T # {}
      <3>1. Pick(T) \in T
        BY <2>3, PickIn
      <3>2. T \ {Pick(T)} \in P
        BY <1>1, <3>1
      <3>3. Sum(f, T \ {Pick(T)}) \in Int /\ Sum(g, T \ {Pick(T)}) \in Int
        BY SumType
      <3> QED
        BY <2>1, <2>3, <3>1, <3>2, <3>3
    <2> QED
      BY <2>2, <2>3
  <1>2. P \in SUBSET (SUBSET S)
    OBVIOUS
  <1> HIDE DEF P
  <1>3. \A T \in SUBSET S : T \in P
    BY <1>1, <1>2, FiniteInduction
  <1> QED
    BY <1>3 DEF P

\* What is 0 outside V sums to its sum over V.
LEMMA SumWithin ==
    ASSUME NEW S, IsFiniteSet(S), NEW V \in SUBSET S, NEW f, \A c \in S : f[c] \in Int,
           \A c \in S \ V : f[c] = 0
    PROVE  Sum(f, S) = Sum(f, V)
  <1> DEFINE P == {T \in SUBSET S : Sum(f, T) = Sum(f, T \cap V)}
  <1>1. ASSUME NEW T \in SUBSET S, \A W \in SUBSET T : W # T => W \in P
        PROVE  T \in P
    <2>1. CASE T \subseteq V
      <3>1. T \cap V = T
        BY <2>1
      <3> QED
        BY <3>1
    <2>2. CASE \E x \in T : x \notin V
      <3>1. PICK x \in T : x \notin V
        BY <2>2
      <3>2. T \ {x} \in P /\ (T \ {x}) \cap V = T \cap V
        BY <1>1, <3>1
      <3>3. Sum(f, T) = 0 + Sum(f, T \ {x})
        BY <3>1, SumTake
      <3>4. Sum(f, T \ {x}) \in Int
        BY SumType
      <3>5. Sum(f, T \ {x}) = Sum(f, T \cap V)
        BY <3>2, Zenon
      <3> QED
        BY <3>3, <3>4, <3>5
    <2> QED
      BY <2>1, <2>2
  <1>2. P \in SUBSET (SUBSET S)
    OBVIOUS
  <1> HIDE DEF P
  <1>3. S \in P
    BY <1>1, <1>2, FiniteInduction
  <1>4. S \cap V = V
    OBVIOUS
  <1> QED
    BY <1>3, <1>4 DEF P

\* The sum of a constant.
LEMMA SumConstant ==
    ASSUME NEW S, IsFiniteSet(S), NEW k \in Nat, NEW f, \A c \in S : f[c] = k
    PROVE  \A T \in SUBSET S : Sum(f, T) = Cardinality(T) * k
  <1> DEFINE P == {T \in SUBSET S : Sum(f, T) = Cardinality(T) * k}
  <1>1. ASSUME NEW T \in SUBSET S, \A V \in SUBSET T : V # T => V \in P
        PROVE  T \in P
    <2>1. Sum(f, T) = IF T = {} THEN 0 ELSE f[Pick(T)] + Sum(f, T \ {Pick(T)})
      BY SumFirst, FS_Subset
    <2>2. CASE T = {}
      BY <2>1, <2>2, FS_EmptySet
    <2>3. CASE T # {}
      <3>1. Pick(T) \in T
        BY <2>3, PickIn
      <3>2. T \ {Pick(T)} \in P
        BY <1>1, <3>1
      <3>3. IsFiniteSet(T) /\ Cardinality(T) \in Nat
        BY FS_Subset, FS_CardinalityType
      <3>4. Cardinality(T \ {Pick(T)}) = Cardinality(T) - 1
        BY <3>1, <3>3, FS_RemoveElement
      <3>5. Sum(f, T) = k + (Cardinality(T) - 1) * k
        BY <2>1, <2>3, <3>1, <3>2, <3>4
      <3>6. \A n \in Nat : k + (n - 1) * k = n * k
        OBVIOUS
      <3> QED
        BY <3>3, <3>5, <3>6
    <2> QED
      BY <2>2, <2>3
  <1>2. P \in SUBSET (SUBSET S)
    OBVIOUS
  <1> HIDE DEF P
  <1>3. \A T \in SUBSET S : T \in P
    BY <1>1, <1>2, FiniteInduction
  <1> QED
    BY <1>3 DEF P

-----------------------------------------------------------------------------
(* The layer of a conversation depends on the rows above it only. *)

\* The walk up from c along the parents q, as Depth takes it.
Ladder(q, c, u) ==
    u = [n \in 0 .. MaxDepth |-> IF n = 0 THEN c ELSE IF u[n - 1] = Root THEN Root ELSE q[u[n - 1]]]
Layer(q, c) == 1 + Cardinality({n \in 0 .. MaxDepth - 2 : (CHOOSE u : Ladder(q, c, u))[n] # Root})

\* Depth, with the parents it reads as a parameter.
LEMMA DepthIsLayer == \A c : Depth(c) = Layer(parent, c)
  BY Zenon DEF Depth, Layer, Ladder, Above

\* A layer is counted up to MAX_DEPTH.
LEMMA LayerRange == \A q, c : Layer(q, c) \in 1 .. MaxDepth
  <1> SUFFICES ASSUME NEW q, NEW c PROVE Layer(q, c) \in 1 .. MaxDepth
    OBVIOUS
  <1> DEFINE I == 0 .. MaxDepth - 2
             J == {n \in I : (CHOOSE u : Ladder(q, c, u))[n] # Root}
  <1>1. MaxDepth \in Nat /\ MaxDepth >= 2
    BY SubSessionsAssumption
  <1>2. IsFiniteSet(I) /\ Cardinality(I) = MaxDepth - 1
    BY <1>1, FS_Interval
  <1>3. J \subseteq I
    OBVIOUS
  <1>4. Layer(q, c) = 1 + Cardinality(J)
    BY Zenon DEF Layer
  <1> HIDE DEF I, J
  <1>5. IsFiniteSet(J) /\ Cardinality(J) <= Cardinality(I)
    BY <1>2, <1>3, FS_Subset
  <1>6. Cardinality(J) \in Nat
    BY <1>5, FS_CardinalityType
  <1> QED
    BY <1>1, <1>2, <1>4, <1>5, <1>6

\* A walk from inside a set the parents do not leave stays inside it.
LEMMA LadderStays ==
    ASSUME NEW C, Root \in C, NEW q, \A c \in C \ {Root} : q[c] \in C, NEW p \in C, NEW u, Ladder(q, p, u)
    PROVE  \A n \in 0 .. MaxDepth : u[n] \in C
  <1> DEFINE N == {n \in Nat : n <= MaxDepth => u[n] \in C}
  <1>1. MaxDepth \in Nat
    BY SubSessionsAssumption
  <1>2. \A n \in 0 .. MaxDepth : u[n] = IF n = 0 THEN p ELSE IF u[n - 1] = Root THEN Root ELSE q[u[n - 1]]
    BY DEF Ladder
  <1>3. 0 \in N
    BY <1>1, <1>2
  <1>4. ASSUME NEW n \in N PROVE n + 1 \in N
    <2> SUFFICES ASSUME n + 1 <= MaxDepth PROVE u[n + 1] \in C
      OBVIOUS
    <2>1. n \in Nat /\ n + 1 \in 0 .. MaxDepth /\ n + 1 # 0 /\ n \in 0 .. MaxDepth /\ (n + 1) - 1 = n
      BY <1>1
    <2>2. u[n] \in C
      BY <2>1
    <2>3. u[n + 1] = IF u[n] = Root THEN Root ELSE q[u[n]]
      BY <1>2, <2>1
    <2> QED
      BY <2>2, <2>3
  <1>5. N \in SUBSET Nat
    OBVIOUS
  <1> HIDE DEF N
  <1>6. \A n \in Nat : n \in N
    BY <1>3, <1>4, <1>5, Induction
  <1> QED
    BY <1>1, <1>6 DEF N

\* Such a walk is the same along parents that agree inside the set.
LEMMA LadderKept ==
    ASSUME NEW C, Root \in C, NEW q, NEW r, \A c \in C \ {Root} : q[c] \in C /\ r[c] = q[c], NEW p \in C,
           NEW u, Ladder(q, p, u)
    PROVE  Ladder(r, p, u)
  <1>1. MaxDepth \in Nat
    BY SubSessionsAssumption
  <1>2. \A n \in 0 .. MaxDepth : u[n] \in C
    BY LadderStays
  <1>3. u = [n \in 0 .. MaxDepth |-> IF n = 0 THEN p ELSE IF u[n - 1] = Root THEN Root ELSE q[u[n - 1]]]
    BY DEF Ladder
  <1>4. \A n \in 0 .. MaxDepth : n # 0 => n - 1 \in 0 .. MaxDepth
    BY <1>1
  <1>5. u = [n \in 0 .. MaxDepth |-> IF n = 0 THEN p ELSE IF u[n - 1] = Root THEN Root ELSE r[u[n - 1]]]
    BY <1>2, <1>3, <1>4
  <1> QED
    BY <1>5 DEF Ladder

\* So the layer of a conversation does not change when rows are added elsewhere.
LEMMA LayerKept ==
    ASSUME NEW C, Root \in C, NEW q, NEW r, \A c \in C \ {Root} : q[c] \in C /\ r[c] = q[c], NEW p \in C
    PROVE  Layer(r, p) = Layer(q, p)
  <1>1. \A u : Ladder(q, p, u) <=> Ladder(r, p, u)
    BY LadderKept
  <1>2. (CHOOSE u : Ladder(q, p, u)) = (CHOOSE u : Ladder(r, p, u))
    BY <1>1, Zenon
  <1> QED
    BY <1>2, Zenon DEF Layer

-----------------------------------------------------------------------------
(* The lock of start. *)

\* The rows form a tree below Root, a call starts from a conversation that exists,
\* a call past its counts holds the lock, and the sub-session it made is in the tree
\* and has no job yet.
StartsUnderLock ==
    /\ \A c \in Made : parent[c] \in Conversations
    /\ \A s \in Call : calls[s] \in {"waiting", "counted", "created"} => under[s] \in Conversations
    /\ \A s \in Call : calls[s] \in {"counted", "created"} => lock = s
    /\ \A s \in Call : calls[s] = "created" => child[s] \in Made /\ job[child[s]] = "none"
    /\ \A c \in Child \ Made : job[c] = "none"

ShapeInv == TypeOK /\ StartsUnderLock

\* Every step keeps the shape.
LEMMA ShapeStep == ShapeInv /\ [Next]_vars => ShapeInv'
  <1> SUFFICES ASSUME ShapeInv, [Next]_vars PROVE ShapeInv'
    OBVIOUS
  <1> USE SubSessionsAssumption DEF ShapeInv, StartsUnderLock, Made, Conversations
  <1>1. ASSUME NEW s \in Call, NEW p \in Conversations, CallStart(s, p) PROVE ShapeInv'
    BY <1>1 DEF CallStart, TypeOK
  <1>2. ASSUME NEW s \in Call, Count(s) PROVE ShapeInv'
    <2>1. \A t \in Call : calls[t] \notin {"counted", "created"}
      BY <1>2 DEF Count
    <2>2. calls[s] = "waiting" /\ UNCHANGED <<parent, saved, restarts, job, step, usd>>
      BY <1>2 DEF Count
    <2>3. CASE lock' = s /\ calls' = [calls EXCEPT ![s] = "counted"] /\ UNCHANGED <<under, child>>
      BY <2>1, <2>2, <2>3 DEF TypeOK
    <2>4. CASE Ends(s)
      BY <2>1, <2>2, <2>4 DEF Ends, TypeOK
    <2> QED
      BY <1>2, <2>3, <2>4 DEF Count
  <1>3. ASSUME NEW s \in Call, NEW c \in Child, CreateChild(s, c) PROVE ShapeInv'
    <2>1. TypeOK'
      BY <1>3 DEF CreateChild, TypeOK
    <2>2. under[s] \in Conversations /\ under[s] # NoOne /\ c \notin Made
      BY <1>3 DEF CreateChild
    <2>3. parent' = [parent EXCEPT ![c] = under[s]] /\ Made' = Made \union {c} /\ Conversations' = Conversations \union {c}
      BY <1>3, <2>2 DEF CreateChild, TypeOK
    <2>4. \A t \in Call : calls'[t] \in {"counted", "created"} => t = s /\ lock = s
      BY <1>3 DEF CreateChild, TypeOK
    <2>5. child'[s] = c /\ job[c] = "none"
      BY <1>3, <2>2 DEF CreateChild, TypeOK
    <2>6. (\A d \in Made : parent[d] \in Conversations)'
      <3> SUFFICES ASSUME NEW d \in Made' PROVE parent'[d] \in Conversations'
        OBVIOUS
      <3> QED
        BY <2>2, <2>3 DEF TypeOK
    <2>7. (\A t \in Call : calls[t] \in {"waiting", "counted", "created"} => under[t] \in Conversations)'
      BY <1>3, <2>3 DEF CreateChild, TypeOK
    <2>8. (\A t \in Call : calls[t] = "created" => child[t] \in Made /\ job[child[t]] = "none")'
      BY <1>3, <2>3, <2>4, <2>5 DEF CreateChild
    <2>9. (\A d \in Child \ Made : job[d] = "none")'
      BY <1>3, <2>3 DEF CreateChild
    <2> QED
      BY <1>3, <2>1, <2>4, <2>6, <2>7, <2>8, <2>9 DEF CreateChild
  <1>4. ASSUME NEW s \in Call, StartJob(s) PROVE ShapeInv'
    <2>1. TypeOK'
      BY <1>4 DEF StartJob, Ends, TypeOK
    <2>2. lock = s /\ child[s] \in Made /\ \A t \in Call : calls[t] \in {"counted", "created"} => t = s
      BY <1>4 DEF StartJob
    <2>3. \A t \in Call : calls'[t] \notin {"counted", "created"}
      BY <1>4, <2>2 DEF StartJob, Ends, TypeOK
    <2>4. (\A d \in Child \ Made : job[d] = "none")'
      BY <1>4, <2>2 DEF StartJob, TypeOK
    <2>5. (\A t \in Call : calls[t] \in {"waiting", "counted", "created"} => under[t] \in Conversations)'
      BY <1>4 DEF StartJob, Ends, TypeOK
    <2>6. (\A d \in Made : parent[d] \in Conversations)'
      BY <1>4 DEF StartJob
    <2> QED
      BY <2>1, <2>3, <2>4, <2>5, <2>6
  <1>5. ASSUME NEW s \in Call, StartCut(s) PROVE ShapeInv'
    BY <1>5 DEF StartCut, Ends, TypeOK
  <1>6. ASSUME NEW c \in Child, GetSlot(c) PROVE ShapeInv'
    BY <1>6 DEF GetSlot, TypeOK
  <1>7. ASSUME NEW c \in Child, BeforeModel(c) PROVE ShapeInv'
    BY <1>7 DEF BeforeModel, TypeOK
  <1>8. ASSUME NEW c \in Child, CheckTreeSpend(c) PROVE ShapeInv'
    BY <1>8 DEF CheckTreeSpend, TypeOK
  <1>9. ASSUME NEW c \in Child, NEW price \in 0 .. MaxPrice, Respond(c, price) PROVE ShapeInv'
    BY <1>9 DEF Respond, TypeOK
  <1>10. ASSUME NEW c \in Child, AroundTool(c) PROVE ShapeInv'
    BY <1>10 DEF AroundTool, TypeOK
  <1>11. ASSUME NEW c \in Child, RunEnds(c) PROVE ShapeInv'
    BY <1>11 DEF RunEnds, TypeOK
  <1>12. ASSUME NEW c \in Child, StopQueued(c) PROVE ShapeInv'
    BY <1>12 DEF StopQueued, TypeOK
  <1>13. CASE Restart
    BY <1>13 DEF Restart, TypeOK, Active
  <1>14. CASE UNCHANGED vars
    BY <1>14 DEF vars, TypeOK
  <1> QED
    BY <1>1, <1>2, <1>3, <1>4, <1>5, <1>6, <1>7, <1>8, <1>9, <1>10, <1>11, <1>12, <1>13, <1>14 DEF Next

\* The shape holds in every state: what start counts under its lock is not changed by
\* another start before it is used.
THEOREM StartsAreSerial == Spec => []ShapeInv
  <1>1. Init => ShapeInv
    BY SubSessionsAssumption DEF Init, ShapeInv, TypeOK, StartsUnderLock, Made, Conversations
  <1> QED
    BY <1>1, ShapeStep, PTL DEF Spec

-----------------------------------------------------------------------------
(* The limits of a tree. *)

\* A start that has been counted has room: for a child below its conversation until it
\* makes one, and for a job until it starts one.
RoomForStart ==
    /\ \A s \in Call : calls[s] \in {"counted", "created"} => Cardinality(Active) < MaxAlive
    /\ \A s \in Call : \A p \in Conversations : calls[s] = "counted" /\ under[s] = p =>
          Depth(p) < MaxDepth /\ Cardinality(Children(p)) < MaxChildren[Depth(p)]

\* No conversation has more children than its layer allows.
ChildrenWithinLimits ==
    \A p \in Conversations :
        Children(p) # {} => Depth(p) < MaxDepth /\ Cardinality(Children(p)) <= MaxChildren[Depth(p)]

TreeInv == ShapeInv /\ RoomForStart /\ TreeWithinLimits

\* Depth in the next state.
LEMMA NextDepthIsLayer == \A c : Depth(c)' = Layer(parent', c)
  BY Zenon DEF Depth, Layer, Ladder, Above

\* Rows that do not change count as before.
LEMMA SameRows ==
    ASSUME parent' = parent
    PROVE  /\ Conversations' = Conversations /\ \A p : Children(p)' = Children(p)
           /\ \A p : Depth(p)' = Depth(p)
  <1>1. Conversations' = Conversations /\ \A p : Children(p)' = Children(p)
    BY DEF Conversations, Made, Children
  <1>2. \A p : Depth(p)' = Depth(p)
    BY DepthIsLayer, NextDepthIsLayer, Zenon
  <1> QED
    BY <1>1, <1>2

\* The jobs and the children of a tree are finitely many.
LEMMA Finite ==
    ASSUME NEW S \in SUBSET Child
    PROVE  IsFiniteSet(S) /\ Cardinality(S) \in Nat /\ \A T \in SUBSET S : Cardinality(T) <= Cardinality(S)
  BY SubSessionsAssumption, FS_Subset, FS_CardinalityType

\* A step that adds no row, no job and no counted start keeps the limits.
LEMMA QuietStep ==
    ASSUME TreeInv, ShapeInv', parent' = parent, Active' \subseteq Active,
           \A s \in Call : calls'[s] \in {"counted", "created"} => calls'[s] = calls[s] /\ under'[s] = under[s]
    PROVE  TreeInv'
  <1>1. Cardinality(Active') \in Nat /\ Cardinality(Active) \in Nat /\ Cardinality(Active') <= Cardinality(Active)
    <2>1. Active \in SUBSET Child /\ Active' \in SUBSET Active
      BY DEF Active
    <2> QED
      BY <2>1, Finite
  <1>2. RoomForStart'
    <2>1. (\A s \in Call : calls[s] \in {"counted", "created"} => Cardinality(Active) < MaxAlive)'
      BY <1>1, SubSessionsAssumption DEF TreeInv, RoomForStart
    <2>2. (\A s \in Call : \A p \in Conversations : calls[s] = "counted" /\ under[s] = p =>
              Depth(p) < MaxDepth /\ Cardinality(Children(p)) < MaxChildren[Depth(p)])'
      BY SameRows DEF TreeInv, RoomForStart
    <2> QED
      BY <2>1, <2>2 DEF RoomForStart
  <1>3. ChildrenWithinLimits'
    BY SameRows DEF TreeInv, TreeWithinLimits, ChildrenWithinLimits
  <1> QED
    BY <1>1, <1>2, <1>3, SubSessionsAssumption DEF TreeInv, TreeWithinLimits, ChildrenWithinLimits

\* Every step keeps the limits.
LEMMA TreeStep == TreeInv /\ [Next]_vars => TreeInv'
  <1> SUFFICES ASSUME TreeInv, [Next]_vars PROVE TreeInv'
    OBVIOUS
  <1>0. ShapeInv /\ ShapeInv' /\ TypeOK /\ TypeOK'
    BY ShapeStep DEF TreeInv, ShapeInv
  <1>1. ASSUME NEW s \in Call, NEW p \in Conversations, CallStart(s, p) PROVE TreeInv'
    BY <1>0, <1>1, QuietStep DEF CallStart, Active, TypeOK
  <1>2. ASSUME NEW s \in Call, Count(s) PROVE TreeInv'
    <2>0. calls[s] = "waiting" /\ parent' = parent /\ job' = job /\ Active' = Active
      BY <1>2 DEF Count, Active
    <2>1. CASE MayStart(under[s]) /\ calls' = [calls EXCEPT ![s] = "counted"] /\ under' = under
      <3>1. \A t \in Call : calls'[t] \in {"counted", "created"} => t = s
        BY <1>2, <1>0, <2>1, SubSessionsAssumption DEF Count, ShapeInv, StartsUnderLock, TypeOK
      <3>2. Cardinality(Active) < MaxAlive
        BY <2>1 DEF MayStart
      <3>3. \A p \in Conversations : under[s] = p => Depth(p) < MaxDepth /\ Cardinality(Children(p)) < MaxChildren[Depth(p)]
        BY <2>1 DEF MayStart
      <3>4. RoomForStart'
        <4>1. (\A t \in Call : calls[t] \in {"counted", "created"} => Cardinality(Active) < MaxAlive)'
          BY <2>0, <3>2
        <4>2. (\A t \in Call : \A p \in Conversations : calls[t] = "counted" /\ under[t] = p =>
                  Depth(p) < MaxDepth /\ Cardinality(Children(p)) < MaxChildren[Depth(p)])'
          BY <2>0, <2>1, <3>1, <3>3, SameRows
        <4> QED
          BY <4>1, <4>2 DEF RoomForStart
      <3>5. TreeWithinLimits'
        <4>1. ChildrenWithinLimits'
          BY <2>0, SameRows DEF TreeInv, TreeWithinLimits, ChildrenWithinLimits
        <4> QED
          BY <2>0, <4>1 DEF TreeInv, TreeWithinLimits, ChildrenWithinLimits
      <3> QED
        BY <1>0, <3>4, <3>5 DEF TreeInv
    <2>2. CASE Ends(s)
      BY <1>0, <2>0, <2>2, QuietStep DEF Ends, TypeOK
    <2> QED
      BY <1>2, <2>1, <2>2 DEF Count
  <1>3. ASSUME NEW s \in Call, NEW c \in Child, CreateChild(s, c) PROVE TreeInv'
    <2> DEFINE p == under[s]
    <2>1. calls[s] = "counted" /\ c \notin Made /\ c # Root /\ c \notin Conversations
      BY <1>3, SubSessionsAssumption DEF CreateChild, Conversations
    <2>2. p \in Conversations /\ p # NoOne /\ p # c
      BY <1>0, <2>1, SubSessionsAssumption DEF ShapeInv, StartsUnderLock, Conversations, Made
    <2>3. parent' = [parent EXCEPT ![c] = p] /\ job' = job /\ Active' = Active
      BY <1>3 DEF CreateChild, Active
    <2>4. Conversations' = Conversations \union {c}
      BY <1>0, <2>2, <2>3 DEF Conversations, Made, TypeOK
    <2>5. \A t \in Call : calls'[t] \in {"counted", "created"} => t = s /\ calls'[t] = "created"
      BY <1>0, <1>3, <2>1 DEF CreateChild, ShapeInv, StartsUnderLock, TypeOK
    <2>6. \A q \in Conversations : Depth(q)' = Depth(q)
      <3>1. Root \in Conversations /\ \A d \in Conversations \ {Root} : parent[d] \in Conversations /\ parent'[d] = parent[d]
        BY <1>0, <2>1, <2>3 DEF ShapeInv, StartsUnderLock, Conversations, Made, TypeOK
      <3>2. \A q \in Conversations : Layer(parent', q) = Layer(parent, q)
        BY <3>1, LayerKept
      <3> QED
        BY <3>2, DepthIsLayer, NextDepthIsLayer, Zenon
    <2>7. Children(c)' = {}
      BY <1>0, <2>1, <2>2, <2>3, SubSessionsAssumption DEF Children, ShapeInv, StartsUnderLock, Made, Conversations, TypeOK
    <2>8. \A q \in Conversations : q # p => Children(q)' = Children(q)
      BY <1>0, <2>1, <2>3, SubSessionsAssumption DEF Children, Made, Conversations, TypeOK
    <2>9. Children(p) \in SUBSET Child /\ c \notin Children(p) /\ {d \in Child : parent'[d] = p} = Children(p) \union {c}
      BY <1>0, <2>1, <2>2, <2>3 DEF Children, Made, TypeOK
    <2>10. Cardinality({d \in Child : parent'[d] = p}) = Cardinality(Children(p)) + 1 /\ Cardinality(Children(p)) \in Nat
      BY <2>9, Finite, FS_AddElement
    <2>11. Depth(p) < MaxDepth /\ Cardinality(Children(p)) < MaxChildren[Depth(p)] /\ Cardinality(Active) < MaxAlive
      BY <2>1, <2>2 DEF TreeInv, RoomForStart
    <2>12. Depth(p) \in 1 .. MaxDepth - 1 /\ MaxChildren[Depth(p)] \in Nat
      <3>1. Depth(p) \in 1 .. MaxDepth
        BY DepthIsLayer, LayerRange
      <3> QED
        BY <2>11, <3>1, SubSessionsAssumption
    <2>13. ChildrenWithinLimits'
      <3> SUFFICES ASSUME NEW q \in Conversations', Children(q)' # {}
                   PROVE  Depth(q)' < MaxDepth /\ Cardinality(Children(q)') <= MaxChildren[Depth(q)']
        BY DEF ChildrenWithinLimits
      <3>1. q \in Conversations
        BY <2>4, <2>7
      <3>2. CASE q = p
        <4>1. Children(q)' = {d \in Child : parent'[d] = p}
          BY <3>2 DEF Children
        <4>2. Cardinality(Children(q)') = Cardinality(Children(p)) + 1
          BY <4>1, <2>10, Zenon
        <4>3. Depth(q)' = Depth(p)
          BY <3>1, <3>2, <2>6, Zenon
        <4> HIDE DEF p
        <4> QED
          BY <4>2, <4>3, <2>10, <2>11, <2>12
      <3>3. CASE q # p
        BY <3>1, <3>3, <2>6, <2>8 DEF TreeInv, TreeWithinLimits
      <3> QED
        BY <3>2, <3>3
    <2>14. RoomForStart'
      BY <2>3, <2>5, <2>11 DEF RoomForStart
    <2>15. TreeWithinLimits'
      BY <2>3, <2>13 DEF TreeInv, TreeWithinLimits, ChildrenWithinLimits
    <2> QED
      BY <1>0, <2>14, <2>15 DEF TreeInv
  <1>4. ASSUME NEW s \in Call, StartJob(s) PROVE TreeInv'
    <2> DEFINE c == child[s]
    <2>1. calls[s] = "created" /\ parent' = parent /\ c \in Child /\ Cardinality(Active) < MaxAlive
      BY <1>0, <1>4 DEF StartJob, ShapeInv, StartsUnderLock, Made, TreeInv, RoomForStart
    <2>2. job' = [job EXCEPT ![c] = "queued"]
      BY <1>4 DEF StartJob
    <2>3. \A t \in Call : calls'[t] \notin {"counted", "created"}
      BY <1>0, <1>4 DEF StartJob, Ends, ShapeInv, StartsUnderLock, TypeOK
    <2>4. Active \in SUBSET Child /\ Active' = Active \union {c}
      BY <1>0, <2>1, <2>2 DEF Active, TypeOK
    <2>5. Cardinality(Active') <= MaxAlive
      <3>1. IsFiniteSet(Active) /\ Cardinality(Active) \in Nat
        BY <2>4, Finite
      <3>2. Cardinality(Active \union {c}) = IF c \in Active THEN Cardinality(Active) ELSE Cardinality(Active) + 1
        BY <3>1, FS_AddElement
      <3> QED
        BY <2>1, <2>4, <3>1, <3>2, SubSessionsAssumption
    <2>6. RoomForStart'
      BY <2>3 DEF RoomForStart
    <2>7. ChildrenWithinLimits'
      BY <2>1, SameRows DEF TreeInv, TreeWithinLimits, ChildrenWithinLimits
    <2> QED
      BY <1>0, <2>5, <2>6, <2>7 DEF TreeInv, TreeWithinLimits, ChildrenWithinLimits
  <1>5. ASSUME NEW s \in Call, StartCut(s) PROVE TreeInv'
    BY <1>0, <1>5, QuietStep DEF StartCut, Ends, Active, TypeOK
  <1>6. ASSUME NEW c \in Child, GetSlot(c) PROVE TreeInv'
    BY <1>0, <1>6, QuietStep DEF GetSlot, Active, TypeOK
  <1>7. ASSUME NEW c \in Child, BeforeModel(c) PROVE TreeInv'
    BY <1>0, <1>7, QuietStep DEF BeforeModel, Active
  <1>8. ASSUME NEW c \in Child, CheckTreeSpend(c) PROVE TreeInv'
    BY <1>0, <1>8, QuietStep DEF CheckTreeSpend, Active
  <1>9. ASSUME NEW c \in Child, NEW price \in 0 .. MaxPrice, Respond(c, price) PROVE TreeInv'
    BY <1>0, <1>9, QuietStep DEF Respond, Active
  <1>10. ASSUME NEW c \in Child, AroundTool(c) PROVE TreeInv'
    BY <1>0, <1>10, QuietStep DEF AroundTool, Active
  <1>11. ASSUME NEW c \in Child, RunEnds(c) PROVE TreeInv'
    BY <1>0, <1>11, QuietStep DEF RunEnds, Active, TypeOK
  <1>12. ASSUME NEW c \in Child, StopQueued(c) PROVE TreeInv'
    BY <1>0, <1>12, QuietStep DEF StopQueued, Active, TypeOK
  <1>13. CASE Restart
    BY <1>0, <1>13, QuietStep DEF Restart, Active, TypeOK
  <1>14. CASE UNCHANGED vars
    BY <1>0, <1>14, QuietStep DEF vars, Active
  <1> QED
    BY <1>1, <1>2, <1>3, <1>4, <1>5, <1>6, <1>7, <1>8, <1>9, <1>10, <1>11, <1>12, <1>13, <1>14 DEF Next

\* However starts of one tree race, are cut off or are repeated after a restart, no
\* conversation has more children than its layer allows, nobody on the last layer has
\* any, and no more jobs are alive than one tree may have (start and its lock).
THEOREM TreesStayWithinLimits == Spec => []TreeWithinLimits
  <1>1. Init => TreeInv
    <2> SUFFICES ASSUME Init PROVE TreeInv
      OBVIOUS
    <2>1. ShapeInv
      BY SubSessionsAssumption DEF Init, ShapeInv, TypeOK, StartsUnderLock, Made, Conversations
    <2>2. RoomForStart
      BY DEF Init, RoomForStart
    <2>3. \A p \in Conversations : Children(p) = {}
      BY SubSessionsAssumption DEF Init, Conversations, Made, Children
    <2>4. Active = {}
      BY DEF Init, Active
    <2>5. Cardinality(Active) = 0
      BY <2>4, FS_EmptySet
    <2> QED
      BY <2>1, <2>2, <2>3, <2>5, SubSessionsAssumption DEF TreeInv, TreeWithinLimits
  <1>2. TreeInv => TreeWithinLimits
    BY DEF TreeInv
  <1> QED
    BY <1>1, <1>2, TreeStep, PTL DEF Spec

-----------------------------------------------------------------------------
(* What a tree spends. *)

\* What a run has not saved is at most one response, a request goes out on a saved
\* snapshot, a sub-session that never ran has spent nothing, and runs share the slots.
SavesBeforeItAsks ==
    /\ \A c \in Child : usd[c] - saved[c] \in 0 .. MaxPrice
    /\ \A c \in Child : step[c] \in {"saved", "sent"} => saved[c] = usd[c] /\ job[c] = "running"
    /\ \A c \in Child : job[c] \in {"none", "queued"} => saved[c] = 0 /\ usd[c] = 0
    /\ Cardinality(Running) <= MaxConcurrent

\* What the rows say of a sub-session, with what its run may still add to it without
\* another look at the tree: its unsaved response, or the one it is waiting for.
Due == [c \in Child |->
          saved[c] + IF job[c] = "running" THEN IF step[c] = "sent" THEN MaxPrice ELSE usd[c] - saved[c] ELSE 0]

\* The limit, overshot by one response of each run.
Overshot == Limit - 1 + MaxConcurrent * MaxPrice

SpendInv == ShapeInv /\ SavesBeforeItAsks /\ Sum(Due, Child) <= Overshot

\* The numbers involved.
LEMMA Numbers ==
    /\ Limit \in Nat /\ Limit >= 1 /\ MaxPrice \in Nat /\ MaxConcurrent \in Nat
    /\ MaxConcurrent * MaxPrice \in Nat /\ Overshot \in Nat
  <1>1. \A m, n \in Nat : m * n \in Nat
    OBVIOUS
  <1>2. \A m, n \in Nat \ {0} : m * n >= 1
    OBVIOUS
  <1>3. Limit \in Nat /\ Limit >= 1
    BY <1>1, <1>2, SubSessionsAssumption DEF Limit
  <1>4. MaxPrice \in Nat /\ MaxConcurrent \in Nat /\ MaxConcurrent * MaxPrice \in Nat
    BY <1>1, SubSessionsAssumption
  <1> QED
    BY <1>3, <1>4 DEF Overshot

\* What is due is a natural number.
LEMMA DueType ==
    ASSUME TypeOK, SavesBeforeItAsks
    PROVE  \A c \in Child : Due[c] \in Nat
  BY Numbers DEF TypeOK, SavesBeforeItAsks, Due

\* A step under which nothing more is due anywhere keeps the bound.
LEMMA NoMoreDue ==
    ASSUME SpendInv, ShapeInv', SavesBeforeItAsks', \A c \in Child : Due'[c] <= Due[c]
    PROVE  SpendInv'
  <1>1. \A c \in Child : Due[c] \in Int
    BY DueType DEF SpendInv, ShapeInv
  <1>2. \A c \in Child : Due'[c] \in Int
    BY Numbers DEF TypeOK, SavesBeforeItAsks, Due, ShapeInv
  <1>3. Sum(Due', Child) <= Sum(Due, Child)
    BY <1>1, <1>2, SumLeq, SubSessionsAssumption
  <1>4. Sum(Due', Child) \in Int /\ Sum(Due, Child) \in Int
    BY <1>1, <1>2, SumType, SubSessionsAssumption
  <1>5. Sum(Due', Child) <= Overshot
    BY <1>3, <1>4, Numbers DEF SpendInv
  <1> QED
    BY <1>5 DEF SpendInv, Overshot, Limit

\* A request goes out below the limit: then everything saved is below it, and each of
\* the runs owes one response at most.
LEMMA RequestWithinLimit ==
    ASSUME SpendInv, ShapeInv', SavesBeforeItAsks', NEW c \in Child, CheckTreeSpend(c)
    PROVE  SpendInv'
  <1> DEFINE K == [d \in Child |-> IF d \in Running THEN MaxPrice ELSE 0]
             H == [d \in Child |-> saved[d] + K[d]]
  <1>1. \A d \in Child : saved[d] \in Nat /\ K[d] \in Nat /\ H[d] = saved[d] + K[d]
    BY Numbers DEF SpendInv, ShapeInv, TypeOK
  <1>2. \A d \in Child : Due'[d] \in Int /\ Due'[d] <= H[d]
    BY Numbers DEF CheckTreeSpend, SpendInv, SavesBeforeItAsks, ShapeInv, TypeOK, Due, Running
  <1>3. Sum(saved, Child) = Sum(saved, Made)
    <2>1. Made \in SUBSET Child /\ \A d \in Child \ Made : saved[d] = 0
      BY DEF SpendInv, ShapeInv, StartsUnderLock, SavesBeforeItAsks, Made
    <2> QED
      BY <1>1, <2>1, SumWithin, SubSessionsAssumption
  <1>4. Running \in SUBSET Child /\ IsFiniteSet(Running) /\ Cardinality(Running) \in Nat
    BY Finite DEF Running
  <1>5. Sum(K, Child) = Sum(K, Running)
    <2>1. \A d \in Child \ Running : K[d] = 0
      OBVIOUS
    <2> HIDE DEF K
    <2> QED
      BY <1>1, <1>4, <2>1, SumWithin, SubSessionsAssumption
  <1>6. Sum(K, Running) = Cardinality(Running) * MaxPrice
    <2>1. \A d \in Running : K[d] = MaxPrice
      BY <1>4
    <2> HIDE DEF K
    <2>2. MaxPrice \in Nat
      BY SubSessionsAssumption
    <2>3. \A T \in SUBSET Running : Sum(K, T) = Cardinality(T) * MaxPrice
      BY <1>4, <2>1, <2>2, SumConstant
    <2>4. Running \in SUBSET Running
      OBVIOUS
    <2> QED
      BY <2>3, <2>4, Zenon
  <1>7. Cardinality(Running) * MaxPrice <= MaxConcurrent * MaxPrice
    <2>1. Cardinality(Running) <= MaxConcurrent
      BY DEF SpendInv, SavesBeforeItAsks
    <2>2. ASSUME NEW k \in Nat, NEW m \in Nat, NEW n \in Nat, k <= m PROVE k * n <= m * n
      <3>1. PICK j \in Nat : m = k + j
        BY <2>2
      <3>2. m * n = k * n + j * n
        BY <3>1
      <3>3. j * n \in Nat /\ k * n \in Nat
        OBVIOUS
      <3> QED
        BY <3>2, <3>3
    <2> QED
      BY <1>4, <2>1, <2>2, Numbers
  <1> HIDE DEF K
  <1>8. Sum(H, Child) = Sum(saved, Child) + Sum(K, Child)
    <2> HIDE DEF H
    <2>1. \A d \in Child : saved[d] \in Int /\ K[d] \in Int /\ H[d] = saved[d] + K[d]
      BY <1>1
    <2> QED
      BY <2>1, SumAdd, SubSessionsAssumption
  <1> HIDE DEF H
  <1>9. Sum(Due', Child) <= Sum(H, Child)
    <2>1. \A d \in Child : Due'[d] \in Int /\ H[d] \in Int /\ Due'[d] <= H[d]
      BY <1>1, <1>2
    <2> QED
      BY <2>1, SumLeq, SubSessionsAssumption
  <1>10. Sum(Due', Child) \in Int /\ Sum(H, Child) \in Int /\ Sum(saved, Child) \in Int /\ Sum(K, Child) \in Int
    <2>1. \A d \in Child : Due'[d] \in Int /\ H[d] \in Int /\ saved[d] \in Int /\ K[d] \in Int
      BY <1>1, <1>2
    <2> QED
      BY <2>1, SumType, SubSessionsAssumption
  <1>11. Sum(saved, Made) < Limit
    BY DEF CheckTreeSpend, TreeSpend
  <1>12. Sum(Due', Child) <= Overshot
    <2>1. Sum(saved, Child) < Limit /\ Sum(K, Child) <= MaxConcurrent * MaxPrice
      BY <1>3, <1>5, <1>6, <1>7, <1>11
    <2>2. \A a, b, d, e, k, m \in Int : a <= b /\ b = d + e /\ d < k /\ e <= m => a <= k - 1 + m
      OBVIOUS
    <2> QED
      BY <2>1, <2>2, <1>8, <1>9, <1>10, Numbers DEF Overshot
  <1> QED
    BY <1>12 DEF SpendInv, Overshot, Limit

\* Every step keeps the bound.
LEMMA SpendStep == SpendInv /\ [Next]_vars => SpendInv'
  <1> SUFFICES ASSUME SpendInv, [Next]_vars PROVE SpendInv'
    OBVIOUS
  <1>0. ShapeInv /\ ShapeInv' /\ TypeOK /\ TypeOK' /\ SavesBeforeItAsks
    BY ShapeStep DEF SpendInv, ShapeInv
  <1>00. \A S \in SUBSET Running : Cardinality(S) <= MaxConcurrent
    <2>1. Running \in SUBSET Child
      BY DEF Running
    <2>2. Cardinality(Running) \in Nat /\ \A S \in SUBSET Running : Cardinality(S) \in Nat /\ Cardinality(S) <= Cardinality(Running)
      BY <2>1, Finite
    <2> QED
      BY <1>0, <2>2, Numbers DEF SavesBeforeItAsks
  <1>1. ASSUME UNCHANGED <<saved, job, step, usd>> PROVE SpendInv'
    <2>1. SavesBeforeItAsks'
      BY <1>0, <1>1 DEF SavesBeforeItAsks, Running
    <2>2. Due' = Due
      BY <1>1 DEF Due
    <2>3. \A c \in Child : Due'[c] <= Due[c]
      BY <2>2, <1>0, DueType
    <2> QED
      BY <1>0, <2>1, <2>3, NoMoreDue
  <1>4. ASSUME NEW s \in Call, StartJob(s) PROVE SpendInv'
    <2>1. child[s] \in Child /\ job[child[s]] = "none"
      BY <1>0, <1>4 DEF StartJob, ShapeInv, StartsUnderLock, Made
    <2>2. job' = [job EXCEPT ![child[s]] = "queued"] /\ UNCHANGED <<saved, step, usd>>
      BY <1>4 DEF StartJob
    <2>3. Running' = Running
      BY <1>0, <2>1, <2>2 DEF Running, TypeOK
    <2>4. SavesBeforeItAsks'
      BY <1>0, <2>1, <2>2, <2>3 DEF SavesBeforeItAsks, TypeOK
    <2>5. \A c \in Child : Due'[c] <= Due[c]
      BY <1>0, <2>1, <2>2, Numbers DEF Due, TypeOK
    <2> QED
      BY <1>0, <2>4, <2>5, NoMoreDue
  <1>6. ASSUME NEW c \in Child, GetSlot(c) PROVE SpendInv'
    <2>1. job[c] = "queued" /\ Cardinality(Running) < MaxConcurrent
      BY <1>6 DEF GetSlot
    <2>2. job' = [job EXCEPT ![c] = "running"] /\ UNCHANGED <<saved, step, usd>>
      BY <1>6 DEF GetSlot
    <2>3. Running' = Running \union {c} /\ c \notin Running /\ Running \in SUBSET Child
      BY <1>0, <2>1, <2>2 DEF Running, TypeOK
    <2>4. Cardinality(Running') <= MaxConcurrent
      <3>1. Cardinality(Running \union {c}) = Cardinality(Running) + 1 /\ Cardinality(Running) \in Nat
        BY <2>3, Finite, FS_AddElement
      <3> QED
        BY <2>1, <2>3, <3>1, Numbers
    <2>5. SavesBeforeItAsks'
      BY <1>0, <2>1, <2>2, <2>4 DEF SavesBeforeItAsks, TypeOK
    <2>6. \A d \in Child : Due'[d] <= Due[d]
      BY <1>0, <2>1, <2>2, Numbers DEF Due, TypeOK, SavesBeforeItAsks
    <2> QED
      BY <1>0, <2>5, <2>6, NoMoreDue
  <1>7. ASSUME NEW c \in Child, BeforeModel(c) PROVE SpendInv'
    <2>1. Running' = Running
      BY <1>7 DEF BeforeModel, Running
    <2>2. SavesBeforeItAsks'
      BY <1>0, <1>7, <2>1, Numbers DEF SavesBeforeItAsks, TypeOK, BeforeModel
    <2>3. \A d \in Child : Due'[d] <= Due[d]
      BY <1>0, <1>7, Numbers DEF Due, TypeOK, SavesBeforeItAsks, BeforeModel
    <2> QED
      BY <1>0, <2>2, <2>3, NoMoreDue
  <1>8. ASSUME NEW c \in Child, CheckTreeSpend(c) PROVE SpendInv'
    <2>1. Running' = Running
      BY <1>8 DEF CheckTreeSpend, Running
    <2>2. SavesBeforeItAsks'
      BY <1>0, <1>8, <2>1 DEF SavesBeforeItAsks, TypeOK, CheckTreeSpend
    <2> QED
      BY <1>0, <1>8, <2>2, RequestWithinLimit
  <1>9. ASSUME NEW c \in Child, NEW price \in 0 .. MaxPrice, Respond(c, price) PROVE SpendInv'
    <2>1. Running' = Running
      BY <1>9 DEF Respond, Running
    <2>2. SavesBeforeItAsks'
      BY <1>0, <1>9, <2>1, Numbers DEF SavesBeforeItAsks, TypeOK, Respond
    <2>3. \A d \in Child : Due'[d] <= Due[d]
      BY <1>0, <1>9, Numbers DEF Due, TypeOK, SavesBeforeItAsks, Respond
    <2> QED
      BY <1>0, <2>2, <2>3, NoMoreDue
  <1>10. ASSUME NEW c \in Child, AroundTool(c) PROVE SpendInv'
    <2>1. Running' = Running
      BY <1>10 DEF AroundTool, Running
    <2>2. SavesBeforeItAsks'
      BY <1>0, <1>10, <2>1, Numbers DEF SavesBeforeItAsks, TypeOK, AroundTool
    <2>3. \A d \in Child : Due'[d] <= Due[d]
      BY <1>0, <1>10, Numbers DEF Due, TypeOK, SavesBeforeItAsks, AroundTool
    <2> QED
      BY <1>0, <2>2, <2>3, NoMoreDue
  <1>11. ASSUME NEW c \in Child, RunEnds(c) PROVE SpendInv'
    <2>1. Running' \in SUBSET Running
      BY <1>0, <1>11 DEF RunEnds, Running, TypeOK
    <2>2. SavesBeforeItAsks'
      BY <1>0, <1>00, <1>11, <2>1, Numbers DEF SavesBeforeItAsks, TypeOK, RunEnds
    <2>3. \A d \in Child : Due'[d] <= Due[d]
      BY <1>0, <1>11, Numbers DEF Due, TypeOK, SavesBeforeItAsks, RunEnds
    <2> QED
      BY <1>0, <2>2, <2>3, NoMoreDue
  <1>12. ASSUME NEW c \in Child, StopQueued(c) PROVE SpendInv'
    <2>1. Running' = Running
      BY <1>0, <1>12 DEF StopQueued, Running, TypeOK
    <2>2. SavesBeforeItAsks'
      BY <1>0, <1>12, <2>1 DEF SavesBeforeItAsks, TypeOK, StopQueued
    <2>3. \A d \in Child : Due'[d] <= Due[d]
      BY <1>0, <1>12, Numbers DEF Due, TypeOK, SavesBeforeItAsks, StopQueued
    <2> QED
      BY <1>0, <2>2, <2>3, NoMoreDue
  <1>13. CASE Restart
    <2>1. Running' = {}
      BY <1>0, <1>13 DEF Restart, Running, Active, TypeOK
    <2>2. SavesBeforeItAsks'
      BY <1>0, <1>13, <2>1, FS_EmptySet, Numbers DEF SavesBeforeItAsks, TypeOK, Restart, Active
    <2>3. \A d \in Child : Due'[d] <= Due[d]
      BY <1>0, <1>13, Numbers DEF Due, TypeOK, SavesBeforeItAsks, Restart, Active
    <2> QED
      BY <1>0, <2>2, <2>3, NoMoreDue
  <1>14. ASSUME NEW s \in Call, \/ \E p \in Conversations : CallStart(s, p)
                                \/ Count(s) \/ StartCut(s) \/ \E c \in Child : CreateChild(s, c)
         PROVE  SpendInv'
    BY <1>14, <1>1 DEF CallStart, Count, StartCut, CreateChild
  <1>15. CASE UNCHANGED vars
    BY <1>15, <1>1 DEF vars
  <1> QED
    BY <1>4, <1>6, <1>7, <1>8, <1>9, <1>10, <1>11, <1>12, <1>13, <1>14, <1>15 DEF Next

\* Everything spent is what the rows say, what is due beyond it, and what ended runs
\* never saved.
LEMMA SpentIsDueOrLost ==
    ASSUME SpendInv
    PROVE  Spent - Lost <= Overshot
  <1> DEFINE F == [c \in Child |-> usd[c] - saved[c]]
             L == [c \in Child |-> IF c \in Running THEN 0 ELSE usd[c] - saved[c]]
             H == [c \in Child |-> Due[c] + L[c]]
             E == Child \ Running
  <1>1. \A c \in Child : /\ usd[c] \in Int /\ F[c] \in Int /\ L[c] \in Int /\ Due[c] \in Int /\ H[c] \in Int
                          /\ H[c] = Due[c] + L[c]
    BY DueType DEF SpendInv, ShapeInv, TypeOK
  <1>2. \A c \in Child : usd[c] <= H[c]
    BY Numbers DEF SpendInv, ShapeInv, TypeOK, SavesBeforeItAsks, Due, Running
  <1>3. \A c \in E : L[c] = F[c]
    OBVIOUS
  <1>4. \A c \in Child \ E : L[c] = 0
    OBVIOUS
  <1>5. E \in SUBSET Child /\ IsFiniteSet(E) /\ IsFiniteSet(Child) /\ Child \in SUBSET Child /\ E \in SUBSET E
    BY Finite, SubSessionsAssumption
  <1>6. Lost = Sum(F, E) /\ Spent = Sum(usd, Child)
    BY DEF Lost, Spent
  <1> HIDE DEF F, L, H, E
  <1>7. Sum(L, Child) = Sum(L, E)
    BY <1>1, <1>4, <1>5, SumWithin
  <1>8. Sum(L, E) \in Int /\ Sum(F, E) \in Int /\ Sum(usd, Child) \in Int /\ Sum(H, Child) \in Int /\ Sum(Due, Child) \in Int
    BY <1>1, <1>5, SumType
  <1>9. Sum(L, E) <= Sum(F, E)
    <2>1. \A c \in E : L[c] \in Int /\ F[c] \in Int /\ L[c] <= F[c]
      BY <1>1, <1>3, <1>5
    <2> QED
      BY <2>1, <1>5, SumLeq
  <1>10. Sum(usd, Child) <= Sum(H, Child)
    <2>1. \A c \in Child : usd[c] \in Int /\ H[c] \in Int /\ usd[c] <= H[c]
      BY <1>1, <1>2
    <2> QED
      BY <2>1, <1>5, SumLeq
  <1>11. Sum(H, Child) = Sum(Due, Child) + Sum(L, Child)
    <2>1. \A c \in Child : Due[c] \in Int /\ L[c] \in Int /\ H[c] = Due[c] + L[c]
      BY <1>1
    <2> QED
      BY <2>1, <1>5, SumAdd
  <1>12. Sum(Due, Child) <= Overshot
    BY DEF SpendInv
  <1>13. \A a, b, c, d, e, k \in Int : a <= b /\ b = c + d /\ d <= e /\ c <= k => a - e <= k
    OBVIOUS
  <1> QED
    BY <1>6, <1>7, <1>8, <1>9, <1>10, <1>11, <1>12, <1>13, Numbers

\* Runs that look at the tree's spending beside each other overshoot its limit by at
\* most one response each, and a run that dies takes at most its last response out of
\* the count, whatever the limits and the prices (check_tree_spend, model_request).
THEOREM TreeSpendIsBounded == Spec => []SpendIsBounded
  <1>1. Init => SpendInv
    <2> SUFFICES ASSUME Init PROVE SpendInv
      OBVIOUS
    <2>1. ShapeInv
      BY SubSessionsAssumption DEF Init, ShapeInv, TypeOK, StartsUnderLock, Made, Conversations
    <2>2. Running = {}
      BY DEF Init, Running
    <2>3. SavesBeforeItAsks
      BY <2>2, FS_EmptySet, Numbers DEF Init, SavesBeforeItAsks
    <2>4. \A c \in Child : Due[c] = 0
      BY DEF Init, Due
    <2>5. Sum(Due, Child) = Sum(Due, {}) /\ Sum(Due, {}) = 0
      <3>1. {} \in SUBSET Child /\ \A c \in Child \ {} : Due[c] = 0
        BY <2>4
      <3>2. \A c \in Child : Due[c] \in Int
        BY <2>4
      <3>3. Sum(Due, Child) = Sum(Due, {})
        BY <3>1, <3>2, SumWithin, SubSessionsAssumption
      <3> QED
        BY <3>3, SumFirst, FS_EmptySet
    <2> QED
      BY <2>1, <2>3, <2>5, Numbers DEF SpendInv
  <1>2. SpendInv => SpendIsBounded
    BY SpentIsDueOrLost DEF SpendInv, SavesBeforeItAsks, SpendIsBounded, Overshot
  <1> QED
    BY <1>1, <1>2, SpendStep, PTL DEF Spec
=============================================================================
