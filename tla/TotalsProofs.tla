--------------------------- MODULE TotalsProofs ---------------------------
(***************************************************************************)
(* How Total behaves for every finite set, however large: what a change of *)
(* one summand does to the sum, and that no summand of naturals exceeds    *)
(* it.  The sum is a fold whose recursion takes away a chosen element; its *)
(* lemmas are proved by looking at a smallest counterexample among the     *)
(* subsets, because strict inclusion is well-founded on them.              *)
(***************************************************************************)
EXTENDS Totals, FiniteSetTheorems, WellFoundedInduction, TLAPS

\* The element that the fold takes first.
Pick(T) == CHOOSE x \in T : TRUE

\* g sums f over every subset of S.
Folds(g, f, S) ==
  g = [T \in SUBSET S |->
         IF T = {} THEN 0 ELSE f[Pick(T)] + g[T \ {Pick(T)}]]

\* A non-empty set of subsets of a finite set has a smallest member.
LEMMA Smallest ==
  ASSUME NEW S, IsFiniteSet(S), NEW C, C \subseteq SUBSET S, C # {}
  PROVE  \E T \in C : \A U \in C : ~(U \subseteq T /\ U # T)
<1>1. IsWellFoundedOn(StrictSubsetOrdering(S), SUBSET S)
  BY FS_StrictSubsetOrderingWellFounded, FS_FiniteSubsetsOfFinite
<1>2. \E T \in C : \A U \in C : ~(<<U, T>> \in StrictSubsetOrdering(S))
  BY <1>1, WFMin
<1>3. QED
  BY <1>2 DEF StrictSubsetOrdering

\* The definition of Total, with the recursion named.
LEMMA TotalUnfolds ==
  ASSUME NEW S, NEW f
  PROVE  Total(f, S) = (CHOOSE g : Folds(g, f, S))[S]
BY DEF Total, MapThenSumSet, MapThenFoldSet, Folds, Pick

\* The element taken first is an element.
LEMMA PickIn == ASSUME NEW T, T # {} PROVE Pick(T) \in T
BY DEF Pick

\* The recursion, as the two equations it stands for.
LEMMA FoldsValue ==
  ASSUME NEW S, NEW f, NEW g, Folds(g, f, S), NEW T \in SUBSET S
  PROVE  /\ T = {} => g[T] = 0
         /\ T # {} => g[T] = f[Pick(T)] + g[T \ {Pick(T)}]
BY DEF Folds

\* Two such functions agree wherever both are defined.
LEMMA FoldsAgree ==
  ASSUME NEW S, IsFiniteSet(S), NEW f,
         NEW A \in SUBSET S, NEW B \in SUBSET S, NEW g, NEW h,
         Folds(g, f, A), Folds(h, f, B)
  PROVE  \A T \in SUBSET (A \cap B) : g[T] = h[T]
<1> DEFINE C == {T \in SUBSET (A \cap B) : g[T] # h[T]}
<1>1. SUFFICES ASSUME C # {} PROVE FALSE
  OBVIOUS
<1>2. PICK T \in C : \A U \in C : ~(U \subseteq T /\ U # T)
  <2>1. C \subseteq SUBSET S
    OBVIOUS
  <2> HIDE DEF C
  <2>2. QED
    BY <1>1, <2>1, Smallest
<1>3. T # {}
  BY FoldsValue
<1>4. Pick(T) \in T
  BY <1>3, PickIn
<1>5. T \ {Pick(T)} \notin C
  BY <1>2, <1>4
<1>6. g[T \ {Pick(T)}] = h[T \ {Pick(T)}]
  BY <1>5
<1>7. QED
  BY <1>3, <1>6, FoldsValue

\* Such a function exists for every subset of a finite set.
LEMMA FoldsExists ==
  ASSUME NEW S, IsFiniteSet(S), NEW f
  PROVE  \A T \in SUBSET S : \E g : Folds(g, f, T)
<1> DEFINE C == {T \in SUBSET S : ~\E g : Folds(g, f, T)}
<1>1. SUFFICES ASSUME C # {} PROVE FALSE
  OBVIOUS
<1>2. PICK T \in C : \A U \in C : ~(U \subseteq T /\ U # T)
  <2>1. C \subseteq SUBSET S
    OBVIOUS
  <2> HIDE DEF C
  <2>2. QED
    BY <1>1, <2>1, Smallest
<1>3. ASSUME NEW U \in SUBSET T, U # T
      PROVE  Folds(CHOOSE g : Folds(g, f, U), f, U)
  BY <1>2, <1>3
<1> DEFINE G == [U \in SUBSET T |->
                   IF U = {} THEN 0
                   ELSE f[Pick(U)] + Total(f, U \ {Pick(U)})]
<1>4. ASSUME NEW U \in SUBSET T, U # {}
      PROVE  G[U \ {Pick(U)}] = Total(f, U \ {Pick(U)})
  <2> DEFINE V == U \ {Pick(U)}
             g == CHOOSE g : Folds(g, f, V)
             W == V \ {Pick(V)}
             h == CHOOSE h : Folds(h, f, W)
  <2>1. V \in SUBSET T /\ V # T /\ Pick(U) \in U
    BY <1>4, PickIn
  <2>2. Folds(g, f, V)
    BY <2>1, <1>3
  <2>3. Total(f, V) = g[V]
    BY TotalUnfolds
  <2>4. CASE V = {}
    <3>1. g[V] = 0
      <4> HIDE DEF g, V
      <4> QED BY <2>2, <2>4, FoldsValue
    <3>2. G[V] = 0
      BY <2>1, <2>4
    <3>3. QED
      BY <2>3, <3>1, <3>2
  <2>5. CASE V # {}
    <3>1. W \in SUBSET T /\ W # T /\ W \in SUBSET V
      BY <2>1
    <3>2. Folds(h, f, W)
      BY <3>1, <1>3
    <3>3. g[W] = h[W]
      <4>1. T \in SUBSET S /\ V \in SUBSET S /\ W \in SUBSET S
        BY <2>1, <3>1
      <4>2. \A X \in SUBSET (V \cap W) : g[X] = h[X]
        <5> HIDE DEF g, h, V, W
        <5> QED BY <4>1, <2>2, <3>2, FoldsAgree
      <4>3. QED
        BY <4>2, <3>1
    <3>4. Total(f, W) = h[W]
      BY TotalUnfolds
    <3>5. g[V] = f[Pick(V)] + g[W]
      <4> HIDE DEF g, V
      <4> QED BY <2>2, <2>5, FoldsValue
    <3>6. G[V] = f[Pick(V)] + Total(f, W)
      BY <2>1, <2>5
    <3>7. QED
      BY <2>3, <3>3, <3>4, <3>5, <3>6
  <2>6. QED
    BY <2>4, <2>5
<1>5. Folds(G, f, T)
  BY <1>4 DEF Folds
<1>6. QED
  BY <1>5

\* One function gives the totals over all the subsets of a finite set.
LEMMA TotalFolds ==
  ASSUME NEW S, IsFiniteSet(S), NEW f
  PROVE  \E g : Folds(g, f, S) /\ \A T \in SUBSET S : Total(f, T) = g[T]
<1>1. PICK g : Folds(g, f, S)
  BY FoldsExists
<1>2. ASSUME NEW T \in SUBSET S PROVE Total(f, T) = g[T]
  <2> DEFINE h == CHOOSE h : Folds(h, f, T)
  <2>1. Folds(h, f, T)
    BY FoldsExists
  <2>2. \A X \in SUBSET (S \cap T) : g[X] = h[X]
    BY <1>1, <2>1, FoldsAgree
  <2>3. Total(f, T) = h[T]
    BY TotalUnfolds
  <2>4. QED
    BY <2>2, <2>3
<1>3. QED
  BY <1>1, <1>2

\* The empty sum is 0.
LEMMA TotalEmpty == ASSUME NEW f PROVE Total(f, {}) = 0
<1>1. IsFiniteSet({})
  BY FS_EmptySet
<1>2. PICK g : Folds(g, f, {}) /\ \A T \in SUBSET {} : Total(f, T) = g[T]
  BY <1>1, TotalFolds
<1>3. QED
  BY <1>2, FoldsValue

\* The chosen element can be split off a sum.
LEMMA TotalPick ==
  ASSUME NEW S, IsFiniteSet(S), NEW f, NEW T \in SUBSET S, T # {}
  PROVE  Total(f, T) = f[Pick(T)] + Total(f, T \ {Pick(T)})
<1>1. PICK g : Folds(g, f, S) /\ \A U \in SUBSET S : Total(f, U) = g[U]
  BY TotalFolds
<1>2. T \ {Pick(T)} \in SUBSET S
  OBVIOUS
<1>3. g[T] = f[Pick(T)] + g[T \ {Pick(T)}]
  BY <1>1, FoldsValue
<1>4. QED
  BY <1>1, <1>2, <1>3

\* Sums of integers are integers.
LEMMA TotalInt ==
  ASSUME NEW S, IsFiniteSet(S), NEW f, \A x \in S : f[x] \in Int
  PROVE  \A T \in SUBSET S : Total(f, T) \in Int
<1> DEFINE C == {T \in SUBSET S : Total(f, T) \notin Int}
<1>1. SUFFICES ASSUME C # {} PROVE FALSE
  OBVIOUS
<1>2. PICK T \in C : \A U \in C : ~(U \subseteq T /\ U # T)
  <2>1. C \subseteq SUBSET S
    OBVIOUS
  <2> HIDE DEF C
  <2>2. QED
    BY <1>1, <2>1, Smallest
<1>3. T # {}
  BY TotalEmpty
<1>4. Pick(T) \in T
  BY <1>3, PickIn
<1>5. Total(f, T \ {Pick(T)}) \in Int
  BY <1>2, <1>4
<1>6. Total(f, T) = f[Pick(T)] + Total(f, T \ {Pick(T)})
  BY <1>3, TotalPick
<1>7. QED
  BY <1>4, <1>5, <1>6

\* Sums of natural numbers are natural numbers.
LEMMA TotalNat ==
  ASSUME NEW S, IsFiniteSet(S), NEW f, \A x \in S : f[x] \in Nat
  PROVE  \A T \in SUBSET S : Total(f, T) \in Nat
<1> DEFINE C == {T \in SUBSET S : Total(f, T) \notin Nat}
<1>1. SUFFICES ASSUME C # {} PROVE FALSE
  OBVIOUS
<1>2. PICK T \in C : \A U \in C : ~(U \subseteq T /\ U # T)
  <2>1. C \subseteq SUBSET S
    OBVIOUS
  <2> HIDE DEF C
  <2>2. QED
    BY <1>1, <2>1, Smallest
<1>3. T # {}
  BY TotalEmpty
<1>4. Pick(T) \in T
  BY <1>3, PickIn
<1>5. Total(f, T \ {Pick(T)}) \in Nat
  BY <1>2, <1>4
<1>6. Total(f, T) = f[Pick(T)] + Total(f, T \ {Pick(T)})
  BY <1>3, TotalPick
<1>7. QED
  BY <1>4, <1>5, <1>6

\* Any element can be split off a sum of integers, in whatever order the fold
\* takes them.
LEMMA TotalSplit ==
  ASSUME NEW S, IsFiniteSet(S), NEW f, \A x \in S : f[x] \in Int
  PROVE  \A T \in SUBSET S : \A x \in T : Total(f, T) = f[x] + Total(f, T \ {x})
<1> DEFINE C == {T \in SUBSET S :
                   \E x \in T : Total(f, T) # f[x] + Total(f, T \ {x})}
<1>1. SUFFICES ASSUME C # {} PROVE FALSE
  OBVIOUS
<1>2. PICK T \in C : \A U \in C : ~(U \subseteq T /\ U # T)
  <2>1. C \subseteq SUBSET S
    OBVIOUS
  <2> HIDE DEF C
  <2>2. QED
    BY <1>1, <2>1, Smallest
<1>3. PICK x \in T : Total(f, T) # f[x] + Total(f, T \ {x})
  BY <1>2
<1> DEFINE c == Pick(T)
<1>4. c \in T /\ Total(f, T) = f[c] + Total(f, T \ {c})
  BY <1>3, PickIn, TotalPick
<1>5. x # c
  BY <1>3, <1>4
<1> HIDE DEF c
<1>6. T \ {c} \in SUBSET S /\ T \ {c} \notin C /\ T \ {x} \in SUBSET S /\ T \ {x} \notin C
  BY <1>2, <1>3, <1>4
<1>7. Total(f, T \ {c}) = f[x] + Total(f, (T \ {c}) \ {x})
  BY <1>5, <1>6
<1>8. Total(f, T \ {x}) = f[c] + Total(f, (T \ {x}) \ {c})
  BY <1>4, <1>5, <1>6
<1> DEFINE r == Total(f, (T \ {c}) \ {x})
<1>9. Total(f, T \ {x}) = f[c] + r
  <2>1. (T \ {c}) \ {x} = (T \ {x}) \ {c}
    OBVIOUS
  <2>2. QED
    BY <1>8, <2>1
<1>10. f[x] \in Int /\ f[c] \in Int /\ r \in Int
  BY <1>4, TotalInt
<1> HIDE DEF C, r
<1>11. Total(f, T) = f[c] + (f[x] + r)
  BY <1>4, <1>7 DEF r
<1>12. QED
  BY <1>3, <1>9, <1>10, <1>11

\* Equal summands have equal sums.
LEMMA TotalSame ==
  ASSUME NEW S, IsFiniteSet(S), NEW f, NEW g, \A x \in S : f[x] = g[x]
  PROVE  \A T \in SUBSET S : Total(f, T) = Total(g, T)
<1> DEFINE C == {T \in SUBSET S : Total(f, T) # Total(g, T)}
<1>1. SUFFICES ASSUME C # {} PROVE FALSE
  OBVIOUS
<1>2. PICK T \in C : \A U \in C : ~(U \subseteq T /\ U # T)
  <2>1. C \subseteq SUBSET S
    OBVIOUS
  <2> HIDE DEF C
  <2>2. QED
    BY <1>1, <2>1, Smallest
<1>3. T # {}
  BY TotalEmpty
<1>4. Pick(T) \in T
  BY <1>3, PickIn
<1>5. Total(f, T \ {Pick(T)}) = Total(g, T \ {Pick(T)})
  BY <1>2, <1>4
<1>6. QED
  BY <1>3, <1>4, <1>5, TotalPick

\* A sum of zeros is 0.
LEMMA TotalZero ==
  ASSUME NEW S, IsFiniteSet(S)
  PROVE  Total([x \in S |-> 0], S) = 0
<1> DEFINE f == [x \in S |-> 0]
           C == {T \in SUBSET S : Total(f, T) # 0}
<1>1. SUFFICES ASSUME C # {} PROVE FALSE
  OBVIOUS
<1>2. PICK T \in C : \A U \in C : ~(U \subseteq T /\ U # T)
  <2>1. C \subseteq SUBSET S
    OBVIOUS
  <2> HIDE DEF C
  <2>2. QED
    BY <1>1, <2>1, Smallest
<1>3. T # {}
  BY TotalEmpty
<1>4. Pick(T) \in T
  BY <1>3, PickIn
<1>5. f[Pick(T)] = 0 /\ Total(f, T \ {Pick(T)}) = 0
  BY <1>2, <1>4
<1> HIDE DEF f
<1>6. Total(f, T) = f[Pick(T)] + Total(f, T \ {Pick(T)})
  BY <1>3, TotalPick
<1>7. QED
  BY <1>2, <1>5, <1>6

\* Smaller summands have a smaller sum.
LEMMA TotalLess ==
  ASSUME NEW S, IsFiniteSet(S), NEW f, NEW g,
         \A x \in S : f[x] \in Nat /\ g[x] \in Nat /\ f[x] <= g[x]
  PROVE  Total(f, S) <= Total(g, S)
<1> DEFINE C == {T \in SUBSET S : ~(Total(f, T) <= Total(g, T))}
<1>1. SUFFICES ASSUME C # {} PROVE FALSE
  OBVIOUS
<1>2. PICK T \in C : \A U \in C : ~(U \subseteq T /\ U # T)
  <2>1. C \subseteq SUBSET S
    OBVIOUS
  <2> HIDE DEF C
  <2>2. QED
    BY <1>1, <2>1, Smallest
<1>3. T # {}
  BY TotalEmpty
<1>4. Pick(T) \in T
  BY <1>3, PickIn
<1> DEFINE p == Pick(T)
<1>5. Total(f, T \ {p}) <= Total(g, T \ {p})
  BY <1>2, <1>4
<1>6. Total(f, T) = f[p] + Total(f, T \ {p}) /\ Total(g, T) = g[p] + Total(g, T \ {p})
  BY <1>3, TotalPick
<1>7. Total(f, T \ {p}) \in Nat /\ Total(g, T \ {p}) \in Nat
  BY TotalNat
<1>8. f[p] \in Nat /\ g[p] \in Nat /\ f[p] <= g[p]
  BY <1>4
<1>9. Total(f, T) <= Total(g, T)
  <2> HIDE DEF p
  <2>1. QED
    BY <1>5, <1>6, <1>7, <1>8
<1>10. QED
  BY <1>2, <1>9

\* A ledger posting to one account changes the sum over all accounts by exactly
\* what it changes that account by (getSystemTotal, postEntries).
THEOREM TotalUpdate ==
  ASSUME NEW S, IsFiniteSet(S), NEW f, NEW g, NEW x \in S,
         \A y \in S : f[y] \in Int,
         g[x] \in Int,
         \A y \in S \ {x} : g[y] = f[y]
  PROVE  Total(g, S) = Total(f, S) - f[x] + g[x]
<1>1. /\ Total(f, S) = f[x] + Total(f, S \ {x})
  BY TotalSplit
<1>2. \A y \in S : g[y] \in Int
  OBVIOUS
<1>3. Total(g, S) = g[x] + Total(g, S \ {x})
  BY <1>2, TotalSplit
<1>4. Total(f, S \ {x}) = Total(g, S \ {x})
  <2>1. IsFiniteSet(S \ {x})
    BY FS_RemoveElement
  <2>2. QED
    BY <2>1, TotalSame
<1>5. Total(f, S \ {x}) \in Int /\ f[x] \in Int
  BY TotalInt
<1>6. QED
  BY <1>1, <1>3, <1>4, <1>5

\* No hold of a user exceeds the sum of the user's holds (getActiveHolds).
THEOREM TotalBounds ==
  ASSUME NEW S, IsFiniteSet(S), NEW f, NEW x \in S, \A y \in S : f[y] \in Nat
  PROVE  f[x] <= Total(f, S)
<1>1. Total(f, S) = f[x] + Total(f, S \ {x})
  BY TotalSplit
<1>2. Total(f, S \ {x}) \in Nat /\ f[x] \in Nat
  BY TotalNat
<1>3. QED
  BY <1>1, <1>2
=============================================================================
