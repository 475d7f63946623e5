------------------------------ MODULE FiniteSums ------------------------------
(***************************************************************************)
(* Lemmas about SumFunctionOnSet, the sum of a function over a finite set: *)
(* the total of the sizes below a directory, which etcdsrv.Metadata and    *)
(* getMD add up, is such a sum.                                            *)
(*                                                                         *)
(* What is recursive is proved by way of a least counterexample: if the    *)
(* statement failed somewhere it would fail for some number, or some       *)
(* finite set, below which it holds, and that cannot be.                   *)
(***************************************************************************)
EXTENDS Integers, FiniteSets, Functions, FiniteSetTheorems, TLAPS

-----------------------------------------------------------------------------
(* Least counterexamples *)

\* A set of natural numbers that is not empty has a least member: for the loops
\* over keys, in which the least counterexample is a number of rounds.
LEMMA LeastNumber ==
  ASSUME NEW T, T \subseteq Nat, T # {}
  PROVE  \E m \in T : \A k \in T : m <= k
<1>1. PICK m \in T : \A k \in T : <<k, m>> \notin OpToRel(<, Nat)
  BY WFMin, NatLessThanWellFounded, Zenon
<1>2. \A k \in T : ~(k < m)
  BY <1>1, Zenon DEF OpToRel
<1> QED
  BY <1>2

\* Among subsets of a finite set, some are minimal: for the sums over keys, in
\* which the least counterexample is a set of keys.
LEMMA LeastSet ==
  ASSUME NEW S, IsFiniteSet(S), NEW T \in SUBSET (SUBSET S), T # {}
  PROVE  \E U \in T : \A V \in T : V \subseteq U => V = U
<1>1. T \subseteq FiniteSubsetsOf(S)
  BY FS_Subset DEF FiniteSubsetsOf
<1>2. PICK U \in T : \A V \in T : <<V, U>> \notin StrictSubsetOrdering(S)
  BY <1>1, WFMin, FS_StrictSubsetOrderingWellFounded, Zenon
<1> QED
  BY <1>1, <1>2 DEF StrictSubsetOrdering, FiniteSubsetsOf

-----------------------------------------------------------------------------
(* What defines a sum *)

\* The element that the sum over s takes next.
Pick(s) == CHOOSE x \in s : TRUE

\* h computes sums of f, for all sets in D.
Sums(h, f, D) ==
  h = [s \in D |-> IF s = {} THEN 0 ELSE f[Pick(s)] + h[s \ {Pick(s)}]]

\* The element taken next is in the set.
LEMMA PickIn == \A s : s # {} => Pick(s) \in s
BY DEF Pick

\* SumFunctionOnSet is the value of a function that computes sums, if there is one.
LEMMA SumFold ==
  ASSUME NEW f, NEW T
  PROVE  SumFunctionOnSet(f, T) = (CHOOSE h : Sums(h, f, SUBSET T))[T]
BY Zenon DEF SumFunctionOnSet, FoldFunctionOnSet, MapThenFoldSet, Sums, Pick

\* Two functions that compute sums agree where both are defined.
LEMMA SumsAgree ==
  ASSUME NEW f, NEW S, NEW T, IsFiniteSet(T), NEW g, NEW h,
         Sums(g, f, SUBSET S), Sums(h, f, SUBSET T), NEW U, U \subseteq S, U \subseteq T
  PROVE  g[U] = h[U]
<1> DEFINE Bad == {V \in SUBSET T : V \subseteq S /\ g[V] # h[V]}
<1>1. SUFFICES ASSUME U \in Bad PROVE FALSE
  OBVIOUS
<1>2. Bad \subseteq SUBSET T /\ \A V \in Bad : IsFiniteSet(V)
  BY FS_Subset
<1>3. PICK V \in Bad : \A W \in Bad : W \subseteq V => W = V
  <2>1. Bad \in SUBSET (SUBSET T) /\ Bad # {}
    BY <1>1
  <2> HIDE DEF Bad
  <2> QED
    BY <2>1, LeastSet
<1>4. V # {} => g[V \ {Pick(V)}] = h[V \ {Pick(V)}]
  <2>1. V # {} => V \ {Pick(V)} # V /\ V \ {Pick(V)} \subseteq V
    BY PickIn
  <2>2. V \ {Pick(V)} \in SUBSET T /\ V \ {Pick(V)} \subseteq S
    BY <1>3
  <2> QED
    BY <1>3, <2>1, <2>2
<1>5. V \in SUBSET S /\ V \in SUBSET T /\ g[V] # h[V]
  BY <1>3
<1>6. g[V] = IF V = {} THEN 0 ELSE f[Pick(V)] + g[V \ {Pick(V)}]
  BY <1>5 DEF Sums
<1>7. h[V] = IF V = {} THEN 0 ELSE f[Pick(V)] + h[V \ {Pick(V)}]
  BY <1>5 DEF Sums
<1> QED
  BY <1>4, <1>5, <1>6, <1>7

\* One step of the sum, if functions that compute sums exist for both sets.
LEMMA SumStep ==
  ASSUME NEW f, NEW T, IsFiniteSet(T), \E h : Sums(h, f, SUBSET T),
         T # {} => \E h : Sums(h, f, SUBSET (T \ {Pick(T)}))
  PROVE  SumFunctionOnSet(f, T) =
           IF T = {} THEN 0 ELSE f[Pick(T)] + SumFunctionOnSet(f, T \ {Pick(T)})
<1> DEFINE W == T \ {Pick(T)}
           g == CHOOSE h : Sums(h, f, SUBSET T)
           k == CHOOSE h : Sums(h, f, SUBSET W)
<1>1. Sums(g, f, SUBSET T)
  BY Zenon
<1>2. T # {} => Sums(k, f, SUBSET W)
  BY Zenon
<1>3. SumFunctionOnSet(f, T) = g[T] /\ SumFunctionOnSet(f, W) = k[W]
  BY SumFold, Zenon
<1> HIDE DEF g, k
<1>4. g[T] = IF T = {} THEN 0 ELSE f[Pick(T)] + g[W]
  BY <1>1 DEF Sums
<1>5. T # {} => g[W] = k[W]
  <2>1. IsFiniteSet(W)
    BY FS_RemoveElement
  <2>2. W \subseteq T /\ W \subseteq W
    OBVIOUS
  <2> HIDE DEF W
  <2> QED
    BY <1>1, <1>2, <2>1, <2>2, SumsAgree
<1> QED
  BY <1>3, <1>4, <1>5

\* For every finite set there is a function that computes its sums.
LEMMA SumsExist ==
  ASSUME NEW f, NEW S, IsFiniteSet(S)
  PROVE  \E h : Sums(h, f, SUBSET S)
<1> DEFINE Bad == {V \in SUBSET S : ~\E h : Sums(h, f, SUBSET V)}
<1>1. SUFFICES ASSUME S \in Bad PROVE FALSE
  OBVIOUS
<1>2. Bad \subseteq SUBSET S /\ \A V \in Bad : IsFiniteSet(V)
  BY FS_Subset
<1>3. PICK T \in Bad : \A W \in Bad : W \subseteq T => W = T
  <2>1. Bad \in SUBSET (SUBSET S) /\ Bad # {}
    BY <1>1
  <2> HIDE DEF Bad
  <2> QED
    BY <2>1, LeastSet
<1>4. \A W \in SUBSET T : W # T => \E h : Sums(h, f, SUBSET W)
  BY <1>3
<1> DEFINE h == [s \in SUBSET T |->
                   IF s = {} THEN 0 ELSE f[Pick(s)] + SumFunctionOnSet(f, s \ {Pick(s)})]
<1>5. ASSUME NEW s \in SUBSET T, s # {}
      PROVE  h[s \ {Pick(s)}] = SumFunctionOnSet(f, s \ {Pick(s)})
  <2> DEFINE W == s \ {Pick(s)}
  <2>1. W \in SUBSET T /\ W # T /\ IsFiniteSet(W)
    BY <1>2, <1>5, PickIn, FS_Subset
  <2>2. W \ {Pick(W)} \in SUBSET T /\ W \ {Pick(W)} # T
    BY <1>5, PickIn
  <2>3. h[W] = IF W = {} THEN 0 ELSE f[Pick(W)] + SumFunctionOnSet(f, W \ {Pick(W)})
    BY <2>1
  <2> HIDE DEF W, h
  <2>4. (\E g : Sums(g, f, SUBSET W)) /\ (\E g : Sums(g, f, SUBSET (W \ {Pick(W)})))
    BY <1>4, <2>1, <2>2
  <2>5. SumFunctionOnSet(f, W) =
          IF W = {} THEN 0 ELSE f[Pick(W)] + SumFunctionOnSet(f, W \ {Pick(W)})
    BY <2>1, <2>4, SumStep
  <2> QED
    BY <2>3, <2>5 DEF W
<1>6. Sums(h, f, SUBSET T)
  BY <1>5 DEF Sums
<1> QED
  BY <1>3, <1>6

-----------------------------------------------------------------------------
(* What sums are *)

\* The sum over no element, and over one more.
LEMMA SumUnfold ==
  ASSUME NEW f, NEW T, IsFiniteSet(T)
  PROVE  /\ SumFunctionOnSet(f, {}) = 0
         /\ T # {} => SumFunctionOnSet(f, T) = f[Pick(T)] + SumFunctionOnSet(f, T \ {Pick(T)})
<1>1. \A U : IsFiniteSet(U) => \E h : Sums(h, f, SUBSET U)
  BY SumsExist
<1>2. IsFiniteSet({}) /\ IsFiniteSet(T \ {Pick(T)})
  BY FS_EmptySet, FS_RemoveElement
<1> QED
  BY <1>1, <1>2, SumStep

\* A sum of natural numbers is one.
LEMMA SumType ==
  ASSUME NEW S, NEW f \in [S -> Nat], NEW T \in SUBSET S, IsFiniteSet(T)
  PROVE  SumFunctionOnSet(f, T) \in Nat
<1> DEFINE Bad == {V \in SUBSET T : SumFunctionOnSet(f, V) \notin Nat}
<1>1. SUFFICES ASSUME T \in Bad PROVE FALSE
  OBVIOUS
<1>2. Bad \subseteq SUBSET T /\ \A V \in Bad : IsFiniteSet(V)
  BY FS_Subset
<1>3. PICK V \in Bad : \A W \in Bad : W \subseteq V => W = V
  <2>1. Bad \in SUBSET (SUBSET T) /\ Bad # {}
    BY <1>1
  <2> HIDE DEF Bad
  <2> QED
    BY <2>1, LeastSet
<1>4. V # {}
  <2>1. SumFunctionOnSet(f, {}) = 0
    BY FS_EmptySet, SumUnfold
  <2>2. SumFunctionOnSet(f, V) \notin Nat
    BY <1>3, Zenon
  <2>3. 0 \in Nat
    OBVIOUS
  <2> QED
    BY <2>1, <2>2, <2>3, Zenon
<1>5. SumFunctionOnSet(f, V \ {Pick(V)}) \in Nat /\ f[Pick(V)] \in Nat
  BY <1>3, <1>4, PickIn
<1>6. SumFunctionOnSet(f, V) = f[Pick(V)] + SumFunctionOnSet(f, V \ {Pick(V)})
  BY <1>2, <1>4, SumUnfold
<1>7. SumFunctionOnSet(f, V) \in Nat
  BY <1>5, <1>6
<1> QED
  BY <1>3, <1>7

\* Whichever element is taken out, the sum is that much less.
LEMMA SumRemove ==
  ASSUME NEW S, NEW f \in [S -> Nat], NEW T \in SUBSET S, IsFiniteSet(T), NEW x \in T
  PROVE  SumFunctionOnSet(f, T) = f[x] + SumFunctionOnSet(f, T \ {x})
<1> DEFINE Sum(V) == SumFunctionOnSet(f, V)
           Bad == {V \in SUBSET T : \E y \in V : Sum(V) # f[y] + Sum(V \ {y})}
<1>1. SUFFICES ASSUME T \in Bad PROVE FALSE
  OBVIOUS
<1>2. Bad \subseteq SUBSET T /\ \A V \in Bad : IsFiniteSet(V)
  BY FS_Subset
<1>3. PICK V \in Bad : \A W \in Bad : W \subseteq V => W = V
  <2>1. Bad \in SUBSET (SUBSET T) /\ Bad # {}
    BY <1>1
  <2> HIDE DEF Bad
  <2> QED
    BY <2>1, LeastSet
<1>4. PICK y \in V : Sum(V) # f[y] + Sum(V \ {y})
  BY <1>3
<1> DEFINE p == Pick(V)
<1>5. p \in V /\ Sum(V) = f[p] + Sum(V \ {p})
  BY <1>2, <1>4, SumUnfold, PickIn
<1>6. p # y
  BY <1>4, <1>5
<1> HIDE DEF p
<1>7. Sum(V \ {p}) = f[y] + Sum((V \ {p}) \ {y})
  <2>1. V \ {p} \in SUBSET T /\ V \ {p} # V /\ V \ {p} \subseteq V /\ y \in V \ {p}
    BY <1>5, <1>6
  <2> QED
    BY <1>3, <2>1
<1>8. Sum(V \ {y}) = f[p] + Sum((V \ {y}) \ {p})
  <2>1. V \ {y} \in SUBSET T /\ V \ {y} # V /\ V \ {y} \subseteq V /\ p \in V \ {y}
    BY <1>5, <1>6
  <2> QED
    BY <1>3, <2>1
<1>9. (V \ {p}) \ {y} = (V \ {y}) \ {p}
  OBVIOUS
<1> DEFINE W == (V \ {y}) \ {p}
<1>10. Sum(W) \in Nat /\ f[p] \in Nat /\ f[y] \in Nat
  BY <1>2, <1>3, <1>4, <1>5, SumType, FS_Subset
<1> HIDE DEF Sum
<1> QED
  BY <1>4, <1>5, <1>7, <1>8, <1>9, <1>10
===============================================================================
