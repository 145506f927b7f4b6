---------------------------- MODULE SumTheorems ----------------------------
(***************************************************************************)
(* Sums over a finite set, as Functions!SumFunction computes them: what    *)
(* the balances, prices and scores of this project are.  Induction is over *)
(* the subsets of the set, with the property given as the set of subsets   *)
(* that have it.                                                           *)
(***************************************************************************)
EXTENDS Integers, Functions, FiniteSetTheorems, TLAPS

\* If a subset has the property whenever its strict subsets do, every subset has it.
LEMMA SetInduction ==
  ASSUME NEW S, IsFiniteSet(S), NEW T,
         \A s \in SUBSET S : (\A u \in SUBSET s : u # s => u \in T) => s \in T
  PROVE  \A s \in SUBSET S : s \in T
<1> SUFFICES ASSUME NEW w \in SUBSET S, w \notin T PROVE FALSE
  OBVIOUS
<1> DEFINE Bad == {s \in SUBSET S : s \notin T}
<1>1. Bad \subseteq FiniteSubsetsOf(S) /\ Bad # {}
  BY FS_Subset DEF FiniteSubsetsOf
<1>2. PICK m \in Bad : \A y \in Bad : ~ (<<y, m>> \in StrictSubsetOrdering(S))
  <2>1. IsWellFoundedOn(StrictSubsetOrdering(S), FiniteSubsetsOf(S))
    BY FS_StrictSubsetOrderingWellFounded
  <2> HIDE DEF Bad
  <2> QED
    BY <1>1, <2>1, WFMin
<1>3. \A u \in SUBSET m : u # m => u \in T
  BY <1>2 DEF StrictSubsetOrdering
<1> QED
  BY <1>2, <1>3

\* A finite set of integers has a least element.
LEMMA LeastElement ==
  ASSUME NEW S, IsFiniteSet(S), S \subseteq Int, S # {}
  PROVE  \E m \in S : \A y \in S : m <= y
<1> DEFINE T == {s \in SUBSET S : s # {} => \E m \in s : \A y \in s : m <= y}
<1>1. ASSUME NEW s \in SUBSET S, \A u \in SUBSET s : u # s => u \in T
      PROVE  s \in T
  <2> SUFFICES ASSUME s # {} PROVE \E m \in s : \A y \in s : m <= y
    OBVIOUS
  <2>1. PICK x \in s : TRUE
    OBVIOUS
  <2>2. CASE s = {x}
    BY <2>2
  <2>3. CASE s # {x}
    <3>1. s \ {x} \in SUBSET s /\ s \ {x} # s /\ s \ {x} # {}
      BY <2>1, <2>3
    <3>2. PICK m \in s \ {x} : \A y \in s \ {x} : m <= y
      BY <1>1, <3>1
    <3>3. CASE m <= x
      BY <3>2, <3>3
    <3>4. CASE ~(m <= x)
      BY <3>2, <3>4
    <3> QED
      BY <3>3, <3>4
  <2> QED
    BY <2>2, <2>3
<1> HIDE DEF T
<1>2. \A s \in SUBSET S : s \in T
  BY <1>1, SetInduction
<1> QED
  BY <1>2 DEF T

-----------------------------------------------------------------------------
(* The recursion of the fold. *)

Pick(s) == CHOOSE x \in s : TRUE

\* g is the function the fold computes on the subsets of S
Folds(g, f, S) ==
  g = [s \in SUBSET S |-> IF s = {} THEN 0 ELSE LET x == CHOOSE x \in s : TRUE IN f[x] + g[s \ {x}]]

Fold(f, S) == CHOOSE g : Folds(g, f, S)

\* The library's sum is a fold that takes away one element at a time.
LEMMA SumIsFold == ASSUME NEW f, NEW S PROVE SumFunctionOnSet(f, S) = Fold(f, S)[S]
  BY DEF SumFunctionOnSet, FoldFunctionOnSet, MapThenFoldSet, Folds, Fold

\* The equation of such a fold, at each of its sets.
LEMMA FoldsAt ==
  ASSUME NEW f, NEW S, NEW g, Folds(g, f, S)
  PROVE  \A s \in SUBSET S : g[s] = IF s = {} THEN 0 ELSE f[Pick(s)] + g[s \ {Pick(s)}]
  BY DEF Folds, Pick

\* The element taken away is one of the set.
LEMMA PickIn == \A s : s # {} => Pick(s) \in s
  BY DEF Pick

\* Folds over two sets agree on the subsets the sets share.
LEMMA FoldsAgree ==
  ASSUME NEW f, NEW A, IsFiniteSet(A), NEW g, Folds(g, f, A), NEW B, NEW h, Folds(h, f, B)
  PROVE  \A u \in SUBSET A : u \in SUBSET B => g[u] = h[u]
<1> DEFINE T == {u \in SUBSET A : u \in SUBSET B => g[u] = h[u]}
<1>g. \A s \in SUBSET A : g[s] = IF s = {} THEN 0 ELSE f[Pick(s)] + g[s \ {Pick(s)}]
  BY FoldsAt
<1>h. \A s \in SUBSET B : h[s] = IF s = {} THEN 0 ELSE f[Pick(s)] + h[s \ {Pick(s)}]
  BY FoldsAt
<1>1. ASSUME NEW s \in SUBSET A, \A u \in SUBSET s : u # s => u \in T
      PROVE  s \in T
  <2> SUFFICES ASSUME s \in SUBSET B PROVE g[s] = h[s]
    OBVIOUS
  <2>1. /\ g[s] = IF s = {} THEN 0 ELSE f[Pick(s)] + g[s \ {Pick(s)}]
        /\ h[s] = IF s = {} THEN 0 ELSE f[Pick(s)] + h[s \ {Pick(s)}]
    BY <1>g, <1>h
  <2>2. CASE s = {}
    BY <2>1, <2>2
  <2>3. CASE s # {}
    <3>1. s \ {Pick(s)} \in SUBSET s /\ s \ {Pick(s)} # s
      BY <2>3, PickIn
    <3>2. g[s \ {Pick(s)}] = h[s \ {Pick(s)}]
      BY <1>1, <3>1
    <3> QED
      BY <2>1, <2>3, <3>2
  <2> QED
    BY <2>2, <2>3
<1> HIDE DEF T
<1>2. \A s \in SUBSET A : s \in T
  BY <1>1, SetInduction
<1> QED
  BY <1>2 DEF T

\* The recursion has a solution on every finite set.
LEMMA FoldsExist == ASSUME NEW f, NEW S, IsFiniteSet(S) PROVE Folds(Fold(f, S), f, S)
<1> DEFINE T == {s \in SUBSET S : \E g : Folds(g, f, s)}
<1>1. ASSUME NEW s \in SUBSET S, \A u \in SUBSET s : u # s => u \in T
      PROVE  s \in T
  <2> DEFINE h == [u \in SUBSET s |-> IF u = {} THEN 0
                     ELSE f[Pick(u)] + Fold(f, u \ {Pick(u)})[u \ {Pick(u)}]]
  <2>1. \A u \in SUBSET s : u # s => Folds(Fold(f, u), f, u)
    BY <1>1 DEF Fold
  <2>2. ASSUME NEW w \in SUBSET s, w # s
        PROVE  h[w] = Fold(f, w)[w]
    <3>1. Folds(Fold(f, w), f, w)
      BY <2>1, <2>2
    <3>2. Fold(f, w)[w] = IF w = {} THEN 0 ELSE f[Pick(w)] + Fold(f, w)[w \ {Pick(w)}]
      BY <3>1, FoldsAt
    <3>3. CASE w = {}
      BY <3>2, <3>3
    <3>4. CASE w # {}
      <4> DEFINE v == w \ {Pick(w)}
      <4>1. v \in SUBSET s /\ v # s /\ v \in SUBSET w
        BY <2>2, <3>4, PickIn
      <4>2. Folds(Fold(f, v), f, v) /\ IsFiniteSet(v)
        BY <2>1, <4>1, FS_Subset
      <4>3. Fold(f, v)[v] = Fold(f, w)[v]
        BY <3>1, <4>1, <4>2, FoldsAgree
      <4> QED
        BY <3>2, <3>4, <4>3
    <3> QED
      BY <3>3, <3>4
  <2>3. ASSUME NEW u \in SUBSET s
        PROVE  h[u] = IF u = {} THEN 0 ELSE LET x == CHOOSE x \in u : TRUE IN f[x] + h[u \ {x}]
    <3>1. CASE u = {}
      BY <3>1
    <3>2. CASE u # {}
      <4>1. u \ {Pick(u)} \in SUBSET s /\ u \ {Pick(u)} # s
        BY <3>2, PickIn
      <4>2. h[u \ {Pick(u)}] = Fold(f, u \ {Pick(u)})[u \ {Pick(u)}]
        BY <2>2, <4>1
      <4>3. h[u] = f[Pick(u)] + Fold(f, u \ {Pick(u)})[u \ {Pick(u)}]
        BY <3>2
      <4> HIDE DEF h
      <4> QED
        BY <3>2, <4>2, <4>3 DEF Pick
    <3> QED
      BY <3>1, <3>2
  <2>4. h = [u \in SUBSET s |-> h[u]]
    OBVIOUS
  <2> HIDE DEF h
  <2>5. h = [u \in SUBSET s |-> IF u = {} THEN 0 ELSE LET x == CHOOSE x \in u : TRUE IN f[x] + h[u \ {x}]]
    BY <2>3, <2>4
  <2>6. Folds(h, f, s)
    BY <2>5 DEF Folds
  <2> QED
    BY <2>6
<1> HIDE DEF T
<1>2. \A s \in SUBSET S : s \in T
  BY <1>1, SetInduction
<1>3. \E g : Folds(g, f, S)
  BY <1>2 DEF T
<1> QED
  BY <1>3 DEF Fold

-----------------------------------------------------------------------------
(* What a sum is. *)

\* A sum takes off the element the fold picks.
LEMMA SumUnfold ==
  ASSUME NEW f, NEW S, IsFiniteSet(S)
  PROVE  SumFunctionOnSet(f, S) =
           IF S = {} THEN 0 ELSE f[Pick(S)] + SumFunctionOnSet(f, S \ {Pick(S)})
<1>1. Folds(Fold(f, S), f, S) /\ SumFunctionOnSet(f, S) = Fold(f, S)[S]
  BY FoldsExist, SumIsFold
<1>2. Fold(f, S)[S] = IF S = {} THEN 0 ELSE f[Pick(S)] + Fold(f, S)[S \ {Pick(S)}]
  BY <1>1, FoldsAt
<1>3. CASE S = {}
  BY <1>1, <1>2, <1>3
<1>4. CASE S # {}
  <2> DEFINE R == S \ {Pick(S)}
  <2>1. R \in SUBSET S /\ IsFiniteSet(R)
    BY FS_Subset
  <2>2. Folds(Fold(f, R), f, R) /\ SumFunctionOnSet(f, R) = Fold(f, R)[R]
    BY <2>1, FoldsExist, SumIsFold
  <2>3. Fold(f, R)[R] = Fold(f, S)[R]
    BY <1>1, <2>1, <2>2, FoldsAgree
  <2> QED
    BY <1>1, <1>2, <1>4, <2>2, <2>3
<1> QED
  BY <1>3, <1>4

\* A sum of integers is an integer.
LEMMA SumType ==
  ASSUME NEW S, IsFiniteSet(S), NEW f, \A x \in S : f[x] \in Int
  PROVE  \A s \in SUBSET S : SumFunctionOnSet(f, s) \in Int
<1> DEFINE T == {s \in SUBSET S : SumFunctionOnSet(f, s) \in Int}
<1>1. ASSUME NEW s \in SUBSET S, \A u \in SUBSET s : u # s => u \in T
      PROVE  s \in T
  <2>1. SumFunctionOnSet(f, s) =
          IF s = {} THEN 0 ELSE f[Pick(s)] + SumFunctionOnSet(f, s \ {Pick(s)})
    BY SumUnfold, FS_Subset
  <2>2. CASE s = {}
    BY <2>1, <2>2
  <2>3. CASE s # {}
    <3>1. s \ {Pick(s)} \in SUBSET s /\ s \ {Pick(s)} # s /\ Pick(s) \in S
      BY <2>3, PickIn
    <3>2. SumFunctionOnSet(f, s \ {Pick(s)}) \in Int
      BY <1>1, <3>1
    <3> QED
      BY <2>1, <2>3, <3>1, <3>2
  <2> QED
    BY <2>2, <2>3
<1> HIDE DEF T
<1>2. \A s \in SUBSET S : s \in T
  BY <1>1, SetInduction
<1> QED
  BY <1>2 DEF T

\* A sum takes off any element, whichever the fold picks first.
LEMMA SumRemove ==
  ASSUME NEW S, IsFiniteSet(S), NEW f, \A x \in S : f[x] \in Int
  PROVE  \A s \in SUBSET S : \A x \in s :
           SumFunctionOnSet(f, s) = f[x] + SumFunctionOnSet(f, s \ {x})
<1> DEFINE T == {s \in SUBSET S : \A x \in s :
                   SumFunctionOnSet(f, s) = f[x] + SumFunctionOnSet(f, s \ {x})}
<1>1. ASSUME NEW s \in SUBSET S, \A u \in SUBSET s : u # s => u \in T
      PROVE  s \in T
  <2> SUFFICES ASSUME NEW x \in s
               PROVE  SumFunctionOnSet(f, s) = f[x] + SumFunctionOnSet(f, s \ {x})
    OBVIOUS
  <2> DEFINE c == Pick(s)
  <2>1. c \in s /\ SumFunctionOnSet(f, s) = f[c] + SumFunctionOnSet(f, s \ {c})
    <3>1. IsFiniteSet(s) /\ s # {}
      BY FS_Subset
    <3> QED
      BY <3>1, PickIn, SumUnfold
  <2> HIDE DEF c
  <2>2. CASE x = c
    BY <2>1, <2>2
  <2>3. CASE x # c
    <3> DEFINE R == s \ {x, c}
    <3>1. /\ s \ {c} \in T /\ x \in s \ {c} /\ (s \ {c}) \ {x} = R
          /\ s \ {x} \in T /\ c \in s \ {x} /\ (s \ {x}) \ {c} = R
      BY <1>1, <2>1, <2>3
    <3>2. /\ SumFunctionOnSet(f, s \ {c}) = f[x] + SumFunctionOnSet(f, R)
          /\ SumFunctionOnSet(f, s \ {x}) = f[c] + SumFunctionOnSet(f, R)
      BY <3>1
    <3>3. f[x] \in Int /\ f[c] \in Int /\ SumFunctionOnSet(f, R) \in Int
      BY <2>1, SumType
    <3> HIDE DEF R
    <3> QED
      BY <2>1, <3>2, <3>3
  <2> QED
    BY <2>2, <2>3
<1> HIDE DEF T
<1>2. \A s \in SUBSET S : s \in T
  BY <1>1, SetInduction
<1> QED
  BY <1>2 DEF T

-----------------------------------------------------------------------------
(* How two sums compare. *)

\* Functions that agree on a set have one sum over it.
LEMMA SumSame ==
  ASSUME NEW S, IsFiniteSet(S), NEW f, NEW g, \A x \in S : f[x] = g[x]
  PROVE  \A s \in SUBSET S : SumFunctionOnSet(f, s) = SumFunctionOnSet(g, s)
<1> DEFINE T == {s \in SUBSET S : SumFunctionOnSet(f, s) = SumFunctionOnSet(g, s)}
<1>1. ASSUME NEW s \in SUBSET S, \A u \in SUBSET s : u # s => u \in T
      PROVE  s \in T
  <2>1. IsFiniteSet(s)
    BY FS_Subset
  <2>2. /\ SumFunctionOnSet(f, s) = IF s = {} THEN 0 ELSE f[Pick(s)] + SumFunctionOnSet(f, s \ {Pick(s)})
        /\ SumFunctionOnSet(g, s) = IF s = {} THEN 0 ELSE g[Pick(s)] + SumFunctionOnSet(g, s \ {Pick(s)})
    BY <2>1, SumUnfold
  <2>3. CASE s = {}
    BY <2>2, <2>3
  <2>4. CASE s # {}
    <3>1. s \ {Pick(s)} \in T /\ Pick(s) \in S
      BY <1>1, <2>4, PickIn
    <3> QED
      BY <2>2, <2>4, <3>1
  <2> QED
    BY <2>3, <2>4
<1> HIDE DEF T
<1>2. \A s \in SUBSET S : s \in T
  BY <1>1, SetInduction
<1> QED
  BY <1>2 DEF T

\* A sum of larger terms is larger.
LEMMA SumMonotone ==
  ASSUME NEW S, IsFiniteSet(S), NEW f, NEW g,
         \A x \in S : f[x] \in Int /\ g[x] \in Int /\ f[x] <= g[x]
  PROVE  \A s \in SUBSET S : SumFunctionOnSet(f, s) <= SumFunctionOnSet(g, s)
<1> DEFINE T == {s \in SUBSET S : SumFunctionOnSet(f, s) <= SumFunctionOnSet(g, s)}
<1>1. ASSUME NEW s \in SUBSET S, \A u \in SUBSET s : u # s => u \in T
      PROVE  s \in T
  <2>1. IsFiniteSet(s)
    BY FS_Subset
  <2>2. /\ SumFunctionOnSet(f, s) = IF s = {} THEN 0 ELSE f[Pick(s)] + SumFunctionOnSet(f, s \ {Pick(s)})
        /\ SumFunctionOnSet(g, s) = IF s = {} THEN 0 ELSE g[Pick(s)] + SumFunctionOnSet(g, s \ {Pick(s)})
    BY <2>1, SumUnfold
  <2>3. CASE s = {}
    BY <2>2, <2>3
  <2>4. CASE s # {}
    <3> DEFINE R == s \ {Pick(s)}
    <3>1. R \in T /\ Pick(s) \in S /\ R \in SUBSET S
      BY <1>1, <2>4, PickIn
    <3>2. SumFunctionOnSet(f, R) \in Int /\ SumFunctionOnSet(g, R) \in Int
      BY <3>1, SumType
    <3>3. SumFunctionOnSet(f, R) <= SumFunctionOnSet(g, R)
      BY <3>1
    <3>4. f[Pick(s)] \in Int /\ g[Pick(s)] \in Int /\ f[Pick(s)] <= g[Pick(s)]
      BY <3>1
    <3>5. /\ SumFunctionOnSet(f, s) = f[Pick(s)] + SumFunctionOnSet(f, R)
          /\ SumFunctionOnSet(g, s) = g[Pick(s)] + SumFunctionOnSet(g, R)
      BY <2>2, <2>4
    <3> HIDE DEF R
    <3>6. SumFunctionOnSet(f, s) <= SumFunctionOnSet(g, s)
      BY <3>2, <3>3, <3>4, <3>5
    <3> QED
      BY <3>6
  <2> QED
    BY <2>3, <2>4
<1> HIDE DEF T
<1>2. \A s \in SUBSET S : s \in T
  BY <1>1, SetInduction
<1> QED
  BY <1>2 DEF T

\* A sum of nothing but zeros is zero.
LEMMA SumZero ==
  ASSUME NEW S, IsFiniteSet(S), NEW f, \A x \in S : f[x] = 0
  PROVE  SumFunctionOnSet(f, S) = 0
<1> DEFINE T == {s \in SUBSET S : SumFunctionOnSet(f, s) = 0}
<1>1. ASSUME NEW s \in SUBSET S, \A u \in SUBSET s : u # s => u \in T
      PROVE  s \in T
  <2>1. SumFunctionOnSet(f, s) = IF s = {} THEN 0 ELSE f[Pick(s)] + SumFunctionOnSet(f, s \ {Pick(s)})
    BY SumUnfold, FS_Subset
  <2>2. CASE s = {}
    BY <2>1, <2>2
  <2>3. CASE s # {}
    <3>1. s \ {Pick(s)} \in T /\ Pick(s) \in S
      BY <1>1, <2>3, PickIn
    <3> QED
      BY <2>1, <2>3, <3>1
  <2> QED
    BY <2>2, <2>3
<1> HIDE DEF T
<1>2. \A s \in SUBSET S : s \in T
  BY <1>1, SetInduction
<1> QED
  BY <1>2 DEF T

\* A sum of naturals is a natural.
LEMMA SumNat ==
  ASSUME NEW S, IsFiniteSet(S), NEW f, \A x \in S : f[x] \in Nat
  PROVE  SumFunctionOnSet(f, S) \in Nat
<1> DEFINE zero == [x \in S |-> 0]
<1>1. \A x \in S : zero[x] \in Int /\ f[x] \in Int /\ zero[x] <= f[x]
  OBVIOUS
<1>2. SumFunctionOnSet(zero, S) = 0
  BY SumZero
<1> HIDE DEF zero
<1>3. SumFunctionOnSet(zero, S) <= SumFunctionOnSet(f, S) /\ SumFunctionOnSet(f, S) \in Int
  BY <1>1, SumMonotone, SumType
<1> QED
  BY <1>2, <1>3

\* Changing one term changes the sum by the difference.
LEMMA SumChange ==
  ASSUME NEW S, IsFiniteSet(S), NEW f \in [S -> Int], NEW g \in [S -> Int], NEW k \in S,
         \A x \in S : x # k => f[x] = g[x]
  PROVE  /\ SumFunction(f) \in Int /\ SumFunction(g) \in Int
         /\ SumFunction(g) = SumFunction(f) - f[k] + g[k]
<1> DEFINE R == S \ {k}
<1>1. SumFunction(f) = SumFunctionOnSet(f, S) /\ SumFunction(g) = SumFunctionOnSet(g, S)
  BY DEF SumFunction
<1>2. /\ SumFunctionOnSet(f, S) = f[k] + SumFunctionOnSet(f, R)
      /\ SumFunctionOnSet(g, S) = g[k] + SumFunctionOnSet(g, R)
  BY SumRemove
<1>3. SumFunctionOnSet(f, R) = SumFunctionOnSet(g, R)
  BY SumSame, FS_Subset
<1>4. SumFunctionOnSet(f, R) \in Int /\ f[k] \in Int /\ g[k] \in Int
  BY SumType
<1> HIDE DEF R
<1> QED
  BY <1>1, <1>2, <1>3, <1>4
============================================================================
