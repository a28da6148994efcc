----------------------------- MODULE FoldLemmas -----------------------------
EXTENDS Integers, FiniteSetsExt, FiniteSetTheorems, WellFoundedInduction, TLAPS

(* Induction over the finite subsets of a set: a set of them that is not    *)
(* empty has a smallest one.                                                *)
LEMMA SmallestSubset ==
  ASSUME NEW S, IsFiniteSet(S), NEW Bad \in SUBSET (SUBSET S), Bad # {}
  PROVE  \E T \in Bad : \A U \in Bad : U \subseteq T => U = T
<1>1. IsWellFoundedOn(StrictSubsetOrdering(S), FiniteSubsetsOf(S))
  BY FS_StrictSubsetOrderingWellFounded
<1>2. Bad \subseteq FiniteSubsetsOf(S)
  BY FS_FiniteSubsetsOfFinite
<1>3. PICK T \in Bad : \A U \in Bad : <<U, T>> \notin StrictSubsetOrdering(S)
  BY <1>1, <1>2, WFMin
<1>4. ASSUME NEW U \in Bad, U \subseteq T, U # T
      PROVE  FALSE
  BY <1>3, <1>4 DEF StrictSubsetOrdering
<1> QED
  BY <1>4

(* So a set that has the empty set, and every set that it has less one      *)
(* element, has them all.                                                   *)
LEMMA SubsetInduction ==
  ASSUME NEW S, IsFiniteSet(S), NEW Good, {} \in Good,
         \A s \in SUBSET S : s # {} => \E x \in s : s \ {x} \in Good => s \in Good
  PROVE  \A s \in SUBSET S : s \in Good
<1> DEFINE Bad == (SUBSET S) \ Good
<1> SUFFICES ASSUME Bad # {} PROVE FALSE
  OBVIOUS
<1>1. Bad \in SUBSET (SUBSET S)
  OBVIOUS
<1> HIDE DEF Bad
<1>2. PICK T \in Bad : \A U \in Bad : U \subseteq T => U = T
  BY <1>1, SmallestSubset
<1>3. T \in SUBSET S /\ T \notin Good
  BY <1>2 DEF Bad
<1>4. PICK x \in T : T \ {x} \in Good => T \in Good
  BY <1>3
<1>5. T \ {x} \in SUBSET S /\ T \ {x} \notin Bad
  BY <1>2, <1>3, <1>4
<1> QED
  BY <1>3, <1>4, <1>5 DEF Bad

(* A fold over S takes one element after the other, pick[s] of what is left *)
(* in s, and with each makes a value of V from the one before.              *)
Picks(S, pick) == \A s \in SUBSET S : s # {} => pick[s] \in s

Steps(S, V, step) == \A x \in S, v \in V : step[x][v] \in V

IsFold(g, S, base, pick, step) ==
  \A s \in SUBSET S :
    g[s] = IF s = {} THEN base ELSE step[pick[s]][g[s \ {pick[s]}]]

(* Over a finite set it has a result.                                       *)
LEMMA FoldExists ==
  ASSUME NEW S, IsFiniteSet(S), NEW V, NEW base \in V,
         NEW pick, Picks(S, pick), NEW step, Steps(S, V, step)
  PROVE  \E g \in [SUBSET S -> V] : IsFold(g, S, base, pick, step)
<1> USE DEF Picks, Steps, IsFold
<1> DEFINE Body(g, s) == IF s = {} THEN base ELSE step[pick[s]][g[s \ {pick[s]}]]
           Upto(g, T) == \A s \in SUBSET S :
                           Cardinality(s) <= Cardinality(T) => g[s] = Body(g, s)
           Good == {T \in SUBSET S : \E g \in [SUBSET S -> V] : Upto(g, T)}
<1>1. \A s \in SUBSET S : IsFiniteSet(s) /\ Cardinality(s) \in Nat
  BY FS_Subset, FS_CardinalityType
<1>2. {} \in Good
  <2> DEFINE g == [s \in SUBSET S |-> base]
  <2>1. g \in [SUBSET S -> V]
    OBVIOUS
  <2>2. \A s \in SUBSET S : Cardinality(s) <= Cardinality({}) => s = {}
    BY <1>1, FS_EmptySet
  <2>3. Upto(g, {})
    BY <2>2
  <2> QED
    BY <2>1, <2>3
<1>3. ASSUME NEW T \in SUBSET S, NEW x \in T, T \ {x} \in Good
      PROVE  T \in Good
  <2>1. PICK g \in [SUBSET S -> V] : Upto(g, T \ {x})
    BY <1>3
  <2>2. Cardinality(T) = Cardinality(T \ {x}) + 1 /\ Cardinality(T \ {x}) \in Nat
    BY <1>1, <1>3, FS_RemoveElement
  <2> DEFINE n == Cardinality(T \ {x})
             h == [s \in SUBSET S |-> IF Cardinality(s) <= n THEN g[s] ELSE Body(g, s)]
  <2>3. h \in [SUBSET S -> V]
    OBVIOUS
  <2>4. ASSUME NEW s \in SUBSET S, Cardinality(s) <= n + 1
        PROVE  h[s] = Body(h, s)
    <3>1. CASE s = {}
      <4>1. Cardinality(s) = 0
        BY <3>1, FS_EmptySet
      <4>2. Cardinality(s) <= n
        BY <2>2, <4>1
      <4>3. g[s] = Body(g, s)
        BY <2>1, <4>2
      <4> QED
        BY <3>1, <4>2, <4>3
    <3>2. CASE s # {}
      <4>1. pick[s] \in s /\ s \ {pick[s]} \in SUBSET S
        BY <3>2
      <4>2. Cardinality(s \ {pick[s]}) = Cardinality(s) - 1
        BY <1>1, <4>1, FS_RemoveElement
      <4>3. Cardinality(s \ {pick[s]}) <= n
        BY <1>1, <2>2, <2>4, <4>2
      <4>4. h[s \ {pick[s]}] = g[s \ {pick[s]}]
        BY <4>1, <4>3
      <4>5. h[s] = Body(g, s)
        BY <2>1
      <4> QED
        BY <3>2, <4>4, <4>5
    <3> QED
      BY <3>1, <3>2
  <2> HIDE DEF h
  <2>5. Upto(h, T)
    <3> HIDE DEF Body
    <3> SUFFICES ASSUME NEW s \in SUBSET S, Cardinality(s) <= Cardinality(T)
                 PROVE  h[s] = Body(h, s)
      OBVIOUS
    <3> QED
      BY <2>2, <2>4
  <2> HIDE DEF Body
  <2> QED
    BY <2>3, <2>5
<1> HIDE DEF Good
<1>4. \A s \in SUBSET S : s # {} => \E x \in s : s \ {x} \in Good => s \in Good
  BY <1>3
<1>5. S \in Good
  BY <1>2, <1>4, SubsetInduction
<1>6. PICK g \in [SUBSET S -> V] : Upto(g, S)
  BY <1>5 DEF Good
<1>7. \A s \in SUBSET S : Cardinality(s) <= Cardinality(S)
  BY FS_Subset
<1> QED
  BY <1>6, <1>7

(* A finite set of positions that is not empty has a last one.              *)
LEMMA MaxIn ==
  ASSUME NEW n \in Nat, NEW s \in SUBSET (1 .. n), s # {}
  PROVE  Max(s) \in s
<1> DEFINE D == 1 .. n
           Good == {t \in SUBSET D : t = {} \/ \E m \in t : \A y \in t : m >= y}
<1>1. IsFiniteSet(D)
  BY FS_Interval
<1>2. {} \in Good
  OBVIOUS
<1>3. ASSUME NEW t \in SUBSET D, NEW x \in t, t \ {x} \in Good
      PROVE  t \in Good
  <2>1. CASE t \ {x} = {}
    <3>1. \A y \in t : x >= y
      BY <2>1
    <3> QED
      BY <3>1
  <2>2. CASE t \ {x} # {}
    <3>1. PICK m \in t \ {x} : \A y \in t \ {x} : m >= y
      BY <1>3, <2>2
    <3>2. CASE m >= x
      BY <3>1, <3>2
    <3>3. CASE ~(m >= x)
      <4>1. \A y \in t : x >= y
        BY <3>1, <3>3
      <4> QED
        BY <4>1
    <3> QED
      BY <3>2, <3>3
  <2> QED
    BY <2>1, <2>2
<1> HIDE DEF Good
<1>4. s \in Good
  <2>1. \A t \in SUBSET D : t # {} => \E x \in t : t \ {x} \in Good => t \in Good
    BY <1>3
  <2>2. s \in SUBSET D
    OBVIOUS
  <2> HIDE DEF D
  <2> QED
    BY <1>1, <1>2, <2>1, <2>2, SubsetInduction
<1>5. \E m \in s : \A y \in s : m >= y
  BY <1>4 DEF Good
<1> QED
  BY <1>5 DEF Max


(* g[s] is the sum of the weights e[x] of the elements x of s, for every    *)
(* subset s of S: what MapThenSumSet computes.                              *)
IsSum(g, e, S) ==
  g = [s \in SUBSET S |-> IF s = {} THEN 0
         ELSE LET x == CHOOSE x \in s : TRUE IN e[x] + g[s \ {x}]]

Total(e, S) == (CHOOSE g : IsSum(g, e, S))[S]

LEMMA SumExists ==
  ASSUME NEW S, IsFiniteSet(S), NEW e, \A x \in S : e[x] \in Int
  PROVE  \E g : IsSum(g, e, S)
<1> DEFINE V == Int
           base == 0
           pick == [s \in SUBSET S |-> CHOOSE x \in s : TRUE]
           step == [x \in S |-> [v \in V |-> e[x] + v]]
<1>1. \A s \in SUBSET S : s # {} => (CHOOSE x \in s : TRUE) \in s
  OBVIOUS
<1>2. Picks(S, pick)
  BY <1>1 DEF Picks
<1>3. Steps(S, V, step) /\ base \in V
  BY DEF Steps
<1>4. \A x \in S, v \in V : step[x][v] = e[x] + v
  OBVIOUS
<1>5. \A s \in SUBSET S : pick[s] = CHOOSE x \in s : TRUE
  OBVIOUS
<1> HIDE DEF V, base, pick, step
<1>6. PICK g \in [SUBSET S -> V] : IsFold(g, S, base, pick, step)
  BY <1>2, <1>3, FoldExists
<1>7. ASSUME NEW s \in SUBSET S
      PROVE  g[s] = IF s = {} THEN base
                    ELSE LET x == CHOOSE x \in s : TRUE IN e[x] + g[s \ {x}]
  <2>1. CASE s = {}
    BY <1>6, <2>1 DEF IsFold
  <2>2. CASE s # {}
    <3> DEFINE x == CHOOSE x \in s : TRUE
    <3>1. x \in S /\ s \ {x} \in SUBSET S /\ g[s \ {x}] \in V
      BY <1>1, <1>6, <2>2
    <3>2. g[s] = step[pick[s]][g[s \ {pick[s]}]] /\ pick[s] = x
      BY <1>5, <1>6, <2>2 DEF IsFold
    <3> HIDE DEF x
    <3>3. g[s] = e[x] + g[s \ {x}]
      BY <1>4, <3>1, <3>2
    <3> QED
      BY <2>2, <3>3 DEF x
  <2> QED
    BY <2>1, <2>2
<1>8. IsSum(g, e, S)
  BY <1>6, <1>7 DEF IsSum, base
<1> QED
  BY <1>8

LEMMA SumType ==
  ASSUME NEW S, IsFiniteSet(S), NEW e, \A x \in S : e[x] \in Int, NEW g, IsSum(g, e, S)
  PROVE  \A s \in SUBSET S : g[s] \in Int
<1> DEFINE Good == {s \in SUBSET S : g[s] \in Int}
<1>1. {} \in Good
  BY DEF IsSum
<1>2. ASSUME NEW s \in SUBSET S, s # {}
      PROVE  \E x \in s : s \ {x} \in Good => s \in Good
  <2> DEFINE x == CHOOSE x \in s : TRUE
  <2>1. x \in s
    BY <1>2
  <2>2. g[s] = e[x] + g[s \ {x}]
    BY <1>2 DEF IsSum
  <2>3. x \in S /\ e[x] \in Int
    BY <2>1
  <2> HIDE DEF x
  <2>4. ASSUME s \ {x} \in Good
        PROVE  s \in Good
    <3>1. g[s \ {x}] \in Int
      BY <2>4
    <3>2. e[x] + g[s \ {x}] \in Int
      BY <2>3, <3>1
    <3> QED
      BY <2>2, <3>2
  <2> QED
    BY <2>1, <2>4
<1> HIDE DEF Good
<1>3. \A s \in SUBSET S : s \in Good
  BY <1>1, <1>2, SubsetInduction
<1> QED
  BY <1>3 DEF Good

(* The sum does not depend on which element it takes first.                 *)
LEMMA SumAny ==
  ASSUME NEW S, IsFiniteSet(S), NEW e, \A x \in S : e[x] \in Int, NEW g, IsSum(g, e, S)
  PROVE  \A s \in SUBSET S : \A x \in s : g[s] = e[x] + g[s \ {x}]
<1> DEFINE Bad == {s \in SUBSET S : ~(\A x \in s : g[s] = e[x] + g[s \ {x}])}
<1> SUFFICES ASSUME Bad # {} PROVE FALSE
  OBVIOUS
<1>1. Bad \in SUBSET (SUBSET S)
  OBVIOUS
<1>2. PICK s \in Bad : \A u \in Bad : u \subseteq s => u = s
  <2> HIDE DEF Bad
  <2> QED
    BY <1>1, SmallestSubset
<1>3. PICK x \in s : g[s] # e[x] + g[s \ {x}]
  OBVIOUS
<1> DEFINE c == CHOOSE y \in s : TRUE
<1>4. c \in s /\ s \in SUBSET S
  OBVIOUS
<1>5. g[s] = e[c] + g[s \ {c}]
  BY <1>4 DEF IsSum
<1> HIDE DEF c
<1>6. x # c
  BY <1>3, <1>5
<1>7. s \ {c} \notin Bad /\ s \ {x} \notin Bad
  BY <1>2, <1>4
<1>8. g[s \ {c}] = e[x] + g[(s \ {c}) \ {x}]
  <2>1. s \ {c} \in SUBSET S /\ x \in s \ {c}
    BY <1>4, <1>6
  <2> QED
    BY <1>7, <2>1
<1>9. g[s \ {x}] = e[c] + g[(s \ {x}) \ {c}]
  <2>1. s \ {x} \in SUBSET S /\ c \in s \ {x}
    BY <1>4, <1>6
  <2> QED
    BY <1>7, <2>1
<1>10. (s \ {c}) \ {x} = (s \ {x}) \ {c}
  OBVIOUS
<1>11. g[(s \ {c}) \ {x}] \in Int /\ e[x] \in Int /\ e[c] \in Int
  <2>1. (s \ {c}) \ {x} \in SUBSET S /\ x \in S /\ c \in S
    BY <1>3, <1>4
  <2> HIDE DEF Bad
  <2> QED
    BY <2>1, SumType
<1>12. PICK b \in Int : b = g[(s \ {c}) \ {x}] /\ b = g[(s \ {x}) \ {c}]
  BY <1>10, <1>11
<1>13. g[s] = e[c] + (e[x] + b) /\ g[s \ {x}] = e[c] + b
  BY <1>5, <1>8, <1>9, <1>12
<1>14. e[c] + (e[x] + b) = e[x] + (e[c] + b)
  BY <1>11
<1> HIDE DEF Bad
<1> QED
  BY <1>3, <1>13, <1>14

(* Two sums agree on a set on which their weights do.                       *)
LEMMA SumsAgree ==
  ASSUME NEW S, NEW R, NEW T, IsFiniteSet(T), T \subseteq S, T \subseteq R,
         NEW e, NEW d, \A x \in T : e[x] = d[x],
         NEW g, IsSum(g, e, S), NEW h, IsSum(h, d, R)
  PROVE  g[T] = h[T]
<1> DEFINE Good == {s \in SUBSET T : g[s] = h[s]}
<1>1. {} \in Good
  BY DEF IsSum
<1>2. ASSUME NEW s \in SUBSET T, s # {}
      PROVE  \E x \in s : s \ {x} \in Good => s \in Good
  <2> DEFINE x == CHOOSE x \in s : TRUE
  <2>1. x \in s
    BY <1>2
  <2>2. s \in SUBSET S /\ s \in SUBSET R
    OBVIOUS
  <2>3. g[s] = e[x] + g[s \ {x}]
    BY <1>2, <2>2 DEF IsSum
  <2>4. h[s] = d[x] + h[s \ {x}]
    BY <1>2, <2>2 DEF IsSum
  <2> HIDE DEF x
  <2> QED
    BY <2>1, <2>3, <2>4
<1> HIDE DEF Good
<1>3. \A s \in SUBSET T : s \in Good
  BY <1>1, <1>2, SubsetInduction
<1> QED
  BY <1>3 DEF Good

LEMMA TotalSum ==
  ASSUME NEW S, IsFiniteSet(S), NEW e, \A x \in S : e[x] \in Int
  PROVE  \E g : IsSum(g, e, S) /\ Total(e, S) = g[S]
<1>1. IsSum(CHOOSE g : IsSum(g, e, S), e, S)
  BY SumExists
<1> QED
  BY <1>1 DEF Total

LEMMA TotalInt ==
  ASSUME NEW S, IsFiniteSet(S), NEW e, \A x \in S : e[x] \in Int
  PROVE  Total(e, S) \in Int
BY TotalSum, SumType

(* The total of a set only depends on the weights of its elements.          *)
LEMMA TotalSame ==
  ASSUME NEW S, IsFiniteSet(S), NEW e, \A x \in S : e[x] \in Int,
         NEW d, \A x \in S : d[x] = e[x]
  PROVE  Total(d, S) = Total(e, S)
<1>1. PICK g : IsSum(g, e, S) /\ Total(e, S) = g[S]
  BY TotalSum
<1>2. PICK h : IsSum(h, d, S) /\ Total(d, S) = h[S]
  BY TotalSum
<1> QED
  BY <1>1, <1>2, SumsAgree

(* One element more adds its weight.                                        *)
LEMMA TotalAdd ==
  ASSUME NEW S, IsFiniteSet(S), NEW x, x \notin S,
         NEW e, \A y \in S \cup {x} : e[y] \in Int
  PROVE  Total(e, S \cup {x}) = e[x] + Total(e, S)
<1>1. IsFiniteSet(S \cup {x})
  BY FS_AddElement
<1>2. PICK g : IsSum(g, e, S \cup {x}) /\ Total(e, S \cup {x}) = g[S \cup {x}]
  BY <1>1, TotalSum
<1>3. PICK h : IsSum(h, e, S) /\ Total(e, S) = h[S]
  BY TotalSum
<1>4. g[S \cup {x}] = e[x] + g[(S \cup {x}) \ {x}]
  <2> DEFINE R == S \cup {x}
  <2>1. R \in SUBSET R /\ x \in R /\ IsFiniteSet(R) /\ IsSum(g, e, R) /\ \A y \in R : e[y] \in Int
    BY <1>1, <1>2
  <2> HIDE DEF R
  <2>2. g[R] = e[x] + g[R \ {x}]
    BY <2>1, SumAny
  <2> QED
    BY <2>2 DEF R
<1>5. (S \cup {x}) \ {x} = S
  OBVIOUS
<1>6. g[S] = h[S]
  <2> DEFINE R == S \cup {x}
  <2>1. S \subseteq R /\ S \subseteq S /\ IsSum(g, e, R)
    BY <1>2
  <2> HIDE DEF R
  <2> QED
    BY <1>3, <2>1, SumsAgree
<1> QED
  BY <1>2, <1>3, <1>4, <1>5, <1>6

(* Weights of 0 have a total of 0.                                          *)
LEMMA TotalZero ==
  ASSUME NEW S, IsFiniteSet(S), NEW e, \A x \in S : e[x] = 0
  PROVE  Total(e, S) = 0
<1>1. PICK g : IsSum(g, e, S) /\ Total(e, S) = g[S]
  BY TotalSum
<1> DEFINE Good == {s \in SUBSET S : g[s] = 0}
<1>2. {} \in Good
  BY <1>1 DEF IsSum
<1>3. ASSUME NEW s \in SUBSET S, s # {}
      PROVE  \E x \in s : s \ {x} \in Good => s \in Good
  <2> DEFINE x == CHOOSE x \in s : TRUE
  <2>1. x \in s
    BY <1>3
  <2>2. g[s] = e[x] + g[s \ {x}]
    BY <1>1, <1>3 DEF IsSum
  <2> HIDE DEF x
  <2> QED
    BY <2>1, <2>2
<1> HIDE DEF Good
<1>4. \A s \in SUBSET S : s \in Good
  BY <1>2, <1>3, SubsetInduction
<1> QED
  BY <1>1, <1>4 DEF Good
=============================================================================
