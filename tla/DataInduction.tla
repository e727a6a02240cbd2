--------------------------- MODULE DataInduction ---------------------------
(***************************************************************************)
(* Induction for the data of the models, with a set of values where the    *)
(* library's theorems take a predicate, and what it gives for the fold of  *)
(* a finite set (FoldSet, MapThenSumSet).                                  *)
(***************************************************************************)
EXTENDS Integers, FiniteSetsExt, FiniteSetTheorems, WellFoundedInduction, TLAPS

(* A set of naturals that has 0 and with a number its successor.           *)
LEMMA EveryNat ==
  ASSUME NEW T, 0 \in T, \A n \in Nat : n \in T => n + 1 \in T
  PROVE  \A n \in Nat : n \in T
<1> DEFINE bad == Nat \ T
<1>1. SUFFICES ASSUME bad # {} PROVE FALSE
  OBVIOUS
<1>2. PICK n \in bad : \A m \in bad : ~ (<<m, n>> \in OpToRel(<, Nat))
  <2>1. bad \subseteq Nat
    OBVIOUS
  <2> HIDE DEF bad
  <2> QED
    BY <1>1, <2>1, WFMin, NatLessThanWellFounded
<1>3. \A m \in bad : ~ (m < n)
  BY <1>2 DEF OpToRel
<1>4. CASE n = 0
  BY <1>4
<1>5. CASE n # 0
  <2>1. n - 1 \in Nat /\ n - 1 < n
    BY <1>5
  <2>2. n - 1 \in T
    BY <1>3, <2>1
  <2> QED
    BY <2>1, <2>2
<1> QED
  BY <1>4, <1>5

(* A set of finite sets that has the empty one and with a set the one with *)
(* an element more.                                                        *)
LEMMA EveryFiniteSet ==
  ASSUME NEW S, IsFiniteSet(S), NEW T, {} \in T,
         \A s \in SUBSET S, x \in S : s \in T => s \cup {x} \in T
  PROVE  S \in T
<1> DEFINE good == {n \in Nat : \A s \in SUBSET S : Cardinality(s) = n => s \in T}
<1>1. \A s \in SUBSET S : IsFiniteSet(s) /\ Cardinality(s) \in Nat
  BY FS_Subset, FS_CardinalityType
<1>2. 0 \in good
  BY <1>1, FS_EmptySet
<1>3. ASSUME NEW n \in Nat, n \in good PROVE n + 1 \in good
  <2>1. ASSUME NEW s \in SUBSET S, Cardinality(s) = n + 1 PROVE s \in T
    <3>1. PICK x \in s : TRUE
      BY <2>1, FS_EmptySet
    <3>2. Cardinality(s \ {x}) = n
      BY <1>1, <2>1, <3>1, FS_RemoveElement
    <3>3. s \ {x} \in T
      BY <1>3, <3>2
    <3>4. s = (s \ {x}) \cup {x}
      BY <3>1
    <3> QED
      BY <3>1, <3>3, <3>4
  <2> QED
    BY <2>1
<1>4. \A n \in Nat : n \in good
  <2> HIDE DEF good
  <2> QED
    BY <1>2, <1>3, EveryNat
<1> QED
  BY <1>1, <1>4

-----------------------------------------------------------------------------
(* Folds. *)

Picks(pick, S) == \A s \in SUBSET S : s # {} => pick[s] \in s

\* g is the fold of step from base, for every subset of S.
IsFold(g, S, base, step, pick) ==
    \A s \in SUBSET S :
      g[s] = IF s = {} THEN base ELSE step[<<pick[s], g[s \ {pick[s]}]>>]

(* The recursion that defines a fold has a solution.                       *)
LEMMA FoldExists ==
  ASSUME NEW S, IsFiniteSet(S), NEW V, NEW base \in V, NEW step \in [S \X V -> V],
         NEW pick, Picks(pick, S)
  PROVE  \E g \in [SUBSET S -> V] : IsFold(g, S, base, step, pick)
<1> DEFINE Small(n) == {s \in SUBSET S : Cardinality(s) <= n}
           Solves(g, n) ==
             \A s \in Small(n) :
               g[s] = IF s = {} THEN base ELSE step[<<pick[s], g[s \ {pick[s]}]>>]
           Solved(n) == \E g \in [Small(n) -> V] : Solves(g, n)
           good == {n \in Nat : Solved(n)}
<1>1. \A s \in SUBSET S : IsFiniteSet(s) /\ Cardinality(s) \in Nat
  BY FS_Subset, FS_CardinalityType
<1>2. 0 \in good
  <2>1. \A s \in Small(0) : s = {}
    BY <1>1, FS_EmptySet
  <2>2. [s \in Small(0) |-> base] \in [Small(0) -> V] /\ Solves([s \in Small(0) |-> base], 0)
    BY <2>1
  <2> QED
    BY <2>2
<1>3. ASSUME NEW n \in Nat, n \in good PROVE n + 1 \in good
  <2>1. PICK g \in [Small(n) -> V] : Solves(g, n)
    BY <1>3
  <2> DEFINE h == [s \in Small(n + 1) |->
                     IF s = {} THEN base ELSE step[<<pick[s], g[s \ {pick[s]}]>>]]
  <2>2. \A s \in Small(n + 1) : s # {} => pick[s] \in S /\ s \ {pick[s]} \in Small(n)
    <3>1. ASSUME NEW s \in Small(n + 1), s # {} PROVE pick[s] \in S /\ s \ {pick[s]} \in Small(n)
      <4>1. pick[s] \in s
        BY <3>1 DEF Picks
      <4>2. Cardinality(s \ {pick[s]}) = Cardinality(s) - 1
        BY <1>1, <4>1, FS_RemoveElement
      <4> QED
        BY <1>1, <4>1, <4>2
    <3> QED
      BY <3>1
  <2>3. h \in [Small(n + 1) -> V]
    BY <2>2
  <2>4. \A s \in Small(n) : s \in Small(n + 1) /\ h[s] = g[s]
    BY <1>1, <2>1
  <2>5. Solves(h, n + 1)
    BY <2>2, <2>4
  <2>6. Solved(n + 1)
    <3> HIDE DEF h, Small, Solves
    <3> QED
      BY <2>3, <2>5
  <2> HIDE DEF Solved
  <2> QED
    BY <2>6
<1>4. \A n \in Nat : n \in good
  <2> HIDE DEF good
  <2> QED
    BY <1>2, <1>3, EveryNat
<1>5. Cardinality(S) \in good /\ Small(Cardinality(S)) = SUBSET S
  BY <1>1, <1>4, FS_Subset, FS_CardinalityType
<1> QED
  BY <1>5 DEF IsFold

(* A set of sets that has the empty one, and a set as soon as it has what   *)
(* remains of it without the element that is picked.                       *)
LEMMA EveryPicked ==
  ASSUME NEW S, IsFiniteSet(S), NEW pick, Picks(pick, S), NEW T, {} \in T,
         \A s \in SUBSET S : s # {} /\ s \ {pick[s]} \in T => s \in T
  PROVE  S \in T
<1> DEFINE good == {n \in Nat : \A s \in SUBSET S : Cardinality(s) = n => s \in T}
<1>1. \A s \in SUBSET S : IsFiniteSet(s) /\ Cardinality(s) \in Nat
  BY FS_Subset, FS_CardinalityType
<1>2. 0 \in good
  BY <1>1, FS_EmptySet
<1>3. ASSUME NEW n \in Nat, n \in good PROVE n + 1 \in good
  <2>1. ASSUME NEW s \in SUBSET S, Cardinality(s) = n + 1 PROVE s \in T
    <3>1. s # {}
      <4>1. IsFiniteSet(s) /\ Cardinality(s) # 0
        BY <1>1, <2>1
      <4> QED
        BY <4>1, FS_EmptySet
    <3>2. pick[s] \in s /\ IsFiniteSet(s)
      BY <1>1, <3>1 DEF Picks
    <3>3. Cardinality(s \ {pick[s]}) = Cardinality(s) - 1
      BY ONLY <3>2, FS_RemoveElement
    <3>4. s \ {pick[s]} \in T
      BY <1>3, <2>1, <3>3
    <3> QED
      BY <3>1, <3>4
  <2> QED
    BY <2>1
<1>4. \A n \in Nat : n \in good
  <2> HIDE DEF good
  <2> QED
    BY <1>2, <1>3, EveryNat
<1> QED
  BY <1>1, <1>4

-----------------------------------------------------------------------------
(* Images and bounds of finite sets. *)

LEMMA FiniteImage ==
  ASSUME NEW S, IsFiniteSet(S), NEW f
  PROVE  IsFiniteSet({f[x] : x \in S})
<1> DEFINE T == {f[x] : x \in S}
           g == [x \in S |-> f[x]]
<1>1. g \in Surjection(S, T)
  BY DEF Surjection
<1> HIDE DEF T, g
<1>2. IsFiniteSet(T)
  BY <1>1, FS_Surjection
<1> QED
  BY <1>2 DEF T

LEMMA FiniteMax ==
  ASSUME NEW S \in SUBSET Int, IsFiniteSet(S), S # {}
  PROVE  Max(S) \in S /\ \A x \in S : x <= Max(S)
<1> DEFINE Bounded(s) == \E m \in s : \A x \in s : x <= m
           T == {s \in SUBSET S : s = {} \/ Bounded(s)}
<1>1. ASSUME NEW s \in SUBSET S, NEW x \in S, s \in T PROVE s \cup {x} \in T
  <2>1. CASE s = {}
    BY <2>1
  <2>2. CASE s # {}
    <3>1. PICK m \in s : \A y \in s : y <= m
      BY <1>1, <2>2
    <3>2. CASE x <= m
      BY <3>1, <3>2
    <3>3. CASE m <= x
      <4>1. \A y \in s \cup {x} : y <= x
        BY <3>1, <3>3
      <4> QED
        BY <4>1
    <3> QED
      BY <3>2, <3>3
  <2> QED
    BY <2>1, <2>2
<1>2. S \in T
  <2>1. {} \in T
    OBVIOUS
  <2> HIDE DEF T
  <2> QED
    BY <1>1, <2>1, EveryFiniteSet
<1>3. \E m \in S : \A x \in S : m >= x
  BY <1>2
<1> QED
  BY <1>3 DEF Max

LEMMA FiniteMin ==
  ASSUME NEW S \in SUBSET Int, IsFiniteSet(S), S # {}
  PROVE  Min(S) \in S /\ \A x \in S : Min(S) <= x
<1> DEFINE Bounded(s) == \E m \in s : \A x \in s : m <= x
           T == {s \in SUBSET S : s = {} \/ Bounded(s)}
<1>1. ASSUME NEW s \in SUBSET S, NEW x \in S, s \in T PROVE s \cup {x} \in T
  <2>1. CASE s = {}
    BY <2>1
  <2>2. CASE s # {}
    <3>1. PICK m \in s : \A y \in s : m <= y
      BY <1>1, <2>2
    <3>2. CASE m <= x
      BY <3>1, <3>2
    <3>3. CASE x <= m
      <4>1. \A y \in s \cup {x} : x <= y
        BY <3>1, <3>3
      <4> QED
        BY <4>1
    <3> QED
      BY <3>2, <3>3
  <2> QED
    BY <2>1, <2>2
<1>2. S \in T
  <2>1. {} \in T
    OBVIOUS
  <2> HIDE DEF T
  <2> QED
    BY <1>1, <2>1, EveryFiniteSet
<1>3. \E m \in S : \A x \in S : m =< x
  BY <1>2
<1> QED
  BY <1>3 DEF Min

-----------------------------------------------------------------------------
(* Sums of a function's values over a finite set. *)

SumOver(f, S) == MapThenSumSet(LAMBDA x : f[x], S)

\* The recursion a sum stands for.
Summing(g, f, S) ==
    [s \in SUBSET S |->
       IF s = {} THEN 0
       ELSE f[CHOOSE x \in s : TRUE] + g[s \ {CHOOSE x \in s : TRUE}]]

Sums(g, f, S) ==
    /\ g \in [SUBSET S -> Nat]
    /\ g = Summing(g, f, S)

LEMMA SummingExists ==
  ASSUME NEW S, IsFiniteSet(S), NEW f \in [S -> Nat]
  PROVE  \E g : Sums(g, f, S)
<1> DEFINE step == [p \in S \X Nat |-> f[p[1]] + p[2]]
           pick == [s \in SUBSET S |-> CHOOSE x \in s : TRUE]
<1>1. step \in [S \X Nat -> Nat]
  OBVIOUS
<1>2. Picks(pick, S)
  BY DEF Picks
<1>3. PICK g \in [SUBSET S -> Nat] : IsFold(g, S, 0, step, pick)
  <2> HIDE DEF step, pick
  <2> QED
    BY <1>1, <1>2, FoldExists
<1>4. ASSUME NEW s \in SUBSET S, s # {}
      PROVE  g[s] = f[CHOOSE x \in s : TRUE] + g[s \ {CHOOSE x \in s : TRUE}]
  <2> DEFINE x == CHOOSE x \in s : TRUE
  <2>1. x \in S /\ s \ {x} \in SUBSET S /\ pick[s] = x
    BY <1>4
  <2>2. g[s] = step[<<x, g[s \ {x}]>>]
    BY <1>3, <1>4, <2>1 DEF IsFold
  <2>3. step[<<x, g[s \ {x}]>>] = f[x] + g[s \ {x}]
    <3> HIDE DEF x
    <3> QED
      BY <2>1
  <2> QED
    BY <2>2, <2>3
<1>5. g[{}] = 0
  BY <1>3 DEF IsFold
<1>6. \A s \in SUBSET S : g[s] = Summing(g, f, S)[s]
  BY <1>4, <1>5 DEF Summing
<1>7. g = Summing(g, f, S)
  BY <1>6 DEF Summing
<1> QED
  BY <1>7 DEF Sums

(* The sum over a subset is what any solution of the recursion gives.       *)
LEMMA SumIs ==
  ASSUME NEW S, IsFiniteSet(S), NEW f \in [S -> Nat], NEW g, Sums(g, f, S), NEW R \in SUBSET S
  PROVE  SumOver(f, R) = g[R]
<1> DEFINE h == CHOOSE e : e = Summing(e, f, R)
           k == [s \in SUBSET R |-> g[s]]
           pick == [s \in SUBSET R |-> CHOOSE x \in s : TRUE]
           T == {s \in SUBSET R : h[s] = g[s]}
<1>1. ASSUME NEW s \in SUBSET S
      PROVE  g[s] = IF s = {} THEN 0
                    ELSE f[CHOOSE x \in s : TRUE] + g[s \ {CHOOSE x \in s : TRUE}]
  BY DEF Sums, Summing
<1>2. k = Summing(k, f, R)
  BY <1>1 DEF Summing
<1>3. h = Summing(h, f, R)
  <2> HIDE DEF k
  <2> QED
    BY <1>2
<1>4. SumOver(f, R) = h[R]
  BY DEF SumOver, MapThenSumSet, MapThenFoldSet, Summing
<1> HIDE DEF h
<1>5. {} \in T
  <2>1. h[{}] = Summing(h, f, R)[{}]
    BY <1>3
  <2> QED
    BY <1>1, <2>1 DEF Summing
<1>6. ASSUME NEW s \in SUBSET R, s # {}, s \ {pick[s]} \in T PROVE s \in T
  <2>1. h[s] = Summing(h, f, R)[s]
    BY <1>3
  <2>2. h[s] = f[CHOOSE x \in s : TRUE] + h[s \ {CHOOSE x \in s : TRUE}]
    BY <1>6, <2>1 DEF Summing
  <2> QED
    BY <1>1, <1>6, <2>2
<1>7. Picks(pick, R) /\ IsFiniteSet(R)
  BY FS_Subset DEF Picks
<1>8. R \in T
  <2> HIDE DEF pick, T
  <2> QED
    BY <1>5, <1>6, <1>7, EveryPicked
<1> QED
  BY <1>4, <1>8

(* Whichever element is taken out first, the sum is the same.               *)
LEMMA SumAnyOrder ==
  ASSUME NEW S, IsFiniteSet(S), NEW f \in [S -> Nat], NEW g, Sums(g, f, S)
  PROVE  \A s \in SUBSET S : \A x \in s : g[s] = f[x] + g[s \ {x}]
<1> DEFINE Right(s) == \A x \in s : g[s] = f[x] + g[s \ {x}]
           good == {n \in Nat : \A s \in SUBSET S : Cardinality(s) = n => Right(s)}
<1>1. \A s \in SUBSET S : IsFiniteSet(s) /\ Cardinality(s) \in Nat
  BY FS_Subset, FS_CardinalityType
<1>2. 0 \in good
  <2>1. \A s \in SUBSET S : Cardinality(s) = 0 => s = {}
    BY <1>1, FS_EmptySet
  <2> QED
    BY <2>1
<1>3. ASSUME NEW n \in Nat, n \in good PROVE n + 1 \in good
  <2>1. ASSUME NEW s \in SUBSET S, Cardinality(s) = n + 1, NEW x \in s
        PROVE  g[s] = f[x] + g[s \ {x}]
    <3> DEFINE p == CHOOSE e \in s : TRUE
    <3>1. p \in s /\ g[s] = f[p] + g[s \ {p}]
      BY DEF Sums, Summing
    <3> HIDE DEF p
    <3>2. CASE x = p
      BY <3>1, <3>2
    <3>3. CASE x # p
      <4>1. Cardinality(s \ {p}) = n /\ Cardinality(s \ {x}) = n
        <5>1. IsFiniteSet(s) /\ Cardinality(s) = n + 1 /\ n \in Nat /\ x \in s /\ p \in s
          BY <1>1, <2>1, <3>1
        <5>2. \A y \in s : Cardinality(s \ {y}) = Cardinality(s) - 1
          BY ONLY <5>1, FS_RemoveElement
        <5> QED
          BY <5>1, <5>2
      <4>2. Right(s \ {p}) /\ Right(s \ {x})
        BY <1>3, <4>1
      <4>3. (s \ {p}) \ {x} = (s \ {x}) \ {p}
        OBVIOUS
      <4>4. /\ g[s \ {p}] = f[x] + g[(s \ {p}) \ {x}]
            /\ g[s \ {x}] = f[p] + g[(s \ {p}) \ {x}]
        BY <3>1, <3>3, <4>2, <4>3
      <4>5. f[x] \in Nat /\ f[p] \in Nat /\ g[(s \ {p}) \ {x}] \in Nat
        BY <3>1 DEF Sums
      <4> QED
        BY <3>1, <4>4, <4>5
    <3> QED
      BY <3>2, <3>3
  <2> QED
    BY <2>1
<1>4. \A n \in Nat : n \in good
  <2> HIDE DEF good
  <2> QED
    BY <1>2, <1>3, EveryNat
<1> QED
  BY <1>1, <1>4

(* The sum is a natural number, 0 over no element; one element after the    *)
(* other may be taken out of it.                                            *)
LEMMA SumElement ==
  ASSUME NEW S, IsFiniteSet(S), NEW f \in [S -> Nat], NEW R \in SUBSET S
  PROVE  /\ SumOver(f, R) \in Nat
         /\ SumOver(f, {}) = 0
         /\ \A x \in R : SumOver(f, R) = f[x] + SumOver(f, R \ {x})
<1>1. PICK g : Sums(g, f, S)
  BY SummingExists
<1>2. \A s \in SUBSET S : SumOver(f, s) = g[s]
  BY <1>1, SumIs
<1>3. \A x \in R : g[R] = f[x] + g[R \ {x}]
  BY <1>1, SumAnyOrder
<1>4. g[R] \in Nat /\ g[{}] = 0
  BY <1>1 DEF Sums, Summing
<1> QED
  BY <1>2, <1>3, <1>4

(* The larger function has the larger sum.                                  *)
LEMMA SumMonotone ==
  ASSUME NEW S, IsFiniteSet(S), NEW f \in [S -> Nat], NEW e \in [S -> Nat],
         NEW R \in SUBSET S, \A x \in R : f[x] <= e[x]
  PROVE  SumOver(f, R) <= SumOver(e, R)
<1> DEFINE T == {s \in SUBSET R : SumOver(f, s) <= SumOver(e, s)}
           pick == [s \in SUBSET R |-> CHOOSE x \in s : TRUE]
<1>1. \A s \in SUBSET S : /\ SumOver(f, s) \in Nat /\ SumOver(e, s) \in Nat
                          /\ SumOver(f, {}) = 0 /\ SumOver(e, {}) = 0
                          /\ \A x \in s : /\ SumOver(f, s) = f[x] + SumOver(f, s \ {x})
                                          /\ SumOver(e, s) = e[x] + SumOver(e, s \ {x})
  BY SumElement
<1>2. {} \in T
  BY <1>1
<1>3. ASSUME NEW s \in SUBSET R, s # {}, s \ {pick[s]} \in T PROVE s \in T
  <2>1. PICK x \in s : x = pick[s]
    BY <1>3
  <2>2. f[x] <= e[x] /\ f[x] \in Nat /\ e[x] \in Nat
    OBVIOUS
  <2>3. SumOver(f, s \ {x}) <= SumOver(e, s \ {x})
    BY <1>3, <2>1
  <2>4. /\ SumOver(f, s) = f[x] + SumOver(f, s \ {x}) /\ SumOver(e, s) = e[x] + SumOver(e, s \ {x})
        /\ SumOver(f, s \ {x}) \in Nat /\ SumOver(e, s \ {x}) \in Nat
    BY <1>1
  <2>5. SumOver(f, s) <= SumOver(e, s)
    BY <2>2, <2>3, <2>4
  <2> QED
    BY <2>5
<1>4. Picks(pick, R) /\ IsFiniteSet(R)
  BY FS_Subset DEF Picks
<1>5. R \in T
  <2> HIDE DEF pick, T
  <2> QED
    BY <1>2, <1>3, <1>4, EveryPicked
<1> QED
  BY <1>5

(* Two functions that agree but on one element have the sums this element   *)
(* makes different.                                                         *)
LEMMA SumApart ==
  ASSUME NEW S, IsFiniteSet(S), NEW f \in [S -> Nat], NEW e \in [S -> Nat],
         NEW R \in SUBSET S, NEW x \in R, \A y \in R \ {x} : f[y] = e[y]
  PROVE  SumOver(f, R) - f[x] = SumOver(e, R) - e[x]
<1>1. R \ {x} \in SUBSET S /\ \A y \in R \ {x} : f[y] <= e[y] /\ e[y] <= f[y]
  OBVIOUS
<1>2. SumOver(f, R \ {x}) <= SumOver(e, R \ {x})
  BY <1>1, SumMonotone
<1>3. SumOver(e, R \ {x}) <= SumOver(f, R \ {x})
  BY <1>1, SumMonotone
<1>4. SumOver(f, R \ {x}) \in Nat /\ SumOver(e, R \ {x}) \in Nat
  BY <1>1, SumElement
<1>5. /\ SumOver(f, R) = f[x] + SumOver(f, R \ {x})
      /\ SumOver(e, R) = e[x] + SumOver(e, R \ {x})
  BY SumElement
<1> QED
  BY <1>2, <1>3, <1>4, <1>5

(* Elements that count for nothing may be added or left out.                *)
LEMMA SumZeroes ==
  ASSUME NEW S, IsFiniteSet(S), NEW f \in [S -> Nat], NEW R \in SUBSET S, NEW Q \in SUBSET R,
         \A x \in R \ Q : f[x] = 0
  PROVE  SumOver(f, R) = SumOver(f, Q)
<1> DEFINE T == {s \in SUBSET (R \ Q) : SumOver(f, Q \cup s) = SumOver(f, Q)}
<1>1. IsFiniteSet(R \ Q)
  BY FS_Subset
<1>2. {} \in T
  OBVIOUS
<1>3. ASSUME NEW s \in SUBSET (R \ Q), NEW x \in R \ Q, s \in T PROVE s \cup {x} \in T
  <2>1. CASE x \in s
    BY <1>3, <2>1
  <2>2. CASE x \notin s
    <3>1. /\ Q \cup (s \cup {x}) \in SUBSET S /\ x \in Q \cup (s \cup {x})
          /\ (Q \cup (s \cup {x})) \ {x} = Q \cup s /\ Q \cup s \in SUBSET S
      BY <2>2
    <3>2. SumOver(f, Q \cup (s \cup {x})) = f[x] + SumOver(f, Q \cup s)
      BY <3>1, SumElement
    <3>3. SumOver(f, Q \cup s) \in Nat /\ f[x] = 0
      BY <3>1, SumElement
    <3>4. SumOver(f, Q \cup (s \cup {x})) = SumOver(f, Q)
      BY <1>3, <3>2, <3>3
    <3> QED
      BY <3>4
  <2> QED
    BY <2>1, <2>2
<1>4. R \ Q \in T
  <2> HIDE DEF T
  <2> QED
    BY <1>1, <1>2, <1>3, EveryFiniteSet
<1>5. Q \cup (R \ Q) = R
  OBVIOUS
<1> QED
  BY <1>4, <1>5

=============================================================================
