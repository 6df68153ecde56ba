----------------------------- MODULE FoldLemmas -----------------------------
(***************************************************************************)
(* Induction and folds in a form that needs no operator as a parameter: an *)
(* induction is over the set of the numbers, or of the subsets, for which  *)
(* the claim holds, and a fold is over a step that is a function.          *)
(***************************************************************************)
EXTENDS Integers, Sequences, FiniteSets, FiniteSetTheorems, TLAPS

---------------------------------------------------------------------------
(* Induction *)

(* Every nonempty set of numbers has a least one. *)
LEMMA LeastNumber ==
  ASSUME NEW T \in SUBSET Nat, T # {}
  PROVE  \E m \in T : \A k \in T : m <= k
<1>1. PICK m \in T : \A k \in T : ~ (<<k, m>> \in OpToRel(<, Nat))
  BY NatLessThanWellFounded, WFMin
<1>2. \A k \in T : k < m => <<k, m>> \in OpToRel(<, Nat)
  BY Zenon DEF OpToRel
<1>3. \A k \in T : k \in Nat /\ m \in Nat /\ ~ (k < m)
  BY <1>1, <1>2
<1>4. \A k \in T : m <= k
  BY <1>3
<1> QED
  BY <1>4

(* A set of numbers that has zero and every successor has them all. *)
LEMMA NumberInduction ==
  ASSUME NEW T, 0 \in T, \A n \in Nat : n \in T => n + 1 \in T
  PROVE  Nat \subseteq T
<1> SUFFICES ASSUME Nat \ T # {} PROVE FALSE
  OBVIOUS
<1>1. PICK m \in Nat \ T : \A k \in Nat \ T : m <= k
  BY LeastNumber
<1>2. m # 0 /\ m - 1 \in Nat /\ m - 1 \notin Nat \ T
  BY <1>1
<1> QED
  BY <1>1, <1>2

(* A collection that has the empty set, and with a subset of S that set    *)
(* with one more element, has every subset of S.                           *)
LEMMA SubsetInduction ==
  ASSUME NEW S, IsFiniteSet(S), NEW T, {} \in T,
         \A X \in SUBSET S : \A x \in S \ X : X \in T => X \cup {x} \in T
  PROVE  SUBSET S \subseteq T
<1> DEFINE Size(n) == {X \in SUBSET S : Cardinality(X) = n}
           Good == {n \in Nat : Size(n) \subseteq T}
<1>1. \A X \in SUBSET S : IsFiniteSet(X) /\ Cardinality(X) \in Nat
  BY FS_Subset, FS_CardinalityType
<1>2. 0 \in Good
  BY <1>1, FS_EmptySet
<1>3. ASSUME NEW n \in Good PROVE n + 1 \in Good
  <2> SUFFICES ASSUME NEW X \in Size(n + 1) PROVE X \in T
    OBVIOUS
  <2>1. X # {}
    BY FS_EmptySet
  <2>2. PICK x \in X : TRUE
    BY <2>1
  <2>3. Cardinality(X \ {x}) = n /\ X \ {x} \in SUBSET S
    <3>1. IsFiniteSet(X) /\ Cardinality(X) = n + 1 /\ n \in Nat /\ X \in SUBSET S
      BY <1>1
    <3>2. Cardinality(X \ {x}) = Cardinality(X) - 1
      BY <2>2, <3>1, FS_RemoveElement, Zenon
    <3> QED
      BY <3>1, <3>2
  <2>4. X \ {x} \in T
    BY <2>3
  <2>5. (X \ {x}) \cup {x} = X
    OBVIOUS
  <2> QED
    BY <2>3, <2>4, <2>5
<1>4. Nat \subseteq Good
  BY <1>2, <1>3, NumberInduction
<1> QED
  BY <1>1, <1>4

---------------------------------------------------------------------------
(* Folds *)

(* g is what iterating step over the subsets of S comes to, the element    *)
(* that pick takes out of a subset being the last one.                     *)
IsFold(g, S, base, step, pick) ==
  g = [X \in SUBSET S |->
         IF X = {} THEN base ELSE step[pick[X]][g[X \ {pick[X]}]]]

(* There is such a function on every finite set, of the type of the step. *)
LEMMA FoldExists ==
  ASSUME NEW S, IsFiniteSet(S), NEW V, NEW base \in V, NEW step \in [S -> [V -> V]],
         NEW pick, \A X \in SUBSET S : X # {} => pick[X] \in X
  PROVE  \E g \in [SUBSET S -> V] : IsFold(g, S, base, step, pick)
<1> DEFINE Upto(n) == {X \in SUBSET S : Cardinality(X) <= n}
           Body(g, X) == IF X = {} THEN base ELSE step[pick[X]][g[X \ {pick[X]}]]
           Solves(g, n) == g \in [Upto(n) -> V] /\ \A X \in Upto(n) : g[X] = Body(g, X)
           Good == {n \in Nat : \E g \in [Upto(n) -> V] : Solves(g, n)}
<1>1. \A X \in SUBSET S : IsFiniteSet(X) /\ Cardinality(X) \in Nat
  BY FS_Subset, FS_CardinalityType
<1>2. ASSUME NEW n \in Nat, NEW X \in Upto(n + 1), X # {}
      PROVE  X \ {pick[X]} \in Upto(n) /\ pick[X] \in S
  <2>1. pick[X] \in X
    BY <1>2
  <2> QED
    BY <1>1, <2>1, FS_RemoveElement
<1>3. 0 \in Good
  <2>1. Upto(0) = {{}}
    BY <1>1, FS_EmptySet
  <2>2. Solves([X \in Upto(0) |-> base], 0)
    BY <2>1
  <2> QED
    BY <2>2
<1>4. ASSUME NEW n \in Good PROVE n + 1 \in Good
  <2>1. PICK g \in [Upto(n) -> V] : Solves(g, n)
    OBVIOUS
  <2> DEFINE h == [X \in Upto(n + 1) |-> Body(g, X)]
  <2>2. h \in [Upto(n + 1) -> V]
    BY <1>2
  <2>3. \A X \in Upto(n) : X \in Upto(n + 1) /\ h[X] = g[X]
    <3>1. n \in Nat
      OBVIOUS
    <3>2. ASSUME NEW X \in Upto(n) PROVE X \in Upto(n + 1)
      <4>1. Cardinality(X) \in Nat /\ Cardinality(X) <= n
        BY <1>1
      <4>2. Cardinality(X) <= n + 1
        BY <3>1, <4>1
      <4> QED
        BY <4>2
    <3> QED
      BY <2>1, <3>2
  <2>4. \A X \in Upto(n + 1) : h[X] = Body(h, X)
    BY <1>2, <2>3
  <2>5. n + 1 \in Nat
    OBVIOUS
  <2>6. Solves(h, n + 1)
    BY <2>2, <2>4, Zenon
  <2> HIDE DEF h, Solves, Upto
  <2> QED
    BY <2>2, <2>5, <2>6
<1>5. Cardinality(S) \in Nat /\ Upto(Cardinality(S)) = SUBSET S
  BY FS_CardinalityType, FS_Subset
<1>6. Cardinality(S) \in Good
  BY <1>3, <1>4, <1>5, NumberInduction
<1>7. PICK g \in [SUBSET S -> V] : \A X \in SUBSET S : g[X] = Body(g, X)
  BY <1>5, <1>6
<1>8. g = [X \in SUBSET S |-> Body(g, X)]
  BY <1>7
<1> QED
  BY <1>7, <1>8 DEF IsFold

(* What a fold comes to has the type of the step. *)
LEMMA FoldType ==
  ASSUME NEW S, IsFiniteSet(S), NEW V, NEW base \in V, NEW step,
         \A x \in S : \A v \in V : step[x][v] \in V,
         NEW pick, \A X \in SUBSET S : X # {} => pick[X] \in X,
         NEW g, IsFold(g, S, base, step, pick)
  PROVE  g \in [SUBSET S -> V]
<1> DEFINE Good == {n \in Nat : \A X \in SUBSET S : Cardinality(X) = n => g[X] \in V}
<1>1. \A X \in SUBSET S : IsFiniteSet(X) /\ Cardinality(X) \in Nat
  BY FS_Subset, FS_CardinalityType
<1>2. \A X \in SUBSET S :
        g[X] = IF X = {} THEN base ELSE step[pick[X]][g[X \ {pick[X]}]]
  BY DEF IsFold
<1>3. 0 \in Good
  BY <1>1, <1>2, FS_EmptySet
<1>4. ASSUME NEW n \in Nat, n \in Good PROVE n + 1 \in Good
  <2> SUFFICES ASSUME NEW X \in SUBSET S, Cardinality(X) = n + 1 PROVE g[X] \in V
    OBVIOUS
  <2>1. X # {}
    <3>1. n + 1 # 0
      OBVIOUS
    <3> QED
      BY <3>1, FS_EmptySet, Zenon
  <2>2. pick[X] \in X /\ pick[X] \in S /\ X \ {pick[X]} \in SUBSET S
    BY <2>1
  <2>3. Cardinality(X \ {pick[X]}) = Cardinality(X) - 1
    BY <1>1, <2>2, FS_RemoveElement, Zenon
  <2>4. Cardinality(X \ {pick[X]}) = n
    BY <2>3
  <2>5. g[X \ {pick[X]}] \in V
    BY <1>4, <2>2, <2>4
  <2> QED
    BY <1>2, <2>1, <2>2, <2>5
<1>5. Nat \subseteq Good
  BY <1>3, <1>4, NumberInduction
<1>6. \A X \in SUBSET S : g[X] \in V
  BY <1>1, <1>5
<1> QED
  BY <1>6 DEF IsFold

---------------------------------------------------------------------------
(* Sums *)

IsSum(g, S, f, pick) ==
  g = [X \in SUBSET S |->
         IF X = {} THEN 0 ELSE f[pick[X]] + g[X \ {pick[X]}]]

LEMMA SumExists ==
  ASSUME NEW S, IsFiniteSet(S), NEW f \in [S -> Int],
         NEW pick, \A X \in SUBSET S : X # {} => pick[X] \in X
  PROVE  \E g : IsSum(g, S, f, pick)
<1> DEFINE step == [x \in S |-> [v \in Int |-> f[x] + v]]
<1>1. step \in [S -> [Int -> Int]]
  OBVIOUS
<1>2. \A x \in S : \A v \in Int : step[x][v] = f[x] + v
  OBVIOUS
<1> HIDE DEF step
<1> DEFINE zero == 0
<1>0. zero \in Int
  OBVIOUS
<1> HIDE DEF zero
<1>3. PICK g \in [SUBSET S -> Int] : IsFold(g, S, zero, step, pick)
  BY <1>0, <1>1, FoldExists, Zenon
<1>4. \A X \in SUBSET S : X # {} =>
        step[pick[X]][g[X \ {pick[X]}]] = f[pick[X]] + g[X \ {pick[X]}]
  <2> TAKE X \in SUBSET S
  <2> HAVE X # {}
  <2>1. pick[X] \in S /\ X \ {pick[X]} \in SUBSET S
    OBVIOUS
  <2> QED
    BY <1>2, <1>3, <2>1
<1>5. \A X \in SUBSET S :
        g[X] = IF X = {} THEN 0 ELSE f[pick[X]] + g[X \ {pick[X]}]
  BY <1>3, <1>4 DEF IsFold, zero
<1> QED
  BY <1>3, <1>5 DEF IsSum

(* It does not matter which element is added last. *)
Additive(g, S, f) ==
  /\ g \in [SUBSET S -> Int]
  /\ g[{}] = 0
  /\ \A X \in SUBSET S : \A x \in X : g[X] = f[x] + g[X \ {x}]

LEMMA SumIsAdditive ==
  ASSUME NEW S, IsFiniteSet(S), NEW f \in [S -> Int],
         NEW pick, \A X \in SUBSET S : X # {} => pick[X] \in X,
         NEW g, IsSum(g, S, f, pick)
  PROVE  Additive(g, S, f)
<1> DEFINE step == [x \in S |-> [v \in {g[X] : X \in SUBSET S} \cup Int |-> f[x] + v]]
           AnyLast(X) == \A x \in X : g[X] = f[x] + g[X \ {x}]
           Good == {n \in Nat : \A X \in SUBSET S : Cardinality(X) = n => AnyLast(X)}
<1>1. \A X \in SUBSET S : IsFiniteSet(X) /\ Cardinality(X) \in Nat
  BY FS_Subset, FS_CardinalityType
<1>2. \A X \in SUBSET S :
        g[X] = IF X = {} THEN 0 ELSE f[pick[X]] + g[X \ {pick[X]}]
  BY DEF IsSum
<1>3. g \in [SUBSET S -> Int]
  <2>1. \A x \in S : \A v \in Int : step[x][v] \in Int
    OBVIOUS
  <2>2. \A X \in SUBSET S : X # {} =>
          step[pick[X]][g[X \ {pick[X]}]] = f[pick[X]] + g[X \ {pick[X]}]
    OBVIOUS
  <2> HIDE DEF step
  <2>3. IsFold(g, S, 0, step, pick)
    <3>1. g = [X \in SUBSET S |-> g[X]]
      BY DEF IsSum
    <3>2. \A X \in SUBSET S :
            g[X] = IF X = {} THEN 0 ELSE step[pick[X]][g[X \ {pick[X]}]]
      BY <1>2, <2>2
    <3> QED
      BY <3>1, <3>2 DEF IsFold
  <2> DEFINE zero == 0
  <2>4. zero \in Int
    OBVIOUS
  <2> HIDE DEF zero
  <2>5. IsFold(g, S, zero, step, pick)
    BY <2>3 DEF zero
  <2> QED
    BY <2>1, <2>4, <2>5, FoldType, Zenon
<1>4. 0 \in Good
  BY <1>1, FS_EmptySet
<1>5. ASSUME NEW n \in Nat, n \in Good PROVE n + 1 \in Good
  <2> SUFFICES ASSUME NEW X \in SUBSET S, Cardinality(X) = n + 1, NEW x \in X
               PROVE  g[X] = f[x] + g[X \ {x}]
    OBVIOUS
  <2> DEFINE p == pick[X]
             rest == (X \ {x}) \ {p}
  <2>1. p \in X /\ g[X] = f[p] + g[X \ {p}]
    BY <1>2
  <2>2. CASE x = p
    BY <2>1, <2>2
  <2>3. CASE x # p
    <3>1. Cardinality(X \ {p}) = Cardinality(X) - 1 /\ Cardinality(X \ {x}) = Cardinality(X) - 1
      BY <1>1, <2>1, FS_RemoveElement, Zenon
    <3>2. Cardinality(X \ {p}) = n /\ Cardinality(X \ {x}) = n
      BY <3>1
    <3>3. AnyLast(X \ {p}) /\ AnyLast(X \ {x})
      BY <1>5, <3>2
    <3>4. x \in X \ {p} /\ p \in X \ {x} /\ (X \ {p}) \ {x} = rest
      BY <2>1, <2>3
    <3>5. g[X \ {p}] = f[x] + g[rest] /\ g[X \ {x}] = f[p] + g[rest]
      BY <3>3, <3>4
    <3>6. g[rest] \in Int /\ f[x] \in Int /\ f[p] \in Int
      BY <1>3, <2>1
    <3> QED
      BY <2>1, <3>5, <3>6
  <2> QED
    BY <2>2, <2>3
<1>6. Nat \subseteq Good
  BY <1>4, <1>5, NumberInduction
<1>7. \A X \in SUBSET S : AnyLast(X)
  BY <1>1, <1>6
<1> QED
  BY <1>2, <1>3, <1>7 DEF Additive

LEMMA SumAdds ==
  ASSUME NEW S, NEW f, NEW g, Additive(g, S, f),
         NEW Y \in SUBSET S, NEW x \in Y, NEW X, X = Y \ {x}
  PROVE  g[Y] = f[x] + g[X]
BY DEF Additive

(* Sums of two functions that differ at one element differ by as much. *)
LEMMA SumChanges ==
  ASSUME NEW S, IsFiniteSet(S), NEW f \in [S -> Int], NEW h \in [S -> Int], NEW s \in S,
         \A x \in S \ {s} : f[x] = h[x],
         NEW g, Additive(g, S, f), NEW k, Additive(k, S, h)
  PROVE  k[S] = g[S] + h[s] - f[s] /\ g[S] \in Int
<1> DEFINE R == S \ {s}
           T == {X \in SUBSET R : g[X] = k[X]}
<1>1. IsFiniteSet(R)
  BY FS_RemoveElement
<1>2. {} \in T
  BY DEF Additive
<1>3. ASSUME NEW X \in SUBSET R, NEW x \in R \ X, X \in T PROVE X \cup {x} \in T
  <2> DEFINE Y == X \cup {x}
  <2>1. Y \in SUBSET S /\ Y \in SUBSET R /\ x \in Y /\ X = Y \ {x} /\ f[x] = h[x]
    BY <1>3
  <2> HIDE DEF Y
  <2>2. g[Y] = f[x] + g[X] /\ k[Y] = h[x] + k[X]
    BY <2>1, SumAdds
  <2>3. Y \in T
    BY <1>3, <2>1, <2>2
  <2> QED
    BY <2>3 DEF Y
<1>4. R \in T
  <2> HIDE DEF T, R
  <2>1. SUBSET R \subseteq T
    BY <1>1, <1>2, <1>3, SubsetInduction
  <2> QED
    BY <2>1
<1>5. g[S] = f[s] + g[R] /\ k[S] = h[s] + k[R]
  BY DEF Additive
<1>6. g[R] \in Int /\ g[S] \in Int /\ f[s] \in Int /\ h[s] \in Int
  BY DEF Additive
<1> QED
  BY <1>4, <1>5, <1>6

(* Sums over sets that correspond one to one are equal. *)
LEMMA SumsCorrespond ==
  ASSUME NEW S, IsFiniteSet(S), NEW f \in [S -> Int], NEW g, Additive(g, S, f),
         NEW U, NEW h \in [U -> Int], NEW k, Additive(k, U, h),
         NEW b \in [S -> U], \A x, y \in S : b[x] = b[y] => x = y,
         \A u \in U : \E x \in S : b[x] = u,
         \A x \in S : f[x] = h[b[x]]
  PROVE  g[S] = k[U]
<1> DEFINE Image(X) == {b[x] : x \in X}
           T == {X \in SUBSET S : g[X] = k[Image(X)]}
<1>1. {} \in T
  <2>1. Image({}) = {}
    OBVIOUS
  <2> QED
    BY <2>1 DEF Additive
<1>2. ASSUME NEW X \in SUBSET S, NEW x \in S \ X, X \in T PROVE X \cup {x} \in T
  <2> DEFINE Y == X \cup {x}
  <2>1. Y \in SUBSET S /\ x \in Y /\ X = Y \ {x}
    OBVIOUS
  <2>2. Image(Y) \in SUBSET U /\ b[x] \in Image(Y)
    OBVIOUS
  <2>3. Image(X) = Image(Y) \ {b[x]}
    OBVIOUS
  <2> HIDE DEF Image, Y
  <2>4. g[Y] = f[x] + g[X]
    BY <2>1, SumAdds
  <2>5. k[Image(Y)] = h[b[x]] + k[Image(X)]
    BY <2>2, <2>3, SumAdds
  <2>6. Y \in T
    BY <1>2, <2>1, <2>4, <2>5
  <2> QED
    BY <2>6 DEF Y
<1>3. S \in T
  <2> HIDE DEF T
  <2>1. SUBSET S \subseteq T
    BY <1>1, <1>2, SubsetInduction
  <2> QED
    BY <2>1
<1>4. Image(S) = U
  OBVIOUS
<1> QED
  BY <1>3, <1>4

LEMMA SumOfZeros ==
  ASSUME NEW S, IsFiniteSet(S), NEW f, \A x \in S : f[x] = 0, NEW g, Additive(g, S, f)
  PROVE  g[S] = 0
<1> DEFINE T == {X \in SUBSET S : g[X] = 0}
<1>1. {} \in T
  BY DEF Additive
<1>2. ASSUME NEW X \in SUBSET S, NEW x \in S \ X, X \in T PROVE X \cup {x} \in T
  <2> DEFINE Y == X \cup {x}
  <2>1. Y \in SUBSET S /\ x \in Y /\ X = Y \ {x}
    OBVIOUS
  <2> HIDE DEF Y
  <2>2. g[Y] = f[x] + g[X]
    BY <2>1, SumAdds
  <2>3. Y \in T
    BY <1>2, <2>1, <2>2
  <2> QED
    BY <2>3 DEF Y
<1> HIDE DEF T
<1>3. SUBSET S \subseteq T
  BY <1>1, <1>2, SubsetInduction
<1> QED
  BY <1>3 DEF T

---------------------------------------------------------------------------
(* Folds of sequences, from the left *)

(* The greatest element of a set of positions is the last one folded. *)
LEMMA LastOfPrefix ==
  ASSUME NEW n \in Nat, n # 0, NEW m \in 1..n, \A i \in 1..n : m >= i
  PROVE  m = n /\ (1..n) \ {m} = 1..(n - 1)
OBVIOUS

(* Every nonempty finite set of numbers has a greatest one. *)
LEMMA GreatestNumber ==
  ASSUME NEW n \in Nat, NEW X \in SUBSET (1..n), X # {}
  PROVE  \E m \in X : \A i \in X : m >= i
<1> DEFINE T == {n - x : x \in X}
<1>0. \A x \in X : x \in Nat /\ x <= n /\ n - x \in Nat
  OBVIOUS
<1>1. T \in SUBSET Nat /\ T # {}
  BY <1>0
<1>2. PICK m \in T : \A k \in T : m <= k
  BY <1>1, LeastNumber
<1>3. PICK x \in X : m = n - x
  OBVIOUS
<1>4. \A i \in X : n - i \in T
  OBVIOUS
<1>5. ASSUME NEW i \in X PROVE x >= i
  <2>1. n - x <= n - i
    BY <1>2, <1>3, <1>4
  <2> QED
    BY <1>0, <2>1
<1> QED
  BY <1>5

(* What a fold comes to after each position, and in the end *)
IsScan(a, n, base, step, end) ==
  a[0] = base /\ a[n] = end /\ \A i \in 1..n : a[i] = step[i][a[i - 1]]

(* What a fold over the positions of a sequence comes to, position by      *)
(* position, the last one being folded last.                               *)
LEMMA FoldOfSequence ==
  ASSUME NEW n \in Nat, NEW V, NEW base \in V, NEW step,
         \A i \in 1..n : \A v \in V : step[i][v] \in V,
         NEW pick,
         \A X \in SUBSET (1..n) : X # {} => pick[X] \in X /\ \A i \in X : pick[X] >= i,
         NEW g, IsFold(g, 1..n, base, step, pick)
  PROVE  \E a \in [0..n -> V] : IsScan(a, n, base, step, g[1..n])
<1> DEFINE S == 1..n
           a == [i \in 0..n |-> g[1..i]]
<1>1. IsFiniteSet(S)
  BY FS_Interval
<1>2. g \in [SUBSET S -> V]
  <2> HIDE DEF S
  <2> QED
    BY <1>1, FoldType DEF S
<1>3. \A i \in 0..n : 1..i \in SUBSET S
  OBVIOUS
<1>4. a \in [0..n -> V] /\ a[n] = g[1..n]
  BY <1>2, <1>3
<1>5. a[0] = base
  <2>1. 1..0 = {} /\ 0 \in 0..n
    OBVIOUS
  <2> QED
    BY <2>1 DEF IsFold
<1>6. ASSUME NEW i \in 1..n PROVE a[i] = step[i][a[i - 1]]
  <2> DEFINE X == 1..i
  <2>1. X \in SUBSET S /\ X # {} /\ i \in Nat /\ i # 0 /\ i - 1 \in 0..n /\ i \in 0..n
    <3>1. i \in Nat /\ i # 0 /\ i - 1 \in 0..n /\ i \in 0..n
      OBVIOUS
    <3>2. i \in 1..i /\ 1..i \subseteq 1..n
      OBVIOUS
    <3> QED
      BY <3>1, <3>2
  <2>2. pick[X] \in 1..i /\ \A j \in 1..i : pick[X] >= j
    BY <2>1
  <2>3. pick[X] = i /\ X \ {pick[X]} = 1..(i - 1)
    <3> DEFINE m == pick[X]
    <3> HIDE DEF m
    <3>1. m \in 1..i /\ \A j \in 1..i : m >= j
      BY <2>2 DEF m
    <3>2. m = i /\ (1..i) \ {m} = 1..(i - 1)
      BY <2>1, <3>1, LastOfPrefix
    <3> QED
      BY <3>2 DEF m
  <2> HIDE DEF X
  <2>4. g[X] = step[pick[X]][g[X \ {pick[X]}]]
    BY <2>1 DEF IsFold
  <2>5. a[i] = g[X] /\ a[i - 1] = g[1..(i - 1)]
    BY <2>1 DEF X
  <2> QED
    BY <2>3, <2>4, <2>5
<1> QED
  BY <1>4, <1>5, <1>6 DEF IsScan
=============================================================================
