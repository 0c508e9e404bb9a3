---------------------------- MODULE ProofLemmas ----------------------------
(***************************************************************************)
(* Facts that the proofs of this project share and that the library does   *)
(* not state in a form the provers can use: induction over the natural     *)
(* numbers and over a finite set (with a set in the place of a predicate), *)
(* functions defined by recursion, sums, and arithmetic modulo a word.     *)
(***************************************************************************)
EXTENDS Integers, FiniteSets, Functions, Folds, FiniteSetTheorems, TLAPS

-----------------------------------------------------------------------------
(* Induction. *)

LEMMA Least ==
  ASSUME NEW S \in SUBSET Nat, S # {}
  PROVE  \E n \in S : \A m \in S : n <= m
<1> DEFINE R == OpToRel(<, Nat)
<1>1. IsWellFoundedOn(R, Nat)
  BY NatLessThanWellFounded
<1>2. \A x, y \in Nat : <<y, x>> \in R <=> y < x
  BY DEF OpToRel
<1> HIDE DEF R
<1>3. PICK x \in S : \A y \in S : <<y, x>> \notin R
  BY <1>1, WFMin
<1>4. ASSUME NEW y \in S PROVE x <= y
  <2>1. x \in Nat /\ y \in Nat /\ ~(y < x)
    BY <1>2, <1>3
  <2> QED
    BY <2>1
<1> QED
  BY <1>4

LEMMA NatInd ==
  ASSUME NEW S, 0 \in S, \A n \in Nat : n \in S => n + 1 \in S
  PROVE  Nat \subseteq S
<1> SUFFICES ASSUME Nat \ S # {} PROVE FALSE
  OBVIOUS
<1>1. PICK n \in Nat \ S : \A m \in Nat \ S : n <= m
  BY Least
<1>2. n - 1 \in Nat /\ n - 1 \in S
  BY <1>1
<1> QED
  BY <1>1, <1>2

LEMMA UpTo ==
  ASSUME NEW N \in Nat, NEW S, 0 \in S, \A n \in 1 .. N : n - 1 \in S => n \in S
  PROVE  0 .. N \subseteq S
<1> DEFINE T == {n \in Nat : n <= N => n \in S}
<1>1. 0 \in T
  OBVIOUS
<1>2. ASSUME NEW n \in Nat, n \in T PROVE n + 1 \in T
  <2> SUFFICES ASSUME n + 1 <= N PROVE n + 1 \in S
    OBVIOUS
  <2>1. n + 1 \in 1 .. N /\ (n + 1) - 1 = n /\ n \in S
    BY <1>2
  <2> QED
    BY <2>1
<1>3. Nat \subseteq T
  <2> HIDE DEF T
  <2> QED
    BY <1>1, <1>2, NatInd
<1> QED
  BY <1>3

LEMMA SetInd ==
  ASSUME NEW S, IsFiniteSet(S), NEW P \in SUBSET SUBSET S, {} \in P,
         \A T \in P : \A x \in S \ T : T \cup {x} \in P
  PROVE  S \in P
<1> DEFINE N == {n \in Nat : \A T \in SUBSET S : Cardinality(T) = n => T \in P}
<1>1. 0 \in N
  BY FS_EmptySet, FS_Subset
<1>2. ASSUME NEW n \in Nat, n \in N PROVE n + 1 \in N
  <2>1. SUFFICES ASSUME NEW T \in SUBSET S, Cardinality(T) = n + 1 PROVE T \in P
    OBVIOUS
  <2>2. IsFiniteSet(T)
    BY FS_Subset
  <2>3. PICK x \in T : TRUE
    BY <2>1, <2>2, FS_EmptySet
  <2>4. Cardinality(T \ {x}) = Cardinality(T) - 1
    BY <2>2, <2>3, FS_RemoveElement
  <2>5. Cardinality(T \ {x}) = n
    BY <2>1, <2>4
  <2>6. T \ {x} \in P
    BY <1>2, <2>5
  <2>7. T = (T \ {x}) \cup {x} /\ x \notin T \ {x}
    OBVIOUS
  <2> QED
    BY <2>6, <2>7
<1>3. Nat \subseteq N
  <2> HIDE DEF N
  <2> QED
    BY <1>1, <1>2, NatInd
<1> QED
  BY <1>3, FS_CardinalityType

-----------------------------------------------------------------------------
(* Recursion: iterating a function from a starting point. *)

\* The step may depend on its number.
RecursionRule(A, a, step, N, g) ==
  g \in [0 .. N -> A] /\ g[0] = a /\ \A n \in 1 .. N : g[n] = step[n][g[n - 1]]

LEMMA Recursion ==
  ASSUME NEW A, NEW a \in A, NEW N \in Nat, NEW step \in [1 .. N -> [A -> A]]
  PROVE  \E g : RecursionRule(A, a, step, N, g)
<1> DEFINE P == {m \in Nat : m <= N => \E g \in [0 .. m -> A] :
                   g[0] = a /\ \A n \in 1 .. m : g[n] = step[n][g[n - 1]]}
<1>1. 0 \in P
  <2> DEFINE g == [n \in 0 .. 0 |-> a]
  <2>1. g \in [0 .. 0 -> A] /\ g[0] = a
    OBVIOUS
  <2>2. 1 .. 0 = {}
    OBVIOUS
  <2> HIDE DEF g
  <2> QED
    BY <2>1, <2>2
<1>2. ASSUME NEW m \in Nat, m \in P PROVE m + 1 \in P
  <2> SUFFICES ASSUME m + 1 <= N
               PROVE  \E g \in [0 .. m + 1 -> A] :
                        g[0] = a /\ \A n \in 1 .. m + 1 : g[n] = step[n][g[n - 1]]
    OBVIOUS
  <2>1. PICK g \in [0 .. m -> A] :
          g[0] = a /\ \A n \in 1 .. m : g[n] = step[n][g[n - 1]]
    BY <1>2
  <2> DEFINE v == step[m + 1][g[m]]
             h == [n \in 0 .. m + 1 |-> IF n = m + 1 THEN v ELSE g[n]]
  <2>2. \A n \in 0 .. m + 1 : n # m + 1 => n \in 0 .. m
    OBVIOUS
  <2>3. m \in 0 .. m /\ g[m] \in A /\ m + 1 \in 1 .. N
    OBVIOUS
  <2>4. v \in A
    BY <2>3
  <2>5. v = step[m + 1][g[m]]
    OBVIOUS
  <2> HIDE DEF v
  <2>6. h \in [0 .. m + 1 -> A]
    BY <2>2, <2>4
  <2>7. h[0] = a
    BY <2>1
  <2>8. ASSUME NEW n \in 1 .. m + 1 PROVE h[n] = step[n][h[n - 1]]
    <3>1. n - 1 \in 0 .. m + 1 /\ n - 1 # m + 1 /\ n \in 0 .. m + 1
      BY <2>8
    <3>2. h[n - 1] = g[n - 1]
      BY <3>1
    <3>3. CASE n = m + 1
      <4>1. h[n] = v /\ n - 1 = m
        BY <3>1, <3>3
      <4> QED
        BY <2>5, <3>2, <3>3, <4>1
    <3>4. CASE n # m + 1
      <4>1. n \in 1 .. m /\ h[n] = g[n]
        BY <3>1, <3>4
      <4> HIDE DEF h
      <4> QED
        BY <2>1, <3>2, <4>1
    <3> QED
      BY <3>3, <3>4
  <2> HIDE DEF h
  <2> QED
    BY <2>6, <2>7, <2>8
<1>3. Nat \subseteq P
  <2> HIDE DEF P
  <2> QED
    BY <1>1, <1>2, NatInd
<1>4. N \in P /\ N <= N
  BY <1>3
<1> QED
  BY <1>4 DEF RecursionRule

-----------------------------------------------------------------------------
(* Sums. *)

\* One element of a nonempty set: the order in which the library's folds take them.
Pick(s) == CHOOSE x \in s : TRUE

\* g adds f up over every subset of S.
SumRule(S, f, g) ==
  /\ g \in [SUBSET S -> Int]
  /\ \A s \in SUBSET S : g[s] = IF s = {} THEN 0 ELSE f[Pick(s)] + g[s \ {Pick(s)}]

\* There is such a g.
LEMMA SumExists ==
  ASSUME NEW S, IsFiniteSet(S), NEW f \in [S -> Int]
  PROVE  \E g : SumRule(S, f, g)
<1> DEFINE Small(n) == {s \in SUBSET S : Cardinality(s) <= n}
           P == {n \in Nat : \E g \in [Small(n) -> Int] : \A s \in Small(n) :
                   g[s] = IF s = {} THEN 0 ELSE f[Pick(s)] + g[s \ {Pick(s)}]}
<1>0. ASSUME NEW s \in SUBSET S, s # {}
      PROVE  /\ Pick(s) \in s /\ s \ {Pick(s)} \in SUBSET S
             /\ Cardinality(s \ {Pick(s)}) = Cardinality(s) - 1
             /\ Cardinality(s) \in Nat
  <2>1. Pick(s) \in s
    BY <1>0 DEF Pick
  <2>2. IsFiniteSet(s)
    BY FS_Subset
  <2> QED
    BY <2>1, <2>2, FS_RemoveElement, FS_CardinalityType
<1>1. 0 \in P
  <2>1. Small(0) = {{}}
    BY <1>0, FS_EmptySet, FS_Subset, FS_CardinalityType
  <2> DEFINE g == [s \in Small(0) |-> 0]
  <2>2. g \in [Small(0) -> Int] /\ \A s \in Small(0) : g[s] = 0 /\ s = {}
    BY <2>1
  <2> HIDE DEF g, Small
  <2> QED
    BY <2>2
<1>2. ASSUME NEW m \in Nat, m \in P PROVE m + 1 \in P
  <2>1. PICK g \in [Small(m) -> Int] : \A s \in Small(m) :
          g[s] = IF s = {} THEN 0 ELSE f[Pick(s)] + g[s \ {Pick(s)}]
    BY <1>2
  <2> DEFINE h == [s \in Small(m + 1) |->
                     IF s = {} THEN 0 ELSE f[Pick(s)] + g[s \ {Pick(s)}]]
  <2>2. ASSUME NEW s \in Small(m + 1), s # {}
        PROVE  s \ {Pick(s)} \in Small(m) /\ Pick(s) \in S
    BY <1>0, <2>2
  <2>3. h \in [Small(m + 1) -> Int]
    <3> SUFFICES ASSUME NEW s \in Small(m + 1), s # {}
                 PROVE  f[Pick(s)] + g[s \ {Pick(s)}] \in Int
      OBVIOUS
    <3>1. f[Pick(s)] \in Int /\ g[s \ {Pick(s)}] \in Int
      BY <2>2
    <3> QED
      BY <3>1
  <2>4. ASSUME NEW s \in Small(m) PROVE s \in Small(m + 1) /\ h[s] = g[s]
    <3>1. Cardinality(s) \in Nat
      BY FS_Subset, FS_CardinalityType
    <3>2. s \in Small(m + 1)
      BY <3>1
    <3> QED
      BY <2>1, <3>2
  <2>5. ASSUME NEW s \in Small(m + 1)
        PROVE  h[s] = IF s = {} THEN 0 ELSE f[Pick(s)] + h[s \ {Pick(s)}]
    <3>1. CASE s = {}
      BY <3>1
    <3>2. CASE s # {}
      <4>1. h[s \ {Pick(s)}] = g[s \ {Pick(s)}]
        BY <2>2, <2>4, <3>2
      <4> QED
        BY <3>2, <4>1
    <3> QED
      BY <3>1, <3>2
  <2> HIDE DEF h, Small
  <2>6. \E e \in [Small(m + 1) -> Int] : \A s \in Small(m + 1) :
          e[s] = IF s = {} THEN 0 ELSE f[Pick(s)] + e[s \ {Pick(s)}]
    BY <2>3, <2>5
  <2>7. m + 1 \in Nat
    OBVIOUS
  <2> QED
    BY <2>6, <2>7
<1>3. Nat \subseteq P
  <2> HIDE DEF P
  <2> QED
    BY <1>1, <1>2, NatInd
<1>4. Cardinality(S) \in Nat /\ Small(Cardinality(S)) = SUBSET S
  BY FS_Subset, FS_CardinalityType
<1> QED
  BY <1>3, <1>4, ZenonT(30) DEF SumRule

\* Whichever element is set apart, the sum is that element and the sum of the others.
LEMMA SumSplit ==
  ASSUME NEW S, IsFiniteSet(S), NEW f \in [S -> Int], NEW g, SumRule(S, f, g)
  PROVE  \A s \in SUBSET S : \A x \in s : g[s] = f[x] + g[s \ {x}]
<1> DEFINE P == {n \in Nat : \A s \in SUBSET S : Cardinality(s) = n =>
                   \A x \in s : g[s] = f[x] + g[s \ {x}]}
<1>0. /\ g \in [SUBSET S -> Int]
      /\ \A s \in SUBSET S : g[s] = IF s = {} THEN 0 ELSE f[Pick(s)] + g[s \ {Pick(s)}]
  BY DEF SumRule
<1>1. 0 \in P
  BY FS_EmptySet, FS_Subset
<1>2. ASSUME NEW n \in Nat, n \in P PROVE n + 1 \in P
  <2> SUFFICES ASSUME NEW s \in SUBSET S, Cardinality(s) = n + 1, NEW x \in s
               PROVE  g[s] = f[x] + g[s \ {x}]
    OBVIOUS
  <2> DEFINE y == Pick(s)
  <2>1. y \in s /\ g[s] = f[y] + g[s \ {y}]
    BY <1>0 DEF Pick
  <2> HIDE DEF y
  <2>2. CASE x = y
    BY <2>1, <2>2
  <2>3. CASE x # y
    <3>1. IsFiniteSet(s)
      BY FS_Subset
    <3>2. Cardinality(s \ {y}) = Cardinality(s) - 1 /\ Cardinality(s \ {x}) = Cardinality(s) - 1
      BY <2>1, <3>1, FS_RemoveElement
    <3>3. Cardinality(s \ {y}) = n /\ Cardinality(s \ {x}) = n
      BY <3>2
    <3>4. g[s \ {y}] = f[x] + g[(s \ {y}) \ {x}]
      BY <1>2, <2>3, <3>3
    <3>5. g[s \ {x}] = f[y] + g[(s \ {x}) \ {y}]
      BY <1>2, <2>1, <2>3, <3>3
    <3>6. (s \ {x}) \ {y} = (s \ {y}) \ {x}
      OBVIOUS
    <3> DEFINE rest == g[(s \ {y}) \ {x}]
    <3>7. f[x] \in Int /\ f[y] \in Int /\ rest \in Int
      BY <1>0, <2>1
    <3>8. g[s \ {x}] = f[y] + rest /\ g[s] = f[y] + (f[x] + rest)
      BY <2>1, <3>4, <3>5, <3>6
    <3> HIDE DEF rest
    <3> QED
      BY <3>7, <3>8
  <2> QED
    BY <2>2, <2>3
<1>3. Nat \subseteq P
  <2> HIDE DEF P
  <2> QED
    BY <1>1, <1>2, NatInd
<1>4. \A s \in SUBSET S : Cardinality(s) \in Nat
  BY FS_Subset, FS_CardinalityType
<1> QED
  BY <1>3, <1>4

\* The library's sum of the values of a function is such a sum.
LEMMA SumIsFold ==
  ASSUME NEW S, IsFiniteSet(S), NEW f \in [S -> Int]
  PROVE  \E g : SumRule(S, f, g) /\ SumFunction(f) = g[S]
<1> DEFINE iter[s \in SUBSET S] ==
             IF s = {} THEN 0
             ELSE LET x == CHOOSE x \in s : TRUE IN f[x] + iter[s \ {x}]
<1>1. PICK g : SumRule(S, f, g)
  BY SumExists
<1>2. g = [s \in SUBSET S |-> IF s = {} THEN 0
             ELSE LET x == CHOOSE x \in s : TRUE IN f[x] + g[s \ {x}]]
  BY <1>1 DEF Pick, SumRule
<1>3. iter = [s \in SUBSET S |-> IF s = {} THEN 0
             ELSE LET x == CHOOSE x \in s : TRUE IN f[x] + iter[s \ {x}]]
  BY <1>2
<1>4. SumFunction(f) = iter[S]
  BY DEF SumFunction, SumFunctionOnSet, FoldFunctionOnSet, MapThenFoldSet
<1>0. PICK sum : sum = iter
  OBVIOUS
<1>5. \A s \in SUBSET S : sum[s] = IF s = {} THEN 0 ELSE f[Pick(s)] + sum[s \ {Pick(s)}]
  BY <1>0, <1>3 DEF Pick
<1>6. DOMAIN sum = SUBSET S
  BY <1>0, <1>3
<1> HIDE DEF iter
<1> DEFINE P == {n \in Nat : \A s \in SUBSET S : Cardinality(s) = n => sum[s] \in Int}
<1>7. 0 \in P
  <2>1. \A s \in SUBSET S : Cardinality(s) = 0 => s = {}
    BY FS_EmptySet, FS_Subset
  <2>2. {} \in SUBSET S
    OBVIOUS
  <2>3. sum[{}] = 0
    BY <1>5, <2>2
  <2> QED
    BY <2>1, <2>3
<1>8. ASSUME NEW n \in Nat, n \in P PROVE n + 1 \in P
  <2> SUFFICES ASSUME NEW s \in SUBSET S, Cardinality(s) = n + 1 PROVE sum[s] \in Int
    OBVIOUS
  <2>1. IsFiniteSet(s)
    BY FS_Subset
  <2>2. s # {}
    BY FS_EmptySet
  <2> DEFINE y == Pick(s)
  <2>3. y \in s /\ sum[s] = f[y] + sum[s \ {y}]
    BY <1>5, <2>2 DEF Pick
  <2> HIDE DEF y
  <2>4. Cardinality(s \ {y}) = Cardinality(s) - 1
    BY <2>1, <2>3, FS_RemoveElement
  <2>5. Cardinality(s \ {y}) = n
    BY <2>4
  <2>6. f[y] \in Int /\ sum[s \ {y}] \in Int
    BY <1>8, <2>3, <2>5
  <2> QED
    BY <2>3, <2>6
<1>9. Nat \subseteq P
  <2> HIDE DEF P
  <2> QED
    BY <1>7, <1>8, NatInd
<1>10. \A s \in SUBSET S : sum[s] \in Int
  BY <1>9, FS_Subset, FS_CardinalityType
<1>11. sum \in [SUBSET S -> Int]
  BY <1>0, <1>3, <1>6, <1>10
<1>12. SumRule(S, f, sum)
  BY <1>5, <1>11 DEF SumRule
<1> QED
  BY <1>0, <1>4, <1>12

LEMMA SumType ==
  ASSUME NEW S, IsFiniteSet(S), NEW f \in [S -> Int] PROVE SumFunction(f) \in Int
<1>1. PICK g : SumRule(S, f, g) /\ SumFunction(f) = g[S]
  BY SumIsFold
<1> QED
  BY <1>1 DEF SumRule

\* Sums of functions that agree on a set agree on that set.
LEMMA SumAgree ==
  ASSUME NEW S, IsFiniteSet(S), NEW e, NEW f, NEW g, NEW h,
         e \in [S -> Int], SumRule(S, e, g), f \in [S -> Int], SumRule(S, f, h),
         NEW T \in SUBSET S, \A x \in T : e[x] = f[x]
  PROVE  g[T] = h[T]
<1> DEFINE P == {n \in Nat : \A s \in SUBSET T : Cardinality(s) = n => g[s] = h[s]}
<1>0. /\ \A s \in SUBSET S : g[s] = IF s = {} THEN 0 ELSE e[Pick(s)] + g[s \ {Pick(s)}]
      /\ \A s \in SUBSET S : h[s] = IF s = {} THEN 0 ELSE f[Pick(s)] + h[s \ {Pick(s)}]
      /\ IsFiniteSet(T)
  BY FS_Subset DEF SumRule
<1>1. 0 \in P
  BY <1>0, FS_EmptySet, FS_Subset
<1>2. ASSUME NEW n \in Nat, n \in P PROVE n + 1 \in P
  <2> SUFFICES ASSUME NEW s \in SUBSET T, Cardinality(s) = n + 1 PROVE g[s] = h[s]
    OBVIOUS
  <2>1. IsFiniteSet(s) /\ s \in SUBSET S
    BY <1>0, FS_Subset
  <2>2. s # {}
    BY FS_EmptySet
  <2> DEFINE y == Pick(s)
  <2>3. y \in s /\ g[s] = e[y] + g[s \ {y}] /\ h[s] = f[y] + h[s \ {y}]
    BY <1>0, <2>1, <2>2 DEF Pick
  <2> HIDE DEF y
  <2>4. Cardinality(s \ {y}) = Cardinality(s) - 1
    BY <2>1, <2>3, FS_RemoveElement
  <2>5. Cardinality(s \ {y}) = n
    BY <2>4
  <2>6. g[s \ {y}] = h[s \ {y}] /\ e[y] = f[y]
    BY <1>2, <2>3, <2>5
  <2> QED
    BY <2>3, <2>6
<1>3. Nat \subseteq P
  <2> HIDE DEF P
  <2> QED
    BY <1>1, <1>2, NatInd
<1> QED
  BY <1>0, <1>3, FS_CardinalityType

\* Changing one value changes the sum by the difference.
LEMMA SumUpdate ==
  ASSUME NEW S, IsFiniteSet(S), NEW f \in [S -> Int], NEW x \in S, NEW v \in Int
  PROVE  SumFunction([f EXCEPT ![x] = v]) = SumFunction(f) - f[x] + v
<1> DEFINE e == [f EXCEPT ![x] = v]
<1>1. e \in [S -> Int] /\ e[x] = v /\ \A y \in S \ {x} : e[y] = f[y]
  OBVIOUS
<1> HIDE DEF e
<1>2. PICK g : SumRule(S, f, g) /\ SumFunction(f) = g[S]
  BY SumIsFold
<1>3. PICK h : SumRule(S, e, h) /\ SumFunction(e) = h[S]
  BY <1>1, SumIsFold
<1>4. g[S] = f[x] + g[S \ {x}]
  BY <1>2, SumSplit
<1>5. h[S] = e[x] + h[S \ {x}]
  BY <1>1, <1>3, SumSplit
<1>6. g[S \ {x}] = h[S \ {x}]
  BY <1>1, <1>2, <1>3, SumAgree
<1>7. f[x] \in Int /\ g[S \ {x}] \in Int
  BY <1>2 DEF SumRule
<1>8. SumFunction(e) = SumFunction(f) - f[x] + v
  BY <1>1, <1>2, <1>3, <1>4, <1>5, <1>6, <1>7
<1> QED
  BY <1>8 DEF e

\* Summing over the images of the elements that count gives the same sum.
LEMMA SumImage ==
  ASSUME NEW S, IsFiniteSet(S), NEW f \in [S -> Int], NEW T, NEW e \in [T -> Int],
         IsFiniteSet(T), NEW U \in SUBSET S, NEW b \in [U -> T],
         \A x \in S \ U : f[x] = 0,
         \A x \in U : e[b[x]] = f[x],
         \A x, y \in U : b[x] = b[y] => x = y,
         \A t \in T : \E x \in U : b[x] = t
  PROVE  SumFunction(f) = SumFunction(e)
<1>1. PICK g : SumRule(S, f, g) /\ SumFunction(f) = g[S]
  BY SumIsFold
<1>2. PICK h : SumRule(T, e, h) /\ SumFunction(e) = h[T]
  BY SumIsFold
<1> DEFINE Image(s) == {b[x] : x \in s \cap U}
           P == {s \in SUBSET S : g[s] = h[Image(s)]}
<1>3. {} \in P
  <2>1. Image({}) = {} /\ {} \in SUBSET S /\ {} \in SUBSET T
    OBVIOUS
  <2> HIDE DEF Image
  <2>2. g[{}] = 0 /\ h[{}] = 0
    BY <1>1, <1>2, <2>1 DEF SumRule
  <2> QED
    BY <2>1, <2>2
<1>4. ASSUME NEW s \in P, NEW x \in S \ s PROVE s \cup {x} \in P
  <2>1. s \in SUBSET S /\ g[s] = h[Image(s)] /\ s \cup {x} \in SUBSET S /\ x \in s \cup {x}
        /\ (s \cup {x}) \ {x} = s
    BY <1>4
  <2>2. g[s \cup {x}] = f[x] + g[s]
    BY <1>1, <2>1, SumSplit
  <2>3. CASE x \in U
    <3>1. Image(s \cup {x}) = Image(s) \cup {b[x]}
      BY <2>3
    <3>2. b[x] \notin Image(s) /\ b[x] \in T /\ Image(s) \in SUBSET T
      BY <1>4, <2>1, <2>3
    <3> HIDE DEF Image
    <3> DEFINE t == Image(s) \cup {b[x]}
               y == b[x]
    <3>3. t \in SUBSET T /\ y \in t /\ t \ {y} = Image(s)
      BY <3>2
    <3> HIDE DEF t, y
    <3>b. h[t] = e[y] + h[t \ {y}]
      BY <1>2, <3>3, SumSplit
    <3>4. h[Image(s) \cup {b[x]}] = e[b[x]] + h[Image(s)]
      BY <3>3, <3>b DEF t, y
    <3>5. e[b[x]] = f[x]
      BY <2>3
    <3>6. g[s \cup {x}] = h[Image(s \cup {x})]
      BY <2>1, <2>2, <3>1, <3>4, <3>5
    <3> QED
      BY <2>1, <3>6
  <2>4. CASE x \notin U
    <3>1. Image(s \cup {x}) = Image(s)
      BY <2>4
    <3> HIDE DEF Image
    <3>2. f[x] = 0 /\ g[s] \in Int
      BY <1>1, <2>1, <2>4 DEF SumRule
    <3>3. g[s \cup {x}] = h[Image(s \cup {x})]
      BY <2>1, <2>2, <3>1, <3>2
    <3> QED
      BY <2>1, <3>3
  <2> QED
    BY <2>3, <2>4
<1>5. S \in P
  <2> P \in SUBSET SUBSET S
    OBVIOUS
  <2> HIDE DEF P
  <2> QED
    BY <1>3, <1>4, SetInd
<1>6. Image(S) = T
  OBVIOUS
<1> QED
  BY <1>1, <1>2, <1>5, <1>6

\* A sum of zeros is zero, a sum of natural numbers is a natural number.
LEMMA SumNat ==
  ASSUME NEW S, IsFiniteSet(S), NEW f \in [S -> Int], \A x \in S : f[x] \in Nat
  PROVE  SumFunction(f) \in Nat /\ ((\A x \in S : f[x] = 0) => SumFunction(f) = 0)
<1>1. PICK g : SumRule(S, f, g) /\ SumFunction(f) = g[S]
  BY SumIsFold
<1>a. ASSUME NEW s \in SUBSET S, NEW y \in s PROVE g[s] = f[y] + g[s \ {y}]
  BY <1>1, SumSplit
<1> DEFINE P == {s \in SUBSET S : g[s] \in Nat /\ ((\A x \in S : f[x] = 0) => g[s] = 0)}
<1>2. {} \in P
  <2>1. {} \in SUBSET S
    OBVIOUS
  <2>2. g[{}] = 0
    BY <1>1, <2>1 DEF SumRule
  <2> QED
    BY <2>1, <2>2
<1>3. ASSUME NEW T \in P, NEW x \in S \ T PROVE T \cup {x} \in P
  <2>1. (T \cup {x}) \ {x} = T
    OBVIOUS
  <2>2. g[T \cup {x}] = f[x] + g[T]
    <3>1. T \cup {x} \in SUBSET S /\ x \in T \cup {x}
      OBVIOUS
    <3> HIDE DEF P
    <3>2. g[T \cup {x}] = f[x] + g[(T \cup {x}) \ {x}]
      BY <1>a, <3>1
    <3> QED
      BY <2>1, <3>2
  <2>3. f[x] \in Nat /\ g[T] \in Nat
    OBVIOUS
  <2> QED
    BY <2>2, <2>3
<1>4. S \in P
  <2> HIDE DEF P
  <2>1. P \in SUBSET SUBSET S
    BY DEF P
  <2> QED
    BY <1>2, <1>3, <2>1, SetInd
<1> QED
  BY <1>1, <1>4

\* A sum of debts is a debt.
LEMMA SumNonPositive ==
  ASSUME NEW S, IsFiniteSet(S), NEW f \in [S -> Int], \A x \in S : f[x] <= 0
  PROVE  SumFunction(f) <= 0
<1>1. PICK g : SumRule(S, f, g) /\ SumFunction(f) = g[S]
  BY SumIsFold
<1>a. ASSUME NEW s \in SUBSET S, NEW y \in s PROVE g[s] = f[y] + g[s \ {y}]
  BY <1>1, SumSplit
<1> DEFINE P == {s \in SUBSET S : g[s] \in Int /\ g[s] <= 0}
<1>2. {} \in P
  <2>1. {} \in SUBSET S
    OBVIOUS
  <2>2. g[{}] = 0
    BY <1>1, <2>1 DEF SumRule
  <2> QED
    BY <2>1, <2>2
<1>3. ASSUME NEW T \in P, NEW x \in S \ T PROVE T \cup {x} \in P
  <2>1. (T \cup {x}) \ {x} = T
    OBVIOUS
  <2>2. g[T \cup {x}] = f[x] + g[T]
    <3>1. T \cup {x} \in SUBSET S /\ x \in T \cup {x}
      OBVIOUS
    <3> HIDE DEF P
    <3>2. g[T \cup {x}] = f[x] + g[(T \cup {x}) \ {x}]
      BY <1>a, <3>1
    <3> QED
      BY <2>1, <3>2
  <2>3. f[x] \in Int /\ f[x] <= 0 /\ g[T] \in Int /\ g[T] <= 0
    OBVIOUS
  <2> QED
    BY <2>2, <2>3
<1>4. S \in P
  <2> HIDE DEF P
  <2>1. P \in SUBSET SUBSET S
    BY DEF P
  <2> QED
    BY <1>2, <1>3, <2>1, SetInd
<1> QED
  BY <1>1, <1>4

-----------------------------------------------------------------------------
(* Arithmetic modulo a word. *)

LEMMA Division ==
  ASSUME NEW W \in Nat \ {0}, NEW a \in Int
  PROVE  a % W \in 0 .. W - 1 /\ a \div W \in Int /\ a = W * (a \div W) + (a % W)
  OBVIOUS

LEMMA Multiple ==
  ASSUME NEW W \in Nat \ {0}, NEW d \in Int, d > 0 PROVE W * d >= W
  OBVIOUS

LEMMA Distribute ==
  ASSUME NEW W \in Nat, NEW p \in Int, NEW q \in Int
  PROVE  W * (p - q) = W * p - W * q /\ W * (p + q) = W * p + W * q /\ W * p \in Int
  OBVIOUS

LEMMA Remainder ==
  ASSUME NEW W \in Nat \ {0}, NEW p \in Int, NEW q \in Int,
         NEW r \in 0 .. W - 1, NEW s \in 0 .. W - 1, W * p + r = W * q + s
  PROVE  r = s
<1>0. W * (q - p) = W * q - W * p /\ W * (p - q) = W * p - W * q
      /\ W * q \in Int /\ W * p \in Int
  BY Distribute
<1>1. CASE p = q
  BY <1>0, <1>1
<1>2. CASE q > p
  <2>1. W * (q - p) >= W
    BY <1>2, Multiple
  <2> QED
    BY <1>0, <2>1
<1>3. CASE p > q
  <2>1. W * (p - q) >= W
    BY <1>3, Multiple
  <2> QED
    BY <1>0, <2>1
<1> QED
  BY <1>1, <1>2, <1>3

LEMMA ModPlus ==
  ASSUME NEW W \in Nat \ {0}, NEW x \in Int, NEW y \in Int
  PROVE  ((x % W) + y) % W = (x + y) % W
<1> DEFINE a == x \div W
           r == x % W
           b == (r + y) \div W
           s == (r + y) % W
           c == (x + y) \div W
           t == (x + y) % W
<1>1. r \in 0 .. W - 1 /\ a \in Int /\ x = W * a + r
  BY Division
<1>2. s \in 0 .. W - 1 /\ b \in Int /\ r + y = W * b + s
  <2>1. r + y \in Int
    BY <1>1
  <2> HIDE DEF r
  <2> QED
    BY <2>1, Division
<1>3. t \in 0 .. W - 1 /\ c \in Int /\ x + y = W * c + t
  <2>1. x + y \in Int
    OBVIOUS
  <2> QED
    BY <2>1, Division
<1> HIDE DEF a, r, b, s, c, t
<1>4. W * (a + b) = W * a + W * b /\ W * a \in Int /\ W * b \in Int /\ W * c \in Int
  BY <1>1, <1>2, <1>3, Distribute
<1>5. W * (a + b) + s = W * c + t /\ a + b \in Int
  BY <1>1, <1>2, <1>3, <1>4
<1>6. s = t
  BY <1>2, <1>3, <1>5, Remainder
<1> QED
  BY <1>6 DEF s, t, r

LEMMA ModSmall ==
  ASSUME NEW W \in Nat \ {0}, NEW x \in 0 .. W - 1 PROVE x % W = x
<1>1. x % W \in 0 .. W - 1 /\ x \div W \in Int /\ x = W * (x \div W) + (x % W)
  BY Division
<1> DEFINE q == x \div W
           r == x % W
<1>2. r \in 0 .. W - 1 /\ q \in Int /\ W * 0 + x = W * q + r
  BY <1>1
<1> HIDE DEF q, r
<1>3. r = x
  BY <1>2, Remainder
<1> QED
  BY <1>3 DEF r
=============================================================================
