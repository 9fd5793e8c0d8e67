----------------------------- MODULE SumTheorems -----------------------------
(***************************************************************************)
(* Sums over finite sets, SumFunctionOnSet() of the module Functions, for  *)
(* which the library has no theorems, and induction in the form the proofs *)
(* here use it: about a set of numbers or a set of sets instead of an      *)
(* operator.                                                               *)
(***************************************************************************)
EXTENDS Integers, FiniteSets, Functions, FiniteSetTheorems, WellFoundedInduction, TLAPS

(* A set of natural numbers has a least element.                           *)
LEMMA LeastNumber ==
    ASSUME NEW T \in SUBSET Nat, T # {}
    PROVE  \E m \in T : \A k \in T : m <= k
  <1> DEFINE R == OpToRel(<, Nat)
  <1>1. IsWellFoundedOn(R, Nat)
    BY NatLessThanWellFounded
  <1>2. \A x, y \in Nat : x < y => <<x, y>> \in R
    BY DEF OpToRel
  <1> HIDE DEF R
  <1>3. \E x \in T : \A y \in T : ~(<<y, x>> \in R)
    BY <1>1, WFMin
  <1>4. PICK m \in T : \A y \in T : ~(<<y, m>> \in R)
    BY <1>3
  <1>5. \A k \in T : ~(k < m)
    BY <1>2, <1>4
  <1>6. QED
    BY <1>5

(* Induction over the natural numbers.                                     *)
LEMMA NumberInduction ==
    ASSUME NEW T \in SUBSET Nat, 0 \in T, \A n \in T : n + 1 \in T
    PROVE  T = Nat
  <1> SUFFICES ASSUME T # Nat PROVE FALSE
    OBVIOUS
  <1>1. PICK m \in Nat \ T : \A k \in Nat \ T : m <= k
    BY LeastNumber
  <1>2. m # 0 /\ m - 1 \in Nat
    OBVIOUS
  <1>3. m - 1 \in T
    BY <1>1, <1>2
  <1>4. QED
    BY <1>3

(* Induction over the subsets of a finite set: what holds of the empty one *)
(* and stays true when an element is added holds of the whole set.         *)
LEMMA SetInduction ==
    ASSUME NEW S, IsFiniteSet(S), NEW F \in SUBSET (SUBSET S), {} \in F,
           \A T \in F : \A x \in S \ T : T \cup {x} \in F
    PROVE  S \in F
  <1> DEFINE N == {n \in Nat : \A T \in SUBSET S : Cardinality(T) = n => T \in F}
  <1>1. 0 \in N
    <2>1. \A T \in SUBSET S : Cardinality(T) = 0 => T = {}
      BY FS_Subset, FS_EmptySet
    <2>2. QED
      BY <2>1
  <1>2. ASSUME NEW n \in N PROVE n + 1 \in N
    <2> SUFFICES ASSUME NEW T \in SUBSET S, Cardinality(T) = n + 1 PROVE T \in F
      OBVIOUS
    <2>1. IsFiniteSet(T)
      BY FS_Subset
    <2>2. PICK x \in T : TRUE
      <3>1. n \in Nat /\ Cardinality({}) = 0
        BY FS_EmptySet
      <3>2. T # {}
        BY <3>1
      <3>3. QED
        BY <3>2
    <2>3. Cardinality(T \ {x}) = n
      <3>1. n \in Nat /\ Cardinality(T \ {x}) = Cardinality(T) - 1
        BY <2>1, <2>2, FS_RemoveElement
      <3>2. QED
        BY <3>1
    <2>4. T \ {x} \in F
      BY <2>3
    <2>5. (T \ {x}) \cup {x} \in F
      BY <2>2, <2>4
    <2>6. QED
      BY <2>2, <2>5
  <1> HIDE DEF N
  <1>3. N = Nat
    <2>1. N \in SUBSET Nat
      BY DEF N
    <2>2. QED
      BY <1>1, <1>2, <2>1, NumberInduction
  <1>4. Cardinality(S) \in N
    BY <1>3, FS_CardinalityType
  <1>5. QED
    BY <1>4 DEF N

-----------------------------------------------------------------------------
(* The recursion behind SumFunctionOnSet().                                *)

Choice(T) == CHOOSE x \in T : TRUE

IsSum(h, f, S) ==
    h = [T \in SUBSET S |->
            IF T = {} THEN 0 ELSE f[CHOOSE x \in T : TRUE] + h[T \ {CHOOSE x \in T : TRUE}]]

LEMMA ChoiceIn == \A T : T # {} => Choice(T) \in T
  BY DEF Choice

\* The recursion with its function taken apart.
LEMMA SumEquation ==
    ASSUME NEW h, NEW f, NEW S, IsSum(h, f, S), NEW T \in SUBSET S
    PROVE  h[T] = IF T = {} THEN 0 ELSE f[Choice(T)] + h[T \ {Choice(T)}]
  <1> DEFINE g == [U \in SUBSET S |->
            IF U = {} THEN 0 ELSE f[Choice(U)] + h[U \ {Choice(U)}]]
  <1>1. h = g
    BY DEF IsSum, Choice
  <1>2. g[T] = IF T = {} THEN 0 ELSE f[Choice(T)] + h[T \ {Choice(T)}]
    OBVIOUS
  <1>3. QED
    BY <1>1, <1>2

(* There is a function that satisfies the recursion.                       *)
LEMMA SumExists ==
    ASSUME NEW S, IsFiniteSet(S), NEW f
    PROVE  \E h : IsSum(h, f, S)
  <1> DEFINE Upto(n) == {T \in SUBSET S : Cardinality(T) <= n}
             Step(h, T) == IF T = {} THEN 0 ELSE f[Choice(T)] + h[T \ {Choice(T)}]
             N == {n \in Nat : \E h : h = [T \in Upto(n) |-> Step(h, T)]}
  <1>1. 0 \in N
    <2>1. \A T \in Upto(0) : T = {}
      <3>1. \A T \in SUBSET S : Cardinality(T) \in Nat /\ (Cardinality(T) = 0 => T = {})
        BY FS_Subset, FS_EmptySet, FS_CardinalityType
      <3>2. QED
        BY <3>1
    <2>2. [T \in Upto(0) |-> 0] = [T \in Upto(0) |-> Step([U \in Upto(0) |-> 0], T)]
      BY <2>1
    <2>3. QED
      BY <2>2
  <1>2. ASSUME NEW n \in N PROVE n + 1 \in N
    <2>1. PICK h : h = [T \in Upto(n) |-> Step(h, T)]
      OBVIOUS
    <2> DEFINE g == [T \in Upto(n + 1) |-> Step(h, T)]
    <2>2. ASSUME NEW T \in Upto(n + 1) PROVE g[T] = Step(g, T)
      <3>1. CASE T = {}
        BY <3>1
      <3>2. CASE T # {}
        <4>1. IsFiniteSet(T) /\ Choice(T) \in T
          BY <3>2, ChoiceIn, FS_Subset
        <4>2. Cardinality(T \ {Choice(T)}) = Cardinality(T) - 1
          BY <4>1, FS_RemoveElement
        <4>3. Cardinality(T) \in Nat
          BY <4>1, FS_CardinalityType
        <4>4. T \ {Choice(T)} \in Upto(n) /\ T \ {Choice(T)} \in Upto(n + 1)
          BY <4>2, <4>3
        <4> DEFINE U == T \ {Choice(T)}
        <4>5. g[U] = Step(h, U)
          BY <4>4
        <4>6. h[U] = Step(h, U)
          <5> HIDE DEF Step, Upto, U
          <5>1. U \in Upto(n)
            BY <4>4 DEF U
          <5> DEFINE hh == [V \in Upto(n) |-> Step(h, V)]
          <5>2. hh[U] = Step(h, U)
            BY <5>1
          <5> HIDE DEF hh
          <5>3. h = hh
            BY <2>1 DEF hh
          <5>4. QED
            BY <5>2, <5>3
        <4>7. g[T] = Step(h, T)
          OBVIOUS
        <4>8. QED
          BY <3>2, <4>5, <4>6, <4>7
      <3>3. QED
        BY <3>1, <3>2
    <2>3. g = [T \in Upto(n + 1) |-> Step(g, T)]
      <3> HIDE DEF Step, Upto
      <3>1. \A T \in Upto(n + 1) : g[T] = Step(g, T)
        BY <2>2
      <3>2. g = [T \in Upto(n + 1) |-> g[T]]
        OBVIOUS
      <3> HIDE DEF g
      <3>3. QED
        BY <3>1, <3>2
    <2> HIDE DEF g, Step, Upto
    <2>4. \E k : k = [T \in Upto(n + 1) |-> Step(k, T)]
      BY <2>3
    <2>5. n + 1 \in Nat
      OBVIOUS
    <2>6. QED
      BY <2>4, <2>5
  <1>3. N \in SUBSET Nat
    OBVIOUS
  <1> HIDE DEF N
  <1>4. N = Nat
    BY <1>1, <1>2, <1>3, NumberInduction
  <1>5. Cardinality(S) \in N
    BY <1>4, FS_CardinalityType
  <1>6. PICK h : h = [T \in Upto(Cardinality(S)) |-> Step(h, T)]
    BY <1>5 DEF N
  <1>7. Upto(Cardinality(S)) = SUBSET S
    BY FS_Subset
  <1>8. h = [T \in SUBSET S |-> Step(h, T)]
    <2> HIDE DEF Step, Upto
    <2>1. QED
      BY <1>6, <1>7
  <1>9. QED
    BY <1>8 DEF IsSum, Choice

(* The sum over a set is the value of such a function at the set.          *)
LEMMA SumIsRecursive ==
    ASSUME NEW S, IsFiniteSet(S), NEW f
    PROVE  \E h : IsSum(h, f, S) /\ SumFunctionOnSet(f, S) = h[S]
  <1> DEFINE h == CHOOSE k : IsSum(k, f, S)
  <1>1. IsSum(h, f, S)
    BY SumExists
  <1>2. SumFunctionOnSet(f, S) = h[S]
    BY DEF SumFunctionOnSet, FoldFunctionOnSet, MapThenFoldSet, IsSum
  <1>3. QED
    BY <1>1, <1>2

(* Two of these functions agree on the sets they share, if what they sum   *)
(* does.                                                                   *)
LEMMA SumsAgree ==
    ASSUME NEW S, NEW T, NEW f, NEW g, NEW h, NEW k, IsSum(h, f, S), IsSum(k, g, T),
           IsFiniteSet(S), S \subseteq T, \A x \in S : f[x] = g[x]
    PROVE  h[S] = k[S]
  <1> DEFINE N == {n \in Nat : \A U \in SUBSET S : Cardinality(U) = n => h[U] = k[U]}
  <1>1. 0 \in N
    <2>1. \A U \in SUBSET S : Cardinality(U) = 0 => U = {}
      BY FS_Subset, FS_EmptySet
    <2>2. h[{}] = 0 /\ k[{}] = 0
      BY SumEquation
    <2>3. QED
      BY <2>1, <2>2
  <1>2. ASSUME NEW n \in N PROVE n + 1 \in N
    <2>0. n \in Nat
      OBVIOUS
    <2> SUFFICES ASSUME NEW U \in SUBSET S, Cardinality(U) = n + 1 PROVE h[U] = k[U]
      OBVIOUS
    <2>1. U # {}
      BY <2>0, FS_EmptySet
    <2>2. Choice(U) \in U /\ IsFiniteSet(U)
      BY <2>1, ChoiceIn, FS_Subset
    <2>3. Cardinality(U \ {Choice(U)}) = n
      <3>1. Cardinality(U \ {Choice(U)}) = Cardinality(U) - 1
        BY <2>2, FS_RemoveElement
      <3>2. QED
        BY <2>0, <3>1
    <2>4. h[U \ {Choice(U)}] = k[U \ {Choice(U)}]
      BY <2>3
    <2>5. h[U] = f[Choice(U)] + h[U \ {Choice(U)}]
      BY <2>1, SumEquation
    <2>6. k[U] = g[Choice(U)] + k[U \ {Choice(U)}]
      <3>1. U \in SUBSET T
        OBVIOUS
      <3>2. QED
        BY <2>1, <3>1, SumEquation
    <2>7. QED
      BY <2>2, <2>4, <2>5, <2>6
  <1>3. N \in SUBSET Nat
    OBVIOUS
  <1> HIDE DEF N
  <1>4. N = Nat
    BY <1>1, <1>2, <1>3, NumberInduction
  <1>5. Cardinality(S) \in N
    BY <1>4, FS_CardinalityType
  <1>6. QED
    BY <1>5 DEF N

-----------------------------------------------------------------------------
(* Sums.                                                                   *)

Sum(f, S) == SumFunctionOnSet(f, S)

LEMMA SumEmpty == \A f : Sum(f, {}) = 0
  <1> SUFFICES ASSUME NEW f PROVE Sum(f, {}) = 0
    OBVIOUS
  <1>1. PICK h : IsSum(h, f, {}) /\ SumFunctionOnSet(f, {}) = h[{}]
    BY SumIsRecursive, FS_EmptySet
  <1>2. h[{}] = 0
    BY <1>1, SumEquation
  <1>3. QED
    BY <1>1, <1>2 DEF Sum

\* The sum depends only on the values in the set.
LEMMA SumSame ==
    ASSUME NEW S, IsFiniteSet(S), NEW f, NEW g, \A x \in S : f[x] = g[x]
    PROVE  Sum(f, S) = Sum(g, S)
  <1>1. PICK h : IsSum(h, f, S) /\ SumFunctionOnSet(f, S) = h[S]
    BY SumIsRecursive
  <1>2. PICK k : IsSum(k, g, S) /\ SumFunctionOnSet(g, S) = k[S]
    BY SumIsRecursive
  <1>3. h[S] = k[S]
    BY <1>1, <1>2, SumsAgree
  <1>4. QED
    BY <1>1, <1>2, <1>3 DEF Sum

LEMMA SumChoice ==
    ASSUME NEW S, IsFiniteSet(S), NEW f, S # {}
    PROVE  Sum(f, S) = f[Choice(S)] + Sum(f, S \ {Choice(S)})
  <1> DEFINE T == S \ {Choice(S)}
  <1>1. IsFiniteSet(T) /\ T \in SUBSET S
    BY FS_Subset
  <1>2. PICK h : IsSum(h, f, S) /\ SumFunctionOnSet(f, S) = h[S]
    BY SumIsRecursive
  <1>3. PICK k : IsSum(k, f, T) /\ SumFunctionOnSet(f, T) = k[T]
    BY <1>1, SumIsRecursive
  <1>4. h[S] = f[Choice(S)] + h[T]
    BY <1>2, SumEquation
  <1>5. k[T] = h[T]
    BY <1>1, <1>2, <1>3, SumsAgree
  <1>6. QED
    BY <1>2, <1>3, <1>4, <1>5 DEF Sum

LEMMA SumType ==
    ASSUME NEW S, IsFiniteSet(S), NEW f, \A x \in S : f[x] \in Int
    PROVE  /\ Sum(f, S) \in Int
           /\ (\A x \in S : f[x] >= 0) => Sum(f, S) >= 0
  <1> DEFINE Good(n) == Sum(f, n) \in Int /\ ((\A x \in S : f[x] >= 0) => Sum(f, n) >= 0)
             N == {n \in Nat : \A T \in SUBSET S : Cardinality(T) = n => Good(T)}
  <1>1. 0 \in N
    <2>1. \A U \in SUBSET S : Cardinality(U) = 0 => U = {}
      BY FS_Subset, FS_EmptySet
    <2>2. QED
      BY <2>1, SumEmpty
  <1>2. ASSUME NEW n \in N PROVE n + 1 \in N
    <2>0. n \in Nat
      OBVIOUS
    <2> SUFFICES ASSUME NEW U \in SUBSET S, Cardinality(U) = n + 1 PROVE Good(U)
      OBVIOUS
    <2>1. U # {}
      BY <2>0, FS_EmptySet
    <2>2. Choice(U) \in U /\ IsFiniteSet(U)
      BY <2>1, ChoiceIn, FS_Subset
    <2>3. Cardinality(U \ {Choice(U)}) = n
      <3>1. Cardinality(U \ {Choice(U)}) = Cardinality(U) - 1
        BY <2>2, FS_RemoveElement
      <3>2. QED
        BY <2>0, <3>1
    <2>4. Good(U \ {Choice(U)})
      BY <2>3
    <2>5. Sum(f, U) = f[Choice(U)] + Sum(f, U \ {Choice(U)})
      BY <2>1, <2>2, SumChoice
    <2>6. f[Choice(U)] \in Int /\ ((\A x \in S : f[x] >= 0) => f[Choice(U)] >= 0)
      BY <2>2
    <2>7. QED
      BY <2>4, <2>5, <2>6
  <1>3. N \in SUBSET Nat
    OBVIOUS
  <1> HIDE DEF N
  <1>4. N = Nat
    BY <1>1, <1>2, <1>3, NumberInduction
  <1>5. Cardinality(S) \in N
    BY <1>4, FS_CardinalityType
  <1>6. QED
    BY <1>5 DEF N

\* Whichever element is taken out.
LEMMA SumRemove ==
    ASSUME NEW S, IsFiniteSet(S), NEW f, \A x \in S : f[x] \in Int, NEW y \in S
    PROVE  Sum(f, S) = f[y] + Sum(f, S \ {y})
  <1> DEFINE Good(U) == \A x \in U : Sum(f, U) = f[x] + Sum(f, U \ {x})
             N == {n \in Nat : \A U \in SUBSET S : Cardinality(U) = n => Good(U)}
  <1>1. 0 \in N
    <2>1. \A U \in SUBSET S : Cardinality(U) = 0 => U = {}
      BY FS_Subset, FS_EmptySet
    <2>2. QED
      BY <2>1
  <1>2. ASSUME NEW n \in N PROVE n + 1 \in N
    <2>0. n \in Nat
      OBVIOUS
    <2> SUFFICES ASSUME NEW U \in SUBSET S, Cardinality(U) = n + 1, NEW x \in U
                 PROVE  Sum(f, U) = f[x] + Sum(f, U \ {x})
      OBVIOUS
    <2> DEFINE c == Choice(U)
    <2>1. U # {}
      OBVIOUS
    <2>2. c \in U /\ IsFiniteSet(U)
      BY <2>1, ChoiceIn, FS_Subset
    <2>3. Sum(f, U) = f[c] + Sum(f, U \ {c})
      BY <2>1, <2>2, SumChoice
    <2>4. CASE c = x
      BY <2>3, <2>4
    <2>5. CASE c # x
      <3> DEFINE W == U \ {c, x}
      <3>1. Cardinality(U \ {c}) = n /\ Cardinality(U \ {x}) = n
        <4>1. Cardinality(U \ {c}) = Cardinality(U) - 1
          BY <2>2, FS_RemoveElement
        <4>2. Cardinality(U \ {x}) = Cardinality(U) - 1
          BY <2>2, FS_RemoveElement
        <4>3. QED
          BY <2>0, <4>1, <4>2
      <3>2. Good(U \ {c}) /\ Good(U \ {x})
        BY <3>1
      <3>3. (U \ {c}) \ {x} = W /\ (U \ {x}) \ {c} = W
        OBVIOUS
      <3>4. Sum(f, U \ {c}) = f[x] + Sum(f, W)
        BY <2>5, <3>2, <3>3
      <3>5. Sum(f, U \ {x}) = f[c] + Sum(f, W)
        BY <2>2, <2>5, <3>2, <3>3
      <3>6. f[c] \in Int /\ f[x] \in Int /\ Sum(f, W) \in Int
        <4>1. IsFiniteSet(W)
          BY <2>2, FS_Subset
        <4>2. QED
          BY <2>2, <4>1, SumType
      <3> HIDE DEF c, W
      <3>7. QED
        BY <2>3, <3>4, <3>5, <3>6
    <2>6. QED
      BY <2>4, <2>5
  <1>3. N \in SUBSET Nat
    OBVIOUS
  <1> HIDE DEF N
  <1>4. N = Nat
    BY <1>1, <1>2, <1>3, NumberInduction
  <1>5. Cardinality(S) \in N
    BY <1>4, FS_CardinalityType
  <1>6. QED
    BY <1>5 DEF N

LEMMA SumAdd ==
    ASSUME NEW S, IsFiniteSet(S), NEW f, NEW y, y \notin S, f[y] \in Int,
           \A x \in S : f[x] \in Int
    PROVE  Sum(f, S \cup {y}) = Sum(f, S) + f[y]
  <1> DEFINE T == S \cup {y}
  <1>1. IsFiniteSet(T)
    BY FS_AddElement
  <1>2. T \ {y} = S /\ y \in T /\ \A x \in T : f[x] \in Int
    OBVIOUS
  <1>3. Sum(f, S) \in Int
    BY SumType
  <1> HIDE DEF T
  <1>4. Sum(f, T) = f[y] + Sum(f, T \ {y})
    BY <1>1, <1>2, SumRemove
  <1>5. Sum(f, T \ {y}) = Sum(f, S)
    BY <1>2, Zenon
  <1>6. Sum(f, T) = Sum(f, S) + f[y]
    BY <1>3, <1>4, <1>5
  <1>7. QED
    BY <1>6 DEF T

\* One value changes.
LEMMA SumChange ==
    ASSUME NEW S, IsFiniteSet(S), NEW f, NEW g, NEW y \in S,
           \A x \in S : f[x] \in Int, g[y] \in Int,
           \A x \in S : x # y => g[x] = f[x]
    PROVE  Sum(g, S) = Sum(f, S) + (g[y] - f[y])
  <1>1. IsFiniteSet(S \ {y})
    BY FS_Subset
  <1>2. Sum(f, S) = f[y] + Sum(f, S \ {y})
    BY SumRemove
  <1>3. Sum(g, S) = g[y] + Sum(g, S \ {y})
    <2>1. \A x \in S : g[x] \in Int
      OBVIOUS
    <2>2. QED
      BY <2>1, SumRemove
  <1>4. Sum(f, S \ {y}) = Sum(g, S \ {y})
    BY <1>1, SumSame
  <1>5. Sum(f, S \ {y}) \in Int
    BY <1>1, SumType
  <1>6. QED
    BY <1>2, <1>3, <1>4, <1>5

\* The sum of functions.
LEMMA SumPlus ==
    ASSUME NEW S, IsFiniteSet(S), NEW f, NEW g, NEW h,
           \A x \in S : f[x] \in Int /\ g[x] \in Int /\ h[x] = f[x] + g[x]
    PROVE  Sum(h, S) = Sum(f, S) + Sum(g, S)
  <1> DEFINE F == {T \in SUBSET S : Sum(h, T) = Sum(f, T) + Sum(g, T)}
  <1>1. {} \in F
    BY SumEmpty
  <1>2. ASSUME NEW T \in F, NEW x \in S \ T PROVE T \cup {x} \in F
    <2>1. IsFiniteSet(T)
      BY FS_Subset
    <2>2. /\ Sum(f, T \cup {x}) = Sum(f, T) + f[x]
          /\ Sum(g, T \cup {x}) = Sum(g, T) + g[x]
          /\ Sum(h, T \cup {x}) = Sum(h, T) + h[x]
      <3>1. x \notin T /\ f[x] \in Int /\ g[x] \in Int /\ h[x] \in Int
        OBVIOUS
      <3>2. \A y \in T : f[y] \in Int /\ g[y] \in Int /\ h[y] \in Int
        OBVIOUS
      <3> HIDE DEF F
      <3>3. Sum(f, T \cup {x}) = Sum(f, T) + f[x]
        BY <2>1, <3>1, <3>2, SumAdd
      <3>4. Sum(g, T \cup {x}) = Sum(g, T) + g[x]
        <4>1. \A y \in T : g[y] \in Int
          BY <3>2
        <4>2. QED
          BY ONLY <2>1, <3>1, <4>1, SumAdd
      <3>5. Sum(h, T \cup {x}) = Sum(h, T) + h[x]
        <4>1. \A y \in T : h[y] \in Int
          BY <3>2
        <4>2. QED
          BY ONLY <2>1, <3>1, <4>1, SumAdd
      <3>6. QED
        BY <3>3, <3>4, <3>5
    <2>3. Sum(f, T) \in Int /\ Sum(g, T) \in Int
      BY <2>1, SumType
    <2>4. f[x] \in Int /\ g[x] \in Int /\ h[x] = f[x] + g[x]
      OBVIOUS
    <2>5. Sum(h, T) = Sum(f, T) + Sum(g, T)
      OBVIOUS
    <2>6. Sum(h, T \cup {x}) = Sum(f, T \cup {x}) + Sum(g, T \cup {x})
      BY <2>2, <2>3, <2>4, <2>5
    <2>7. QED
      BY <2>6
  <1>3. F \in SUBSET (SUBSET S)
    OBVIOUS
  <1> HIDE DEF F
  <1>4. S \in F
    BY <1>1, <1>2, <1>3, SetInduction
  <1>5. QED
    BY <1>4 DEF F

\* A part is not more than the whole.
LEMMA SumMember ==
    ASSUME NEW S, IsFiniteSet(S), NEW f, \A x \in S : f[x] \in Int /\ f[x] >= 0, NEW y \in S
    PROVE  f[y] <= Sum(f, S)
  <1>1. IsFiniteSet(S \ {y})
    BY FS_Subset
  <1>2. Sum(f, S \ {y}) \in Int /\ Sum(f, S \ {y}) >= 0
    BY <1>1, SumType
  <1>3. Sum(f, S) = f[y] + Sum(f, S \ {y})
    BY SumRemove
  <1>4. QED
    BY <1>2, <1>3

\* A sum of zeros.
LEMMA SumZero ==
    ASSUME NEW S, IsFiniteSet(S), NEW f, \A x \in S : f[x] = 0
    PROVE  Sum(f, S) = 0
  <1> DEFINE F == {T \in SUBSET S : Sum(f, T) = 0}
  <1>1. {} \in F
    BY SumEmpty
  <1>2. ASSUME NEW T \in F, NEW x \in S \ T PROVE T \cup {x} \in F
    <2>1. IsFiniteSet(T) /\ x \notin T /\ f[x] = 0 /\ f[x] \in Int /\ \A y \in T : f[y] \in Int
      BY FS_Subset
    <2>2. Sum(f, T) = 0
      OBVIOUS
    <2> HIDE DEF F
    <2>3. Sum(f, T \cup {x}) = Sum(f, T) + f[x]
      BY ONLY <2>1, SumAdd
    <2>4. QED
      BY <2>1, <2>2, <2>3 DEF F
  <1>3. F \in SUBSET (SUBSET S)
    OBVIOUS
  <1> HIDE DEF F
  <1>4. S \in F
    BY <1>1, <1>2, <1>3, SetInduction
  <1>5. QED
    BY <1>4 DEF F

(* The sum of one number more.                                             *)
LEMMA SumOneMore ==
    ASSUME NEW n \in Nat, NEW f, \A i \in 1..(n + 1) : f[i] \in Int
    PROVE  Sum(f, 1..(n + 1)) = Sum(f, 1..n) + f[n + 1]
  <1> DEFINE S == 1..n
             y == n + 1
  <1>1. y \notin S /\ S \cup {y} = 1..(n + 1)
    OBVIOUS
  <1>2. IsFiniteSet(S)
    BY FS_Interval
  <1>3. f[y] \in Int /\ \A i \in S : f[i] \in Int
    OBVIOUS
  <1> HIDE DEF S, y
  <1>4. Sum(f, S \cup {y}) = Sum(f, S) + f[y]
    BY <1>1, <1>2, <1>3, SumAdd
  <1>5. QED
    BY <1>1, <1>4 DEF S, y

(* Terms that are not negative: a part is no more than the whole.          *)
LEMMA SumPart ==
    ASSUME NEW T, IsFiniteSet(T), NEW S \in SUBSET T, NEW f,
           \A x \in T : f[x] \in Int /\ f[x] >= 0
    PROVE  Sum(f, S) <= Sum(f, T)
  <1> DEFINE F == {U \in SUBSET T : Sum(f, S) <= Sum(f, S \cup U)}
  <1>1. IsFiniteSet(S) /\ Sum(f, S) \in Int
    BY FS_Subset, SumType
  <1>2. {} \in F
    <2>1. S \cup {} = S
      OBVIOUS
    <2>2. QED
      BY <1>1, <2>1
  <1>3. ASSUME NEW U \in F, NEW x \in T \ U PROVE U \cup {x} \in F
    <2> DEFINE W == S \cup U
    <2>1. W \subseteq T /\ IsFiniteSet(W) /\ Sum(f, W) \in Int /\ Sum(f, S) <= Sum(f, W)
      BY FS_Subset, SumType
    <2>2. S \cup (U \cup {x}) = W \cup {x} /\ U \cup {x} \in SUBSET T
      OBVIOUS
    <2> HIDE DEF W
    <2>3. CASE x \in W
      <3>1. W \cup {x} = W
        BY <2>3
      <3>2. QED
        BY <2>1, <2>2, <3>1
    <2>4. CASE x \notin W
      <3>1. Sum(f, W \cup {x}) = Sum(f, W) + f[x]
        BY <2>1, <2>4, SumAdd
      <3>2. QED
        BY <1>1, <2>1, <2>2, <3>1
    <2>5. QED
      BY <2>3, <2>4
  <1> HIDE DEF F
  <1>4. T \in F
    <2>1. F \in SUBSET (SUBSET T)
      BY DEF F
    <2>2. QED
      BY <1>2, <1>3, <2>1, SetInduction
  <1>5. S \cup T = T
    OBVIOUS
  <1>6. QED
    BY <1>4, <1>5 DEF F

(* Terms that are no larger have a sum that is no larger.                  *)
LEMMA SumLess ==
    ASSUME NEW S, IsFiniteSet(S), NEW f, NEW g,
           \A x \in S : f[x] \in Int /\ g[x] \in Int /\ f[x] <= g[x]
    PROVE  Sum(f, S) <= Sum(g, S)
  <1> DEFINE d == [x \in S |-> g[x] - f[x]]
  <1>1. \A x \in S : d[x] \in Int /\ d[x] >= 0 /\ g[x] = f[x] + d[x]
    OBVIOUS
  <1> HIDE DEF d
  <1>2. Sum(g, S) = Sum(f, S) + Sum(d, S)
    BY <1>1, SumPlus
  <1>3. Sum(d, S) \in Int /\ Sum(d, S) >= 0 /\ Sum(f, S) \in Int
    BY <1>1, SumType
  <1>4. QED
    BY <1>2, <1>3

(* Terms outside a part that are zero do not count.                        *)
LEMMA SumSupport ==
    ASSUME NEW T, IsFiniteSet(T), NEW S \in SUBSET T, NEW f,
           \A x \in T : f[x] \in Int, \A x \in T \ S : f[x] = 0
    PROVE  Sum(f, T) = Sum(f, S)
  <1> DEFINE F == {U \in SUBSET T : Sum(f, S \cup U) = Sum(f, S)}
  <1>1. IsFiniteSet(S) /\ Sum(f, S) \in Int
    BY FS_Subset, SumType
  <1>2. {} \in F
    <2>1. S \cup {} = S
      OBVIOUS
    <2>2. QED
      BY <1>1, <2>1
  <1>3. ASSUME NEW U \in F, NEW x \in T \ U PROVE U \cup {x} \in F
    <2> DEFINE W == S \cup U
    <2>1. W \subseteq T /\ IsFiniteSet(W) /\ Sum(f, W) = Sum(f, S)
      BY FS_Subset
    <2>2. S \cup (U \cup {x}) = W \cup {x} /\ U \cup {x} \in SUBSET T
      OBVIOUS
    <2>3. x \notin W => x \notin S
      OBVIOUS
    <2> HIDE DEF W
    <2>4. CASE x \in W
      <3>1. W \cup {x} = W
        BY <2>4
      <3>2. QED
        BY <2>1, <2>2, <3>1
    <2>5. CASE x \notin W
      <3>1. Sum(f, W \cup {x}) = Sum(f, W) + f[x] /\ f[x] = 0
        BY <2>1, <2>3, <2>5, SumAdd
      <3>2. Sum(f, W \cup {x}) = Sum(f, S)
        BY <1>1, <2>1, <3>1
      <3>3. QED
        BY <2>2, <3>2
    <2>6. QED
      BY <2>4, <2>5
  <1> HIDE DEF F
  <1>4. T \in F
    <2>1. F \in SUBSET (SUBSET T)
      BY DEF F
    <2>2. QED
      BY <1>2, <1>3, <2>1, SetInduction
  <1>5. S \cup T = T
    OBVIOUS
  <1>6. QED
    BY <1>4, <1>5 DEF F

(* Terms under other names, one for each, have the same sum.               *)
LEMMA SumRenamed ==
    ASSUME NEW S, IsFiniteSet(S), NEW f, NEW g, NEW h,
           \A x \in S : f[x] \in Int /\ g[h[x]] = f[x],
           \A x, y \in S : h[x] = h[y] => x = y
    PROVE  Sum(f, S) = Sum(g, {h[x] : x \in S})
  <1> DEFINE To(U) == {h[x] : x \in U}
             F == {U \in SUBSET S : IsFiniteSet(To(U)) /\ Sum(f, U) = Sum(g, To(U))}
  <1>1. {} \in F
    <2>1. To({}) = {}
      OBVIOUS
    <2>2. QED
      BY <2>1, SumEmpty, FS_EmptySet
  <1>2. ASSUME NEW U \in F, NEW y \in S \ U PROVE U \cup {y} \in F
    <2>1. /\ U \cup {y} \in SUBSET S /\ To(U \cup {y}) = To(U) \cup {h[y]}
          /\ h[y] \notin To(U) /\ IsFiniteSet(U) /\ IsFiniteSet(To(U))
          /\ Sum(f, U) = Sum(g, To(U))
          /\ \A z \in To(U) : g[z] \in Int
      BY FS_Subset
    <2> HIDE DEF To
    <2>2. IsFiniteSet(To(U) \cup {h[y]})
      BY <2>1, FS_AddElement
    <2>3. Sum(f, U \cup {y}) = Sum(f, U) + f[y]
      BY <2>1, SumAdd
    <2>4. g[h[y]] = f[y] /\ g[h[y]] \in Int
      OBVIOUS
    <2>5. Sum(g, To(U) \cup {h[y]}) = Sum(g, To(U)) + g[h[y]]
      BY <2>1, <2>4, SumAdd
    <2>6. QED
      BY <2>1, <2>2, <2>3, <2>4, <2>5
  <1> HIDE DEF F
  <1>3. S \in F
    <2>1. F \in SUBSET (SUBSET S)
      BY DEF F
    <2>2. QED
      BY <1>1, <1>2, <2>1, SetInduction
  <1>4. QED
    BY <1>3 DEF F

-----------------------------------------------------------------------------
(* Recursion from the end of a list to its start.                          *)

(* Induction downwards.                                                    *)
LEMMA DownInduction ==
    ASSUME NEW n \in Nat, NEW T \in SUBSET (1..n),
           \A i \in 1..n : (i + 1)..n \subseteq T => i \in T
    PROVE  T = 1..n
  <1> DEFINE N == {k \in Nat : \A i \in 1..n : n - i < k => i \in T}
  <1>1. 0 \in N
    OBVIOUS
  <1>2. ASSUME NEW k \in N PROVE k + 1 \in N
    <2> SUFFICES ASSUME NEW i \in 1..n, n - i < k + 1 PROVE i \in T
      OBVIOUS
    <2>1. (i + 1)..n \subseteq T
      OBVIOUS
    <2>2. QED
      BY <2>1
  <1> HIDE DEF N
  <1>3. N = Nat
    <2>1. N \in SUBSET Nat
      BY DEF N
    <2>2. QED
      BY <1>1, <1>2, <2>1, NumberInduction
  <1>4. n \in N
    BY <1>3
  <1>5. \A i \in 1..n : i \in T
    BY <1>4 DEF N
  <1>6. QED
    BY <1>5

Follows(f, n, next, end, step) ==
    \A i \in 1..n : f[i] = IF next[i] = 0 THEN end[i] ELSE step[<<i, f[next[i]]>>]

(* Following a link that leads forward or nowhere (0) comes to an end, so  *)
(* there is a function that does something at every step of the way.       *)
LEMMA DownRecursion ==
    ASSUME NEW n \in Nat, NEW next \in [1..n -> 0..n], NEW V,
           \A i \in 1..n : next[i] = 0 \/ next[i] > i,
           NEW end \in [1..n -> V], NEW step \in [(1..n) \X V -> V]
    PROVE  \E f \in [1..n -> V] : Follows(f, n, next, end, step)
  <1> DEFINE Solves(f, m) ==
                 \A i \in m..n :
                    f[i] = IF next[i] = 0 THEN end[i] ELSE step[<<i, f[next[i]]>>]
             Solvable(m) == \E f \in [m..n -> V] : Solves(f, m)
             N == {k \in Nat : k <= n => Solvable(n + 1 - k)}
  <1>1. 0 \in N
    <2>1. (n + 1 - 0)..n = {}
      OBVIOUS
    <2>2. [x \in {} |-> x] \in [{} -> V]
      OBVIOUS
    <2>3. QED
      BY <2>1, <2>2
  <1>2. ASSUME NEW k \in N PROVE k + 1 \in N
    <2> SUFFICES ASSUME k + 1 <= n PROVE Solvable(n - k)
      <3>1. n + 1 - (k + 1) = n - k
        OBVIOUS
      <3> HIDE DEF Solvable
      <3>2. QED
        BY <3>1
    <2> DEFINE m == n - k
    <2>1. m \in 1..n /\ n + 1 - k = m + 1
      OBVIOUS
    <2>2. PICK f \in [(m + 1)..n -> V] : Solves(f, m + 1)
      <3>1. Solvable(n + 1 - k)
        OBVIOUS
      <3>2. Solvable(m + 1)
        BY <2>1, <3>1
      <3>3. QED
        BY <3>2
    <2> HIDE DEF m
    <2> DEFINE g == [i \in m..n |->
                        IF i # m THEN f[i]
                        ELSE IF next[m] = 0 THEN end[m] ELSE step[<<m, f[next[m]]>>]]
    <2>3. next[m] # 0 => next[m] \in (m + 1)..n
      BY <2>1
    <2>4. \A i \in m..n : i # m => i \in (m + 1)..n
      BY <2>1
    <2>5. g \in [m..n -> V]
      <3>1. end[m] \in V /\ (next[m] # 0 => step[<<m, f[next[m]]>>] \in V)
        BY <2>1, <2>2, <2>3
      <3>2. \A i \in m..n : i # m => f[i] \in V
        BY <2>2, <2>4
      <3>3. QED
        BY <3>1, <3>2
    <2>6. ASSUME NEW i \in m..n
          PROVE  g[i] = IF next[i] = 0 THEN end[i] ELSE step[<<i, g[next[i]]>>]
      <3>1. CASE i = m
        <4>1. g[m] = IF next[m] = 0 THEN end[m] ELSE step[<<m, f[next[m]]>>]
          BY <2>1
        <4>2. next[m] # 0 => next[m] \in m..n /\ next[m] # m
          BY <2>1, <2>3
        <4>3. next[m] # 0 => g[next[m]] = f[next[m]]
          BY <4>2
        <4> HIDE DEF g
        <4>4. QED
          BY <3>1, <4>1, <4>3
      <3>2. CASE i # m
        <4>1. i \in (m + 1)..n /\ g[i] = f[i] /\ i \in 1..n
          BY <2>1, <2>4, <3>2
        <4>2. next[i] # 0 => next[i] \in m..n /\ next[i] # m
          BY <2>1, <4>1
        <4>3. next[i] # 0 => g[next[i]] = f[next[i]]
          BY <4>2
        <4> HIDE DEF g
        <4>4. QED
          BY <2>2, <4>1, <4>3
      <3>3. QED
        BY <3>1, <3>2
    <2> HIDE DEF g
    <2>7. QED
      BY <2>5, <2>6 DEF m
  <1> HIDE DEF N
  <1>3. N = Nat
    <2>1. N \in SUBSET Nat
      BY DEF N
    <2>2. QED
      BY <1>1, <1>2, <2>1, NumberInduction
  <1>4. n \in N /\ n + 1 - n = 1
    BY <1>3
  <1>5. Solvable(1)
    <2> HIDE DEF Solvable
    <2> QED
      BY <1>4 DEF N
  <1>6. QED
    BY <1>5 DEF Follows
==============================================================================
