-------------------------------- MODULE RatingProofs --------------------------------
(***************************************************************************)
(* Proofs about what players are scored and rated, for any evidence that   *)
(* is not refused and any demos that are played: sums over finite sets,    *)
(* the review scores of ReviewScores and the ratings of PlayerRatings.     *)
(***************************************************************************)
EXTENDS PlayerRatings, ReviewScores, FiniteSetTheorems, WellFoundedInduction, TLAPS

-----------------------------------------------------------------------------
(* Sums over finite sets *)

\* Induction up to a number.
LEMMA Induction ==
  ASSUME NEW n \in Nat, NEW S \in SUBSET (0..n), 0 \in S, \A i \in S : i < n => i + 1 \in S
  PROVE  S = 0..n
<1> DEFINE R == OpToRel(<, Nat)
           Rest == 0..n \ S
<1>1. \A y, x \in Nat : y < x => <<y, x>> \in R
  BY DEF OpToRel
<1> SUFFICES ASSUME Rest # {} PROVE FALSE
  OBVIOUS
<1>2. Rest \subseteq Nat
  OBVIOUS
<1>3. PICK x \in Rest : \A y \in Rest : ~ (<<y, x>> \in R)
  BY <1>2, NatLessThanWellFounded, WFMin
<1> HIDE DEF R
<1>4. x \in Nat /\ x - 1 \in Nat /\ x - 1 \in 0..n /\ x - 1 < x /\ (x - 1) + 1 = x /\ x - 1 < n
  BY <1>3
<1>5. x - 1 \in S
  BY <1>1, <1>3, <1>4
<1> QED BY <1>3, <1>4, <1>5

\* The values of a function on a finite set.
LEMMA ImageIsFinite ==
  ASSUME NEW S, IsFiniteSet(S), NEW f
  PROVE  IsFiniteSet({f[x] : x \in S})
<1> DEFINE T == {f[x] : x \in S}
           g == [x \in S |-> f[x]]
<1>1. g \in Surjection(S, T)
  BY DEF Surjection
<1> QED BY <1>1, FS_Surjection

\* Subsets of a finite set have sizes up to its own.
LEMMA Sizes ==
  ASSUME NEW S, IsFiniteSet(S)
  PROVE  /\ Cardinality(S) \in Nat
         /\ \A T \in SUBSET S : IsFiniteSet(T) /\ Cardinality(T) \in 0..Cardinality(S)
         /\ \A T \in SUBSET S : Cardinality(T) = 0 <=> T = {}
         /\ \A T \in SUBSET S : \A x \in T : Cardinality(T \ {x}) = Cardinality(T) - 1
<1> DEFINE n == Cardinality(S)
<1>1. n \in Nat
  BY FS_CardinalityType
<1>2. ASSUME NEW T \in SUBSET S PROVE IsFiniteSet(T) /\ Cardinality(T) \in 0..n
  <2>1. IsFiniteSet(T) /\ Cardinality(T) <= n
    BY FS_Subset
  <2>2. Cardinality(T) \in Nat
    BY <2>1, FS_CardinalityType
  <2> QED BY <1>1, <2>1, <2>2
<1>3. \A T \in SUBSET S : Cardinality(T) = 0 <=> T = {}
  BY <1>2, FS_EmptySet
<1>4. \A T \in SUBSET S : \A x \in T : Cardinality(T \ {x}) = Cardinality(T) - 1
  BY <1>2, FS_RemoveElement
<1> QED BY <1>1, <1>2, <1>3, <1>4

\* A family of subsets of a finite set that has a set when it has all that are
\* less by an element has all of them.
LEMMA ByParts ==
  ASSUME NEW S, IsFiniteSet(S), NEW C,
         \A T \in SUBSET S : (\A x \in T : T \ {x} \in C) => T \in C
  PROVE  \A T \in SUBSET S : T \in C
<1> DEFINE n == Cardinality(S)
           K == {k \in 0..n : \A T \in SUBSET S : Cardinality(T) = k => T \in C}
<1>0. /\ n \in Nat /\ \A T \in SUBSET S : Cardinality(T) \in 0..n
      /\ \A T \in SUBSET S : Cardinality(T) = 0 <=> T = {}
      /\ \A T \in SUBSET S : \A x \in T : Cardinality(T \ {x}) = Cardinality(T) - 1
  BY Sizes
<1> HIDE DEF n
<1>1. 0 \in K
  <2>1. 0 \in 0..n
    BY <1>0
  <2>2. \A T \in SUBSET S : Cardinality(T) = 0 => T \in C
    BY <1>0
  <2> QED BY <2>1, <2>2
<1>2. ASSUME NEW k \in K, k < n PROVE k + 1 \in K
  <2>1. k \in Nat /\ k + 1 \in 0..n
    BY <1>0, <1>2
  <2>2. ASSUME NEW T \in SUBSET S, Cardinality(T) = k + 1 PROVE T \in C
    <3>1. \A x \in T : Cardinality(T \ {x}) = k /\ T \ {x} \in SUBSET S
      BY <1>0, <2>1, <2>2
    <3> QED BY <3>1
  <2> QED BY <2>1, <2>2
<1>3. K = 0..n
  <2>1. K \in SUBSET (0..n)
    OBVIOUS
  <2> HIDE DEF K
  <2> QED BY <1>0, <1>1, <1>2, <2>1, Induction
<1> QED BY <1>0, <1>3

\* So has one that has the empty set and every set whose chosen element leaves a
\* set of it,
LEMMA ByChoice ==
  ASSUME NEW S, IsFiniteSet(S), NEW C, {} \in C,
         \A T \in SUBSET S : T # {} /\ T \ {CHOOSE x \in T : TRUE} \in C => T \in C
  PROVE  \A T \in SUBSET S : T \in C
<1>1. ASSUME NEW T \in SUBSET S, \A x \in T : T \ {x} \in C PROVE T \in C
  <2>1. T # {} => (CHOOSE x \in T : TRUE) \in T
    OBVIOUS
  <2> QED BY <1>1, <2>1
<1> QED BY <1>1, ByParts

\* and one that has the empty set and, with a set, it and any one element more.
LEMMA BySize ==
  ASSUME NEW S, IsFiniteSet(S), NEW C, {} \in C,
         \A T \in SUBSET S : \A x \in S \ T : T \in C => T \cup {x} \in C
  PROVE  \A T \in SUBSET S : T \in C
<1>1. ASSUME NEW T \in SUBSET S, T # {}, T \ {CHOOSE x \in T : TRUE} \in C PROVE T \in C
  <2> DEFINE x == CHOOSE y \in T : TRUE
  <2>1. x \in T
    BY <1>1
  <2>2. T \ {x} \in C
    BY <1>1
  <2> HIDE DEF x
  <2>3. T \ {x} \in SUBSET S /\ x \in S \ (T \ {x}) /\ (T \ {x}) \cup {x} = T
    BY <2>1
  <2> QED BY <2>2, <2>3
<1> QED BY <1>1, ByChoice

\* Sums of values of a function over subsets of a finite set, as the fold of the
\* community modules chooses their elements.
Summed(g, f, S) ==
    /\ g \in [SUBSET S -> Int]
    /\ \A s \in SUBSET S :
          g[s] = IF s = {} THEN 0
                 ELSE f[CHOOSE x \in s : TRUE] + g[s \ {CHOOSE x \in s : TRUE}]

\* The sums over the parts of a finite set, which the fold of SumFunctionOnSet is.
LEMMA SummedExists ==
  ASSUME NEW S, IsFiniteSet(S), NEW f, \A x \in S : f[x] \in Int
  PROVE  \E g : Summed(g, f, S)
<1> DEFINE c(s) == CHOOSE x \in s : TRUE
           n == Cardinality(S)
           Upto(k) == {s \in SUBSET S : Cardinality(s) <= k}
           Good(g, k) == \A s \in Upto(k) :
                            g[s] = IF s = {} THEN 0 ELSE f[c(s)] + g[s \ {c(s)}]
           K == {k \in 0..n : \E g \in [Upto(k) -> Int] : Good(g, k)}
<1>0. n \in Nat /\ \A T \in SUBSET S : IsFiniteSet(T) /\ Cardinality(T) \in 0..n
  <2>1. n \in Nat
    BY FS_CardinalityType
  <2>2. ASSUME NEW T \in SUBSET S PROVE IsFiniteSet(T) /\ Cardinality(T) \in 0..n
    <3>1. IsFiniteSet(T) /\ Cardinality(T) <= n
      BY FS_Subset
    <3>2. Cardinality(T) \in Nat
      BY <3>1, FS_CardinalityType
    <3> QED BY <2>1, <3>1, <3>2
  <2> QED BY <2>1, <2>2
<1>c. \A s \in SUBSET S : s # {} => /\ c(s) \in s /\ f[c(s)] \in Int
                                    /\ s \ {c(s)} \in SUBSET S
                                    /\ Cardinality(s \ {c(s)}) = Cardinality(s) - 1
  <2> TAKE s \in SUBSET S
  <2> HAVE s # {}
  <2>1. c(s) \in s
    OBVIOUS
  <2> HIDE DEF c
  <2>2. Cardinality(s \ {c(s)}) = Cardinality(s) - 1
    BY <1>0, <2>1, FS_RemoveElement
  <2> QED BY <2>1, <2>2
<1> HIDE DEF c
<1>1. 0 \in K
  <2> DEFINE g == [s \in Upto(0) |-> 0]
  <2>1. \A s \in Upto(0) : s = {}
    BY <1>0, FS_EmptySet
  <2>2. g \in [Upto(0) -> Int] /\ Good(g, 0)
    BY <2>1
  <2>3. 0 \in 0..n
    BY <1>0
  <2> QED BY <2>2, <2>3
<1>2. ASSUME NEW k \in K, k < n PROVE k + 1 \in K
  <2>1. k \in Nat /\ k + 1 \in 0..n
    BY <1>0, <1>2
  <2>2. PICK g \in [Upto(k) -> Int] : Good(g, k)
    OBVIOUS
  <2> DEFINE h == [s \in Upto(k + 1) |->
                      IF s \in Upto(k) THEN g[s] ELSE f[c(s)] + g[s \ {c(s)}]]
  <2>3. \A s \in Upto(k + 1) : s # {} => s \ {c(s)} \in Upto(k) /\ s \ {c(s)} \in Upto(k + 1)
    BY <1>0, <1>c, <2>1
  <2>4. \A s \in Upto(k) : s \in Upto(k + 1)
    BY <1>0, <2>1
  <2>5. {} \in Upto(k)
    BY <2>1, FS_EmptySet
  <2>6. h \in [Upto(k + 1) -> Int]
    <3> SUFFICES ASSUME NEW s \in Upto(k + 1), s \notin Upto(k)
                 PROVE  f[c(s)] + g[s \ {c(s)}] \in Int
      OBVIOUS
    <3>1. s # {} /\ s \in SUBSET S
      BY <2>5
    <3>2. f[c(s)] \in Int
      BY <1>c, <3>1
    <3>3. g[s \ {c(s)}] \in Int
      BY <2>3, <3>1
    <3> QED BY <3>2, <3>3
  <2>7. \A s \in Upto(k) : h[s] = g[s]
    BY <2>4
  <2>8. \A s \in Upto(k + 1) : s \notin Upto(k) => h[s] = f[c(s)] + g[s \ {c(s)}]
    OBVIOUS
  <2> HIDE DEF h
  <2>9. ASSUME NEW s \in Upto(k + 1)
        PROVE  h[s] = IF s = {} THEN 0 ELSE f[c(s)] + h[s \ {c(s)}]
    <3>1. CASE s \in Upto(k)
      <4>1. h[s] = g[s] /\ (s # {} => h[s \ {c(s)}] = g[s \ {c(s)}])
        BY <2>3, <2>7, <2>9, <3>1
      <4> HIDE DEF Upto
      <4> QED BY <2>2, <3>1, <4>1
    <3>2. CASE s \notin Upto(k)
      <4>1. s # {}
        BY <2>5, <3>2
      <4>2. h[s \ {c(s)}] = g[s \ {c(s)}]
        BY <2>3, <2>7, <2>9, <4>1
      <4> QED BY <2>8, <2>9, <3>2, <4>1, <4>2
    <3> QED BY <3>1, <3>2
  <2> QED BY <2>1, <2>6, <2>9
<1>3. K = 0..n
  <2>1. K \in SUBSET (0..n)
    OBVIOUS
  <2> HIDE DEF K
  <2> QED BY <1>0, <1>1, <1>2, <2>1, Induction
<1>4. n \in K
  BY <1>0, <1>3
<1>5. PICK g \in [Upto(n) -> Int] : Good(g, n)
  BY <1>4
<1>6. Upto(n) = SUBSET S
  BY <1>0
<1>7. Summed(g, f, S)
  BY <1>5, <1>6 DEF Summed, c
<1> QED BY <1>7

\* The sum over a set is one of them.
LEMMA SumIsSummed ==
  ASSUME NEW S, IsFiniteSet(S), NEW f, \A x \in S : f[x] \in Int
  PROVE  \E g : Summed(g, f, S) /\ SumFunctionOnSet(f, S) = g[S]
<1> DEFINE step(g, s) == IF s = {} THEN 0
                         ELSE f[CHOOSE x \in s : TRUE] + g[s \ {CHOOSE x \in s : TRUE}]
           iter == CHOOSE g : g = [s \in SUBSET S |-> step(g, s)]
<1>1. SumFunctionOnSet(f, S) = iter[S]
  BY Zenon DEF SumFunctionOnSet, FoldFunctionOnSet, MapThenFoldSet
<1>2. PICK g : Summed(g, f, S)
  BY SummedExists
<1>3. g = [s \in SUBSET S |-> step(g, s)]
  <2>1. \A s \in SUBSET S : g[s] = step(g, s)
    BY <1>2 DEF Summed
  <2>2. g \in [SUBSET S -> Int]
    BY <1>2 DEF Summed
  <2> HIDE DEF step
  <2> QED BY <2>1, <2>2
<1>4. iter = [s \in SUBSET S |-> step(iter, s)]
  <2> HIDE DEF step
  <2> QED BY <1>3
<1>5. \A s \in SUBSET S : iter[s] = step(iter, s)
  <2> HIDE DEF step, iter
  <2> QED BY <1>4
<1>6. \A s \in SUBSET S : iter[s] = g[s]
  <2> DEFINE C == {s \in SUBSET S : iter[s] = g[s]}
  <2>1. \A s \in SUBSET S : g[s] = step(g, s)
    BY <1>2 DEF Summed
  <2> HIDE DEF iter
  <2>2. {} \in C
    BY <1>5, <2>1
  <2>3. ASSUME NEW T \in SUBSET S, T # {}, T \ {CHOOSE x \in T : TRUE} \in C PROVE T \in C
    BY <1>5, <2>1, <2>3
  <2> HIDE DEF C
  <2>4. \A s \in SUBSET S : s \in C
    BY <2>2, <2>3, ByChoice
  <2> QED BY <2>4 DEF C
<1>7. SumFunctionOnSet(f, S) = g[S]
  BY <1>1, <1>6
<1> QED BY <1>2, <1>7

\* And so are the sums over its parts.
LEMMA SummedAgree ==
  ASSUME NEW S, IsFiniteSet(S), NEW f, \A x \in S : f[x] \in Int,
         NEW g, Summed(g, f, S)
  PROVE  \A T \in SUBSET S : g[T] = SumFunctionOnSet(f, T)
<1> SUFFICES ASSUME NEW T \in SUBSET S PROVE g[T] = SumFunctionOnSet(f, T)
  OBVIOUS
<1>1. IsFiniteSet(T) /\ \A x \in T : f[x] \in Int
  BY FS_Subset
<1>2. PICK h : Summed(h, f, T) /\ SumFunctionOnSet(f, T) = h[T]
  BY <1>1, SumIsSummed
<1> DEFINE C == {s \in SUBSET T : g[s] = h[s]}
<1>3. {} \in C
  BY <1>2 DEF Summed
<1>4. ASSUME NEW s \in SUBSET T, s # {}, s \ {CHOOSE x \in s : TRUE} \in C PROVE s \in C
  BY <1>2, <1>4 DEF Summed
<1> HIDE DEF C
<1>5. \A s \in SUBSET T : s \in C
  BY <1>1, <1>3, <1>4, ByChoice
<1> QED BY <1>2, <1>5 DEF C

\* The sum of a finite set is a number, none for the empty set, and any element
\* may be taken out of it.
LEMMA SumUnfolds ==
  ASSUME NEW S, IsFiniteSet(S), NEW f, \A x \in S : f[x] \in Int
  PROVE  /\ SumFunctionOnSet(f, S) \in Int
         /\ S = {} => SumFunctionOnSet(f, S) = 0
         /\ \A x \in S : SumFunctionOnSet(f, S) = f[x] + SumFunctionOnSet(f, S \ {x})
<1> DEFINE c(s) == CHOOSE x \in s : TRUE
<1>1. PICK g : Summed(g, f, S)
  BY SummedExists
<1>2. \A T \in SUBSET S : g[T] = SumFunctionOnSet(f, T)
  BY <1>1, SummedAgree
<1>3. \A s \in SUBSET S : g[s] \in Int
  BY <1>1 DEF Summed
<1>4. g[{}] = 0
  BY <1>1 DEF Summed
<1>5. \A s \in SUBSET S : s # {} => c(s) \in s /\ g[s] = f[c(s)] + g[s \ {c(s)}]
  BY <1>1 DEF Summed
<1> HIDE DEF c
<1> DEFINE C == {s \in SUBSET S : \A x \in s : g[s] = f[x] + g[s \ {x}]}
<1>6. ASSUME NEW T \in SUBSET S, \A x \in T : T \ {x} \in C PROVE T \in C
  <2> SUFFICES ASSUME NEW x \in T PROVE g[T] = f[x] + g[T \ {x}]
    OBVIOUS
  <2>1. c(T) \in T /\ g[T] = f[c(T)] + g[T \ {c(T)}]
    BY <1>5
  <2>2. CASE x = c(T)
    BY <2>1, <2>2
  <2>3. CASE x # c(T)
    <3>1. g[T \ {c(T)}] = f[x] + g[(T \ {c(T)}) \ {x}]
      BY <1>6, <2>1, <2>3
    <3>2. g[T \ {x}] = f[c(T)] + g[(T \ {x}) \ {c(T)}]
      BY <1>6, <2>1, <2>3
    <3>3. (T \ {c(T)}) \ {x} = (T \ {x}) \ {c(T)}
      OBVIOUS
    <3>4. f[x] \in Int /\ f[c(T)] \in Int /\ g[(T \ {x}) \ {c(T)}] \in Int
      BY <1>3, <2>1
    <3>5. g[(T \ {c(T)}) \ {x}] = g[(T \ {x}) \ {c(T)}]
      BY <3>3
    <3> HIDE DEF C
    <3> QED BY <2>1, <3>1, <3>2, <3>4, <3>5
  <2> QED BY <2>2, <2>3
<1> HIDE DEF C
<1>7. \A T \in SUBSET S : T \in C
  BY <1>6, ByParts
<1>8. \A x \in S : g[S] = f[x] + g[S \ {x}]
  BY <1>7 DEF C
<1>9. S \in SUBSET S /\ \A x \in S : S \ {x} \in SUBSET S
  OBVIOUS
<1> QED BY <1>2, <1>3, <1>4, <1>8, <1>9

\* One element more.
LEMMA SumAdds ==
  ASSUME NEW S, IsFiniteSet(S), NEW x, x \notin S, NEW f, \A y \in S \cup {x} : f[y] \in Int
  PROVE  SumFunctionOnSet(f, S \cup {x}) = f[x] + SumFunctionOnSet(f, S)
<1>1. IsFiniteSet(S \cup {x}) /\ x \in S \cup {x} /\ (S \cup {x}) \ {x} = S
  BY FS_AddElement
<1>2. SumFunctionOnSet(f, S \cup {x}) = f[x] + SumFunctionOnSet(f, (S \cup {x}) \ {x})
  BY <1>1, SumUnfolds
<1> QED BY <1>1, <1>2

\* Nothing adds up to zero.
LEMMA SumOfNone ==
  ASSUME NEW f
  PROVE  SumFunctionOnSet(f, {}) = 0
BY SumUnfolds, FS_EmptySet

\* Integers add up to an integer.
LEMMA SumIsInt ==
  ASSUME NEW S, IsFiniteSet(S), NEW f, \A x \in S : f[x] \in Int
  PROVE  SumFunctionOnSet(f, S) \in Int
BY SumUnfolds

\* A single element is its own sum.
LEMMA SumOfOne ==
  ASSUME NEW x, NEW f, f[x] \in Int
  PROVE  SumFunctionOnSet(f, {x}) = f[x]
<1>1. IsFiniteSet({}) /\ {} \cup {x} = {x}
  BY FS_EmptySet
<1>2. SumFunctionOnSet(f, {} \cup {x}) = f[x] + SumFunctionOnSet(f, {})
  BY <1>1, SumAdds
<1> QED BY <1>1, <1>2, SumOfNone

\* Two sums are as what they sum is: smaller, equal, or less by no more.
LEMMA SumGrows ==
  ASSUME NEW S, IsFiniteSet(S), NEW f, NEW g,
         \A x \in S : f[x] \in Int /\ g[x] \in Int /\ f[x] <= g[x]
  PROVE  SumFunctionOnSet(f, S) <= SumFunctionOnSet(g, S)
<1> DEFINE C == {T \in SUBSET S : SumFunctionOnSet(f, T) <= SumFunctionOnSet(g, T)}
<1>1. {} \in C
  BY SumOfNone
<1>2. ASSUME NEW T \in SUBSET S, NEW x \in S \ T, T \in C PROVE T \cup {x} \in C
  <2>1. IsFiniteSet(T) /\ \A y \in T : f[y] \in Int /\ g[y] \in Int
    BY FS_Subset
  <2>2. SumFunctionOnSet(f, T) \in Int /\ SumFunctionOnSet(g, T) \in Int
    BY <2>1, SumIsInt
  <2>3. /\ SumFunctionOnSet(f, T \cup {x}) = f[x] + SumFunctionOnSet(f, T)
        /\ SumFunctionOnSet(g, T \cup {x}) = g[x] + SumFunctionOnSet(g, T)
    BY <2>1, SumAdds
  <2> QED BY <1>2, <2>2, <2>3
<1> HIDE DEF C
<1>3. \A T \in SUBSET S : T \in C
  BY <1>1, <1>2, BySize
<1> QED BY <1>3 DEF C

\* The sum depends on the values only.
LEMMA SumIsSame ==
  ASSUME NEW S, IsFiniteSet(S), NEW f, NEW g, \A x \in S : f[x] \in Int /\ f[x] = g[x]
  PROVE  SumFunctionOnSet(f, S) = SumFunctionOnSet(g, S)
<1>1. SumFunctionOnSet(f, S) <= SumFunctionOnSet(g, S)
  BY SumGrows
<1>2. SumFunctionOnSet(g, S) <= SumFunctionOnSet(f, S)
  BY SumGrows
<1>3. SumFunctionOnSet(f, S) \in Int /\ SumFunctionOnSet(g, S) \in Int
  BY SumIsInt
<1> QED BY <1>1, <1>2, <1>3

\* A constant is summed as often as there are elements.
LEMMA SumOfConstant ==
  ASSUME NEW S, IsFiniteSet(S), NEW k \in Int, NEW f, \A x \in S : f[x] = k
  PROVE  SumFunctionOnSet(f, S) = k * Cardinality(S)
<1> DEFINE C == {T \in SUBSET S : SumFunctionOnSet(f, T) = k * Cardinality(T)}
<1>1. {} \in C
  <2>1. Cardinality({}) = 0 /\ k * 0 = 0
    BY FS_EmptySet
  <2> QED BY <2>1, SumOfNone
<1>2. ASSUME NEW T \in SUBSET S, NEW x \in S \ T, T \in C PROVE T \cup {x} \in C
  <2>1. IsFiniteSet(T)
    BY FS_Subset
  <2>2. SumFunctionOnSet(f, T \cup {x}) = f[x] + SumFunctionOnSet(f, T)
    <3>1. x \notin T /\ \A y \in T \cup {x} : f[y] \in Int
      OBVIOUS
    <3> HIDE DEF C
    <3> QED BY <2>1, <3>1, SumAdds
  <2>3. Cardinality(T \cup {x}) = Cardinality(T) + 1 /\ Cardinality(T) \in Nat
    BY <2>1, FS_AddElement, FS_CardinalityType
  <2>4. k + k * Cardinality(T) = k * (Cardinality(T) + 1)
    BY <2>3
  <2> QED BY <1>2, <2>2, <2>3, <2>4
<1> HIDE DEF C
<1>3. \A T \in SUBSET S : T \in C
  BY <1>1, <1>2, BySize
<1> QED BY <1>3 DEF C

\* Sums of no negative number are none themselves.
LEMMA SumIsNat ==
  ASSUME NEW S, IsFiniteSet(S), NEW f, \A x \in S : f[x] \in Nat
  PROVE  SumFunctionOnSet(f, S) \in Nat
<1> DEFINE z == [x \in S |-> 0]
<1>1. SumFunctionOnSet(z, S) = 0 * Cardinality(S)
  BY SumOfConstant
<1>2. SumFunctionOnSet(z, S) <= SumFunctionOnSet(f, S)
  BY SumGrows
<1>3. Cardinality(S) \in Nat /\ SumFunctionOnSet(f, S) \in Int
  BY SumIsInt, FS_CardinalityType
<1> HIDE DEF z
<1> QED BY <1>1, <1>2, <1>3

\* Zeros add up to zero.
LEMMA SumOfZeros ==
  ASSUME NEW S, IsFiniteSet(S), NEW f, \A x \in S : f[x] = 0
  PROVE  SumFunctionOnSet(f, S) = 0
<1>1. SumFunctionOnSet(f, S) = 0 * Cardinality(S) /\ Cardinality(S) \in Nat
  BY SumOfConstant, FS_CardinalityType
<1> QED BY <1>1

\* The sum over two sets apart is the sum of theirs.
LEMMA SumOfUnion ==
  ASSUME NEW S, IsFiniteSet(S), NEW R, IsFiniteSet(R), S \cap R = {},
         NEW f, \A x \in S \cup R : f[x] \in Int
  PROVE  SumFunctionOnSet(f, S \cup R) = SumFunctionOnSet(f, S) + SumFunctionOnSet(f, R)
<1> DEFINE C == {T \in SUBSET S :
                    SumFunctionOnSet(f, T \cup R) = SumFunctionOnSet(f, T) + SumFunctionOnSet(f, R)}
<1>0. SumFunctionOnSet(f, R) \in Int
  BY SumIsInt
<1>1. {} \in C
  <2>1. {} \cup R = R
    OBVIOUS
  <2> QED BY <1>0, <2>1, SumOfNone
<1>2. ASSUME NEW T \in SUBSET S, NEW x \in S \ T, T \in C PROVE T \cup {x} \in C
  <2>1. IsFiniteSet(T) /\ IsFiniteSet(T \cup R)
    BY FS_Subset, FS_Union
  <2>2. SumFunctionOnSet(f, T \cup {x}) = f[x] + SumFunctionOnSet(f, T)
    BY <2>1, SumAdds
  <2>3. SumFunctionOnSet(f, (T \cup R) \cup {x}) = f[x] + SumFunctionOnSet(f, T \cup R)
    BY <2>1, SumAdds
  <2>4. (T \cup R) \cup {x} = (T \cup {x}) \cup R
    OBVIOUS
  <2>5. SumFunctionOnSet(f, T) \in Int /\ f[x] \in Int
    BY <2>1, SumIsInt
  <2>6. SumFunctionOnSet(f, (T \cup {x}) \cup R) = SumFunctionOnSet(f, (T \cup R) \cup {x})
    BY <2>4
  <2>7. SumFunctionOnSet(f, T \cup R) = SumFunctionOnSet(f, T) + SumFunctionOnSet(f, R)
    BY <1>2
  <2> HIDE DEF C
  <2>8. SumFunctionOnSet(f, (T \cup {x}) \cup R)
          = SumFunctionOnSet(f, T \cup {x}) + SumFunctionOnSet(f, R)
    BY <1>0, <2>2, <2>3, <2>5, <2>6, <2>7
  <2> QED BY <2>8 DEF C
<1> HIDE DEF C
<1>3. \A T \in SUBSET S : T \in C
  BY <1>1, <1>2, BySize
<1> QED BY <1>3 DEF C

\* Those of a set that p maps to k; the lemmas are cited with this unexpanded.
Fibre(S, p, k) == {x \in S : p[x] = k}

\* A sum is that of its parts.
LEMMA SumOfParts ==
  ASSUME NEW S, IsFiniteSet(S), NEW f, \A x \in S : f[x] \in Int,
         NEW K, IsFiniteSet(K), NEW p, \A x \in S : p[x] \in K,
         NEW h, \A k \in K : h[k] = SumFunctionOnSet(f, Fibre(S, p, k))
  PROVE  SumFunctionOnSet(f, S) = SumFunctionOnSet(h, K)
<1> DEFINE C == {L \in SUBSET K :
                    SumFunctionOnSet(f, {x \in S : p[x] \in L}) = SumFunctionOnSet(h, L)}
<1>0. \A k \in K : h[k] \in Int
  <2>1. ASSUME NEW k \in K PROVE h[k] \in Int
    <3>0. h[k] = SumFunctionOnSet(f, {x \in S : p[x] = k})
      BY DEF Fibre
    <3>1. IsFiniteSet({x \in S : p[x] = k}) /\ \A x \in {y \in S : p[y] = k} : f[x] \in Int
      BY FS_Subset
    <3>2. SumFunctionOnSet(f, {x \in S : p[x] = k}) \in Int
      BY <3>1, SumIsInt
    <3> QED BY <3>0, <3>2
  <2> QED BY <2>1
<1>1. {} \in C
  <2>1. {x \in S : p[x] \in {}} = {}
    OBVIOUS
  <2> QED BY <2>1, SumOfNone
<1>2. ASSUME NEW L \in SUBSET K, NEW k \in K \ L, L \in C PROVE L \cup {k} \in C
  <2> DEFINE A == {x \in S : p[x] \in L}
             B == {x \in S : p[x] = k}
  <2>1. IsFiniteSet(A) /\ IsFiniteSet(B) /\ IsFiniteSet(L)
    BY FS_Subset
  <2>2. A \cap B = {} /\ {x \in S : p[x] \in L \cup {k}} = A \cup B
    OBVIOUS
  <2>3. \A x \in A \cup B : f[x] \in Int
    OBVIOUS
  <2>4. SumFunctionOnSet(f, A) = SumFunctionOnSet(h, L)
    BY <1>2
  <2>5. SumFunctionOnSet(f, B) = h[k]
    BY DEF Fibre
  <2> HIDE DEF A, B
  <2>6. SumFunctionOnSet(f, A \cup B) = SumFunctionOnSet(f, A) + SumFunctionOnSet(f, B)
    BY <2>1, <2>2, <2>3, SumOfUnion
  <2>7. SumFunctionOnSet(h, L \cup {k}) = h[k] + SumFunctionOnSet(h, L)
    BY <1>0, <2>1, SumAdds
  <2>8. h[k] \in Int /\ SumFunctionOnSet(h, L) \in Int
    BY <1>0, <2>1, SumIsInt
  <2>9. SumFunctionOnSet(f, {x \in S : p[x] \in L \cup {k}}) = SumFunctionOnSet(f, A \cup B)
    BY <2>2
  <2>10. SumFunctionOnSet(f, A \cup B) = SumFunctionOnSet(h, L \cup {k})
    BY <2>4, <2>5, <2>6, <2>7, <2>8
  <2> QED BY <2>9, <2>10
<1> HIDE DEF C
<1>3. \A L \in SUBSET K : L \in C
  BY <1>0, <1>1, <1>2, BySize
<1>4. {x \in S : p[x] \in K} = S
  OBVIOUS
<1> QED BY <1>3, <1>4 DEF C

\* A sum may be taken over other names of the same elements.
LEMMA SumRenamed ==
  ASSUME NEW S, IsFiniteSet(S), NEW f, \A x \in S : f[x] \in Int,
         NEW K, IsFiniteSet(K), NEW p, \A x \in S : p[x] \in K,
         \A k \in K : \E x \in S : p[x] = k,
         \A x, y \in S : p[x] = p[y] => x = y,
         NEW h, \A x \in S : h[p[x]] = f[x]
  PROVE  SumFunctionOnSet(f, S) = SumFunctionOnSet(h, K)
<1>1. ASSUME NEW k \in K PROVE h[k] = SumFunctionOnSet(f, {x \in S : p[x] = k})
  <2>1. PICK x \in S : p[x] = k
    OBVIOUS
  <2>2. {y \in S : p[y] = k} = {x}
    BY <2>1
  <2>3. SumFunctionOnSet(f, {x}) = f[x]
    BY SumOfOne
  <2> QED BY <2>1, <2>2, <2>3
<1>2. \A k \in K : h[k] = SumFunctionOnSet(f, Fibre(S, p, k))
  BY <1>1 DEF Fibre
<1> QED BY <1>2, SumOfParts

\* Only what is not zero counts.
LEMMA SumOfSome ==
  ASSUME NEW S, IsFiniteSet(S), NEW R \in SUBSET S, NEW f, \A x \in S : f[x] \in Int,
         \A x \in S \ R : f[x] = 0
  PROVE  SumFunctionOnSet(f, S) = SumFunctionOnSet(f, R)
<1>1. IsFiniteSet(R) /\ IsFiniteSet(S \ R) /\ R \cap (S \ R) = {} /\ S = R \cup (S \ R)
  BY FS_Subset
<1>2. SumFunctionOnSet(f, R \cup (S \ R)) = SumFunctionOnSet(f, R) + SumFunctionOnSet(f, S \ R)
  BY <1>1, SumOfUnion
<1>3. SumFunctionOnSet(f, S \ R) = 0
  BY <1>1, SumOfZeros
<1>4. SumFunctionOnSet(f, R) \in Int
  BY <1>1, SumIsInt
<1>5. SumFunctionOnSet(f, S) = SumFunctionOnSet(f, R \cup (S \ R))
  BY <1>1
<1> QED BY <1>2, <1>3, <1>4, <1>5

\* A factor may be taken out of a sum.
LEMMA SumTimes ==
  ASSUME NEW S, IsFiniteSet(S), NEW k \in Int, NEW f, NEW g,
         \A x \in S : f[x] \in Int /\ g[x] = k * f[x]
  PROVE  SumFunctionOnSet(g, S) = k * SumFunctionOnSet(f, S)
<1> DEFINE C == {T \in SUBSET S : SumFunctionOnSet(g, T) = k * SumFunctionOnSet(f, T)}
<1>1. {} \in C
  BY SumOfNone
<1>2. ASSUME NEW T \in SUBSET S, NEW x \in S \ T, T \in C PROVE T \cup {x} \in C
  <2>1. IsFiniteSet(T) /\ \A y \in T \cup {x} : f[y] \in Int /\ g[y] \in Int
    BY FS_Subset
  <2>2. SumFunctionOnSet(f, T) \in Int
    BY <2>1, SumIsInt
  <2>3. /\ SumFunctionOnSet(f, T \cup {x}) = f[x] + SumFunctionOnSet(f, T)
        /\ SumFunctionOnSet(g, T \cup {x}) = g[x] + SumFunctionOnSet(g, T)
    BY <2>1, SumAdds
  <2>4. k * (f[x] + SumFunctionOnSet(f, T)) = k * f[x] + k * SumFunctionOnSet(f, T)
    BY <2>1, <2>2
  <2> QED BY <1>2, <2>3, <2>4
<1> HIDE DEF C
<1>3. \A T \in SUBSET S : T \in C
  BY <1>1, <1>2, BySize
<1> QED BY <1>3 DEF C

\* A quotient, and how what is divided compares.
LEMMA Quotient ==
  ASSUME NEW x \in Int, NEW n \in Nat \ {0}
  PROVE  /\ x \div n \in Int
         /\ n * (x \div n) <= x /\ x < n * (x \div n) + n
OBVIOUS

\* The quotient grows with the dividend.
LEMMA QuotientGrows ==
  ASSUME NEW x \in Int, NEW y \in Int, NEW n \in Nat \ {0}, x <= y
  PROVE  x \div n <= y \div n
<1> DEFINE p == x \div n
           q == y \div n
<1>1. p \in Int /\ q \in Int /\ n * p <= x /\ y < n * q + n
  BY Quotient
<1> HIDE DEF p, q
<1>2. n * p < n * q + n
  <2>1. n * p \in Int /\ n * q \in Int
    BY <1>1
  <2> QED BY <1>1, <2>1
<1>3. n * q + n = n * (q + 1)
  BY <1>1
<1>4. ~(q + 1 <= p)
  <2> SUFFICES ASSUME q + 1 <= p PROVE FALSE
    OBVIOUS
  <2>1. n * (q + 1) <= n * p
    BY <1>1
  <2>2. n * (q + 1) \in Int /\ n * p \in Int
    BY <1>1
  <2> QED BY <1>2, <1>3, <2>1, <2>2
<1>5. p <= q
  BY <1>1, <1>4
<1> QED BY <1>5 DEF p, q

\* A positive factor may be cancelled in a comparison.
LEMMA Cancels ==
  ASSUME NEW n \in Nat \ {0}, NEW x \in Int, NEW y \in Int, n * x <= n * y
  PROVE  x <= y
<1> SUFFICES ASSUME y + 1 <= x PROVE FALSE
  OBVIOUS
<1>1. n * (y + 1) <= n * x
  OBVIOUS
<1>2. n * (y + 1) = n * y + n
  OBVIOUS
<1>3. n * x \in Int /\ n * y \in Int
  OBVIOUS
<1> QED BY <1>1, <1>2, <1>3

\* The product grows with the factor.
LEMMA TimesGrows ==
  ASSUME NEW n \in Nat, NEW x \in Int, NEW y \in Int, x <= y
  PROVE  n * x <= n * y
OBVIOUS

\* A larger dividend and a smaller divisor, crosswise.
LEMMA QuotientsCross ==
  ASSUME NEW x \in Nat, NEW y \in Nat, NEW n \in Nat \ {0}, NEW k \in Nat \ {0}, x * k <= y * n
  PROVE  x \div n <= y \div k
<1> DEFINE p == x \div n
           q == y \div k
<1>1. p \in Int /\ n * p <= x /\ q \in Int /\ y < k * q + k
  BY Quotient
<1> HIDE DEF p, q
<1>2. k * (n * p) <= k * x
  <2>1. n * p \in Int /\ k \in Nat
    BY <1>1
  <2> HIDE DEF p
  <2> QED BY <1>1, <2>1, TimesGrows
<1>3. k * x <= n * y
  OBVIOUS
<1>4. n * y < n * (k * (q + 1))
  <2> DEFINE z == k * (q + 1)
  <2>1. z \in Int /\ y < z
    BY <1>1
  <2> HIDE DEF z
  <2>2. y + 1 <= z
    BY <2>1
  <2>3. n * (y + 1) <= n * z
    BY <2>1, <2>2, TimesGrows
  <2>4. n * (y + 1) = n * y + n /\ n * y \in Int /\ n * z \in Int
    BY <2>1
  <2> QED BY <2>3, <2>4 DEF z
<1>5. k * (n * p) = (n * k) * p /\ n * (k * (q + 1)) = (n * k) * (q + 1)
  BY <1>1
<1>6. (n * k) * p < (n * k) * (q + 1)
  <2>1. k * (n * p) \in Int /\ k * x \in Int /\ n * y \in Int /\ n * (k * (q + 1)) \in Int
    BY <1>1
  <2> QED BY <1>2, <1>3, <1>4, <1>5, <2>1
<1>7. p < q + 1
  <2> SUFFICES ASSUME q + 1 <= p PROVE FALSE
    BY <1>1
  <2>1. n * k \in Nat /\ q + 1 \in Int
    BY <1>1
  <2> DEFINE c == n * k
  <2>2. c * (q + 1) <= c * p
    <3>1. c \in Nat
      BY <2>1
    <3> HIDE DEF c
    <3> QED BY <1>1, <2>1, <3>1, TimesGrows
  <2>3. c * (q + 1) \in Int /\ c * p \in Int
    BY <1>1, <2>1
  <2> QED BY <1>6, <2>2, <2>3
<1> QED BY <1>1, <1>7 DEF p, q

-----------------------------------------------------------------------------
(* Scores *)

\* A set of integers with a bound has a greatest element, which Max chooses.
LEMMA BoundedMax ==
  ASSUME NEW S \in SUBSET Int, S # {}, NEW m \in Int, \A x \in S : x <= m
  PROVE  Max(S) \in S /\ \A y \in S : y <= Max(S)
<1> DEFINE R == OpToRel(<, Nat)
           Left == {m - x : x \in S}
<1>1. \A y, x \in Nat : y < x => <<y, x>> \in R
  BY DEF OpToRel
<1>2. Left \subseteq Nat /\ Left # {}
  <2>1. \A x \in S : x \in Int /\ m - x \in Nat
    OBVIOUS
  <2> QED BY <2>1
<1>3. PICK l \in Left : \A y \in Left : ~ (<<y, l>> \in R)
  BY <1>2, NatLessThanWellFounded, WFMin
<1> HIDE DEF R
<1>4. PICK x \in S : l = m - x
  BY <1>3
<1>5. ASSUME NEW y \in S PROVE x >= y
  <2>1. m - y \in Left
    OBVIOUS
  <2>2. ~(m - y < l)
    BY <1>1, <1>2, <1>3, <2>1
  <2> QED BY <1>4, <2>2
<1>6. Max(S) \in S /\ \A y \in S : Max(S) >= y
  BY <1>5 DEF Max
<1> QED BY <1>6

-----------------------------------------------------------------------------
(* Scores *)

Capacity == Nat \ {0}

\* The caps are positive.
LEMMA CapTypes ==
    /\ Caps.detector \in Capacity /\ Caps.familyInEncounter \in Capacity
    /\ Caps.encounter \in Capacity /\ Caps.familyInDemo \in Capacity
    /\ Caps.familyOfPlayer \in Capacity
BY CapsArePositive DEF Capacity

\* What is clipped stays below its cap and moves no further than what it clips.
LEMMA ClippedMoves ==
  ASSUME NEW cap \in Capacity, NEW x \in Nat, NEW y \in Nat
  PROVE  /\ Clipped(x, cap) \in Nat /\ Clipped(x, cap) <= cap /\ Clipped(x, cap) <= x
         /\ Clipped(0, cap) = 0
         /\ x <= y => Clipped(x, cap) <= Clipped(y, cap)
         /\ Distance(Clipped(x, cap), Clipped(y, cap)) <= Distance(x, y)
BY DEF Clipped, Distance, Capacity

\* The value of an item, up to the cap of its detector.
Worth(i) == Clipped(i.strength * i.quality, Caps.detector)

\* An item is worth no more than its detector may.
LEMMA WorthOf ==
  ASSUME NEW i, i.strength \in Nat, i.quality \in Nat
  PROVE  Worth(i) \in Nat /\ Worth(i) <= Caps.detector /\ Caps.detector \in Int
<1>1. i.strength * i.quality \in Nat
  OBVIOUS
<1>2. Caps.detector \in Capacity /\ Caps.detector \in Int
  BY CapTypes DEF Capacity
<1>3. /\ Clipped(i.strength * i.quality, Caps.detector) \in Nat
      /\ Clipped(i.strength * i.quality, Caps.detector) <= Caps.detector
  BY <1>1, <1>2, ClippedMoves
<1> QED BY <1>2, <1>3 DEF Worth

\* The strongest of the items of a detector.
Best(members, d) == Max({Worth(i) : i \in {x \in members : x.detector = d}})

\* The best of a detector is the worth of one of its items, and no item is worth more.
LEMMA BestIsBest ==
  ASSUME NEW members, Itemized(members), NEW i \in members
  PROVE  /\ Best(members, i.detector)
              \in {Worth(j) : j \in {x \in members : x.detector = i.detector}}
         /\ Best(members, i.detector) \in Nat
         /\ Worth(i) <= Best(members, i.detector)
<1> DEFINE W == {Worth(j) : j \in {x \in members : x.detector = i.detector}}
<1>1. W \in SUBSET Nat /\ Worth(i) \in W /\ \A w \in W : w <= Caps.detector
  BY WorthOf DEF Itemized
<1>2. W \in SUBSET Int /\ W # {} /\ Caps.detector \in Int
  BY <1>1, CapTypes DEF Capacity
<1> HIDE DEF W
<1>3. Max(W) \in W /\ \A w \in W : w <= Max(W)
  BY <1>1, <1>2, BoundedMax
<1> QED BY <1>1, <1>3 DEF Best, W

\* What the detectors add up to, as a sum over a set.
LEMMA DetectorsAsSum ==
  ASSUME NEW members
  PROVE  Detectors(members)
           = SumFunctionOnSet([d \in {i.detector : i \in members} |-> Best(members, d)],
                              {i.detector : i \in members})
BY DEF Detectors, SumFunction, Best, Worth

\* The detectors add up to a natural number, and to zero when there are none.
LEMMA DetectorsIsNat ==
  ASSUME NEW members, Itemized(members)
  PROVE  Detectors(members) \in Nat /\ (members = {} => Detectors(members) = 0)
<1> DEFINE D == {i.detector : i \in members}
           b == [d \in D |-> Best(members, d)]
<1>1. IsFiniteSet(D)
  <2> DEFINE g == [i \in members |-> i.detector]
  <2>1. D = {g[i] : i \in members}
    OBVIOUS
  <2> HIDE DEF g, D
  <2> QED BY <2>1, ImageIsFinite DEF Itemized
<1>2. \A d \in D : b[d] \in Nat
  BY BestIsBest
<1> HIDE DEF b
<1>3. SumFunctionOnSet(b, D) \in Nat
  BY <1>1, <1>2, SumIsNat
<1>4. members = {} => SumFunctionOnSet(b, D) = 0
  <2>1. members = {} => D = {}
    OBVIOUS
  <2> QED BY <2>1, SumOfNone
<1> QED BY <1>3, <1>4, DetectorsAsSum DEF b

\* The items of a family in an encounter.
Of(items, e, f) == {i \in InEncounter(items, e) : i.family = f}

\* What qualifies is evidence too, in every encounter and family.
LEMMA Qualified ==
  ASSUME NEW items, Itemized(items)
  PROVE  /\ Itemized(Qualifying(items))
         /\ \A e : Itemized(InEncounter(items, e))
         /\ \A e, f : Itemized(Of(items, e, f))
         /\ IsFiniteSet(Demos(items)) /\ IsFiniteSet(Encounters(items))
         /\ IsFiniteSet(Families(items))
<1>1. Qualifying(items) \in SUBSET items
  BY DEF Qualifying
<1>2. \A T \in SUBSET items : Itemized(T)
  BY FS_Subset DEF Itemized
<1>3. Itemized(Qualifying(items)) /\ IsFiniteSet(Qualifying(items))
  BY <1>1, <1>2 DEF Itemized
<1>4. \A e, f : /\ InEncounter(items, e) \in SUBSET items
                /\ Of(items, e, f) \in SUBSET items
  BY <1>1 DEF InEncounter, Of
<1>5. IsFiniteSet(Demos(items))
  <2> DEFINE g == [i \in Qualifying(items) |-> i.demo]
  <2>1. Demos(items) = {g[i] : i \in Qualifying(items)}
    BY DEF Demos
  <2> HIDE DEF g
  <2> QED BY <1>3, <2>1, ImageIsFinite
<1>6. IsFiniteSet(Encounters(items))
  <2> DEFINE g == [i \in Qualifying(items) |-> <<i.demo, i.encounter>>]
  <2>1. Encounters(items) = {g[i] : i \in Qualifying(items)}
    BY DEF Encounters
  <2> HIDE DEF g
  <2> QED BY <1>3, <2>1, ImageIsFinite
<1>7. IsFiniteSet(Families(items))
  <2> DEFINE g == [i \in Qualifying(items) |-> i.family]
  <2>1. Families(items) = {g[i] : i \in Qualifying(items)}
    BY DEF Families
  <2> HIDE DEF g
  <2> QED BY <1>3, <2>1, ImageIsFinite
<1> QED BY <1>2, <1>3, <1>4, <1>5, <1>6, <1>7

\* A family that is not among the evidence has no share.
LEMMA ShareIsNat ==
  ASSUME NEW items, Itemized(items), NEW e, NEW f
  PROVE  /\ Share(items, e, f) \in Nat
         /\ f \notin Families(items) => Share(items, e, f) = 0
<1> DEFINE M == Of(items, e, f)
<1>1. Itemized(M)
  BY Qualified
<1>2. f \notin Families(items) => M = {}
  BY DEF Families, InEncounter, Of
<1>3. Share(items, e, f) = Clipped(Detectors(M), Caps.familyInEncounter)
  BY DEF Share, Of
<1> HIDE DEF M
<1>4. Detectors(M) \in Nat /\ (M = {} => Detectors(M) = 0)
  BY <1>1, DetectorsIsNat
<1> QED BY <1>2, <1>3, <1>4, CapTypes, ClippedMoves

Shares(items, e) == [f \in Families(items) |-> Share(items, e, f)]

\* The total of an encounter, as a sum over a set.
LEMMA TotalIsNat ==
  ASSUME NEW items, Itemized(items), NEW e
  PROVE  /\ EncounterTotal(items, e) = SumFunctionOnSet(Shares(items, e), Families(items))
         /\ EncounterTotal(items, e) \in Nat
<1>1. EncounterTotal(items, e) = SumFunctionOnSet(Shares(items, e), Families(items))
  BY DEF EncounterTotal, SumFunction, Shares
<1>2. \A f \in Families(items) : Shares(items, e)[f] \in Nat
  BY ShareIsNat DEF Shares
<1>3. SumFunctionOnSet(Shares(items, e), Families(items)) \in Nat
  BY <1>2, Qualified, SumIsNat
<1> QED BY <1>1, <1>3

\* Scaling gives nothing to who has no share.
LEMMA ScaledIsNat ==
  ASSUME NEW items, Itemized(items), NEW e, NEW f
  PROVE  /\ Scaled(items, e, f) \in Nat
         /\ Share(items, e, f) = 0 => Scaled(items, e, f) = 0
<1> DEFINE s == Share(items, e, f)
           n == EncounterTotal(items, e)
           c == Caps.encounter
<1>1. s \in Nat /\ n \in Nat /\ c \in Nat /\ c # 0
  BY ShareIsNat, TotalIsNat, CapTypes DEF Capacity
<1>2. Scaled(items, e, f) = IF n > c THEN (s * c) \div n ELSE s
  BY DEF Scaled
<1> HIDE DEF s, n, c
<1>3. ASSUME n > c PROVE (s * c) \div n \in Nat /\ (s = 0 => (s * c) \div n = 0)
  <2>1. n \in Nat \ {0} /\ s * c \in Nat /\ s * c \in Int
    BY <1>1, <1>3
  <2>2. 0 \div n <= (s * c) \div n /\ 0 \div n = 0
    <3>1. 0 \in Int /\ 0 <= s * c
      BY <2>1
    <3>2. 0 \div n <= (s * c) \div n
      BY <2>1, <3>1, QuotientGrows
    <3>3. 0 \div n = 0
      BY <2>1
    <3> QED BY <3>2, <3>3
  <2>3. (s * c) \div n \in Int
    BY <2>1, Quotient
  <2>4. s = 0 => s * c = 0
    BY <1>1
  <2> QED BY <2>2, <2>3, <2>4
<1>4. s = Share(items, e, f)
  BY DEF s
<1> QED BY <1>1, <1>2, <1>3, <1>4

Scaling(items, e) == [f \in Families(items) |-> Scaled(items, e, f)]

\* All families of an encounter are worth its cap at the most: scaled, by
\* rounding each down.
LEMMA EncounterIsCapped ==
  ASSUME NEW items, Itemized(items), NEW e
  PROVE  SumFunctionOnSet(Scaling(items, e), Families(items)) <= Caps.encounter
<1> DEFINE F == Families(items)
           s == Shares(items, e)
           q == Scaling(items, e)
           n == EncounterTotal(items, e)
           c == Caps.encounter
<1>1. IsFiniteSet(F) /\ n \in Nat /\ c \in Nat \ {0} /\ n = SumFunctionOnSet(s, F)
  BY Qualified, TotalIsNat, CapTypes DEF Capacity
<1>2. \A f \in F : s[f] \in Nat /\ q[f] \in Nat
  BY ShareIsNat, ScaledIsNat DEF Shares, Scaling
<1>3. \A f \in F : q[f] = IF n > c THEN (s[f] * c) \div n ELSE s[f]
  BY DEF Shares, Scaling, Scaled
<1> HIDE DEF F, s, q, n, c
<1>4. CASE ~(n > c)
  <2>1. \A f \in F : q[f] \in Int /\ q[f] = s[f]
    BY <1>2, <1>3, <1>4
  <2>2. SumFunctionOnSet(q, F) = n
    BY <1>1, <2>1, SumIsSame
  <2> QED BY <1>1, <1>4, <2>2 DEF F, q, c
<1>5. CASE n > c
  <2> DEFINE up == [f \in F |-> n * q[f]]
             whole == [f \in F |-> c * s[f]]
  <2>1. n \in Nat \ {0} /\ n \in Int /\ c \in Int
    BY <1>1, <1>5
  <2>2. ASSUME NEW f \in F PROVE n * q[f] \in Int /\ c * s[f] \in Int /\ n * q[f] <= c * s[f]
    <3>1. s[f] * c \in Int /\ s[f] * c = c * s[f]
      BY <1>2, <2>1
    <3>2. n * ((s[f] * c) \div n) <= s[f] * c
      BY <2>1, <3>1, Quotient
    <3>3. n * q[f] \in Int
      BY <1>2, <2>1
    <3> QED BY <1>3, <1>5, <3>1, <3>2, <3>3
  <2>3. \A f \in F : up[f] \in Int /\ whole[f] \in Int /\ up[f] <= whole[f]
    BY <2>2
  <2>4. \A f \in F : q[f] \in Int /\ up[f] = n * q[f] /\ s[f] \in Int /\ whole[f] = c * s[f]
    BY <1>2
  <2> HIDE DEF up, whole
  <2>5. SumFunctionOnSet(up, F) <= SumFunctionOnSet(whole, F)
    BY <1>1, <2>3, SumGrows
  <2>6. SumFunctionOnSet(up, F) = n * SumFunctionOnSet(q, F)
    BY <1>1, <2>1, <2>4, SumTimes
  <2>7. SumFunctionOnSet(whole, F) = c * n
    BY <1>1, <2>1, <2>4, SumTimes
  <2>8. SumFunctionOnSet(q, F) \in Int
    BY <1>1, <2>4, SumIsInt
  <2>9. n * SumFunctionOnSet(q, F) <= n * c
    BY <2>1, <2>5, <2>6, <2>7
  <2>10. SumFunctionOnSet(q, F) <= c
    BY <2>1, <2>8, <2>9, Cancels
  <2> QED BY <2>10 DEF F, q, c
<1> QED BY <1>4, <1>5

\* What is left of evidence without an encounter.
Without(items, e) == items \ {i \in items : i.demo = e[1] /\ i.encounter = e[2]}

\* Without an encounter the others are as they were.
LEMMA WithoutIsLess ==
  ASSUME NEW items, Itemized(items), NEW e \in Encounters(items)
  PROVE  LET rest == Without(items, e)
         IN  /\ Itemized(rest)
             /\ Qualifying(rest) = {i \in Qualifying(items) : <<i.demo, i.encounter>> # e}
             /\ Families(rest) \in SUBSET Families(items)
             /\ Demos(rest) \in SUBSET Demos(items)
             /\ Encounters(rest) = Encounters(items) \ {e}
             /\ \A x \in Encounters(rest) : InEncounter(rest, x) = InEncounter(items, x)
<1> DEFINE rest == Without(items, e)
<1>1. Itemized(rest)
  <2>1. rest \in SUBSET items
    BY DEF Without
  <2> QED BY <2>1, FS_Subset DEF Itemized
<1>2. e = <<e[1], e[2]>>
  BY DEF Encounters
<1>3. Qualifying(rest) = {i \in Qualifying(items) : <<i.demo, i.encounter>> # e}
  BY <1>2 DEF Qualifying, Without
<1> HIDE DEF rest
<1>4. Families(rest) \in SUBSET Families(items) /\ Demos(rest) \in SUBSET Demos(items)
  BY <1>3 DEF Families, Demos
<1>5. Encounters(rest) = Encounters(items) \ {e}
  BY <1>3 DEF Encounters
<1>6. ASSUME NEW x \in Encounters(rest) PROVE InEncounter(rest, x) = InEncounter(items, x)
  <2>1. x # e /\ x = <<x[1], x[2]>>
    BY <1>3 DEF Encounters
  <2> QED BY <1>2, <1>3, <2>1 DEF InEncounter
<1> QED BY <1>1, <1>3, <1>4, <1>5, <1>6 DEF rest

\* The other encounters are worth what they were.
LEMMA OthersStay ==
  ASSUME NEW items, Itemized(items), NEW e \in Encounters(items),
         NEW x \in Encounters(Without(items, e)), NEW f
  PROVE  Scaled(Without(items, e), x, f) = Scaled(items, x, f)
<1> DEFINE rest == Without(items, e)
<1>1. /\ Itemized(rest) /\ Families(rest) \in SUBSET Families(items)
      /\ InEncounter(rest, x) = InEncounter(items, x)
  BY WithoutIsLess
<1>2. \A g : Share(rest, x, g) = Share(items, x, g)
  BY <1>1 DEF Share
<1> HIDE DEF rest
<1>3. EncounterTotal(rest, x) = EncounterTotal(items, x)
  <2>1. IsFiniteSet(Families(items)) /\ IsFiniteSet(Families(rest))
    BY <1>1, Qualified
  <2>2. \A g \in Families(items) : Shares(items, x)[g] \in Int
    BY ShareIsNat DEF Shares
  <2>3. \A g \in Families(items) \ Families(rest) : Shares(items, x)[g] = 0
    BY <1>1, <1>2, ShareIsNat DEF Shares
  <2>4. SumFunctionOnSet(Shares(items, x), Families(items))
          = SumFunctionOnSet(Shares(items, x), Families(rest))
    BY <1>1, <2>1, <2>2, <2>3, SumOfSome
  <2>5. \A g \in Families(rest) : /\ Shares(items, x)[g] \in Int
                                  /\ Shares(items, x)[g] = Shares(rest, x)[g]
    BY <1>1, <1>2, <2>2 DEF Shares
  <2>6. SumFunctionOnSet(Shares(items, x), Families(rest))
          = SumFunctionOnSet(Shares(rest, x), Families(rest))
    BY <2>1, <2>5, SumIsSame
  <2> QED BY <1>1, <2>4, <2>6, TotalIsNat
<1>4. Scaled(rest, x, f) = Scaled(items, x, f)
  BY <1>2, <1>3 DEF Scaled
<1> QED BY <1>4 DEF rest

\* The encounters of a demo.
Within(items, d) == {x \in Encounters(items) : x[1] = d}
Worths(items, d, f) == [x \in Within(items, d) |-> Scaled(items, x, f)]

\* What a family is worth in a demo, as a sum over its encounters.
LEMMA DemoAsSum ==
  ASSUME NEW items, Itemized(items), NEW d, NEW f
  PROVE  /\ FamilyInDemo(items, d, f) = SumFunctionOnSet(Worths(items, d, f), Within(items, d))
         /\ IsFiniteSet(Within(items, d))
         /\ \A x \in Within(items, d) : Worths(items, d, f)[x] \in Nat
         /\ FamilyInDemo(items, d, f) \in Nat
         /\ d \notin Demos(items) => FamilyInDemo(items, d, f) = 0
<1>1. FamilyInDemo(items, d, f) = SumFunctionOnSet(Worths(items, d, f), Within(items, d))
  BY DEF FamilyInDemo, SumFunction, Worths, Within
<1>2. IsFiniteSet(Within(items, d))
  <2>1. Within(items, d) \in SUBSET Encounters(items) /\ IsFiniteSet(Encounters(items))
    BY Qualified DEF Within
  <2> QED BY <2>1, FS_Subset
<1>3. \A x \in Within(items, d) : Worths(items, d, f)[x] \in Nat
  BY ScaledIsNat DEF Worths
<1>4. SumFunctionOnSet(Worths(items, d, f), Within(items, d)) \in Nat
  BY <1>2, <1>3, SumIsNat
<1>5. d \notin Demos(items) => Within(items, d) = {}
  BY DEF Within, Encounters, Demos
<1> QED BY <1>1, <1>2, <1>3, <1>4, <1>5, SumOfNone

\* A demo loses no more than the encounter was worth in it, another nothing.
LEMMA DemoLoses ==
  ASSUME NEW items, Itemized(items), NEW e \in Encounters(items), NEW d, NEW f
  PROVE  FamilyInDemo(items, d, f)
           = FamilyInDemo(Without(items, e), d, f) + IF d = e[1] THEN Scaled(items, e, f) ELSE 0
<1> DEFINE rest == Without(items, e)
           w == Worths(items, d, f)
<1>1. Itemized(rest) /\ Encounters(rest) = Encounters(items) \ {e}
  BY WithoutIsLess
<1>2. /\ FamilyInDemo(items, d, f) = SumFunctionOnSet(w, Within(items, d))
      /\ \A x \in Within(items, d) : w[x] \in Nat
      /\ IsFiniteSet(Within(items, d)) /\ IsFiniteSet(Within(rest, d))
      /\ FamilyInDemo(rest, d, f) = SumFunctionOnSet(Worths(rest, d, f), Within(rest, d))
      /\ FamilyInDemo(rest, d, f) \in Nat
  BY <1>1, DemoAsSum
<1>3. \A x \in Within(rest, d) : x \in Within(items, d)
  BY <1>1 DEF Within
<1>4. \A x \in Within(rest, d) : w[x] \in Int /\ w[x] = Worths(rest, d, f)[x]
  <2> TAKE x \in Within(rest, d)
  <2>1. x \in Encounters(Without(items, e)) /\ x \in Within(items, d)
    BY <1>3 DEF Within
  <2>2. Scaled(rest, x, f) = Scaled(items, x, f)
    BY <2>1, OthersStay
  <2>3. w[x] = Scaled(items, x, f) /\ Worths(rest, d, f)[x] = Scaled(rest, x, f)
    BY <2>1 DEF Worths
  <2> QED BY <1>2, <2>1, <2>2, <2>3
<1> HIDE DEF rest
<1>5. SumFunctionOnSet(w, Within(rest, d)) = FamilyInDemo(rest, d, f)
  BY <1>2, <1>4, SumIsSame
<1>6. CASE d # e[1]
  <2>1. Within(items, d) = Within(rest, d)
    BY <1>1, <1>6 DEF Within
  <2> QED BY <1>2, <1>5, <1>6, <2>1 DEF rest
<1>7. CASE d = e[1]
  <2>1. /\ Within(items, d) = Within(rest, d) \cup {e} /\ e \notin Within(rest, d)
        /\ e \in Within(items, d)
    BY <1>1, <1>7 DEF Within
  <2>2. \A x \in Within(rest, d) \cup {e} : w[x] \in Int
    BY <1>2, <2>1
  <2>3. w[e] = Scaled(items, e, f)
    BY <2>1 DEF Worths
  <2> HIDE DEF w
  <2>4. SumFunctionOnSet(w, Within(rest, d) \cup {e}) = w[e] + SumFunctionOnSet(w, Within(rest, d))
    BY <1>2, <2>1, <2>2, SumAdds
  <2>5. SumFunctionOnSet(w, Within(items, d)) = SumFunctionOnSet(w, Within(rest, d) \cup {e})
    BY <2>1
  <2>6. w[e] \in Nat
    BY <1>2, <2>1
  <2> QED BY <1>2, <1>5, <1>7, <2>3, <2>4, <2>5, <2>6 DEF rest
<1> QED BY <1>6, <1>7

\* The feature of a family as a sum over any set of demos that has all of them.
Clips(items, f, D) == [d \in D |-> Clipped(FamilyInDemo(items, d, f), Caps.familyInDemo)]

\* A feature, as a sum over demos, whichever others are counted along.
LEMMA FeatureAsSum ==
  ASSUME NEW items, Itemized(items), NEW f, NEW D, IsFiniteSet(D), Demos(items) \in SUBSET D
  PROVE  /\ Feature(items, f)
              = Clipped(SumFunctionOnSet(Clips(items, f, D), D), Caps.familyOfPlayer)
         /\ \A d \in D : Clips(items, f, D)[d] \in Nat
         /\ SumFunctionOnSet(Clips(items, f, D), D) \in Nat
<1>1. /\ Caps.familyInDemo \in Capacity
      /\ \A d : /\ FamilyInDemo(items, d, f) \in Nat
                /\ d \notin Demos(items) => FamilyInDemo(items, d, f) = 0
  BY DemoAsSum, CapTypes
<1>2. \A d \in D : /\ Clips(items, f, D)[d] \in Nat
                   /\ d \notin Demos(items) => Clips(items, f, D)[d] = 0
  BY <1>1, ClippedMoves DEF Clips
<1>3. SumFunctionOnSet(Clips(items, f, D), D) = SumFunctionOnSet(Clips(items, f, D), Demos(items))
  BY <1>2, SumOfSome
<1>4. SumFunctionOnSet(Clips(items, f, D), Demos(items))
        = SumFunctionOnSet(Clips(items, f, Demos(items)), Demos(items))
  <2>1. IsFiniteSet(Demos(items))
    BY FS_Subset
  <2>2. \A d \in Demos(items) : /\ Clips(items, f, D)[d] \in Int
                                /\ Clips(items, f, D)[d] = Clips(items, f, Demos(items))[d]
    BY <1>2 DEF Clips
  <2> QED BY <2>1, <2>2, SumIsSame
<1>5. Feature(items, f)
        = Clipped(SumFunctionOnSet(Clips(items, f, Demos(items)), Demos(items)),
                  Caps.familyOfPlayer)
  BY DEF Feature, SumFunction, Clips
<1>6. SumFunctionOnSet(Clips(items, f, D), D) \in Nat
  BY <1>2, SumIsNat
<1> QED BY <1>2, <1>3, <1>4, <1>5, <1>6

\* A feature moves by what the encounter is worth at the most.
LEMMA FeatureMoves ==
  ASSUME NEW items, Itemized(items), NEW e \in Encounters(items), NEW f
  PROVE  LET moved == Distance(Feature(items, f), Feature(Without(items, e), f))
         IN  moved \in Nat /\ moved <= Scaled(items, e, f)
<1> DEFINE rest == Without(items, e)
           D == Demos(items)
           a == Clips(items, f, D)
           b == Clips(rest, f, D)
           w == Scaled(items, e, f)
           cap == Caps.familyOfPlayer
<1>1. Itemized(rest) /\ Demos(rest) \in SUBSET D /\ IsFiniteSet(D) /\ w \in Nat /\ cap \in Capacity
  BY WithoutIsLess, Qualified, ScaledIsNat, CapTypes
<1>2. e[1] \in D
  BY DEF Encounters, Demos
<1>3. /\ Feature(items, f) = Clipped(SumFunctionOnSet(a, D), cap)
      /\ SumFunctionOnSet(a, D) \in Nat /\ \A d \in D : a[d] \in Nat
  BY <1>1, FeatureAsSum
<1>4. /\ Feature(rest, f) = Clipped(SumFunctionOnSet(b, D), cap)
      /\ SumFunctionOnSet(b, D) \in Nat /\ \A d \in D : b[d] \in Nat
  BY <1>1, FeatureAsSum
<1>5. /\ \A d \in D \ {e[1]} : a[d] = b[d]
      /\ Distance(a[e[1]], b[e[1]]) <= w
  <2>1. \A d \in D : /\ a[d] = Clipped(FamilyInDemo(items, d, f), Caps.familyInDemo)
                     /\ b[d] = Clipped(FamilyInDemo(rest, d, f), Caps.familyInDemo)
    BY DEF Clips
  <2>2. \A d : /\ FamilyInDemo(items, d, f) = FamilyInDemo(rest, d, f) + IF d = e[1] THEN w ELSE 0
               /\ FamilyInDemo(items, d, f) \in Nat /\ FamilyInDemo(rest, d, f) \in Nat
    BY <1>1, DemoLoses, DemoAsSum
  <2> HIDE DEF rest, D, a, b, w
  <2>3. Caps.familyInDemo \in Capacity
    BY CapTypes
  <2>4. \A d \in D \ {e[1]} : a[d] = b[d]
    BY <2>1, <2>2
  <2>5. Distance(FamilyInDemo(items, e[1], f), FamilyInDemo(rest, e[1], f)) = w
    BY <1>1, <2>2 DEF Distance
  <2>6. Distance(a[e[1]], b[e[1]])
          <= Distance(FamilyInDemo(items, e[1], f), FamilyInDemo(rest, e[1], f))
    BY <1>2, <2>1, <2>2, <2>3, ClippedMoves
  <2> QED BY <2>4, <2>5, <2>6
<1> HIDE DEF rest, D, a, b, w, cap
<1>6. Distance(SumFunctionOnSet(a, D), SumFunctionOnSet(b, D)) <= w
  <2> DEFINE O == D \ {e[1]}
  <2>1. IsFiniteSet(O)
    BY <1>1, FS_Subset
  <2>2. SumFunctionOnSet(a, D) = a[e[1]] + SumFunctionOnSet(a, O)
    BY <1>1, <1>2, <1>3, SumUnfolds
  <2>3. SumFunctionOnSet(b, D) = b[e[1]] + SumFunctionOnSet(b, O)
    BY <1>1, <1>2, <1>4, SumUnfolds
  <2>4. SumFunctionOnSet(a, O) = SumFunctionOnSet(b, O)
    BY <1>3, <1>5, <2>1, SumIsSame
  <2>5. SumFunctionOnSet(a, O) \in Int
    BY <1>3, <2>1, SumIsInt
  <2>6. a[e[1]] \in Nat /\ b[e[1]] \in Nat
    BY <1>2, <1>3, <1>4
  <2> HIDE DEF O
  <2> QED BY <1>1, <1>5, <2>2, <2>3, <2>4, <2>5, <2>6 DEF Distance
<1>7. LET moved == Distance(Feature(items, f), Feature(rest, f)) IN moved \in Nat /\ moved <= w
  <2> DEFINE x == SumFunctionOnSet(a, D)
             y == SumFunctionOnSet(b, D)
  <2>1. x \in Nat /\ y \in Nat
    BY <1>3, <1>4
  <2> HIDE DEF x, y
  <2>2. /\ Distance(Clipped(x, cap), Clipped(y, cap)) <= Distance(x, y)
        /\ Clipped(x, cap) \in Nat /\ Clipped(y, cap) \in Nat
    BY <1>1, <2>1, ClippedMoves
  <2>3. Distance(Clipped(x, cap), Clipped(y, cap)) \in Nat /\ Distance(x, y) \in Nat
    BY <2>1, <2>2 DEF Distance
  <2> QED BY <1>1, <1>3, <1>4, <1>6, <2>2, <2>3 DEF x, y
<1> QED BY <1>7 DEF rest, w

\* The features of a player move by the cap of an encounter in all.
LEMMA EncounterMovesLittle ==
  ASSUME Itemized(evidence), NEW e \in Encounters(evidence)
  PROVE  SumFunction([f \in Families(evidence) |->
                         Distance(Feature(evidence, f), Feature(Without(evidence, e), f))])
           <= Caps.encounter
<1> DEFINE F == Families(evidence)
           moved == [f \in F |-> Distance(Feature(evidence, f), Feature(Without(evidence, e), f))]
           q == Scaling(evidence, e)
<1>1. IsFiniteSet(F) /\ \A f \in F : q[f] = Scaled(evidence, e, f)
  BY Qualified DEF Scaling
<1>2. \A f \in F : q[f] \in Int /\ moved[f] \in Int /\ moved[f] <= q[f]
  <2> TAKE f \in F
  <2>1. moved[f] \in Nat /\ moved[f] <= Scaled(evidence, e, f)
    BY FeatureMoves
  <2>2. Scaled(evidence, e, f) \in Nat
    BY ScaledIsNat
  <2> QED BY <1>1, <2>1, <2>2
<1>3. SumFunction(moved) = SumFunctionOnSet(moved, F)
  BY DEF SumFunction
<1>4. SumFunctionOnSet(q, F) <= Caps.encounter
  BY EncounterIsCapped
<1> HIDE DEF moved, q, F
<1>5. SumFunctionOnSet(moved, F) <= SumFunctionOnSet(q, F)
  BY <1>1, <1>2, SumGrows
<1>6. SumFunctionOnSet(moved, F) \in Int /\ SumFunctionOnSet(q, F) \in Int /\ Caps.encounter \in Int
  BY <1>1, <1>2, SumIsInt, CapTypes DEF Capacity
<1>7. SumFunction(moved) <= Caps.encounter
  BY <1>3, <1>4, <1>5, <1>6
<1> QED BY <1>7 DEF moved, F

\* The weaker of two items of a detector adds nothing.
LEMMA WeakerAddsNothing ==
  ASSUME NEW items, Itemized(items), NEW i \in items, NEW j \in items, i # j,
         i.demo = j.demo, i.encounter = j.encounter, i.detector = j.detector,
         i.family = j.family, i.strength * i.quality <= j.strength * j.quality
  PROVE  \A f : Feature(items, f) = Feature(items \ {i}, f)
<1> DEFINE less == items \ {i}
<1>0. Itemized(less) /\ j \in less
  <2>1. less \in SUBSET items
    OBVIOUS
  <2> QED BY <2>1, FS_Subset DEF Itemized
<1>1. /\ i.strength \in Nat /\ i.quality \in Nat /\ j.strength \in Nat /\ j.quality \in Nat
  BY DEF Itemized
<1>2. i \in Qualifying(items) => j \in Qualifying(items)
  <2> SUFFICES ASSUME i.strength > 0, i.quality > 0 PROVE j.strength > 0 /\ j.quality > 0
    BY DEF Qualifying
  <2>1. i.strength * i.quality > 0
    BY <1>1
  <2>2. j.strength * j.quality > 0
    BY <1>1, <2>1
  <2>3. j.strength # 0 /\ j.quality # 0
    BY <1>1, <2>2
  <2> QED BY <1>1, <2>3
<1>3. Qualifying(less) = Qualifying(items) \ {i}
  BY DEF Qualifying
<1>4. i \in Qualifying(items) => j \in Qualifying(less)
  BY <1>2, <1>3
<1>5. /\ Families(less) = Families(items) /\ Demos(less) = Demos(items)
      /\ Encounters(less) = Encounters(items)
  BY <1>3, <1>4 DEF Families, Demos, Encounters
<1>6. Worth(i) \in Nat /\ Worth(j) \in Nat /\ Worth(i) <= Worth(j)
  <2>1. i.strength * i.quality \in Nat /\ j.strength * j.quality \in Nat
    BY <1>1
  <2>2. Caps.detector \in Capacity
    BY CapTypes
  <2> QED BY <2>1, <2>2, ClippedMoves DEF Worth
<1> HIDE DEF less
<1>7. ASSUME NEW e, NEW f PROVE Detectors(Of(less, e, f)) = Detectors(Of(items, e, f))
  <2> DEFINE M == Of(items, e, f)
             L == Of(less, e, f)
  <2>1. L = M \ {i}
    BY <1>3 DEF Of, InEncounter
  <2>2. Itemized(M) /\ Itemized(L)
    BY <1>0, Qualified
  <2>3. i \in M => j \in L
    BY <1>3, <1>4 DEF Of, InEncounter
  <2> HIDE DEF M, L
  <2>4. {k.detector : k \in L} = {k.detector : k \in M}
    BY <2>1, <2>3
  <2>5. ASSUME NEW d \in {k.detector : k \in M} PROVE Best(M, d) = Best(L, d)
    <3> DEFINE A == {Worth(k) : k \in {x \in M : x.detector = d}}
               B == {Worth(k) : k \in {x \in L : x.detector = d}}
    <3>1. CASE A = B
      BY <3>1 DEF Best
    <3>2. CASE A # B
      <4>1. i \in M /\ i.detector = d
        BY <2>1, <3>2
      <4>2. j \in L /\ j \in M /\ j.detector = d
        BY <2>1, <2>3, <4>1
      <4>3. /\ Best(M, d) \in A /\ Best(M, d) \in Nat
            /\ \A k \in M : k.detector = d => Worth(k) <= Best(M, d)
        BY <2>2, <4>2, BestIsBest
      <4>4. /\ Best(L, d) \in B /\ Best(L, d) \in Nat
            /\ \A k \in L : k.detector = d => Worth(k) <= Best(L, d)
        BY <2>2, <4>2, BestIsBest
      <4>5. Best(L, d) <= Best(M, d)
        <5>1. PICK k \in L : k.detector = d /\ Best(L, d) = Worth(k)
          BY <4>4
        <5> QED BY <2>1, <4>3, <5>1
      <4>6. Best(M, d) <= Best(L, d)
        <5>1. PICK k \in M : k.detector = d /\ Best(M, d) = Worth(k)
          BY <4>3
        <5>2. CASE k = i
          <6>1. Worth(j) <= Best(L, d)
            BY <4>2, <4>4
          <6> QED BY <1>6, <4>3, <4>4, <5>1, <5>2, <6>1
        <5>3. CASE k # i
          BY <2>1, <4>4, <5>1, <5>3
        <5> QED BY <5>2, <5>3
      <4> QED BY <4>3, <4>4, <4>5, <4>6
    <3> QED BY <3>1, <3>2
  <2>6. [d \in {k.detector : k \in L} |-> Best(L, d)]
          = [d \in {k.detector : k \in M} |-> Best(M, d)]
    BY <2>4, <2>5
  <2>7. Detectors(L) = Detectors(M)
    BY <2>4, <2>6, DetectorsAsSum
  <2> QED BY <2>7 DEF L, M
<1>8. ASSUME NEW e, NEW f PROVE Share(less, e, f) = Share(items, e, f)
  <2>1. Share(less, e, f) = Clipped(Detectors(Of(less, e, f)), Caps.familyInEncounter)
    BY DEF Share, Of
  <2>2. Share(items, e, f) = Clipped(Detectors(Of(items, e, f)), Caps.familyInEncounter)
    BY DEF Share, Of
  <2> QED BY <1>7, <2>1, <2>2
<1>9. \A e : EncounterTotal(less, e) = EncounterTotal(items, e)
  BY <1>5, <1>8 DEF EncounterTotal
<1>10. \A e, f : Scaled(less, e, f) = Scaled(items, e, f)
  BY <1>8, <1>9 DEF Scaled
<1>11. \A d, f : FamilyInDemo(less, d, f) = FamilyInDemo(items, d, f)
  BY <1>5, <1>10 DEF FamilyInDemo
<1>12. \A f : Feature(less, f) = Feature(items, f)
  BY <1>5, <1>11 DEF Feature
<1> QED BY <1>12 DEF less

\* One encounter moves the features of a player by no more than its cap, the weaker of
\* two items of a detector counts for nothing, and neither makes a player anomalous
\* (aggregate.ts:79).
THEOREM EncountersAlwaysWeighLittle ==
  ASSUME Itemized(evidence)
  PROVE  EncountersWeighLittle
<1> SUFFICES ASSUME NEW e \in Encounters(evidence)
             PROVE  LET inside == {i \in evidence : i.demo = e[1] /\ i.encounter = e[2]}
        rest == evidence \ inside
        Moved(f) == Distance(Feature(evidence, f), Feature(rest, f))
    IN /\ SumFunction([f \in Families(evidence) |-> Moved(f)]) <= Caps.encounter
       /\ \A i, j \in inside :
            /\ i # j /\ i.detector = j.detector /\ i.family = j.family
            /\ i.strength * i.quality <= j.strength * j.quality
            => \A f \in Families(evidence) :
                    Feature(evidence, f) = Feature(evidence \ {i}, f)
       /\ /\ Label(evidence) = "highly-anomalous"
          /\ rest # {} /\ Label(rest) = "review"
          => Demos(evidence) # Demos(rest) \/ Families(evidence) # Families(rest)
  BY DEF EncountersWeighLittle
<1> DEFINE inside == {i \in evidence : i.demo = e[1] /\ i.encounter = e[2]}
           rest == evidence \ inside
<1>1. SumFunction([f \in Families(evidence) |->
                     Distance(Feature(evidence, f), Feature(rest, f))]) <= Caps.encounter
  BY EncounterMovesLittle DEF Without
<1>2. ASSUME NEW i \in inside, NEW j \in inside, i # j, i.detector = j.detector,
             i.family = j.family, i.strength * i.quality <= j.strength * j.quality
      PROVE  \A f \in Families(evidence) : Feature(evidence, f) = Feature(evidence \ {i}, f)
  BY <1>2, WeakerAddsNothing
<1>3. ASSUME Label(evidence) = "highly-anomalous", Label(rest) = "review",
             Demos(evidence) = Demos(rest), Families(evidence) = Families(rest)
      PROVE  FALSE
  <2> HIDE DEF rest
  <2>1. Anomalous(evidence) /\ Sufficient(rest) /\ ~Anomalous(rest)
    BY <1>3 DEF Label
  <2> QED BY <1>3, <2>1 DEF Anomalous, Sufficient
<1> QED BY <1>1, <1>2, <1>3

\* A table is the function it is made of.
LEMMA TableIs ==
  ASSUME NEW f
  PROVE  Table(f) = f
BY DEF Table

-----------------------------------------------------------------------------
(* Metrics *)

\* Five things are finitely many.
LEMMA FiveAreFinite ==
  ASSUME NEW a, NEW b, NEW c, NEW d, NEW e
  PROVE  IsFiniteSet({a, b, c, d, e})
<1>1. IsFiniteSet({a})
  BY FS_Singleton
<1>2. IsFiniteSet({a} \cup {b})
  BY <1>1, FS_AddElement
<1>3. IsFiniteSet(({a} \cup {b}) \cup {c})
  BY <1>2, FS_AddElement
<1>4. IsFiniteSet((({a} \cup {b}) \cup {c}) \cup {d})
  BY <1>3, FS_AddElement
<1>5. IsFiniteSet(((({a} \cup {b}) \cup {c}) \cup {d}) \cup {e})
  BY <1>4, FS_AddElement
<1>6. ((({a} \cup {b}) \cup {c}) \cup {d}) \cup {e} = {a, b, c, d, e}
  OBVIOUS
<1> QED BY <1>5, <1>6

Roles == {"Survivor", "Infected"}
Pers  == {"seconds", "lives", "controls", "tanks"}

\* What a metric is: no division by zero, and counters all good or all bad to have.
Rateable(m) ==
    /\ m.role \in Roles /\ m.per \in Pers
    /\ m.planned \in Nat \ {0} /\ m.weight \in Nat \ {0} /\ m.halfLife \in Nat \ {0}
    /\ IsFiniteSet(m.of)
    /\ m.of \subseteq LowerIsBetter \/ m.of \cap LowerIsBetter = {}

\* The metrics have positive weights and exposures, and count what is all good or all bad.
LEMMA MetricsAreRateable ==
  \A m \in Metrics : Rateable(m)
<1> SUFFICES ASSUME NEW m \in Metrics PROVE Rateable(m)
  OBVIOUS
<1>1. m.role \in Roles /\ m.per \in Pers
  BY DEF Metrics, Metric, Roles, Pers
<1>2. m.planned \in Nat \ {0} /\ m.weight \in Nat \ {0} /\ m.halfLife \in Nat \ {0}
  BY DEF Metrics, Metric
<1>3. \/ m.of \in {{"deaths"}, {"incaps"}, {"damageTaken"}}
      \/ m.of \in {{"kills"}, {"revives"}, {"clears"}, {"tankDamage"}, {"witchDamage"}}
      \/ m.of \in {{"damage"}, {"specialIncaps"}, {"pzKills"}, {"controls"}, {"pins"}}
      \/ m.of \in {{"bombed", "vomited"}, {"pulled", "hung"}}
      \/ m.of \in {{"charged"}, {"pounces"}, {"punches"}, {"throws"}}
  BY DEF Metrics, Metric
<1>4. IsFiniteSet(m.of)
  <2>1. \A x : IsFiniteSet({x})
    BY FS_Singleton
  <2>2. \A x, y : IsFiniteSet({x, y})
    <3> TAKE x, y
    <3>1. {x, y, y, y, y} = {x, y}
      OBVIOUS
    <3> QED BY <3>1, FiveAreFinite
  <2> QED BY <1>3, <2>1, <2>2
<1>5. m.of \subseteq LowerIsBetter \/ m.of \cap LowerIsBetter = {}
  BY <1>3 DEF LowerIsBetter
<1> QED BY <1>1, <1>2, <1>4, <1>5 DEF Rateable

-----------------------------------------------------------------------------
(* Rows *)

\* A row with what is derived: everything that metrics are made of is there.
Seen(row) ==
    /\ row.seconds \in Nat
    /\ row.counts \in [DOMAIN row.counts -> Tally]
    /\ \A n \in {"lives", "controls", "tanks"} : n \in DOMAIN row.counts /\ row.counts[n] \in Nat

\* The places of demos.
LEMMA PlacesOf ==
  ASSUME NEW demos, NEW x
  PROVE  x \in Places(demos) <=>
            /\ x = <<x[1], x[2], x[3]>>
            /\ x[1] \in DOMAIN demos
            /\ x[2] \in DOMAIN demos[x[1]].halves
            /\ x[3] \in DOMAIN demos[x[1]].halves[x[2]].rows
BY DEF Places

\* There are finitely many.
LEMMA PlacesAreFinite ==
  ASSUME NEW demos, IsFiniteSet(DOMAIN demos),
         \A d \in DOMAIN demos : Demo(demos[d])
  PROVE  IsFiniteSet(Places(demos))
<1> DEFINE InHalf(d, h) == {<<d, h, r>> : r \in DOMAIN demos[d].halves[h].rows}
           InDemo(d) == UNION {InHalf(d, h) : h \in DOMAIN demos[d].halves}
<1>1. ASSUME NEW d \in DOMAIN demos, NEW h \in DOMAIN demos[d].halves
      PROVE  IsFiniteSet(InHalf(d, h))
  <2> DEFINE S == DOMAIN demos[d].halves[h].rows
             g == [r \in S |-> <<d, h, r>>]
  <2>1. IsFiniteSet(S)
    BY DEF Demo, HalfOf
  <2>2. InHalf(d, h) = {g[r] : r \in S}
    OBVIOUS
  <2> HIDE DEF S, g, InHalf
  <2> QED BY <2>1, <2>2, ImageIsFinite
<1>2. ASSUME NEW d \in DOMAIN demos PROVE IsFiniteSet(InDemo(d))
  <2> DEFINE S == DOMAIN demos[d].halves
             g == [h \in S |-> InHalf(d, h)]
             H == {InHalf(d, h) : h \in S}
  <2>1. IsFiniteSet(S)
    BY DEF Demo
  <2> HIDE DEF InHalf
  <2>2. H = {g[h] : h \in S}
    OBVIOUS
  <2>3. \A T \in H : IsFiniteSet(T)
    BY <1>1
  <2>4. IsFiniteSet(H)
    <3> HIDE DEF S, g, H
    <3> QED BY <2>1, <2>2, ImageIsFinite
  <2> HIDE DEF H
  <2>5. IsFiniteSet(UNION H)
    BY <2>3, <2>4, FS_UNION
  <2> QED BY <2>5 DEF H
<1> DEFINE D == {InDemo(d) : d \in DOMAIN demos}
           k == [d \in DOMAIN demos |-> InDemo(d)]
<1>3. Places(demos) = UNION D
  BY DEF Places
<1> HIDE DEF InDemo
<1>4. D = {k[d] : d \in DOMAIN demos}
  OBVIOUS
<1>5. \A T \in D : IsFiniteSet(T)
  BY <1>2
<1>6. IsFiniteSet(D)
  <2> HIDE DEF D, k
  <2> QED BY <1>4, ImageIsFinite
<1> HIDE DEF D
<1> QED BY <1>3, <1>5, <1>6, FS_UNION

\* What is derived is counted, but for clears that nobody counted.
LEMMA DerivedIsCounted ==
  ASSUME NEW demo, Demo(demo), NEW half, NEW player
  PROVE  LET d == Derived(demo, half, player)
         IN  /\ DOMAIN d = DerivedNames
             /\ \A n \in DerivedNames : d[n] \in Tally
             /\ d["lives"] \in Nat /\ d["controls"] \in Nat /\ d["tanks"] \in Nat
<1> DEFINE lives == {l \in demo.lives : l.player = player /\ Inside(half, l.start)}
           ordinary == {l \in lives : l.class # "Tank"}
           cleared == {c \in demo.clears : c.actor = player /\ Inside(half, c.tick)}
           clears == IF demo.clears = Missing THEN Missing ELSE Cardinality(cleared)
           controls == SumFunction([l \in ordinary |-> l.controls])
           pins == SumFunction([l \in ordinary |-> l.pins])
<1>1. IsFiniteSet(lives) /\ IsFiniteSet(ordinary) /\ IsFiniteSet(lives \ ordinary)
  <2>1. lives \in SUBSET demo.lives /\ ordinary \in SUBSET demo.lives
           /\ lives \ ordinary \in SUBSET demo.lives
    OBVIOUS
  <2> QED BY <2>1, FS_Subset DEF Demo
<1>2. Cardinality(ordinary) \in Nat /\ Cardinality(lives \ ordinary) \in Nat
  BY <1>1, FS_CardinalityType
<1>3. controls \in Nat
  <2> DEFINE f == [l \in ordinary |-> l.controls]
  <2>1. \A l \in ordinary : f[l] \in Nat
    BY DEF Demo
  <2>2. controls = SumFunctionOnSet(f, ordinary)
    BY DEF SumFunction
  <2> HIDE DEF f, ordinary, controls
  <2> QED BY <1>1, <2>1, <2>2, SumIsNat
<1>4. pins \in Nat
  <2> DEFINE f == [l \in ordinary |-> l.pins]
  <2>1. \A l \in ordinary : f[l] \in Nat
    BY DEF Demo
  <2>2. pins = SumFunctionOnSet(f, ordinary)
    BY DEF SumFunction
  <2> HIDE DEF f, ordinary, pins
  <2> QED BY <1>1, <2>1, <2>2, SumIsNat
<1>5. clears \in Tally
  <2>1. CASE demo.clears = Missing
    BY <2>1 DEF Tally
  <2>2. CASE demo.clears # Missing
    <3>1. cleared \in SUBSET demo.clears /\ IsFiniteSet(demo.clears)
      BY <2>2 DEF Demo
    <3>2. IsFiniteSet(cleared)
      BY <3>1, FS_Subset
    <3>3. Cardinality(cleared) \in Nat
      BY <3>2, FS_CardinalityType
    <3> QED BY <2>2, <3>3 DEF Tally
  <2> QED BY <2>1, <2>2
<1>6. Derived(demo, half, player)
        = [clears |-> clears, lives |-> Cardinality(ordinary), controls |-> controls,
           pins |-> pins, tanks |-> Cardinality(lives \ ordinary)]
  BY DEF Derived
<1> HIDE DEF lives, ordinary, clears, controls, pins
<1> QED BY <1>2, <1>3, <1>4, <1>5, <1>6 DEF DerivedNames, Tally

\* A row at a place counts what it said and what is derived.
LEMMA RowsAreSeen ==
  ASSUME NEW demos, \A d \in DOMAIN demos : Demo(demos[d]), NEW x \in Places(demos)
  PROVE  /\ Seen(RowAt(demos, x))
         /\ RowAt(demos, x).side = PlainRow(demos, x).side
         /\ RowAt(demos, x).seconds = PlainRow(demos, x).seconds
         /\ LET demo == demos[x[1]]
            IN  RowAt(demos, x).counts
                  = Over(PlainRow(demos, x).counts,
                         Derived(demo, demo.halves[x[2]], PlainRow(demos, x).player))
         /\ PlayerAt(demos, x) \in demos[x[1]].players
         /\ PlayerAt(demos, x).id = PlainRow(demos, x).player
<1> DEFINE demo == demos[x[1]]
           row == PlainRow(demos, x)
           d == Derived(demo, demo.halves[x[2]], row.player)
<1>1. /\ x[1] \in DOMAIN demos /\ x[2] \in DOMAIN demo.halves
      /\ x[3] \in DOMAIN demo.halves[x[2]].rows
  BY PlacesOf
<1>2. Demo(demo)
  BY <1>1
<1>3. HalfOf(demo.halves[x[2]], demo.players)
  BY <1>1, <1>2 DEF Demo
<1>4. Line(row) /\ \E p \in demo.players : p.id = row.player
  BY <1>1, <1>3 DEF HalfOf, PlainRow
<1>5. PlayerAt(demos, x) \in demo.players /\ PlayerAt(demos, x).id = row.player
  BY <1>4 DEF PlayerAt
<1>6. RowAt(demos, x) = [row EXCEPT !.counts = Over(@, d)]
  BY DEF RowAt
<1>7. /\ DOMAIN d = DerivedNames
      /\ \A n \in DerivedNames : d[n] \in Tally
      /\ d["lives"] \in Nat /\ d["controls"] \in Nat /\ d["tanks"] \in Nat
  BY <1>2, DerivedIsCounted
<1> HIDE DEF row, d, demo
<1>8. /\ RowAt(demos, x).side = row.side /\ RowAt(demos, x).seconds = row.seconds
      /\ RowAt(demos, x).counts = Over(row.counts, d)
  BY <1>4, <1>6 DEF Line
<1>9. Seen(RowAt(demos, x))
  <2> DEFINE c == Over(row.counts, d)
  <2>1. /\ DOMAIN c = DOMAIN row.counts \cup DerivedNames
        /\ \A n \in DOMAIN row.counts : c[n] = row.counts[n]
        /\ \A n \in DerivedNames : c[n] = d[n]
    BY <1>4, <1>7 DEF Line, Over
  <2>2. c = [n \in DOMAIN c |-> c[n]]
    BY DEF Over
  <2> HIDE DEF c
  <2>3. \A n \in DOMAIN c : c[n] \in Tally
    BY <1>4, <1>7, <2>1 DEF Line
  <2>4. c \in [DOMAIN c -> Tally]
    BY <2>2, <2>3
  <2>5. \A n \in {"lives", "controls", "tanks"} : n \in DOMAIN c /\ c[n] \in Nat
    BY <1>7, <2>1 DEF DerivedNames
  <2>6. RowAt(demos, x).counts = c /\ RowAt(demos, x).seconds \in Nat
    BY <1>4, <1>8 DEF Line, c
  <2> QED BY <2>4, <2>5, <2>6 DEF Seen
<1> QED BY <1>5, <1>8, <1>9 DEF row, d, demo

\* What a metric counts in a row and is divided by.
LEMMA NumeratorIsTally ==
  ASSUME NEW row, Seen(row), NEW m \in Metrics
  PROVE  /\ Numerator(row, m) \in Tally
         /\ Exposure(row, m) \in Nat
<1>1. Rateable(m)
  BY MetricsAreRateable
<1>2. \A n : Counter(row, n) \in Tally
  BY DEF Seen, Counter, Tally
<1>3. Numerator(row, m) \in Tally
  <2>1. CASE \E n \in m.of : Counter(row, n) = Missing
    BY <2>1 DEF Numerator, Tally
  <2>2. CASE ~ \E n \in m.of : Counter(row, n) = Missing
    <3> DEFINE f == [n \in m.of |-> Counter(row, n)]
    <3>1. \A n \in m.of : f[n] \in Nat
      BY <1>2, <2>2 DEF Tally
    <3>2. IsFiniteSet(m.of)
      BY <1>1 DEF Rateable
    <3>3. Numerator(row, m) = SumFunctionOnSet(f, m.of)
      BY <2>2 DEF Numerator, SumFunction
    <3> HIDE DEF f
    <3>4. SumFunctionOnSet(f, m.of) \in Nat
      BY <3>1, <3>2, SumIsNat
    <3> QED BY <3>3, <3>4 DEF Tally
  <2> QED BY <2>1, <2>2
<1>4. Exposure(row, m) \in Nat
  BY <1>1 DEF Rateable, Pers, Seen, Exposure
<1> QED BY <1>3, <1>4

-----------------------------------------------------------------------------
(* Inputs merged *)

\* What an input is made of.
LEMMA InputParts ==
  ASSUME NEW R
  PROVE  LET i == InputOf(R)
         IN  /\ i = [maps |-> i.maps, seconds |-> i.seconds, lives |-> i.lives,
                     metrics |-> i.metrics]
             /\ i.maps = Cardinality({x[1] : x \in DOMAIN R})
             /\ i.seconds = SumFunction([x \in On(R, "Survivor") |-> R[x].seconds])
             /\ i.lives = SumFunction([x \in On(R, "Infected") |-> R[x].counts["lives"]])
             /\ i.metrics = [m \in DOMAIN i.metrics |-> i.metrics[m]]
             /\ DOMAIN i.metrics = {m \in Metrics : Adding(R, m) # {}}
             /\ \A m \in DOMAIN i.metrics :
                   /\ i.metrics[m] = [total |-> i.metrics[m].total,
                                      exposure |-> i.metrics[m].exposure]
                   /\ i.metrics[m].total
                        = SumFunction([x \in Adding(R, m) |-> Numerator(R[x], m)])
                   /\ i.metrics[m].exposure
                        = SumFunction([x \in Adding(R, m) |-> Exposure(R[x], m)])
<1> DEFINE f == [m \in {n \in Metrics : Adding(R, n) # {}} |->
                   [total    |-> SumFunction([x \in Adding(R, m) |-> Numerator(R[x], m)]),
                    exposure |-> SumFunction([x \in Adding(R, m) |-> Exposure(R[x], m)])]]
           g == [maps    |-> Cardinality({x[1] : x \in DOMAIN R}),
                 seconds |-> SumFunction([x \in On(R, "Survivor") |-> R[x].seconds]),
                 lives   |-> SumFunction([x \in On(R, "Infected") |-> R[x].counts["lives"]]),
                 metrics |-> f]
<1>1. InputOf(R) = g
  BY TableIs DEF InputOf
<1>2. /\ g = [maps |-> g.maps, seconds |-> g.seconds, lives |-> g.lives, metrics |-> g.metrics]
      /\ g.maps = Cardinality({x[1] : x \in DOMAIN R})
      /\ g.seconds = SumFunction([x \in On(R, "Survivor") |-> R[x].seconds])
      /\ g.lives = SumFunction([x \in On(R, "Infected") |-> R[x].counts["lives"]])
      /\ g.metrics = f
  OBVIOUS
<1>3. /\ f = [m \in DOMAIN f |-> f[m]]
      /\ DOMAIN f = {m \in Metrics : Adding(R, m) # {}}
  OBVIOUS
<1>4. \A m \in DOMAIN f :
         /\ f[m] = [total |-> f[m].total, exposure |-> f[m].exposure]
         /\ f[m].total = SumFunction([x \in Adding(R, m) |-> Numerator(R[x], m)])
         /\ f[m].exposure = SumFunction([x \in Adding(R, m) |-> Exposure(R[x], m)])
  OBVIOUS
<1> HIDE DEF f, g
<1> QED BY <1>1, <1>2, <1>3, <1>4

\* Where a row is: a demo, a half and a row of it.
Triple(x) == x = <<x[1], x[2], x[3]>>

\* The same place in demo d.
At(x, d) == <<d, x[2], x[3]>>

\* A place may be moved to another demo and back.
LEMMA Moving ==
    /\ \A x, d : /\ Triple(At(x, d))
                 /\ At(x, d)[1] = d /\ At(x, d)[2] = x[2] /\ At(x, d)[3] = x[3]
    /\ \A x : Triple(x) => At(x, x[1]) = x
    /\ \A x, d, e : At(At(x, d), e) = At(x, e)
BY DEF Triple, At

\* The rows of players, by where they are.
Rows(R) ==
    /\ R = [x \in DOMAIN R |-> R[x]]
    /\ IsFiniteSet(DOMAIN R)
    /\ \A x \in DOMAIN R : Triple(x) /\ Seen(R[x])

\* Y has the places of X in demo d, and calls it 1.
Among(Y, X, d) == \A y : y \in Y <=> Triple(y) /\ y[1] = 1 /\ At(y, d) \in X

\* Q has the rows R has in demo d.
Part(Q, R, d) ==
    /\ Q = [x \in DOMAIN Q |-> Q[x]]
    /\ Among(DOMAIN Q, DOMAIN R, d)
    /\ \A y \in DOMAIN Q : Q[y] = R[At(y, d)]

\* The sum over the places of a demo is that over the same places called 1.
LEMMA SumOfOneDemo ==
  ASSUME NEW X, IsFiniteSet(X), \A x \in X : Triple(x),
         NEW v, \A x \in X : v[x] \in Int,
         NEW k, NEW B, NEW w, Among(B, X, k), \A y \in B : w[y] = v[At(y, k)],
         NEW F, \A x : x \in F <=> x \in X /\ x[1] = k
  PROVE  SumFunctionOnSet(v, F) = SumFunctionOnSet(w, B)
<1> DEFINE q == [x \in X |-> At(x, 1)]
<1>1. \A x \in X : q[x] = At(x, 1)
  OBVIOUS
<1> HIDE DEF q
<1>2. IsFiniteSet(F)
  <2>1. F \in SUBSET X
    OBVIOUS
  <2> QED BY <2>1, FS_Subset
<1>3. \A x \in F : x \in X /\ q[x] = At(x, 1) /\ At(q[x], k) = x
  BY <1>1, Moving
<1>4. \A x \in F : q[x] \in B
  BY <1>3, Moving DEF Among
<1>5. ASSUME NEW y \in B PROVE \E x \in F : q[x] = y
  <2>1. Triple(y) /\ y[1] = 1 /\ At(y, k) \in X
    BY DEF Among
  <2>2. At(y, k) \in F /\ At(At(y, k), 1) = y
    BY <2>1, Moving
  <2> QED BY <1>3, <2>2
<1>6. \A x, y \in F : q[x] = q[y] => x = y
  BY <1>3
<1>7. IsFiniteSet(B)
  <2>1. B = {q[x] : x \in F}
    BY <1>4, <1>5
  <2> QED BY <1>2, <2>1, ImageIsFinite
<1>8. \A x \in F : w[q[x]] = v[x] /\ v[x] \in Int
  BY <1>3, <1>4
<1> QED BY <1>2, <1>4, <1>5, <1>6, <1>7, <1>8, SumRenamed

\* w sums in demo d what v sums over X.
Summand(w, v, X, d) ==
    /\ Among(DOMAIN w, X, d)
    /\ \A y \in DOMAIN w : w[y] = v[At(y, d)]

\* h is what w sums in each of the demos K.
Summands(h, w, v, X, K) == \A k \in K : Summand(w[k], v, X, k) /\ h[k] = SumFunction(w[k])

\* A sum over places is the sum of the sums over the places of each demo.
LEMMA SumByDemo ==
  ASSUME NEW X, IsFiniteSet(X), \A x \in X : Triple(x),
         NEW v, \A x \in X : v[x] \in Int,
         NEW K, IsFiniteSet(K), \A x \in X : x[1] \in K,
         NEW w, NEW h, Summands(h, w, v, X, K)
  PROVE  SumFunctionOnSet(v, X) = SumFunctionOnSet(h, K)
<1> DEFINE p == [x \in X |-> x[1]]
<1>1. \A k, x : x \in Fibre(X, p, k) <=> x \in X /\ x[1] = k
  BY DEF Fibre
<1>2. \A x \in X : p[x] \in K
  OBVIOUS
<1> HIDE DEF p
<1>3. ASSUME NEW k \in K PROVE h[k] = SumFunctionOnSet(v, Fibre(X, p, k))
  <2> DEFINE Bk == DOMAIN w[k]
             wk == w[k]
             F == Fibre(X, p, k)
  <2>1. /\ Among(Bk, X, k) /\ \A y \in Bk : wk[y] = v[At(y, k)]
        /\ h[k] = SumFunctionOnSet(wk, Bk)
    BY DEF Summands, Summand, SumFunction
  <2>2. \A x : x \in F <=> x \in X /\ x[1] = k
    BY <1>1
  <2> HIDE DEF Bk, wk, F
  <2>3. SumFunctionOnSet(v, F) = SumFunctionOnSet(wk, Bk)
    BY <2>1, <2>2, SumOfOneDemo
  <2> QED BY <2>1, <2>3 DEF F
<1> QED BY <1>2, <1>3, SumOfParts

\* The demos R has rows of, with a part of R each.
Parted(Q, R, E) ==
    /\ Rows(R)
    /\ E = {x[1] : x \in DOMAIN R}
    /\ \A d \in E : Part(Q[d], R, d)

\* Parts have places, of finitely many demos.
LEMMA PartedIsFinite ==
  ASSUME NEW R, NEW E, NEW Q, Parted(Q, R, E)
  PROVE  /\ IsFiniteSet(E)
         /\ \A x \in DOMAIN R : x[1] \in E
         /\ \A d \in E : \E y \in DOMAIN Q[d] : TRUE
<1>1. IsFiniteSet(E)
  <2> DEFINE g == [x \in DOMAIN R |-> x[1]]
  <2>1. E = {g[x] : x \in DOMAIN R}
    BY DEF Parted
  <2>2. IsFiniteSet(DOMAIN R)
    BY DEF Parted, Rows
  <2> HIDE DEF g
  <2> QED BY <2>1, <2>2, ImageIsFinite
<1>2. ASSUME NEW d \in E PROVE \E y \in DOMAIN Q[d] : TRUE
  <2>1. PICK x \in DOMAIN R : x[1] = d
    BY DEF Parted
  <2> DEFINE y == At(x, 1)
  <2>2. Triple(x) /\ Triple(y) /\ y[1] = 1 /\ At(y, d) = At(x, d)
    BY Moving DEF Parted, Rows
  <2>3. At(x, d) = x
    BY <2>1, <2>2, Moving
  <2> HIDE DEF y
  <2>4. Among(DOMAIN Q[d], DOMAIN R, d)
    BY DEF Parted, Part
  <2>5. y \in DOMAIN Q[d]
    BY <2>2, <2>3, <2>4 DEF Among
  <2> QED BY <2>5
<1> QED BY <1>1, <1>2 DEF Parted

\* What counts of a part is what counts of the whole in its demo.
LEMMA PartsOf ==
  ASSUME NEW R, NEW Q, NEW d, Part(Q, R, d)
  PROVE  /\ \A side : Among(On(Q, side), On(R, side), d)
         /\ \A m : Among(Adding(Q, m), Adding(R, m), d)
<1>1. Among(DOMAIN Q, DOMAIN R, d) /\ \A y \in DOMAIN Q : Q[y] = R[At(y, d)]
  BY DEF Part
<1>2. \A side : Among(On(Q, side), On(R, side), d)
  BY <1>1 DEF Among, On
<1>3. ASSUME NEW m PROVE Among(Adding(Q, m), Adding(R, m), d)
  <2>1. On(Q, m.role) \subseteq DOMAIN Q
    BY DEF On
  <2>2. Among(On(Q, m.role), On(R, m.role), d)
    BY <1>2
  <2>3. \A y \in On(Q, m.role) : Q[y] = R[At(y, d)]
    BY <1>1, <2>1
  <2> QED BY <2>2, <2>3 DEF Among, Adding
<1> QED BY <1>2, <1>3

\* What is summed of rows is a number.
LEMMA WhatIsSummed ==
  ASSUME NEW R, Rows(R)
  PROVE  /\ \A side : /\ On(R, side) \subseteq DOMAIN R /\ IsFiniteSet(On(R, side))
                      /\ \A x \in On(R, side) : Triple(x)
         /\ \A m : Adding(R, m) \subseteq DOMAIN R /\ IsFiniteSet(Adding(R, m))
         /\ \A x \in DOMAIN R : R[x].seconds \in Nat /\ R[x].counts["lives"] \in Nat
         /\ \A m \in Metrics : \A x \in Adding(R, m) :
               Triple(x) /\ Numerator(R[x], m) \in Nat /\ Exposure(R[x], m) \in Nat \ {0}
<1>1. IsFiniteSet(DOMAIN R) /\ \A x \in DOMAIN R : Triple(x) /\ Seen(R[x])
  BY DEF Rows
<1>2. \A side : On(R, side) \subseteq DOMAIN R
  BY DEF On
<1>3. \A m : Adding(R, m) \subseteq DOMAIN R
  BY <1>2 DEF Adding
<1>4. \A S : S \subseteq DOMAIN R => IsFiniteSet(S)
  BY <1>1, FS_Subset
<1>5. \A x \in DOMAIN R : R[x].seconds \in Nat /\ R[x].counts["lives"] \in Nat
  BY <1>1 DEF Seen
<1>6. ASSUME NEW m \in Metrics, NEW x \in Adding(R, m)
      PROVE  Triple(x) /\ Numerator(R[x], m) \in Nat /\ Exposure(R[x], m) \in Nat \ {0}
  <2>1. Triple(x) /\ Seen(R[x])
    BY <1>1, <1>3
  <2>2. Numerator(R[x], m) \in Tally /\ Exposure(R[x], m) \in Nat
    BY <2>1, NumeratorIsTally
  <2>3. Numerator(R[x], m) # Missing /\ Exposure(R[x], m) > 0
    BY DEF Adding
  <2> QED BY <2>1, <2>2, <2>3 DEF Tally
<1> QED BY <1>1, <1>2, <1>3, <1>4, <1>5, <1>6

\* What the parts sum is, demo by demo, what the whole sums.
LEMMA SumByParts ==
  ASSUME NEW R, NEW E, NEW Q, Parted(Q, R, E),
         NEW X, X \subseteq DOMAIN R,
         NEW K, K \subseteq E, \A x \in X : x[1] \in K,
         NEW v, DOMAIN v = X, \A x \in X : v[x] \in Int,
         NEW w, NEW h, DOMAIN h = K, Summands(h, w, v, X, K)
  PROVE  SumFunction(h) = SumFunction(v)
<1>1. IsFiniteSet(X) /\ \A x \in X : Triple(x)
  BY FS_Subset DEF Parted, Rows
<1>2. IsFiniteSet(K)
  BY PartedIsFinite, FS_Subset
<1>3. SumFunction(v) = SumFunctionOnSet(v, X) /\ SumFunction(h) = SumFunctionOnSet(h, K)
  BY DEF SumFunction
<1> QED BY <1>1, <1>2, <1>3, SumByDemo

\* The demos whose part has rows in which a metric is known.
Having(Q, E, m) == {d \in E : Adding(Q[d], m) # {}}

\* A metric is in the input of the whole when it is in that of a part.
LEMMA MetricsOfParts ==
  ASSUME NEW R, NEW E, NEW Q, Parted(Q, R, E), NEW m
  PROVE  /\ \A x \in Adding(R, m) : x[1] \in Having(Q, E, m)
         /\ Having(Q, E, m) # {} <=> Adding(R, m) # {}
<1>1. ASSUME NEW x \in Adding(R, m)
      PROVE  x[1] \in E /\ Adding(Q[x[1]], m) # {}
  <2> DEFINE d == x[1]
             y == At(x, 1)
  <2>1. x \in DOMAIN R /\ Triple(x)
    BY WhatIsSummed DEF Parted, Rows
  <2>2. d \in E
    BY <2>1, PartedIsFinite
  <2>3. Among(Adding(Q[d], m), Adding(R, m), d)
    BY <2>2, PartsOf DEF Parted
  <2>4. Triple(y) /\ y[1] = 1 /\ At(y, d) = x
    BY <2>1, Moving
  <2> HIDE DEF d, y
  <2>5. y \in Adding(Q[d], m)
    BY <2>3, <2>4 DEF Among
  <2> QED BY <2>2, <2>5 DEF d
<1>2. ASSUME NEW d \in E, NEW y \in Adding(Q[d], m) PROVE At(y, d) \in Adding(R, m)
  <2>1. Among(Adding(Q[d], m), Adding(R, m), d)
    BY PartsOf DEF Parted
  <2> QED BY <2>1 DEF Among
<1> QED BY <1>1, <1>2 DEF Having

\* What is merged of the inputs of the demos is the input of all rows.
LEMMA MergedIsWhole ==
  ASSUME NEW R, NEW E, NEW Q, Parted(Q, R, E)
  PROVE  MergeInputs([d \in E |-> InputOf(Q[d])]) = InputOf(R)
<1> DEFINE F == [d \in E |-> InputOf(Q[d])]
           i == InputOf(R)
           With(m) == {d \in E : m \in DOMAIN F[d].metrics}
           M == [m \in {n \in Metrics : With(n) # {}} |->
                   [total    |-> SumFunction([d \in With(m) |-> F[d].metrics[m].total]),
                    exposure |-> SumFunction([d \in With(m) |-> F[d].metrics[m].exposure])]]
<1>1. IsFiniteSet(E) /\ Rows(R) /\ E = {x[1] : x \in DOMAIN R}
  BY PartedIsFinite DEF Parted
<1>2. \A d \in E : Part(Q[d], R, d)
  BY DEF Parted
<1>3. SumFunction([d \in E |-> F[d].maps]) = i.maps
  <2> DEFINE h == [d \in E |-> F[d].maps]
  <2>1. ASSUME NEW d \in E PROVE h[d] = 1
    <3>1. h[d] = Cardinality({y[1] : y \in DOMAIN Q[d]})
      BY InputParts
    <3>2. \A y \in DOMAIN Q[d] : y[1] = 1
      BY <1>2 DEF Part, Among
    <3>3. {y[1] : y \in DOMAIN Q[d]} = {1}
      BY <3>2, PartedIsFinite
    <3> QED BY <3>1, <3>3, FS_Singleton
  <2>2. SumFunction(h) = SumFunctionOnSet(h, E)
    BY DEF SumFunction
  <2>3. i.maps = Cardinality(E)
    BY <1>1, InputParts
  <2> HIDE DEF h, i
  <2>4. SumFunctionOnSet(h, E) = 1 * Cardinality(E)
    BY <1>1, <2>1, SumOfConstant
  <2>5. Cardinality(E) \in Nat
    BY <1>1, FS_CardinalityType
  <2> QED BY <2>2, <2>3, <2>4, <2>5 DEF h
<1>4. SumFunction([d \in E |-> F[d].seconds]) = i.seconds
  <2> DEFINE h == [d \in E |-> F[d].seconds]
             X == On(R, "Survivor")
             v == [x \in X |-> R[x].seconds]
             w == [d \in E |-> [y \in On(Q[d], "Survivor") |-> Q[d][y].seconds]]
  <2>1. i.seconds = SumFunction(v)
    BY InputParts
  <2>2. DOMAIN h = E /\ \A d \in E : h[d] = SumFunction(w[d])
    BY InputParts
  <2>3. /\ X \subseteq DOMAIN R /\ \A x \in X : x[1] \in E
        /\ DOMAIN v = X /\ \A x \in X : v[x] \in Int
    BY <1>1, WhatIsSummed, PartedIsFinite
  <2>4. ASSUME NEW d \in E PROVE Summand(w[d], v, X, d)
    <3>1. DOMAIN w[d] = On(Q[d], "Survivor")
      OBVIOUS
    <3>2. Among(DOMAIN w[d], X, d)
      BY <1>2, <3>1, PartsOf
    <3>3. ASSUME NEW y \in DOMAIN w[d] PROVE w[d][y] = v[At(y, d)]
      <4>1. y \in DOMAIN Q[d] /\ w[d][y] = Q[d][y].seconds
        BY <3>1 DEF On
      <4>2. Q[d][y] = R[At(y, d)]
        BY <1>2, <4>1 DEF Part
      <4>3. At(y, d) \in X
        BY <3>2 DEF Among
      <4> QED BY <4>1, <4>2, <4>3
    <3> QED BY <3>2, <3>3 DEF Summand
  <2>6. E \subseteq E
    OBVIOUS
  <2>7. Summands(h, w, v, X, E)
    <3> HIDE DEF h, X, v, w
    <3> QED BY <2>2, <2>4 DEF Summands
  <2> HIDE DEF h, X, v, w, i, F
  <2>5. SumFunction(h) = SumFunction(v)
    BY <2>2, <2>3, <2>6, <2>7, SumByParts
  <2> QED BY <2>1, <2>5 DEF h
<1>5. SumFunction([d \in E |-> F[d].lives]) = i.lives
  <2> DEFINE h == [d \in E |-> F[d].lives]
             X == On(R, "Infected")
             v == [x \in X |-> R[x].counts["lives"]]
             w == [d \in E |-> [y \in On(Q[d], "Infected") |-> Q[d][y].counts["lives"]]]
  <2>1. i.lives = SumFunction(v)
    BY InputParts
  <2>2. DOMAIN h = E /\ \A d \in E : h[d] = SumFunction(w[d])
    BY InputParts
  <2>3. /\ X \subseteq DOMAIN R /\ \A x \in X : x[1] \in E
        /\ DOMAIN v = X /\ \A x \in X : v[x] \in Int
    BY <1>1, WhatIsSummed, PartedIsFinite
  <2>4. ASSUME NEW d \in E PROVE Summand(w[d], v, X, d)
    <3>1. DOMAIN w[d] = On(Q[d], "Infected")
      OBVIOUS
    <3>2. Among(DOMAIN w[d], X, d)
      BY <1>2, <3>1, PartsOf
    <3>3. ASSUME NEW y \in DOMAIN w[d] PROVE w[d][y] = v[At(y, d)]
      <4>1. y \in DOMAIN Q[d] /\ w[d][y] = Q[d][y].counts["lives"]
        BY <3>1 DEF On
      <4>2. Q[d][y] = R[At(y, d)]
        BY <1>2, <4>1 DEF Part
      <4>3. At(y, d) \in X
        BY <3>2 DEF Among
      <4> QED BY <4>1, <4>2, <4>3
    <3> QED BY <3>2, <3>3 DEF Summand
  <2>6. E \subseteq E
    OBVIOUS
  <2>7. Summands(h, w, v, X, E)
    <3> HIDE DEF h, X, v, w
    <3> QED BY <2>2, <2>4 DEF Summands
  <2> HIDE DEF h, X, v, w, i, F
  <2>5. SumFunction(h) = SumFunction(v)
    BY <2>2, <2>3, <2>6, <2>7, SumByParts
  <2> QED BY <2>1, <2>5 DEF h
<1>6. ASSUME NEW m \in Metrics PROVE With(m) = Having(Q, E, m)
  <2>1. \A d \in E : DOMAIN F[d].metrics = {n \in Metrics : Adding(Q[d], n) # {}}
    BY InputParts
  <2> HIDE DEF F
  <2> QED BY <2>1 DEF Having
<1>7. ASSUME NEW m \in DOMAIN i.metrics
      PROVE  SumFunction([d \in With(m) |-> F[d].metrics[m].total]) = i.metrics[m].total
  <2> DEFINE K == With(m)
             h == [d \in K |-> F[d].metrics[m].total]
             X == Adding(R, m)
             v == [x \in X |-> Numerator(R[x], m)]
             w == [d \in K |-> [y \in Adding(Q[d], m) |-> Numerator(Q[d][y], m)]]
  <2>1. m \in Metrics /\ i.metrics[m].total = SumFunction(v)
    BY InputParts
  <2>2. /\ DOMAIN h = K
        /\ \A d \in K : h[d] = SumFunction(w[d])
    BY InputParts
  <2>3. /\ X \subseteq DOMAIN R /\ K \subseteq E
        /\ DOMAIN v = X /\ \A x \in X : v[x] \in Int
    BY <1>1, <2>1, WhatIsSummed
  <2>4. \A x \in X : x[1] \in K
    <3> HIDE DEF With, i
    <3> QED BY <1>6, <2>1, MetricsOfParts
  <2>5. ASSUME NEW d \in K PROVE Summand(w[d], v, X, d)
    <3>1. DOMAIN w[d] = Adding(Q[d], m)
      OBVIOUS
    <3>2. Among(DOMAIN w[d], X, d)
      BY <1>2, <2>3, <3>1, PartsOf
    <3>3. ASSUME NEW y \in DOMAIN w[d] PROVE w[d][y] = v[At(y, d)]
      <4>1. y \in DOMAIN Q[d] /\ w[d][y] = Numerator(Q[d][y], m)
        BY <3>1 DEF Adding, On
      <4>2. Q[d][y] = R[At(y, d)]
        BY <1>2, <2>3, <4>1 DEF Part
      <4>3. At(y, d) \in X
        BY <3>2 DEF Among
      <4> QED BY <4>1, <4>2, <4>3
    <3> QED BY <3>2, <3>3 DEF Summand
  <2>7. Summands(h, w, v, X, K)
    <3> HIDE DEF K, h, X, v, w
    <3> QED BY <2>2, <2>5 DEF Summands
  <2> HIDE DEF K, h, X, v, w, i, F
  <2>6. SumFunction(h) = SumFunction(v)
    BY <2>2, <2>3, <2>4, <2>7, SumByParts
  <2> QED BY <2>1, <2>6 DEF h, K
<1>8. ASSUME NEW m \in DOMAIN i.metrics
      PROVE  SumFunction([d \in With(m) |-> F[d].metrics[m].exposure]) = i.metrics[m].exposure
  <2> DEFINE K == With(m)
             h == [d \in K |-> F[d].metrics[m].exposure]
             X == Adding(R, m)
             v == [x \in X |-> Exposure(R[x], m)]
             w == [d \in K |-> [y \in Adding(Q[d], m) |-> Exposure(Q[d][y], m)]]
  <2>1. m \in Metrics /\ i.metrics[m].exposure = SumFunction(v)
    BY InputParts
  <2>2. /\ DOMAIN h = K
        /\ \A d \in K : h[d] = SumFunction(w[d])
    BY InputParts
  <2>3. /\ X \subseteq DOMAIN R /\ K \subseteq E
        /\ DOMAIN v = X /\ \A x \in X : v[x] \in Int
    BY <1>1, <2>1, WhatIsSummed
  <2>4. \A x \in X : x[1] \in K
    <3> HIDE DEF With, i
    <3> QED BY <1>6, <2>1, MetricsOfParts
  <2>5. ASSUME NEW d \in K PROVE Summand(w[d], v, X, d)
    <3>1. DOMAIN w[d] = Adding(Q[d], m)
      OBVIOUS
    <3>2. Among(DOMAIN w[d], X, d)
      BY <1>2, <2>3, <3>1, PartsOf
    <3>3. ASSUME NEW y \in DOMAIN w[d] PROVE w[d][y] = v[At(y, d)]
      <4>1. y \in DOMAIN Q[d] /\ w[d][y] = Exposure(Q[d][y], m)
        BY <3>1 DEF Adding, On
      <4>2. Q[d][y] = R[At(y, d)]
        BY <1>2, <2>3, <4>1 DEF Part
      <4>3. At(y, d) \in X
        BY <3>2 DEF Among
      <4> QED BY <4>1, <4>2, <4>3
    <3> QED BY <3>2, <3>3 DEF Summand
  <2>7. Summands(h, w, v, X, K)
    <3> HIDE DEF K, h, X, v, w
    <3> QED BY <2>2, <2>5 DEF Summands
  <2> HIDE DEF K, h, X, v, w, i, F
  <2>6. SumFunction(h) = SumFunction(v)
    BY <2>2, <2>3, <2>4, <2>7, SumByParts
  <2> QED BY <2>1, <2>6 DEF h, K
<1>9. M = i.metrics
  <2>1. DOMAIN i.metrics = {m \in Metrics : Adding(R, m) # {}}
    BY InputParts
  <2>2. \A m \in Metrics : With(m) # {} <=> Adding(R, m) # {}
    <3> HIDE DEF With
    <3> QED BY <1>6, MetricsOfParts
  <2>3. DOMAIN M = DOMAIN i.metrics
    BY <2>1, <2>2
  <2>4. ASSUME NEW m \in DOMAIN i.metrics PROVE M[m] = i.metrics[m]
    <3>1. M[m] = [total    |-> SumFunction([d \in With(m) |-> F[d].metrics[m].total]),
                  exposure |-> SumFunction([d \in With(m) |-> F[d].metrics[m].exposure])]
      BY <2>3
    <3>2. i.metrics[m] = [total |-> i.metrics[m].total, exposure |-> i.metrics[m].exposure]
      BY InputParts
    <3> QED BY <1>7, <1>8, <3>1, <3>2
  <2>5. i.metrics = [m \in DOMAIN i.metrics |-> i.metrics[m]]
    BY InputParts
  <2>6. M = [m \in DOMAIN M |-> M[m]]
    OBVIOUS
  <2> HIDE DEF M, i
  <2> QED BY <2>3, <2>4, <2>5, <2>6
<1>10. MergeInputs(F) = [maps    |-> SumFunction([d \in E |-> F[d].maps]),
                         seconds |-> SumFunction([d \in E |-> F[d].seconds]),
                         lives   |-> SumFunction([d \in E |-> F[d].lives]),
                         metrics |-> M]
  <2>1. DOMAIN F = E
    OBVIOUS
  <2> HIDE DEF F
  <2> QED BY <2>1 DEF MergeInputs
<1>11. i = [maps |-> i.maps, seconds |-> i.seconds, lives |-> i.lives, metrics |-> i.metrics]
  BY InputParts
<1> HIDE DEF F, M, With, i
<1>12. MergeInputs(F) = i
  BY <1>3, <1>4, <1>5, <1>9, <1>10, <1>11
<1> QED BY <1>12 DEF F, i

-----------------------------------------------------------------------------
(* The page and the career *)

\* A demo alone has the places it has among others, the same rows and players.
LEMMA DemoAlone ==
  ASSUME NEW demos, NEW d \in DOMAIN demos
  PROVE  /\ Among(Places(<<demos[d]>>), Places(demos), d)
         /\ \A y \in Places(<<demos[d]>>) :
               /\ RowAt(<<demos[d]>>, y) = RowAt(demos, At(y, d))
               /\ PlayerAt(<<demos[d]>>, y) = PlayerAt(demos, At(y, d))
<1> DEFINE one == <<demos[d]>>
<1>1. DOMAIN one = {1} /\ one[1] = demos[d]
  OBVIOUS
<1> HIDE DEF one
<1>2. ASSUME NEW y PROVE y \in Places(one) <=> Triple(y) /\ y[1] = 1 /\ At(y, d) \in Places(demos)
  <2> DEFINE x == At(y, d)
  <2>1. /\ Triple(x) /\ x[1] = d /\ x[2] = y[2] /\ x[3] = y[3]
    BY Moving
  <2>2. x \in Places(demos) <=> /\ y[2] \in DOMAIN demos[d].halves
                               /\ y[3] \in DOMAIN demos[d].halves[y[2]].rows
    <3> HIDE DEF x
    <3> QED BY <2>1, PlacesOf DEF Triple
  <2>3. y \in Places(one) <=> /\ Triple(y) /\ y[1] = 1
                              /\ y[2] \in DOMAIN demos[d].halves
                              /\ y[3] \in DOMAIN demos[d].halves[y[2]].rows
    BY <1>1, PlacesOf DEF Triple
  <2> QED BY <2>2, <2>3
<1>3. ASSUME NEW y \in Places(one)
      PROVE  /\ RowAt(one, y) = RowAt(demos, At(y, d))
             /\ PlayerAt(one, y) = PlayerAt(demos, At(y, d))
  <2> DEFINE x == At(y, d)
  <2>1. x[1] = d /\ x[2] = y[2] /\ x[3] = y[3] /\ y[1] = 1
    BY <1>2, Moving
  <2> HIDE DEF x
  <2>2. one[y[1]] = demos[x[1]] /\ PlainRow(one, y) = PlainRow(demos, x)
    BY <1>1, <2>1 DEF PlainRow
  <2>3. PlayerAt(one, y) = PlayerAt(demos, x)
    BY <2>2, Zenon DEF PlayerAt
  <2>4. RowAt(one, y) = RowAt(demos, x)
    BY <2>1, <2>2, Zenon DEF RowAt
  <2> QED BY <2>3, <2>4 DEF x
<1> QED BY <1>2, <1>3 DEF one, Among

\* An identified user is found by his identity alone.
LEMMA ResolvedByUser ==
  ASSUME NEW demos, Played(demos), NEW x \in Places(demos),
         NEW e \in DOMAIN demos, NEW q \in demos[e].players, q.user # Missing
  PROVE  WebResolve(demos, PlayerAt(demos, x), x[1]) = q.user
            <=> PlayerAt(demos, x).user = q.user
<1> DEFINE p == PlayerAt(demos, x)
           d == x[1]
<1>1. d \in DOMAIN demos /\ p \in demos[d].players
  BY PlacesOf, RowsAreSeen DEF Played
<1>2. q.user # <<d, p.id>>
  BY <1>1 DEF Played
<1> HIDE DEF p, d
<1> QED BY <1>2 DEF WebResolve, p, d

\* What is projected of demos, player by player.
LEMMA Projected ==
  ASSUME NEW demos, NEW who
  PROVE  LET inputs == ProjectInputs(demos, who)
         IN  /\ inputs = [u \in DOMAIN inputs |-> inputs[u]]
             /\ \A u : u \in DOMAIN inputs <=> u # Missing /\ \E x \in DOMAIN who : who[x] = u
             /\ \A u \in DOMAIN inputs : inputs[u] = InputOf(RowsOf(demos, who, u))
<1> DEFINE f == [u \in Range(who) \ {Missing} |-> InputOf(RowsOf(demos, who, u))]
<1>1. ProjectInputs(demos, who) = f
  BY TableIs DEF ProjectInputs
<1>2. \A u : u \in Range(who) <=> \E x \in DOMAIN who : who[x] = u
  BY DEF Range
<1> QED BY <1>1, <1>2

\* Who is at each place, for the page and for the store.
PageWho(demos)  == [x \in Places(demos) |-> WebResolve(demos, PlayerAt(demos, x), x[1])]
StoredWho(demo) == [x \in Places(<<demo>>) |-> PlayerAt(<<demo>>, x).user]

\* The page and the store differ in who a place is resolved to only.
LEMMA WhoIs ==
    /\ \A demos : WebInputs(demos) = ProjectInputs(demos, PageWho(demos))
    /\ \A demo : MaterializedInputs(demo) = ProjectInputs(<<demo>>, StoredWho(demo))
<1>1. ASSUME NEW demos PROVE WebInputs(demos) = ProjectInputs(demos, PageWho(demos))
  <2>1. Table(PageWho(demos)) = PageWho(demos)
    BY TableIs
  <2> QED BY <2>1 DEF WebInputs, PageWho
<1>2. ASSUME NEW demo PROVE MaterializedInputs(demo) = ProjectInputs(<<demo>>, StoredWho(demo))
  <2>1. Table(StoredWho(demo)) = StoredWho(demo)
    BY TableIs
  <2> QED BY <2>1 DEF MaterializedInputs, StoredWho
<1> QED BY <1>1, <1>2

\* The rows of one player.
LEMMA RowsOfWho ==
  ASSUME NEW demos, NEW who, NEW u
  PROVE  RowsOf(demos, who, u) = [x \in {y \in DOMAIN who : who[y] = u} |-> RowAt(demos, x)]
BY TableIs DEF RowsOf

\* The rows the store has of a user, demo by demo, are parts of those the page has.
LEMMA StoredIsParted ==
  ASSUME NEW demos, Played(demos),
         NEW e \in DOMAIN demos, NEW q \in demos[e].players, q.user # Missing
  PROVE  LET u == q.user
             R == RowsOf(demos, PageWho(demos), u)
             Q == [d \in DOMAIN demos |-> RowsOf(<<demos[d]>>, StoredWho(demos[d]), u)]
             E == {d \in DOMAIN demos : u \in DOMAIN MaterializedInputs(demos[d])}
         IN  /\ Parted(Q, R, E)
             /\ \A d \in E : MaterializedInputs(demos[d])[u] = InputOf(Q[d])
<1> DEFINE u == q.user
           R == RowsOf(demos, PageWho(demos), u)
           Qd(d) == RowsOf(<<demos[d]>>, StoredWho(demos[d]), u)
           Q == [d \in DOMAIN demos |-> Qd(d)]
           E == {d \in DOMAIN demos : u \in DOMAIN MaterializedInputs(demos[d])}
<1>1. /\ R = [x \in DOMAIN R |-> R[x]]
      /\ \A x : x \in DOMAIN R <=> x \in Places(demos) /\ PlayerAt(demos, x).user = u
      /\ \A x \in DOMAIN R : R[x] = RowAt(demos, x)
  <2>1. R = [x \in {y \in Places(demos) : PageWho(demos)[y] = u} |-> RowAt(demos, x)]
    BY RowsOfWho DEF PageWho
  <2>2. \A x \in Places(demos) : PageWho(demos)[x] = u <=> PlayerAt(demos, x).user = u
    BY ResolvedByUser DEF PageWho
  <2> HIDE DEF R, u
  <2> QED BY <2>1, <2>2
<1>2. ASSUME NEW d \in DOMAIN demos
      PROVE  /\ Qd(d) = [y \in DOMAIN Qd(d) |-> Qd(d)[y]]
             /\ \A y : y \in DOMAIN Qd(d)
                  <=> y \in Places(<<demos[d]>>) /\ PlayerAt(<<demos[d]>>, y).user = u
             /\ \A y \in DOMAIN Qd(d) : Qd(d)[y] = RowAt(<<demos[d]>>, y)
  <2>1. Qd(d) = [x \in {y \in Places(<<demos[d]>>) : StoredWho(demos[d])[y] = u} |->
                   RowAt(<<demos[d]>>, x)]
    BY RowsOfWho DEF StoredWho
  <2>2. \A y \in Places(<<demos[d]>>) : StoredWho(demos[d])[y] = PlayerAt(<<demos[d]>>, y).user
    BY DEF StoredWho
  <2> HIDE DEF Qd, u
  <2> QED BY <2>1, <2>2
<1> HIDE DEF R, Qd, u
<1>3. ASSUME NEW d \in DOMAIN demos PROVE Part(Qd(d), R, d)
  <2>1. Among(DOMAIN Qd(d), DOMAIN R, d)
    <3> SUFFICES ASSUME NEW y
                 PROVE  y \in DOMAIN Qd(d) <=> Triple(y) /\ y[1] = 1 /\ At(y, d) \in DOMAIN R
      BY DEF Among
    <3>1. y \in Places(<<demos[d]>>)
            <=> Triple(y) /\ y[1] = 1 /\ At(y, d) \in Places(demos)
      BY DemoAlone DEF Among
    <3>2. y \in Places(<<demos[d]>>)
            => PlayerAt(<<demos[d]>>, y) = PlayerAt(demos, At(y, d))
      BY DemoAlone
    <3>3. y \in DOMAIN Qd(d)
            <=> y \in Places(<<demos[d]>>) /\ PlayerAt(<<demos[d]>>, y).user = u
      BY <1>2
    <3>4. At(y, d) \in DOMAIN R
            <=> At(y, d) \in Places(demos) /\ PlayerAt(demos, At(y, d)).user = u
      BY <1>1
    <3> QED BY <3>1, <3>2, <3>3, <3>4
  <2>2. ASSUME NEW y \in DOMAIN Qd(d) PROVE Qd(d)[y] = R[At(y, d)]
    <3>1. y \in Places(<<demos[d]>>) /\ Qd(d)[y] = RowAt(<<demos[d]>>, y)
      BY <1>2
    <3>2. At(y, d) \in DOMAIN R
      BY <2>1 DEF Among
    <3>3. R[At(y, d)] = RowAt(demos, At(y, d))
      BY <1>1, <3>2
    <3> QED BY <3>1, <3>3, DemoAlone
  <2> QED BY <1>2, <2>1, <2>2 DEF Part
<1>4. \A d \in DOMAIN demos :
         /\ d \in E <=> \E y : y \in DOMAIN Qd(d)
         /\ d \in E => MaterializedInputs(demos[d])[u] = InputOf(Qd(d))
  <2> TAKE d \in DOMAIN demos
  <2>1. u \in DOMAIN MaterializedInputs(demos[d])
          <=> \E y \in Places(<<demos[d]>>) : StoredWho(demos[d])[y] = u
    <3>1. DOMAIN StoredWho(demos[d]) = Places(<<demos[d]>>) /\ u # Missing
      BY DEF StoredWho, u
    <3> QED BY <3>1, WhoIs, Projected
  <2>2. u \in DOMAIN MaterializedInputs(demos[d])
          => MaterializedInputs(demos[d])[u] = InputOf(Qd(d))
    BY WhoIs, Projected DEF Qd
  <2>3. \A y \in Places(<<demos[d]>>) : StoredWho(demos[d])[y] = PlayerAt(<<demos[d]>>, y).user
    BY DEF StoredWho
  <2> QED BY <1>2, <2>1, <2>2, <2>3
<1>5. Rows(R)
  <2>1. \A x \in DOMAIN R : x \in Places(demos)
    BY <1>1
  <2>2. IsFiniteSet(DOMAIN R)
    <3>1. DOMAIN R \in SUBSET Places(demos)
      BY <2>1
    <3>2. IsFiniteSet(Places(demos))
      BY PlacesAreFinite DEF Played
    <3> QED BY <3>1, <3>2, FS_Subset
  <2>3. \A x \in DOMAIN R : Triple(x) /\ Seen(R[x])
    BY <1>1, <2>1, PlacesOf, RowsAreSeen DEF Played, Triple
  <2> QED BY <1>1, <2>2, <2>3 DEF Rows
<1>6. E = {x[1] : x \in DOMAIN R}
  <2>1. ASSUME NEW d \in E PROVE \E x \in DOMAIN R : x[1] = d
    <3>1. PICK y : y \in DOMAIN Qd(d)
      BY <1>4
    <3>2. At(y, d) \in DOMAIN R
      BY <1>3, <3>1 DEF Part, Among
    <3> QED BY <3>2, Moving
  <2>2. ASSUME NEW x \in DOMAIN R PROVE x[1] \in E
    <3> DEFINE d == x[1]
    <3>1. d \in DOMAIN demos /\ Triple(x)
      BY <1>1, PlacesOf DEF Triple
    <3>2. /\ Triple(At(x, 1)) /\ At(x, 1)[1] = 1 /\ At(At(x, 1), d) = x
      BY <3>1, Moving
    <3>3. At(x, 1) \in DOMAIN Qd(d)
      BY <1>3, <3>1, <3>2 DEF Part, Among
    <3> QED BY <1>4, <3>1, <3>3
  <2> HIDE DEF E
  <2> QED BY <2>1, <2>2
<1>7. \A d \in E : d \in DOMAIN demos /\ Q[d] = Qd(d)
  OBVIOUS
<1> HIDE DEF E, Q
<1>8. Parted(Q, R, E) /\ \A d \in E : MaterializedInputs(demos[d])[u] = InputOf(Q[d])
  BY <1>3, <1>4, <1>5, <1>6, <1>7 DEF Parted
<1> QED BY <1>8, Zenon DEF E, Q, R, Qd, u

\* The page's input of an identified user is that of his career.
LEMMA PageIsCareer ==
  ASSUME NEW demos, Played(demos),
         NEW e \in DOMAIN demos, NEW q \in demos[e].players, q.user # Missing
  PROVE  LET stored == [d \in DOMAIN demos |-> MaterializedInputs(demos[d])]
         IN  Agree(WebInputs(demos), CareerInput(stored, q.user), q.user)
<1> DEFINE u == q.user
           R == RowsOf(demos, PageWho(demos), u)
           Q == [d \in DOMAIN demos |-> RowsOf(<<demos[d]>>, StoredWho(demos[d]), u)]
           E == {d \in DOMAIN demos : u \in DOMAIN MaterializedInputs(demos[d])}
           stored == [d \in DOMAIN demos |-> MaterializedInputs(demos[d])]
           page == WebInputs(demos)
<1>1. Parted(Q, R, E) /\ \A d \in E : MaterializedInputs(demos[d])[u] = InputOf(Q[d])
  BY StoredIsParted
<1>2. CareerInput(stored, u) = MergeInputs([d \in E |-> stored[d][u]])
  <2>1. {d \in DOMAIN stored : u \in DOMAIN stored[d]} = E
    OBVIOUS
  <2> HIDE DEF stored, E
  <2> QED BY <2>1 DEF CareerInput
<1>3. [d \in E |-> stored[d][u]] = [d \in E |-> InputOf(Q[d])]
  <2>1. \A d \in E : stored[d][u] = InputOf(Q[d])
    BY <1>1
  <2> HIDE DEF stored, E, Q
  <2> QED BY <2>1
<1> HIDE DEF stored, E, Q, R
<1>4. MergeInputs([d \in E |-> InputOf(Q[d])]) = InputOf(R)
  BY <1>1, MergedIsWhole
<1>5. CareerInput(stored, u) = InputOf(R)
  BY <1>2, <1>3, <1>4
<1>6. ASSUME u \in DOMAIN page PROVE page[u] = InputOf(R)
  BY <1>6, WhoIs, Projected DEF R
<1>7. ASSUME u \notin DOMAIN page PROVE InputOf(R).maps = 0
  <2>1. DOMAIN PageWho(demos) = Places(demos)
    BY DEF PageWho
  <2>2. \A x \in Places(demos) : PageWho(demos)[x] # u
    BY <1>7, <2>1, WhoIs, Projected
  <2>3. DOMAIN R = {}
    BY <2>1, <2>2, RowsOfWho DEF R
  <2>4. {x[1] : x \in DOMAIN R} = {}
    BY <2>3
  <2> QED BY <2>4, InputParts, FS_EmptySet
<1>8. Agree(page, CareerInput(stored, u), u)
  BY <1>5, <1>6, <1>7 DEF Agree
<1> QED BY <1>8 DEF stored

-----------------------------------------------------------------------------
(* The totals of a game *)

\* The key of a player of a demo.
KeyAt(demos, e) == KeyOf(demos[e[1]], e[1], e[2])

\* The entries of demos are their players.
LEMMA EntriesAre ==
  ASSUME NEW demos
  PROVE  \A e : e \in Entries(demos) <=> /\ e = <<e[1], e[2]>>
                                        /\ e[1] \in DOMAIN demos
                                        /\ e[2] \in demos[e[1]].players
BY DEF Entries

\* There are finitely many, and the counted ones have deaths.
LEMMA EntriesAreFinite ==
  ASSUME NEW demos, Played(demos)
  PROVE  /\ IsFiniteSet(Entries(demos)) /\ IsFiniteSet(Counted(demos))
         /\ \A e \in Counted(demos) : e[2].deaths \in Nat
<1> DEFINE InDemo(d) == {<<d, p>> : p \in demos[d].players}
           D == {InDemo(d) : d \in DOMAIN demos}
           k == [d \in DOMAIN demos |-> InDemo(d)]
<1>1. ASSUME NEW d \in DOMAIN demos PROVE IsFiniteSet(InDemo(d))
  <2> DEFINE S == demos[d].players
             g == [p \in S |-> <<d, p>>]
  <2>1. IsFiniteSet(S)
    BY DEF Played, Demo
  <2>2. InDemo(d) = {g[p] : p \in S}
    OBVIOUS
  <2> HIDE DEF S, g, InDemo
  <2> QED BY <2>1, <2>2, ImageIsFinite
<1>2. Entries(demos) = UNION D
  BY DEF Entries
<1> HIDE DEF InDemo
<1>3. D = {k[d] : d \in DOMAIN demos}
  OBVIOUS
<1>4. \A T \in D : IsFiniteSet(T)
  BY <1>1
<1>5. IsFiniteSet(D)
  <2>1. IsFiniteSet(DOMAIN demos)
    BY DEF Played
  <2> HIDE DEF D, k
  <2> QED BY <1>3, <2>1, ImageIsFinite
<1> HIDE DEF D
<1>6. IsFiniteSet(Entries(demos))
  BY <1>2, <1>4, <1>5, FS_UNION
<1>7. IsFiniteSet(Counted(demos))
  BY <1>6, FS_Subset DEF Counted
<1>8. ASSUME NEW e \in Counted(demos) PROVE e[2].deaths \in Nat
  <2>1. e \in Entries(demos) /\ e[2].deaths # Missing
    BY DEF Counted
  <2>2. e[1] \in DOMAIN demos /\ e[2] \in demos[e[1]].players
    BY <2>1, EntriesAre
  <2>3. Demo(demos[e[1]])
    BY <2>2 DEF Played
  <2>4. e[2].deaths \in Tally
    BY <2>2, <2>3 DEF Demo
  <2> QED BY <2>1, <2>4 DEF Tally
<1> QED BY <1>6, <1>7, <1>8

\* What a demo adds to a key: the deaths of the entries that have some.
LEMMA DeathsInDemo ==
  ASSUME NEW demos, Played(demos), NEW k, NEW d \in DOMAIN DeathsOf(demos, k),
         DeathsOf(demos, k)[d] # Missing,
         NEW v, \A e \in Counted(demos) : v[e] = e[2].deaths,
         NEW F, \A e : e \in F <=> e \in Counted(demos) /\ KeyAt(demos, e) = k /\ e[1] = d
  PROVE  DeathsOf(demos, k)[d] = SumFunctionOnSet(v, F)
<1> DEFINE S == EntriesIn(demos[d], d, k)
           f == [p \in S |-> p.deaths]
           known == {p \in S : f[p] # Missing}
           q == [e \in F |-> e[2]]
<1>1. d \in DOMAIN demos /\ DeathsOf(demos, k)[d] = SumKnown(f)
  BY DEF DeathsOf
<1>2. SumKnown(f) = SumFunctionOnSet(f, known)
  BY <1>1 DEF SumKnown
<1>3. \A p : p \in known <=> /\ p \in demos[d].players /\ KeyOf(demos[d], d, p) = k
                            /\ p.deaths # Missing
  BY DEF EntriesIn
<1>4. \A p \in known : f[p] = p.deaths
  OBVIOUS
<1>5. \A e \in F : q[e] = e[2]
  OBVIOUS
<1> HIDE DEF S, f, known, q
<1>6. \A e \in F : e = <<d, e[2]>> /\ e[2] \in known
  BY <1>3, EntriesAre DEF Counted, KeyAt
<1>7. \A p \in known : <<d, p>> \in F
  <2> TAKE p \in known
  <2> DEFINE e == <<d, p>>
  <2>1. e = <<e[1], e[2]>> /\ e[1] = d /\ e[2] = p
    OBVIOUS
  <2> HIDE DEF e
  <2>2. e \in Counted(demos) /\ KeyAt(demos, e) = k
    BY <1>1, <1>3, <2>1, EntriesAre DEF Counted, KeyAt
  <2> QED BY <2>1, <2>2 DEF e
<1>8. IsFiniteSet(F) /\ IsFiniteSet(known)
  <2>1. F \in SUBSET Counted(demos)
    OBVIOUS
  <2>2. IsFiniteSet(demos[d].players)
    BY <1>1 DEF Played, Demo
  <2>3. known \in SUBSET demos[d].players
    BY <1>3
  <2> QED BY <2>1, <2>2, <2>3, EntriesAreFinite, FS_Subset
<1>9. /\ \A e \in F : v[e] \in Int /\ q[e] \in known
      /\ \A e \in F : f[q[e]] = v[e]
  BY <1>4, <1>5, <1>6, EntriesAreFinite
<1>10. \A p \in known : \E e \in F : q[e] = p
  <2> TAKE p \in known
  <2>1. <<d, p>> \in F /\ <<d, p>>[2] = p
    BY <1>7
  <2> QED BY <1>5, <2>1
<1>11. \A x, y \in F : q[x] = q[y] => x = y
  BY <1>5, <1>6
<1>12. SumFunctionOnSet(v, F) = SumFunctionOnSet(f, known)
  BY <1>8, <1>9, <1>10, <1>11, SumRenamed
<1> QED BY <1>1, <1>2, <1>12

\* What is summed under a key, unless it is not known.
LEMMA DeathsUnderKey ==
  ASSUME NEW demos, Played(demos), NEW k, SumStrict(DeathsOf(demos, k)) # Missing,
         NEW v, \A e \in Counted(demos) : v[e] = e[2].deaths,
         NEW F, \A e : e \in F <=> e \in Counted(demos) /\ KeyAt(demos, e) = k
  PROVE  SumStrict(DeathsOf(demos, k)) = SumFunctionOnSet(v, F)
<1> DEFINE h == DeathsOf(demos, k)
           D == DOMAIN h
           p == [e \in F |-> e[1]]
<1>1. Missing \notin Range(h) /\ SumStrict(h) = SumFunction(h)
  BY DEF SumStrict
<1>2. \A d \in D : h[d] # Missing
  BY <1>1 DEF Range
<1>3. D = {d \in DOMAIN demos : EntriesIn(demos[d], d, k) # {}}
  BY DEF DeathsOf
<1>4. IsFiniteSet(D) /\ IsFiniteSet(F)
  <2>1. D \in SUBSET DOMAIN demos /\ F \in SUBSET Counted(demos)
    BY <1>3
  <2>2. IsFiniteSet(DOMAIN demos)
    BY DEF Played
  <2> QED BY <2>1, <2>2, EntriesAreFinite, FS_Subset
<1>5. \A e \in F : p[e] = e[1] /\ p[e] \in D
  <2> TAKE e \in F
  <2>1. e[1] \in DOMAIN demos /\ e[2] \in demos[e[1]].players /\ KeyOf(demos[e[1]], e[1], e[2]) = k
    BY EntriesAre DEF Counted, KeyAt
  <2>2. e[2] \in EntriesIn(demos[e[1]], e[1], k)
    BY <2>1 DEF EntriesIn
  <2> QED BY <1>3, <2>1, <2>2
<1> HIDE DEF h, D, p
<1>6. ASSUME NEW d \in D PROVE h[d] = SumFunctionOnSet(v, Fibre(F, p, d))
  <2>1. \A e : e \in Fibre(F, p, d)
                 <=> e \in Counted(demos) /\ KeyAt(demos, e) = k /\ e[1] = d
    BY <1>5 DEF Fibre
  <2> QED BY <1>2, <2>1, DeathsInDemo DEF h, D
<1>7. \A e \in F : v[e] \in Int
  BY EntriesAreFinite
<1>8. SumFunctionOnSet(v, F) = SumFunctionOnSet(h, D)
  BY <1>4, <1>5, <1>6, <1>7, SumOfParts
<1> QED BY <1>1, <1>8 DEF SumFunction, h, D

\* Every player who has deaths is counted once, whatever key he is counted under.
LEMMA PlayersAreCountedOnce ==
  ASSUME NEW demos, Played(demos)
  PROVE  CountedOnce(AggregatePlayers(demos), Counted(demos))
<1> DEFINE total == AggregatePlayers(demos)
           C == Counted(demos)
           v == [e \in C |-> e[2].deaths]
           K == DOMAIN total
           p == [e \in Entries(demos) |-> KeyAt(demos, e)]
<1>1. \A k : k \in K <=> \E d \in DOMAIN demos : \E q \in demos[d].players :
                            k = KeyOf(demos[d], d, q)
  BY DEF AggregatePlayers
<1>2. \A k \in K : total[k] = SumStrict(DeathsOf(demos, k))
  BY DEF AggregatePlayers
<1>3. \A e \in Entries(demos) : p[e] = KeyAt(demos, e)
  OBVIOUS
<1>4. \A e \in C : v[e] = e[2].deaths
  OBVIOUS
<1>5. C \subseteq Entries(demos) /\ DOMAIN v = C
  BY DEF Counted
<1> HIDE DEF total, C, v, K, p
<1>6. \A e \in Entries(demos) : p[e] \in K
  BY <1>1, <1>3, EntriesAre DEF KeyAt
<1>7. IsFiniteSet(K)
  <2>1. ASSUME NEW k \in K PROVE \E e \in Entries(demos) : p[e] = k
    <3>1. PICK d \in DOMAIN demos : \E q \in demos[d].players : k = KeyOf(demos[d], d, q)
      BY <1>1
    <3>4. PICK q \in demos[d].players : k = KeyOf(demos[d], d, q)
      BY <3>1
    <3> DEFINE e == <<d, q>>
    <3>2. e = <<e[1], e[2]>> /\ e[1] = d /\ e[2] = q
      OBVIOUS
    <3> HIDE DEF e
    <3>3. e \in Entries(demos) /\ KeyAt(demos, e) = k
      BY <3>2, <3>4, EntriesAre DEF KeyAt
    <3> QED BY <1>3, <3>3
  <2>2. K = {p[e] : e \in Entries(demos)}
    BY <1>6, <2>1
  <2> QED BY <2>2, EntriesAreFinite, ImageIsFinite
<1>8. ASSUME Missing \notin Range(total)
      PROVE  SumFunction(total) = SumFunction(v)
  <2>1. ASSUME NEW k \in K PROVE total[k] = SumFunctionOnSet(v, Fibre(C, p, k))
    <3>1. total[k] # Missing
      BY <1>8 DEF Range, K
    <3>2. \A e : e \in Fibre(C, p, k) <=> e \in Counted(demos) /\ KeyAt(demos, e) = k
      BY <1>3, <1>5 DEF Fibre, C
    <3>3. \A e \in Counted(demos) : v[e] = e[2].deaths
      BY <1>4 DEF C
    <3> QED BY <1>2, <3>1, <3>2, <3>3, DeathsUnderKey
  <2>2. IsFiniteSet(C) /\ \A e \in C : v[e] \in Int /\ p[e] \in K
    BY <1>4, <1>5, <1>6, EntriesAreFinite DEF C
  <2>3. SumFunctionOnSet(v, C) = SumFunctionOnSet(total, K)
    BY <1>7, <2>1, <2>2, SumOfParts
  <2> QED BY <1>5, <2>3 DEF SumFunction, K
<1> QED BY <1>8 DEF CountedOnce, total, v, C

\* The page and the careers of its players agree, and the totals count every
\* player once (player-rating.ts:4, hosted.ts:715, game-aggregation.ts:160).
THEOREM PageAndCareerAlwaysAgree ==
  ASSUME Played(season)
  PROVE  PageAndCareerAgree
<1> DEFINE page == WebInputs(season)
           stored == [d \in DOMAIN season |-> MaterializedInputs(season[d])]
<1>1. ASSUME NEW u \in Identified(season) PROVE Agree(page, CareerInput(stored, u), u)
  <2>1. PICK e \in DOMAIN season : \E q \in season[e].players : u = q.user /\ u # Missing
    BY DEF Identified
  <2>2. PICK q \in season[e].players : u = q.user /\ u # Missing
    BY <2>1
  <2>3. Agree(page, CareerInput(stored, q.user), q.user)
    BY <2>2, PageIsCareer
  <2> HIDE DEF page, stored
  <2> QED BY <2>2, <2>3
<1>2. CountedOnce(AggregatePlayers(season), Counted(season))
  BY PlayersAreCountedOnce
<1> HIDE DEF page, stored
<1>3. (\A u \in Identified(season) : Agree(page, CareerInput(stored, u), u))
        /\ CountedOnce(AggregatePlayers(season), Counted(season))
  BY <1>1, <1>2
<1> QED BY <1>3, Zenon DEF PageAndCareerAgree, page, stored

-----------------------------------------------------------------------------
(* A rating grows with the indexes it is made of *)

\* Nineteen things are finitely many.
LEMMA TwentyAreFinite ==
  ASSUME NEW a1, NEW a2, NEW a3, NEW a4, NEW a5, NEW b1, NEW b2, NEW b3, NEW b4, NEW b5,
         NEW c1, NEW c2, NEW c3, NEW c4, NEW c5, NEW d1, NEW d2, NEW d3, NEW d4
  PROVE  IsFiniteSet({a1, a2, a3, a4, a5, b1, b2, b3, b4, b5, c1, c2, c3, c4, c5,
                      d1, d2, d3, d4})
<1> DEFINE A == {a1, a2, a3, a4, a5}
           B == {b1, b2, b3, b4, b5}
           C == {c1, c2, c3, c4, c5}
           D == {d1, d2, d3, d4, d4}
<1>1. IsFiniteSet(A) /\ IsFiniteSet(B) /\ IsFiniteSet(C) /\ IsFiniteSet(D)
  BY FiveAreFinite
<1>2. {a1, a2, a3, a4, a5, b1, b2, b3, b4, b5, c1, c2, c3, c4, c5, d1, d2, d3, d4}
        = (A \cup B) \cup (C \cup D)
  OBVIOUS
<1> HIDE DEF A, B, C, D
<1>3. IsFiniteSet(A \cup B) /\ IsFiniteSet(C \cup D)
  BY <1>1, FS_Union
<1>4. IsFiniteSet((A \cup B) \cup (C \cup D))
  BY <1>3, FS_Union
<1> QED BY <1>2, <1>4

\* There are finitely many metrics.
LEMMA MetricsAreFinite == IsFiniteSet(Metrics)
<1> DEFINE a1 == Metric("Survivor", "removal", 45, 100, 300, "seconds", {"kills"})
           a2 == Metric("Survivor", "rescue", 20, 70, 300, "seconds", {"revives"})
           a3 == Metric("Survivor", "rescue", 20, 30, 300, "seconds", {"clears"})
           a4 == Metric("Survivor", "durability", 20, 35, 300, "seconds", {"deaths"})
           a5 == Metric("Survivor", "durability", 20, 30, 300, "seconds", {"incaps"})
           b1 == Metric("Survivor", "durability", 20, 35, 300, "seconds", {"damageTaken"})
           b2 == Metric("Survivor", "bosses", 15, 80, 300, "seconds", {"tankDamage"})
           b3 == Metric("Survivor", "bosses", 15, 20, 300, "seconds", {"witchDamage"})
           b4 == Metric("Infected", "conversion", 45, 50, 4, "lives", {"damage"})
           b5 == Metric("Infected", "conversion", 45, 30, 4, "lives", {"specialIncaps"})
           c1 == Metric("Infected", "conversion", 45, 20, 4, "lives", {"pzKills"})
           c2 == Metric("Infected", "control", 30, 60, 4, "lives", {"controls"})
           c3 == Metric("Infected", "control", 30, 40, 4, "controls", {"pins"})
           c4 == Metric("Infected", "setup", 15, 35, 4, "lives", {"bombed", "vomited"})
           c5 == Metric("Infected", "setup", 15, 25, 4, "lives", {"pulled", "hung"})
           d1 == Metric("Infected", "setup", 15, 25, 4, "lives", {"charged"})
           d2 == Metric("Infected", "setup", 15, 15, 4, "lives", {"pounces"})
           d3 == Metric("Infected", "tank", 10, 70, 1, "tanks", {"punches"})
           d4 == Metric("Infected", "tank", 10, 30, 1, "tanks", {"throws"})
<1>1. Metrics = {a1, a2, a3, a4, a5, b1, b2, b3, b4, b5, c1, c2, c3, c4, c5,
                 d1, d2, d3, d4}
  BY DEF Metrics
<1> HIDE DEF a1, a2, a3, a4, a5, b1, b2, b3, b4, b5, c1, c2, c3, c4, c5, d1, d2, d3, d4
<1> QED BY <1>1, TwentyAreFinite

\* Clamping keeps the order.
LEMMA ClampedGrows ==
  ASSUME NEW x \in Int, NEW y \in Int, x <= y
  PROVE  Clamped(x) \in Int /\ Clamped(y) \in Int /\ Clamped(x) <= Clamped(y)
BY DEF Clamped

\* What is drawn to neutral keeps its order.
LEMMA AdjustedGrows ==
  ASSUME NEW m \in Metrics, NEW o, NEW next, o.exposure \in Nat, next.exposure = o.exposure,
         NEW x \in Int, NEW y \in Int, x <= y
  PROVE  /\ Adjusted(x, o, m) \in Int /\ Adjusted(y, next, m) \in Int
         /\ Adjusted(x, o, m) <= Adjusted(y, next, m)
<1> DEFINE e == o.exposure
           n == e + m.halfLife
           dx == x - Neutral
           dy == y - Neutral
<1>1. e \in Nat /\ n \in Nat \ {0} /\ dx \in Int /\ dy \in Int /\ dx <= dy
  BY MetricsAreRateable DEF Rateable, Neutral
<1>2. Adjusted(x, o, m) = Neutral + (e * dx) \div n
      /\ Adjusted(y, next, m) = Neutral + (e * dy) \div n
  BY DEF Adjusted
<1> HIDE DEF e, n, dx, dy
<1>3. e * dx <= e * dy /\ e * dx \in Int /\ e * dy \in Int
  BY <1>1, TimesGrows
<1>4. (e * dx) \div n <= (e * dy) \div n /\ (e * dx) \div n \in Int /\ (e * dy) \div n \in Int
  <2> DEFINE a == e * dx
             b == e * dy
  <2>1. a <= b /\ a \in Int /\ b \in Int
    BY <1>3
  <2> HIDE DEF a, b
  <2>2. a \div n <= b \div n /\ a \div n \in Int /\ b \div n \in Int
    BY <1>1, <2>1, Quotient, QuotientGrows
  <2> QED BY <2>2 DEF a, b
<1> QED BY <1>2, <1>4 DEF Neutral

\* The metrics of a pillar, and the pillars of a role.
LEMMA PillarsAre ==
  ASSUME NEW index, DOMAIN index = Metrics, NEW p, NEW role
  PROVE  LET pillars == Pillars(index, p, role)
         IN  /\ IsFiniteSet(DOMAIN pillars)
             /\ \A q \in DOMAIN pillars :
                   /\ pillars[q] # {} /\ IsFiniteSet(pillars[q])
                   /\ \A m \in pillars[q] : m \in Metrics /\ p \in DOMAIN index[m]
<1> DEFINE seen == {m \in Metrics : m.role = role /\ p \in DOMAIN index[m]}
           f == [q \in {m.pillar : m \in seen} |-> {m \in seen : m.pillar = q}]
           g == [m \in seen |-> m.pillar]
<1>1. Pillars(index, p, role) = f
  BY TableIs DEF Pillars
<1>2. IsFiniteSet(seen)
  BY MetricsAreFinite, FS_Subset
<1>3. IsFiniteSet(DOMAIN f)
  <2>1. DOMAIN f = {g[m] : m \in seen}
    OBVIOUS
  <2> HIDE DEF f, g, seen
  <2> QED BY <1>2, <2>1, ImageIsFinite
<1>4. ASSUME NEW q \in DOMAIN f
      PROVE  /\ f[q] # {} /\ IsFiniteSet(f[q])
             /\ \A m \in f[q] : m \in Metrics /\ p \in DOMAIN index[m]
  <2>1. f[q] = {m \in seen : m.pillar = q} /\ \E m \in seen : m.pillar = q
    OBVIOUS
  <2>2. f[q] \in SUBSET seen
    BY <2>1
  <2>3. \A m \in seen : m \in Metrics /\ p \in DOMAIN index[m]
    OBVIOUS
  <2> HIDE DEF f, seen
  <2> QED BY <1>2, <2>1, <2>2, <2>3, FS_Subset
<1> HIDE DEF f
<1> QED BY <1>1, <1>3, <1>4

\* The weight of metrics, and what they were planned to weigh.
LEMMA WeightIsPositive ==
  ASSUME NEW members, members # {}, IsFiniteSet(members), \A m \in members : m \in Metrics
  PROVE  Weight(members) \in Nat \ {0} /\ Realized(members) \in Nat
<1> DEFINE f == [m \in members |-> m.weight]
<1>1. Weight(members) = SumFunctionOnSet(f, members)
  BY DEF Weight, SumFunction
<1>2. \A m \in members : f[m] \in Nat /\ f[m] > 0 /\ f[m] \in Int
  BY MetricsAreRateable DEF Rateable
<1> HIDE DEF f
<1>3. PICK m \in members : TRUE
  OBVIOUS
<1>4. SumFunctionOnSet(f, members) = f[m] + SumFunctionOnSet(f, members \ {m})
  BY <1>2, SumUnfolds
<1>5. SumFunctionOnSet(f, members \ {m}) \in Nat
  <2>1. members \ {m} \in SUBSET members
    OBVIOUS
  <2>2. IsFiniteSet(members \ {m})
    BY <2>1, FS_Subset
  <2> QED BY <1>2, <2>2, SumIsNat
<1>6. Weight(members) \in Nat \ {0}
  BY <1>1, <1>2, <1>4, <1>5
<1>7. (CHOOSE n \in members : TRUE).planned \in Nat
  BY MetricsAreRateable DEF Rateable
<1>8. Realized(members) \in Nat
  <2> DEFINE a == (CHOOSE n \in members : TRUE).planned
             b == Weight(members)
  <2>1. a \in Nat /\ b \in Nat /\ Realized(members) = a * b
    BY <1>6, <1>7 DEF Realized
  <2> HIDE DEF a, b
  <2> QED BY <2>1
<1> QED BY <1>6, <1>8

\* The indexes of a player are no less next than they were, what he was exposed
\* to the same.
Risen(p, index, next, input, after) ==
    /\ DOMAIN index = Metrics /\ DOMAIN next = Metrics
    /\ \A m \in Metrics :
          /\ DOMAIN next[m] = DOMAIN index[m]
          /\ p \in DOMAIN index[m] =>
                /\ index[m][p] \in Int /\ next[m][p] \in Int /\ index[m][p] <= next[m][p]
                /\ input.metrics[m].exposure \in Nat
                /\ after.metrics[m].exposure = input.metrics[m].exposure
    /\ after.maps = input.maps /\ after.seconds = input.seconds /\ after.lives = input.lives

\* A pillar scores no less when its indexes and exposures do not fall.
LEMMA PillarScoreGrows ==
  ASSUME NEW p, NEW index, NEW next, NEW input, NEW after, Risen(p, index, next, input, after),
         NEW members, members # {}, IsFiniteSet(members),
         \A m \in members : m \in Metrics /\ p \in DOMAIN index[m]
  PROVE  LET was == PillarScore(input, index, p, members)
             is == PillarScore(after, next, p, members)
         IN  was \in Int /\ is \in Int /\ was <= is
<1> DEFINE f == [m \in members |->
                   m.weight * (Adjusted(index[m][p], input.metrics[m], m) - Neutral)]
           g == [m \in members |->
                   m.weight * (Adjusted(next[m][p], after.metrics[m], m) - Neutral)]
           w == Weight(members)
           x == SumFunctionOnSet(f, members)
           y == SumFunctionOnSet(g, members)
<1>1. PillarScore(input, index, p, members) = Clamped(Neutral + x \div w)
      /\ PillarScore(after, next, p, members) = Clamped(Neutral + y \div w)
  BY DEF PillarScore, SumFunction
<1>2. w \in Nat \ {0}
  BY WeightIsPositive
<1>3. ASSUME NEW m \in members PROVE f[m] \in Int /\ g[m] \in Int /\ f[m] <= g[m]
  <2> DEFINE a == Adjusted(index[m][p], input.metrics[m], m)
             b == Adjusted(next[m][p], after.metrics[m], m)
  <2>1. a \in Int /\ b \in Int /\ a <= b
    BY AdjustedGrows DEF Risen
  <2>2. m.weight \in Nat
    BY MetricsAreRateable DEF Rateable
  <2>3. f[m] = m.weight * (a - Neutral) /\ g[m] = m.weight * (b - Neutral)
    OBVIOUS
  <2> HIDE DEF a, b, f, g
  <2>4. a - Neutral \in Int /\ b - Neutral \in Int /\ a - Neutral <= b - Neutral
    BY <2>1 DEF Neutral
  <2>5. m.weight * (a - Neutral) <= m.weight * (b - Neutral)
    BY <2>2, <2>4, TimesGrows
  <2>6. m.weight * (a - Neutral) \in Int /\ m.weight * (b - Neutral) \in Int
    BY <2>2, <2>4
  <2> QED BY <2>3, <2>5, <2>6
<1> HIDE DEF f, g, w
<1>4. x <= y /\ x \in Int /\ y \in Int
  BY <1>3, SumGrows, SumIsInt
<1> HIDE DEF x, y
<1>5. x \div w <= y \div w /\ x \div w \in Int /\ y \div w \in Int
  BY <1>2, <1>4, Quotient, QuotientGrows
<1>6. /\ Neutral + x \div w \in Int /\ Neutral + y \div w \in Int
      /\ Neutral + x \div w <= Neutral + y \div w
  BY <1>5 DEF Neutral
<1>7. /\ Clamped(Neutral + x \div w) \in Int /\ Clamped(Neutral + y \div w) \in Int
      /\ Clamped(Neutral + x \div w) <= Clamped(Neutral + y \div w)
  BY <1>6, ClampedGrows
<1> QED BY <1>1, <1>7

\* A score is no number while it is missing.
LEMMA RoleScoreGrows ==
  ASSUME NEW p, NEW index, NEW next, NEW input, NEW after, Risen(p, index, next, input, after),
         NEW role
  PROVE  LET was == RoleScore(input, index, p, role)
             is == RoleScore(after, next, p, role)
         IN  (was = Missing /\ is = Missing) \/ (was \in Int /\ is \in Int /\ was <= is)
<1> DEFINE pillars == Pillars(index, p, role)
           K == DOMAIN pillars
           realized == [q \in K |-> Realized(pillars[q])]
           f == [q \in K |-> PillarScore(input, index, p, pillars[q]) * realized[q]]
           g == [q \in K |-> PillarScore(after, next, p, pillars[q]) * realized[q]]
           n == SumFunctionOnSet(realized, K)
           x == SumFunctionOnSet(f, K)
           y == SumFunctionOnSet(g, K)
           enough == Opportunity(input, role) /\ n >= 7000 /\ Cardinality(K) >= 2
<1>1. Pillars(next, p, role) = pillars
  <2>1. {m \in DOMAIN next : m.role = role /\ p \in DOMAIN next[m]}
          = {m \in DOMAIN index : m.role = role /\ p \in DOMAIN index[m]}
    BY DEF Risen
  <2> QED BY <2>1 DEF Pillars
<1>2. Opportunity(after, role) = Opportunity(input, role)
  BY DEF Risen, Opportunity
<1>3. /\ IsFiniteSet(K)
      /\ \A q \in K : /\ pillars[q] # {} /\ IsFiniteSet(pillars[q])
                      /\ \A m \in pillars[q] : m \in Metrics /\ p \in DOMAIN index[m]
  BY PillarsAre DEF Risen
<1>4. RoleScore(input, index, p, role) = IF enough THEN x \div n ELSE Missing
  BY TableIs DEF RoleScore, SumFunction
<1>5. RoleScore(after, next, p, role) = IF enough THEN y \div n ELSE Missing
  BY <1>1, <1>2, TableIs DEF RoleScore, SumFunction
<1> HIDE DEF pillars, K
<1>6. ASSUME NEW q \in K
      PROVE  realized[q] \in Nat /\ f[q] \in Int /\ g[q] \in Int /\ f[q] <= g[q]
  <2> DEFINE a == PillarScore(input, index, p, pillars[q])
             b == PillarScore(after, next, p, pillars[q])
             c == realized[q]
  <2>1. a \in Int /\ b \in Int /\ a <= b
    BY <1>3, PillarScoreGrows
  <2>2. c \in Nat
    BY <1>3, WeightIsPositive
  <2>3. f[q] = a * c /\ g[q] = b * c
    OBVIOUS
  <2> HIDE DEF a, b, c, f, g
  <2>4. c * a <= c * b
    BY <2>1, <2>2, TimesGrows
  <2>5. a * c = c * a /\ b * c = c * b /\ a * c \in Int /\ b * c \in Int
    BY <2>1, <2>2
  <2> QED BY <2>2, <2>3, <2>4, <2>5 DEF c
<1> HIDE DEF realized, f, g
<1>7. x <= y /\ x \in Int /\ y \in Int /\ n \in Nat
  BY <1>3, <1>6, SumGrows, SumIsInt, SumIsNat
<1> HIDE DEF x, y, n
<1>8. ASSUME enough PROVE x \div n <= y \div n /\ x \div n \in Int /\ y \div n \in Int
  BY <1>7, <1>8, Quotient, QuotientGrows
<1> HIDE DEF enough
<1> QED BY <1>4, <1>5, <1>8

\* Of two ratings neither is missing, or both are.
Ordered(was, is) == (was = Missing /\ is = Missing) \/ (was \in Int /\ is \in Int /\ was <= is)

\* So does the rating that the pillars make up.
LEMMA RatingGrows ==
  ASSUME NEW p, NEW index, NEW next, NEW before, NEW after,
         p \in DOMAIN before, p \in DOMAIN after,
         Risen(p, index, next, before[p], after[p])
  PROVE  Ordered(RatingsBy(before, index)[p], RatingsBy(after, next)[p])
<1> DEFINE s == RoleScore(before[p], index, p, "Survivor")
           t == RoleScore(after[p], next, p, "Survivor")
           i == RoleScore(before[p], index, p, "Infected")
           j == RoleScore(after[p], next, p, "Infected")
<1>1. /\ RatingsBy(before, index)[p]
           = IF before[p].maps < 2 THEN Missing ELSE Overall(s, i)
      /\ RatingsBy(after, next)[p]
           = IF after[p].maps < 2 THEN Missing ELSE Overall(t, j)
  BY TableIs DEF RatingsBy
<1>2. Ordered(s, t) /\ Ordered(i, j)
  BY RoleScoreGrows DEF Ordered
<1>3. after[p].maps = before[p].maps
  BY DEF Risen
<1> HIDE DEF s, t, i, j
<1>4. Ordered(Overall(s, i), Overall(t, j))
  BY <1>2, MissingIsNoCount DEF Overall, Ordered
<1>5. Ordered(Missing, Missing)
  BY DEF Ordered
<1> QED BY <1>1, <1>3, <1>4, <1>5

-----------------------------------------------------------------------------
(* One player does more: his index rises and that of his peers falls *)

\* The rate of a player among his peers, neutral while nobody did anything.
Positive(c, v, t, p) == IF t = 0 THEN Neutral ELSE (c * v[p]) \div t

\* When one does more, his own rate rises and everyone else's falls.
LEMMA PositivesMove ==
  ASSUME NEW P, IsFiniteSet(P), NEW u \in P, NEW v, NEW w,
         \A p \in P : v[p] \in Nat /\ w[p] \in Nat,
         v[u] <= w[u], \A p \in P : p # u => w[p] = v[p],
         NEW c \in Nat, c >= Neutral
  PROVE  LET was(p) == Positive(c, v, SumFunctionOnSet(v, P), p)
             is(p) == Positive(c, w, SumFunctionOnSet(w, P), p)
         IN  \A p \in P : /\ was(p) \in Int /\ is(p) \in Int
                          /\ p = u => was(p) <= is(p)
                          /\ p # u => is(p) <= was(p)
<1> DEFINE t == SumFunctionOnSet(v, P)
           s == SumFunctionOnSet(w, P)
           more == w[u] - v[u]
<1>1. t \in Nat /\ s \in Nat
  BY SumIsNat
<1>2. s = t + more
  <2> DEFINE rest == P \ {u}
  <2>1. t = v[u] + SumFunctionOnSet(v, rest) /\ s = w[u] + SumFunctionOnSet(w, rest)
    BY SumUnfolds
  <2>2. IsFiniteSet(rest)
    <3>1. rest \in SUBSET P
      OBVIOUS
    <3> QED BY <3>1, FS_Subset
  <2>3. \A p \in rest : v[p] \in Int /\ v[p] = w[p] /\ v[p] \in Nat
    OBVIOUS
  <2> HIDE DEF rest, t, s
  <2>4. SumFunctionOnSet(v, rest) = SumFunctionOnSet(w, rest)
    BY <2>2, <2>3, SumIsSame
  <2>5. SumFunctionOnSet(v, rest) \in Nat
    BY <2>2, <2>3, SumIsNat
  <2>6. v[u] \in Nat /\ w[u] \in Nat
    OBVIOUS
  <2> QED BY <2>1, <2>4, <2>5, <2>6
<1>3. ASSUME NEW p \in P PROVE v[p] <= t /\ w[p] <= s
  <2> DEFINE rest == P \ {p}
  <2>1. t = v[p] + SumFunctionOnSet(v, rest) /\ s = w[p] + SumFunctionOnSet(w, rest)
    BY SumUnfolds
  <2>2. IsFiniteSet(rest)
    <3>1. rest \in SUBSET P
      OBVIOUS
    <3> QED BY <3>1, FS_Subset
  <2>3. \A q \in rest : v[q] \in Nat /\ w[q] \in Nat
    OBVIOUS
  <2> HIDE DEF rest, t, s
  <2>4. SumFunctionOnSet(v, rest) \in Nat /\ SumFunctionOnSet(w, rest) \in Nat
    BY <2>2, <2>3, SumIsNat
  <2>5. v[p] \in Nat /\ w[p] \in Nat
    OBVIOUS
  <2> QED BY <2>1, <2>4, <2>5
<1>4. more \in Nat /\ w[u] = v[u] + more
  OBVIOUS
<1> HIDE DEF t, s, more
<1>5. ASSUME NEW p \in P
      PROVE  Positive(c, v, t, p) \in Int /\ Positive(c, w, s, p) \in Int
  <2>1. c * v[p] \in Int /\ c * w[p] \in Int
    OBVIOUS
  <2> QED BY <1>1, <2>1, Quotient DEF Positive, Neutral
<1>6. Positive(c, v, t, u) <= Positive(c, w, s, u)
  <2>1. CASE t # 0
    <3> DEFINE x == v[u]
               y == w[u]
    <3>1. x \in Nat /\ y \in Nat /\ x <= t /\ y = x + more
      BY <1>3, <1>4
    <3> HIDE DEF x, y
    <3>2. t \in Nat \ {0} /\ s \in Nat \ {0}
      BY <1>1, <1>2, <1>4, <2>1
    <3>3. more * x <= more * t
      BY <1>1, <1>4, <3>1, TimesGrows
    <3>4. x * s = x * t + more * x /\ y * t = x * t + more * t
      BY <1>1, <1>2, <1>4, <3>1
    <3>5. x * s <= y * t
      <4>1. x * t \in Int /\ more * x \in Int /\ more * t \in Int
        BY <1>1, <1>4, <3>1
      <4> QED BY <3>3, <3>4, <4>1
    <3>6. c * (x * s) <= c * (y * t)
      <4>1. x * s \in Int /\ y * t \in Int
        BY <1>1, <3>1
      <4> QED BY <3>5, <4>1, TimesGrows
    <3>7. (c * x) * s = c * (x * s) /\ (c * y) * t = c * (y * t)
      BY <1>1, <3>1
    <3>8. (c * x) \div t <= (c * y) \div s
      <4> DEFINE a == c * x
                 b == c * y
      <4>1. a \in Nat /\ b \in Nat
        BY <3>1
      <4>2. a * s <= b * t
        BY <3>6, <3>7
      <4> HIDE DEF a, b
      <4>3. a \div t <= b \div s
        BY <3>2, <4>1, <4>2, QuotientsCross
      <4> QED BY <4>3 DEF a, b
    <3> QED BY <3>2, <3>8 DEF Positive, x, y
  <2>2. CASE t = 0 /\ s = 0
    BY <2>2 DEF Positive, Neutral
  <2>3. CASE t = 0 /\ s # 0
    <3>1. v[u] = 0 /\ w[u] = s
      BY <1>1, <1>2, <1>3, <1>4, <2>3
    <3>2. (c * s) \div s = c
      <4>1. s \in Nat \ {0}
        BY <1>1, <2>3
      <4>2. c * s \in Int /\ s * c = c * s
        BY <4>1
      <4> DEFINE q == (c * s) \div s
      <4>3. q \in Int /\ s * q <= s * c /\ s * c < s * q + s
        BY <4>1, <4>2, Quotient
      <4> HIDE DEF q
      <4>4. q <= c
        BY <4>1, <4>3, Cancels
      <4>5. s * c < s * (q + 1) /\ s * c \in Int /\ s * (q + 1) \in Int
        BY <4>1, <4>3
      <4>6. ~(q + 1 <= c)
        <5> SUFFICES ASSUME q + 1 <= c PROVE FALSE
          OBVIOUS
        <5>1. s * (q + 1) <= s * c
          BY <4>1, <4>3, TimesGrows
        <5> QED BY <4>5, <5>1
      <4>7. q = c
        BY <4>3, <4>4, <4>6
      <4> QED BY <4>7 DEF q
    <3> QED BY <2>3, <3>1, <3>2 DEF Positive, Neutral
  <2> QED BY <2>1, <2>2, <2>3
<1>7. ASSUME NEW p \in P, p # u PROVE Positive(c, w, s, p) <= Positive(c, v, t, p)
  <2> DEFINE x == v[p]
             a == c * x
  <2>1. x \in Nat /\ a \in Nat /\ w[p] = x /\ x <= t /\ t <= s
    BY <1>1, <1>2, <1>3, <1>4, <1>7
  <2> HIDE DEF x, a
  <2>2. CASE t # 0
    <3>1. t \in Nat \ {0} /\ s \in Nat \ {0}
      BY <1>1, <1>2, <1>4, <2>2
    <3>2. a * t <= a * s
      BY <1>1, <2>1, TimesGrows
    <3>3. a \div s <= a \div t
      BY <2>1, <3>1, <3>2, QuotientsCross
    <3> QED BY <2>1, <2>2, <3>1, <3>3 DEF Positive, a, x
  <2>3. CASE t = 0 /\ s = 0
    BY <2>3 DEF Positive, Neutral
  <2>4. CASE t = 0 /\ s # 0
    <3>1. s \in Nat \ {0} /\ x = 0
      BY <1>1, <2>1, <2>4
    <3>2. c * w[p] = 0
      BY <2>1, <3>1
    <3>3. 0 \div s = 0
      <4>1. 0 \div s \in Int /\ s * (0 \div s) <= 0 /\ 0 < s * (0 \div s) + s
        BY <3>1, Quotient
      <4> DEFINE q == 0 \div s
      <4> HIDE DEF q
      <4>2. q \in Int /\ s * q <= s * 0 /\ 0 < s * q + s /\ s * 0 = 0
        BY <3>1, <4>1 DEF q
      <4>3. q <= 0
        BY <3>1, <4>2, Cancels
      <4>4. ~(q <= -1)
        <5> SUFFICES ASSUME q <= -1 PROVE FALSE
          OBVIOUS
        <5>1. s * q <= s * (-1) /\ s * (-1) = -s
          BY <3>1, <4>2, TimesGrows
        <5>2. s * q \in Int
          BY <3>1, <4>2
        <5> QED BY <3>1, <4>2, <5>1, <5>2
      <4>5. q = 0
        BY <4>2, <4>3, <4>4
      <4> QED BY <4>5 DEF q
    <3> QED BY <2>4, <3>2, <3>3 DEF Positive, Neutral
  <2> QED BY <2>2, <2>3, <2>4
<1> QED BY <1>5, <1>6, <1>7 DEF t, s

\* An index is the rate, turned and clipped.
Turned(m, x) == Clamped(Directed(m, x))

\* What is better for being less is turned the other way.
LEMMA TurnedMoves ==
  ASSUME NEW m, NEW x \in Int, NEW y \in Int, x <= y
  PROVE  /\ Turned(m, x) \in Int /\ Turned(m, y) \in Int
         /\ m.of \subseteq LowerIsBetter => Turned(m, y) <= Turned(m, x)
         /\ ~(m.of \subseteq LowerIsBetter) => Turned(m, x) <= Turned(m, y)
<1> DEFINE bad == m.of \subseteq LowerIsBetter
<1>1. /\ Turned(m, x) = IF bad THEN Clamped(2 * Neutral - x) ELSE Clamped(x)
      /\ Turned(m, y) = IF bad THEN Clamped(2 * Neutral - y) ELSE Clamped(y)
  BY DEF Turned, Directed
<1> HIDE DEF bad
<1>2. /\ 2 * Neutral - x \in Int /\ 2 * Neutral - y \in Int
      /\ 2 * Neutral - y <= 2 * Neutral - x
  BY DEF Neutral
<1>3. /\ Clamped(2 * Neutral - x) \in Int /\ Clamped(2 * Neutral - y) \in Int
      /\ Clamped(2 * Neutral - y) <= Clamped(2 * Neutral - x)
  BY <1>2, ClampedGrows
<1>4. Clamped(x) \in Int /\ Clamped(y) \in Int /\ Clamped(x) <= Clamped(y)
  BY ClampedGrows
<1> QED BY <1>1, <1>3, <1>4 DEF bad

\* Those a metric was observed of, and what of each.
Peers(inputs, m)  == {p \in DOMAIN inputs : Observed(inputs[p], m)}
Values(inputs, m) == [p \in Peers(inputs, m) |-> Value(inputs[p].metrics[m])]

\* What is rated before it is turned and clipped.
Rates(inputs, m, p) ==
    Positive(Neutral * Cardinality(Peers(inputs, m)), Values(inputs, m),
             SumFunctionOnSet(Values(inputs, m), Peers(inputs, m)), p)

\* The index of a metric among the peers, as turned rates.
LEMMA IndexIs ==
  ASSUME NEW inputs, NEW m
  PROVE  LET index == PeerIndex(inputs, m)
         IN  /\ Cardinality(Peers(inputs, m)) < 4 => DOMAIN index = {}
             /\ ~(Cardinality(Peers(inputs, m)) < 4) =>
                   /\ DOMAIN index = Peers(inputs, m)
                   /\ \A p \in DOMAIN index : index[p] = Turned(m, Rates(inputs, m, p))
<1> DEFINE P == Peers(inputs, m)
           v == Values(inputs, m)
           t == SumFunctionOnSet(v, P)
           c == Neutral * Cardinality(P)
           f == [p \in P |-> IF t = 0 THEN Neutral
                             ELSE Clamped(Directed(m, (c * v[p]) \div t))]
<1>1. PeerIndex(inputs, m) = IF Cardinality(P) < 4 THEN << >> ELSE f
  <2>1. SumFunction(v) = t
    BY DEF SumFunction, Values
  <2>2. PeerIndex(inputs, m)
          = IF Cardinality(P) < 4 THEN << >>
            ELSE [p \in P |-> IF SumFunction(v) = 0 THEN Neutral
                              ELSE Clamped(Directed(m, (Neutral * Cardinality(P) * v[p])
                                                         \div SumFunction(v)))]
    BY TableIs DEF PeerIndex, Values, Peers
  <2> QED BY <2>1, <2>2
<1>2. Turned(m, Neutral) = Neutral
  BY DEF Turned, Directed, Clamped, Neutral
<1>3. ASSUME NEW p \in P PROVE f[p] = Turned(m, Positive(c, v, t, p))
  <2>1. f[p] = IF t = 0 THEN Neutral ELSE Turned(m, (c * v[p]) \div t)
    BY DEF Turned
  <2> HIDE DEF P, f, c, v, t
  <2> QED BY <1>2, <2>1 DEF Positive
<1>4. DOMAIN f = P
  OBVIOUS
<1>5. DOMAIN << >> = {}
  OBVIOUS
<1> HIDE DEF f
<1>6. CASE Cardinality(P) < 4
  BY <1>1, <1>5, <1>6
<1>7. CASE ~(Cardinality(P) < 4)
  BY <1>1, <1>3, <1>4, <1>7 DEF Rates
<1> QED BY <1>6, <1>7

\* What an input is: nothing negative was counted, and in no time nothing.
Input(i) ==
    \A m \in DOMAIN i.metrics : i.metrics[m].total \in Nat /\ i.metrics[m].exposure \in Nat \ {0}

\* One more of a counter is in every metric it is counted in, and in no other.
Raised(i, j, name) ==
    /\ j.maps = i.maps /\ j.seconds = i.seconds /\ j.lives = i.lives
    /\ DOMAIN j.metrics = DOMAIN i.metrics
    /\ \A m \in DOMAIN i.metrics :
          /\ j.metrics[m].exposure = i.metrics[m].exposure
          /\ i.metrics[m].total <= j.metrics[m].total
          /\ name \notin m.of => j.metrics[m].total = i.metrics[m].total

OneRaised(before, after, u, name) ==
    /\ IsFiniteSet(DOMAIN before) /\ DOMAIN after = DOMAIN before
    /\ \A p \in DOMAIN before :
          /\ Input(before[p]) /\ Input(after[p])
          /\ DOMAIN before[p].metrics \subseteq Metrics
          /\ p # u => after[p] = before[p]
          /\ p = u => Raised(before[p], after[p], name)

\* Observed of the same players, as much or more.
LEMMA ValuesMove ==
  ASSUME NEW before, NEW after, NEW u, NEW name, OneRaised(before, after, u, name), NEW m
  PROVE  /\ Peers(after, m) = Peers(before, m) /\ IsFiniteSet(Peers(before, m))
         /\ \A p \in Peers(before, m) :
               /\ p \in DOMAIN before /\ m \in DOMAIN before[p].metrics
               /\ Values(before, m)[p] \in Nat /\ Values(after, m)[p] \in Nat
               /\ Values(before, m)[p] <= Values(after, m)[p]
               /\ p # u \/ name \notin m.of => Values(after, m)[p] = Values(before, m)[p]
<1>1. ASSUME NEW p \in DOMAIN before
      PROVE  /\ m \in DOMAIN after[p].metrics <=> m \in DOMAIN before[p].metrics
             /\ m \in DOMAIN before[p].metrics =>
                   /\ before[p].metrics[m].total \in Nat /\ after[p].metrics[m].total \in Nat
                   /\ before[p].metrics[m].exposure \in Nat \ {0}
                   /\ after[p].metrics[m].exposure = before[p].metrics[m].exposure
                   /\ before[p].metrics[m].total <= after[p].metrics[m].total
                   /\ p # u \/ name \notin m.of =>
                         after[p].metrics[m].total = before[p].metrics[m].total
  BY DEF OneRaised, Raised, Input
<1>2. \A p \in DOMAIN before :
         /\ Observed(before[p], m) <=> m \in DOMAIN before[p].metrics
         /\ Observed(after[p], m) <=> m \in DOMAIN before[p].metrics
  BY <1>1 DEF Observed
<1>3. DOMAIN after = DOMAIN before /\ IsFiniteSet(DOMAIN before)
  BY DEF OneRaised
<1>4. Peers(after, m) = Peers(before, m)
      /\ \A p \in Peers(before, m) : p \in DOMAIN before /\ m \in DOMAIN before[p].metrics
  BY <1>2, <1>3 DEF Peers
<1>5. IsFiniteSet(Peers(before, m))
  <2>1. Peers(before, m) \in SUBSET DOMAIN before
    BY DEF Peers
  <2> QED BY <1>3, <2>1, FS_Subset
<1>6. ASSUME NEW p \in Peers(before, m)
      PROVE  /\ Values(before, m)[p] \in Nat /\ Values(after, m)[p] \in Nat
             /\ Values(before, m)[p] <= Values(after, m)[p]
             /\ p # u \/ name \notin m.of => Values(after, m)[p] = Values(before, m)[p]
  <2> DEFINE o == before[p].metrics[m]
             n == after[p].metrics[m]
             x == o.total
             y == n.total
             e == o.exposure
  <2>1. /\ x \in Nat /\ y \in Nat /\ e \in Nat \ {0} /\ n.exposure = e /\ x <= y
        /\ p # u \/ name \notin m.of => y = x
    BY <1>1, <1>4
  <2>2. Values(before, m)[p] = (1000 * x) \div e /\ Values(after, m)[p] = (1000 * y) \div e
    BY <1>4, <2>1 DEF Values, Value
  <2> HIDE DEF o, n, x, y, e
  <2>3. 1000 * x \in Int /\ 1000 * y \in Int /\ 1000 * x <= 1000 * y
    BY <2>1
  <2>4. (1000 * x) \div e <= (1000 * y) \div e
    <3> DEFINE a == 1000 * x
               b == 1000 * y
    <3>1. a \in Int /\ b \in Int /\ a <= b
      BY <2>3
    <3> HIDE DEF a, b
    <3>2. a \div e <= b \div e
      BY <2>1, <3>1, QuotientGrows
    <3> QED BY <3>2 DEF a, b
  <2>5. (1000 * x) \div e \in Nat /\ (1000 * y) \div e \in Nat
    BY <2>1
  <2> QED BY <2>1, <2>2, <2>4, <2>5
<1> QED BY <1>4, <1>5, <1>6

\* The index of who did more of a counter moves one way, and those of his peers
\* the other.
LEMMA IndexMoves ==
  ASSUME NEW before, NEW after, NEW u, NEW name, OneRaised(before, after, u, name),
         NEW m \in Metrics
  PROVE  LET was == PeerIndex(before, m)
             is == PeerIndex(after, m)
         IN  /\ DOMAIN is = DOMAIN was
             /\ \A p \in DOMAIN was :
                   /\ p \in DOMAIN before /\ m \in DOMAIN before[p].metrics
                   /\ was[p] \in Int /\ is[p] \in Int
                   /\ (p = u) = (name \in LowerIsBetter) => is[p] <= was[p]
                   /\ (p = u) # (name \in LowerIsBetter) => was[p] <= is[p]
<1> DEFINE P == Peers(before, m)
           v == Values(before, m)
           w == Values(after, m)
           c == Neutral * Cardinality(P)
           x(p) == Positive(c, v, SumFunctionOnSet(v, P), p)
           y(p) == Positive(c, w, SumFunctionOnSet(w, P), p)
           was == PeerIndex(before, m)
           is == PeerIndex(after, m)
<1>1. /\ Peers(after, m) = P /\ IsFiniteSet(P)
      /\ \A p \in P : /\ p \in DOMAIN before /\ m \in DOMAIN before[p].metrics
                      /\ v[p] \in Nat /\ w[p] \in Nat /\ v[p] <= w[p]
                      /\ p # u \/ name \notin m.of => w[p] = v[p]
  BY ValuesMove
<1>2. \A p : Rates(before, m, p) = x(p) /\ Rates(after, m, p) = y(p)
  BY <1>1 DEF Rates
<1>3. Cardinality(P) \in Nat
  BY <1>1, FS_CardinalityType
<1>4. CASE Cardinality(P) < 4
  BY <1>1, <1>4, IndexIs
<1>5. CASE ~(Cardinality(P) < 4)
  <2>1. /\ DOMAIN was = P /\ DOMAIN is = P
        /\ \A p \in P : was[p] = Turned(m, x(p)) /\ is[p] = Turned(m, y(p))
    BY <1>1, <1>2, <1>5, IndexIs
  <2>2. c \in Nat /\ c >= Neutral
    BY <1>3, <1>5 DEF Neutral
  <2> HIDE DEF P, v, w, c, was, is
  <2>3. CASE u \in P /\ name \in m.of
    <3>1. \A p \in P : /\ x(p) \in Int /\ y(p) \in Int
                       /\ p = u => x(p) <= y(p)
                       /\ p # u => y(p) <= x(p)
      BY <1>1, <2>2, <2>3, PositivesMove
    <3>2. m.of \subseteq LowerIsBetter <=> name \in LowerIsBetter
      BY <2>3, MetricsAreRateable DEF Rateable
    <3>3. ASSUME NEW p \in P
          PROVE  /\ was[p] \in Int /\ is[p] \in Int
                 /\ (p = u) = (name \in LowerIsBetter) => is[p] <= was[p]
                 /\ (p = u) # (name \in LowerIsBetter) => was[p] <= is[p]
      <4>1. /\ was[p] = Turned(m, x(p)) /\ is[p] = Turned(m, y(p))
            /\ x(p) \in Int /\ y(p) \in Int
        BY <2>1, <3>1
      <4> HIDE DEF x, y
      <4>2. CASE p = u
        <5>1. x(p) <= y(p)
          BY <3>1, <4>2
        <5> QED BY <3>2, <4>1, <4>2, <5>1, TurnedMoves
      <4>3. CASE p # u
        <5>1. y(p) <= x(p)
          BY <3>1, <4>3
        <5> QED BY <3>2, <4>1, <4>3, <5>1, TurnedMoves
      <4> QED BY <4>2, <4>3
    <3> QED BY <1>1, <2>1, <3>3 DEF was, is
  <2>4. CASE ~(u \in P /\ name \in m.of)
    <3>1. \A p \in P : w[p] = v[p]
      BY <1>1, <2>4
    <3>2. SumFunctionOnSet(w, P) = SumFunctionOnSet(v, P)
      BY <1>1, <3>1, SumIsSame
    <3>3. ASSUME NEW p \in P PROVE y(p) = x(p) /\ x(p) \in Int
      <4>1. y(p) = x(p)
        BY <3>1, <3>2 DEF Positive
      <4>2. SumFunctionOnSet(v, P) \in Nat
        BY <1>1, SumIsNat
      <4>3. c * v[p] \in Int
        BY <1>1, <2>2
      <4>4. x(p) \in Int
        BY <4>2, <4>3, Quotient DEF Positive, Neutral
      <4> QED BY <4>1, <4>4
    <3>4. ASSUME NEW p \in P PROVE was[p] \in Int /\ is[p] = was[p]
      <4>1. was[p] = Turned(m, x(p)) /\ is[p] = Turned(m, y(p))
        BY <2>1
      <4> HIDE DEF x, y
      <4>2. y(p) = x(p) /\ x(p) \in Int /\ x(p) <= x(p)
        BY <3>3
      <4>3. Turned(m, x(p)) \in Int
        BY <4>2, TurnedMoves
      <4> QED BY <4>1, <4>2, <4>3
    <3>5. \A p \in P : was[p] <= is[p] /\ is[p] <= was[p]
      BY <3>4
    <3> QED BY <1>1, <2>1, <3>4, <3>5 DEF was, is
  <2> QED BY <2>3, <2>4
<1> QED BY <1>4, <1>5

\* Ratings are made by the indexes of all metrics.
LEMMA RatingsAre ==
  ASSUME NEW inputs
  PROVE  LET index == [m \in Metrics |-> PeerIndex(inputs, m)]
         IN  /\ Ratings(inputs) = RatingsBy(inputs, index)
             /\ DOMAIN Ratings(inputs) = DOMAIN inputs
<1> DEFINE index == [m \in Metrics |-> PeerIndex(inputs, m)]
<1>1. Ratings(inputs) = RatingsBy(inputs, index)
  <2>1. Table(index) = index
    BY TableIs
  <2> QED BY <2>1 DEF Ratings
<1> HIDE DEF index
<1>2. DOMAIN RatingsBy(inputs, index) = DOMAIN inputs
  BY TableIs DEF RatingsBy
<1> QED BY <1>1, <1>2 DEF index

\* Who did more of a counter is rated higher or lower, and his peers the other way.
LEMMA RatingsMove ==
  ASSUME NEW before, NEW after, NEW u, NEW name, OneRaised(before, after, u, name),
         NEW p \in DOMAIN before
  PROVE  /\ (p = u) = (name \in LowerIsBetter) => Ordered(Ratings(after)[p], Ratings(before)[p])
         /\ (p = u) # (name \in LowerIsBetter) => Ordered(Ratings(before)[p], Ratings(after)[p])
<1> DEFINE index == [m \in Metrics |-> PeerIndex(before, m)]
           next == [m \in Metrics |-> PeerIndex(after, m)]
           down == (p = u) = (name \in LowerIsBetter)
<1>1. Ratings(before) = RatingsBy(before, index) /\ Ratings(after) = RatingsBy(after, next)
  BY RatingsAre
<1>2. p \in DOMAIN after
  BY DEF OneRaised
<1>3. /\ DOMAIN index = Metrics /\ DOMAIN next = Metrics
      /\ \A m \in Metrics : index[m] = PeerIndex(before, m) /\ next[m] = PeerIndex(after, m)
  OBVIOUS
<1> HIDE DEF index, next
<1>4. ASSUME NEW m \in Metrics
      PROVE  /\ DOMAIN next[m] = DOMAIN index[m]
             /\ p \in DOMAIN index[m] =>
                   /\ index[m][p] \in Int /\ next[m][p] \in Int
                   /\ down => next[m][p] <= index[m][p]
                   /\ ~down => index[m][p] <= next[m][p]
                   /\ before[p].metrics[m].exposure \in Nat
                   /\ after[p].metrics[m].exposure \in Nat
                   /\ after[p].metrics[m].exposure = before[p].metrics[m].exposure
  <2>1. /\ DOMAIN next[m] = DOMAIN index[m]
        /\ p \in DOMAIN index[m] =>
              /\ m \in DOMAIN before[p].metrics
              /\ index[m][p] \in Int /\ next[m][p] \in Int
              /\ down => next[m][p] <= index[m][p]
              /\ ~down => index[m][p] <= next[m][p]
    BY <1>3, IndexMoves
  <2>2. m \in DOMAIN before[p].metrics =>
           /\ before[p].metrics[m].exposure \in Nat
           /\ after[p].metrics[m].exposure = before[p].metrics[m].exposure
    BY DEF OneRaised, Raised, Input
  <2> QED BY <2>1, <2>2
<1>5. /\ after[p].maps = before[p].maps /\ after[p].seconds = before[p].seconds
      /\ after[p].lives = before[p].lives
  BY DEF OneRaised, Raised
<1> HIDE DEF down
<1>6. CASE down
  <2>1. Risen(p, next, index, after[p], before[p])
    BY <1>3, <1>4, <1>5, <1>6 DEF Risen
  <2>2. Ordered(RatingsBy(after, next)[p], RatingsBy(before, index)[p])
    BY <1>2, <2>1, RatingGrows
  <2> QED BY <1>1, <1>6, <2>2 DEF down
<1>7. CASE ~down
  <2>1. Risen(p, index, next, before[p], after[p])
    BY <1>3, <1>4, <1>5, <1>7 DEF Risen
  <2>2. Ordered(RatingsBy(before, index)[p], RatingsBy(after, next)[p])
    BY <1>2, <2>1, RatingGrows
  <2> QED BY <1>1, <1>7, <2>2 DEF down
<1> QED BY <1>6, <1>7

\* More of what a player does well pays, of what he does badly costs.
LEMMA RaisingPays ==
  ASSUME NEW before, NEW after, NEW u, NEW name, OneRaised(before, after, u, name)
  PROVE  Pays(Ratings(before), Ratings(after), u, name \in LowerIsBetter)
<1> DEFINE r == Ratings(before)
           s == Ratings(after)
           bad == name \in LowerIsBetter
<1>1. DOMAIN s = DOMAIN before /\ DOMAIN r = DOMAIN before
  BY RatingsAre DEF OneRaised
<1>2. ASSUME NEW p \in DOMAIN before
      PROVE  /\ (p = u) = bad => Ordered(s[p], r[p])
             /\ (p = u) # bad => Ordered(r[p], s[p])
  BY RatingsMove
<1>7. bad \in BOOLEAN
  OBVIOUS
<1> HIDE DEF r, s, bad
<1>8. ~bad => /\ u \in DOMAIN before => Ordered(r[u], s[u])
              /\ \A q \in DOMAIN before : q # u => Ordered(s[q], r[q])
  BY <1>2, <1>7, Zenon
<1>3. \A x, y : Ordered(x, y) => Least(x, y)
  BY MissingIsNoCount DEF Ordered, Least
<1>4. ASSUME NEW p \in DOMAIN r
      PROVE  IF (p = u) = bad THEN Least(s[p], r[p]) ELSE Least(r[p], s[p])
  BY <1>1, <1>2, <1>3
<1>5. ASSUME u \in Leaders(r), ~bad PROVE u \in Leaders(s)
  <2>1. /\ u \in DOMAIN before /\ r[u] # Missing
        /\ \A q \in DOMAIN before : r[q] # Missing => r[q] - r[u] <= 20
    BY <1>1, <1>5 DEF Leaders
  <2>2. Ordered(r[u], s[u])
    BY <1>5, <1>8, <2>1
  <2>3. r[u] \in Int /\ s[u] \in Int /\ r[u] <= s[u] /\ s[u] # Missing
    BY <2>1, <2>2, MissingIsNoCount DEF Ordered
  <2>4. ASSUME NEW q \in DOMAIN before, s[q] # Missing PROVE s[q] - s[u] <= 20
    <3>1. CASE q = u
      BY <2>3, <3>1
    <3>2. CASE q # u
      <4>1. Ordered(s[q], r[q])
        BY <1>5, <1>8, <3>2
      <4>2. s[q] \in Int /\ r[q] \in Int /\ s[q] <= r[q] /\ r[q] # Missing
        BY <2>4, <4>1, MissingIsNoCount DEF Ordered
      <4> QED BY <2>1, <2>3, <4>2
    <3> QED BY <3>1, <3>2
  <2> QED BY <1>1, <2>1, <2>3, <2>4 DEF Leaders
<1>6. Pays(r, s, u, bad)
  BY <1>1, <1>4, <1>5 DEF Pays
<1> QED BY <1>6 DEF r, s, bad

-----------------------------------------------------------------------------
(* One more counted at a place *)

\* A row, a half and a demo with one more counted in a row.
RowMore(row, name)        == [row EXCEPT !.counts[name] = @ + 1]
HalfMore(half, r, name)   == [half EXCEPT !.rows[r] = RowMore(@, name)]
DemoMore(demo, h, r, name) == [demo EXCEPT !.halves[h] = HalfMore(@, r, name)]

\* One more counted in demos is one more in one of them.
LEMMA OneMoreOfOne ==
  ASSUME NEW demos, NEW x, NEW name
  PROVE  OneMore(demos, x, name) = [demos EXCEPT ![x[1]] = DemoMore(@, x[2], x[3], name)]
BY DEF OneMore, DemoMore, HalfMore, RowMore

\* The row with one more.
LEMMA RowMoreIs ==
  ASSUME NEW row, Line(row), NEW name \in DOMAIN row.counts, row.counts[name] # Missing
  PROVE  LET next == RowMore(row, name)
         IN  /\ next.player = row.player /\ next.side = row.side /\ next.seconds = row.seconds
             /\ DOMAIN next.counts = DOMAIN row.counts
             /\ \A n \in DOMAIN row.counts :
                   next.counts[n] = IF n = name THEN row.counts[n] + 1 ELSE row.counts[n]
             /\ row.counts[name] \in Nat
             /\ Line(next)
<1> DEFINE next == RowMore(row, name)
<1>1. row.counts[name] \in Nat
  BY DEF Line, Tally
<1>2. /\ next.player = row.player /\ next.side = row.side /\ next.seconds = row.seconds
      /\ next.counts = [row.counts EXCEPT ![name] = @ + 1]
      /\ next = [player |-> next.player, side |-> next.side, seconds |-> next.seconds,
                 counts |-> next.counts]
  BY DEF Line, RowMore
<1> DEFINE c == next.counts
<1>3. /\ DOMAIN c = DOMAIN row.counts
      /\ \A n \in DOMAIN row.counts :
            c[n] = IF n = name THEN row.counts[n] + 1 ELSE row.counts[n]
      /\ c = [n \in DOMAIN row.counts |-> c[n]]
  BY <1>2
<1> HIDE DEF c
<1>4. \A n \in DOMAIN row.counts : c[n] \in Tally
  BY <1>1, <1>3 DEF Line, Tally
<1>5. c \in [DOMAIN c -> Tally]
  BY <1>3, <1>4
<1>6. Line(next)
  <2> HIDE DEF next
  <2> QED BY <1>2, <1>3, <1>5 DEF Line, c
<1> QED BY <1>1, <1>2, <1>3, <1>6 DEF c

\* The half with one more.
LEMMA HalfMoreIs ==
  ASSUME NEW half, NEW players, HalfOf(half, players), NEW r \in DOMAIN half.rows,
         NEW name \in DOMAIN half.rows[r].counts, half.rows[r].counts[name] # Missing
  PROVE  LET next == HalfMore(half, r, name)
         IN  /\ next.start = half.start /\ next.end = half.end
             /\ DOMAIN next.rows = DOMAIN half.rows
             /\ next.rows[r] = RowMore(half.rows[r], name)
             /\ \A q \in DOMAIN half.rows : q # r => next.rows[q] = half.rows[q]
             /\ HalfOf(next, players)
<1> DEFINE next == HalfMore(half, r, name)
<1>1. /\ next.start = half.start /\ next.end = half.end
      /\ DOMAIN next.rows = DOMAIN half.rows
      /\ next.rows[r] = RowMore(half.rows[r], name)
      /\ \A q \in DOMAIN half.rows : q # r => next.rows[q] = half.rows[q]
  BY DEF HalfOf, HalfMore
<1>2. /\ next = [start |-> next.start, end |-> next.end, rows |-> next.rows]
      /\ next.rows = [q \in DOMAIN next.rows |-> next.rows[q]]
  BY DEF HalfOf, HalfMore
<1> HIDE DEF next
<1>3. Line(half.rows[r])
  BY DEF HalfOf
<1>4. Line(next.rows[r]) /\ next.rows[r].player = half.rows[r].player
  BY <1>1, <1>3, RowMoreIs
<1>5. ASSUME NEW q \in DOMAIN next.rows
      PROVE  Line(next.rows[q]) /\ \E p \in players : p.id = next.rows[q].player
  <2>1. Line(half.rows[q]) /\ \E p \in players : p.id = half.rows[q].player
    BY <1>1 DEF HalfOf
  <2> QED BY <1>1, <1>4, <2>1
<1>6. IsFiniteSet(DOMAIN next.rows)
  BY <1>1 DEF HalfOf
<1>7. HalfOf(next, players)
  BY <1>2, <1>5, <1>6 DEF HalfOf
<1> QED BY <1>1, <1>7 DEF next

\* The demo with one more.
LEMMA DemoMoreIs ==
  ASSUME NEW demo, Demo(demo), NEW h \in DOMAIN demo.halves,
         NEW r \in DOMAIN demo.halves[h].rows,
         NEW name \in DOMAIN demo.halves[h].rows[r].counts,
         demo.halves[h].rows[r].counts[name] # Missing
  PROVE  LET next == DemoMore(demo, h, r, name)
         IN  /\ next.players = demo.players /\ next.lives = demo.lives
             /\ next.clears = demo.clears
             /\ DOMAIN next.halves = DOMAIN demo.halves
             /\ next.halves[h] = HalfMore(demo.halves[h], r, name)
             /\ \A k \in DOMAIN demo.halves : k # h => next.halves[k] = demo.halves[k]
             /\ Demo(next)
<1> DEFINE next == DemoMore(demo, h, r, name)
<1>1. /\ next.players = demo.players /\ next.lives = demo.lives
      /\ next.clears = demo.clears
      /\ DOMAIN next.halves = DOMAIN demo.halves
      /\ next.halves[h] = HalfMore(demo.halves[h], r, name)
      /\ \A k \in DOMAIN demo.halves : k # h => next.halves[k] = demo.halves[k]
  BY DEF Demo, DemoMore
<1>2. /\ next = [players |-> next.players, lives |-> next.lives, clears |-> next.clears,
                 halves |-> next.halves]
      /\ next.halves = [k \in DOMAIN next.halves |-> next.halves[k]]
  BY DEF Demo, DemoMore
<1> HIDE DEF next
<1>3. HalfOf(demo.halves[h], demo.players)
  BY DEF Demo
<1>4. HalfOf(next.halves[h], demo.players)
  <2>1. HalfOf(HalfMore(demo.halves[h], r, name), demo.players)
    BY <1>3, HalfMoreIs
  <2> QED BY <1>1, <2>1
<1>5. \A k \in DOMAIN next.halves : HalfOf(next.halves[k], next.players)
  BY <1>1, <1>4 DEF Demo
<1>6. Demo(next)
  <2>1. /\ IsFiniteSet(next.players)
        /\ \A p, q \in next.players : p.id = q.id => p = q
        /\ \A p \in next.players : p.deaths \in Tally
    BY <1>1 DEF Demo
  <2>2. /\ IsFiniteSet(next.lives)
        /\ \A l \in next.lives : l.controls \in Nat /\ l.pins \in Nat
        /\ next.clears = Missing \/ IsFiniteSet(next.clears)
        /\ IsFiniteSet(DOMAIN next.halves)
    BY <1>1 DEF Demo
  <2> QED BY <1>2, <1>5, <2>1, <2>2 DEF Demo
<1> QED BY <1>1, <1>6 DEF next

\* Everything but the row is as it was.
LEMMA OneMoreIs ==
  ASSUME NEW demos, Played(demos), NEW x \in Places(demos),
         NEW name \in DOMAIN PlainRow(demos, x).counts, PlainRow(demos, x).counts[name] # Missing
  PROVE  LET next == OneMore(demos, x, name)
         IN  /\ DOMAIN next = DOMAIN demos
             /\ \A d \in DOMAIN demos :
                   /\ next[d].players = demos[d].players /\ next[d].lives = demos[d].lives
                   /\ next[d].clears = demos[d].clears
                   /\ DOMAIN next[d].halves = DOMAIN demos[d].halves
                   /\ \A h \in DOMAIN demos[d].halves :
                         /\ next[d].halves[h].start = demos[d].halves[h].start
                         /\ next[d].halves[h].end = demos[d].halves[h].end
                         /\ DOMAIN next[d].halves[h].rows = DOMAIN demos[d].halves[h].rows
             /\ \A y \in Places(demos) : y # x => PlainRow(next, y) = PlainRow(demos, y)
             /\ PlainRow(next, x) = RowMore(PlainRow(demos, x), name)
             /\ \A d \in DOMAIN demos : Demo(next[d])
             /\ Line(PlainRow(demos, x))
<1> DEFINE next == OneMore(demos, x, name)
           e == x[1]
           k == x[2]
           r == x[3]
<1>1. /\ e \in DOMAIN demos /\ k \in DOMAIN demos[e].halves
      /\ r \in DOMAIN demos[e].halves[k].rows /\ x = <<e, k, r>>
  BY PlacesOf
<1>2. /\ DOMAIN next = DOMAIN demos
      /\ next[e] = DemoMore(demos[e], k, r, name)
      /\ \A d \in DOMAIN demos : d # e => next[d] = demos[d]
  <2>1. next = [demos EXCEPT ![e] = DemoMore(@, k, r, name)]
    BY OneMoreOfOne
  <2> HIDE DEF next, e, k, r
  <2> QED BY <1>1, <2>1
<1>9. PlainRow(demos, x) = demos[e].halves[k].rows[r]
  BY DEF PlainRow
<1> HIDE DEF next, e, k, r
<1>10. /\ name \in DOMAIN demos[e].halves[k].rows[r].counts
       /\ demos[e].halves[k].rows[r].counts[name] # Missing
  BY <1>9
<1>3. Demo(demos[e]) /\ HalfOf(demos[e].halves[k], demos[e].players)
  BY <1>1 DEF Played, Demo
<1>11. Line(PlainRow(demos, x))
  BY <1>1, <1>3, <1>9 DEF HalfOf
<1>4. /\ next[e].players = demos[e].players /\ next[e].lives = demos[e].lives
      /\ next[e].clears = demos[e].clears
      /\ DOMAIN next[e].halves = DOMAIN demos[e].halves
      /\ next[e].halves[k] = HalfMore(demos[e].halves[k], r, name)
      /\ \A h \in DOMAIN demos[e].halves : h # k => next[e].halves[h] = demos[e].halves[h]
      /\ Demo(next[e])
  BY <1>1, <1>2, <1>3, <1>10, DemoMoreIs
<1>5. LET half == demos[e].halves[k]
          more == next[e].halves[k]
      IN  /\ more.start = half.start /\ more.end = half.end
          /\ DOMAIN more.rows = DOMAIN half.rows
          /\ more.rows[r] = RowMore(half.rows[r], name)
          /\ \A q \in DOMAIN half.rows : q # r => more.rows[q] = half.rows[q]
  BY <1>1, <1>3, <1>4, <1>10, HalfMoreIs
<1>6. ASSUME NEW d \in DOMAIN demos
      PROVE  /\ next[d].players = demos[d].players /\ next[d].lives = demos[d].lives
             /\ next[d].clears = demos[d].clears
             /\ DOMAIN next[d].halves = DOMAIN demos[d].halves
             /\ \A h \in DOMAIN demos[d].halves :
                   /\ next[d].halves[h].start = demos[d].halves[h].start
                   /\ next[d].halves[h].end = demos[d].halves[h].end
                   /\ DOMAIN next[d].halves[h].rows = DOMAIN demos[d].halves[h].rows
  <2>1. CASE d # e
    BY <1>2, <2>1
  <2>2. CASE d = e
    <3>1. ASSUME NEW h \in DOMAIN demos[e].halves
          PROVE  /\ next[e].halves[h].start = demos[e].halves[h].start
                 /\ next[e].halves[h].end = demos[e].halves[h].end
                 /\ DOMAIN next[e].halves[h].rows = DOMAIN demos[e].halves[h].rows
      BY <1>4, <1>5
    <3> QED BY <1>4, <2>2, <3>1
  <2> QED BY <2>1, <2>2
<1>7. ASSUME NEW y \in Places(demos), y # x PROVE PlainRow(next, y) = PlainRow(demos, y)
  <2>1. /\ y = <<y[1], y[2], y[3]>> /\ y[1] \in DOMAIN demos
        /\ y[2] \in DOMAIN demos[y[1]].halves
        /\ y[3] \in DOMAIN demos[y[1]].halves[y[2]].rows
    BY PlacesOf
  <2>2. CASE y[1] # e
    BY <1>2, <2>1, <2>2 DEF PlainRow
  <2>3. CASE y[1] = e /\ y[2] # k
    BY <1>4, <2>1, <2>3 DEF PlainRow
  <2>4. CASE y[1] = e /\ y[2] = k
    <3>1. y[3] # r
      BY <1>1, <1>7, <2>1, <2>4
    <3> QED BY <1>5, <2>1, <2>4, <3>1 DEF PlainRow
  <2> QED BY <2>2, <2>3, <2>4
<1>8. PlainRow(next, x) = RowMore(PlainRow(demos, x), name)
  BY <1>5 DEF PlainRow, e, k, r
<1>12. \A d \in DOMAIN demos : Demo(next[d])
  BY <1>2, <1>4 DEF Played
<1> QED BY <1>2, <1>6, <1>7, <1>8, <1>11, <1>12 DEF next

\* What is derived comes of the lives and the clears of a demo in a stretch of time.
DerivedFrom(lived, cleared, start, end, player) ==
    LET lives == {l \in lived : l.player = player /\ (start <= l.start /\ l.start <= end)}
        ordinary == {l \in lives : l.class # "Tank"}
    IN [clears   |-> IF cleared = Missing THEN Missing
                     ELSE Cardinality({c \in cleared :
                                          c.actor = player /\ (start <= c.tick /\ c.tick <= end)}),
        lives    |-> Cardinality(ordinary),
        controls |-> SumFunction([l \in ordinary |-> l.controls]),
        pins     |-> SumFunction([l \in ordinary |-> l.pins]),
        tanks    |-> Cardinality(lives \ ordinary)]

\* A demo with one more derives what it did.
LEMMA DerivedIsFrom ==
  \A demo, half, player :
     Derived(demo, half, player)
       = DerivedFrom(demo.lives, demo.clears, half.start, half.end, player)
BY Zenon DEF Derived, DerivedFrom, Inside

\* A row is up when it counts no less, of the counter alone.
Up(row, more, name) ==
    /\ more.side = row.side /\ more.seconds = row.seconds
    /\ more.counts["lives"] = row.counts["lives"]
    /\ \A m \in Metrics :
          /\ Exposure(more, m) = Exposure(row, m)
          /\ Numerator(more, m) = Missing <=> Numerator(row, m) = Missing
          /\ Numerator(row, m) # Missing => Numerator(row, m) <= Numerator(more, m)
          /\ name \notin m.of => Numerator(more, m) = Numerator(row, m)

\* A row that stays as it is is up.
LEMMA UpAsItIs ==
  ASSUME NEW row, Seen(row), NEW name
  PROVE  Up(row, row, name)
<1>1. ASSUME NEW m \in Metrics, Numerator(row, m) # Missing
      PROVE  Numerator(row, m) <= Numerator(row, m)
  <2>1. Numerator(row, m) \in Nat
    BY <1>1, NumeratorIsTally DEF Tally
  <2> QED BY <2>1
<1> QED BY <1>1 DEF Up

\* One more of a counter that is none of those derived.
LEMMA UpByOne ==
  ASSUME NEW row, Seen(row), NEW more, Seen(more), NEW name, name \notin DerivedNames,
         more.side = row.side, more.seconds = row.seconds,
         DOMAIN more.counts = DOMAIN row.counts, name \in DOMAIN row.counts,
         row.counts[name] \in Nat, more.counts[name] = row.counts[name] + 1,
         \A n \in DOMAIN row.counts : n # name => more.counts[n] = row.counts[n]
  PROVE  Up(row, more, name)
<1>1. /\ \A n : Counter(row, n) \in Tally /\ Counter(more, n) \in Tally
      /\ \A n : Counter(more, n) = Missing <=> Counter(row, n) = Missing
      /\ \A n : n # name => Counter(more, n) = Counter(row, n)
      /\ Counter(row, name) \in Nat /\ Counter(more, name) = Counter(row, name) + 1
  BY MissingIsNoCount DEF Counter, Tally, Seen
<1>2. \A n \in {"lives", "controls", "tanks"} : more.counts[n] = row.counts[n]
  BY DEF DerivedNames, Seen
<1>3. ASSUME NEW m \in Metrics PROVE Exposure(more, m) = Exposure(row, m)
  BY <1>2, MetricsAreRateable DEF Exposure, Rateable, Pers
<1>4. ASSUME NEW m \in Metrics
      PROVE  /\ Numerator(more, m) = Missing <=> Numerator(row, m) = Missing
             /\ Numerator(row, m) # Missing => Numerator(row, m) <= Numerator(more, m)
             /\ name \notin m.of => Numerator(more, m) = Numerator(row, m)
  <2>1. CASE \E n \in m.of : Counter(row, n) = Missing
    <3>1. Numerator(row, m) = Missing /\ Numerator(more, m) = Missing
      BY <1>1, <2>1 DEF Numerator
    <3> QED BY <3>1
  <2>2. CASE \A n \in m.of : Counter(row, n) # Missing
    <3> DEFINE f == [n \in m.of |-> Counter(row, n)]
               g == [n \in m.of |-> Counter(more, n)]
    <3>1. Numerator(row, m) = SumFunctionOnSet(f, m.of)
          /\ Numerator(more, m) = SumFunctionOnSet(g, m.of)
      BY <1>1, <2>2 DEF Numerator, SumFunction
    <3>2. \A n \in m.of : f[n] = Counter(row, n) /\ g[n] = Counter(more, n)
      OBVIOUS
    <3> HIDE DEF f, g
    <3>3. \A n \in m.of : /\ f[n] \in Int /\ g[n] \in Int /\ f[n] \in Nat /\ g[n] \in Nat
                          /\ f[n] <= g[n]
                          /\ n # name => f[n] = g[n]
      <4> TAKE n \in m.of
      <4>1. Counter(row, n) \in Nat /\ Counter(more, n) \in Nat
        BY <1>1, <2>2 DEF Tally
      <4>2. Counter(row, n) <= Counter(more, n)
        BY <1>1, <4>1
      <4> QED BY <1>1, <3>2, <4>1, <4>2
    <3>4. IsFiniteSet(m.of)
      BY MetricsAreRateable DEF Rateable
    <3>5. SumFunctionOnSet(f, m.of) <= SumFunctionOnSet(g, m.of)
      BY <3>3, <3>4, SumGrows
    <3>6. SumFunctionOnSet(f, m.of) \in Nat /\ SumFunctionOnSet(g, m.of) \in Nat
      BY <3>3, <3>4, SumIsNat
    <3>7. name \notin m.of => SumFunctionOnSet(f, m.of) = SumFunctionOnSet(g, m.of)
      BY <3>3, <3>4, SumIsSame
    <3> QED BY <3>1, <3>5, <3>6, <3>7, MissingIsNoCount
  <2> QED BY <2>1, <2>2
<1> QED BY <1>2, <1>3, <1>4 DEF Up

\* A sum of positive numbers, of one at least, is positive.
LEMMA SumIsPositive ==
  ASSUME NEW S, IsFiniteSet(S), S # {}, NEW f, \A x \in S : f[x] \in Nat \ {0}
  PROVE  SumFunctionOnSet(f, S) \in Nat \ {0}
<1>1. PICK x \in S : TRUE
  OBVIOUS
<1>2. \A y \in S : f[y] \in Int /\ f[y] \in Nat
  OBVIOUS
<1>3. SumFunctionOnSet(f, S) = f[x] + SumFunctionOnSet(f, S \ {x})
  BY <1>2, SumUnfolds
<1>4. IsFiniteSet(S \ {x})
  <2>1. S \ {x} \in SUBSET S
    OBVIOUS
  <2> QED BY <2>1, FS_Subset
<1>5. SumFunctionOnSet(f, S \ {x}) \in Nat
  BY <1>2, <1>4, SumIsNat
<1> QED BY <1>3, <1>5

\* What rows add up to is an input.
LEMMA InputIsCounted ==
  ASSUME NEW R, Rows(R)
  PROVE  Input(InputOf(R)) /\ DOMAIN InputOf(R).metrics \subseteq Metrics
<1> DEFINE i == InputOf(R)
<1>1. DOMAIN i.metrics = {m \in Metrics : Adding(R, m) # {}}
  BY InputParts
<1>2. ASSUME NEW m \in DOMAIN i.metrics
      PROVE  i.metrics[m].total \in Nat /\ i.metrics[m].exposure \in Nat \ {0}
  <2> DEFINE X == Adding(R, m)
             f == [x \in X |-> Numerator(R[x], m)]
             g == [x \in X |-> Exposure(R[x], m)]
  <2>1. m \in Metrics /\ X # {}
    BY <1>1
  <2>2. IsFiniteSet(X) /\ \A x \in X : f[x] \in Nat /\ g[x] \in Nat \ {0}
    BY <2>1, WhatIsSummed
  <2>3. /\ i.metrics[m].total = SumFunctionOnSet(f, X)
        /\ i.metrics[m].exposure = SumFunctionOnSet(g, X)
    BY InputParts DEF SumFunction
  <2> HIDE DEF X, f, g, i
  <2>4. SumFunctionOnSet(f, X) \in Nat /\ SumFunctionOnSet(g, X) \in Nat \ {0}
    BY <2>1, <2>2, SumIsNat, SumIsPositive
  <2> QED BY <2>3, <2>4
<1> QED BY <1>1, <1>2 DEF Input

\* Rows that are up make an input that is raised.
LEMMA InputIsRaised ==
  ASSUME NEW R, Rows(R), NEW S, Rows(S), DOMAIN S = DOMAIN R,
         NEW name, \A x \in DOMAIN R : Up(R[x], S[x], name)
  PROVE  Raised(InputOf(R), InputOf(S), name)
<1> DEFINE i == InputOf(R)
           j == InputOf(S)
<1>1. j.maps = i.maps
  <2> DEFINE a == {x[1] : x \in DOMAIN R}
             b == {x[1] : x \in DOMAIN S}
  <2>1. a = b
    OBVIOUS
  <2>2. j.maps = Cardinality(b) /\ i.maps = Cardinality(a)
    BY InputParts
  <2> HIDE DEF a, b
  <2> QED BY <2>1, <2>2
<1>2. \A side : On(S, side) = On(R, side)
  BY DEF On, Up
<1>3. j.seconds = i.seconds
  <2> DEFINE a == [x \in On(S, "Survivor") |-> S[x].seconds]
             b == [x \in On(R, "Survivor") |-> R[x].seconds]
  <2>1. \A x \in On(R, "Survivor") : S[x].seconds = R[x].seconds
    BY DEF On, Up
  <2>2. a = b
    BY <1>2, <2>1
  <2>3. j.seconds = SumFunction(a) /\ i.seconds = SumFunction(b)
    BY InputParts
  <2> HIDE DEF a, b
  <2> QED BY <2>2, <2>3
<1>4. j.lives = i.lives
  <2> DEFINE a == [x \in On(S, "Infected") |-> S[x].counts["lives"]]
             b == [x \in On(R, "Infected") |-> R[x].counts["lives"]]
  <2>1. \A x \in On(R, "Infected") : S[x].counts["lives"] = R[x].counts["lives"]
    BY DEF On, Up
  <2>2. a = b
    BY <1>2, <2>1
  <2>3. j.lives = SumFunction(a) /\ i.lives = SumFunction(b)
    BY InputParts
  <2> HIDE DEF a, b
  <2> QED BY <2>2, <2>3
<1>5. \A m \in Metrics : \A x \in On(R, m.role) :
         /\ Exposure(S[x], m) = Exposure(R[x], m)
         /\ Numerator(S[x], m) = Missing <=> Numerator(R[x], m) = Missing
         /\ Numerator(R[x], m) # Missing => Numerator(R[x], m) <= Numerator(S[x], m)
         /\ name \notin m.of => Numerator(S[x], m) = Numerator(R[x], m)
  BY DEF On, Up
<1>6. \A m \in Metrics : Adding(S, m) = Adding(R, m)
  BY <1>2, <1>5 DEF Adding
<1>7. DOMAIN j.metrics = DOMAIN i.metrics
      /\ DOMAIN i.metrics = {m \in Metrics : Adding(R, m) # {}}
  <2>1. {m \in Metrics : Adding(S, m) # {}} = {m \in Metrics : Adding(R, m) # {}}
    BY <1>6
  <2> QED BY <2>1, InputParts
<1>8. ASSUME NEW m \in DOMAIN i.metrics
      PROVE  /\ j.metrics[m].exposure = i.metrics[m].exposure
             /\ i.metrics[m].total <= j.metrics[m].total
             /\ name \notin m.of => j.metrics[m].total = i.metrics[m].total
  <2> DEFINE X == Adding(R, m)
             f == [x \in X |-> Numerator(R[x], m)]
             g == [x \in X |-> Numerator(S[x], m)]
  <2>1. m \in Metrics /\ m \in DOMAIN j.metrics /\ Adding(S, m) = X
    BY <1>6, <1>7
  <2>2. IsFiniteSet(X) /\ \A x \in X : f[x] \in Int /\ g[x] \in Int
    BY <2>1, WhatIsSummed
  <2>3. \A x \in X : x \in On(R, m.role) /\ Numerator(R[x], m) # Missing
    BY DEF Adding
  <2>4. \A x \in X : /\ f[x] <= g[x] /\ (name \notin m.of => g[x] = f[x])
                     /\ Exposure(S[x], m) = Exposure(R[x], m)
    BY <1>5, <2>1, <2>3
  <2>5. i.metrics[m].total = SumFunctionOnSet(f, X) /\ j.metrics[m].total = SumFunctionOnSet(g, X)
    <3> DEFINE h == [x \in Adding(S, m) |-> Numerator(S[x], m)]
    <3>1. i.metrics[m].total = SumFunctionOnSet(f, X)
      BY InputParts DEF SumFunction
    <3>2. j.metrics[m].total = SumFunctionOnSet(h, Adding(S, m))
      BY <2>1, InputParts DEF SumFunction
    <3>3. h = g
      BY <2>1
    <3> HIDE DEF f, g, h, X
    <3> QED BY <2>1, <3>1, <3>2, <3>3
  <2>6. j.metrics[m].exposure = i.metrics[m].exposure
    <3> DEFINE a == [x \in X |-> Exposure(R[x], m)]
               b == [x \in Adding(S, m) |-> Exposure(S[x], m)]
    <3>1. b = a
      BY <2>1, <2>4
    <3>2. i.metrics[m].exposure = SumFunction(a) /\ j.metrics[m].exposure = SumFunction(b)
      BY <2>1, InputParts
    <3> HIDE DEF a, b
    <3> QED BY <3>1, <3>2
  <2> HIDE DEF X, f, g, i, j
  <2>7. SumFunctionOnSet(f, X) <= SumFunctionOnSet(g, X)
    BY <2>2, <2>4, SumGrows
  <2>8. name \notin m.of => SumFunctionOnSet(g, X) = SumFunctionOnSet(f, X)
    BY <2>2, <2>4, SumIsSame
  <2> QED BY <2>5, <2>6, <2>7, <2>8
<1> QED BY <1>1, <1>3, <1>4, <1>7, <1>8 DEF Raised

\* A key comes of the users of a slot.
KeyFrom(users, d, p) ==
    IF p.user # Missing THEN p.user
    ELSE IF Cardinality(users) = 1 THEN CHOOSE u \in users : TRUE
    ELSE <<d, p.id>>

\* Keys come of the users of a slot.
LEMMA KeyIsFrom ==
  \A demo, d, p : KeyOf(demo, d, p) = KeyFrom(SlotUsers(demo, p.slot), d, p)
BY Zenon DEF KeyOf, KeyFrom

\* The places, who is at each, and every row but one are as they were.
LEMMA OneMoreSeen ==
  ASSUME NEW demos, Played(demos), NEW x \in Places(demos),
         NEW name \in DOMAIN PlainRow(demos, x).counts, PlainRow(demos, x).counts[name] # Missing
  PROVE  LET next == OneMore(demos, x, name)
         IN  /\ Places(next) = Places(demos)
             /\ PageWho(next) = PageWho(demos)
             /\ \A y \in Places(demos) : /\ Seen(RowAt(demos, y)) /\ Seen(RowAt(next, y))
                                         /\ Up(RowAt(demos, y), RowAt(next, y), name)
                                         /\ y # x => RowAt(next, y) = RowAt(demos, y)
<1> DEFINE next == OneMore(demos, x, name)
<1>1. /\ DOMAIN next = DOMAIN demos
      /\ \A d \in DOMAIN demos :
            /\ next[d].players = demos[d].players /\ next[d].lives = demos[d].lives
            /\ next[d].clears = demos[d].clears
            /\ DOMAIN next[d].halves = DOMAIN demos[d].halves
            /\ \A h \in DOMAIN demos[d].halves :
                  /\ next[d].halves[h].start = demos[d].halves[h].start
                  /\ next[d].halves[h].end = demos[d].halves[h].end
                  /\ DOMAIN next[d].halves[h].rows = DOMAIN demos[d].halves[h].rows
  BY OneMoreIs
<1>2. /\ \A y \in Places(demos) : y # x => PlainRow(next, y) = PlainRow(demos, y)
      /\ PlainRow(next, x) = RowMore(PlainRow(demos, x), name)
      /\ \A d \in DOMAIN demos : Demo(next[d])
      /\ Line(PlainRow(demos, x))
  BY OneMoreIs
<1> HIDE DEF next
<1>3. \A y : y \in Places(demos) <=> /\ Triple(y) /\ y[1] \in DOMAIN demos
                                    /\ y[2] \in DOMAIN demos[y[1]].halves
                                    /\ y[3] \in DOMAIN demos[y[1]].halves[y[2]].rows
  BY PlacesOf DEF Triple
<1>4. \A y : y \in Places(next) <=> /\ Triple(y) /\ y[1] \in DOMAIN next
                                   /\ y[2] \in DOMAIN next[y[1]].halves
                                   /\ y[3] \in DOMAIN next[y[1]].halves[y[2]].rows
  BY PlacesOf DEF Triple
<1>5. Places(next) = Places(demos)
  <2>1. \A y : y \in Places(next) <=> y \in Places(demos)
    BY <1>1, <1>3, <1>4
  <2> QED BY <2>1
<1>6. LET row == PlainRow(demos, x)
          more == PlainRow(next, x)
      IN  /\ more.player = row.player /\ more.side = row.side /\ more.seconds = row.seconds
          /\ DOMAIN more.counts = DOMAIN row.counts
          /\ \A n \in DOMAIN row.counts :
                more.counts[n] = IF n = name THEN row.counts[n] + 1 ELSE row.counts[n]
          /\ row.counts[name] \in Nat
  BY <1>2, RowMoreIs
<1>7. \A y \in Places(demos) : PlainRow(next, y).player = PlainRow(demos, y).player
  BY <1>2, <1>6
<1>8. \A y \in Places(demos) : PlayerAt(next, y) = PlayerAt(demos, y)
  <2> TAKE y \in Places(demos)
  <2>1. next[y[1]].players = demos[y[1]].players
    BY <1>1, <1>3
  <2>2. PlainRow(next, y).player = PlainRow(demos, y).player
    BY <1>7
  <2> QED BY <2>1, <2>2, Zenon DEF PlayerAt
<1>9. ASSUME NEW d \in DOMAIN demos, NEW p
      PROVE  WebResolve(next, p, d) = WebResolve(demos, p, d)
  <2>1. next[d].players = demos[d].players
    BY <1>1
  <2>2. SlotUsers(next[d], p.slot) = SlotUsers(demos[d], p.slot)
    BY <2>1, Zenon DEF SlotUsers
  <2>3. KeyOf(next[d], d, p) = KeyOf(demos[d], d, p)
    BY <2>2, KeyIsFrom
  <2> QED BY <2>3, Zenon DEF WebResolve
<1>10. PageWho(next) = PageWho(demos)
  <2>1. \A y \in Places(demos) : WebResolve(next, PlayerAt(next, y), y[1])
                                   = WebResolve(demos, PlayerAt(demos, y), y[1])
    BY <1>3, <1>8, <1>9
  <2> QED BY <1>5, <2>1 DEF PageWho
<1>11. ASSUME NEW y \in Places(demos)
       PROVE  LET d == Derived(demos[y[1]], demos[y[1]].halves[y[2]], PlainRow(demos, y).player)
              IN  /\ DOMAIN d = DerivedNames
                  /\ Seen(RowAt(demos, y)) /\ Seen(RowAt(next, y))
                  /\ RowAt(demos, y).side = PlainRow(demos, y).side
                  /\ RowAt(demos, y).seconds = PlainRow(demos, y).seconds
                  /\ RowAt(demos, y).counts = Over(PlainRow(demos, y).counts, d)
                  /\ RowAt(next, y).side = PlainRow(next, y).side
                  /\ RowAt(next, y).seconds = PlainRow(next, y).seconds
                  /\ RowAt(next, y).counts = Over(PlainRow(next, y).counts, d)
                  /\ PlainRow(next, y) = PlainRow(demos, y) => RowAt(next, y) = RowAt(demos, y)
  <2> DEFINE demo == demos[y[1]]
             more == next[y[1]]
             player == PlainRow(demos, y).player
             d == Derived(demo, demo.halves[y[2]], player)
  <2>1. /\ y[1] \in DOMAIN demos /\ more.lives = demo.lives /\ more.clears = demo.clears
        /\ more.halves[y[2]].start = demo.halves[y[2]].start
        /\ more.halves[y[2]].end = demo.halves[y[2]].end
        /\ PlainRow(next, y).player = player
    BY <1>1, <1>3, <1>7
  <2>2. Derived(more, more.halves[y[2]], player) = d
    <3>1. Derived(more, more.halves[y[2]], player)
            = DerivedFrom(more.lives, more.clears, more.halves[y[2]].start,
                          more.halves[y[2]].end, player)
      BY DerivedIsFrom
    <3>2. d = DerivedFrom(demo.lives, demo.clears, demo.halves[y[2]].start,
                          demo.halves[y[2]].end, player)
      BY DerivedIsFrom
    <3> HIDE DEF demo, more, player, d
    <3> QED BY <2>1, <3>1, <3>2
  <2>3. /\ Seen(RowAt(demos, y))
        /\ RowAt(demos, y).side = PlainRow(demos, y).side
        /\ RowAt(demos, y).seconds = PlainRow(demos, y).seconds
        /\ RowAt(demos, y).counts = Over(PlainRow(demos, y).counts, d)
    BY RowsAreSeen DEF Played
  <2>4. /\ Seen(RowAt(next, y))
        /\ RowAt(next, y).side = PlainRow(next, y).side
        /\ RowAt(next, y).seconds = PlainRow(next, y).seconds
        /\ RowAt(next, y).counts
             = Over(PlainRow(next, y).counts,
                    Derived(more, more.halves[y[2]], PlainRow(next, y).player))
    BY <1>1, <1>2, <1>5, RowsAreSeen
  <2>5. RowAt(next, y).counts = Over(PlainRow(next, y).counts, d)
    BY <2>1, <2>2, <2>4
  <2>6. DOMAIN d = DerivedNames
    BY <2>1, DerivedIsCounted DEF Played
  <2>7. PlainRow(next, y) = PlainRow(demos, y) => RowAt(next, y) = RowAt(demos, y)
    <3>1. /\ RowAt(demos, y) = [PlainRow(demos, y) EXCEPT !.counts = Over(@, d)]
          /\ RowAt(next, y) = [PlainRow(next, y) EXCEPT !.counts =
                                 Over(@, Derived(more, more.halves[y[2]],
                                                 PlainRow(next, y).player))]
      BY DEF RowAt
    <3> HIDE DEF demo, more, player, d
    <3> QED BY <2>1, <2>2, <3>1
  <2> QED BY <2>3, <2>4, <2>5, <2>6, <2>7
<1>12. ASSUME NEW y \in Places(demos), y # x
       PROVE  RowAt(next, y) = RowAt(demos, y) /\ Up(RowAt(demos, y), RowAt(next, y), name)
  <2>1. RowAt(next, y) = RowAt(demos, y) /\ Seen(RowAt(demos, y))
    BY <1>2, <1>11, <1>12
  <2> QED BY <2>1, UpAsItIs
<1>13. Up(RowAt(demos, x), RowAt(next, x), name)
  <2> DEFINE row == RowAt(demos, x)
             more == RowAt(next, x)
             plain == PlainRow(demos, x)
             counted == PlainRow(next, x)
             d == Derived(demos[x[1]], demos[x[1]].halves[x[2]], PlainRow(demos, x).player)
  <2>1. /\ Seen(row) /\ Seen(more) /\ DOMAIN d = DerivedNames
        /\ row.side = plain.side /\ row.seconds = plain.seconds
        /\ row.counts = Over(plain.counts, d)
        /\ more.side = counted.side /\ more.seconds = counted.seconds
        /\ more.counts = Over(counted.counts, d)
    BY <1>11
  <2>2. /\ counted.side = plain.side /\ counted.seconds = plain.seconds
        /\ DOMAIN counted.counts = DOMAIN plain.counts
        /\ \A n \in DOMAIN plain.counts :
              counted.counts[n] = IF n = name THEN plain.counts[n] + 1 ELSE plain.counts[n]
        /\ plain.counts[name] \in Nat /\ name \in DOMAIN plain.counts
    BY <1>6
  <2>3. name \notin DerivedNames
    BY <1>2 DEF Line
  <2> HIDE DEF row, more, plain, counted, d
  <2>4. /\ DOMAIN row.counts = DOMAIN plain.counts \cup DerivedNames
        /\ DOMAIN more.counts = DOMAIN plain.counts \cup DerivedNames
        /\ \A n \in DOMAIN plain.counts : /\ row.counts[n] = plain.counts[n]
                                          /\ more.counts[n] = counted.counts[n]
        /\ \A n \in DOMAIN row.counts \ DOMAIN plain.counts :
              more.counts[n] = d[n] /\ row.counts[n] = d[n]
    BY <2>1, <2>2 DEF Over
  <2>5. /\ row.counts[name] \in Nat /\ more.counts[name] = row.counts[name] + 1
        /\ name \in DOMAIN row.counts /\ DOMAIN more.counts = DOMAIN row.counts
    BY <2>2, <2>4
  <2>6. \A n \in DOMAIN row.counts : n # name => more.counts[n] = row.counts[n]
    BY <2>2, <2>4
  <2>7. Up(row, more, name)
    BY <2>1, <2>2, <2>3, <2>5, <2>6, UpByOne
  <2> QED BY <2>7 DEF row, more
<1>14. \A y \in Places(demos) : Seen(RowAt(demos, y)) /\ Seen(RowAt(next, y))
  BY <1>11
<1> QED BY <1>5, <1>10, <1>12, <1>13, <1>14 DEF next

\* The inputs of the players, before and after.
LEMMA OneMoreRaises ==
  ASSUME NEW demos, Played(demos), NEW x \in Places(demos),
         NEW name \in DOMAIN PlainRow(demos, x).counts, PlainRow(demos, x).counts[name] # Missing
  PROVE  OneRaised(WebInputs(demos), WebInputs(OneMore(demos, x, name)),
                   WebResolve(demos, PlayerAt(demos, x), x[1]), name)
<1> DEFINE next == OneMore(demos, x, name)
           who == PageWho(demos)
           u == WebResolve(demos, PlayerAt(demos, x), x[1])
           before == WebInputs(demos)
           after == WebInputs(next)
           X(p) == {y \in Places(demos) : who[y] = p}
           R(p) == RowsOf(demos, who, p)
           S(p) == RowsOf(next, who, p)
<1>1. /\ PageWho(next) = who
      /\ \A y \in Places(demos) : /\ Seen(RowAt(demos, y)) /\ Seen(RowAt(next, y))
                                  /\ Up(RowAt(demos, y), RowAt(next, y), name)
                                  /\ y # x => RowAt(next, y) = RowAt(demos, y)
  BY OneMoreSeen
<1>2. DOMAIN who = Places(demos) /\ who[x] = u
  BY DEF PageWho
<1>3. IsFiniteSet(Places(demos)) /\ \A y \in Places(demos) : Triple(y)
  BY PlacesAreFinite, PlacesOf DEF Played, Triple
<1> HIDE DEF next, who, u
<1>4. before = ProjectInputs(demos, who) /\ after = ProjectInputs(next, who)
  BY <1>1, WhoIs DEF who
<1>5. /\ \A p : p \in DOMAIN before <=> p # Missing /\ \E y \in DOMAIN who : who[y] = p
      /\ \A p \in DOMAIN before : before[p] = InputOf(R(p))
  BY <1>4, Projected
<1>6. /\ \A p : p \in DOMAIN after <=> p # Missing /\ \E y \in DOMAIN who : who[y] = p
      /\ \A p \in DOMAIN after : after[p] = InputOf(S(p))
  BY <1>4, Projected
<1>7. DOMAIN after = DOMAIN before
  <2>1. \A p : p \in DOMAIN after <=> p \in DOMAIN before
    BY <1>5, <1>6
  <2> QED BY <2>1
<1>8. IsFiniteSet(DOMAIN before)
  <2>1. IsFiniteSet({who[y] : y \in Places(demos)})
    BY <1>3, ImageIsFinite
  <2>2. DOMAIN before \in SUBSET {who[y] : y \in Places(demos)}
    BY <1>2, <1>5
  <2> QED BY <2>1, <2>2, FS_Subset
<1>9. ASSUME NEW p
      PROVE  R(p) = [y \in X(p) |-> RowAt(demos, y)] /\ S(p) = [y \in X(p) |-> RowAt(next, y)]
  BY <1>2, RowsOfWho
<1>10. ASSUME NEW p
       PROVE  /\ Rows(R(p)) /\ Rows(S(p)) /\ DOMAIN S(p) = DOMAIN R(p)
              /\ \A y \in DOMAIN R(p) : Up(R(p)[y], S(p)[y], name)
              /\ p # u => S(p) = R(p)
  <2> DEFINE r == R(p)
             s == S(p)
  <2>7. r = [y \in X(p) |-> RowAt(demos, y)] /\ s = [y \in X(p) |-> RowAt(next, y)]
    BY <1>9
  <2>1. /\ DOMAIN r = X(p) /\ DOMAIN s = X(p)
        /\ \A y \in X(p) : r[y] = RowAt(demos, y) /\ s[y] = RowAt(next, y)
        /\ r = [y \in DOMAIN r |-> r[y]] /\ s = [y \in DOMAIN s |-> s[y]]
    <3> HIDE DEF X, r, s, R, S
    <3> QED BY <2>7
  <2>2. X(p) \subseteq Places(demos) /\ (p # u => x \notin X(p))
    BY <1>2
  <2>3. IsFiniteSet(X(p))
    BY <1>3, <2>2, FS_Subset
  <2> HIDE DEF X, r, s
  <2>4. Rows(r) /\ Rows(s)
    BY <1>1, <1>3, <2>1, <2>2, <2>3 DEF Rows
  <2>5. \A y \in DOMAIN r : Up(r[y], s[y], name)
    BY <1>1, <2>1, <2>2
  <2>6. p # u => s = r
    BY <1>1, <2>1, <2>2
  <2> QED BY <2>1, <2>4, <2>5, <2>6 DEF r, s
<1> HIDE DEF before, after, R, S, X
<1>11. ASSUME NEW p \in DOMAIN before
       PROVE  /\ Input(before[p]) /\ Input(after[p])
              /\ DOMAIN before[p].metrics \subseteq Metrics
              /\ p # u => after[p] = before[p]
              /\ p = u => Raised(before[p], after[p], name)
  <2>1. before[p] = InputOf(R(p)) /\ after[p] = InputOf(S(p))
    BY <1>5, <1>6, <1>7
  <2>2. Raised(InputOf(R(p)), InputOf(S(p)), name)
    BY <1>10, InputIsRaised
  <2> QED BY <1>10, <2>1, <2>2, InputIsCounted
<1> QED BY <1>7, <1>8, <1>11 DEF OneRaised, before, after, next, u

\* One more of what a player does well costs him no rating and no lead, and gains
\* no peer any, and of what he does badly the other way (rating.ts:348, :401).
THEOREM PlayAlwaysPaysOff ==
  ASSUME Played(season)
  PROVE  PlayPaysOff
<1>1. ASSUME NEW x \in Places(season), NEW name \in DOMAIN PlainRow(season, x).counts,
             PlainRow(season, x).counts[name] # Missing
      PROVE  Pays(Ratings(WebInputs(season)), Ratings(WebInputs(OneMore(season, x, name))),
                  WebResolve(season, PlayerAt(season, x), x[1]), name \in LowerIsBetter)
  BY <1>1, OneMoreRaises, RaisingPays
<1> QED BY <1>1, Zenon DEF PlayPaysOff
=============================================================================
