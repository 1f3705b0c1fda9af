---------------------------- MODULE FoldTheorems --------------------------
(***************************************************************************)
(* What the folds of the community modules compute on finite sets. The     *)
(* provers cannot instantiate a theorem with an operator parameter, so     *)
(* predicates are sets here and step operators are functions.              *)
(***************************************************************************)
EXTENDS Integers, FiniteSetsExt, Functions, FiniteSetTheorems, WellFoundedInduction, TLAPS

---------------------------------------------------------------------------
(***************************************************************************)
(* Induction.                                                              *)
(***************************************************************************)

\* Induction on the natural numbers, for a set of numbers.
LEMMA NatSetInduction ==
  ASSUME NEW P, 0 \in P, \A n \in Nat : n \in P => n + 1 \in P
  PROVE  Nat \subseteq P
  <1> DEFINE Below == { ss \in Nat \X Nat : ss[1] < ss[2] }
             Bad == { n \in Nat : n \notin P }
  <1> SUFFICES ASSUME Bad # {} PROVE FALSE
    OBVIOUS
  <1>1. IsWellFoundedOn(Below, Nat)
    BY NatLessThanWellFounded, Zenon DEF OpToRel
  <1>2. Bad \subseteq Nat
    OBVIOUS
  <1>3. PICK n \in Bad : \A m \in Bad : ~(<<m, n>> \in Below)
    <2> HIDE DEF Below, Bad
    <2> QED BY <1>1, <1>2, WFMin, Zenon
  <1>4. n # 0 /\ n \in Nat /\ n - 1 \in Nat /\ (n - 1) + 1 = n
    BY <1>3
  <1>5. n - 1 \in Bad
    BY <1>4
  <1>6. <<n - 1, n>> \in Below
    BY <1>4
  <1> QED BY <1>3, <1>5, <1>6

\* Among subsets of a finite set there is a minimal one.
LEMMA MinimalSubset ==
  ASSUME NEW S, IsFiniteSet(S), NEW B, B \subseteq SUBSET S, B # {}
  PROVE  \E s \in B : \A t \in B : t \subseteq s => t = s
  <1> DEFINE R == StrictSubsetOrdering(S)
             U == FiniteSubsetsOf(S)
  <1>1. IsWellFoundedOn(R, U)
    BY FS_StrictSubsetOrderingWellFounded
  <1>2. U = SUBSET S
    BY FS_FiniteSubsetsOfFinite
  <1>3. B \subseteq U
    BY <1>2
  <1>4. PICK s \in B : \A t \in B : ~(<<t, s>> \in R)
    <2> HIDE DEF R, U
    <2> QED BY <1>1, <1>3, WFMin, Zenon
  <1>5. ASSUME NEW t \in B, t \subseteq s PROVE t = s
    BY <1>4, <1>5 DEF StrictSubsetOrdering
  <1> QED BY <1>5

\* Induction on the subsets of a finite set, for a set of sets: what is true of
\* a set once it is true of its proper subsets is true of every subset.
LEMMA SubsetInduction ==
  ASSUME NEW S, IsFiniteSet(S), NEW P,
         \A s \in SUBSET S : (\A t \in SUBSET s : t # s => t \in P) => s \in P
  PROVE  SUBSET S \subseteq P
  <1> DEFINE Bad == { s \in SUBSET S : s \notin P }
  <1> SUFFICES ASSUME Bad # {} PROVE FALSE
    OBVIOUS
  <1>1. Bad \subseteq SUBSET S
    OBVIOUS
  <1>2. PICK s \in Bad : \A t \in Bad : t \subseteq s => t = s
    <2> HIDE DEF Bad
    <2> QED BY <1>1, MinimalSubset
  <1> QED BY <1>2

\* Min of a nonempty set of natural numbers is one of them.
LEMMA MinIn ==
  ASSUME NEW S \in SUBSET Nat, S # {}
  PROVE  Min(S) \in S
  <1> DEFINE Below == { ss \in Nat \X Nat : ss[1] < ss[2] }
  <1>1. IsWellFoundedOn(Below, Nat)
    BY NatLessThanWellFounded, Zenon DEF OpToRel
  <1>2. PICK x \in S : \A y \in S : ~(<<y, x>> \in Below)
    <2> HIDE DEF Below
    <2> QED BY <1>1, WFMin, Zenon
  <1>3. ASSUME NEW y \in S PROVE x =< y
    <2>1. <<y, x>> \in Nat \X Nat
      OBVIOUS
    <2> QED BY <1>2, <2>1
  <1> QED BY <1>3 DEF Min

\* Max of a finite nonempty set of integers is one of them.
LEMMA MaxIn ==
  ASSUME NEW S \in SUBSET Int, IsFiniteSet(S), S # {}
  PROVE  Max(S) \in S
  <1> DEFINE P == { s \in SUBSET S : s # {} => \E x \in s : \A y \in s : x >= y }
  <1>1. ASSUME NEW s \in SUBSET S, \A t \in SUBSET s : t # s => t \in P
        PROVE  s \in P
    <2>1. CASE \E x \in s : s = {x}
      BY <2>1
    <2>2. CASE s # {} /\ ~\E x \in s : s = {x}
      <3>1. PICK x \in s : TRUE
        BY <2>2
      <3>2. s \ {x} # {} /\ s \ {x} \in P
        BY <1>1, <2>2, <3>1
      <3>3. PICK y \in s \ {x} : \A z \in s \ {x} : y >= z
        BY <3>2
      <3>4. \A z \in s : z = x \/ y >= z
        BY <3>3
      <3>5. CASE x >= y
        BY <3>1, <3>3, <3>4, <3>5
      <3>6. CASE y >= x
        BY <3>3, <3>4, <3>6
      <3> QED BY <3>5, <3>6
    <2> QED BY <2>1, <2>2
  <1>2. SUBSET S \subseteq P
    <2> HIDE DEF P
    <2> QED BY <1>1, SubsetInduction
  <1>3. \E x \in S : \A y \in S : x >= y
    BY <1>2
  <1> QED BY <1>3 DEF Max

---------------------------------------------------------------------------
(***************************************************************************)
(* Folding. iter is a fold of the subsets of S: pick[s] is the element     *)
(* taken from s, step[<<x, v>>] what is done with it.                      *)
(***************************************************************************)
IsFold(iter, D, base, pick, step) ==
  iter = [s \in D |-> IF s = {} THEN base ELSE step[<<pick[s], iter[s \ {pick[s]}]>>]]

\* A fold of a finite set exists, and it has values.
LEMMA FoldExists ==
  ASSUME NEW S, IsFiniteSet(S), NEW V, NEW base \in V,
         NEW pick, \A s \in SUBSET S : s # {} => pick[s] \in s,
         NEW step \in [S \X V -> V]
  PROVE  \E iter \in [SUBSET S -> V] : IsFold(iter, SUBSET S, base, pick, step)
  <1> DEFINE D(n) == { s \in SUBSET S : Cardinality(s) <= n }
             Good == { n \in Nat : \E g \in [D(n) -> V] : IsFold(g, D(n), base, pick, step) }
  <1>1. \A s \in SUBSET S : /\ IsFiniteSet(s) /\ Cardinality(s) \in Nat
                            /\ Cardinality(s) <= Cardinality(S)
                            /\ Cardinality(s) = 0 <=> s = {}
    BY FS_Subset, FS_CardinalityType, FS_EmptySet
  <1>2. \A s \in SUBSET S : s # {} => /\ s \ {pick[s]} \in SUBSET S
                                      /\ Cardinality(s \ {pick[s]}) = Cardinality(s) - 1
    BY <1>1, FS_RemoveElement
  <1>3. 0 \in Good
    <2>1. D(0) = {{}}
      BY <1>1
    <2> DEFINE g == [s \in D(0) |-> base]
    <2>2. g \in [D(0) -> V]
      OBVIOUS
    <2>3. IsFold(g, D(0), base, pick, step)
      BY <2>1 DEF IsFold
    <2> QED BY <2>2, <2>3
  <1>4. ASSUME NEW n \in Nat, n \in Good PROVE n + 1 \in Good
    <2>1. PICK g \in [D(n) -> V] : IsFold(g, D(n), base, pick, step)
      BY <1>4
    <2> DEFINE h == [s \in D(n + 1) |-> IF s = {} THEN base ELSE step[<<pick[s], g[s \ {pick[s]}]>>]]
    <2>2. \A s \in D(n + 1) : s # {} => s \ {pick[s]} \in D(n)
      BY <1>1, <1>2
    <2>3. \A s \in D(n + 1) : s # {} => step[<<pick[s], g[s \ {pick[s]}]>>] \in V
      BY <2>1, <2>2
    <2>4. h \in [D(n + 1) -> V]
      BY <2>3
    <2>5. \A s \in D(n) : s \in D(n + 1) /\ h[s] = g[s]
      <3>1. \A s \in D(n) : s \in D(n + 1)
        BY <1>1
      <3>2. \A s \in D(n) : g[s] = IF s = {} THEN base ELSE step[<<pick[s], g[s \ {pick[s]}]>>]
        BY <2>1, Zenon DEF IsFold
      <3> QED BY <3>1, <3>2
    <2>6. \A s \in D(n + 1) : s # {} => g[s \ {pick[s]}] = h[s \ {pick[s]}]
      BY <2>2, <2>5
    <2>7. h = [s \in D(n + 1) |-> IF s = {} THEN base ELSE step[<<pick[s], h[s \ {pick[s]}]>>]]
      <3> HIDE DEF D
      <3> QED BY <2>6
    <2>8. IsFold(h, D(n + 1), base, pick, step)
      <3> HIDE DEF D, h
      <3> QED BY <2>7 DEF IsFold
    <2>9. \E f \in [D(n + 1) -> V] : IsFold(f, D(n + 1), base, pick, step)
      <3> HIDE DEF D, h
      <3> QED BY <2>4, <2>8
    <2>10. n + 1 \in Nat
      OBVIOUS
    <2> QED
      <3> HIDE DEF D
      <3> QED BY <2>9, <2>10, Zenon
  <1>5. Nat \subseteq Good
    <2> HIDE DEF Good
    <2> QED BY <1>3, <1>4, NatSetInduction
  <1>6. D(Cardinality(S)) = SUBSET S /\ Cardinality(S) \in Nat
    BY <1>1, FS_CardinalityType
  <1>7. Cardinality(S) \in Good
    BY <1>5, <1>6
  <1>8. PICK g \in [D(Cardinality(S)) -> V] : IsFold(g, D(Cardinality(S)), base, pick, step)
    BY <1>7
  <1> QED
    <2> HIDE DEF D
    <2> QED BY <1>6, <1>8

\* Two folds agree where both are defined.
LEMMA FoldUnique ==
  ASSUME NEW S, IsFiniteSet(S), NEW T \in SUBSET S, NEW base,
         NEW pick, \A s \in SUBSET S : s # {} => pick[s] \in s, NEW step,
         NEW g, IsFold(g, SUBSET S, base, pick, step),
         NEW h, IsFold(h, SUBSET T, base, pick, step)
  PROVE  \A s \in SUBSET T : g[s] = h[s]
  <1> DEFINE P == { s \in SUBSET T : g[s] = h[s] }
  <1>1. IsFiniteSet(T)
    BY FS_Subset
  <1>2. ASSUME NEW s \in SUBSET T, \A t \in SUBSET s : t # s => t \in P
        PROVE  s \in P
    <2>1. s \in SUBSET S
      OBVIOUS
    <2>2. /\ g[s] = IF s = {} THEN base ELSE step[<<pick[s], g[s \ {pick[s]}]>>]
          /\ h[s] = IF s = {} THEN base ELSE step[<<pick[s], h[s \ {pick[s]}]>>]
      BY <2>1, Zenon DEF IsFold
    <2>3. s # {} => g[s \ {pick[s]}] = h[s \ {pick[s]}]
      <3>1. s # {} => s \ {pick[s]} \in SUBSET s /\ s \ {pick[s]} # s
        BY <2>1
      <3> QED BY <1>2, <3>1
    <2> QED BY <2>2, <2>3
  <1>3. SUBSET T \subseteq P
    <2> HIDE DEF P
    <2> QED BY <1>1, <1>2, SubsetInduction
  <1> QED BY <1>3

---------------------------------------------------------------------------
(***************************************************************************)
(* Sums.                                                                   *)
(***************************************************************************)
Pick(S) == [s \in SUBSET S |-> CHOOSE x \in s : TRUE]

Plus(f, S) == [xv \in S \X Int |-> f[xv[1]] + xv[2]]

\* A sum is the value of a fold.
LEMMA SumIsFold ==
  ASSUME NEW S, IsFiniteSet(S), NEW f, \A x \in S : f[x] \in Int
  PROVE  \E iter \in [SUBSET S -> Int] :
           /\ iter = [s \in SUBSET S |->
                        IF s = {} THEN 0
                        ELSE f[CHOOSE x \in s : TRUE] + iter[s \ {CHOOSE x \in s : TRUE}]]
           /\ SumFunctionOnSet(f, S) = iter[S]
  <1> DEFINE body(g) == [s \in SUBSET S |->
                           IF s = {} THEN 0
                           ELSE f[CHOOSE x \in s : TRUE] + g[s \ {CHOOSE x \in s : TRUE}]]
  <1>1. \A s \in SUBSET S : s # {} => Pick(S)[s] \in s /\ Pick(S)[s] = CHOOSE x \in s : TRUE
    BY DEF Pick
  <1>2. Plus(f, S) \in [S \X Int -> Int]
    BY DEF Plus
  <1>3. PICK g \in [SUBSET S -> Int] : IsFold(g, SUBSET S, 0, Pick(S), Plus(f, S))
    <2> DEFINE pick == Pick(S)
               step == Plus(f, S)
    <2>1. \A s \in SUBSET S : s # {} => pick[s] \in s
      BY <1>1
    <2>2. step \in [S \X Int -> Int]
      BY <1>2
    <2>3. 0 \in Int
      OBVIOUS
    <2> HIDE DEF pick, step
    <2>4. \E g \in [SUBSET S -> Int] : IsFold(g, SUBSET S, 0, pick, step)
      BY <2>1, <2>2, <2>3, FoldExists, Zenon
    <2> QED BY <2>4 DEF pick, step
  <1>4. g = body(g)
    <2>1. ASSUME NEW s \in SUBSET S, s # {}
          PROVE  g[s] = f[CHOOSE x \in s : TRUE] + g[s \ {CHOOSE x \in s : TRUE}]
      <3> DEFINE x == CHOOSE x \in s : TRUE
      <3>1. x \in S /\ Pick(S)[s] = x
        BY <1>1, <2>1
      <3> HIDE DEF x
      <3>2. g[s] = Plus(f, S)[<<x, g[s \ {x}]>>]
        BY <1>3, <2>1, <3>1 DEF IsFold
      <3>3. s \ {x} \in SUBSET S
        OBVIOUS
      <3>4. <<x, g[s \ {x}]>> \in S \X Int
        BY <3>1, <3>3
      <3>5. g[s] = f[x] + g[s \ {x}]
        BY <3>2, <3>4 DEF Plus
      <3> QED BY <3>5 DEF x
    <2>2. g[{}] = 0
      BY <1>3 DEF IsFold
    <2> QED BY <2>1, <2>2
  <1> DEFINE h == CHOOSE h : h = body(h)
  <1>5. h = body(h)
    BY <1>4, Zenon
  <1>6. SumFunctionOnSet(f, S) = h[S]
    BY DEF SumFunctionOnSet, FoldFunctionOnSet, MapThenFoldSet
  <1> HIDE DEF h
  <1>7. ASSUME NEW s \in SUBSET S, \A t \in SUBSET s : t # s => g[t] = h[t]
        PROVE  g[s] = h[s]
    <2>1. s # {} => g[s \ {CHOOSE x \in s : TRUE}] = h[s \ {CHOOSE x \in s : TRUE}]
      BY <1>7
    <2>2. g[s] = body(g)[s] /\ h[s] = body(h)[s]
      BY <1>4, <1>5, Zenon
    <2> QED BY <2>1, <2>2
  <1>8. SUBSET S \subseteq { s \in SUBSET S : g[s] = h[s] }
    <2> DEFINE P == { s \in SUBSET S : g[s] = h[s] }
    <2>1. \A s \in SUBSET S : (\A t \in SUBSET s : t # s => t \in P) => s \in P
      BY <1>7
    <2> HIDE DEF P
    <2>2. SUBSET S \subseteq P
      BY <2>1, SubsetInduction
    <2> QED BY <2>2 DEF P
  <1>9. SumFunctionOnSet(f, S) = g[S]
    BY <1>6, <1>8
  <1> QED BY <1>4, <1>9

\* A sum takes one element after the other.
LEMMA SumUnfold ==
  ASSUME NEW S, IsFiniteSet(S), NEW f, \A x \in S : f[x] \in Int
  PROVE  /\ SumFunctionOnSet(f, S) \in Int
         /\ S = {} => SumFunctionOnSet(f, S) = 0
         /\ S # {} => LET x == CHOOSE x \in S : TRUE
                      IN  SumFunctionOnSet(f, S) = f[x] + SumFunctionOnSet(f, S \ {x})
  <1> DEFINE body(g, T) == [s \in SUBSET T |->
                              IF s = {} THEN 0
                              ELSE f[CHOOSE x \in s : TRUE] + g[s \ {CHOOSE x \in s : TRUE}]]
  <1>1. PICK g \in [SUBSET S -> Int] : g = body(g, S) /\ SumFunctionOnSet(f, S) = g[S]
    BY SumIsFold
  <1>2. SumFunctionOnSet(f, S) \in Int
    BY <1>1
  <1>3. S = {} => SumFunctionOnSet(f, S) = 0
    BY <1>1
  <1>4. ASSUME S # {}
        PROVE  LET x == CHOOSE x \in S : TRUE
               IN  SumFunctionOnSet(f, S) = f[x] + SumFunctionOnSet(f, S \ {x})
    <2> DEFINE x == CHOOSE x \in S : TRUE
               T == S \ {x}
    <2>1. T \subseteq S /\ IsFiniteSet(T) /\ \A y \in T : f[y] \in Int
      BY FS_Subset
    <2>2. PICK h \in [SUBSET T -> Int] : h = body(h, T) /\ SumFunctionOnSet(f, T) = h[T]
      <3> HIDE DEF T
      <3> QED BY <2>1, SumIsFold
    <2>3. ASSUME NEW s \in SUBSET T, \A t \in SUBSET s : t # s => g[t] = h[t]
          PROVE  g[s] = h[s]
      <3>1. s \in SUBSET S
        BY <2>1
      <3>2. s # {} => g[s \ {CHOOSE y \in s : TRUE}] = h[s \ {CHOOSE y \in s : TRUE}]
        BY <2>3
      <3>3. g[s] = body(g, S)[s] /\ h[s] = body(h, T)[s]
        BY <1>1, <2>2, Zenon
      <3> QED BY <3>1, <3>2, <3>3
    <2>4. g[T] = h[T]
      <3> DEFINE P == { s \in SUBSET T : g[s] = h[s] }
      <3> HIDE DEF T
      <3>1. \A s \in SUBSET T : (\A t \in SUBSET s : t # s => t \in P) => s \in P
        BY <2>3
      <3>2. IsFiniteSet(T)
        BY <2>1
      <3> HIDE DEF P
      <3>3. SUBSET T \subseteq P
        BY <3>1, <3>2, SubsetInduction
      <3> QED BY <3>3 DEF P
    <2>5. g[S] = f[x] + g[T]
      <3>1. S \in SUBSET S /\ g[S] = body(g, S)[S]
        BY <1>1, Zenon
      <3> QED BY <1>4, <3>1
    <2> QED BY <1>1, <2>2, <2>4, <2>5
  <1> QED BY <1>2, <1>3, <1>4

\* The sum of integers is an integer, of nothing 0.
LEMMA SumType ==
  ASSUME NEW S, IsFiniteSet(S), NEW f, \A x \in S : f[x] \in Int
  PROVE  SumFunctionOnSet(f, S) \in Int
  BY SumUnfold

\* Nothing adds up to zero.
LEMMA SumEmpty ==
  ASSUME NEW f
  PROVE  SumFunctionOnSet(f, {}) = 0
  <1>1. IsFiniteSet({}) /\ \A x \in {} : f[x] \in Int
    BY FS_EmptySet
  <1> DEFINE S == {}
  <1>2. S = {} /\ IsFiniteSet(S) /\ \A x \in S : f[x] \in Int
    BY <1>1
  <1> HIDE DEF S
  <1>3. SumFunctionOnSet(f, S) = 0
    BY <1>2, SumUnfold
  <1> QED BY <1>2, <1>3

\* Any element may be taken out of a sum, in whatever order the fold takes them.
LEMMA SumRemove ==
  ASSUME NEW S, IsFiniteSet(S), NEW f, \A x \in S : f[x] \in Int, NEW y \in S
  PROVE  SumFunctionOnSet(f, S) = f[y] + SumFunctionOnSet(f, S \ {y})
  <1> DEFINE W(s) == SumFunctionOnSet(f, s)
             P == { s \in SUBSET S : \A z \in s : W(s) = f[z] + W(s \ {z}) }
  <1>1. \A s \in SUBSET S : IsFiniteSet(s) /\ \A x \in s : f[x] \in Int
    BY FS_Subset
  <1>2. \A s \in SUBSET S : W(s) \in Int
    BY <1>1, SumType
  <1>3. \A s \in SUBSET S : s # {} => \E x \in s : W(s) = f[x] + W(s \ {x})
    <2>1. ASSUME NEW s \in SUBSET S, s # {} PROVE \E x \in s : W(s) = f[x] + W(s \ {x})
      <3>1. (CHOOSE x \in s : TRUE) \in s
        BY <2>1
      <3> QED BY <1>1, <2>1, <3>1, SumUnfold
    <2> QED BY <2>1
  <1> HIDE DEF W
  <1>4. ASSUME NEW s \in SUBSET S, \A t \in SUBSET s : t # s => t \in P, NEW z \in s
        PROVE  W(s) = f[z] + W(s \ {z})
    <2>1. PICK x \in s : W(s) = f[x] + W(s \ {x})
      BY <1>3, <1>4
    <2>2. CASE x = z
      BY <2>1, <2>2
    <2>3. CASE x # z
      <3>1. s \ {x} \in P /\ s \ {z} \in P
        BY <1>4, <2>1
      <3>2. W(s \ {x}) = f[z] + W((s \ {x}) \ {z})
        BY <1>4, <2>3, <3>1
      <3>3. W(s \ {z}) = f[x] + W((s \ {z}) \ {x})
        BY <2>1, <2>3, <3>1
      <3>4. (s \ {x}) \ {z} = (s \ {z}) \ {x} /\ (s \ {x}) \ {z} \in SUBSET S
        OBVIOUS
      <3>5. f[x] \in Int /\ f[z] \in Int /\ W((s \ {x}) \ {z}) \in Int
        BY <1>1, <1>2, <3>4
      <3> DEFINE a == f[x]
                 b == f[z]
                 c == W((s \ {x}) \ {z})
      <3>6. W(s) = a + (b + c) /\ W(s \ {z}) = a + c
        BY <2>1, <3>2, <3>3, <3>4
      <3>7. a \in Int /\ b \in Int /\ c \in Int
        BY <3>5
      <3> HIDE DEF a, b, c
      <3>8. W(s) = b + W(s \ {z})
        BY <3>6, <3>7
      <3> QED BY <3>8 DEF b
    <2> QED BY <2>2, <2>3
  <1>5. SUBSET S \subseteq P
    <2>1. \A s \in SUBSET S : (\A t \in SUBSET s : t # s => t \in P) => s \in P
      BY <1>4
    <2> HIDE DEF P
    <2> QED BY <2>1, SubsetInduction
  <1>6. S \in P
    BY <1>5
  <1> QED BY <1>6 DEF W

\* A new element adds to a sum.
LEMMA SumAdd ==
  ASSUME NEW S, IsFiniteSet(S), NEW f, \A x \in S : f[x] \in Int, NEW y, y \notin S, f[y] \in Int
  PROVE  SumFunctionOnSet(f, S \cup {y}) = SumFunctionOnSet(f, S) + f[y]
  <1> DEFINE T == S \cup {y}
  <1>1. IsFiniteSet(T) /\ y \in T /\ (\A x \in T : f[x] \in Int) /\ T \ {y} = S
    BY FS_AddElement
  <1> HIDE DEF T
  <1>2. SumFunctionOnSet(f, T) = f[y] + SumFunctionOnSet(f, T \ {y})
    BY <1>1, SumRemove
  <1>3. SumFunctionOnSet(f, S) \in Int
    BY SumType
  <1> DEFINE a == SumFunctionOnSet(f, S)
             b == f[y]
  <1>4. SumFunctionOnSet(f, T) = b + a /\ a \in Int /\ b \in Int
    BY <1>1, <1>2, <1>3
  <1> HIDE DEF a, b
  <1>5. SumFunctionOnSet(f, T) = a + b
    BY <1>4
  <1> QED BY <1>5 DEF T, a, b

\* A sum depends on the values in its set only.
LEMMA SumCongruence ==
  ASSUME NEW S, IsFiniteSet(S), NEW f, \A x \in S : f[x] \in Int, NEW g, \A x \in S : g[x] = f[x]
  PROVE  SumFunctionOnSet(g, S) = SumFunctionOnSet(f, S)
  <1> DEFINE P == { s \in SUBSET S : SumFunctionOnSet(g, s) = SumFunctionOnSet(f, s) }
  <1>1. ASSUME NEW s \in SUBSET S, \A t \in SUBSET s : t # s => t \in P
        PROVE  s \in P
    <2>1. CASE s = {}
      BY <2>1, SumEmpty
    <2>2. CASE s # {}
      <3>1. PICK x \in s : TRUE
        BY <2>2
      <3>2. IsFiniteSet(s) /\ (\A y \in s : f[y] \in Int) /\ \A y \in s : g[y] \in Int
        BY FS_Subset
      <3>3. SumFunctionOnSet(f, s) = f[x] + SumFunctionOnSet(f, s \ {x})
        BY <3>2, SumRemove
      <3>4. SumFunctionOnSet(g, s) = g[x] + SumFunctionOnSet(g, s \ {x})
        BY <3>2, SumRemove
      <3>5. s \ {x} \in P
        BY <1>1, <3>1
      <3> QED BY <3>1, <3>3, <3>4, <3>5
    <2> QED BY <2>1, <2>2
  <1>2. SUBSET S \subseteq P
    <2> HIDE DEF P
    <2> QED BY <1>1, SubsetInduction
  <1> QED BY <1>2

\* A value that changes changes the sum by as much.
LEMMA SumUpdate ==
  ASSUME NEW S, IsFiniteSet(S), NEW f, NEW g, \A x \in S : f[x] \in Int /\ g[x] \in Int,
         NEW y \in S, \A x \in S : x # y => g[x] = f[x]
  PROVE  SumFunctionOnSet(g, S) = SumFunctionOnSet(f, S) - f[y] + g[y]
  <1> DEFINE T == S \ {y}
  <1>1. IsFiniteSet(T) /\ T \subseteq S /\ y \notin T
    BY FS_RemoveElement
  <1>2. SumFunctionOnSet(g, S) = g[y] + SumFunctionOnSet(g, T)
    BY SumRemove
  <1>3. SumFunctionOnSet(f, S) = f[y] + SumFunctionOnSet(f, T)
    BY SumRemove
  <1> HIDE DEF T
  <1>4. (\A x \in T : f[x] \in Int) /\ \A x \in T : g[x] = f[x]
    BY <1>1
  <1>5. SumFunctionOnSet(g, T) = SumFunctionOnSet(f, T)
    BY <1>1, <1>4, SumCongruence
  <1>6. SumFunctionOnSet(f, T) \in Int
    BY <1>1, <1>4, SumType
  <1> DEFINE a == f[y]
             b == g[y]
             c == SumFunctionOnSet(f, T)
  <1>7. a \in Int /\ b \in Int /\ c \in Int
    BY <1>6
  <1>8. SumFunctionOnSet(g, S) = b + c /\ SumFunctionOnSet(f, S) = a + c
    BY <1>2, <1>3, <1>5
  <1> HIDE DEF a, b, c
  <1>9. SumFunctionOnSet(g, S) = SumFunctionOnSet(f, S) - a + b
    BY <1>7, <1>8
  <1> QED BY <1>9 DEF a, b

\* Zeros add nothing.
LEMMA SumOfZeros ==
  ASSUME NEW S, IsFiniteSet(S), NEW f, \A x \in S : f[x] = 0
  PROVE  SumFunctionOnSet(f, S) = 0
  <1> DEFINE P == { s \in SUBSET S : SumFunctionOnSet(f, s) = 0 }
  <1>1. ASSUME NEW s \in SUBSET S, \A t \in SUBSET s : t # s => t \in P
        PROVE  s \in P
    <2>1. CASE s = {}
      BY <2>1, SumEmpty
    <2>2. CASE s # {}
      <3>1. PICK x \in s : TRUE
        BY <2>2
      <3>2. IsFiniteSet(s) /\ \A y \in s : f[y] \in Int
        BY FS_Subset
      <3>3. SumFunctionOnSet(f, s) = f[x] + SumFunctionOnSet(f, s \ {x})
        BY <3>2, SumRemove
      <3>4. s \ {x} \in P /\ f[x] = 0
        BY <1>1, <3>1
      <3> QED BY <3>3, <3>4
    <2> QED BY <2>1, <2>2
  <1>2. SUBSET S \subseteq P
    <2> HIDE DEF P
    <2> QED BY <1>1, SubsetInduction
  <1> QED BY <1>2

\* Elements whose value is 0 may be left out of a sum.
LEMMA SumDropZeros ==
  ASSUME NEW S, IsFiniteSet(S), NEW f, \A x \in S : f[x] \in Int,
         NEW T, T \subseteq S, \A x \in S : x \notin T => f[x] = 0
  PROVE  SumFunctionOnSet(f, T) = SumFunctionOnSet(f, S)
  <1> DEFINE P == { s \in SUBSET S : SumFunctionOnSet(f, s \cap T) = SumFunctionOnSet(f, s) }
  <1>1. ASSUME NEW s \in SUBSET S, \A t \in SUBSET s : t # s => t \in P
        PROVE  s \in P
    <2>0. /\ IsFiniteSet(s) /\ \A y \in s : f[y] \in Int
          /\ IsFiniteSet(s \cap T) /\ \A y \in s \cap T : f[y] \in Int
      BY FS_Subset
    <2>1. CASE s \subseteq T
      <3>1. s \cap T = s
        BY <2>1
      <3> QED BY <3>1
    <2>2. CASE ~(s \subseteq T)
      <3>1. PICK x \in s : x \notin T
        BY <2>2
      <3>2. SumFunctionOnSet(f, s) = f[x] + SumFunctionOnSet(f, s \ {x})
        BY <2>0, SumRemove
      <3>3. f[x] = 0 /\ s \ {x} \in P /\ (s \ {x}) \cap T = s \cap T
        BY <1>1, <3>1
      <3>4. SumFunctionOnSet(f, s \ {x}) = SumFunctionOnSet(f, s \cap T)
        BY <3>3
      <3>5. SumFunctionOnSet(f, s \cap T) \in Int
        BY <2>0, SumType
      <3>6. SumFunctionOnSet(f, s) = SumFunctionOnSet(f, s \cap T)
        BY <3>2, <3>3, <3>4, <3>5
      <3> QED BY <3>6
    <2> QED BY <2>1, <2>2
  <1>2. SUBSET S \subseteq P
    <2> HIDE DEF P
    <2> QED BY <1>1, SubsetInduction
  <1>3. S \in P /\ S \cap T = T
    BY <1>2
  <1> QED BY <1>3

\* A sum may be taken over other indices, if they name the same elements once.
LEMMA SumReindex ==
  ASSUME NEW S, IsFiniteSet(S), NEW f, \A x \in S : f[x] \in Int,
         NEW T, NEW h \in [S -> T], \A x, y \in S : h[x] = h[y] => x = y,
         \A t \in T : \E x \in S : h[x] = t,
         NEW g, \A x \in S : g[h[x]] = f[x]
  PROVE  SumFunctionOnSet(g, T) = SumFunctionOnSet(f, S)
  <1> DEFINE Im(s) == { h[x] : x \in s }
             P == { s \in SUBSET S : SumFunctionOnSet(g, Im(s)) = SumFunctionOnSet(f, s) /\ IsFiniteSet(Im(s)) }
  <1>1. ASSUME NEW s \in SUBSET S, \A t \in SUBSET s : t # s => t \in P
        PROVE  s \in P
    <2>1. CASE s = {}
      <3>1. Im(s) = {}
        BY <2>1
      <3> QED BY <2>1, <3>1, SumEmpty, FS_EmptySet
    <2>2. CASE s # {}
      <3>1. PICK x \in s : TRUE
        BY <2>2
      <3>2. IsFiniteSet(s) /\ \A y \in s : f[y] \in Int
        BY FS_Subset
      <3>3. SumFunctionOnSet(f, s) = f[x] + SumFunctionOnSet(f, s \ {x})
        BY <3>2, SumRemove
      <3> DEFINE t == s \ {x}
                 It == Im(t)
      <3>4. t \in P
        BY <1>1, <3>1
      <3>5. Im(s) = It \cup {h[x]} /\ h[x] \notin It /\ \A z \in It : g[z] \in Int
        OBVIOUS
      <3>6. IsFiniteSet(It) /\ g[h[x]] \in Int /\ g[h[x]] = f[x]
        BY <3>4
      <3>7. SumFunctionOnSet(g, It) = SumFunctionOnSet(f, t)
        BY <3>4
      <3> HIDE DEF It
      <3>8. SumFunctionOnSet(g, It \cup {h[x]}) = SumFunctionOnSet(g, It) + g[h[x]]
        BY <3>5, <3>6, SumAdd
      <3>9. SumFunctionOnSet(g, It) \in Int
        BY <3>5, <3>6, SumType
      <3>10. IsFiniteSet(It \cup {h[x]})
        BY <3>6, FS_AddElement
      <3> DEFINE a == SumFunctionOnSet(g, It)
                 b == g[h[x]]
      <3>11. SumFunctionOnSet(g, Im(s)) = a + b /\ SumFunctionOnSet(f, s) = b + a
        BY <3>3, <3>5, <3>6, <3>7, <3>8
      <3>12. a \in Int /\ b \in Int
        BY <3>6, <3>9
      <3> HIDE DEF a, b
      <3>13. SumFunctionOnSet(g, Im(s)) = SumFunctionOnSet(f, s)
        BY <3>11, <3>12
      <3>14. IsFiniteSet(Im(s))
        BY <3>5, <3>10
      <3> QED BY <3>13, <3>14
    <2> QED BY <2>1, <2>2
  <1>2. SUBSET S \subseteq P
    <2> HIDE DEF P
    <2> QED BY <1>1, SubsetInduction
  <1>3. S \in P
    BY <1>2
  <1>4. Im(S) = T
    <2>1. ASSUME NEW t \in Im(S) PROVE t \in T
      <3>1. PICK x \in S : t = h[x]
        BY <2>1
      <3> QED BY <3>1
    <2>2. ASSUME NEW t \in T PROVE t \in Im(S)
      <3>1. PICK x \in S : h[x] = t
        BY <2>2
      <3> QED BY <3>1
    <2> HIDE DEF Im
    <2> QED BY <2>1, <2>2
  <1>5. SumFunctionOnSet(g, Im(S)) = SumFunctionOnSet(f, S)
    BY <1>3
  <1> QED BY <1>4, <1>5, Zenon

\* Ones add up to the number of elements.
LEMMA SumOfOnes ==
  ASSUME NEW S, IsFiniteSet(S), NEW f, \A x \in S : f[x] = 1
  PROVE  SumFunctionOnSet(f, S) = Cardinality(S)
  <1> DEFINE P == { s \in SUBSET S : SumFunctionOnSet(f, s) = Cardinality(s) }
  <1>1. ASSUME NEW s \in SUBSET S, \A t \in SUBSET s : t # s => t \in P
        PROVE  s \in P
    <2>1. CASE s = {}
      BY <2>1, SumEmpty, FS_EmptySet
    <2>2. CASE s # {}
      <3>1. PICK x \in s : TRUE
        BY <2>2
      <3>2. IsFiniteSet(s) /\ \A y \in s : f[y] \in Int
        BY FS_Subset
      <3>3. SumFunctionOnSet(f, s) = f[x] + SumFunctionOnSet(f, s \ {x})
        BY <3>1, <3>2, SumRemove
      <3>4. Cardinality(s \ {x}) = Cardinality(s) - 1 /\ Cardinality(s) \in Nat
        BY <3>1, <3>2, FS_RemoveElement, FS_CardinalityType
      <3>5. s \ {x} \in P
        BY <1>1, <3>1
      <3> QED BY <3>1, <3>3, <3>4, <3>5
    <2> QED BY <2>1, <2>2
  <1> HIDE DEF P
  <1>2. S \in P
    BY <1>1, SubsetInduction
  <1> QED BY <1>2 DEF P

\* The sum of differences is the difference of the sums.
LEMMA SumDifference ==
  ASSUME NEW S, IsFiniteSet(S), NEW f, NEW g, \A x \in S : f[x] \in Int /\ g[x] \in Int,
         NEW d, \A x \in S : d[x] = f[x] - g[x]
  PROVE  SumFunctionOnSet(d, S) = SumFunctionOnSet(f, S) - SumFunctionOnSet(g, S)
  <1> DEFINE W(s) == SumFunctionOnSet(f, s) - SumFunctionOnSet(g, s)
             P == { s \in SUBSET S : SumFunctionOnSet(d, s) = W(s) }
  <1>1. ASSUME NEW s \in SUBSET S, \A t \in SUBSET s : t # s => t \in P
        PROVE  s \in P
    <2>1. CASE s = {}
      BY <2>1, SumEmpty
    <2>2. CASE s # {}
      <3>1. PICK x \in s : TRUE
        BY <2>2
      <3>2. /\ IsFiniteSet(s) /\ IsFiniteSet(s \ {x})
            /\ \A y \in s : f[y] \in Int /\ g[y] \in Int /\ d[y] \in Int
        BY FS_Subset
      <3>3. /\ SumFunctionOnSet(f, s) = f[x] + SumFunctionOnSet(f, s \ {x})
            /\ SumFunctionOnSet(g, s) = g[x] + SumFunctionOnSet(g, s \ {x})
            /\ SumFunctionOnSet(d, s) = d[x] + SumFunctionOnSet(d, s \ {x})
        BY <3>1, <3>2, SumRemove
      <3>4. SumFunctionOnSet(f, s \ {x}) \in Int /\ SumFunctionOnSet(g, s \ {x}) \in Int
        BY <3>2, SumType
      <3>5. s \ {x} \in P
        BY <1>1, <3>1
      <3> QED BY <3>1, <3>2, <3>3, <3>4, <3>5
    <2> QED BY <2>1, <2>2
  <1> HIDE DEF P
  <1>2. S \in P
    BY <1>1, SubsetInduction
  <1> QED BY <1>2 DEF P

\* The elements of S to which h gives the class c.
Class(S, h, c) == { x \in S : h[x] = c }

\* A sum can be made class by class: h gives every element its class.
LEMMA SumByClass ==
  ASSUME NEW S, IsFiniteSet(S), NEW f, \A x \in S : f[x] \in Int,
         NEW C, IsFiniteSet(C), NEW h, \A x \in S : h[x] \in C,
         NEW g, \A c \in C : g[c] = SumFunctionOnSet(f, Class(S, h, c))
  PROVE  SumFunctionOnSet(g, C) = SumFunctionOnSet(f, S)
  <1> DEFINE Of(s, c) == Class(s, h, c)
             G(s) == [c \in C |-> SumFunctionOnSet(f, Of(s, c))]
             P == { s \in SUBSET S : SumFunctionOnSet(G(s), C) = SumFunctionOnSet(f, s) }
  <1>0. ASSUME NEW s \in SUBSET S, NEW c \in C
        PROVE  /\ IsFiniteSet(Of(s, c)) /\ \A y \in Of(s, c) : f[y] \in Int
               /\ G(s)[c] = SumFunctionOnSet(f, Of(s, c)) /\ G(s)[c] \in Int
    <2>1. IsFiniteSet(Of(s, c)) /\ \A y \in Of(s, c) : f[y] \in Int
      BY FS_Subset DEF Class
    <2>2. SumFunctionOnSet(f, Of(s, c)) \in Int
      <3> HIDE DEF Of
      <3> QED BY <2>1, SumType
    <2> QED BY <2>1, <2>2
  <1>1. ASSUME NEW s \in SUBSET S, \A t \in SUBSET s : t # s => t \in P
        PROVE  s \in P
    <2>1. CASE s = {}
      <3>1. \A c \in C : G(s)[c] = 0
        <4>1. \A c \in C : Of(s, c) = {}
          BY <2>1 DEF Class
        <4> QED BY <4>1, SumEmpty
      <3>2. SumFunctionOnSet(G(s), C) = 0
        <4> HIDE DEF G
        <4> QED BY <3>1, SumOfZeros
      <3> QED BY <2>1, <3>2, SumEmpty
    <2>2. CASE s # {}
      <3>1. PICK x \in s : TRUE
        BY <2>2
      <3> DEFINE t == s \ {x}
                 k == h[x]
      <3>2. t \in SUBSET S /\ t \in P /\ k \in C /\ IsFiniteSet(s) /\ \A y \in s : f[y] \in Int
        BY <1>1, <3>1, FS_Subset
      <3>3. G(s)[k] = f[x] + G(t)[k]
        <4>1. x \in Of(s, k) /\ Of(s, k) \ {x} = Of(t, k)
          BY <3>1 DEF Class
        <4>2. IsFiniteSet(Of(s, k)) /\ \A y \in Of(s, k) : f[y] \in Int
          BY <1>0, <3>2
        <4>3. G(s)[k] = SumFunctionOnSet(f, Of(s, k)) /\ G(t)[k] = SumFunctionOnSet(f, Of(t, k))
          BY <3>2
        <4> HIDE DEF Of, G, t, k
        <4>4. SumFunctionOnSet(f, Of(s, k)) = f[x] + SumFunctionOnSet(f, Of(s, k) \ {x})
          BY <4>1, <4>2, SumRemove
        <4> QED BY <4>1, <4>3, <4>4
      <3>4. ASSUME NEW c \in C, c # k PROVE G(s)[c] = G(t)[c]
        <4>1. Of(s, c) = Of(t, c)
          BY <3>4 DEF Class
        <4> QED BY <4>1
      <3>5. \A c \in C : G(s)[c] \in Int /\ G(t)[c] \in Int
        BY <1>0, <3>2
      <3>6. SumFunctionOnSet(f, s) = f[x] + SumFunctionOnSet(f, t)
        BY <3>1, <3>2, SumRemove
      <3>7. SumFunctionOnSet(G(t), C) = SumFunctionOnSet(f, t)
        BY <3>2
      <3>8. SumFunctionOnSet(f, t) \in Int /\ f[x] \in Int /\ G(t)[k] \in Int
        <4>1. IsFiniteSet(t) /\ \A y \in t : f[y] \in Int
          BY <3>2, FS_Subset
        <4>2. SumFunctionOnSet(f, t) \in Int
          BY <4>1, SumType
        <4> QED BY <3>1, <3>2, <3>5, <4>2
      <3>9. SumFunctionOnSet(G(s), C) = SumFunctionOnSet(G(t), C) - G(t)[k] + G(s)[k]
        <4> HIDE DEF G, t, k
        <4> QED BY <3>2, <3>4, <3>5, SumUpdate
      <3>10. SumFunctionOnSet(G(s), C) = SumFunctionOnSet(f, s)
        <4> HIDE DEF G, t, k
        <4> QED BY <3>3, <3>6, <3>7, <3>8, <3>9
      <3> QED BY <3>10
    <2> QED BY <2>1, <2>2
  <1>2. S \in P
    <2> HIDE DEF P
    <2> QED BY <1>1, SubsetInduction
  <1>3. \A c \in C : G(S)[c] \in Int /\ g[c] = G(S)[c]
    BY <1>0
  <1>4. SumFunctionOnSet(g, C) = SumFunctionOnSet(G(S), C)
    <2> HIDE DEF G
    <2> QED BY <1>3, SumCongruence
  <1> QED BY <1>2, <1>4

\* The elements can be counted class by class.
LEMMA CountByClass ==
  ASSUME NEW S, IsFiniteSet(S), NEW C, IsFiniteSet(C), NEW h, \A x \in S : h[x] \in C,
         NEW g, \A c \in C : g[c] = Cardinality(Class(S, h, c))
  PROVE  SumFunctionOnSet(g, C) = Cardinality(S)
  <1> DEFINE one == [x \in S |-> 1]
  <1>1. \A x \in S : one[x] = 1
    OBVIOUS
  <1> HIDE DEF one
  <1>2. ASSUME NEW c \in C PROVE g[c] = SumFunctionOnSet(one, Class(S, h, c))
    <2> DEFINE s == Class(S, h, c)
    <2>1. IsFiniteSet(s) /\ \A x \in s : one[x] = 1
      BY <1>1, FS_Subset DEF Class
    <2> HIDE DEF s
    <2>2. SumFunctionOnSet(one, s) = Cardinality(s)
      BY <2>1, SumOfOnes
    <2> QED BY <2>2 DEF s
  <1>3. SumFunctionOnSet(one, S) = Cardinality(S)
    BY <1>1, SumOfOnes
  <1>4. \A x \in S : one[x] \in Int
    BY <1>1
  <1>5. SumFunctionOnSet(g, C) = SumFunctionOnSet(one, S)
    BY <1>2, <1>4, SumByClass
  <1> QED BY <1>3, <1>5

===========================================================================
