------------------------------ MODULE SumTheorems ------------------------------
(***************************************************************************)
(* Sums over finite sets, as the modules write them with the folds of the   *)
(* community modules.  The induction theorems of the library cannot be      *)
(* used, for they take an operator; these proofs take a smallest set among  *)
(* those that violate the claim, which the order of strict inclusion has.   *)
(***************************************************************************)
EXTENDS Integers, FiniteSets, Functions, FiniteSetTheorems, TLAPS

Sum(f, S) == FoldFunctionOnSet(+, 0, f, S)

Pick(s) == CHOOSE x \in s : TRUE
Rest(s) == s \ {Pick(s)}

\* The function that the definition of the fold computes with.
Adds(g, f, S) ==
    g = [s \in SUBSET S |-> IF s = {} THEN 0 ELSE f[Pick(s)] + g[Rest(s)]]

\* Every family of subsets of a finite set has one that is smallest in it.
LEMMA SmallestSet ==
    ASSUME NEW S, IsFiniteSet(S), NEW T, T \subseteq SUBSET S, T # {}
    PROVE  \E s \in T : \A r \in T : r \subseteq s => r = s
  <1>1. T \subseteq FiniteSubsetsOf(S)
    BY FS_Subset DEF FiniteSubsetsOf
  <1>2. IsWellFoundedOn(StrictSubsetOrdering(S), FiniteSubsetsOf(S))
    BY FS_StrictSubsetOrderingWellFounded
  <1>3. \E s \in T : \A r \in T : ~(<<r, s>> \in StrictSubsetOrdering(S))
    BY <1>1, <1>2, WFMin
  <1> QED  BY <1>3 DEF StrictSubsetOrdering

LEMMA PickRest ==
    ASSUME NEW s, s # {}
    PROVE  Pick(s) \in s /\ Rest(s) \subseteq s /\ Rest(s) # s
  BY DEF Pick, Rest

----------------------------------------------------------------------------
(* The fold is well defined *)

\* At most one function adds up the subsets of S.
LEMMA AddsUnique ==
    ASSUME NEW S, IsFiniteSet(S), NEW f, NEW g, NEW h, Adds(g, f, S), Adds(h, f, S)
    PROVE  g = h
  <1> DEFINE T == {s \in SUBSET S : g[s] # h[s]}
  <1>1. ASSUME T # {} PROVE FALSE
    <2>1. PICK s \in T : \A r \in T : r \subseteq s => r = s
      <3> HIDE DEF T
      <3>1. T \subseteq SUBSET S
        BY DEF T
      <3> QED  BY <1>1, <3>1, SmallestSet
    <2>2. s # {}
      BY DEF Adds
    <2>3. Rest(s) \in SUBSET S /\ Rest(s) \notin T
      BY <2>1, <2>2, PickRest
    <2>4. g[Rest(s)] = h[Rest(s)]
      BY <2>3
    <2> QED  BY <2>2, <2>4 DEF Adds
  <1>2. \A s \in SUBSET S : g[s] = h[s]
    BY <1>1
  <1>3. /\ g = [s \in SUBSET S |-> g[s]]
        /\ h = [s \in SUBSET S |-> h[s]]
    BY DEF Adds
  <1> QED  BY <1>2, <1>3

LEMMA AddsRestricted ==
    ASSUME NEW S, NEW f, NEW g, Adds(g, f, S), NEW R, R \subseteq S
    PROVE  Adds([s \in SUBSET R |-> g[s]], f, R)
  <1> DEFINE h == [s \in SUBSET R |-> g[s]]
  <1>1. ASSUME NEW s \in SUBSET R
        PROVE  h[s] = IF s = {} THEN 0 ELSE f[Pick(s)] + h[Rest(s)]
    <2>1. s \in SUBSET S /\ Rest(s) \in SUBSET R
      BY DEF Rest
    <2>2. g[s] = IF s = {} THEN 0 ELSE f[Pick(s)] + g[Rest(s)]
      BY <2>1 DEF Adds
    <2> QED  BY <2>1, <2>2
  <1> QED  BY <1>1 DEF Adds

\* A function that adds up the subsets of S exists.
LEMMA AddsExists ==
    ASSUME NEW S, IsFiniteSet(S), NEW f
    PROVE  \E g : Adds(g, f, S)
  <1> DEFINE T == {s \in SUBSET S : ~ \E g : Adds(g, f, s)}
             By(s) == CHOOSE g : Adds(g, f, s)
  <1>1. ASSUME T # {} PROVE FALSE
    <2>1. PICK U \in T : \A r \in T : r \subseteq U => r = U
      <3> HIDE DEF T
      <3>1. T \subseteq SUBSET S
        BY DEF T
      <3> QED  BY <1>1, <3>1, SmallestSet
    <2>2. \A s \in SUBSET U : s # U => Adds(By(s), f, s)
      <3> SUFFICES ASSUME NEW s \in SUBSET U, s # U PROVE Adds(By(s), f, s)
        OBVIOUS
      <3>1. s \in SUBSET S /\ s \notin T
        BY <2>1
      <3>2. \E g : Adds(g, f, s)
        BY <3>1
      <3> QED  BY <3>2
    <2> HIDE DEF By
    <2> DEFINE g == [s \in SUBSET U |->
                       IF s = {} THEN 0 ELSE f[Pick(s)] + By(Rest(s))[Rest(s)]]
    <2>3. ASSUME NEW s \in SUBSET U, s # U
          PROVE  By(s)[s] = g[s]
      <3>1. By(s)[s] = IF s = {} THEN 0 ELSE f[Pick(s)] + By(s)[Rest(s)]
        BY <2>2, <2>3 DEF Adds
      <3>2. CASE s # {}
        <4> DEFINE r == Rest(s)
                   h == [t \in SUBSET r |-> By(s)[t]]
        <4>1. r \in SUBSET U /\ r # U /\ r \subseteq s
          BY <2>3, <3>2, PickRest
        <4> HIDE DEF r
        <4>2. Adds(h, f, r)
          BY <2>2, <2>3, <4>1, AddsRestricted
        <4>3. Adds(By(r), f, r)
          BY <2>2, <4>1
        <4>4. IsFiniteSet(r)
          BY <4>1, FS_Subset
        <4>5. h = By(r)
          <5> HIDE DEF h
          <5> QED  BY <4>2, <4>3, <4>4, AddsUnique
        <4>6. h[r] = By(s)[r]
          OBVIOUS
        <4>7. By(s)[r] = By(r)[r]
          BY <4>5, <4>6
        <4> QED  BY <3>1, <3>2, <4>7 DEF r
      <3>3. CASE s = {}
        BY <3>1, <3>3
      <3> QED  BY <3>2, <3>3
    <2>4. ASSUME NEW s \in SUBSET U
          PROVE  g[s] = IF s = {} THEN 0 ELSE f[Pick(s)] + g[Rest(s)]
      <3>1. CASE s # {}
        <4>1. Rest(s) \in SUBSET U /\ Rest(s) # U
          BY <3>1, PickRest
        <4>2. By(Rest(s))[Rest(s)] = g[Rest(s)]
          BY <2>3, <4>1
        <4> HIDE DEF g
        <4>3. g[s] = f[Pick(s)] + By(Rest(s))[Rest(s)]
          BY <3>1 DEF g
        <4> QED  BY <3>1, <4>2, <4>3
      <3> QED  BY <3>1
    <2>5. g = [s \in SUBSET U |-> g[s]]
      OBVIOUS
    <2>6. Adds(g, f, U)
      <3> HIDE DEF g
      <3> QED  BY <2>4, <2>5 DEF Adds
    <2> HIDE DEF g
    <2> QED  BY <2>6
  <1>2. S \in SUBSET S /\ S \notin T
    BY <1>1
  <1> QED  BY <1>2

\* The function by which the sum is defined.
LEMMA SumBy ==
    ASSUME NEW f, NEW S, IsFiniteSet(S)
    PROVE  \E g : Adds(g, f, S) /\ Sum(f, S) = g[S]
  <1> DEFINE g == CHOOSE g : Adds(g, f, S)
  <1>1. Sum(f, S) = g[S]
    BY DEF Sum, FoldFunctionOnSet, MapThenFoldSet, Adds, Pick, Rest
  <1>2. Adds(g, f, S)
    <2>1. \E h : Adds(h, f, S)
      BY AddsExists
    <2> QED  BY <2>1
  <1> QED  BY <1>1, <1>2

----------------------------------------------------------------------------
(* Laws of sums *)

LEMMA SumEmpty == \A f : Sum(f, {}) = 0
  <1> SUFFICES ASSUME NEW f PROVE Sum(f, {}) = 0
    OBVIOUS
  <1>1. PICK g : Adds(g, f, {}) /\ Sum(f, {}) = g[{}]
    BY SumBy, FS_EmptySet
  <1> QED  BY <1>1 DEF Adds

LEMMA SumPicks ==
    ASSUME NEW f, NEW S, IsFiniteSet(S), S # {}
    PROVE  Sum(f, S) = f[Pick(S)] + Sum(f, Rest(S))
  <1> DEFINE R == Rest(S)
  <1>1. R \subseteq S /\ IsFiniteSet(R)
    BY PickRest, FS_Subset
  <1>2. PICK g : Adds(g, f, S) /\ Sum(f, S) = g[S]
    BY SumBy
  <1>3. PICK h : Adds(h, f, R) /\ Sum(f, R) = h[R]
    <2> HIDE DEF R
    <2> QED  BY <1>1, SumBy
  <1> DEFINE k == [s \in SUBSET R |-> g[s]]
  <1>4. Adds(k, f, R)
    <2> HIDE DEF R
    <2> QED  BY <1>1, <1>2, AddsRestricted
  <1>5. k = h
    <2> HIDE DEF R, k
    <2> QED  BY <1>1, <1>3, <1>4, AddsUnique
  <1>6. g[R] = h[R]
    <2>1. k[R] = g[R]
      OBVIOUS
    <2> HIDE DEF k, R
    <2> QED  BY <1>5, <2>1
  <1>7. g[S] = f[Pick(S)] + g[R]
    BY <1>2 DEF Adds
  <1> HIDE DEF R
  <1>8. Sum(f, S) = f[Pick(S)] + Sum(f, R)
    BY <1>2, <1>3, <1>6, <1>7
  <1> QED  BY <1>8 DEF R

\* A sum of integers is an integer, of natural numbers a natural number.
LEMMA SumType ==
    ASSUME NEW S, IsFiniteSet(S), NEW f
    PROVE  /\ (\A x \in S : f[x] \in Int) => Sum(f, S) \in Int
           /\ (\A x \in S : f[x] \in Nat) => Sum(f, S) \in Nat
  <1> SUFFICES ASSUME NEW N \in {Int, Nat}, \A x \in S : f[x] \in N
               PROVE  Sum(f, S) \in N
    BY Zenon
  <1> DEFINE T == {s \in SUBSET S : Sum(f, s) \notin N}
  <1>1. ASSUME T # {} PROVE FALSE
    <2>1. PICK s \in T : \A r \in T : r \subseteq s => r = s
      <3> HIDE DEF T
      <3>1. T \subseteq SUBSET S
        BY DEF T
      <3> QED  BY <1>1, <3>1, SmallestSet
    <2>2. s # {}
      BY SumEmpty
    <2>3. Sum(f, Rest(s)) \in N /\ f[Pick(s)] \in N
      BY <2>1, <2>2, PickRest
    <2>4. Sum(f, s) = f[Pick(s)] + Sum(f, Rest(s))
      BY <2>2, SumPicks, FS_Subset
    <2>5. Sum(f, s) \in N
      BY <2>3, <2>4
    <2> QED  BY <2>5
  <1> QED  BY <1>1

\* Any element may be taken out first.
LEMMA SumElement ==
    ASSUME NEW S, IsFiniteSet(S), NEW f, \A y \in S : f[y] \in Int, NEW x \in S
    PROVE  Sum(f, S) = f[x] + Sum(f, S \ {x})
  <1> DEFINE Splits(s, y) == Sum(f, s) = f[y] + Sum(f, s \ {y})
             T == {s \in SUBSET S : \E y \in s : ~Splits(s, y)}
  <1>1. ASSUME T # {} PROVE FALSE
    <2>1. PICK s \in T : \A r \in T : r \subseteq s => r = s
      <3> HIDE DEF T
      <3>1. T \subseteq SUBSET S
        BY DEF T
      <3> QED  BY <1>1, <3>1, SmallestSet
    <2>2. PICK y \in s : ~Splits(s, y)
      BY <2>1
    <2> DEFINE p == Pick(s)
    <2>3. p \in s /\ s \subseteq S
      BY <2>1, <2>2, PickRest
    <2>4. Splits(s, p)
      BY <2>2, <2>3, SumPicks, FS_Subset DEF Rest
    <2>5. y # p
      BY <2>2, <2>4
    <2> HIDE DEF p
    <2>6. s \ {p} \notin T /\ s \ {y} \notin T
      BY <2>1, <2>2, <2>3
    <2>7. Splits(s \ {p}, y) /\ Splits(s \ {y}, p)
      BY <2>2, <2>3, <2>5, <2>6
    <2>8. (s \ {p}) \ {y} = (s \ {y}) \ {p}
      OBVIOUS
    <2> DEFINE rest == (s \ {y}) \ {p}
    <2>9. Sum(f, rest) \in Int
      <3>1. rest \subseteq S /\ IsFiniteSet(rest) /\ \A z \in rest : f[z] \in Int
        BY <2>3, FS_Subset
      <3> HIDE DEF rest
      <3> QED  BY <3>1, SumType
    <2>10. f[p] \in Int /\ f[y] \in Int
      BY <2>2, <2>3
    <2>11. Sum(f, s) = f[p] + (f[y] + Sum(f, rest))
      BY <2>4, <2>7, <2>8
    <2>12. Sum(f, s \ {y}) = f[p] + Sum(f, rest)
      BY <2>7
    <2> HIDE DEF rest
    <2>13. Sum(f, s) = f[y] + Sum(f, s \ {y})
      BY <2>9, <2>10, <2>11, <2>12
    <2> QED  BY <2>2, <2>13
  <1> QED  BY <1>1

LEMMA SumSingleton ==
    ASSUME NEW f, NEW x, f[x] \in Int
    PROVE  Sum(f, {x}) = f[x]
  <1>1. IsFiniteSet({x}) /\ {x} \ {x} = {}
    BY FS_Singleton
  <1>2. Sum(f, {x}) = f[x] + Sum(f, {x} \ {x})
    BY <1>1, SumElement
  <1>3. {x} \ {x} = {}
    OBVIOUS
  <1> QED  BY <1>1, <1>2, <1>3, SumEmpty

\* A sum grows with its terms; equal terms have equal sums.
LEMMA SumMonotonic ==
    ASSUME NEW S, IsFiniteSet(S), NEW f, NEW g,
           \A x \in S : f[x] \in Int /\ g[x] \in Int /\ f[x] <= g[x]
    PROVE  Sum(f, S) <= Sum(g, S)
  <1> DEFINE T == {s \in SUBSET S : ~(Sum(f, s) <= Sum(g, s))}
  <1>1. ASSUME T # {} PROVE FALSE
    <2>1. PICK s \in T : \A r \in T : r \subseteq s => r = s
      <3> HIDE DEF T
      <3>1. T \subseteq SUBSET S
        BY DEF T
      <3> QED  BY <1>1, <3>1, SmallestSet
    <2>2. s # {}
      BY SumEmpty
    <2>3. Pick(s) \in S /\ Rest(s) \subseteq S /\ Rest(s) \notin T
      BY <2>1, <2>2, PickRest
    <2>4. IsFiniteSet(s) /\ IsFiniteSet(Rest(s))
      BY <2>3, FS_Subset
    <2>5. Sum(f, Rest(s)) \in Int /\ Sum(g, Rest(s)) \in Int
      BY <2>3, <2>4, SumType
    <2>6. Sum(f, Rest(s)) <= Sum(g, Rest(s))
      BY <2>3
    <2>7. /\ Sum(f, s) = f[Pick(s)] + Sum(f, Rest(s))
          /\ Sum(g, s) = g[Pick(s)] + Sum(g, Rest(s))
      BY <2>2, <2>4, SumPicks
    <2>8. f[Pick(s)] \in Int /\ g[Pick(s)] \in Int /\ f[Pick(s)] <= g[Pick(s)]
      BY <2>3
    <2>9. Sum(f, s) <= Sum(g, s)
      BY <2>5, <2>6, <2>7, <2>8
    <2> QED  BY <2>9
  <1> QED  BY <1>1

LEMMA SumSame ==
    ASSUME NEW S, IsFiniteSet(S), NEW f, NEW g,
           \A x \in S : f[x] \in Int /\ f[x] = g[x]
    PROVE  Sum(f, S) = Sum(g, S)
  <1>1. Sum(f, S) <= Sum(g, S) /\ Sum(g, S) <= Sum(f, S)
    BY SumMonotonic
  <1>2. Sum(f, S) \in Int /\ Sum(g, S) \in Int
    BY SumType
  <1> QED  BY <1>1, <1>2

\* One term changes.
LEMMA SumChange ==
    ASSUME NEW S, IsFiniteSet(S), NEW f, NEW g, \A y \in S : f[y] \in Int /\ g[y] \in Int,
           NEW x \in S, \A y \in S : y # x => g[y] = f[y]
    PROVE  Sum(g, S) = Sum(f, S) - f[x] + g[x]
  <1> DEFINE R == S \ {x}
  <1>1. IsFiniteSet(R) /\ \A y \in R : f[y] \in Int /\ g[y] \in Int /\ g[y] = f[y]
    BY FS_Subset
  <1>2. Sum(f, S) = f[x] + Sum(f, R) /\ Sum(g, S) = g[x] + Sum(g, R)
    BY SumElement
  <1> HIDE DEF R
  <1>3. Sum(f, R) = Sum(g, R) /\ Sum(f, R) \in Int
    BY <1>1, SumSame, SumType
  <1> QED  BY <1>2, <1>3

\* Two terms change.
LEMMA SumChangeTwo ==
    ASSUME NEW S, IsFiniteSet(S), NEW f, NEW g, \A z \in S : f[z] \in Int /\ g[z] \in Int,
           NEW x \in S, NEW y \in S, x # y, \A z \in S : z \notin {x, y} => g[z] = f[z]
    PROVE  Sum(g, S) = Sum(f, S) - f[x] - f[y] + g[x] + g[y]
  <1> DEFINE h == [z \in S |-> IF z = x THEN g[x] ELSE f[z]]
  <1>1. /\ \A z \in S : h[z] \in Int /\ (z # x => h[z] = f[z]) /\ (z # y => g[z] = h[z])
        /\ h[x] = g[x] /\ h[y] = f[y]
    OBVIOUS
  <1> HIDE DEF h
  <1>2. Sum(h, S) = Sum(f, S) - f[x] + h[x]
    BY <1>1, SumChange
  <1>3. Sum(g, S) = Sum(h, S) - h[y] + g[y]
    BY <1>1, SumChange
  <1>4. Sum(f, S) \in Int
    BY SumType
  <1> QED  BY <1>1, <1>2, <1>3, <1>4

\* Terms that are all the same.
LEMMA SumConstant ==
    ASSUME NEW S, IsFiniteSet(S), NEW c \in Int, NEW f, \A x \in S : f[x] = c
    PROVE  Sum(f, S) = c * Cardinality(S)
  <1> DEFINE T == {s \in SUBSET S : Sum(f, s) # c * Cardinality(s)}
  <1>1. ASSUME T # {} PROVE FALSE
    <2>1. PICK s \in T : \A r \in T : r \subseteq s => r = s
      <3> HIDE DEF T
      <3>1. T \subseteq SUBSET S
        BY DEF T
      <3> QED  BY <1>1, <3>1, SmallestSet
    <2>2. s # {}
      BY SumEmpty, FS_EmptySet
    <2>3. Pick(s) \in S /\ Pick(s) \in s /\ Rest(s) \subseteq S /\ Rest(s) \notin T
      BY <2>1, <2>2, PickRest
    <2>4. IsFiniteSet(s) /\ IsFiniteSet(Rest(s))
      BY <2>3, FS_Subset
    <2>5. Sum(f, s) = c + Sum(f, Rest(s)) /\ Sum(f, Rest(s)) = c * Cardinality(Rest(s))
      BY <2>2, <2>3, <2>4, SumPicks
    <2>6. Cardinality(Rest(s)) = Cardinality(s) - 1 /\ Cardinality(s) \in Nat
      BY <2>3, <2>4, FS_RemoveElement, FS_CardinalityType DEF Rest
    <2>7. ASSUME NEW n \in Nat PROVE c + c * (n - 1) = c * n
      OBVIOUS
    <2>8. Sum(f, s) = c * Cardinality(s)
      BY <2>5, <2>6, <2>7
    <2> QED  BY <2>8
  <1> QED  BY <1>1

\* The sum of two functions.
LEMMA SumAdds ==
    ASSUME NEW S, IsFiniteSet(S), NEW f, NEW g, NEW h,
           \A x \in S : f[x] \in Int /\ g[x] \in Int /\ h[x] = f[x] + g[x]
    PROVE  Sum(h, S) = Sum(f, S) + Sum(g, S)
  <1> DEFINE T == {s \in SUBSET S : Sum(h, s) # Sum(f, s) + Sum(g, s)}
  <1>1. ASSUME T # {} PROVE FALSE
    <2>1. PICK s \in T : \A r \in T : r \subseteq s => r = s
      <3> HIDE DEF T
      <3>1. T \subseteq SUBSET S
        BY DEF T
      <3> QED  BY <1>1, <3>1, SmallestSet
    <2>2. s # {}
      <3>1. s = {} => Sum(f, s) = 0 /\ Sum(g, s) = 0 /\ Sum(h, s) = 0
        BY SumEmpty
      <3>2. Sum(h, s) # Sum(f, s) + Sum(g, s)
        OBVIOUS
      <3> HIDE DEF T
      <3> QED  BY <3>1, <3>2
    <2>3. Pick(s) \in S /\ Rest(s) \subseteq S /\ Rest(s) \notin T
      BY <2>1, <2>2, PickRest
    <2>4. IsFiniteSet(s) /\ IsFiniteSet(Rest(s))
      BY <2>3, FS_Subset
    <2>5. Sum(f, Rest(s)) \in Int /\ Sum(g, Rest(s)) \in Int
      BY <2>3, <2>4, SumType
    <2>6. Sum(h, Rest(s)) = Sum(f, Rest(s)) + Sum(g, Rest(s))
      BY <2>3
    <2>7. /\ Sum(f, s) = f[Pick(s)] + Sum(f, Rest(s))
          /\ Sum(g, s) = g[Pick(s)] + Sum(g, Rest(s))
          /\ Sum(h, s) = h[Pick(s)] + Sum(h, Rest(s))
      BY <2>2, <2>4, SumPicks
    <2>8. /\ f[Pick(s)] \in Int /\ g[Pick(s)] \in Int
          /\ h[Pick(s)] = f[Pick(s)] + g[Pick(s)]
      BY <2>3
    <2>9. Sum(h, s) = Sum(f, s) + Sum(g, s)
      BY <2>5, <2>6, <2>7, <2>8
    <2> QED  BY <2>9
  <1> QED  BY <1>1

\* A multiple of a function.
LEMMA SumScaled ==
    ASSUME NEW S, IsFiniteSet(S), NEW c \in Int, NEW f, NEW g,
           \A x \in S : f[x] \in Int /\ g[x] = c * f[x]
    PROVE  Sum(g, S) = c * Sum(f, S)
  <1> DEFINE T == {s \in SUBSET S : Sum(g, s) # c * Sum(f, s)}
  <1>1. ASSUME T # {} PROVE FALSE
    <2>1. PICK s \in T : \A r \in T : r \subseteq s => r = s
      <3> HIDE DEF T
      <3>1. T \subseteq SUBSET S
        BY DEF T
      <3> QED  BY <1>1, <3>1, SmallestSet
    <2>2. s # {}
      <3>1. s = {} => Sum(f, s) = 0 /\ Sum(g, s) = 0
        BY SumEmpty
      <3>2. Sum(g, s) # c * Sum(f, s)
        OBVIOUS
      <3> HIDE DEF T
      <3> QED  BY <3>1, <3>2
    <2>3. Pick(s) \in S /\ Rest(s) \subseteq S /\ Rest(s) \notin T
      BY <2>1, <2>2, PickRest
    <2>4. IsFiniteSet(s) /\ IsFiniteSet(Rest(s))
      BY <2>3, FS_Subset
    <2>5. Sum(f, Rest(s)) \in Int /\ f[Pick(s)] \in Int
      BY <2>3, <2>4, SumType
    <2>6. Sum(g, Rest(s)) = c * Sum(f, Rest(s)) /\ g[Pick(s)] = c * f[Pick(s)]
      BY <2>3
    <2>7. /\ Sum(f, s) = f[Pick(s)] + Sum(f, Rest(s))
          /\ Sum(g, s) = g[Pick(s)] + Sum(g, Rest(s))
      BY <2>2, <2>4, SumPicks
    <2>8. ASSUME NEW m \in Int, NEW n \in Int PROVE c * m + c * n = c * (m + n)
      OBVIOUS
    <2>9. Sum(g, s) = c * Sum(f, s)
      BY <2>5, <2>6, <2>7, <2>8
    <2> QED  BY <2>9
  <1> QED  BY <1>1

\* A sum is made of the sums over two disjoint parts.
LEMMA SumParts ==
    ASSUME NEW S, IsFiniteSet(S), NEW f, \A x \in S : f[x] \in Int,
           NEW A, A \subseteq S
    PROVE  Sum(f, S) = Sum(f, A) + Sum(f, S \ A)
  <1> DEFINE Splits(s) == Sum(f, s) = Sum(f, s \cap A) + Sum(f, s \ A)
             T == {s \in SUBSET S : ~Splits(s)}
  <1>1. ASSUME T # {} PROVE FALSE
    <2>1. PICK s \in T : \A r \in T : r \subseteq s => r = s
      <3> HIDE DEF T
      <3>1. T \subseteq SUBSET S
        BY DEF T
      <3> QED  BY <1>1, <3>1, SmallestSet
    <2>2. s # {}
      <3>1. s = {} => s \cap A = {} /\ s \ A = {} /\ Sum(f, {}) = 0
        BY SumEmpty
      <3>2. s = {} => Sum(f, s) = 0 /\ Sum(f, s \cap A) = 0 /\ Sum(f, s \ A) = 0
        BY <3>1
      <3>3. Sum(f, s) # Sum(f, s \cap A) + Sum(f, s \ A)
        OBVIOUS
      <3> HIDE DEF T
      <3> QED  BY <3>2, <3>3
    <2> DEFINE p == Pick(s)
               r == s \ {p}
    <2>3. p \in S /\ p \in s /\ r \subseteq S /\ r \notin T /\ s \subseteq S
      BY <2>1, <2>2, PickRest DEF Rest
    <2>4. Sum(f, s) = f[p] + Sum(f, r)
      BY <2>2, <2>3, FS_Subset, SumPicks DEF Rest
    <2>5. \A t \in SUBSET S : IsFiniteSet(t) /\ Sum(f, t) \in Int
      <3> SUFFICES ASSUME NEW t \in SUBSET S PROVE IsFiniteSet(t) /\ Sum(f, t) \in Int
        OBVIOUS
      <3>1. IsFiniteSet(t)
        BY FS_Subset
      <3> QED  BY <3>1, SumType
    <2> HIDE DEF p
    <2>6. f[p] \in Int /\ Sum(f, r) = Sum(f, r \cap A) + Sum(f, r \ A)
      BY <2>3
    <2>7. \A t \in SUBSET S : p \in t => Sum(f, t) = f[p] + Sum(f, t \ {p})
      <3> SUFFICES ASSUME NEW t \in SUBSET S, p \in t
                   PROVE  Sum(f, t) = f[p] + Sum(f, t \ {p})
        OBVIOUS
      <3>1. IsFiniteSet(t) /\ \A y \in t : f[y] \in Int
        BY <2>5
      <3> QED  BY <3>1, SumElement
    <2>8. Splits(s)
      <3> DEFINE in == s \cap A
                 out == s \ A
      <3>1. /\ in \in SUBSET S /\ out \in SUBSET S
            /\ Sum(f, r \cap A) \in Int /\ Sum(f, r \ A) \in Int
        BY <2>3, <2>5
      <3>2. CASE p \in A
        <4>1. in \ {p} = r \cap A /\ out = r \ A /\ p \in in
          BY <2>3, <3>2
        <4>2. Sum(f, in) = f[p] + Sum(f, r \cap A)
          <5> HIDE DEF in, out, r
          <5> QED  BY <2>7, <3>1, <4>1
        <4> HIDE DEF in, out, r
        <4>3. Sum(f, s) = Sum(f, in) + Sum(f, out)
          BY <2>4, <2>6, <3>1, <4>1, <4>2
        <4> QED  BY <4>3 DEF in, out
      <3>3. CASE p \notin A
        <4>1. in = r \cap A /\ out \ {p} = r \ A /\ p \in out
          BY <2>3, <3>3
        <4>2. Sum(f, out) = f[p] + Sum(f, r \ A)
          <5> HIDE DEF in, out, r
          <5> QED  BY <2>7, <3>1, <4>1
        <4> HIDE DEF in, out, r
        <4>3. Sum(f, s) = Sum(f, in) + Sum(f, out)
          BY <2>4, <2>6, <3>1, <4>1, <4>2
        <4> QED  BY <4>3 DEF in, out
      <3> QED  BY <3>2, <3>3
    <2> HIDE DEF Splits
    <2> QED  BY <2>8
  <1>2. Splits(S)
    BY <1>1
  <1>3. S \cap A = A
    OBVIOUS
  <1> QED  BY <1>2, <1>3

\* Terms that are not negative: a part is no more than the whole.
LEMMA SumOfPart ==
    ASSUME NEW S, IsFiniteSet(S), NEW f, \A x \in S : f[x] \in Nat,
           NEW A, A \subseteq S
    PROVE  Sum(f, A) <= Sum(f, S)
  <1>1. Sum(f, S) = Sum(f, A) + Sum(f, S \ A)
    BY SumParts
  <1>2. IsFiniteSet(A) /\ IsFiniteSet(S \ A)
    BY FS_Subset
  <1>3. Sum(f, A) \in Nat /\ Sum(f, S \ A) \in Nat
    <2>1. (\A x \in A : f[x] \in Nat) /\ (\A x \in S \ A : f[x] \in Nat)
      OBVIOUS
    <2> QED  BY <1>2, <2>1, SumType
  <1> QED  BY <1>1, <1>3

LEMMA SumOfMember ==
    ASSUME NEW S, IsFiniteSet(S), NEW f, \A x \in S : f[x] \in Nat, NEW y \in S
    PROVE  f[y] <= Sum(f, S)
  <1>1. Sum(f, {y}) <= Sum(f, S)
    BY SumOfPart
  <1>2. Sum(f, {y}) = f[y]
    BY SumSingleton
  <1> QED  BY <1>1, <1>2

\* A sum over consecutive numbers, moved up by one.
LEMMA SumShifted ==
    ASSUME NEW n \in Nat, NEW f, \A i \in 0 .. n : f[i] \in Int,
           NEW g, g[0] = 0, \A i \in 1 .. n : g[i] = f[i - 1]
    PROVE  Sum(g, 0 .. n) = Sum(f, 0 .. n) - f[n]
  <1> DEFINE Upto(m) == 0 .. m
             Good(m) == Sum(g, Upto(m)) = Sum(f, Upto(m)) - f[m]
             T == {s \in SUBSET Upto(n) : \E m \in 0 .. n : s = Upto(m) /\ ~Good(m)}
  <1>1. ASSUME NEW i \in 0 .. n PROVE f[i] \in Int /\ g[i] \in Int
    <2>1. CASE i = 0
      BY <2>1
    <2>2. CASE i # 0
      <3>1. i \in 1 .. n /\ i - 1 \in 0 .. n
        BY <2>2
      <3> QED  BY <3>1
    <2> QED  BY <2>1, <2>2
  <1>2. \A m \in 0 .. n : Upto(m) \subseteq 0 .. n /\ IsFiniteSet(Upto(m))
    BY FS_Interval
  <1>3. ASSUME T # {} PROVE FALSE
    <2>1. PICK s \in T : \A r \in T : r \subseteq s => r = s
      <3>1. T \subseteq SUBSET Upto(n) /\ IsFiniteSet(Upto(n))
        BY <1>2
      <3> HIDE DEF T, Upto
      <3> QED  BY <1>3, <3>1, SmallestSet
    <2>2. PICK m \in 0 .. n : s = Upto(m) /\ ~Good(m)
      OBVIOUS
    <2> HIDE DEF T
    <2>3. m # 0
      <3>1. Upto(0) = {0} /\ f[0] \in Int
        BY <1>1
      <3>2. Sum(g, {0}) = 0 /\ Sum(f, {0}) = f[0]
        BY <3>1, SumSingleton
      <3>3. Good(0)
        <4> HIDE DEF Upto
        <4> QED  BY <3>1, <3>2
      <3> QED  BY <2>2, <3>3
    <2>4. m - 1 \in 0 .. n /\ Upto(m) \ {m} = Upto(m - 1) /\ m \in 1 .. n /\ m \in Upto(m)
      BY <2>3
    <2>5. Upto(m - 1) \subseteq s /\ Upto(m - 1) # s /\ Upto(m - 1) \in SUBSET Upto(n)
      BY <2>2, <2>4
    <2> HIDE DEF Upto
    <2>6. Good(m - 1)
      <3>1. Upto(m - 1) \notin T
        BY <2>1, <2>5
      <3> HIDE DEF Good
      <3> QED  BY <2>4, <2>5, <3>1 DEF T
    <2>7. /\ Sum(f, Upto(m)) = f[m] + Sum(f, Upto(m - 1))
          /\ Sum(g, Upto(m)) = g[m] + Sum(g, Upto(m - 1))
      <3>1. /\ \A i \in Upto(m) : f[i] \in Int /\ g[i] \in Int
            /\ IsFiniteSet(Upto(m))
        BY <1>1, <1>2
      <3> QED  BY <2>4, <3>1, SumElement
    <2>8. Sum(f, Upto(m - 1)) \in Int /\ f[m] \in Int /\ f[m - 1] \in Int
      <3>1. \A i \in Upto(m - 1) : f[i] \in Int
        BY <1>1, <1>2, <2>4
      <3> QED  BY <1>1, <1>2, <2>4, <3>1, SumType
    <2>9. Good(m)
      BY <2>4, <2>6, <2>7, <2>8
    <2> QED  BY <2>2, <2>9
  <1>4. Upto(n) \in SUBSET Upto(n) /\ n \in 0 .. n
    OBVIOUS
  <1> HIDE DEF Upto
  <1>5. Good(n)
    <2> HIDE DEF Good
    <2> QED  BY <1>3, <1>4
  <1> QED  BY <1>5 DEF Upto
=============================================================================
