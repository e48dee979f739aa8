--------------------------------- MODULE Counting ---------------------------------
(***************************************************************************)
(* Counting in finite sets.  The rank of a number in a finite set is how   *)
(* many of the set are below it: what is numbered, or laid out, by rank    *)
(* has no gaps.  A finite sum of naturals is a number of units: it does    *)
(* not depend on the order it is added up in, so that a sum of sums may be *)
(* exchanged, or added up over places numbered anew.  Lists laid one after *)
(* another in one: what stands at a place is at its place in one of them.  *)
(***************************************************************************)
EXTENDS Rows, Functions, SequencesExt, FiniteSetTheorems, SequenceTheorems, TLAPS

\* The numbers of S below n: their count is the rank of n in S.
Below(n, S) == {m \in S : m < n}

\* The rank of a number of a finite set is a natural, and grows with the number.
LEMMA RankGrows ==
    ASSUME NEW S, S \subseteq Nat, IsFiniteSet(S), NEW a \in S, NEW b \in S, a < b
    PROVE  /\ Cardinality(Below(a, S)) \in Nat /\ Cardinality(Below(b, S)) \in Nat
           /\ Cardinality(Below(a, S)) < Cardinality(Below(b, S))
<1>1. Below(a, S) \in SUBSET Below(b, S) /\ a \in Below(b, S) /\ a \notin Below(a, S)
  <2>1. a \in Nat /\ b \in Nat /\ ~(a < a)
    OBVIOUS
  <2>2. \A x \in S : x < a => x < b
    BY <2>1
  <2>3. QED
    BY <2>1, <2>2 DEF Below
<1>2. Below(b, S) \in SUBSET S
  BY DEF Below
<1>3. IsFiniteSet(Below(b, S))
  BY <1>2, FS_Subset
<1>4. /\ IsFiniteSet(Below(a, S)) /\ Cardinality(Below(a, S)) <= Cardinality(Below(b, S))
      /\ Cardinality(Below(b, S)) = Cardinality(Below(a, S)) => Below(b, S) = Below(a, S)
  BY <1>1, <1>3, FS_Subset
<1>5. Cardinality(Below(a, S)) \in Nat /\ Cardinality(Below(b, S)) \in Nat
  BY <1>3, <1>4, FS_CardinalityType
<1>6. Below(b, S) # Below(a, S)
  BY <1>1
<1>7. Cardinality(Below(b, S)) # Cardinality(Below(a, S))
  BY <1>4, <1>6
<1>8. QED
  BY <1>4, <1>5, <1>7

\* The ranks in a finite set of numbers have no gaps: below an element of rank j
\* there is one of every smaller rank.
LEMMA RanksHaveNoGaps ==
    ASSUME NEW S, S \subseteq Nat, IsFiniteSet(S), NEW n \in S,
           NEW j \in 0..Cardinality(Below(n, S))
    PROVE  \E m \in S : Cardinality(Below(m, S)) = j
<1> DEFINE T == Below(n, S) \union {n}
           c == Cardinality(Below(n, S))
           f == [m \in T |-> Cardinality(Below(m, S))]
<1>1. Below(n, S) \in SUBSET S /\ n \notin Below(n, S)
  BY DEF Below
<1>2. IsFiniteSet(Below(n, S)) /\ c \in Nat
  BY <1>1, FS_Subset, FS_CardinalityType
<1>3. IsFiniteSet(T) /\ Cardinality(T) = c + 1
  BY <1>1, <1>2, FS_AddElement
<1>4. T \subseteq S /\ T \subseteq Nat /\ \A m \in T : m = n \/ m < n
  BY DEF Below
<1>5. \A m \in T : Cardinality(Below(m, S)) \in 0..c
  <2> SUFFICES ASSUME NEW m \in T
               PROVE  Cardinality(Below(m, S)) \in 0..c
    OBVIOUS
  <2>1. CASE m = n
    BY <1>2, <2>1
  <2>2. CASE m < n
    <3>1. m \in S
      BY <1>4
    <3>2. Cardinality(Below(m, S)) \in Nat /\ Cardinality(Below(m, S)) < c
      BY <2>2, <3>1, RankGrows
    <3>3. QED
      BY <1>2, <3>2
  <2>3. QED
    BY <1>4, <2>1, <2>2
<1> HIDE DEF T, c
<1>6. f \in Injection(T, 0..c)
  <2>1. f \in [T -> 0..c]
    BY <1>5
  <2>2. ASSUME NEW a \in T, NEW b \in T, f[a] = f[b]
        PROVE  a = b
    <3>1. a \in S /\ b \in S /\ a \in Nat /\ b \in Nat
      BY <1>4
    <3>2. Cardinality(Below(a, S)) = Cardinality(Below(b, S))
      BY <2>2
    <3>3. ASSUME NEW x \in S, NEW y \in S, x < y
          PROVE  Cardinality(Below(x, S)) # Cardinality(Below(y, S))
      <4>1. /\ Cardinality(Below(x, S)) \in Nat /\ Cardinality(Below(y, S)) \in Nat
            /\ Cardinality(Below(x, S)) < Cardinality(Below(y, S))
        BY <3>3, RankGrows
      <4>2. QED
        BY <4>1
    <3>4. ~(a < b) /\ ~(b < a)
      BY <3>1, <3>2, <3>3
    <3>5. QED
      BY <3>1, <3>4
  <2> HIDE DEF f
  <2>3. QED
    BY <2>1, <2>2 DEF Injection, IsInjective
<1>7. IsFiniteSet(0..c) /\ Cardinality(0..c) = c + 1
  BY <1>2, FS_Interval
<1>8. f \in Surjection(T, 0..c)
  <2> HIDE DEF f
  <2>1. QED
    BY <1>3, <1>6, <1>7, FS_Injection
<1>9. PICK m \in T : f[m] = j
  BY <1>8 DEF Surjection, c
<1>10. QED
  BY <1>4, <1>9

\* A finite set of numbers below b has an element of every rank below its size.
LEMMA EveryRankIsTaken ==
    ASSUME NEW b \in Nat, NEW S, S \subseteq Nat, IsFiniteSet(S), \A m \in S : m < b,
           NEW i \in 1..Cardinality(S)
    PROVE  \E k \in S : Cardinality(Below(k, S)) = i - 1
<1> DEFINE T == S \union {b}
<1>1. Cardinality(S) \in Nat
  BY FS_CardinalityType
<1>2. IsFiniteSet(T) /\ T \subseteq Nat /\ b \in T
  BY FS_AddElement
<1>3. Below(b, T) = S /\ \A m \in S : Below(m, T) = Below(m, S)
  <2>1. \A m \in T : m < b <=> m \in S
    OBVIOUS
  <2>2. Below(b, T) = S
    BY <2>1 DEF Below
  <2>3. ASSUME NEW m \in S PROVE Below(m, T) = Below(m, S)
    <3>1. \A k \in T : k < m => k \in S
      BY <2>3
    <3> HIDE DEF T
    <3>2. S \subseteq T
      BY DEF T
    <3>3. QED
      BY <3>1, <3>2 DEF Below
  <2>4. QED
    BY <2>2, <2>3
<1>4. i - 1 \in 0..Cardinality(Below(b, T))
  BY <1>1, <1>3
<1> HIDE DEF T
<1>5. PICK m \in T : Cardinality(Below(m, T)) = i - 1
  BY <1>2, <1>4, RanksHaveNoGaps
<1>6. m # b
  BY <1>1, <1>3, <1>5
<1>7. m \in S
  BY <1>5, <1>6 DEF T
<1>8. QED
  BY <1>3, <1>5, <1>7

-----------------------------------------------------------------------------
(* Sums.                                                                   *)

\* What holds of every set it holds of with one element less, whichever that is,
\* holds of the finite ones; P is the set of the sets it holds of.
LEMMA FiniteInduction ==
    ASSUME NEW S, IsFiniteSet(S), NEW P,
           \A T \in SUBSET S : (\A x \in T : T \ {x} \in P) => T \in P
    PROVE  S \in P
<1> DEFINE F == FiniteSubsetsOf(S)
           R == StrictSubsetOrdering(S)
<1>1. S \in F /\ \A T \in F : T \subseteq S /\ \A x \in T : T \ {x} \in F
  <2>1. \A T \in SUBSET S : IsFiniteSet(T)
    BY FS_Subset
  <2>2. QED
    BY <2>1 DEF FiniteSubsetsOf
<1>2. \A T \in F : \A x \in T : <<T \ {x}, T>> \in R
  <2>1. SUFFICES ASSUME NEW T \in F, NEW x \in T PROVE <<T \ {x}, T>> \in R
    OBVIOUS
  <2>2. T \subseteq S /\ T \ {x} \subseteq S /\ T \ {x} # T
    BY <1>1
  <2>3. QED
    BY <2>2 DEF StrictSubsetOrdering
<1>3. IsWellFoundedOn(R, F)
  BY FS_StrictSubsetOrderingWellFounded
<1> HIDE DEF F, R
<1>4. SUFFICES ASSUME F \ P # {} PROVE FALSE
  BY <1>1
<1>5. PICK T \in F \ P : \A U \in F \ P : ~(<<U, T>> \in R)
  BY <1>3, <1>4, WFMin
<1>6. \A x \in T : T \ {x} \in P
  BY <1>1, <1>2, <1>5
<1>7. QED
  BY <1>1, <1>5, <1>6

\* The units a function to the naturals counts: their number is its sum.
Units(f) == {c \in (DOMAIN f) \X (Nat \ {0}) : c[2] <= f[c[1]]}
UnitsOver(f, s) == {c \in Units(f) : c[1] \in s}

\* One place has as many units as the function says, and they are apart from the rest.
LEMMA UnitsOfOne ==
    ASSUME NEW D, NEW f \in [D -> Nat], NEW x \in D
    PROVE  IsFiniteSet(UnitsOver(f, {x})) /\ Cardinality(UnitsOver(f, {x})) = f[x]
<1> DEFINE h == [i \in 1..f[x] |-> <<x, i>>]
<1>1. f[x] \in Nat
  OBVIOUS
<1>2. h \in Surjection(1..f[x], UnitsOver(f, {x}))
  <2>1. \A i \in 1..f[x] : h[i] \in UnitsOver(f, {x})
    BY <1>1 DEF UnitsOver, Units
  <2>2. \A c \in UnitsOver(f, {x}) : c[2] \in 1..f[x] /\ c = h[c[2]]
    BY <1>1 DEF UnitsOver, Units
  <2> HIDE DEF h
  <2>3. DOMAIN h = 1..f[x]
    BY DEF h
  <2>4. h \in [1..f[x] -> UnitsOver(f, {x})]
    BY <2>1, <2>3 DEF h
  <2>5. QED
    BY <2>2, <2>4 DEF Surjection
<1>3. h \in Injection(1..f[x], UnitsOver(f, {x}))
  BY <1>2 DEF Surjection, Injection, IsInjective
<1>4. IsFiniteSet(1..f[x]) /\ Cardinality(1..f[x]) = f[x]
  BY <1>1, FS_Interval
<1> HIDE DEF h
<1>5. QED
  BY <1>2, <1>3, <1>4, FS_Surjection

\* The units over a finite set are finitely many; one place more adds its own.
LEMMA UnitsAdd ==
    ASSUME NEW D, NEW f \in [D -> Nat], NEW s \in SUBSET D, IsFiniteSet(s)
    PROVE  /\ IsFiniteSet(UnitsOver(f, s)) /\ Cardinality(UnitsOver(f, s)) \in Nat
           /\ UnitsOver(f, {}) = {}
           /\ \A x \in s : Cardinality(UnitsOver(f, s)) = f[x] + Cardinality(UnitsOver(f, s \ {x}))
<1>1. UnitsOver(f, {}) = {}
  BY DEF UnitsOver
<1>2. ASSUME NEW t \in SUBSET s, NEW x \in t
      PROVE  /\ UnitsOver(f, t) = UnitsOver(f, t \ {x}) \union UnitsOver(f, {x})
             /\ UnitsOver(f, t \ {x}) \intersect UnitsOver(f, {x}) = {}
  BY DEF UnitsOver
<1>3. \A x \in s : IsFiniteSet(UnitsOver(f, {x})) /\ Cardinality(UnitsOver(f, {x})) = f[x]
  BY UnitsOfOne
<1>4. \A t \in SUBSET s : IsFiniteSet(UnitsOver(f, t))
  <2> DEFINE P == {t \in SUBSET s : IsFiniteSet(UnitsOver(f, t))}
  <2>1. {} \in P
    BY <1>1, FS_EmptySet
  <2>2. ASSUME NEW t \in SUBSET s, \A x \in t : t \ {x} \in P PROVE t \in P
    <3>1. CASE t = {}
      BY <2>1, <3>1
    <3>2. ASSUME NEW x \in t PROVE t \in P
      <4>1. IsFiniteSet(UnitsOver(f, t \ {x}) \union UnitsOver(f, {x}))
        BY <1>3, <2>2, FS_Union
      <4>2. QED
        BY <1>2, <4>1
    <3>3. QED
      BY <3>1, <3>2
  <2>3. ASSUME NEW t \in SUBSET s PROVE t \in P
    <3>1. IsFiniteSet(t)
      BY FS_Subset
    <3>2. \A r \in SUBSET t : (\A x \in r : r \ {x} \in P) => r \in P
      BY <2>2
    <3> HIDE DEF P
    <3>3. QED
      BY <3>1, <3>2, FiniteInduction
  <2>4. QED
    BY <2>3
<1>5. ASSUME NEW x \in s
      PROVE  Cardinality(UnitsOver(f, s)) = f[x] + Cardinality(UnitsOver(f, s \ {x}))
  <2>1. IsFiniteSet(UnitsOver(f, s \ {x})) /\ Cardinality(UnitsOver(f, s \ {x})) \in Nat
    BY <1>4, FS_CardinalityType
  <2> DEFINE A == UnitsOver(f, s \ {x})
             B == UnitsOver(f, {x})
  <2>2. Cardinality(A \union B) = Cardinality(A) + Cardinality(B) - Cardinality(A \intersect B)
    BY <1>3, <2>1, FS_Union
  <2>3. Cardinality({}) = 0 /\ f[x] \in Nat /\ Cardinality(B) = f[x] /\ Cardinality(A) \in Nat
    BY <1>3, <2>1, FS_EmptySet
  <2>4. UnitsOver(f, s) = A \union B /\ A \intersect B = {}
    BY <1>2
  <2> HIDE DEF A, B
  <2>5. /\ Cardinality(UnitsOver(f, s)) = Cardinality(A \union B)
        /\ Cardinality(A \intersect B) = Cardinality({})
    BY ONLY <2>4, Zenon
  <2>6. Cardinality(UnitsOver(f, s)) = f[x] + Cardinality(A)
    BY ONLY <2>2, <2>3, <2>5, SMT
  <2>7. QED
    BY <2>6 DEF A
<1>6. IsFiniteSet(UnitsOver(f, s)) /\ Cardinality(UnitsOver(f, s)) \in Nat
  BY <1>4, FS_CardinalityType
<1>7. QED
  BY <1>1, <1>5, <1>6

\* The fold of the library, spelled out.
Pick(s) == CHOOSE x \in s : TRUE
Folded(f, D) ==
    CHOOSE g : g = [s \in SUBSET D |-> IF s = {} THEN 0 ELSE f[Pick(s)] + g[s \ {Pick(s)}]]

LEMMA SumUnfolds ==
    ASSUME NEW f, NEW D
    PROVE  SumFunctionOnSet(f, D) = Folded(f, D)[D]
BY DEF SumFunctionOnSet, FoldFunctionOnSet, MapThenFoldSet, Folded, Pick

\* Folding with + counts the units, whatever the order.
LEMMA SumCounts ==
    ASSUME NEW D, IsFiniteSet(D), NEW f \in [D -> Nat]
    PROVE  SumFunction(f) = Cardinality(UnitsOver(f, D))
<1> DEFINE pick(s) == CHOOSE x \in s : TRUE
           Folds(g) == g = [s \in SUBSET D |-> IF s = {} THEN 0 ELSE f[pick(s)] + g[s \ {pick(s)}]]
           G == [s \in SUBSET D |-> Cardinality(UnitsOver(f, s))]
           g == CHOOSE h : Folds(h)
<1>1. SumFunction(f) = g[D]
  <2>1. DOMAIN f = D
    OBVIOUS
  <2>2. SumFunction(f) = Folded(f, D)[D]
    BY <2>1, SumUnfolds DEF SumFunction
  <2>3. QED
    BY <2>2 DEF Folded, Pick
<1>2. \A s \in SUBSET D : s # {} => pick(s) \in s
  OBVIOUS
<1> HIDE DEF pick
<1>3. \A s \in SUBSET D : G[s] = IF s = {} THEN 0 ELSE f[pick(s)] + G[s \ {pick(s)}]
  <2>1. SUFFICES ASSUME NEW s \in SUBSET D
                 PROVE  G[s] = IF s = {} THEN 0 ELSE f[pick(s)] + G[s \ {pick(s)}]
    OBVIOUS
  <2>2. IsFiniteSet(s)
    BY FS_Subset
  <2>3. CASE s = {}
    BY <2>2, <2>3, UnitsAdd, FS_EmptySet
  <2>4. CASE s # {}
    BY <1>2, <2>2, <2>4, UnitsAdd
  <2>5. QED
    BY <2>3, <2>4
<1>4. Folds(G)
  <2>1. DOMAIN G = SUBSET D
    OBVIOUS
  <2>2. G = [s \in SUBSET D |-> G[s]]
    OBVIOUS
  <2> HIDE DEF G
  <2>3. QED
    BY <1>3, <2>2
<1>5. Folds(g)
  <2> HIDE DEF G
  <2>1. \E h : Folds(h)
    BY <1>4
  <2> HIDE DEF Folds
  <2>2. QED
    BY <2>1
<1> HIDE DEF g, G
<1>6. \A s \in SUBSET D : g[s] = IF s = {} THEN 0 ELSE f[pick(s)] + g[s \ {pick(s)}]
  BY <1>5
<1> HIDE DEF Folds
<1> DEFINE P == {s \in SUBSET D : g[s] = G[s]}
<1>7. D \in P
  <2>1. ASSUME NEW s \in SUBSET D, \A x \in s : s \ {x} \in P PROVE s \in P
    <3>1. CASE s = {}
      BY <1>3, <1>6, <3>1
    <3>2. CASE s # {}
      <4>1. g[s \ {pick(s)}] = G[s \ {pick(s)}]
        BY <1>2, <2>1, <3>2
      <4>2. QED
        BY <1>3, <1>6, <3>2, <4>1
    <3>3. QED
      BY <3>1, <3>2
  <2>2. \A s \in SUBSET D : (\A x \in s : s \ {x} \in P) => s \in P
    BY <2>1
  <2> HIDE DEF P
  <2>3. QED
    BY <2>2, FiniteInduction
<1>8. g[D] = G[D]
  BY <1>7
<1>9. QED
  BY <1>1, <1>8 DEF G

\* A finite sum of naturals: one, whose every part is counted once.
LEMMA SumSplits ==
    ASSUME NEW D, IsFiniteSet(D), NEW f \in [D -> Nat]
    PROVE  /\ SumFunction(f) \in Nat
           /\ \A x \in D : SumFunction(f) = f[x] + SumFunction([y \in D \ {x} |-> f[y]])
<1>1. SumFunction(f) = Cardinality(UnitsOver(f, D))
  BY SumCounts
<1>2. ASSUME NEW x \in D
      PROVE  SumFunction([y \in D \ {x} |-> f[y]]) = Cardinality(UnitsOver(f, D \ {x}))
  <2> DEFINE g == [y \in D \ {x} |-> f[y]]
  <2>1. IsFiniteSet(D \ {x}) /\ g \in [D \ {x} -> Nat]
    BY FS_RemoveElement
  <2>2. SumFunction(g) = Cardinality(UnitsOver(g, D \ {x}))
    BY <2>1, SumCounts
  <2>3. UnitsOver(g, D \ {x}) = UnitsOver(f, D \ {x})
    BY DEF UnitsOver, Units
  <2>4. QED
    BY <2>2, <2>3
<1>3. QED
  BY <1>1, <1>2, UnitsAdd

\* A sum of nothing.
LEMMA SumOfZeros ==
    ASSUME NEW D, IsFiniteSet(D), NEW f \in [D -> Nat], \A x \in D : f[x] = 0
    PROVE  SumFunction(f) = 0
<1>1. UnitsOver(f, D) = {}
  BY DEF UnitsOver, Units
<1>2. QED
  BY <1>1, SumCounts, FS_EmptySet

\* A sum that has one part.
LEMMA SumOfOne ==
    ASSUME NEW D, IsFiniteSet(D), NEW f \in [D -> Nat], NEW x \in D,
           \A y \in D \ {x} : f[y] = 0
    PROVE  SumFunction(f) = f[x]
<1> DEFINE g == [y \in D \ {x} |-> f[y]]
<1>1. IsFiniteSet(D \ {x}) /\ g \in [D \ {x} -> Nat] /\ \A y \in D \ {x} : g[y] = 0
  BY FS_RemoveElement
<1>2. SumFunction(g) = 0
  BY <1>1, SumOfZeros
<1>3. SumFunction(f) = f[x] + SumFunction(g)
  BY SumSplits
<1>4. QED
  BY <1>2, <1>3

\* A sum whose parts are each within another part of a second sum is no greater.
LEMMA SumWithin ==
    ASSUME NEW D, NEW E, IsFiniteSet(E), NEW f \in [D -> Nat], NEW g \in [E -> Nat],
           NEW h \in Injection(D, E), \A x \in D : f[x] <= g[h[x]]
    PROVE  IsFiniteSet(D) /\ SumFunction(f) <= SumFunction(g)
<1>0. IsFiniteSet(D) /\ h \in [D -> E] /\ \A x, y \in D : h[x] = h[y] => x = y
  BY FS_Injection DEF Injection, IsInjective
<1> DEFINE A == UnitsOver(f, D)
           B == UnitsOver(g, E)
           k == [c \in A |-> <<h[c[1]], c[2]>>]
<1>1. \A c \in A : c \in D \X (Nat \ {0}) /\ c[2] <= f[c[1]]
  BY DEF UnitsOver, Units
<1>2. \A c \in A : k[c] \in B
  <2>1. SUFFICES ASSUME NEW x \in D, NEW n \in Nat \ {0}, n <= f[x] PROVE <<h[x], n>> \in B
    BY <1>1
  <2>2. h[x] \in E /\ f[x] \in Nat /\ g[h[x]] \in Nat /\ f[x] <= g[h[x]]
    BY <1>0
  <2>3. n <= g[h[x]]
    BY <2>1, <2>2
  <2>4. QED
    BY <2>2, <2>3 DEF UnitsOver, Units
<1>3. \A c, d \in A : k[c] = k[d] => c = d
  <2>1. SUFFICES ASSUME NEW c \in A, NEW d \in A, h[c[1]] = h[d[1]], c[2] = d[2] PROVE c = d
    OBVIOUS
  <2>2. QED
    BY <1>0, <1>1, <2>1
<1>4. k \in Injection(A, B)
  <2>1. DOMAIN k = A
    OBVIOUS
  <2>2. k \in [A -> B]
    BY <1>2
  <2> HIDE DEF k
  <2>3. QED
    BY <1>3, <2>2 DEF Injection, IsInjective
<1>5. IsFiniteSet(B)
  BY UnitsAdd
<1>6. Cardinality(A) <= Cardinality(B)
  BY <1>4, <1>5, FS_Injection
<1>7. SumFunction(f) = Cardinality(A) /\ SumFunction(g) = Cardinality(B)
  BY <1>0, SumCounts
<1>8. QED
  BY <1>0, <1>6, <1>7

\* Parts that are no greater, on the same places or fewer.
LEMMA SumGrows ==
    ASSUME NEW E, IsFiniteSet(E), NEW D \in SUBSET E, NEW f \in [D -> Nat], NEW g \in [E -> Nat],
           \A x \in D : f[x] <= g[x]
    PROVE  SumFunction(f) <= SumFunction(g)
<1> DEFINE h == [x \in D |-> x]
<1>1. h \in Injection(D, E) /\ \A x \in D : f[x] <= g[h[x]]
  BY DEF Injection, IsInjective
<1> HIDE DEF h
<1>2. QED
  BY <1>1, SumWithin

\* A sum with one more term.
LEMMA SumAdds ==
    ASSUME NEW D, IsFiniteSet(D), NEW x, x \notin D, NEW E, E = D \union {x},
           NEW f \in [E -> Nat], NEW g \in [D -> Nat], \A y \in D : g[y] = f[y]
    PROVE  SumFunction(f) = f[x] + SumFunction(g)
<1>1. IsFiniteSet(E) /\ x \in E /\ E \ {x} = D
  BY FS_AddElement
<1>2. g = [y \in E \ {x} |-> f[y]]
  BY <1>1
<1>3. SumFunction(f) = f[x] + SumFunction([y \in E \ {x} |-> f[y]])
  <2>1. f \in [E -> Nat]
    OBVIOUS
  <2>2. QED
    BY ONLY <1>1, <2>1, SumSplits
<1>4. SumFunction([y \in E \ {x} |-> f[y]]) = SumFunction(g)
  BY <1>2, Zenon
<1>5. QED
  BY <1>3, <1>4

-----------------------------------------------------------------------------
(* Numbers.                                                                *)

\* Nonempty sets of naturals have a least element, so that one may count up.
LEMMA LeastElement ==
    ASSUME NEW T, T \subseteq Nat, T # {}
    PROVE  \E x \in T : \A y \in T : x <= y
<1> DEFINE R == OpToRel(<, Nat)
<1>1. IsWellFoundedOn(R, Nat)
  BY NatLessThanWellFounded
<1>2. \A x, y \in Nat : x < y => <<x, y>> \in R
  BY DEF OpToRel
<1> HIDE DEF R
<1>3. \E x \in T : \A y \in T : ~(<<y, x>> \in R)
  BY <1>1, WFMin
<1>4. \A x, y \in Nat : ~(<<y, x>> \in R) => x <= y
  <2>1. \A x, y \in Nat : x <= y \/ y < x
    OBVIOUS
  <2>2. QED
    BY <1>2, <2>1
<1>5. QED
  BY <1>3, <1>4

\* What holds of 0, and of the next number below n, holds of n.
LEMMA CountingUp ==
    ASSUME NEW n \in Nat, NEW P, 0 \in P, \A i \in Nat : i < n /\ i \in P => i + 1 \in P
    PROVE  n \in P
<1> SUFFICES ASSUME n \notin P PROVE FALSE
  OBVIOUS
<1> DEFINE T == {i \in Nat : i \notin P}
<1>1. PICK x \in T : \A y \in T : x <= y
  <2>1. T \subseteq Nat /\ T # {}
    OBVIOUS
  <2> HIDE DEF T
  <2>2. QED
    BY <2>1, LeastElement
<1>2. x \in Nat /\ x # 0 /\ x <= n
  BY <1>1
<1>3. x - 1 \in Nat /\ x - 1 < n /\ (x - 1) + 1 = x
  BY <1>2
<1>4. x - 1 \in P
  <2>1. ~(x <= x - 1)
    BY <1>2
  <2>2. QED
    BY <1>1, <1>3, <2>1
<1>5. QED
  BY <1>1, <1>3, <1>4

\* A finite set of integers has a greatest element.
LEMMA FiniteHasMax ==
    ASSUME NEW S \in SUBSET Int, IsFiniteSet(S), S # {}
    PROVE  \E x \in S : \A y \in S : x >= y
<1> DEFINE P == {T \in SUBSET S : T = {} \/ \E x \in T : \A y \in T : x >= y}
<1>1. ASSUME NEW T \in SUBSET S, \A x \in T : T \ {x} \in P PROVE T \in P
  <2>1. CASE T = {}
    BY <2>1
  <2>2. ASSUME NEW z \in T PROVE T \in P
    <3>1. T \ {z} = {} \/ \E x \in T \ {z} : \A y \in T \ {z} : x >= y
      BY <1>1
    <3>2. CASE T \ {z} = {}
      <4>1. \A y \in T : z >= y
        BY <3>2
      <4>2. QED
        BY <4>1
    <3>3. ASSUME NEW x \in T \ {z}, \A y \in T \ {z} : x >= y PROVE T \in P
      <4>1. x \in Int /\ z \in Int /\ T \subseteq Int
        OBVIOUS
      <4>2. CASE x >= z
        BY <3>3, <4>2
      <4>3. CASE z >= x
        <5>1. \A y \in T : z >= y
          BY <3>3, <4>1, <4>3
        <5>2. QED
          BY <5>1
      <4>4. QED
        BY <4>1, <4>2, <4>3
    <3>4. QED
      BY <3>1, <3>2, <3>3
  <2>3. QED
    BY <2>1, <2>2
<1>2. \A T \in SUBSET S : (\A x \in T : T \ {x} \in P) => T \in P
  BY <1>1
<1> HIDE DEF P
<1>3. S \in P
  BY <1>2, FiniteInduction
<1>4. QED
  BY <1>3 DEF P

\* The n-th part of m, of r parts in m: no more than n, and r itself of m.
LEMMA SharesFit ==
    ASSUME NEW n \in Nat, NEW m \in Nat \ {0}, NEW r \in Nat, r <= m
    PROVE  /\ (n * r) \div m \in Nat /\ (n * r) \div m <= n
           /\ (m * r) \div m = r
<1>1. n * r \in Nat /\ n * r <= n * m
  OBVIOUS
<1>2. (n * r) \div m \in Nat
  BY <1>1
<1>3. (n * r) \div m <= n
  BY <1>1, <1>2
<1>4. (m * r) \div m = r
  OBVIOUS
<1>5. QED
  BY <1>2, <1>3, <1>4

-----------------------------------------------------------------------------
(* Rows kept of a list.                                                    *)

\* What stands at some places of a list, each of them once.
LEMMA AtPlaces ==
    ASSUME NEW L, NEW lines \in Seq(L), NEW places \in SUBSET DOMAIN lines
    PROVE  /\ Cardinality(places) \in Nat /\ DOMAIN At(lines, places) = 1..Cardinality(places)
           /\ At(lines, places) \in Seq(L)
           /\ \E h \in Bijection(1..Cardinality(places), places) :
                 \A i \in 1..Cardinality(places) : At(lines, places)[i] = lines[h[i]]
<1> DEFINE N == Cardinality(places)
           h == [i \in 1..N |-> CHOOSE k \in places : Cardinality({j \in places : j < k}) = i - 1]
<1>1. DOMAIN lines = 1..Len(lines) /\ Len(lines) \in Nat /\ \A k \in DOMAIN lines : lines[k] \in L
  OBVIOUS
<1>2. IsFiniteSet(places) /\ N \in Nat
  <2>1. IsFiniteSet(1..Len(lines))
    BY <1>1, FS_Interval
  <2>2. QED
    BY <1>1, <2>1, FS_Subset, FS_CardinalityType
<1>3. At(lines, places) = [i \in 1..N |-> lines[h[i]]]
  BY DEF At
<1>4. ASSUME NEW i \in 1..N PROVE h[i] \in places /\ Cardinality(Below(h[i], places)) = i - 1
  <2>1. places \subseteq Nat /\ (\A m \in places : m < Len(lines) + 1) /\ Len(lines) + 1 \in Nat
    BY <1>1
  <2>2. \E k \in places : Cardinality(Below(k, places)) = i - 1
    BY <1>2, <2>1, EveryRankIsTaken
  <2>3. \E k \in places : Cardinality({j \in places : j < k}) = i - 1
    BY <2>2 DEF Below
  <2>4. QED
    BY <2>3 DEF Below
<1>5. DOMAIN h = 1..N
  OBVIOUS
<1>6. h \in [1..N -> places]
  BY <1>4
<1> HIDE DEF h
<1>7. h \in Bijection(1..N, places)
  <2>1. \A i, j \in 1..N : h[i] = h[j] => i = j
    <3>1. SUFFICES ASSUME NEW i \in 1..N, NEW j \in 1..N, h[i] = h[j] PROVE i = j
      OBVIOUS
    <3>2. i - 1 = j - 1
      BY <1>4, <3>1
    <3>3. QED
      BY <3>2
  <2>2. h \in Injection(1..N, places)
    BY <1>6, <2>1 DEF Injection, IsInjective
  <2>3. Cardinality(1..N) = N
    BY <1>2, FS_Interval
  <2>4. h \in Surjection(1..N, places)
    BY <1>2, <2>2, <2>3, FS_Injection
  <2>5. QED
    BY <2>2, <2>4 DEF Bijection
<1>8. At(lines, places) \in Seq(L)
  BY <1>1, <1>2, <1>3, <1>4
<1>9. QED
  BY <1>2, <1>3, <1>7, <1>8

-----------------------------------------------------------------------------
(* Lists laid out in one.                                                  *)

\* The prefixes of a list of lists, each laid out in one.
LaidOut(seqs, n, g) == g = [i \in 1..n |-> IF i = 1 THEN seqs[i] ELSE g[i - 1] \o seqs[i]]

\* There are such prefixes, however many lists there are.
LEMMA PrefixesExist ==
    ASSUME NEW seqs, NEW n \in Nat
    PROVE  \E g : LaidOut(seqs, n, g)
<1> DEFINE P == {i \in Nat : \E g : LaidOut(seqs, i, g)}
<1>1. 0 \in P
  <2>1. LaidOut(seqs, 0, [i \in 1..0 |-> seqs[i]])
    BY DEF LaidOut
  <2>2. QED
    BY <2>1
<1>2. ASSUME NEW i \in Nat, i \in P PROVE i + 1 \in P
  <2>1. PICK g : LaidOut(seqs, i, g)
    BY <1>2
  <2> DEFINE r(j) == IF j = 1 THEN seqs[j] ELSE g[j - 1] \o seqs[j]
             f == [j \in 1..(i + 1) |-> r(j)]
  <2>2. \A j \in 1..i : g[j] = r(j)
    BY <2>1 DEF LaidOut
  <2>3. \A j \in 1..i : f[j] = g[j]
    BY <2>2
  <2>4. \A j \in 1..(i + 1) : j # 1 => f[j - 1] = g[j - 1]
    <3>1. \A j \in 1..(i + 1) : j # 1 => j - 1 \in 1..i
      OBVIOUS
    <3>2. QED
      BY <2>3, <3>1
  <2>5. f = [j \in 1..(i + 1) |-> IF j = 1 THEN seqs[j] ELSE f[j - 1] \o seqs[j]]
    BY <2>4, Zenon
  <2>6. LaidOut(seqs, i + 1, f)
    BY <2>5 DEF LaidOut
  <2>7. QED
    BY <2>6
<1> HIDE DEF P
<1>3. n \in P
  BY <1>1, <1>2, CountingUp
<1>4. QED
  BY <1>3 DEF P

\* What the prefix ends with.
LEMMA LaidOutAt ==
    ASSUME NEW seqs, NEW n, NEW g, LaidOut(seqs, n, g)
    PROVE  \A i \in 1..n : g[i] = IF i = 1 THEN seqs[i] ELSE g[i - 1] \o seqs[i]
BY DEF LaidOut

\* FlattenSeq is the last of them.
LEMMA FlatIsPrefix ==
    ASSUME NEW X, NEW seqs \in Seq(Seq(X)), Len(seqs) # 0
    PROVE  \E g : LaidOut(seqs, Len(seqs), g) /\ FlattenSeq(seqs) = g[Len(seqs)]
<1> DEFINE g == CHOOSE f : f = [i \in 1..Len(seqs) |-> IF i = 1 THEN seqs[i] ELSE f[i - 1] \o seqs[i]]
<1>1. FlattenSeq(seqs) = g[Len(seqs)]
  BY DEF FlattenSeq
<1>2. \E f : f = [i \in 1..Len(seqs) |-> IF i = 1 THEN seqs[i] ELSE f[i - 1] \o seqs[i]]
  <2>1. Len(seqs) \in Nat
    OBVIOUS
  <2>2. QED
    BY <2>1, PrefixesExist DEF LaidOut
<1>3. LaidOut(seqs, Len(seqs), g)
  BY <1>2 DEF LaidOut
<1>4. QED
  BY <1>1, <1>3

\* The m-th list stands in the others laid out, from some place on.
Stands(flat, seqs, n, m, off) ==
    /\ off \in Nat /\ off + Len(seqs[m]) <= Len(flat)
    /\ \A k \in 1..Len(flat) :
          IF k \in (off + 1)..(off + Len(seqs[m])) THEN flat[k] = seqs[m][k - off]
          ELSE \E j \in 1..n : j # m /\ \E q \in DOMAIN seqs[j] : flat[k] = seqs[j][q]
Spans(flat, seqs, n) ==
    \A k \in 1..Len(flat) : \E j \in 1..n : \E q \in DOMAIN seqs[j] : flat[k] = seqs[j][q]

\* Two lists, one after the other.
LEMMA Appended ==
    ASSUME NEW X, NEW s \in Seq(X), NEW t \in Seq(X)
    PROVE  /\ s \o t \in Seq(X) /\ Len(s \o t) = Len(s) + Len(t)
           /\ \A k \in 1..Len(s \o t) : (s \o t)[k] = IF k <= Len(s) THEN s[k] ELSE t[k - Len(s)]
OBVIOUS

\* By counting the lists: every list stands in the prefixes it is part of.
LEMMA PartsStand ==
    ASSUME NEW X, NEW seqs \in Seq(Seq(X)), NEW n \in Nat, n <= Len(seqs), NEW g, LaidOut(seqs, Len(seqs), g)
    PROVE  /\ n # 0 => g[n] \in Seq(X) /\ Spans(g[n], seqs, n)
           /\ \A m \in 1..n : \E off : Stands(g[n], seqs, n, m, off)
<1> DEFINE Good(i) == /\ i # 0 => g[i] \in Seq(X) /\ Spans(g[i], seqs, i)
                      /\ \A m \in 1..i : \E off : Stands(g[i], seqs, i, m, off)
           P == {i \in Nat : Good(i)}
<1>1. /\ Len(seqs) \in Nat /\ \A i \in 1..Len(seqs) : seqs[i] \in Seq(X)
      /\ \A i \in 1..Len(seqs) : g[i] = IF i = 1 THEN seqs[i] ELSE g[i - 1] \o seqs[i]
  <2>1. Len(seqs) \in Nat /\ \A i \in 1..Len(seqs) : seqs[i] \in Seq(X)
    OBVIOUS
  <2>2. \A i \in 1..Len(seqs) : g[i] = IF i = 1 THEN seqs[i] ELSE g[i - 1] \o seqs[i]
    BY LaidOutAt
  <2>3. QED
    BY <2>1, <2>2
<1>2. 0 \in P
  OBVIOUS
<1>3. ASSUME NEW i \in Nat, i < n, Good(i) PROVE Good(i + 1)
  <2>0. i + 1 \in 1..Len(seqs)
    BY <1>1, <1>3
  <2>1. CASE i = 0
    <3>1. g[1] = seqs[1] /\ seqs[1] \in Seq(X)
      BY <1>1, <2>0, <2>1
    <3>2. DOMAIN seqs[1] = 1..Len(seqs[1]) /\ Len(seqs[1]) \in Nat
      BY <3>1
    <3>3. Spans(g[1], seqs, 1)
      BY <3>1, <3>2 DEF Spans
    <3>4. Stands(g[1], seqs, 1, 1, 0)
      BY <3>1, <3>2 DEF Stands
    <3>5. QED
      BY <2>1, <3>1, <3>3, <3>4
  <2>2. CASE i # 0
    <3> DEFINE s == g[i]
               t == seqs[i + 1]
               f == s \o t
    <3>1. g[i + 1] = f
      <4>1. i + 1 # 1 /\ (i + 1) - 1 = i
        BY <2>2
      <4>2. g[i + 1] = g[(i + 1) - 1] \o seqs[i + 1]
        BY <1>1, <2>0, <4>1
      <4>3. QED
        BY <4>1, <4>2
    <3>2. s \in Seq(X) /\ t \in Seq(X) /\ Spans(s, seqs, i)
      BY <1>1, <1>3, <2>0, <2>2
    <3>3. /\ f \in Seq(X) /\ Len(f) = Len(s) + Len(t) /\ Len(s) \in Nat /\ Len(t) \in Nat
          /\ \A k \in 1..Len(f) : f[k] = IF k <= Len(s) THEN s[k] ELSE t[k - Len(s)]
          /\ DOMAIN t = 1..Len(t)
      <4> HIDE DEF s, t
      <4>1. /\ f \in Seq(X) /\ Len(f) = Len(s) + Len(t)
            /\ \A k \in 1..Len(f) : f[k] = IF k <= Len(s) THEN s[k] ELSE t[k - Len(s)]
        BY <3>2, Appended
      <4>2. Len(s) \in Nat /\ Len(t) \in Nat /\ DOMAIN t = 1..Len(t)
        BY <3>2
      <4>3. QED
        BY <4>1, <4>2
    <3> HIDE DEF s, f
    <3>4. \A k \in 1..Len(f) : \/ k \in 1..Len(s) /\ f[k] = s[k]
                               \/ k \in (Len(s) + 1)..(Len(s) + Len(t)) /\ f[k] = t[k - Len(s)]
                                  /\ k - Len(s) \in 1..Len(t)
      <4> HIDE DEF t
      <4>1. QED
        BY <3>3
    <3>5. Spans(f, seqs, i + 1)
      <4>1. SUFFICES ASSUME NEW k \in 1..Len(f)
                     PROVE  \E j \in 1..(i + 1) : \E q \in DOMAIN seqs[j] : f[k] = seqs[j][q]
        BY DEF Spans
      <4>2. CASE k \in 1..Len(s) /\ f[k] = s[k]
        <5>1. PICK j \in 1..i : \E q \in DOMAIN seqs[j] : s[k] = seqs[j][q]
          BY <3>2, <4>2 DEF Spans
        <5>2. j \in 1..(i + 1)
          OBVIOUS
        <5>3. QED
          BY <4>2, <5>1, <5>2
      <4>3. CASE f[k] = t[k - Len(s)] /\ k - Len(s) \in 1..Len(t)
        <5>1. i + 1 \in 1..(i + 1)
          OBVIOUS
        <5>2. QED
          BY <3>3, <4>3, <5>1
      <4>4. QED
        BY <3>4, <4>2, <4>3
    <3>6. ASSUME NEW m \in 1..(i + 1) PROVE \E off : Stands(f, seqs, i + 1, m, off)
      <4>1. CASE m = i + 1
        <5> DEFINE off == Len(s)
        <5>1. off \in Nat /\ off + Len(t) <= Len(f)
          BY <3>3
        <5>2. ASSUME NEW k \in 1..Len(f)
              PROVE  IF k \in (off + 1)..(off + Len(t)) THEN f[k] = t[k - off]
                     ELSE \E j \in 1..(i + 1) : j # i + 1 /\ \E q \in DOMAIN seqs[j] : f[k] = seqs[j][q]
          <6>1. CASE k \in 1..Len(s) /\ f[k] = s[k]
            <7>1. PICK j \in 1..i : \E q \in DOMAIN seqs[j] : s[k] = seqs[j][q]
              BY <3>2, <6>1 DEF Spans
            <7>2. j \in 1..(i + 1) /\ j # i + 1
              OBVIOUS
            <7>3. k \notin (off + 1)..(off + Len(t))
              BY <3>3, <6>1
            <7> HIDE DEF t
            <7>4. QED
              BY <6>1, <7>1, <7>2, <7>3
          <6>2. CASE k \in (Len(s) + 1)..(Len(s) + Len(t)) /\ f[k] = t[k - Len(s)]
            BY <6>2
          <6>3. QED
            BY <3>4, <6>1, <6>2
        <5>3. Stands(f, seqs, i + 1, m, off)
          BY <4>1, <5>1, <5>2 DEF Stands
        <5>4. QED
          BY <5>3
      <4>2. CASE m # i + 1
        <5>1. m \in 1..i
          BY <4>2
        <5>2. PICK off : Stands(s, seqs, i, m, off)
          BY <1>3, <5>1 DEF s
        <5> DEFINE part == seqs[m]
        <5>3. part \in Seq(X) /\ Len(part) \in Nat
          BY <1>1, <2>0, <5>1
        <5>4. off \in Nat /\ off + Len(part) <= Len(s)
          BY <5>2 DEF Stands
        <5>5. ASSUME NEW k \in 1..Len(f)
              PROVE  IF k \in (off + 1)..(off + Len(part)) THEN f[k] = part[k - off]
                     ELSE \E j \in 1..(i + 1) : j # m /\ \E q \in DOMAIN seqs[j] : f[k] = seqs[j][q]
          <6>1. CASE k \in 1..Len(s) /\ f[k] = s[k]
            <7>1. IF k \in (off + 1)..(off + Len(part)) THEN s[k] = part[k - off]
                  ELSE \E j \in 1..i : j # m /\ \E q \in DOMAIN seqs[j] : s[k] = seqs[j][q]
              BY <5>2, <6>1 DEF Stands
            <7>2. \A j \in 1..i : j \in 1..(i + 1)
              OBVIOUS
            <7>3. QED
              BY <6>1, <7>1, <7>2
          <6>2. CASE k \in (Len(s) + 1)..(Len(s) + Len(t)) /\ f[k] = t[k - Len(s)] /\ k - Len(s) \in 1..Len(t)
            <7>1. k \notin (off + 1)..(off + Len(part))
              BY <3>3, <5>3, <5>4, <6>2
            <7>2. i + 1 \in 1..(i + 1)
              OBVIOUS
            <7>3. QED
              BY <3>3, <4>2, <6>2, <7>1, <7>2
          <6>3. QED
            BY <3>4, <6>1, <6>2
        <5>6. off + Len(part) <= Len(f)
          BY <3>3, <5>3, <5>4
        <5>7. Stands(f, seqs, i + 1, m, off)
          BY <5>4, <5>5, <5>6 DEF Stands
        <5>8. QED
          BY <5>7
      <4>3. QED
        BY <4>1, <4>2
    <3>7. QED
      BY <3>1, <3>3, <3>5, <3>6
  <2>3. QED
    BY <2>1, <2>2
<1> HIDE DEF Good
<1>4. \A i \in Nat : i < n /\ i \in P => i + 1 \in P
  BY <1>3
<1> HIDE DEF P
<1>5. n \in P
  BY <1>2, <1>4, CountingUp
<1>6. QED
  BY <1>5 DEF P, Good

\* A list of lists laid out in one: every part of it stands there, and nothing else.
LEMMA FlatParts ==
    ASSUME NEW X, NEW seqs \in Seq(Seq(X)), Len(seqs) # 0
    PROVE  /\ FlattenSeq(seqs) \in Seq(X)
           /\ Spans(FlattenSeq(seqs), seqs, Len(seqs))
           /\ \A m \in 1..Len(seqs) : \E off : Stands(FlattenSeq(seqs), seqs, Len(seqs), m, off)
<1>1. PICK g : LaidOut(seqs, Len(seqs), g) /\ FlattenSeq(seqs) = g[Len(seqs)]
  BY FlatIsPrefix
<1>2. Len(seqs) \in Nat /\ Len(seqs) <= Len(seqs)
  OBVIOUS
<1>3. QED
  BY <1>1, <1>2, PartsStand

\* A set in some order.
LEMMA SetInOrder ==
    ASSUME NEW S, IsFiniteSet(S)
    PROVE  /\ SetToSeq(S) \in Seq(S) /\ Cardinality(S) \in Nat
           /\ DOMAIN SetToSeq(S) = 1..Cardinality(S) /\ Len(SetToSeq(S)) = Cardinality(S)
           /\ \A i, j \in 1..Cardinality(S) : SetToSeq(S)[i] = SetToSeq(S)[j] => i = j
           /\ \A x \in S : \E i \in 1..Cardinality(S) : SetToSeq(S)[i] = x
<1> DEFINE n == Cardinality(S)
           f == SetToSeq(S)
<1>1. n \in Nat /\ \E g \in [1..n -> S] : IsInjective(g)
  <2>1. n \in Nat /\ ExistsBijection(1..n, S)
    BY FS_CardinalityType
  <2>2. QED
    BY <2>1 DEF ExistsBijection, Bijection, Injection
<1>2. f \in [1..n -> S] /\ IsInjective(f)
  BY <1>1 DEF SetToSeq
<1>3. f \in Injection(1..n, S) /\ Cardinality(1..n) = n
  BY <1>1, <1>2, FS_Interval DEF Injection
<1> HIDE DEF f, n
<1>4. f \in Surjection(1..n, S)
  BY <1>3, FS_Injection DEF n
<1>5. f \in Seq(S) /\ Len(f) = n
  BY <1>1, <1>2
<1>6. \A x \in S : \E i \in 1..n : f[i] = x
  BY <1>4 DEF Surjection
<1>7. \A i, j \in 1..n : f[i] = f[j] => i = j
  BY <1>2 DEF IsInjective
<1>8. QED
  BY <1>1, <1>2, <1>5, <1>6, <1>7 DEF f, n

-----------------------------------------------------------------------------
(* The rows that are kept, and sums over them.                             *)

\* The rank of a place among those that are kept is where its row ends up.
KeptBy(rows, places, rank) ==
    /\ rank = [k \in places |-> Cardinality({j \in places : j <= k})]
    /\ rank \in Bijection(places, 1..Len(At(rows, places)))
    /\ \A k \in places : At(rows, places)[rank[k]] = rows[k]
    /\ \A j, k \in places : j < k => rank[j] < rank[k]

\* So it is with any places of a list.
LEMMA KeptRanks ==
    ASSUME NEW L, NEW rows \in Seq(L), NEW places \in SUBSET DOMAIN rows
    PROVE  /\ At(rows, places) \in Seq(L) /\ Len(At(rows, places)) = Cardinality(places)
           /\ \E rank : KeptBy(rows, places, rank)
<1> DEFINE N == Cardinality(places)
           S == At(rows, places)
           rank == [k \in places |-> Cardinality({j \in places : j <= k})]
<1>1. /\ DOMAIN rows = 1..Len(rows) /\ Len(rows) \in Nat /\ IsFiniteSet(places)
      /\ N \in Nat /\ places \subseteq Nat
  <2>1. DOMAIN rows = 1..Len(rows) /\ Len(rows) \in Nat
    OBVIOUS
  <2>2. IsFiniteSet(1..Len(rows))
    BY <2>1, FS_Interval
  <2>3. QED
    BY <2>1, <2>2, FS_Subset, FS_CardinalityType
<1>2. S \in Seq(L) /\ DOMAIN S = 1..N /\ Len(S) = N
  <2>1. S \in Seq(L) /\ DOMAIN S = 1..N
    BY AtPlaces
  <2>2. QED
    BY <1>1, <2>1
<1>3. ASSUME NEW k \in places
      PROVE  /\ Cardinality(Below(k, places)) \in Nat /\ rank[k] = Cardinality(Below(k, places)) + 1
             /\ rank[k] \in 1..N
  <2>1. Below(k, places) \in SUBSET places /\ k \notin Below(k, places)
    BY <1>1 DEF Below
  <2>2. IsFiniteSet(Below(k, places)) /\ Cardinality(Below(k, places)) \in Nat
    BY <1>1, <2>1, FS_Subset, FS_CardinalityType
  <2>3. {j \in places : j <= k} = Below(k, places) \union {k}
    <3>1. \A j \in places : j <= k <=> j < k \/ j = k
      BY <1>1
    <3>2. QED
      BY <3>1 DEF Below
  <2>4. Cardinality(Below(k, places) \union {k}) = Cardinality(Below(k, places)) + 1
    BY <2>1, <2>2, FS_AddElement
  <2>5. {j \in places : j <= k} \in SUBSET places
    OBVIOUS
  <2>6. Cardinality({j \in places : j <= k}) <= N
    BY <1>1, <2>5, FS_Subset
  <2>7. rank[k] = Cardinality({j \in places : j <= k})
    OBVIOUS
  <2>8. rank[k] = Cardinality(Below(k, places)) + 1 /\ rank[k] <= N
    BY <2>3, <2>4, <2>6, <2>7
  <2>9. QED
    BY <1>1, <2>2, <2>8
<1>4. \A j, k \in places : j < k => rank[j] < rank[k]
  <2>1. SUFFICES ASSUME NEW j \in places, NEW k \in places, j < k PROVE rank[j] < rank[k]
    OBVIOUS
  <2>2. Cardinality(Below(j, places)) < Cardinality(Below(k, places))
    BY <1>1, <2>1, RankGrows
  <2>3. QED
    BY <1>3, <2>2
<1>5. \A j, k \in places : rank[j] = rank[k] => j = k
  <2>1. \A j, k \in places : j < k \/ k < j \/ j = k
    BY <1>1
  <2>2. \A k \in places : rank[k] \in Nat
    BY <1>3
  <2>3. SUFFICES ASSUME NEW j \in places, NEW k \in places, rank[j] = rank[k] PROVE j = k
    OBVIOUS
  <2>4. ~(rank[j] < rank[k]) /\ ~(rank[k] < rank[j])
    BY <2>2, <2>3
  <2>5. QED
    BY <1>4, <2>1, <2>4
<1>6. rank \in Bijection(places, 1..N)
  <2>1. rank \in [places -> 1..N]
    BY <1>3
  <2>2. rank \in Injection(places, 1..N)
    BY <1>5, <2>1 DEF Injection, IsInjective
  <2>3. Cardinality(1..N) = N /\ IsFiniteSet(1..N)
    BY <1>1, FS_Interval
  <2>4. rank \in Surjection(places, 1..N)
    BY <1>1, <2>2, <2>3, FS_Injection
  <2>5. QED
    BY <2>2, <2>4 DEF Bijection
<1>7. ASSUME NEW k \in places PROVE S[rank[k]] = rows[k]
  <2> DEFINE c == CHOOSE m \in places : Cardinality({j \in places : j < m}) = rank[k] - 1
  <2>1. S[rank[k]] = rows[c]
    BY <1>3 DEF At
  <2>2. c \in places /\ Cardinality({j \in places : j < c}) = rank[k] - 1
    <3>1. Cardinality({j \in places : j < k}) = rank[k] - 1
      BY <1>3 DEF Below
    <3>2. QED
      BY <3>1
  <2> HIDE DEF c
  <2>3. rank[c] = rank[k]
    <3>1. Cardinality(Below(c, places)) = rank[k] - 1
      BY <2>2 DEF Below
    <3>2. QED
      BY <1>3, <2>2, <3>1
  <2>4. c = k
    BY <1>5, <2>2, <2>3
  <2>5. QED
    BY <2>1, <2>4
<1>8. KeptBy(rows, places, rank)
  BY <1>2, <1>4, <1>6, <1>7 DEF KeptBy
<1>9. QED
  BY <1>2, <1>8

\* A sum over two sets apart.
LEMMA SumOfTwo ==
    ASSUME NEW D, IsFiniteSet(D), NEW A \in SUBSET D, NEW f \in [D -> Nat]
    PROVE  SumFunction(f) = SumFunction([x \in A |-> f[x]]) + SumFunction([x \in D \ A |-> f[x]])
<1> DEFINE B == D \ A
           fA == [x \in A |-> f[x]]
           fB == [x \in B |-> f[x]]
<1>1. IsFiniteSet(A) /\ IsFiniteSet(B) /\ B \subseteq D /\ A \subseteq D
  BY FS_Subset
<1>2. fA \in [A -> Nat] /\ fB \in [B -> Nat]
  OBVIOUS
<1>3. /\ SumFunction(f) = Cardinality(UnitsOver(f, D))
      /\ SumFunction(fA) = Cardinality(UnitsOver(fA, A))
      /\ SumFunction(fB) = Cardinality(UnitsOver(fB, B))
  BY <1>1, <1>2, SumCounts
<1>4. /\ UnitsOver(fA, A) = UnitsOver(f, A) /\ UnitsOver(fB, B) = UnitsOver(f, B)
  BY DEF UnitsOver, Units
<1> DEFINE U == UnitsOver(f, A)
           V == UnitsOver(f, B)
<1>5. UnitsOver(f, D) = U \union V /\ U \intersect V = {}
  BY DEF UnitsOver, Units
<1>6. IsFiniteSet(U) /\ IsFiniteSet(V) /\ Cardinality(U) \in Nat /\ Cardinality(V) \in Nat
  BY <1>1, UnitsAdd
<1> HIDE DEF U, V
<1>7. Cardinality(U \union V) = Cardinality(U) + Cardinality(V) - Cardinality(U \intersect V)
  BY <1>6, FS_Union
<1>8. Cardinality(U \intersect V) = 0
  BY <1>5, FS_EmptySet
<1>9. Cardinality(UnitsOver(f, D)) = Cardinality(U) + Cardinality(V)
  BY <1>5, <1>6, <1>7, <1>8
<1>10. QED
  BY <1>3, <1>4, <1>9 DEF U, V

\* Parts that are nothing besides those of another sum.
Pads(D, A, f, g) ==
    /\ IsFiniteSet(D) /\ A \in SUBSET D /\ f \in [A -> Nat] /\ g \in [D -> Nat]
    /\ (\A x \in A : g[x] = f[x]) /\ \A x \in D \ A : g[x] = 0

\* They need not be there.
LEMMA SumPadded ==
    ASSUME NEW D, NEW A, NEW f, NEW g, Pads(D, A, f, g)
    PROVE  SumFunction(g) = SumFunction(f)
<1>0. /\ IsFiniteSet(D) /\ A \in SUBSET D /\ f \in [A -> Nat] /\ g \in [D -> Nat]
      /\ (\A x \in A : g[x] = f[x]) /\ \A x \in D \ A : g[x] = 0
  BY DEF Pads
<1>1. f = [x \in A |-> g[x]]
  BY <1>0
<1>2. SumFunction(g) = SumFunction([x \in A |-> g[x]]) + SumFunction([x \in D \ A |-> g[x]])
  BY <1>0, SumOfTwo
<1>3. SumFunction([x \in D \ A |-> g[x]]) = 0
  <2> DEFINE h == [x \in D \ A |-> g[x]]
  <2>1. IsFiniteSet(D \ A) /\ h \in [D \ A -> Nat] /\ \A x \in D \ A : h[x] = 0
    BY <1>0, FS_Subset
  <2> HIDE DEF h
  <2>2. SumFunction(h) = 0
    BY <2>1, SumOfZeros
  <2>3. QED
    BY <2>2 DEF h
<1>4. SumFunction(f) = SumFunction([x \in A |-> g[x]])
  BY <1>1, Zenon
<1>5. SumFunction(f) \in Nat
  <2>1. IsFiniteSet(A)
    BY <1>0, FS_Subset
  <2>2. QED
    BY <1>0, <2>1, SumSplits
<1>6. QED
  BY <1>2, <1>3, <1>4, <1>5

\* The parts of one sum are those of another, under other names.
Renames(h, D, E, f, g) ==
    /\ IsFiniteSet(D) /\ h \in Bijection(D, E) /\ f \in [D -> Nat] /\ g \in [E -> Nat]
    /\ \A x \in D : f[x] = g[h[x]]

\* A sum goes by what is added, not by what it is called.
LEMMA SumsRenamed ==
    ASSUME NEW h, NEW D, NEW E, NEW f, NEW g, Renames(h, D, E, f, g)
    PROVE  IsFiniteSet(E) /\ SumFunction(f) = SumFunction(g)
<1>0. /\ IsFiniteSet(D) /\ h \in Bijection(D, E) /\ f \in [D -> Nat] /\ g \in [E -> Nat]
      /\ \A x \in D : f[x] = g[h[x]]
  BY DEF Renames
<1>1. h \in [D -> E] /\ (\A x, y \in D : h[x] = h[y] => x = y) /\ \A y \in E : \E x \in D : h[x] = y
  BY <1>0 DEF Bijection, Injection, Surjection, IsInjective
<1>2. h \in Injection(D, E) /\ h \in Surjection(D, E)
  BY <1>0 DEF Bijection
<1>3. IsFiniteSet(E)
  BY <1>0, <1>2, FS_Surjection
<1> DEFINE b == [y \in E |-> CHOOSE x \in D : h[x] = y]
<1>4. \A y \in E : b[y] \in D /\ h[b[y]] = y
  BY <1>1
<1>5. b \in [E -> D]
  BY <1>4
<1> HIDE DEF b
<1>6. b \in Injection(E, D)
  BY <1>4, <1>5 DEF Injection, IsInjective
<1>7. \A x \in D : f[x] \in Nat /\ g[h[x]] \in Nat /\ f[x] <= g[h[x]]
  BY <1>0, <1>1
<1>8. \A y \in E : g[y] <= f[b[y]]
  <2>1. SUFFICES ASSUME NEW y \in E PROVE g[y] <= f[b[y]]
    OBVIOUS
  <2>2. f[b[y]] = g[y] /\ g[y] \in Nat
    BY <1>0, <1>4
  <2>3. QED
    BY <2>2
<1>9. SumFunction(f) <= SumFunction(g)
  BY <1>0, <1>2, <1>3, <1>7, SumWithin
<1>10. SumFunction(g) <= SumFunction(f)
  BY <1>0, <1>6, <1>8, SumWithin
<1>11. SumFunction(f) \in Nat /\ SumFunction(g) \in Nat
  BY <1>0, <1>3, SumSplits
<1>12. QED
  BY <1>3, <1>9, <1>10, <1>11

\* A sum by parts of which each belongs to one of finitely many sorts.
LEMMA SumBySort ==
    ASSUME NEW D, IsFiniteSet(D), NEW E, IsFiniteSet(E), NEW sort \in [D -> E],
           NEW f \in [D -> Nat],
           NEW g, g = [e \in E |-> SumFunction([x \in {y \in D : sort[y] = e} |-> f[x]])]
    PROVE  g \in [E -> Nat] /\ SumFunction(f) = SumFunction(g)
<1> DEFINE Of(s) == {y \in D : sort[y] \in s}
           Sum(s) == SumFunction([x \in Of(s) |-> f[x]])
           G(s) == SumFunction([e \in s |-> g[e]])
           P == {s \in SUBSET E : Sum(s) = G(s)}
<1>1. ASSUME NEW e \in E PROVE g[e] \in Nat
  <2>1. IsFiniteSet({y \in D : sort[y] = e})
    BY FS_Subset
  <2>2. [x \in {y \in D : sort[y] = e} |-> f[x]] \in [{y \in D : sort[y] = e} -> Nat]
    OBVIOUS
  <2>3. QED
    BY <2>1, <2>2, SumSplits
<1>2. ASSUME NEW s \in SUBSET E, \A x \in s : s \ {x} \in P PROVE s \in P
  <2>1. IsFiniteSet(Of(s)) /\ IsFiniteSet(s)
    BY FS_Subset
  <2>2. [x \in Of(s) |-> f[x]] \in [Of(s) -> Nat] /\ [e \in s |-> g[e]] \in [s -> Nat]
    BY <1>1
  <2>3. CASE s = {}
    <3>1. \A x \in Of(s) : FALSE
      BY <2>3
    <3> DEFINE h == [x \in Of(s) |-> f[x]]
               k == [e \in s |-> g[e]]
    <3>2. (\A x \in Of(s) : h[x] = 0) /\ \A x \in s : k[x] = 0
      BY <2>3, <3>1
    <3>3. SumFunction(h) = 0 /\ SumFunction(k) = 0
      <4>1. h \in [Of(s) -> Nat] /\ k \in [s -> Nat]
        BY <2>2
      <4> HIDE DEF h, k, Of
      <4>2. QED
        BY <2>1, <3>2, <4>1, SumOfZeros
    <3>4. QED
      BY <3>3
  <2>4. ASSUME NEW e \in s PROVE s \in P
    <3> DEFINE fs == [x \in Of(s) |-> f[x]]
               A == {y \in D : sort[y] = e}
               gs == [x \in s |-> g[x]]
    <3>1. Sum(s \ {e}) = G(s \ {e})
      BY <1>2
    <3>2. A \subseteq Of(s) /\ Of(s) \ A = Of(s \ {e})
      OBVIOUS
    <3>3. SumFunction(fs) = SumFunction([x \in A |-> fs[x]]) + SumFunction([x \in Of(s) \ A |-> fs[x]])
      <4>1. fs \in [Of(s) -> Nat] /\ A \in SUBSET Of(s)
        BY <2>2, <3>2
      <4>0. IsFiniteSet(Of(s))
        BY <2>1
      <4> HIDE DEF fs, A, Of
      <4>2. QED
        BY ONLY <4>0, <4>1, SumOfTwo
    <3>4. [x \in A |-> fs[x]] = [x \in A |-> f[x]]
      OBVIOUS
    <3>5. [x \in Of(s) \ A |-> fs[x]] = [x \in Of(s \ {e}) |-> f[x]]
      BY <3>2
    <3>6. SumFunction([x \in A |-> f[x]]) = g[e]
      OBVIOUS
    <3>7. SumFunction(gs) = gs[e] + SumFunction([x \in s \ {e} |-> gs[x]])
      <4>1. gs \in [s -> Nat]
        BY <2>2
      <4> HIDE DEF gs
      <4>2. e \in s /\ IsFiniteSet(s)
        BY <2>1
      <4>3. QED
        BY ONLY <4>1, <4>2, SumSplits
    <3>8. gs[e] = g[e] /\ [x \in s \ {e} |-> gs[x]] = [x \in s \ {e} |-> g[x]]
      OBVIOUS
    <3>9. SumFunction(gs) = g[e] + G(s \ {e})
      BY <3>7, <3>8
    <3>10. SumFunction(fs) = g[e] + Sum(s \ {e})
      <4>1. SumFunction([x \in A |-> fs[x]]) = g[e]
        BY <3>4, <3>6
      <4>2. SumFunction([x \in Of(s) \ A |-> fs[x]]) = Sum(s \ {e})
        BY <3>5
      <4> HIDE DEF fs, A, Of, Sum
      <4>3. QED
        BY <3>3, <4>1, <4>2
    <3>11. Sum(s) = G(s)
      <4>1. Sum(s) = SumFunction(fs) /\ G(s) = SumFunction(gs)
        OBVIOUS
      <4> HIDE DEF Sum, G, fs, gs
      <4>2. QED
        BY <3>1, <3>9, <3>10, <4>1
    <3>12. QED
      BY <3>11
  <2>5. QED
    BY <2>3, <2>4
<1>3. E \in P
  <2>1. \A s \in SUBSET E : (\A x \in s : s \ {x} \in P) => s \in P
    BY <1>2
  <2> HIDE DEF P
  <2>2. QED
    BY <2>1, FiniteInduction
<1>4. [x \in Of(E) |-> f[x]] = f
  OBVIOUS
<1>5. g \in [E -> Nat] /\ [e \in E |-> g[e]] = g
  <2>1. DOMAIN g = E /\ g = [e \in E |-> g[e]]
    OBVIOUS
  <2>2. QED
    BY ONLY <1>1, <2>1
<1>6. QED
  BY <1>3, <1>4, <1>5

\* A sum over the first numbers, its last term apart.
LEMMA SumLast ==
    ASSUME NEW n \in Nat \ {0}, NEW f \in [1..n -> Nat]
    PROVE  SumFunction(f) = f[n] + SumFunction([i \in 1..(n - 1) |-> f[i]])
<1>1. PICK D : D = 1..n
  OBVIOUS
<1>2. IsFiniteSet(D) /\ n \in D
  BY <1>1, FS_Interval
<1>3. f \in [D -> Nat]
  BY <1>1
<1>4. SumFunction(f) = f[n] + SumFunction([i \in D \ {n} |-> f[i]])
  BY ONLY <1>2, <1>3, SumSplits
<1>5. D \ {n} = 1..(n - 1)
  BY <1>1
<1>6. QED
  BY <1>4, <1>5

\* The same number, added up so often.
LEMMA SumOfEqual ==
    ASSUME NEW n \in Nat, NEW c \in Nat, NEW f \in [1..n -> Nat], \A i \in 1..n : f[i] = c
    PROVE  SumFunction(f) = n * c
<1> DEFINE P == {m \in Nat : m <= n => SumFunction([i \in 1..m |-> c]) = m * c}
<1>1. 0 \in P
  <2> DEFINE h == [i \in 1..0 |-> c]
  <2>1. h \in [1..0 -> Nat] /\ IsFiniteSet(1..0) /\ \A x \in 1..0 : h[x] = 0
    BY FS_Interval
  <2> HIDE DEF h
  <2>2. SumFunction(h) = 0
    BY <2>1, SumOfZeros
  <2>3. QED
    BY <2>2 DEF h
<1>2. ASSUME NEW m \in Nat, m < n, m \in P PROVE m + 1 \in P
  <2> DEFINE h == [i \in 1..(m + 1) |-> c]
             k == [i \in 1..m |-> c]
  <2>1. IsFiniteSet(1..m) /\ m + 1 \notin 1..m /\ 1..(m + 1) = 1..m \union {m + 1}
    <3>1. IsFiniteSet(1..m)
      BY FS_Interval
    <3>2. m + 1 \notin 1..m /\ 1..(m + 1) = 1..m \union {m + 1}
      OBVIOUS
    <3>3. QED
      BY <3>1, <3>2
  <2>2. h \in [1..(m + 1) -> Nat] /\ k \in [1..m -> Nat] /\ \A y \in 1..m : k[y] = h[y]
    OBVIOUS
  <2>3. h[m + 1] = c
    OBVIOUS
  <2> HIDE DEF h, k
  <2>4. SumFunction(h) = h[m + 1] + SumFunction(k)
    <3>1. PICK E : E = 1..(m + 1)
      OBVIOUS
    <3>2. E = 1..m \union {m + 1} /\ h \in [E -> Nat]
      BY <2>1, <2>2, <3>1
    <3>3. PICK D, x : D = 1..m /\ x = m + 1
      OBVIOUS
    <3>4. /\ IsFiniteSet(D) /\ x \notin D /\ E = D \union {x}
          /\ k \in [D -> Nat] /\ \A y \in D : k[y] = h[y]
      BY <2>1, <2>2, <3>2, <3>3
    <3>5. SumFunction(h) = h[x] + SumFunction(k)
      <4>1. h \in [E -> Nat]
        BY <3>2
      <4>2. QED
        BY ONLY <3>4, <4>1, SumAdds
    <3>6. QED
      BY <3>3, <3>5
  <2>5. SumFunction(k) = m * c
    BY <1>2 DEF k
  <2>6. SumFunction(h) = (m + 1) * c
    <3>1. (m + 1) * c = c + m * c
      OBVIOUS
    <3>2. QED
      BY <2>3, <2>4, <2>5, <3>1
  <2>7. QED
    BY <2>6 DEF h
<1>3. n \in P
  <2>1. \A i \in Nat : i < n /\ i \in P => i + 1 \in P
    BY <1>2
  <2> HIDE DEF P
  <2>2. QED
    BY <1>1, <2>1, CountingUp
<1>4. f = [i \in 1..n |-> c]
  OBVIOUS
<1>5. QED
  BY <1>3, <1>4

\* Where the lists laid out in one begin: after all that come before.
Offset(seqs, m) == SumFunction([q \in 1..(m - 1) |-> Len(seqs[q])])

\* How the offsets follow from the lengths of the lists before.
LEMMA Offsets ==
    ASSUME NEW X, NEW seqs \in Seq(Seq(X)), NEW m \in 1..(Len(seqs) + 1)
    PROVE  /\ Offset(seqs, m) \in Nat /\ Offset(seqs, 1) = 0
           /\ m <= Len(seqs) => /\ Len(seqs[m]) \in Nat
                                /\ Offset(seqs, m + 1) = Offset(seqs, m) + Len(seqs[m])
<1>1. Len(seqs) \in Nat /\ \A i \in 1..Len(seqs) : seqs[i] \in Seq(X) /\ Len(seqs[i]) \in Nat
  OBVIOUS
<1> DEFINE f(n) == [q \in 1..n |-> Len(seqs[q])]
<1>2. ASSUME NEW n \in 0..Len(seqs)
      PROVE  f(n) \in [1..n -> Nat] /\ IsFiniteSet(1..n) /\ SumFunction(f(n)) \in Nat
  <2>1. n \in Int /\ n <= Len(seqs)
    BY <1>1
  <2>6. \A q \in 1..n : Len(seqs[q]) \in Nat
    BY <1>1, <2>1
  <2>2. f(n) \in [1..n -> Nat]
    BY ONLY <2>6
  <2>3. IsFiniteSet(1..n)
    BY <2>1, FS_Interval
  <2> HIDE DEF f
  <2>4. QED
    BY <2>2, <2>3, SumSplits
<1>3. \A n \in 1..(Len(seqs) + 1) : Offset(seqs, n) = SumFunction(f(n - 1)) /\ n - 1 \in 0..Len(seqs)
  BY <1>1 DEF Offset
<1>4. Offset(seqs, 1) = 0
  <2>1. 0 \in 0..Len(seqs) /\ 1 \in 1..(Len(seqs) + 1) /\ 1 - 1 = 0
    BY <1>1
  <2> HIDE DEF f
  <2>2. Offset(seqs, 1) = SumFunction(f(0))
    <3>1. Offset(seqs, 1) = SumFunction(f(1 - 1))
      BY <1>3, <2>1
    <3>2. QED
      BY <2>1, <3>1
  <2>3. PICK h, D : h = f(0) /\ D = 1..0
    OBVIOUS
  <2>4. h \in [D -> Nat] /\ IsFiniteSet(D)
    BY <1>2, <2>1, <2>3
  <2>5. \A x \in D : h[x] = 0
    BY <2>3
  <2>6. SumFunction(h) = 0
    BY ONLY <2>4, <2>5, SumOfZeros
  <2>7. QED
    BY <2>2, <2>3, <2>6
<1>5. ASSUME m <= Len(seqs)
      PROVE  Len(seqs[m]) \in Nat /\ Offset(seqs, m + 1) = Offset(seqs, m) + Len(seqs[m])
  <2>1. m \in 1..Len(seqs) /\ m \in 0..Len(seqs) /\ m - 1 \in 0..Len(seqs) /\ m + 1 \in 1..(Len(seqs) + 1)
        /\ (m + 1) - 1 = m
    BY <1>1, <1>5
  <2>2. f(m) \in [1..m -> Nat] /\ m \in Nat \ {0}
    <3>1. f(m) \in [1..m -> Nat]
      BY <1>2, <2>1
    <3> HIDE DEF f
    <3>2. QED
      BY <1>1, <2>1, <3>1
  <2>3. f(m)[m] = Len(seqs[m])
    <3>1. m \in 1..m
      BY <2>2
    <3>2. QED
      BY ONLY <3>1
  <2>4. [i \in 1..(m - 1) |-> f(m)[i]] = f(m - 1)
    <3>1. \A i \in 1..(m - 1) : i \in 1..m
      BY <2>2
    <3>2. \A i \in 1..m : f(m)[i] = Len(seqs[i])
      OBVIOUS
    <3>3. \A i \in 1..(m - 1) : f(m)[i] = Len(seqs[i])
      BY <3>1, <3>2
    <3>4. QED
      BY ONLY <3>3
  <2>6. Offset(seqs, m + 1) = SumFunction(f(m)) /\ Offset(seqs, m) = SumFunction(f(m - 1))
    <3> HIDE DEF f
    <3>1. Offset(seqs, m + 1) = SumFunction(f((m + 1) - 1))
      BY <1>3, <2>1
    <3>2. QED
      BY <1>3, <2>1, <3>1
  <2> HIDE DEF f
  <2>7. SumFunction(f(m)) = Len(seqs[m]) + SumFunction(f(m - 1))
    <3>1. PICK h : h = f(m)
      OBVIOUS
    <3>2. h \in [1..m -> Nat]
      BY <2>2, <3>1
    <3>3. SumFunction(h) = h[m] + SumFunction([i \in 1..(m - 1) |-> h[i]])
      BY ONLY <2>2, <3>2, SumLast
    <3>4. QED
      BY <2>3, <2>4, <3>1, <3>3
  <2>8. SumFunction(f(m - 1)) \in Nat /\ Len(seqs[m]) \in Nat
    BY <1>1, <1>2, <2>1
  <2>9. QED
    BY <2>6, <2>7, <2>8
<1>6. Offset(seqs, m) \in Nat
  <2> HIDE DEF f
  <2>1. QED
    BY <1>2, <1>3
<1>7. QED
  BY <1>4, <1>5, <1>6

-----------------------------------------------------------------------------
(* Sums of sums.                                                           *)

\* Adding up place by place.
LEMMA SumPlus ==
    ASSUME NEW D, IsFiniteSet(D), NEW f \in [D -> Nat], NEW g \in [D -> Nat],
           NEW h, h = [x \in D |-> f[x] + g[x]]
    PROVE  h \in [D -> Nat] /\ SumFunction(h) = SumFunction(f) + SumFunction(g)
<1> DEFINE F(s) == [x \in s |-> f[x]]
           G(s) == [x \in s |-> g[x]]
           H(s) == [x \in s |-> h[x]]
           P == {s \in SUBSET D : SumFunction(H(s)) = SumFunction(F(s)) + SumFunction(G(s))}
<1>1. h \in [D -> Nat] /\ \A x \in D : h[x] = f[x] + g[x]
  OBVIOUS
<1>2. ASSUME NEW s \in SUBSET D
      PROVE  IsFiniteSet(s) /\ F(s) \in [s -> Nat] /\ G(s) \in [s -> Nat] /\ H(s) \in [s -> Nat]
  BY <1>1, FS_Subset
<1>3. ASSUME NEW s \in SUBSET D, \A x \in s : s \ {x} \in P PROVE s \in P
  <2>1. CASE s = {}
    <3>1. (\A x \in s : F(s)[x] = 0) /\ (\A x \in s : G(s)[x] = 0) /\ \A x \in s : H(s)[x] = 0
      BY <2>1
    <3> HIDE DEF F, G, H
    <3>2. SumFunction(F(s)) = 0 /\ SumFunction(G(s)) = 0 /\ SumFunction(H(s)) = 0
      BY <1>2, <3>1, SumOfZeros
    <3>3. QED
      BY <3>2
  <2>2. ASSUME NEW x \in s PROVE s \in P
    <3>1. /\ F(s)[x] = f[x] /\ G(s)[x] = g[x] /\ H(s)[x] = h[x]
          /\ [y \in s \ {x} |-> F(s)[y]] = F(s \ {x}) /\ [y \in s \ {x} |-> G(s)[y]] = G(s \ {x})
          /\ [y \in s \ {x} |-> H(s)[y]] = H(s \ {x})
      OBVIOUS
    <3>2. SumFunction(H(s \ {x})) = SumFunction(F(s \ {x})) + SumFunction(G(s \ {x}))
      BY <1>3
    <3> HIDE DEF F, G, H
    <3>3. /\ SumFunction(F(s)) = F(s)[x] + SumFunction([y \in s \ {x} |-> F(s)[y]])
          /\ SumFunction(G(s)) = G(s)[x] + SumFunction([y \in s \ {x} |-> G(s)[y]])
          /\ SumFunction(H(s)) = H(s)[x] + SumFunction([y \in s \ {x} |-> H(s)[y]])
      <4>1. IsFiniteSet(s) /\ F(s) \in [s -> Nat] /\ G(s) \in [s -> Nat] /\ H(s) \in [s -> Nat]
        BY <1>2
      <4>2. SumFunction(F(s)) = F(s)[x] + SumFunction([y \in s \ {x} |-> F(s)[y]])
        BY <4>1, SumSplits
      <4>3. SumFunction(G(s)) = G(s)[x] + SumFunction([y \in s \ {x} |-> G(s)[y]])
        BY <4>1, SumSplits
      <4>4. SumFunction(H(s)) = H(s)[x] + SumFunction([y \in s \ {x} |-> H(s)[y]])
        BY <4>1, SumSplits
      <4>5. QED
        BY <4>2, <4>3, <4>4
    <3>4. /\ SumFunction(F(s \ {x})) \in Nat /\ SumFunction(G(s \ {x})) \in Nat
          /\ f[x] \in Nat /\ g[x] \in Nat /\ h[x] = f[x] + g[x]
      <4>1. s \ {x} \in SUBSET D /\ x \in D
        OBVIOUS
      <4>2. IsFiniteSet(s \ {x}) /\ F(s \ {x}) \in [s \ {x} -> Nat] /\ G(s \ {x}) \in [s \ {x} -> Nat]
        BY <1>2, <4>1
      <4>3. QED
        BY <1>1, <4>1, <4>2, SumSplits
    <3>5. SumFunction(H(s)) = SumFunction(F(s)) + SumFunction(G(s))
      BY <3>1, <3>2, <3>3, <3>4
    <3>6. QED
      BY <3>5
  <2>3. QED
    BY <2>1, <2>2
<1>4. D \in P
  <2>1. \A s \in SUBSET D : (\A x \in s : s \ {x} \in P) => s \in P
    BY <1>3
  <2> HIDE DEF P
  <2>2. QED
    BY <2>1, FiniteInduction
<1>5. F(D) = f /\ G(D) = g /\ H(D) = h
  OBVIOUS
<1>6. QED
  BY <1>1, <1>4, <1>5

\* A sum that is nothing is of nothing.
LEMMA SumIsZero ==
    ASSUME NEW D, IsFiniteSet(D), NEW f \in [D -> Nat]
    PROVE  SumFunction(f) = 0 <=> \A x \in D : f[x] = 0
<1>1. ASSUME SumFunction(f) = 0, NEW x \in D PROVE f[x] = 0
  <2> DEFINE g == [y \in D \ {x} |-> f[y]]
  <2>1. IsFiniteSet(D \ {x}) /\ g \in [D \ {x} -> Nat]
    BY FS_RemoveElement
  <2>2. SumFunction(f) = f[x] + SumFunction(g)
    BY SumSplits
  <2> HIDE DEF g
  <2>3. SumFunction(g) \in Nat /\ f[x] \in Nat
    BY <2>1, SumSplits
  <2>4. QED
    BY <1>1, <2>2, <2>3
<1>2. QED
  BY <1>1, SumOfZeros

\* Sums of parts that are no greater are the same just when all the parts are.
LEMMA SumsAreEqual ==
    ASSUME NEW D, IsFiniteSet(D), NEW f \in [D -> Nat], NEW g \in [D -> Nat],
           \A x \in D : f[x] <= g[x]
    PROVE  SumFunction(f) = SumFunction(g) <=> \A x \in D : f[x] = g[x]
<1> DEFINE d == [x \in D |-> g[x] - f[x]]
<1>1. d \in [D -> Nat] /\ g = [x \in D |-> f[x] + d[x]] /\ \A x \in D : d[x] = 0 <=> f[x] = g[x]
  <2>1. \A x \in D : f[x] \in Nat /\ g[x] \in Nat /\ f[x] <= g[x]
    OBVIOUS
  <2>2. \A x \in D : g[x] - f[x] \in Nat /\ g[x] = f[x] + (g[x] - f[x]) /\ (g[x] - f[x] = 0 <=> f[x] = g[x])
    BY <2>1
  <2>3. g = [x \in D |-> g[x]]
    OBVIOUS
  <2>4. QED
    BY <2>2, <2>3
<1> HIDE DEF d
<1>2. SumFunction(g) = SumFunction(f) + SumFunction(d)
  BY <1>1, SumPlus
<1>3. SumFunction(f) \in Nat /\ SumFunction(d) \in Nat /\ SumFunction(g) \in Nat
  BY <1>1, SumSplits
<1>4. SumFunction(f) = SumFunction(g) <=> SumFunction(d) = 0
  BY <1>2, <1>3
<1>5. QED
  BY <1>1, <1>4, SumIsZero

\* The sums of the rows and of the columns of a table.
Table(D, E, f, r, c) ==
    /\ IsFiniteSet(D) /\ IsFiniteSet(E) /\ \A x \in D, y \in E : f[x][y] \in Nat
    /\ r = [x \in D |-> SumFunction([y \in E |-> f[x][y]])]
    /\ c = [y \in E |-> SumFunction([x \in D |-> f[x][y]])]

\* It adds up by its rows as by its columns.
LEMMA SumSwap ==
    ASSUME NEW D, NEW E, NEW f, NEW r, NEW c, Table(D, E, f, r, c)
    PROVE  r \in [D -> Nat] /\ c \in [E -> Nat] /\ SumFunction(r) = SumFunction(c)
<1> SUFFICES ASSUME IsFiniteSet(D), IsFiniteSet(E), \A x \in D, y \in E : f[x][y] \in Nat,
                    r = [x \in D |-> SumFunction([y \in E |-> f[x][y]])],
                    c = [y \in E |-> SumFunction([x \in D |-> f[x][y]])]
             PROVE  r \in [D -> Nat] /\ c \in [E -> Nat] /\ SumFunction(r) = SumFunction(c)
  BY DEF Table
<1> DEFINE Row(x) == [y \in E |-> f[x][y]]
           Col(s, y) == [x \in s |-> f[x][y]]
           R(s) == [x \in s |-> r[x]]
           C(s) == [y \in E |-> SumFunction(Col(s, y))]
           P == {s \in SUBSET D : SumFunction(R(s)) = SumFunction(C(s))}
<1>1. ASSUME NEW s \in SUBSET D PROVE IsFiniteSet(s) /\ \A y \in E : Col(s, y) \in [s -> Nat]
  BY FS_Subset
<1>2. \A x \in D : Row(x) \in [E -> Nat]
  OBVIOUS
<1>3. r \in [D -> Nat] /\ \A x \in D : r[x] = SumFunction(Row(x))
  <2>1. \A x \in D : r[x] = SumFunction(Row(x))
    OBVIOUS
  <2>2. DOMAIN r = D /\ r = [x \in D |-> r[x]]
    OBVIOUS
  <2> HIDE DEF Row
  <2>3. \A x \in D : r[x] \in Nat
    BY <1>2, <2>1, SumSplits
  <2>4. QED
    BY ONLY <2>1, <2>2, <2>3
<1>4. ASSUME NEW s \in SUBSET D PROVE C(s) \in [E -> Nat]
  <2>1. \A y \in E : SumFunction(Col(s, y)) \in Nat
    <3> HIDE DEF Col
    <3>1. QED
      BY <1>1, SumSplits
  <2> HIDE DEF Col
  <2>2. QED
    BY <2>1
<1>5. ASSUME NEW s \in SUBSET D, \A x \in s : s \ {x} \in P PROVE s \in P
  <2>1. CASE s = {}
    <3>1. \A x \in s : R(s)[x] = 0
      BY <2>1
    <3>2. \A y \in E : C(s)[y] = 0
      <4>1. SUFFICES ASSUME NEW y \in E PROVE SumFunction(Col(s, y)) = 0
        OBVIOUS
      <4>2. \A x \in s : Col(s, y)[x] = 0
        BY <2>1
      <4>3. Col(s, y) \in [s -> Nat] /\ IsFiniteSet(s)
        BY <1>1
      <4> HIDE DEF Col
      <4>4. QED
        BY <4>2, <4>3, SumOfZeros
    <3>3. R(s) \in [s -> Nat] /\ C(s) \in [E -> Nat] /\ IsFiniteSet(s)
      <4>1. R(s) \in [s -> Nat]
        BY <1>3
      <4>2. QED
        BY <1>1, <1>4, <4>1
    <3> HIDE DEF R, C
    <3>4. SumFunction(R(s)) = 0 /\ SumFunction(C(s)) = 0
      BY <3>1, <3>2, <3>3, SumOfZeros
    <3>5. QED
      BY <3>4
  <2>2. ASSUME NEW x \in s PROVE s \in P
    <3> DEFINE t == s \ {x}
    <3>1. SumFunction(R(t)) = SumFunction(C(t))
      BY <1>5
    <3>2. t \in SUBSET D /\ x \in D
      OBVIOUS
    <3>3. SumFunction(R(s)) = r[x] + SumFunction(R(t))
      <4>1. R(s)[x] = r[x] /\ [y \in s \ {x} |-> R(s)[y]] = R(t)
        OBVIOUS
      <4>2. R(s) \in [s -> Nat] /\ IsFiniteSet(s)
        BY <1>1, <1>3
      <4> HIDE DEF R, t
      <4>3. SumFunction(R(s)) = R(s)[x] + SumFunction([y \in s \ {x} |-> R(s)[y]])
        BY <4>2, SumSplits
      <4>4. QED
        BY <4>1, <4>3
    <3>4. C(s) = [y \in E |-> Row(x)[y] + C(t)[y]]
      <4>1. ASSUME NEW y \in E PROVE SumFunction(Col(s, y)) = f[x][y] + SumFunction(Col(t, y))
        <5>1. Col(s, y)[x] = f[x][y] /\ [z \in s \ {x} |-> Col(s, y)[z]] = Col(t, y)
          OBVIOUS
        <5>2. Col(s, y) \in [s -> Nat] /\ IsFiniteSet(s)
          BY <1>1
        <5> HIDE DEF Col, t
        <5>3. SumFunction(Col(s, y)) = Col(s, y)[x] + SumFunction([z \in s \ {x} |-> Col(s, y)[z]])
          BY <5>2, SumSplits
        <5>4. QED
          BY <5>1, <5>3
      <4>2. \A y \in E : Row(x)[y] = f[x][y] /\ C(t)[y] = SumFunction(Col(t, y))
        OBVIOUS
      <4> HIDE DEF Row, t
      <4>3. \A y \in E : SumFunction(Col(s, y)) = Row(x)[y] + C(t)[y]
        BY <4>1, <4>2
      <4>4. QED
        BY <4>3, Zenon
    <3>5. SumFunction(C(s)) = SumFunction(Row(x)) + SumFunction(C(t))
      <4>1. Row(x) \in [E -> Nat] /\ C(t) \in [E -> Nat]
        BY <1>2, <1>4, <3>2
      <4>2. PICK p, q, h : p = Row(x) /\ q = C(t) /\ h = C(s)
        OBVIOUS
      <4> HIDE DEF Row, C, t
      <4>3. p \in [E -> Nat] /\ q \in [E -> Nat] /\ h = [y \in E |-> p[y] + q[y]]
        BY <3>4, <4>1, <4>2
      <4>4. SumFunction(h) = SumFunction(p) + SumFunction(q)
        BY <4>3, SumPlus
      <4>5. QED
        BY <4>2, <4>4
    <3>6. r[x] = SumFunction(Row(x))
      BY <1>3
    <3> HIDE DEF R, C, t, Row
    <3>7. SumFunction(R(s)) = SumFunction(C(s))
      BY <3>1, <3>3, <3>5, <3>6
    <3>8. QED
      BY <3>7
  <2>3. QED
    BY <2>1, <2>2
<1>6. D \in P
  <2>1. \A s \in SUBSET D : (\A x \in s : s \ {x} \in P) => s \in P
    BY <1>5
  <2> HIDE DEF P
  <2>2. QED
    BY <2>1, FiniteInduction
<1>7. R(D) = r /\ C(D) = c
  OBVIOUS
<1>8. c \in [E -> Nat]
  <2>1. C(D) \in [E -> Nat]
    <3> HIDE DEF C
    <3>1. QED
      BY <1>4
  <2>2. QED
    BY <1>7, <2>1
<1>9. QED
  BY <1>3, <1>6, <1>7, <1>8

-----------------------------------------------------------------------------
(* Lists laid one after another.                                           *)

\* The offsets grow by what lies between them.
LEMMA OffsetsGrow ==
    ASSUME NEW X, NEW seqs \in Seq(Seq(X)), NEW i \in 1..Len(seqs), NEW j \in 1..(Len(seqs) + 1), i < j
    PROVE  Offset(seqs, i) + Len(seqs[i]) <= Offset(seqs, j)
<1>1. Len(seqs) \in Nat
  OBVIOUS
<1> DEFINE P == {n \in Nat : i + 1 + n <= Len(seqs) + 1 =>
                                Offset(seqs, i) + Len(seqs[i]) <= Offset(seqs, i + 1 + n)}
<1>2. /\ Offset(seqs, i) \in Nat /\ Len(seqs[i]) \in Nat
      /\ Offset(seqs, i + 1) = Offset(seqs, i) + Len(seqs[i])
  <2>1. i \in 1..(Len(seqs) + 1) /\ i <= Len(seqs)
    BY <1>1
  <2>2. QED
    BY <2>1, Offsets
<1>3. 0 \in P
  <2>1. i + 1 + 0 = i + 1
    OBVIOUS
  <2>2. Offset(seqs, i) + Len(seqs[i]) <= Offset(seqs, i + 1 + 0)
    BY <1>2, <2>1
  <2>3. QED
    BY <2>2
<1>4. ASSUME NEW n \in Nat, n \in P PROVE n + 1 \in P
  <2>1. SUFFICES ASSUME i + 1 + (n + 1) <= Len(seqs) + 1
                 PROVE  Offset(seqs, i) + Len(seqs[i]) <= Offset(seqs, i + 1 + (n + 1))
    OBVIOUS
  <2>2. PICK m : m = i + 1 + n
    OBVIOUS
  <2>3. m \in 1..(Len(seqs) + 1) /\ m <= Len(seqs) /\ i + 1 + (n + 1) = m + 1
    BY <1>1, <2>1, <2>2
  <2>4. Offset(seqs, m) \in Nat /\ Len(seqs[m]) \in Nat /\ Offset(seqs, m + 1) = Offset(seqs, m) + Len(seqs[m])
    BY <2>3, Offsets
  <2>5. Offset(seqs, i) + Len(seqs[i]) <= Offset(seqs, m)
    <3>1. i + 1 + n <= Len(seqs) + 1
      BY <1>1, <2>1
    <3>2. QED
      BY <1>4, <2>2, <3>1
  <2>6. Offset(seqs, i) + Len(seqs[i]) <= Offset(seqs, m + 1)
    BY <1>2, <2>4, <2>5
  <2>7. Offset(seqs, i + 1 + (n + 1)) = Offset(seqs, m + 1)
    BY <2>3, Zenon
  <2>8. QED
    BY <2>6, <2>7
<1>5. PICK d : d = j - (i + 1)
  OBVIOUS
<1>6. d \in Nat /\ i + 1 + d = j
  BY <1>1, <1>5
<1>7. d \in P
  <2>1. \A n \in Nat : n < d /\ n \in P => n + 1 \in P
    BY <1>4
  <2> HIDE DEF P
  <2>2. QED
    BY <1>3, <1>6, <2>1, CountingUp
<1>8. Offset(seqs, i) + Len(seqs[i]) <= Offset(seqs, i + 1 + d)
  BY <1>1, <1>6, <1>7
<1>9. QED
  BY <1>6, <1>8

\* What stands at place k of the first n lists laid out: place q of list p.
Spot(seqs, n, k, s) ==
    \E p \in 1..n : \E q \in 1..Len(seqs[p]) : k = Offset(seqs, p) + q /\ s[k] = seqs[p][q]
Holds(seqs, n, s) ==
    /\ Len(s) = Offset(seqs, n + 1)
    /\ \A k \in 1..Len(s) : Spot(seqs, n, k, s)
    /\ \A p \in 1..n : \A q \in 1..Len(seqs[p]) :
          Offset(seqs, p) + q \in 1..Len(s) /\ s[Offset(seqs, p) + q] = seqs[p][q]

\* By counting the lists: where the places of each are in all of them laid out.
LEMMA SpotsStand ==
    ASSUME NEW X, NEW seqs \in Seq(Seq(X)), NEW n \in Nat, n <= Len(seqs), NEW g, LaidOut(seqs, Len(seqs), g)
    PROVE  n # 0 => g[n] \in Seq(X) /\ Holds(seqs, n, g[n])
<1> DEFINE Good(i) == i # 0 => g[i] \in Seq(X) /\ Holds(seqs, i, g[i])
           P == {i \in Nat : Good(i)}
<1>1. /\ Len(seqs) \in Nat
      /\ \A i \in 1..Len(seqs) : seqs[i] \in Seq(X) /\ Len(seqs[i]) \in Nat
      /\ \A i \in 1..Len(seqs) : g[i] = IF i = 1 THEN seqs[i] ELSE g[i - 1] \o seqs[i]
  <2>1. Len(seqs) \in Nat /\ \A i \in 1..Len(seqs) : seqs[i] \in Seq(X) /\ Len(seqs[i]) \in Nat
    OBVIOUS
  <2>2. \A i \in 1..Len(seqs) : g[i] = IF i = 1 THEN seqs[i] ELSE g[i - 1] \o seqs[i]
    BY LaidOutAt
  <2>3. QED
    BY <2>1, <2>2
<1>2. \A m \in 1..Len(seqs) : /\ Offset(seqs, m) \in Nat
                              /\ Offset(seqs, m + 1) = Offset(seqs, m) + Len(seqs[m])
  <2>1. SUFFICES ASSUME NEW m \in 1..Len(seqs)
                 PROVE  Offset(seqs, m) \in Nat /\ Offset(seqs, m + 1) = Offset(seqs, m) + Len(seqs[m])
    OBVIOUS
  <2>2. m \in 1..(Len(seqs) + 1) /\ m <= Len(seqs)
    BY <1>1
  <2>3. QED
    BY <2>2, Offsets
<1>3. 0 \in P
  OBVIOUS
<1>4. ASSUME NEW i \in Nat, i < n, Good(i) PROVE Good(i + 1)
  <2>0. i + 1 \in 1..Len(seqs)
    BY <1>1, <1>4
  <2>1. CASE i = 0
    <3>1. g[1] = seqs[1] /\ seqs[1] \in Seq(X) /\ Len(seqs[1]) \in Nat /\ 1 \in 1..Len(seqs)
      BY <1>1, <2>0, <2>1
    <3>2. Offset(seqs, 1) = 0 /\ Offset(seqs, 1 + 1) = Len(seqs[1])
      <4>1. 1 \in 1..(Len(seqs) + 1)
        BY <1>1
      <4>2. Offset(seqs, 1) = 0
        BY <4>1, Offsets
      <4>3. QED
        BY <1>2, <3>1, <4>2
    <3>3. \A q \in 1..Len(seqs[1]) : 0 + q = q
      OBVIOUS
    <3>4. Holds(seqs, 1, g[1])
      BY <3>1, <3>2, <3>3 DEF Holds, Spot
    <3>5. QED
      BY <2>1, <3>1, <3>4
  <2>2. CASE i # 0
    <3> DEFINE s == g[i]
               t == seqs[i + 1]
               f == s \o t
               o == Offset(seqs, i + 1)
    <3>1. g[i + 1] = f
      <4>1. i + 1 # 1 /\ (i + 1) - 1 = i
        BY <2>2
      <4>2. g[i + 1] = g[(i + 1) - 1] \o seqs[i + 1]
        BY <1>1, <2>0, <4>1
      <4>3. QED
        BY <4>1, <4>2
    <3>2. s \in Seq(X) /\ t \in Seq(X) /\ Holds(seqs, i, s)
      BY <1>1, <1>4, <2>0, <2>2
    <3>3. /\ f \in Seq(X) /\ Len(f) = Len(s) + Len(t) /\ Len(s) \in Nat /\ Len(t) \in Nat
          /\ \A k \in 1..Len(f) : f[k] = IF k <= Len(s) THEN s[k] ELSE t[k - Len(s)]
      <4> HIDE DEF s, t
      <4>1. /\ f \in Seq(X) /\ Len(f) = Len(s) + Len(t)
            /\ \A k \in 1..Len(f) : f[k] = IF k <= Len(s) THEN s[k] ELSE t[k - Len(s)]
        BY <3>2, Appended
      <4>2. Len(s) \in Nat /\ Len(t) \in Nat
        BY <3>2
      <4>3. QED
        BY <4>1, <4>2
    <3>4. Len(s) = o /\ Offset(seqs, (i + 1) + 1) = o + Len(t)
      <4>1. Len(s) = o
        BY <3>2 DEF Holds
      <4>2. QED
        BY <1>2, <2>0, <4>1
    <3> HIDE DEF s, f
    <3>5. Len(f) = Offset(seqs, (i + 1) + 1)
      BY <3>3, <3>4
    <3>6. ASSUME NEW k \in 1..Len(f) PROVE Spot(seqs, i + 1, k, f)
      <4>1. CASE k <= Len(s)
        <5>1. k \in 1..Len(s) /\ f[k] = s[k]
          BY <3>3, <4>1
        <5>2. PICK p \in 1..i : \E q \in 1..Len(seqs[p]) : k = Offset(seqs, p) + q /\ s[k] = seqs[p][q]
          BY <3>2, <5>1 DEF Holds, Spot
        <5>3. p \in 1..(i + 1)
          OBVIOUS
        <5>4. QED
          BY <5>1, <5>2, <5>3 DEF Spot
      <4>2. CASE ~(k <= Len(s))
        <5> HIDE DEF t
        <5>1. f[k] = t[k - Len(s)] /\ k - Len(s) \in 1..Len(t) /\ k = o + (k - Len(s))
          <6> HIDE DEF o
          <6>1. QED
            BY <3>3, <3>4, <4>2
        <5>2. i + 1 \in 1..(i + 1)
          OBVIOUS
        <5>3. QED
          BY <5>1, <5>2 DEF Spot, t
      <4>3. QED
        BY <4>1, <4>2
    <3>7. ASSUME NEW p \in 1..(i + 1), NEW q \in 1..Len(seqs[p])
          PROVE  Offset(seqs, p) + q \in 1..Len(f) /\ f[Offset(seqs, p) + q] = seqs[p][q]
      <4>1. PICK k : k = Offset(seqs, p) + q
        OBVIOUS
      <4>2. CASE p = i + 1
        <5>1. q \in 1..Len(t) /\ k = Len(s) + q
          BY <3>4, <4>1, <4>2
        <5> HIDE DEF t
        <5>2. k \in 1..Len(f) /\ ~(k <= Len(s)) /\ k - Len(s) = q
          BY <3>3, <5>1
        <5>3. f[k] = t[q]
          BY <3>3, <5>2
        <5>4. QED
          BY <4>1, <4>2, <5>2, <5>3 DEF t
      <4>3. CASE p # i + 1
        <5>1. p \in 1..i
          BY <4>3
        <5>2. k \in 1..Len(s) /\ s[k] = seqs[p][q]
          BY <3>2, <4>1, <5>1 DEF Holds
        <5> HIDE DEF t
        <5>3. k \in 1..Len(f) /\ f[k] = s[k]
          BY <3>3, <5>2
        <5>4. QED
          BY <4>1, <5>2, <5>3
      <4>4. QED
        BY <4>2, <4>3
    <3>8. Holds(seqs, i + 1, f)
      BY <3>5, <3>6, <3>7 DEF Holds
    <3>9. QED
      BY <3>1, <3>3, <3>8
  <2>3. QED
    BY <2>1, <2>2
<1> HIDE DEF Good
<1>5. \A i \in Nat : i < n /\ i \in P => i + 1 \in P
  BY <1>4
<1> HIDE DEF P
<1>6. n \in P
  BY <1>3, <1>5, CountingUp
<1>7. QED
  BY <1>6 DEF P, Good

\* A list of lists laid out in one: place q of list p is place q after all before it.
LEMMA FlatSpots ==
    ASSUME NEW X, NEW seqs \in Seq(Seq(X))
    PROVE  FlattenSeq(seqs) \in Seq(X) /\ Holds(seqs, Len(seqs), FlattenSeq(seqs))
<1>1. CASE Len(seqs) = 0
  <2>1. FlattenSeq(seqs) = <<>>
    BY <1>1 DEF FlattenSeq
  <2>2. Offset(seqs, 0 + 1) = 0
    <3>1. 1 \in 1..(Len(seqs) + 1) /\ 0 + 1 = 1
      BY <1>1
    <3>2. QED
      BY <3>1, Offsets
  <2>3. Len(<<>>) = 0 /\ 1..0 = {} /\ <<>> \in Seq(X)
    OBVIOUS
  <2>4. QED
    BY <1>1, <2>1, <2>2, <2>3 DEF Holds
<1>2. CASE Len(seqs) # 0
  <2>1. PICK g : LaidOut(seqs, Len(seqs), g) /\ FlattenSeq(seqs) = g[Len(seqs)]
    BY <1>2, FlatIsPrefix
  <2>2. Len(seqs) \in Nat /\ Len(seqs) <= Len(seqs)
    OBVIOUS
  <2>3. QED
    BY <1>2, <2>1, <2>2, SpotsStand
<1>3. QED
  BY <1>1, <1>2

\* What the members of a list come to, each taken at what v says.
Tally(v, s) == SumFunction([k \in 1..Len(s) |-> v[s[k]]])

\* It is a natural, and may be taken one list after the other.
LEMMA TotalOfBoth ==
    ASSUME NEW X, NEW v \in [X -> Nat], NEW s \in Seq(X), NEW t \in Seq(X)
    PROVE  Tally(v, s) \in Nat /\ Tally(v, s \o t) = Tally(v, s) + Tally(v, t)
<1> DEFINE f == s \o t
           A == 1..Len(s)
           B == 1..Len(t)
           D == 1..Len(f)
           F == [k \in D |-> v[f[k]]]
           G == [k \in A |-> v[s[k]]]
           H == [k \in B |-> v[t[k]]]
<1>1. /\ Len(s) \in Nat /\ Len(t) \in Nat /\ f \in Seq(X) /\ Len(f) = Len(s) + Len(t)
      /\ \A k \in 1..Len(f) : f[k] = IF k <= Len(s) THEN s[k] ELSE t[k - Len(s)]
  BY Appended
<1> HIDE DEF f
<1>2. (\A k \in A : s[k] \in X) /\ (\A k \in B : t[k] \in X) /\ \A k \in D : f[k] \in X
  BY <1>1
<1>3. F \in [D -> Nat] /\ G \in [A -> Nat] /\ H \in [B -> Nat]
  BY <1>2
<1>4. IsFiniteSet(A) /\ IsFiniteSet(B) /\ IsFiniteSet(D)
  BY <1>1, FS_Interval
<1>5. A \in SUBSET D /\ \A k \in D \ A : k - Len(s) \in B /\ ~(k <= Len(s))
  BY <1>1
<1>6. (\A k \in A : F[k] = G[k]) /\ \A k \in D \ A : F[k] = H[k - Len(s)]
  <2>1. \A k \in A : k \in D /\ k <= Len(s)
    BY <1>1
  <2>2. QED
    BY <1>1, <1>5, <2>1
<1>7. Tally(v, s) = SumFunction(G) /\ Tally(v, t) = SumFunction(H) /\ Tally(v, f) = SumFunction(F)
  BY DEF Tally
<1> HIDE DEF F, G, H
<1>8. SumFunction(F) = SumFunction([k \in A |-> F[k]]) + SumFunction([k \in D \ A |-> F[k]])
  <2>1. A \in SUBSET D
    BY <1>5
  <2>2. IsFiniteSet(D) /\ F \in [D -> Nat]
    BY <1>3, <1>4
  <2> HIDE DEF A, D
  <2>3. QED
    BY ONLY <2>1, <2>2, SumOfTwo
<1>9. [k \in A |-> F[k]] = G
  BY <1>3, <1>6
<1>10. SumFunction([k \in D \ A |-> F[k]]) = SumFunction(H)
  <2>1. PICK E, e, h : E = D \ A /\ e = [k \in E |-> F[k]] /\ h = [k \in E |-> k - Len(s)]
    OBVIOUS
  <2>2. IsFiniteSet(E) /\ e \in [E -> Nat]
    <3>1. E \subseteq D
      BY <2>1
    <3> HIDE DEF D
    <3>2. QED
      BY <1>3, <1>4, <2>1, <3>1, FS_Subset
  <2>3. \A k \in E : k - Len(s) \in B
    BY <1>5, <2>1
  <2>4. h \in Bijection(E, B)
    <3>1. h \in [E -> B]
      BY <2>1, <2>3
    <3>2. \A j, k \in E : h[j] = h[k] => j = k
      BY <1>1, <2>1
    <3>3. \A q \in B : \E k \in E : h[k] = q
      <4>1. SUFFICES ASSUME NEW q \in B PROVE \E k \in E : h[k] = q
        OBVIOUS
      <4>2. PICK k : k = Len(s) + q
        OBVIOUS
      <4>3. k \in D /\ k \notin A /\ k - Len(s) = q
        BY <1>1, <4>2
      <4>4. k \in E
        BY <2>1, <4>3
      <4>5. h[k] = q
        BY <2>1, <4>3, <4>4
      <4>6. QED
        BY <4>4, <4>5
    <3>4. QED
      BY <3>1, <3>2, <3>3 DEF Bijection, Injection, Surjection, IsInjective
  <2>5. \A k \in E : e[k] = H[h[k]]
    BY <1>6, <2>1
  <2>6. SumFunction(e) = SumFunction(H)
    <3>1. PICK C, k : C = B /\ k = H
      OBVIOUS
    <3>2. k \in [C -> Nat]
      BY <1>3, <3>1
    <3>3. h \in Bijection(E, C)
      BY <2>4, <3>1
    <3>4. e \in [E -> Nat]
      BY <2>2
    <3>7. IsFiniteSet(E) /\ \A j \in E : e[j] = k[h[j]]
      BY <2>2, <2>5, <3>1
    <3>5. SumFunction(e) = SumFunction(k)
      <4>1. Renames(h, E, C, e, k)
        BY <3>2, <3>3, <3>4, <3>7 DEF Renames
      <4>2. QED
        BY ONLY <4>1, SumsRenamed
    <3>6. QED
      BY <3>1, <3>5
  <2>7. QED
    BY <2>1, <2>6
<1>11. SumFunction(G) \in Nat
  BY <1>3, <1>4, SumSplits
<1>12. QED
  BY <1>7, <1>8, <1>9, <1>10, <1>11 DEF f

\* What comes of the first n lists, laid out in one, is what comes of each of them.
AddsUp(v, seqs, g, n) == Tally(v, g[n]) = SumFunction([p \in 1..n |-> Tally(v, seqs[p])])

\* By counting the lists: what comes of those laid out is what comes of each.
LEMMA PrefixTotals ==
    ASSUME NEW X, NEW v \in [X -> Nat], NEW seqs \in Seq(Seq(X)), NEW n \in Nat \ {0}, n <= Len(seqs),
           NEW g, LaidOut(seqs, Len(seqs), g)
    PROVE  AddsUp(v, seqs, g, n)
<1> DEFINE part == [p \in 1..Len(seqs) |-> Tally(v, seqs[p])]
           F(i) == [p \in 1..i |-> part[p]]
           P == {i \in Nat : i + 1 <= n => Tally(v, g[i + 1]) = SumFunction(F(i + 1))}
<1>1. Len(seqs) \in Nat /\ \A i \in 1..Len(seqs) : seqs[i] \in Seq(X)
  OBVIOUS
<1>2. \A i \in 1..Len(seqs) : g[i] = IF i = 1 THEN seqs[i] ELSE g[i - 1] \o seqs[i]
  BY LaidOutAt
<1>3. \A p \in 1..Len(seqs) : part[p] = Tally(v, seqs[p]) /\ part[p] \in Nat
  BY <1>1, TotalOfBoth
<1> HIDE DEF part
<1>4. ASSUME NEW i \in Nat, i + 1 <= n
      PROVE  /\ F(i + 1) \in [1..(i + 1) -> Nat] /\ i + 1 \in 1..Len(seqs)
             /\ SumFunction(F(i + 1)) = part[i + 1] + SumFunction(F(i))
  <2>1. i + 1 \in 1..Len(seqs) /\ \A p \in 1..(i + 1) : p \in 1..Len(seqs)
    BY <1>1, <1>4
  <2>2. \A p \in 1..(i + 1) : part[p] \in Nat
    BY <1>3, <2>1
  <2>3. F(i + 1) \in [1..(i + 1) -> Nat]
    BY ONLY <2>2
  <2>4. PICK m, f : m = i + 1 /\ f = F(i + 1)
    OBVIOUS
  <2>5. m \in Nat \ {0} /\ m - 1 = i
    BY <2>4
  <2>6. f \in [1..m -> Nat]
    BY <2>3, <2>4
  <2>7. SumFunction(f) = f[m] + SumFunction([p \in 1..(m - 1) |-> f[p]])
    BY ONLY <2>5, <2>6, SumLast
  <2>8. f[m] = part[m] /\ [p \in 1..(m - 1) |-> f[p]] = F(i)
    <3>1. (\A p \in 1..i : p \in 1..m) /\ m \in 1..m
      BY <2>4
    <3>2. \A p \in 1..m : f[p] = part[p]
      BY ONLY <2>4
    <3>3. [p \in 1..i |-> f[p]] = F(i)
      BY <3>1, <3>2
    <3>4. QED
      BY <2>5, <3>1, <3>2, <3>3
  <2> HIDE DEF F
  <2>9. QED
    BY <2>1, <2>3, <2>4, <2>7, <2>8
<1>5. 0 \in P
  <2>1. 0 + 1 = 1 /\ 1 <= n
    OBVIOUS
  <2>2. Tally(v, g[1]) = part[1]
    <3>1. 1 \in 1..Len(seqs)
      BY <1>1
    <3>2. g[1] = seqs[1]
      BY <1>2, <3>1
    <3>3. QED
      BY <1>3, <3>1, <3>2
  <2>3. SumFunction(F(0 + 1)) = part[0 + 1] + SumFunction(F(0))
    BY <1>4, <2>1
  <2>4. SumFunction(F(0)) = 0
    <3>1. PICK h, D : h = F(0) /\ D = 1..0
      OBVIOUS
    <3>2. h \in [D -> Nat] /\ \A x \in D : h[x] = 0
      BY <3>1
    <3>3. IsFiniteSet(D)
      BY <3>1, FS_Interval
    <3>4. SumFunction(h) = 0
      BY ONLY <3>2, <3>3, SumOfZeros
    <3>5. QED
      BY <3>1, <3>4
  <2>5. part[1] \in Nat
    BY <1>1, <1>3
  <2> HIDE DEF F
  <2>6. SumFunction(F(0 + 1)) = part[1]
    BY <2>1, <2>3, <2>4, <2>5
  <2>7. Tally(v, g[0 + 1]) = SumFunction(F(0 + 1))
    BY <2>1, <2>2, <2>6
  <2>8. QED
    BY <2>7
<1>6. ASSUME NEW i \in Nat, i \in P PROVE i + 1 \in P
  <2>1. SUFFICES ASSUME (i + 1) + 1 <= n PROVE Tally(v, g[(i + 1) + 1]) = SumFunction(F((i + 1) + 1))
    BY DEF P
  <2>2. PICK m : m = i + 1
    OBVIOUS
  <2>3. m \in Nat /\ m + 1 <= n /\ m <= n /\ m # 0 /\ m + 1 # 1 /\ (m + 1) - 1 = m
    BY <2>1, <2>2
  <2>4. Tally(v, g[m]) = SumFunction(F(m))
    BY <1>6, <2>2, <2>3
  <2>5. SumFunction(F(m + 1)) = part[m + 1] + SumFunction(F(m)) /\ m + 1 \in 1..Len(seqs)
    BY <1>4, <2>3
  <2> HIDE DEF F
  <2>6. g[m + 1] = g[m] \o seqs[m + 1]
    <3>1. g[m + 1] = g[(m + 1) - 1] \o seqs[m + 1]
      BY <1>2, <2>3, <2>5
    <3>2. QED
      BY <2>3, <3>1
  <2>7. g[m] \in Seq(X) /\ seqs[m + 1] \in Seq(X)
    <3>1. m \in Nat /\ m <= Len(seqs)
      BY <1>1, <2>3
    <3>2. m # 0 => g[m] \in Seq(X)
      BY <3>1, SpotsStand
    <3>3. QED
      BY <1>1, <2>3, <2>5, <3>2
  <2>8. Tally(v, g[m + 1]) = Tally(v, g[m]) + Tally(v, seqs[m + 1]) /\ Tally(v, g[m]) \in Nat
    <3>1. PICK s, t : s = g[m] /\ t = seqs[m + 1]
      OBVIOUS
    <3>2. s \in Seq(X) /\ t \in Seq(X)
      BY <2>7, <3>1
    <3>3. Tally(v, s) \in Nat /\ Tally(v, s \o t) = Tally(v, s) + Tally(v, t)
      BY <3>2, TotalOfBoth
    <3>4. QED
      BY <2>6, <3>1, <3>3
  <2>9. part[m + 1] = Tally(v, seqs[m + 1]) /\ part[m + 1] \in Nat
    BY <1>3, <2>5
  <2>10. Tally(v, g[m + 1]) = SumFunction(F(m + 1))
    BY <2>4, <2>5, <2>8, <2>9
  <2>11. QED
    BY <2>2, <2>10
<1>7. PICK k : k = n - 1
  OBVIOUS
<1>8. k \in Nat /\ k + 1 = n
  BY <1>7
<1>9. k \in P
  <2>1. \A i \in Nat : i < k /\ i \in P => i + 1 \in P
    BY <1>6
  <2> HIDE DEF P
  <2>2. QED
    BY <1>5, <1>8, <2>1, CountingUp
<1>10. Tally(v, g[k + 1]) = SumFunction(F(k + 1))
  BY <1>8, <1>9
<1>11. F(n) = [p \in 1..n |-> Tally(v, seqs[p])]
  <2>1. \A p \in 1..n : p \in 1..Len(seqs)
    BY <1>1
  <2>2. QED
    BY <1>3, <2>1
<1>12. QED
  BY <1>8, <1>10, <1>11 DEF AddsUp

\* What comes of lists laid out in one is what comes of each, together.
LEMMA TotalOfFlat ==
    ASSUME NEW X, NEW v \in [X -> Nat], NEW seqs \in Seq(Seq(X))
    PROVE  Tally(v, FlattenSeq(seqs)) = SumFunction([p \in 1..Len(seqs) |-> Tally(v, seqs[p])])
<1>1. CASE Len(seqs) = 0
  <2>1. FlattenSeq(seqs) = <<>> /\ Len(<<>>) = 0
    BY <1>1 DEF FlattenSeq
  <2>2. PICK D : D = 1..0
    OBVIOUS
  <2>3. D = {} /\ IsFiniteSet(D)
    BY <2>2, FS_EmptySet
  <2>4. ASSUME NEW h \in [D -> Nat] PROVE SumFunction(h) = 0
    BY <2>3, SumOfZeros
  <2>5. PICK h, k : h = [p \in D |-> v[<<>>[p]]] /\ k = [p \in D |-> Tally(v, seqs[p])]
    OBVIOUS
  <2>6. h \in [D -> Nat] /\ k \in [D -> Nat]
    BY <2>3, <2>5
  <2>7. SumFunction(h) = 0 /\ SumFunction(k) = 0
    BY <2>4, <2>6
  <2>8. Tally(v, FlattenSeq(seqs)) = SumFunction(h)
    BY <2>1, <2>2, <2>5 DEF Tally
  <2>9. [p \in 1..Len(seqs) |-> Tally(v, seqs[p])] = k
    BY <1>1, <2>2, <2>5
  <2>10. QED
    BY <2>7, <2>8, <2>9
<1>2. CASE Len(seqs) # 0
  <2>1. PICK g : LaidOut(seqs, Len(seqs), g) /\ FlattenSeq(seqs) = g[Len(seqs)]
    BY <1>2, FlatIsPrefix
  <2>2. Len(seqs) \in Nat \ {0} /\ Len(seqs) <= Len(seqs)
    BY <1>2
  <2>3. PICK n : n = Len(seqs)
    OBVIOUS
  <2>4. n \in Nat \ {0}
    BY <2>2, <2>3
  <2>7. n <= Len(seqs) /\ LaidOut(seqs, Len(seqs), g)
    BY <2>1, <2>2, <2>3
  <2>8. seqs \in Seq(Seq(X))
    OBVIOUS
  <2>9. v \in [X -> Nat]
    OBVIOUS
  <2>5. Tally(v, g[n]) = SumFunction([p \in 1..n |-> Tally(v, seqs[p])])
    <3>1. AddsUp(v, seqs, g, n)
      BY ONLY <2>4, <2>7, <2>8, <2>9, PrefixTotals
    <3>2. QED
      BY <3>1 DEF AddsUp
  <2>6. QED
    BY <2>1, <2>3, <2>5
<1>3. QED
  BY <1>1, <1>2
===================================================================================
