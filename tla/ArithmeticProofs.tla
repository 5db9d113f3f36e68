------------------------- MODULE ArithmeticProofs -------------------------
(***************************************************************************)
(* What theorems need to know of rounded quotients and of sums.            *)
(*                                                                         *)
(* A quotient is known by its bounds.  A sum of natural numbers is the     *)
(* number of its units, each named by the element of the domain it belongs *)
(* to and its number there.  That closed form satisfies the recursion of   *)
(* Total, and two solutions of the recursion agree because a smallest set  *)
(* on which they differ would not exist.  All other facts are facts about  *)
(* the cardinality of sets of units.                                       *)
(***************************************************************************)
EXTENDS Totals, FixedPoint, FiniteSetTheorems, TLAPS

---------------------------------------------------------------------------
(* Quotients.  n \div d for a positive d is the integer part of n / d.     *)
LEMMA FloorBounds ==
  ASSUME NEW n \in Int, NEW d \in Nat \ {0}
  PROVE  /\ FloorDiv(n, d) \in Int
         /\ FloorDiv(n, d) * d <= n
         /\ n < FloorDiv(n, d) * d + d
BY SMT DEF FloorDiv

LEMMA CeilBounds ==
  ASSUME NEW n \in Int, NEW d \in Nat \ {0}
  PROVE  /\ CeilDiv(n, d) \in Int
         /\ n <= CeilDiv(n, d) * d
         /\ CeilDiv(n, d) * d < n + d
BY SMT DEF CeilDiv

(* The greatest integer whose product with d does not exceed n.            *)
LEMMA FloorIsGreatest ==
  ASSUME NEW n \in Int, NEW d \in Nat \ {0}, NEW q \in Int, q * d <= n
  PROVE  q <= FloorDiv(n, d)
<1> DEFINE f == FloorDiv(n, d)
<1>1. f \in Int /\ n < (f + 1) * d
  BY FloorBounds
<1> HIDE DEF f
<1>2. q * d < (f + 1) * d
  BY <1>1
<1>3. q < f + 1
  BY <1>1, <1>2
<1> QED BY <1>1, <1>3 DEF f

(* The least integer whose product with d reaches n.                       *)
LEMMA CeilIsLeast ==
  ASSUME NEW n \in Int, NEW d \in Nat \ {0}, NEW q \in Int, n <= q * d
  PROVE  CeilDiv(n, d) <= q
<1> DEFINE c == CeilDiv(n, d)
<1>0. c \in Int /\ c * d < n + d
  BY CeilBounds
<1> HIDE DEF c
<1>1. c \in Int /\ (c - 1) * d < n
  BY <1>0
<1>2. (c - 1) * d < q * d
  BY <1>1
<1>3. c - 1 < q
  BY <1>1, <1>2
<1> QED BY <1>1, <1>3 DEF c

LEMMA FloorOfNat ==
  ASSUME NEW n \in Nat, NEW d \in Nat \ {0}
  PROVE  FloorDiv(n, d) \in Nat
BY SMT DEF FloorDiv

LEMMA CeilOfNat ==
  ASSUME NEW n \in Nat, NEW d \in Nat \ {0}
  PROVE  CeilDiv(n, d) \in Nat
BY SMT DEF CeilDiv

(* The four roundings of naturals are naturals.                            *)
LEMMA RoundingOfNat ==
  ASSUME NEW x \in Nat, NEW y \in Nat, NEW d \in Nat \ {0}
  PROVE  /\ MulFloor(x, y, d) \in Nat
         /\ MulCeil(x, y, d) \in Nat
         /\ DivFloor(x, d, y) \in Nat
         /\ DivCeil(x, d, y) \in Nat
<1>1. x * y \in Nat
  OBVIOUS
<1> QED BY <1>1, FloorOfNat, CeilOfNat DEF MulFloor, MulCeil, DivFloor, DivCeil

LEMMA RoundingOfInt ==
  ASSUME NEW x \in Int, NEW y \in Int, NEW d \in Nat \ {0}
  PROVE  MulFloor(x, y, d) \in Int /\ MulCeil(x, y, d) \in Int
<1>1. x * y \in Int
  OBVIOUS
<1> QED BY <1>1, FloorBounds, CeilBounds DEF MulFloor, MulCeil

(* A part of x, of at most all of it, is at most x.                        *)
LEMMA PartIsLess ==
  ASSUME NEW x \in Nat, NEW s \in Nat \ {0}, NEW y \in 0..s
  PROVE  MulFloor(x, y, s) <= x /\ MulCeil(x, y, s) <= x
<1>1. x * y \in Int /\ x * y <= x * s
  OBVIOUS
<1>2. MulCeil(x, y, s) <= x
  BY <1>1, CeilIsLeast DEF MulCeil
<1>3. MulFloor(x, y, s) <= x
  <2> DEFINE f == FloorDiv(x * y, s)
  <2>1. f \in Int /\ f * s <= x * y
    BY <1>1, FloorBounds
  <2> HIDE DEF f
  <2>2. f * s <= x * s
    BY <1>1, <2>1
  <2>3. f <= x
    BY <2>1, <2>2
  <2> QED BY <2>3 DEF f, MulFloor
<1> QED BY <1>2, <1>3

(* A product that grows by a whole number of units grows its quotient by   *)
(* at least, or by at most, as much.                                       *)
LEMMA FloorStep ==
  ASSUME NEW m \in Int, NEW n \in Int, NEW a \in Int, NEW d \in Nat \ {0},
         n <= m + a * d
  PROVE  FloorDiv(n, d) <= FloorDiv(m, d) + a
<1> DEFINE f == FloorDiv(n, d)
           g == FloorDiv(m, d)
<1>1. f \in Int /\ f * d <= n /\ g \in Int /\ m < g * d + d
  BY FloorBounds
<1> HIDE DEF f, g
<1>2. f * d < (g + a + 1) * d
  BY <1>1
<1>3. f < g + a + 1
  BY <1>1, <1>2
<1> QED BY <1>1, <1>3 DEF f, g

LEMMA CeilStep ==
  ASSUME NEW m \in Int, NEW n \in Int, NEW a \in Int, NEW d \in Nat \ {0},
         m + a * d <= n
  PROVE  CeilDiv(m, d) + a <= CeilDiv(n, d)
<1> DEFINE c == CeilDiv(m, d)
           e == CeilDiv(n, d)
<1>1. c \in Int /\ c * d < m + d /\ e \in Int /\ n <= e * d
  BY CeilBounds
<1> HIDE DEF c, e
<1>2. (c + a - 1) * d < e * d
  BY <1>1
<1>3. c + a - 1 < e
  BY <1>1, <1>2
<1> QED BY <1>1, <1>3 DEF c, e

---------------------------------------------------------------------------
(* The units of a sum: those of the values of f on S.                      *)
UnitsOf(f, S) == UNION {{x} \X (1..f[x]) : x \in S}

Count(f, S) == Cardinality(UnitsOf(f, S))

(* One more element adds its value.                                        *)
LEMMA CountAdd ==
  ASSUME NEW f, NEW S, IsFiniteSet(UnitsOf(f, S)),
         NEW x, x \notin S, f[x] \in Nat
  PROVE  /\ IsFiniteSet(UnitsOf(f, S \cup {x}))
         /\ Count(f, S \cup {x}) = Count(f, S) + f[x]
PROOF
<1> DEFINE new == {x} \X (1..f[x])
<1>1. UnitsOf(f, S \cup {x}) = UnitsOf(f, S) \cup new
  BY DEF UnitsOf
<1>2. IsFiniteSet(new) /\ Cardinality(new) = f[x]
  <2>1. IsFiniteSet({x}) /\ Cardinality({x}) = 1
    BY FS_Singleton
  <2>2. IsFiniteSet(1..f[x]) /\ Cardinality(1..f[x]) = f[x]
    BY FS_Interval
  <2>3. Cardinality(new) = Cardinality({x}) * Cardinality(1..f[x]) /\ IsFiniteSet(new)
    BY <2>1, <2>2, FS_Product
  <2> QED BY <2>1, <2>2, <2>3
<1>3. UnitsOf(f, S) \cap new = {}
  BY DEF UnitsOf
<1>4. Cardinality(UnitsOf(f, S) \cap new) = 0
  BY <1>3, FS_EmptySet
<1>5. Cardinality(UnitsOf(f, S)) \in Nat
  BY FS_CardinalityType
<1> HIDE DEF new
<1>6. /\ IsFiniteSet(UnitsOf(f, S) \cup new)
      /\ Cardinality(UnitsOf(f, S) \cup new)
           = Cardinality(UnitsOf(f, S)) + Cardinality(new)
               - Cardinality(UnitsOf(f, S) \cap new)
  BY <1>2, FS_Union
<1>7. Count(f, S \cup {x}) = Cardinality(UnitsOf(f, S \cup {x}))
      /\ Count(f, S) = Cardinality(UnitsOf(f, S))
  BY DEF Count
<1>8. Cardinality(UnitsOf(f, S) \cup new) = Cardinality(UnitsOf(f, S)) + f[x]
  BY <1>2, <1>4, <1>5, <1>6
<1> QED BY <1>1, <1>6, <1>7, <1>8

(* The units of finitely many numbers are finitely many.                   *)
LEMMA UnitsFinite ==
  ASSUME NEW S, IsFiniteSet(S), NEW f \in [S -> Nat]
  PROVE  \A T \in SUBSET S : IsFiniteSet(UnitsOf(f, T))
PROOF
<1> DEFINE bad == {T \in SUBSET S : ~IsFiniteSet(UnitsOf(f, T))}
<1> SUFFICES ASSUME bad # {} PROVE FALSE
  OBVIOUS
<1>1. bad \subseteq FiniteSubsetsOf(S)
  BY FS_FiniteSubsetsOfFinite
<1>2. PICK T \in bad : \A U \in bad : ~ <<U, T>> \in StrictSubsetOrdering(S)
  BY <1>1, FS_StrictSubsetOrderingWellFounded, WFMin, Zenon
<1>3. T # {}
  <2>1. UnitsOf(f, {}) = {}
    BY DEF UnitsOf
  <2> QED BY <2>1, FS_EmptySet
<1>4. PICK x \in T : TRUE
  BY <1>3
<1>5. T \ {x} \notin bad
  BY <1>2, <1>4 DEF StrictSubsetOrdering
<1>6. IsFiniteSet(UnitsOf(f, T \ {x}))
  BY <1>5
<1>7. IsFiniteSet(UnitsOf(f, (T \ {x}) \cup {x}))
  BY <1>4, <1>6, CountAdd
<1>8. (T \ {x}) \cup {x} = T
  BY <1>4
<1> QED BY <1>7, <1>8

---------------------------------------------------------------------------
(* The recursion of Total.                                                 *)
SumStep(f, s, S) ==
  IF S = {} THEN 0
  ELSE LET x == CHOOSE x \in S : TRUE
       IN  f[x] + s[S \ {x}]

SumEquation(f, s) == s = [S \in SUBSET DOMAIN f |-> SumStep(f, s, S)]

LEMMA TotalDef ==
  ASSUME NEW f
  PROVE  Total(f) = (CHOOSE s : SumEquation(f, s))[DOMAIN f]
BY Zenon DEF Total, SumEquation, SumStep

(* Counting units satisfies it.                                            *)
LEMMA CountSolves ==
  ASSUME NEW D, IsFiniteSet(D), NEW f \in [D -> Nat]
  PROVE  SumEquation(f, [S \in SUBSET D |-> Count(f, S)])
PROOF
<1> DEFINE c == [S \in SUBSET D |-> Count(f, S)]
<1>1. ASSUME NEW S \in SUBSET D
      PROVE  c[S] = SumStep(f, c, S)
  <2>1. CASE S = {}
    <3>1. UnitsOf(f, {}) = {}
      BY DEF UnitsOf
    <3> QED BY <2>1, <3>1, FS_EmptySet DEF Count, SumStep
  <2>2. CASE S # {}
    <3> DEFINE x == CHOOSE x \in S : TRUE
    <3>1. x \in S
      BY <2>2
    <3>2. IsFiniteSet(UnitsOf(f, S \ {x}))
      BY UnitsFinite
    <3>3. Count(f, (S \ {x}) \cup {x}) = Count(f, S \ {x}) + f[x]
      BY <3>1, <3>2, CountAdd
    <3>4. (S \ {x}) \cup {x} = S
      BY <3>1
    <3>5. Count(f, S \ {x}) \in Nat /\ f[x] \in Nat
      BY <3>1, <3>2, FS_CardinalityType DEF Count
    <3>6. SumStep(f, c, S) = f[x] + c[S \ {x}]
      BY <2>2 DEF SumStep
    <3>7. c[S \ {x}] = Count(f, S \ {x})
      OBVIOUS
    <3>8. c[S] = Count(f, S)
      OBVIOUS
    <3> HIDE DEF x, c
    <3> QED BY <3>3, <3>4, <3>5, <3>6, <3>7, <3>8
  <2> QED BY <2>1, <2>2
<1> QED BY <1>1 DEF SumEquation

(* Nothing else does.                                                      *)
LEMMA SolutionUnique ==
  ASSUME NEW D, IsFiniteSet(D), NEW f \in [D -> Nat],
         NEW s, SumEquation(f, s), NEW t, SumEquation(f, t)
  PROVE  s[D] = t[D]
PROOF
<1> DEFINE bad == {S \in SUBSET D : s[S] # t[S]}
<1> SUFFICES ASSUME bad # {} PROVE FALSE
  OBVIOUS
<1>1. bad \subseteq FiniteSubsetsOf(D)
  BY FS_FiniteSubsetsOfFinite
<1>2. PICK S \in bad : \A U \in bad : ~ <<U, S>> \in StrictSubsetOrdering(D)
  BY <1>1, FS_StrictSubsetOrderingWellFounded, WFMin, Zenon
<1>3. s[S] = SumStep(f, s, S) /\ t[S] = SumStep(f, t, S)
  BY DEF SumEquation
<1>4. S # {}
  BY <1>3 DEF SumStep
<1> DEFINE x == CHOOSE x \in S : TRUE
<1>5. x \in S
  BY <1>4
<1>6. S \ {x} \notin bad
  <2>1. <<S \ {x}, S>> \in StrictSubsetOrdering(D)
    BY <1>5 DEF StrictSubsetOrdering
  <2> QED BY <1>2, <2>1
<1>7. s[S \ {x}] = t[S \ {x}]
  BY <1>6
<1> QED BY <1>3, <1>4, <1>7 DEF SumStep

(* A sum of natural numbers is the number of their units.                  *)
LEMMA TotalIsCount ==
  ASSUME NEW D, IsFiniteSet(D), NEW f \in [D -> Nat]
  PROVE  /\ Total(f) = Count(f, D)
         /\ Total(f) \in Nat
         /\ IsFiniteSet(UnitsOf(f, D))
PROOF
<1> DEFINE s == CHOOSE s : SumEquation(f, s)
           c == [S \in SUBSET D |-> Count(f, S)]
<1>1. SumEquation(f, c)
  BY CountSolves
<1>2. SumEquation(f, s)
  BY <1>1
<1>3. s[D] = c[D]
  BY <1>1, <1>2, SolutionUnique
<1>4. Total(f) = s[D]
  BY TotalDef
<1>5. c[D] = Count(f, D)
  OBVIOUS
<1>6. IsFiniteSet(UnitsOf(f, D))
  BY UnitsFinite
<1>7. Count(f, D) \in Nat
  BY <1>6, FS_CardinalityType DEF Count
<1> QED BY <1>3, <1>4, <1>5, <1>6, <1>7
---------------------------------------------------------------------------
(* What changes when one value changes.                                    *)
LEMMA TotalChange ==
  ASSUME NEW D, IsFiniteSet(D), NEW f \in [D -> Nat], NEW g \in [D -> Nat],
         NEW x \in D, \A y \in D \ {x} : f[y] = g[y]
  PROVE  Total(g) + f[x] = Total(f) + g[x]
PROOF
<1> DEFINE rest == D \ {x}
<1>1. UnitsOf(f, rest) = UnitsOf(g, rest)
  BY DEF UnitsOf
<1>2. IsFiniteSet(UnitsOf(f, rest)) /\ IsFiniteSet(UnitsOf(g, rest))
  BY UnitsFinite
<1>3. D = rest \cup {x} /\ x \notin rest
  OBVIOUS
<1>4. Count(f, rest) = Count(g, rest) /\ Count(f, rest) \in Nat
  BY <1>1, <1>2, FS_CardinalityType DEF Count
<1> HIDE DEF rest
<1>5. f[x] \in Nat /\ g[x] \in Nat
  OBVIOUS
<1>6. Count(f, D) = Count(f, rest) + f[x]
  BY <1>2, <1>3, <1>5, CountAdd
<1>7. Count(g, D) = Count(g, rest) + g[x]
  BY <1>2, <1>3, <1>5, CountAdd
<1>8. Total(f) = Count(f, D) /\ Total(g) = Count(g, D)
  BY TotalIsCount
<1> QED BY <1>4, <1>5, <1>6, <1>7, <1>8

(* No value is larger than the sum.                                        *)
LEMMA TotalBoundsMember ==
  ASSUME NEW D, IsFiniteSet(D), NEW f \in [D -> Nat], NEW x \in D
  PROVE  f[x] <= Total(f)
PROOF
<1> DEFINE g == [f EXCEPT ![x] = 0]
<1>1. g \in [D -> Nat] /\ g[x] = 0 /\ \A y \in D \ {x} : f[y] = g[y]
  OBVIOUS
<1> HIDE DEF g
<1>2. Total(g) + f[x] = Total(f) + g[x]
  BY <1>1, TotalChange
<1>3. Total(f) \in Nat /\ Total(g) \in Nat
  BY <1>1, TotalIsCount
<1>4. f[x] \in Nat
  OBVIOUS
<1> QED BY <1>1, <1>2, <1>3, <1>4

(* A sum of zeros is zero.                                                 *)
LEMMA TotalOfZeros ==
  ASSUME NEW D, IsFiniteSet(D), NEW f \in [D -> Nat], \A x \in D : f[x] = 0
  PROVE  Total(f) = 0
PROOF
<1>1. UnitsOf(f, D) = {}
  BY DEF UnitsOf
<1> QED BY <1>1, TotalIsCount, FS_EmptySet DEF Count

(* Sums grow with their terms.                                             *)
LEMMA TotalMonotone ==
  ASSUME NEW D, IsFiniteSet(D), NEW f \in [D -> Nat], NEW g \in [D -> Nat],
         \A x \in D : f[x] <= g[x]
  PROVE  Total(f) <= Total(g)
PROOF
<1>1. UnitsOf(f, D) \subseteq UnitsOf(g, D)
  <2> SUFFICES ASSUME NEW x \in D, NEW k \in 1..f[x]
               PROVE  k \in 1..g[x]
    BY DEF UnitsOf
  <2>1. f[x] \in Nat /\ g[x] \in Nat /\ f[x] <= g[x]
    OBVIOUS
  <2> QED BY <2>1
<1>2. Cardinality(UnitsOf(f, D)) <= Cardinality(UnitsOf(g, D))
  BY <1>1, TotalIsCount, FS_Subset
<1> QED BY <1>2, TotalIsCount DEF Count

(* Moving value from one member to another leaves the sum alone.           *)
LEMMA TotalMove ==
  ASSUME NEW D, IsFiniteSet(D), NEW f \in [D -> Nat], NEW g \in [D -> Nat],
         NEW x \in D, NEW y \in D, x # y,
         \A z \in D \ {x, y} : f[z] = g[z],
         f[x] + f[y] = g[x] + g[y]
  PROVE  Total(g) = Total(f)
PROOF
<1> DEFINE h == [f EXCEPT ![x] = g[x]]
<1>1. /\ h \in [D -> Nat] /\ h[x] = g[x] /\ h[y] = f[y]
      /\ \A z \in D \ {x} : f[z] = h[z]
      /\ \A z \in D \ {y} : h[z] = g[z]
  OBVIOUS
<1> HIDE DEF h
<1>2. Total(h) + f[x] = Total(f) + h[x]
  BY <1>1, TotalChange
<1>3. Total(g) + h[y] = Total(h) + g[y]
  BY <1>1, TotalChange
<1>4. Total(f) \in Nat /\ Total(g) \in Nat /\ Total(h) \in Nat
  BY <1>1, TotalIsCount
<1>5. f[x] \in Nat /\ f[y] \in Nat /\ g[x] \in Nat /\ g[y] \in Nat
  OBVIOUS
<1> QED BY <1>1, <1>2, <1>3, <1>4, <1>5
---------------------------------------------------------------------------
(* Induction over the subsets of a finite set, for a set of good subsets   *)
(* instead of a predicate.                                                 *)
LEMMA SubsetInduction ==
  ASSUME NEW S, IsFiniteSet(S), NEW good, {} \in good,
         \A T \in SUBSET S : \A x \in S \ T : T \in good => T \cup {x} \in good
  PROVE  S \in good
PROOF
<1> DEFINE bad == {T \in SUBSET S : T \notin good}
<1> SUFFICES ASSUME bad # {} PROVE FALSE
  OBVIOUS
<1>1. bad \subseteq FiniteSubsetsOf(S)
  BY FS_FiniteSubsetsOfFinite
<1>2. PICK T \in bad : \A U \in bad : ~ <<U, T>> \in StrictSubsetOrdering(S)
  BY <1>1, FS_StrictSubsetOrderingWellFounded, WFMin, Zenon
<1>3. PICK x \in T : TRUE
  OBVIOUS
<1>4. T \ {x} \in good
  <2> DEFINE U == T \ {x}
  <2>1. /\ <<U, T>> \in (SUBSET S) \X (SUBSET S)
        /\ U \subseteq T /\ U # T
    BY <1>3
  <2>2. <<U, T>> \in StrictSubsetOrdering(S)
    BY <2>1 DEF StrictSubsetOrdering
  <2>3. U \notin bad
    BY <1>2, <2>2, Zenon
  <2> QED BY <2>1, <2>3
<1>5. (T \ {x}) \cup {x} = T /\ T \ {x} \in SUBSET S /\ x \in S \ (T \ {x})
  BY <1>3
<1> QED BY <1>4, <1>5

(* A sum is the sum of two parts.                                          *)
LEMMA TotalSplit ==
  ASSUME NEW D, IsFiniteSet(D), NEW f \in [D -> Nat], NEW E, E \subseteq D
  PROVE  /\ Total(f) = Total([x \in E |-> f[x]]) + Total([x \in D \ E |-> f[x]])
         /\ Total([x \in E |-> f[x]]) \in Nat
         /\ Total([x \in D \ E |-> f[x]]) \in Nat
PROOF
<1> DEFINE g == [x \in E |-> f[x]]
           h == [x \in D \ E |-> f[x]]
<1>1. IsFiniteSet(E) /\ IsFiniteSet(D \ E)
  BY FS_Subset
<1>2. /\ UnitsOf(f, D) = UnitsOf(g, E) \cup UnitsOf(h, D \ E)
      /\ UnitsOf(g, E) \cap UnitsOf(h, D \ E) = {}
  <2>1. UnitsOf(g, E) = UNION {{x} \X (1..f[x]) : x \in E}
    BY DEF UnitsOf
  <2>2. UnitsOf(h, D \ E) = UNION {{x} \X (1..f[x]) : x \in D \ E}
    BY DEF UnitsOf
  <2>3. UnitsOf(f, D) = UNION {{x} \X (1..f[x]) : x \in D}
    BY DEF UnitsOf
  <2> HIDE DEF g, h
  <2> QED BY <2>1, <2>2, <2>3
<1>3. g \in [E -> Nat] /\ h \in [D \ E -> Nat]
  OBVIOUS
<1> HIDE DEF g, h
<1>4. /\ Total(g) = Cardinality(UnitsOf(g, E)) /\ Total(g) \in Nat
      /\ IsFiniteSet(UnitsOf(g, E))
  BY <1>1, <1>3, TotalIsCount DEF Count
<1>5. /\ Total(h) = Cardinality(UnitsOf(h, D \ E)) /\ Total(h) \in Nat
      /\ IsFiniteSet(UnitsOf(h, D \ E))
  BY <1>1, <1>3, TotalIsCount DEF Count
<1>6. Total(f) = Cardinality(UnitsOf(f, D))
  BY TotalIsCount DEF Count
<1>7. Cardinality(UnitsOf(g, E) \cap UnitsOf(h, D \ E)) = 0
  BY <1>2, FS_EmptySet
<1>8. Cardinality(UnitsOf(g, E) \cup UnitsOf(h, D \ E)) = Total(g) + Total(h) - 0
  BY <1>4, <1>5, <1>7, FS_Union
<1> QED BY <1>2, <1>4, <1>5, <1>6, <1>8 DEF g, h

(* A sum does not depend on the names of its terms.                        *)
LEMMA TotalRenamed ==
  ASSUME NEW D, IsFiniteSet(D), NEW f \in [D -> Nat],
         NEW E, IsFiniteSet(E), NEW g \in [E -> Nat],
         NEW name \in Bijection(D, E), \A x \in D : g[name[x]] = f[x]
  PROVE  Total(g) = Total(f)
PROOF
<1> DEFINE F == UnitsOf(f, D)
           G == UnitsOf(g, E)
           unit == [w \in F |-> <<name[w[1]], w[2]>>]
<1>1. /\ name \in [D -> E]
      /\ \A x, y \in D : name[x] = name[y] => x = y
      /\ \A y \in E : \E x \in D : name[x] = y
  BY DEF Bijection, Injection, Surjection, IsInjective
<1>2. /\ \A w \in F : /\ w[1] \in D /\ w[2] \in 1..f[w[1]] /\ w = <<w[1], w[2]>>
      /\ \A x \in D : \A k \in 1..f[x] : <<x, k>> \in F
      /\ \A w \in G : /\ w[1] \in E /\ w[2] \in 1..g[w[1]] /\ w = <<w[1], w[2]>>
      /\ \A y \in E : \A k \in 1..g[y] : <<y, k>> \in G
  BY DEF UnitsOf
<1> HIDE DEF F, G
<1>3. unit \in [F -> G]
  BY <1>1, <1>2
<1>4. ASSUME NEW v \in F, NEW w \in F, unit[v] = unit[w]
      PROVE  v = w
  <2>1. name[v[1]] = name[w[1]] /\ v[2] = w[2]
    BY <1>4
  <2>2. v[1] = w[1]
    BY <1>1, <1>2, <2>1
  <2> QED BY <1>2, <2>1, <2>2
<1>5. ASSUME NEW w \in G
      PROVE  \E v \in F : unit[v] = w
  <2>1. PICK x \in D : name[x] = w[1]
    BY <1>1, <1>2
  <2>2. <<x, w[2]>> \in F
    BY <1>2, <2>1
  <2>3. unit[<<x, w[2]>>] = w
    BY <1>2, <2>1, <2>2
  <2> QED BY <2>2, <2>3
<1> HIDE DEF unit
<1>6. unit \in Bijection(F, G)
  BY <1>3, <1>4, <1>5 DEF Bijection, Injection, Surjection, IsInjective
<1>7. ExistsBijection(F, G)
  BY <1>6 DEF ExistsBijection
<1>8. IsFiniteSet(F) /\ Total(f) = Cardinality(F) /\ Total(g) = Cardinality(G)
  BY TotalIsCount DEF Count, F, G
<1> QED BY <1>7, <1>8, FS_Bijection

(* Sums are linear.                                                        *)
LEMMA TotalPlus ==
  ASSUME NEW D, IsFiniteSet(D), NEW f \in [D -> Nat], NEW g \in [D -> Nat]
  PROVE  Total([x \in D |-> f[x] + g[x]]) = Total(f) + Total(g)
PROOF
<1> DEFINE h == [x \in D |-> f[x] + g[x]]
           good == {T \in SUBSET D : Count(h, T) = Count(f, T) + Count(g, T)}
<1>1. h \in [D -> Nat] /\ \A x \in D : h[x] = f[x] + g[x]
  OBVIOUS
<1> HIDE DEF h
<1>2. {} \in good
  <2>1. UnitsOf(h, {}) = {} /\ UnitsOf(f, {}) = {} /\ UnitsOf(g, {}) = {}
    BY DEF UnitsOf
  <2> QED BY <2>1, FS_EmptySet DEF Count
<1>3. ASSUME NEW T \in SUBSET D, NEW x \in D \ T, T \in good
      PROVE  T \cup {x} \in good
  <2>1. /\ IsFiniteSet(UnitsOf(f, T)) /\ IsFiniteSet(UnitsOf(g, T))
        /\ IsFiniteSet(UnitsOf(h, T))
    BY <1>1, UnitsFinite
  <2>2. f[x] \in Nat /\ g[x] \in Nat /\ h[x] = f[x] + g[x]
    BY <1>1
  <2>3. /\ Count(f, T \cup {x}) = Count(f, T) + f[x]
        /\ Count(g, T \cup {x}) = Count(g, T) + g[x]
        /\ Count(h, T \cup {x}) = Count(h, T) + h[x]
    BY <2>1, <2>2, CountAdd
  <2>4. Count(f, T) \in Nat /\ Count(g, T) \in Nat
    BY <2>1, FS_CardinalityType DEF Count
  <2> QED BY <1>3, <2>2, <2>3, <2>4
<1>4. D \in good
  <2> HIDE DEF good
  <2> QED BY <1>2, <1>3, SubsetInduction
<1>5. Total(h) = Count(h, D) /\ Total(f) = Count(f, D) /\ Total(g) = Count(g, D)
  BY <1>1, TotalIsCount
<1> QED BY <1>4, <1>5 DEF h

(* Scaling every term scales the sum.                                      *)
LEMMA TotalScaled ==
  ASSUME NEW D, IsFiniteSet(D), NEW f \in [D -> Nat], NEW c \in Nat
  PROVE  Total([x \in D |-> c * f[x]]) = c * Total(f)
PROOF
<1> DEFINE h == [x \in D |-> c * f[x]]
           good == {T \in SUBSET D : Count(h, T) = c * Count(f, T)}
<1>1. h \in [D -> Nat] /\ \A x \in D : h[x] = c * f[x]
  <2> SUFFICES ASSUME NEW x \in D PROVE c * f[x] \in Nat
    OBVIOUS
  <2>1. f[x] \in Nat
    OBVIOUS
  <2> QED BY <2>1
<1> HIDE DEF h
<1>2. {} \in good
  <2>1. UnitsOf(h, {}) = {} /\ UnitsOf(f, {}) = {}
    BY DEF UnitsOf
  <2> QED BY <2>1, FS_EmptySet DEF Count
<1>3. ASSUME NEW T \in SUBSET D, NEW x \in D \ T, T \in good
      PROVE  T \cup {x} \in good
  <2>1. IsFiniteSet(UnitsOf(f, T)) /\ IsFiniteSet(UnitsOf(h, T))
    BY <1>1, UnitsFinite
  <2>2. f[x] \in Nat /\ h[x] = c * f[x] /\ h[x] \in Nat
    BY <1>1
  <2>3. /\ Count(f, T \cup {x}) = Count(f, T) + f[x]
        /\ Count(h, T \cup {x}) = Count(h, T) + h[x]
    BY <2>1, <2>2, CountAdd
  <2>4. Count(f, T) \in Nat
    BY <2>1, FS_CardinalityType DEF Count
  <2>5. c * (Count(f, T) + f[x]) = c * Count(f, T) + c * f[x]
    BY <2>2, <2>4
  <2> QED BY <1>3, <2>2, <2>3, <2>5
<1>4. D \in good
  <2> HIDE DEF good
  <2> QED BY <1>2, <1>3, SubsetInduction
<1>5. Total(h) = Count(h, D) /\ Total(f) = Count(f, D)
  BY <1>1, TotalIsCount
<1> QED BY <1>4, <1>5 DEF h

(* A sum of one term.                                                      *)
LEMMA TotalOfOne ==
  ASSUME NEW x, NEW f \in [{x} -> Nat]
  PROVE  Total(f) = f[x]
PROOF
<1> DEFINE g == [y \in {x} |-> 0]
<1>1. IsFiniteSet({x}) /\ x \in {x}
  BY FS_Singleton
<1>2. /\ g \in [{x} -> Nat] /\ g[x] = 0
      /\ \A y \in {x} \ {x} : f[y] = g[y]
  OBVIOUS
<1>3. Total(g) = 0
  BY <1>1, <1>2, TotalOfZeros
<1> HIDE DEF g
<1>4. Total(g) + f[x] = Total(f) + g[x]
  BY <1>1, <1>2, TotalChange
<1>5. Total(f) \in Nat /\ f[x] \in Nat
  BY <1>1, TotalIsCount
<1> QED BY <1>2, <1>3, <1>4, <1>5

---------------------------------------------------------------------------
(* A finite set of integers has a least and a greatest element.            *)
LEMMA LeastOfFinite ==
  ASSUME NEW S \in SUBSET Int, IsFiniteSet(S), S # {}
  PROVE  \E m \in S : \A k \in S : m <= k
PROOF
<1> DEFINE good == {T \in SUBSET S : T = {} \/ \E m \in T : \A k \in T : m <= k}
<1>1. {} \in good
  OBVIOUS
<1>2. ASSUME NEW T \in SUBSET S, NEW x \in S \ T, T \in good
      PROVE  T \cup {x} \in good
  <2>1. CASE T = {}
    BY <2>1
  <2>2. CASE T # {}
    <3>1. PICK m \in T : \A k \in T : m <= k
      BY <1>2, <2>2
    <3>2. CASE m <= x
      BY <3>1, <3>2
    <3>3. CASE ~(m <= x)
      <4>1. \A k \in T \cup {x} : x <= k
        BY <3>1, <3>3
      <4> QED BY <4>1
    <3> QED BY <3>2, <3>3
  <2> QED BY <2>1, <2>2
<1>3. S \in good
  <2> HIDE DEF good
  <2> QED BY <1>1, <1>2, SubsetInduction
<1> QED BY <1>3

LEMMA GreatestOfFinite ==
  ASSUME NEW S \in SUBSET Int, IsFiniteSet(S), S # {}
  PROVE  \E m \in S : \A k \in S : k <= m
PROOF
<1> DEFINE good == {T \in SUBSET S : T = {} \/ \E m \in T : \A k \in T : k <= m}
<1>1. {} \in good
  OBVIOUS
<1>2. ASSUME NEW T \in SUBSET S, NEW x \in S \ T, T \in good
      PROVE  T \cup {x} \in good
  <2>1. CASE T = {}
    BY <2>1
  <2>2. CASE T # {}
    <3>1. PICK m \in T : \A k \in T : k <= m
      BY <1>2, <2>2
    <3>2. CASE x <= m
      BY <3>1, <3>2
    <3>3. CASE ~(x <= m)
      <4>1. \A k \in T \cup {x} : k <= x
        BY <3>1, <3>3
      <4> QED BY <4>1
    <3> QED BY <3>2, <3>3
  <2> QED BY <2>1, <2>2
<1>3. S \in good
  <2> HIDE DEF good
  <2> QED BY <1>1, <1>2, SubsetInduction
<1> QED BY <1>3

---------------------------------------------------------------------------
(* What is divided.                                                        *)

(* Terms that bear a ratio to one another: so do the sums.                 *)
LEMMA TotalWithin ==
  ASSUME NEW D, IsFiniteSet(D), NEW f \in [D -> Nat], NEW g \in [D -> Nat],
         NEW a \in Nat, NEW b \in Nat, \A x \in D : a * f[x] <= b * g[x]
  PROVE  a * Total(f) <= b * Total(g)
<1> DEFINE p == [x \in D |-> a * f[x]]
           q == [x \in D |-> b * g[x]]
<1>1. \A x \in D : f[x] \in Nat /\ g[x] \in Nat
  OBVIOUS
<1>2. \A x \in D : a * f[x] \in Nat /\ b * g[x] \in Nat
  BY <1>1
<1>3. p \in [D -> Nat] /\ q \in [D -> Nat] /\ \A x \in D : p[x] <= q[x]
  BY <1>2
<1>4. Total(p) = a * Total(f) /\ Total(q) = b * Total(g)
  BY TotalScaled
<1> HIDE DEF p, q
<1> QED BY <1>3, <1>4, TotalMonotone

(* Parts of n by weight, the weights' shares being rounded down and the    *)
(* parts again, are at most n together.                                    *)
THEOREM PartsOfWhole ==
  ASSUME NEW D, IsFiniteSet(D), NEW w \in [D -> Nat], Total(w) # 0,
         NEW s \in Nat \ {0}, NEW n \in Nat
  PROVE  /\ [x \in D |-> MulFloor(DivFloor(w[x], Total(w), s), n, s)] \in [D -> Nat]
         /\ Total([x \in D |-> MulFloor(DivFloor(w[x], Total(w), s), n, s)]) <= n
PROOF
<1> DEFINE T == Total(w)
           q == [x \in D |-> FloorDiv(w[x] * s, T)]
           p == [x \in D |-> FloorDiv(q[x] * n, s)]
<1>1. T \in Nat \ {0}
  BY TotalIsCount
<1>2. [x \in D |-> MulFloor(DivFloor(w[x], Total(w), s), n, s)] = p
  BY DEF MulFloor, DivFloor
<1> HIDE DEF T
<1>3. ASSUME NEW x \in D
      PROVE  q[x] \in Nat /\ T * q[x] <= s * w[x]
  <2>1. w[x] \in Nat
    OBVIOUS
  <2> DEFINE m == w[x] * s
  <2>2. m \in Nat /\ m \in Int
    BY <2>1
  <2>3. m = s * w[x]
    BY <2>1
  <2> HIDE DEF m
  <2>4. FloorDiv(m, T) \in Nat /\ FloorDiv(m, T) * T <= m
    BY <1>1, <2>2, FloorOfNat, FloorBounds
  <2>5. FloorDiv(m, T) * T = T * FloorDiv(m, T)
    BY <1>1, <2>4
  <2>6. q[x] = FloorDiv(m, T)
    BY DEF m
  <2> HIDE DEF q
  <2> QED BY <2>3, <2>4, <2>5, <2>6
<1>4. q \in [D -> Nat]
  BY <1>3
<1> HIDE DEF q
<1>5. Total(q) \in Nat
  BY <1>4, TotalIsCount
<1>6. T * Total(q) <= s * Total(w)
  <2>1. T \in Nat /\ s \in Nat
    BY <1>1
  <2> QED BY <1>3, <1>4, <2>1, TotalWithin
<1>7. Total(q) <= s
  <2>1. T * Total(q) <= T * s
    BY <1>1, <1>6 DEF T
  <2> QED BY <1>1, <1>5, <2>1
<1>8. ASSUME NEW x \in D
      PROVE  p[x] \in Nat /\ s * p[x] <= n * q[x]
  <2>1. q[x] \in Nat
    BY <1>4
  <2> DEFINE m == q[x] * n
  <2>2. m \in Nat /\ m \in Int /\ m = n * q[x]
    BY <2>1
  <2> HIDE DEF m
  <2>3. FloorDiv(m, s) \in Nat /\ FloorDiv(m, s) * s <= m
    BY <2>2, FloorOfNat, FloorBounds
  <2>4. FloorDiv(m, s) * s = s * FloorDiv(m, s)
    BY <2>3
  <2>5. p[x] = FloorDiv(m, s)
    BY DEF m
  <2> HIDE DEF p
  <2> QED BY <2>2, <2>3, <2>4, <2>5
<1>9. p \in [D -> Nat]
  BY <1>8
<1> HIDE DEF p
<1>10. Total(p) \in Nat
  BY <1>9, TotalIsCount
<1>11. s * Total(p) <= n * Total(q)
  <2>1. s \in Nat
    OBVIOUS
  <2> QED BY <1>4, <1>8, <1>9, <2>1, TotalWithin
<1>12. n * Total(q) <= n * s
  BY <1>5, <1>7
<1>13. s * Total(p) <= s * n
  BY <1>5, <1>10, <1>11, <1>12
<1>14. Total(p) <= n
  BY <1>10, <1>13
<1> QED BY <1>2, <1>9, <1>14

(* What goes from f to g and back, term by term, goes so in the sums.      *)
LEMMA TotalsFollow ==
  ASSUME NEW D, IsFiniteSet(D), NEW f \in [D -> Nat], NEW g \in [D -> Nat],
         NEW p \in [D -> Nat], NEW q \in [D -> Nat],
         \A x \in D : g[x] + q[x] <= f[x] + p[x]
  PROVE  Total(g) + Total(q) <= Total(f) + Total(p)
PROOF
<1> DEFINE x == [i \in D |-> f[i] + p[i]]
           y == [i \in D |-> g[i] + q[i]]
<1>1. x \in [D -> Nat] /\ y \in [D -> Nat] /\ \A i \in D : y[i] <= x[i]
  OBVIOUS
<1>2. Total(x) = Total(f) + Total(p)
  BY TotalPlus
<1>3. Total(y) = Total(g) + Total(q)
  BY TotalPlus
<1> HIDE DEF x, y
<1> QED BY <1>1, <1>2, <1>3, TotalMonotone

(* Funds of a units hold F; they follow what F gains and pays.             *)
LEMMA FundsFollow ==
  ASSUME NEW F \in Nat, NEW G \in Nat, NEW a \in Nat, NEW b \in Nat,
         NEW gained \in Nat, NEW paid \in Nat, NEW unit \in Nat,
         F <= a * unit, G + unit * paid <= F + unit * gained,
         a + gained <= b + paid
  PROVE  G <= b * unit
<1>1. /\ unit * (a + gained) = a * unit + unit * gained
      /\ unit * (b + paid) = b * unit + unit * paid
  OBVIOUS
<1> DEFINE m == a + gained
           n == b + paid
<1>2. m \in Nat /\ n \in Nat /\ m <= n
  OBVIOUS
<1> HIDE DEF m, n
<1>3. unit * m <= unit * n
  BY <1>2
<1>4. /\ a * unit \in Nat /\ b * unit \in Nat
      /\ unit * gained \in Nat /\ unit * paid \in Nat
  OBVIOUS
<1> QED BY <1>1, <1>3, <1>4 DEF m, n

(* Terms of 0 add nothing.                                                 *)
LEMMA TotalPadded ==
  ASSUME NEW D, IsFiniteSet(D), NEW E, E \subseteq D, NEW f \in [E -> Nat]
  PROVE  /\ [x \in D |-> IF x \in E THEN f[x] ELSE 0] \in [D -> Nat]
         /\ Total([x \in D |-> IF x \in E THEN f[x] ELSE 0]) = Total(f)
PROOF
<1> DEFINE g == [x \in D |-> IF x \in E THEN f[x] ELSE 0]
           h == [x \in E |-> g[x]]
           z == [x \in D \ E |-> g[x]]
<1>1. g \in [D -> Nat]
  OBVIOUS
<1>2. h = f
  OBVIOUS
<1>3. z \in [D \ E -> Nat] /\ \A x \in D \ E : z[x] = 0
  OBVIOUS
<1>4. IsFiniteSet(D \ E)
  BY FS_Subset
<1> HIDE DEF g
<1>5. Total(g) = Total(h) + Total(z) /\ Total(h) \in Nat
  BY <1>1, TotalSplit
<1>6. Total(z) = 0
  <2> HIDE DEF z
  <2> QED BY <1>3, <1>4, TotalOfZeros
<1> QED BY <1>1, <1>2, <1>5, <1>6 DEF g

(* What holders of balances b are owed in a unit, when i is the index each *)
(* was settled at, a what was accrued by then, and now the index is k.     *)
OwedAt(D, a, b, i, k, unit) == [x \in D |-> a[x] * unit + b[x] * (k - i[x])]

LEMMA OwedIsNat ==
  ASSUME NEW D, NEW a \in [D -> Nat], NEW b \in [D -> Nat], NEW i \in [D -> Nat],
         NEW k \in Nat, NEW unit \in Nat, \A x \in D : i[x] <= k
  PROVE  OwedAt(D, a, b, i, k, unit) \in [D -> Nat]
<1> SUFFICES ASSUME NEW x \in D
             PROVE  a[x] * unit + b[x] * (k - i[x]) \in Nat
  BY DEF OwedAt
<1>1. a[x] \in Nat /\ b[x] \in Nat /\ k - i[x] \in Nat
  OBVIOUS
<1>2. a[x] * unit \in Nat /\ b[x] * (k - i[x]) \in Nat
  BY <1>1
<1> QED BY <1>2

(* The index rises by so much that the balances together earn at most m:   *)
(* then at most m more is owed.                                            *)
LEMMA IndexStep ==
  ASSUME NEW D, IsFiniteSet(D),
         NEW a \in [D -> Nat], NEW b \in [D -> Nat], NEW i \in [D -> Nat],
         NEW k \in Nat, NEW unit \in Nat, \A x \in D : i[x] <= k,
         NEW step \in Nat, NEW m \in Nat, step * Total(b) <= m
  PROVE  Total(OwedAt(D, a, b, i, k + step, unit))
           <= Total(OwedAt(D, a, b, i, k, unit)) + m
PROOF
<1> DEFINE f == OwedAt(D, a, b, i, k, unit)
           g == OwedAt(D, a, b, i, k + step, unit)
           h == [x \in D |-> step * b[x]]
<1>1. f \in [D -> Nat]
  BY OwedIsNat
<1>2. \A x \in D : b[x] \in Nat
  OBVIOUS
<1>3. h \in [D -> Nat] /\ Total(h) = step * Total(b)
  <2>1. \A x \in D : step * b[x] \in Nat
    BY <1>2
  <2> QED BY <2>1, TotalScaled
<1>4. g = [x \in D |-> f[x] + h[x]]
  <2> SUFFICES ASSUME NEW x \in D
               PROVE  a[x] * unit + b[x] * (k + step - i[x])
                        = a[x] * unit + b[x] * (k - i[x]) + step * b[x]
    BY DEF OwedAt
  <2>1. a[x] \in Nat /\ b[x] \in Nat /\ i[x] \in Nat
    OBVIOUS
  <2>2. b[x] * (k + step - i[x]) = b[x] * (k - i[x]) + step * b[x]
    BY <2>1
  <2>3. a[x] * unit \in Nat /\ b[x] * (k - i[x]) \in Int /\ step * b[x] \in Int
    BY <2>1
  <2> HIDE DEF f, g, h
  <2> QED BY <2>2, <2>3
<1> HIDE DEF f, g, h
<1>5. Total(g) = Total(f) + Total(h)
  BY <1>1, <1>3, <1>4, TotalPlus
<1>6. Total(f) \in Nat /\ Total(h) \in Nat /\ Total(b) \in Nat
  BY <1>1, <1>3, TotalIsCount
<1> QED BY <1>3, <1>5, <1>6 DEF f, g

---------------------------------------------------------------------------
(* Shares that come out even: what falls to one of s shares is a whole     *)
(* number, whatever is emitted.                                            *)
LEMMA EvenlyDivided ==
  ASSUME NEW x \in Nat, NEW s \in Nat \ {0}, NEW scalar \in Nat, scalar % s = 0
  PROVE  /\ scalar \div s \in Nat
         /\ FloorDiv(x * scalar, s) = x * (scalar \div s)
<1> DEFINE q == scalar \div s
<1>1. q \in Nat /\ scalar = s * q
  OBVIOUS
<1> HIDE DEF q
<1>2. x * q \in Int /\ x * scalar \in Int /\ x * scalar = (x * q) * s
  BY <1>1
<1> DEFINE p == x * q
           n == x * scalar
           f == FloorDiv(n, s)
<1>3. p \in Int /\ n \in Int /\ n = p * s
  BY <1>2
<1> HIDE DEF p, n
<1>4. f \in Int /\ f * s <= n /\ p <= f
  BY <1>3, FloorBounds, FloorIsGreatest
<1> HIDE DEF f
<1>5. f <= p
  <2>1. f * s <= p * s
    BY <1>3, <1>4
  <2> QED BY <1>3, <1>4, <2>1
<1>6. f = p
  BY <1>3, <1>4, <1>5
<1> QED BY <1>1, <1>6 DEF f, n, p, q

(* A sum is rounded down no lower than its two parts are.                  *)
LEMMA FloorOfSum ==
  ASSUME NEW x \in Nat, NEW y \in Nat, NEW s \in Nat \ {0}
  PROVE  FloorDiv(x, s) + FloorDiv(y, s) <= FloorDiv(x + y, s)
<1> DEFINE f == FloorDiv(x, s)
           g == FloorDiv(y, s)
<1>1. f \in Int /\ g \in Int /\ f * s <= x /\ g * s <= y
  BY FloorBounds
<1> HIDE DEF f, g
<1>2. f + g \in Int /\ (f + g) * s <= x + y
  BY <1>1
<1>3. f + g <= FloorDiv(x + y, s)
  BY <1>2, FloorIsGreatest
<1> QED BY <1>3 DEF f, g

(* What the stream d emitted since its last update, in eps's decimals, and *)
(* the index that an update at time n would bring it to for a supply of s. *)
PendingAt(d, n) ==
  IF d.last_time < d.expiration THEN (MinOf(n, d.expiration) - d.last_time) * d.eps ELSE 0

IndexAt(d, n, s, scalar) ==
  d.index + IF s = 0 THEN 0 ELSE FloorDiv(PendingAt(d, n) * scalar, s)

(* What the stream d emits in the second that starts at n.                 *)
EmittedAt(d, n, scalar) == IF n < d.expiration THEN d.eps * scalar ELSE 0

(* What the holders D of balances bs have earned once e is shared out.     *)
SharedOut(D, bs, hs, e) ==
  [h \in D |-> IF Total(bs) = 0 THEN hs[h] ELSE hs[h] + bs[h] * (e \div Total(bs))]

(* The records an emission data is one of.                                 *)
EmissionDatas ==
  [eps : Nat, expiration : Nat, index : Nat, last_time : Nat]

(* x is no less than y, and is y where nothing is lost to rounding.        *)
Meets(x, y, exact) == y <= x /\ (exact => x = y)

(* The histories of the holders D of balances bs are covered by what their *)
(* data us amount to: hs what each earned since it was settled, ds what    *)
(* was owed to it before, un what was emitted while no one held a share.   *)
(* When the shares come out even, which is `exact`, they are just that.    *)
InAccount(D, d, n, us, bs, hs, ds, un, scalar, exact) ==
  /\ hs \in [D -> Int] /\ ds \in [D -> Int]
  /\ \A h \in D : Meets(us[h].accrued, ds[h], exact)
  /\ \A h \in D :
       Meets(bs[h] * (IndexAt(d, n, Total(bs), scalar) - us[h].index), hs[h], exact)
  /\ un = IF Total(bs) = 0 THEN PendingAt(d, n) * scalar ELSE 0

LEMMA MeetsItself ==
  ASSUME NEW x \in Int, NEW y, x = y, NEW exact
  PROVE  Meets(x, y, exact)
BY DEF Meets

(* Two that are met are met together.                                      *)
LEMMA MeetsSum ==
  ASSUME NEW x \in Int, NEW y \in Int, NEW u \in Int, NEW v \in Int, NEW exact,
         Meets(x, y, exact), Meets(u, v, exact)
  PROVE  Meets(x + u, y + v, exact)
BY DEF Meets

(* As many shares of what is met.                                          *)
LEMMA MeetsShares ==
  ASSUME NEW x \in Int, NEW y \in Int, NEW b \in Nat, NEW exact, Meets(x, y, exact)
  PROVE  Meets(b * x, b * y, exact)
<1>1. b * y <= b * x
  BY DEF Meets
<1> QED BY <1>1 DEF Meets

(* And what is left of it when it is divided.                              *)
LEMMA MeetsPart ==
  ASSUME NEW x \in Int, NEW y \in Int, NEW s \in Nat \ {0}, NEW exact, Meets(x, y, exact)
  PROVE  Meets(x \div s, y \div s, exact)
<1> DEFINE g == FloorDiv(y, s)
<1>1. g \in Int /\ g * s <= y /\ y <= x
  BY FloorBounds DEF Meets
<1> HIDE DEF g
<1>2. g * s <= x
  BY <1>1
<1>3. g <= FloorDiv(x, s)
  BY <1>1, <1>2, FloorIsGreatest
<1> QED BY <1>3 DEF g, FloorDiv, Meets

LEMMA PendingIsNat ==
  ASSUME NEW d \in EmissionDatas, NEW n \in Nat, d.last_time <= n
  PROVE  PendingAt(d, n) \in Nat
<1>1. /\ d.eps \in Nat /\ d.expiration \in Nat /\ d.last_time \in Nat
  BY DEF EmissionDatas
<1>2. d.last_time < d.expiration => MinOf(n, d.expiration) - d.last_time \in Nat
  BY <1>1 DEF MinOf
<1> DEFINE m == MinOf(n, d.expiration) - d.last_time
<1>3. d.last_time < d.expiration => m * d.eps \in Nat
  <2> HIDE DEF m
  <2> QED BY <1>1, <1>2 DEF m
<1> QED BY <1>3 DEF PendingAt

LEMMA IndexIsNat ==
  ASSUME NEW d \in EmissionDatas, NEW n \in Nat, d.last_time <= n,
         NEW s \in Nat, NEW scalar \in Nat
  PROVE  IndexAt(d, n, s, scalar) \in Nat
<1> DEFINE p == PendingAt(d, n) * scalar
<1>1. p \in Nat
  <2>1. PendingAt(d, n) \in Nat
    BY PendingIsNat
  <2> QED BY <2>1
<1> HIDE DEF p
<1>2. s # 0 => FloorDiv(p, s) \in Nat
  BY <1>1, FloorOfNat
<1>3. d.index \in Nat
  BY DEF EmissionDatas
<1> QED BY <1>2, <1>3 DEF IndexAt, p

(* An index that is up to date stays where it is.                          *)
LEMMA IndexUpToDate ==
  ASSUME NEW d, NEW n, NEW s \in Nat, NEW scalar \in Nat,
         d.index \in Int, PendingAt(d, n) = 0
  PROVE  IndexAt(d, n, s, scalar) = d.index
<1>1. 0 * scalar = 0
  OBVIOUS
<1>2. s # 0 => FloorDiv(0, s) = 0
  BY DEF FloorDiv
<1> QED BY <1>1, <1>2 DEF IndexAt

(* An update, or a renewal of the stream, gives everyone what it earned    *)
(* and drops what no one did.                                              *)
LEMMA UpdateAccount ==
  ASSUME NEW D, NEW d, NEW e, NEW n, NEW us, NEW bs, NEW hs, NEW ds, NEW un, NEW scalar,
         NEW exact,
         InAccount(D, d, n, us, bs, hs, ds, un, scalar, exact),
         e.index = IndexAt(d, n, Total(bs), scalar), e.index \in Int,
         PendingAt(e, n) = 0, scalar \in Nat, Total(bs) \in Nat
  PROVE  InAccount(D, e, n, us, bs, hs, ds, 0, scalar, exact)
<1>1. IndexAt(e, n, Total(bs), scalar) = e.index
  BY IndexUpToDate
<1>2. PendingAt(e, n) * scalar = 0
  OBVIOUS
<1> QED BY <1>1, <1>2 DEF InAccount

(* h is settled, and x is what it is owed now.                             *)
LEMMA SettleAccount ==
  ASSUME NEW D, NEW e \in EmissionDatas, NEW n \in Nat, e.last_time <= n, NEW un, NEW scalar \in Nat,
         NEW us, NEW bs \in [D -> Nat], NEW hs, NEW ds, NEW vs, NEW es, NEW exact,
         InAccount(D, e, n, us, bs, hs, ds, un, scalar, exact), IsFiniteSet(D),
         NEW h \in D, vs[h].index = IndexAt(e, n, Total(bs), scalar),
         NEW x \in Int, es = [ds EXCEPT ![h] = x], Meets(vs[h].accrued, x, exact),
         \A g \in D \ {h} : vs[g] = us[g]
  PROVE  InAccount(D, e, n, vs, bs, [hs EXCEPT ![h] = 0], es, un, scalar, exact)
<1> DEFINE gs == [hs EXCEPT ![h] = 0]
           i == IndexAt(e, n, Total(bs), scalar)
<1>1. i \in Nat
  <2>1. Total(bs) \in Nat
    BY TotalIsCount
  <2> QED BY <2>1, IndexIsNat
<1>2. /\ hs \in [D -> Int] /\ ds \in [D -> Int]
      /\ \A g \in D : Meets(us[g].accrued, ds[g], exact)
      /\ \A g \in D : Meets(bs[g] * (i - us[g].index), hs[g], exact)
      /\ un = IF Total(bs) = 0 THEN PendingAt(e, n) * scalar ELSE 0
  BY DEF InAccount
<1>3. vs[h].index = i
  OBVIOUS
<1> HIDE DEF i
<1>4. gs \in [D -> Int] /\ es \in [D -> Int]
  BY <1>2
<1>5. ASSUME NEW g \in D
      PROVE  /\ Meets(vs[g].accrued, es[g], exact)
             /\ Meets(bs[g] * (i - vs[g].index), gs[g], exact)
  <2>1. CASE g = h
    <3>1. gs[g] = 0 /\ es[g] = x
      BY <1>2, <2>1
    <3>2. i - vs[g].index = 0 /\ bs[g] \in Nat
      BY <1>1, <1>3, <2>1
    <3>3. bs[g] * (i - vs[g].index) = 0
      BY <3>2
    <3>4. Meets(0, 0, exact)
      BY MeetsItself
    <3> QED BY ONLY Meets(vs[h].accrued, x, exact), <2>1, <3>1, <3>3, <3>4
  <2>2. CASE g # h
    <3>1. gs[g] = hs[g] /\ es[g] = ds[g] /\ vs[g] = us[g]
      BY <1>2, <2>2
    <3> QED BY ONLY <1>2, g \in D, <3>1
  <2> QED BY <2>1, <2>2
<1> HIDE DEF gs
<1>6. InAccount(D, e, n, vs, bs, gs, es, un, scalar, exact)
  BY <1>2, <1>4, <1>5 DEF InAccount, i
<1> QED BY <1>6 DEF gs

(* The balance of h, who is settled, changes.                              *)
LEMMA BalanceAccount ==
  ASSUME NEW D, NEW e \in EmissionDatas, NEW n \in Nat, NEW scalar \in Nat,
         NEW us, NEW bs \in [D -> Nat], NEW cs \in [D -> Nat], NEW hs, NEW ds, NEW exact,
         InAccount(D, e, n, us, bs, hs, ds, 0, scalar, exact), IsFiniteSet(D),
         PendingAt(e, n) = 0,
         NEW h \in D, us[h].index = e.index, hs[h] = 0,
         \A g \in D \ {h} : cs[g] = bs[g]
  PROVE  InAccount(D, e, n, us, cs, hs, ds, 0, scalar, exact)
<1>1. Total(bs) \in Nat /\ Total(cs) \in Nat /\ e.index \in Nat
  BY TotalIsCount DEF EmissionDatas
<1>2. ASSUME NEW s \in Nat
      PROVE  IndexAt(e, n, s, scalar) = e.index
  BY <1>1, IndexUpToDate
<1>3. /\ hs \in [D -> Int] /\ ds \in [D -> Int]
      /\ \A x \in D : Meets(us[x].accrued, ds[x], exact)
      /\ \A x \in D : Meets(bs[x] * (e.index - us[x].index), hs[x], exact)
  BY <1>1, <1>2 DEF InAccount
<1>4. ASSUME NEW x \in D
      PROVE  Meets(cs[x] * (e.index - us[x].index), hs[x], exact)
  <2>1. CASE x = h
    <3>1. e.index - us[x].index = 0 /\ cs[x] \in Nat
      BY <1>1, <2>1
    <3>2. cs[x] * (e.index - us[x].index) = 0 /\ hs[x] = 0
      BY <2>1, <3>1
    <3>3. Meets(0, 0, exact)
      BY MeetsItself
    <3> QED BY ONLY <3>2, <3>3
  <2>2. CASE x # h
    BY <1>3, <2>2
  <2> QED BY <2>1, <2>2
<1>5. PendingAt(e, n) * scalar = 0
  OBVIOUS
<1> QED BY <1>1, <1>2, <1>3, <1>4, <1>5 DEF InAccount

(* h is the first to hold shares again, and is given what no one earned,   *)
(* but for what is less than one unit for each of its shares.              *)
LEMMA FirstAccount ==
  ASSUME NEW D, NEW d \in EmissionDatas, NEW n \in Nat, d.last_time <= n, NEW un, NEW scalar \in Nat,
         NEW us, NEW bs \in [D -> Nat], NEW hs, NEW ds,
         NEW vs, NEW cs \in [D -> Nat], NEW gs, NEW es, NEW exact,
         InAccount(D, d, n, us, bs, hs, ds, un, scalar, exact), IsFiniteSet(D),
         Total(bs) = 0,
         NEW h \in D, cs[h] # 0,
         vs[h].index = d.index,
         gs = [hs EXCEPT ![h] = cs[h] * (un \div cs[h])],
         NEW y \in Int, es = [ds EXCEPT ![h] = y], Meets(vs[h].accrued, y, exact),
         \A g \in D \ {h} : vs[g] = us[g] /\ cs[g] = bs[g] /\ us[g].index \in Int
  PROVE  InAccount(D, d, n, vs, cs, gs, es, 0, scalar, exact)
<1> DEFINE p == PendingAt(d, n)
           b == cs[h]
           q == FloorDiv(un, b)
           j == IndexAt(d, n, Total(cs), scalar)
<1>1. \A x \in D : bs[x] = 0
  <2> SUFFICES ASSUME NEW x \in D PROVE bs[x] = 0
    OBVIOUS
  <2>1. bs[x] <= Total(bs) /\ bs[x] \in Nat
    BY TotalBoundsMember
  <2> QED BY <2>1
<1>2. Total(cs) = b
  <2>1. bs \in [D -> Nat] /\ cs \in [D -> Nat] /\ \A x \in D \ {h} : bs[x] = cs[x]
    OBVIOUS
  <2>2. Total(cs) + bs[h] = Total(bs) + cs[h]
    BY ONLY IsFiniteSet(D), h \in D, <2>1, TotalChange
  <2>3. Total(cs) \in Nat
    BY TotalIsCount
  <2> QED BY <1>1, <2>2, <2>3
<1>3. b \in Nat \ {0} /\ p \in Nat
  BY PendingIsNat
<1>4. un = p * scalar
  BY DEF InAccount
<1>5. q \in Nat
  <2>1. un \in Nat
    BY <1>3, <1>4
  <2> QED BY <1>3, <2>1, FloorOfNat
<1>6. j = d.index + q /\ d.index \in Nat
  BY <1>2, <1>3, <1>4 DEF IndexAt, EmissionDatas
<1>7. /\ hs \in [D -> Int] /\ ds \in [D -> Int]
      /\ \A x \in D : Meets(us[x].accrued, ds[x], exact)
  BY DEF InAccount
<1>8. \A x \in D :
        Meets(bs[x] * (IndexAt(d, n, Total(bs), scalar) - us[x].index), hs[x], exact)
  BY DEF InAccount
<1>9. gs = [hs EXCEPT ![h] = b * q]
  BY DEF FloorDiv
<1>10. b * q \in Int
  BY <1>3, <1>5
<1> HIDE DEF p, q, j
<1>11. ASSUME NEW x \in D
       PROVE  /\ Meets(vs[x].accrued, es[x], exact)
              /\ Meets(cs[x] * (j - vs[x].index), gs[x], exact)
  <2>1. CASE x = h
    <3>1. gs[x] = b * q /\ es[x] = y
      BY <1>7, <1>9, <2>1
    <3>2. j - vs[x].index = q
      BY <1>5, <1>6, <2>1
    <3>3. cs[x] * (j - vs[x].index) = b * q
      BY <2>1, <3>2
    <3>4. Meets(b * q, b * q, exact)
      BY <1>10, MeetsItself
    <3> QED BY ONLY Meets(vs[h].accrued, y, exact), <2>1, <3>1, <3>3, <3>4
  <2>2. CASE x # h
    <3>1. vs[x] = us[x] /\ cs[x] = 0 /\ bs[x] = 0 /\ us[x].index \in Int
      BY <1>1, <2>2
    <3>2. gs[x] = hs[x] /\ es[x] = ds[x]
      BY <1>7, <2>2
    <3>3. IndexAt(d, n, Total(bs), scalar) = d.index
      BY <1>6 DEF IndexAt
    <3>4. /\ bs[x] * (d.index - us[x].index) = 0
          /\ cs[x] * (j - vs[x].index) = 0
      BY <1>5, <1>6, <3>1
    <3>5. Meets(0, hs[x], exact)
      BY <1>8, <3>3, <3>4
    <3> QED BY <1>7, <3>1, <3>2, <3>4, <3>5
  <2> QED BY <2>1, <2>2
<1>12. gs \in [D -> Int] /\ es \in [D -> Int]
  BY <1>7, <1>9, <1>10
<1> QED BY <1>2, <1>3, <1>11, <1>12 DEF InAccount, j

(* The index rises by no less than what falls to a share in each second,   *)
(* and by just that when the shares come out even.                         *)
LEMMA IndexCovers ==
  ASSUME NEW p \in Nat, NEW y \in Nat, NEW scalar \in Nat, NEW s \in Nat \ {0}, NEW exact,
         exact => scalar % s = 0
  PROVE  /\ FloorDiv(p * scalar, s) \in Nat /\ FloorDiv(y * scalar, s) \in Nat
         /\ FloorDiv((p + y) * scalar, s) \in Nat
         /\ Meets(FloorDiv((p + y) * scalar, s),
                   FloorDiv(p * scalar, s) + FloorDiv(y * scalar, s), exact)
<1> DEFINE m == p * scalar
           n == y * scalar
<1>1. m \in Nat /\ n \in Nat /\ (p + y) * scalar = m + n
  OBVIOUS
<1>2. FloorDiv(m, s) \in Nat /\ FloorDiv(n, s) \in Nat /\ FloorDiv(m + n, s) \in Nat
  <2> HIDE DEF m, n
  <2>1. m + n \in Nat
    BY <1>1
  <2> QED BY <1>1, <2>1, FloorOfNat
<1>3. FloorDiv(m, s) + FloorDiv(n, s) <= FloorDiv(m + n, s)
  <2> HIDE DEF m, n
  <2> QED BY <1>1, FloorOfSum
<1>4. ASSUME exact
      PROVE  FloorDiv((p + y) * scalar, s) = FloorDiv(m, s) + FloorDiv(n, s)
  <2> DEFINE q == scalar \div s
  <2>1. scalar % s = 0 /\ p + y \in Nat
    BY <1>4
  <2>2. q \in Nat /\ FloorDiv(m, s) = p * q
    BY <2>1, EvenlyDivided
  <2>3. FloorDiv(n, s) = y * q
    BY <2>1, EvenlyDivided
  <2>4. FloorDiv((p + y) * scalar, s) = (p + y) * q
    BY <2>1, EvenlyDivided
  <2> HIDE DEF m, n, q
  <2>5. (p + y) * q = p * q + y * q
    BY <2>2
  <2> QED BY <2>2, <2>3, <2>4, <2>5
<1>5. FloorDiv((p + y) * scalar, s) = FloorDiv(m + n, s)
  BY <1>1
<1> HIDE DEF m, n
<1> DEFINE z == FloorDiv((p + y) * scalar, s)
<1> HIDE DEF z
<1>6. z \in Nat /\ FloorDiv(m, s) + FloorDiv(n, s) <= z
  BY <1>2, <1>3, <1>5 DEF z
<1>7. exact => z = FloorDiv(m, s) + FloorDiv(n, s)
  BY <1>4 DEF z
<1>8. Meets(z, FloorDiv(m, s) + FloorDiv(n, s), exact)
  BY <1>6, <1>7 DEF Meets
<1> QED BY <1>2, <1>6, <1>8 DEF m, n, z

(* A second passes.                                                        *)
LEMMA TickAccount ==
  ASSUME NEW D, NEW d \in EmissionDatas, NEW n \in Nat, d.last_time <= n, NEW un, NEW scalar \in Nat,
         NEW us, NEW bs \in [D -> Nat], NEW hs, NEW ds, IsFiniteSet(D), NEW exact,
         InAccount(D, d, n, us, bs, hs, ds, un, scalar, exact),
         \A h \in D : us[h].index \in Int,
         exact => (Total(bs) # 0 => scalar % Total(bs) = 0)
  PROVE  InAccount(D, d, n + 1, us, bs, SharedOut(D, bs, hs, EmittedAt(d, n, scalar)), ds,
                   IF Total(bs) = 0 THEN un + EmittedAt(d, n, scalar) ELSE un, scalar, exact)
<1> DEFINE emitted == EmittedAt(d, n, scalar)
           p == PendingAt(d, n)
           r == PendingAt(d, n + 1)
           y == IF n < d.expiration THEN d.eps ELSE 0
           t == Total(bs)
           gs == [h \in D |-> IF t = 0 THEN hs[h] ELSE hs[h] + bs[h] * (emitted \div t)]
<1>1. /\ d.eps \in Nat /\ d.expiration \in Nat /\ d.last_time \in Nat /\ d.index \in Nat
      /\ y \in Nat /\ p \in Nat
  BY PendingIsNat DEF EmissionDatas
<1>2. r = p + y
  <2> DEFINE last == d.last_time
             end == d.expiration
             eps == d.eps
  <2>0. last \in Nat /\ end \in Nat /\ eps \in Nat /\ last <= n
    BY <1>1
  <2>1. CASE n < end
    <3>1. MinOf(n, end) = n /\ MinOf(n + 1, end) = n + 1 /\ last < end
      BY <2>0, <2>1 DEF MinOf
    <3>2. y = eps /\ p = (MinOf(n, end) - last) * eps /\ r = (MinOf(n + 1, end) - last) * eps
      BY Zenon, <2>1, <3>1 DEF PendingAt
    <3> HIDE DEF p, r, y, last, end, eps
    <3>3. (n + 1 - last) * eps = (n - last) * eps + eps
      BY <2>0
    <3> QED BY <2>0, <3>1, <3>2, <3>3
  <2>2. CASE n >= end
    <3>1. MinOf(n, end) = end /\ MinOf(n + 1, end) = end
      BY <2>0, <2>2 DEF MinOf
    <3>2. p = r /\ y = 0
      BY <2>0, <2>2, <3>1 DEF PendingAt
    <3> QED BY <1>1, <3>2
  <2> QED BY <2>0, <2>1, <2>2
<1>3. emitted = y * scalar
  BY <1>1 DEF EmittedAt
<1>4. t \in Nat
  BY TotalIsCount
<1>5. /\ hs \in [D -> Int] /\ ds \in [D -> Int]
      /\ \A x \in D : Meets(us[x].accrued, ds[x], exact)
      /\ \A x \in D : Meets(bs[x] * (IndexAt(d, n, t, scalar) - us[x].index), hs[x], exact)
      /\ un = IF t = 0 THEN p * scalar ELSE 0
  BY DEF InAccount
<1>6. /\ IndexAt(d, n, t, scalar) = d.index + IF t = 0 THEN 0 ELSE FloorDiv(p * scalar, t)
      /\ IndexAt(d, n + 1, t, scalar) = d.index + IF t = 0 THEN 0 ELSE FloorDiv(r * scalar, t)
  BY DEF IndexAt
<1>7. exact => (t # 0 => scalar % t = 0)
  OBVIOUS
<1> HIDE DEF emitted, p, r, y, t
<1>8. ASSUME NEW x \in D
      PROVE  gs[x] \in Int /\ Meets(bs[x] * (IndexAt(d, n + 1, t, scalar) - us[x].index), gs[x], exact)
  <2>1. CASE t = 0
    BY <1>5, <1>6, <2>1
  <2>2. CASE t # 0
    <3> DEFINE b == bs[x]
               i == us[x].index
               k == d.index
               u == FloorDiv(p * scalar, t)
               w == FloorDiv(y * scalar, t)
               z == FloorDiv(r * scalar, t)
    <3>1. b \in Nat /\ i \in Int /\ k \in Nat
      BY <1>1
    <3>2. u \in Nat /\ w \in Nat /\ z \in Nat /\ Meets(z, u + w, exact)
      <4>1. t \in Nat \ {0} /\ (exact => scalar % t = 0)
        BY Zenon, <1>4, <1>7, <2>2
      <4> QED BY <1>1, <1>2, <4>1, IndexCovers
    <3>3. IndexAt(d, n, t, scalar) = k + u /\ IndexAt(d, n + 1, t, scalar) = k + z
      BY <1>6, <2>2
    <3>4. gs[x] = hs[x] + b * w
      <4>1. gs[x] = hs[x] + b * (emitted \div t)
        BY <2>2
      <4> QED BY <1>3, <4>1 DEF FloorDiv
    <3>5. Meets(b * (k + u - i), hs[x], exact)
      <4>1. Meets(b * (IndexAt(d, n, t, scalar) - i), hs[x], exact)
        BY <1>5
      <4> DEFINE j == IndexAt(d, n, t, scalar)
      <4>2. j = k + u /\ Meets(b * (j - i), hs[x], exact)
        BY <3>3, <4>1
      <4> HIDE DEF b, i, k, u, j
      <4> QED BY ONLY <3>1, <3>2, <4>2
    <3>6. hs[x] \in Int
      BY <1>5
    <3> HIDE DEF b, i, k, u, w, z, gs
    <3>7. Meets(b * z, b * (u + w), exact)
      <4>1. z \in Int /\ u + w \in Int
        BY <3>2
      <4> QED BY <3>1, <3>2, <4>1, MeetsShares
    <3> DEFINE v == b * (k + u - i)
               c == b * w
               f == b * u
               m == b * z
               e == b * (k + z - i)
    <3>8. /\ v \in Int /\ c \in Int /\ f \in Int /\ m \in Int /\ e \in Int
          /\ b * (u + w) = f + c /\ e = v - f + m
      BY <3>1, <3>2
    <3> HIDE DEF v, c, f, m, e
    <3>9. Meets(e, hs[x] + c, exact)
      <4>1. Meets(m, f + c, exact) /\ Meets(v, hs[x], exact)
        BY <3>5, <3>7, <3>8 DEF v, m
      <4> QED BY <3>6, <3>8, <4>1 DEF Meets
    <3>10. gs[x] = hs[x] + c
      BY <3>4 DEF c
    <3>11. b * (IndexAt(d, n + 1, t, scalar) - i) = e
      <4> DEFINE j == IndexAt(d, n + 1, t, scalar)
      <4>1. j = k + z
        BY <3>3
      <4> HIDE DEF j
      <4>2. b * (j - i) = e
        BY ONLY <3>1, <3>2, <4>1 DEF e
      <4> QED BY <4>2 DEF j
    <3>12. gs[x] \in Int
      BY <3>6, <3>8, <3>10
    <3> QED BY ONLY <3>9, <3>10, <3>11, <3>12 DEF b, i
  <2> QED BY <2>1, <2>2
<1>9. (IF t = 0 THEN un + emitted ELSE un) = IF t = 0 THEN r * scalar ELSE 0
  <2>1. (p + y) * scalar = p * scalar + y * scalar
    BY <1>1
  <2> QED BY <1>2, <1>3, <1>5, <2>1
<1>10. InAccount(D, d, n + 1, us, bs, gs, ds, IF t = 0 THEN un + emitted ELSE un, scalar, exact)
  <2>1. gs \in [D -> Int]
    BY <1>8
  <2> HIDE DEF gs
  <2> QED BY <1>5, <1>8, <1>9, <2>1 DEF InAccount, r, t
<1> QED BY <1>10 DEF gs, t, emitted, SharedOut
===========================================================================
