------------------------ MODULE PaymentServiceProofs -------------------------
(***************************************************************************)
(* What holds of PaymentService for every set of calls, keys, accounts and *)
(* requests, every chain, and every behaviour of the collaborators: who    *)
(* owns what, and that it implements PaymentContract.                      *)
(***************************************************************************)
EXTENDS PaymentProperties, SequenceTheorems, FiniteSetTheorems, WellFoundedInduction,
        TLAPS

-----------------------------------------------------------------------------
\* Sums.  The library's induction theorems take a predicate; what they are needed for here
\* is a fact about a set of numbers, or of sets.

\* Induction over the subsets of a finite set.
LEMMA SubsetInduction ==
    ASSUME NEW S, IsFiniteSet(S), NEW P,
           \A s \in SUBSET S : (\A x \in s : s \ {x} \in P) => s \in P
    PROVE  SUBSET S \subseteq P
<1> SUFFICES ASSUME (SUBSET S) \ P # {} PROVE FALSE
    OBVIOUS
<1> DEFINE T == (SUBSET S) \ P
<1>1. T \subseteq FiniteSubsetsOf(S)
    BY FS_Subset DEF FiniteSubsetsOf
<1>2. PICK s \in T : \A r \in T : ~(<<r, s>> \in StrictSubsetOrdering(S))
    <2> HIDE DEF T
    <2>1. IsWellFoundedOn(StrictSubsetOrdering(S), FiniteSubsetsOf(S))
        BY FS_StrictSubsetOrderingWellFounded
    <2>2. T # {}
        BY DEF T
    <2> QED
        BY <1>1, <2>1, <2>2, WFMin
<1>3. \A x \in s : <<s \ {x}, s>> \in StrictSubsetOrdering(S)
    BY DEF StrictSubsetOrdering
<1>4. \A x \in s : s \ {x} \in P
    BY <1>2, <1>3
<1> QED
    BY <1>2, <1>4

\* Induction over the natural numbers.
LEMMA Induction ==
    ASSUME NEW T, 0 \in T, \A n \in Nat : n \in T => n + 1 \in T
    PROVE  Nat \subseteq T
<1> SUFFICES ASSUME Nat \ T # {} PROVE FALSE
    OBVIOUS
<1> DEFINE LT == OpToRel(<, Nat)
<1>1. IsWellFoundedOn(LT, Nat)
    BY NatLessThanWellFounded
<1>2. \A x, y \in Nat : <<x, y>> \in LT <=> x < y
    BY DEF OpToRel
<1> HIDE DEF LT
<1>3. PICK n \in Nat \ T : \A m \in Nat \ T : ~ (<<m, n>> \in LT)
    BY <1>1, WFMin
<1>4. n # 0 /\ n - 1 \in Nat /\ n - 1 < n /\ (n - 1) + 1 = n
    BY <1>3
<1> QED
    BY <1>2, <1>3, <1>4

\* What a sum adds up to over each part of its indices.
Chosen(s) == CHOOSE x \in s : TRUE
Part(F, f, s) == IF s = {} THEN 0 ELSE f[Chosen(s)] + F[s \ {Chosen(s)}]
SumsUp(F, f, S) == F = [s \in SUBSET S |-> Part(F, f, s)]

LEMMA SumIsFold ==
    ASSUME NEW f, \E F : SumsUp(F, f, DOMAIN f)
    PROVE  \E F : SumsUp(F, f, DOMAIN f) /\ SumFunction(f) = F[DOMAIN f]
BY DEF SumFunction, SumFunctionOnSet, FoldFunctionOnSet, MapThenFoldSet, SumsUp, Part, Chosen

LEMMA FoldExists ==
    ASSUME NEW S, IsFiniteSet(S), NEW f
    PROVE  \E F : SumsUp(F, f, S)
<1> DEFINE Upto(F, n) == /\ F = [s \in SUBSET S |-> F[s]]
                         /\ \A s \in SUBSET S : Cardinality(s) <= n => F[s] = Part(F, f, s)
           T == {n \in Nat : \E F : Upto(F, n)}
<1>1. \A s \in SUBSET S : Cardinality(s) \in Nat /\ (Cardinality(s) = 0 <=> s = {})
    BY FS_Subset, FS_CardinalityType, FS_EmptySet
<1>2. \A s \in SUBSET S : \A x \in s : Cardinality(s \ {x}) = Cardinality(s) - 1
    BY FS_Subset, FS_RemoveElement
<1>3. 0 \in T
    <2> DEFINE F == [s \in SUBSET S |-> 0]
    <2>1. \A s \in SUBSET S : Cardinality(s) <= 0 => F[s] = Part(F, f, s)
        BY <1>1 DEF Part
    <2>2. Upto(F, 0)
        BY <2>1
    <2> QED
        BY <2>2
<1>4. ASSUME NEW n \in Nat, n \in T PROVE n + 1 \in T
    <2>1. PICK F : Upto(F, n)
        BY <1>4
    <2> DEFINE G == [s \in SUBSET S |-> IF Cardinality(s) <= n THEN F[s] ELSE Part(F, f, s)]
    <2>2. \A s \in SUBSET S : G[s] = Part(F, f, s)
        BY <2>1
    <2>3. \A s \in SUBSET S : Cardinality(s) <= n => G[s] = F[s]
        OBVIOUS
    <2>4. G = [s \in SUBSET S |-> G[s]]
        OBVIOUS
    <2> HIDE DEF G
    <2>5. ASSUME NEW s \in SUBSET S, Cardinality(s) <= n + 1 PROVE Part(G, f, s) = Part(F, f, s)
        <3>1. CASE s = {}
            BY <3>1 DEF Part
        <3>2. CASE s # {}
            <4>1. Chosen(s) \in s
                BY <3>2 DEF Chosen
            <4>2. s \ {Chosen(s)} \in SUBSET S
                OBVIOUS
            <4>3. Cardinality(s) \in Nat /\ Cardinality(s \ {Chosen(s)}) = Cardinality(s) - 1
                BY <1>1, <1>2, <4>1
            <4>4. Cardinality(s \ {Chosen(s)}) <= n
                BY <2>5, <4>3
            <4>5. G[s \ {Chosen(s)}] = F[s \ {Chosen(s)}]
                BY <2>3, <4>2, <4>4
            <4> QED
                BY <3>2, <4>5 DEF Part
        <3> QED
            BY <3>1, <3>2
    <2>6. \A s \in SUBSET S : Cardinality(s) <= n + 1 => G[s] = Part(G, f, s)
        BY <2>2, <2>5
    <2>7. Upto(G, n + 1)
        BY <2>4, <2>6
    <2> HIDE DEF Upto
    <2> QED
        BY <2>7
<1> HIDE DEF T
<1>5. Cardinality(S) \in T
    BY <1>1, <1>3, <1>4, Induction
<1>6. PICK F : Upto(F, Cardinality(S))
    BY <1>5 DEF T
<1>7. \A s \in SUBSET S : F[s] = Part(F, f, s)
    BY <1>6, FS_Subset
<1> QED
    BY <1>6, <1>7 DEF SumsUp

\* Every part of a sum of integers is an integer, from which any index can be taken out.
LEMMA PartsAddUp ==
    ASSUME NEW S, IsFiniteSet(S), NEW f, \A x \in S : f[x] \in Int,
           NEW F, SumsUp(F, f, S)
    PROVE  \A s \in SUBSET S : /\ F[s] \in Int
                               /\ \A x \in s : F[s] = f[x] + F[s \ {x}]
<1> DEFINE P == {s \in SUBSET S : F[s] \in Int}
           Q == {s \in SUBSET S : \A x \in s : F[s] = f[x] + F[s \ {x}]}
<1>1. ASSUME NEW s \in SUBSET S, s # {}
      PROVE  Chosen(s) \in s /\ F[s] = f[Chosen(s)] + F[s \ {Chosen(s)}]
    BY <1>1 DEF SumsUp, Part, Chosen
<1>2. F[{}] = 0
    BY DEF SumsUp, Part
<1>3. SUBSET S \subseteq P
    <2>1. ASSUME NEW s \in SUBSET S, \A x \in s : s \ {x} \in P PROVE s \in P
        <3>1. CASE s = {}
            BY <1>2, <3>1
        <3>2. CASE s # {}
            <4>1. /\ Chosen(s) \in s
                  /\ F[s] = f[Chosen(s)] + F[s \ {Chosen(s)}]
                BY <1>1, <3>2
            <4>2. F[s \ {Chosen(s)}] \in Int /\ f[Chosen(s)] \in Int
                BY <2>1, <4>1
            <4> QED
                BY <4>1, <4>2
        <3> QED
            BY <3>1, <3>2
    <2> HIDE DEF P
    <2> QED
        BY <2>1, SubsetInduction
<1>4. \A s \in SUBSET S : F[s] \in Int
    BY <1>3
<1>5. SUBSET S \subseteq Q
    <2>1. ASSUME NEW s \in SUBSET S, \A x \in s : s \ {x} \in Q PROVE s \in Q
        <3> SUFFICES ASSUME NEW x \in s PROVE F[s] = f[x] + F[s \ {x}]
            OBVIOUS
        <3> DEFINE p == Chosen(s)
        <3>1. p \in s /\ F[s] = f[p] + F[s \ {p}]
            BY <1>1
        <3> HIDE DEF p
        <3>2. CASE p = x
            BY <3>1, <3>2
        <3>3. CASE p # x
            <4>1. F[s \ {p}] = f[x] + F[(s \ {p}) \ {x}]
                BY <2>1, <3>1, <3>3
            <4>2. F[s \ {x}] = f[p] + F[(s \ {x}) \ {p}]
                BY <2>1, <3>1, <3>3
            <4>3. (s \ {p}) \ {x} = (s \ {x}) \ {p}
                OBVIOUS
            <4> DEFINE rest == F[(s \ {p}) \ {x}]
            <4>4. rest \in Int /\ f[p] \in Int /\ f[x] \in Int
                BY <1>4, <3>1
            <4>5. F[s] = f[p] + (f[x] + rest) /\ F[s \ {x}] = f[p] + rest
                BY <3>1, <4>1, <4>2, <4>3
            <4> HIDE DEF P, Q, rest
            <4> QED
                BY <4>4, <4>5
        <3> QED
            BY <3>2, <3>3
    <2> HIDE DEF Q
    <2> QED
        BY <2>1, SubsetInduction
<1> QED
    BY <1>4, <1>5

\* Sums over the same indices of the same values agree.
LEMMA PartsAgree ==
    ASSUME NEW S, IsFiniteSet(S), NEW R, NEW f, NEW g, NEW F, NEW G,
           SumsUp(F, f, R), SumsUp(G, g, S), S \subseteq R,
           \A x \in S : f[x] = g[x]
    PROVE  F[S] = G[S]
<1> DEFINE P == {s \in SUBSET S : F[s] = G[s]}
<1>1. ASSUME NEW s \in SUBSET S, \A x \in s : s \ {x} \in P PROVE s \in P
    <2>1. F[s] = Part(F, f, s) /\ G[s] = Part(G, g, s)
        BY DEF SumsUp
    <2>2. CASE s = {}
        BY <2>1, <2>2 DEF Part
    <2>3. CASE s # {}
        <3>1. Chosen(s) \in s
            BY <2>3 DEF Chosen
        <3>2. F[s \ {Chosen(s)}] = G[s \ {Chosen(s)}] /\ f[Chosen(s)] = g[Chosen(s)]
            BY <1>1, <3>1
        <3>3. Part(F, f, s) = Part(G, g, s)
            BY <3>2 DEF Part
        <3> QED
            BY <2>1, <3>3
    <2> QED
        BY <2>2, <2>3
<1> HIDE DEF P
<1>2. SUBSET S \subseteq P
    BY <1>1, SubsetInduction
<1> QED
    BY <1>2 DEF P

\* The sum of nothing is 0, and a sum is any of its values and the sum of the others.
LEMMA SumFacts ==
    ASSUME NEW D, IsFiniteSet(D), NEW f \in [D -> Int]
    PROVE  /\ SumFunction(f) \in Int
           /\ D = {} => SumFunction(f) = 0
           /\ \A x \in D : SumFunction(f) = f[x] + SumFunction([y \in D \ {x} |-> f[y]])
<1>1. PICK F : SumsUp(F, f, D) /\ SumFunction(f) = F[D]
    BY FoldExists, SumIsFold
<1>2. /\ F[D] \in Int
      /\ \A x \in D : F[D] = f[x] + F[D \ {x}]
    BY <1>1, PartsAddUp
<1>3. D = {} => F[D] = 0
    BY <1>1 DEF SumsUp, Part
<1>4. ASSUME NEW x \in D PROVE F[D \ {x}] = SumFunction([y \in D \ {x} |-> f[y]])
    <2> DEFINE R == D \ {x}
               g == [y \in R |-> f[y]]
    <2>1. IsFiniteSet(R) /\ R \subseteq D
        BY FS_Subset
    <2>2. DOMAIN g = R /\ \A y \in R : f[y] = g[y]
        OBVIOUS
    <2> HIDE DEF R, g
    <2>3. PICK G : SumsUp(G, g, R) /\ SumFunction(g) = G[R]
        BY <2>1, <2>2, FoldExists, SumIsFold
    <2>4. F[R] = G[R]
        BY <1>1, <2>1, <2>2, <2>3, PartsAgree
    <2> QED
        BY <2>3, <2>4 DEF R, g
<1> QED
    BY <1>1, <1>2, <1>3, <1>4

\* The sum of part of the values.
SumOver(f, s) == SumFunction([y \in s |-> f[y]])

LEMMA SumSplits ==
    ASSUME NEW D, IsFiniteSet(D), NEW f \in [D -> Int]
    PROVE  /\ SumFunction(f) \in Int
           /\ \A x \in D : SumFunction(f) = f[x] + SumOver(f, D \ {x})
BY SumFacts DEF SumOver

LEMMA SumOverAll ==
    ASSUME NEW D, NEW f \in [D -> Int]
    PROVE  SumOver(f, D) = SumFunction(f)
<1>1. [y \in D |-> f[y]] = f
    OBVIOUS
<1> QED
    BY <1>1 DEF SumOver

\* The sum over part of the values, too, is any of them and the others.
LEMMA SumTakesOff ==
    ASSUME NEW D, IsFiniteSet(D), NEW f \in [D -> Int], NEW s \in SUBSET D
    PROVE  /\ SumOver(f, s) \in Int
           /\ \A x \in s : SumOver(f, s) = f[x] + SumOver(f, s \ {x})
<1> DEFINE g == [y \in s |-> f[y]]
<1>1. IsFiniteSet(s) /\ g \in [s -> Int]
    BY FS_Subset
<1>2. \A x \in s : g[x] = f[x]
    OBVIOUS
<1>3. ASSUME NEW x \in s PROVE SumOver(g, s \ {x}) = SumOver(f, s \ {x})
    <2>1. [y \in s \ {x} |-> g[y]] = [y \in s \ {x} |-> f[y]]
        OBVIOUS
    <2> QED
        BY <2>1 DEF SumOver
<1>4. SumOver(f, s) = SumFunction(g)
    BY DEF SumOver
<1> HIDE DEF g
<1>5. /\ SumFunction(g) \in Int
      /\ \A x \in s : SumFunction(g) = g[x] + SumOver(g, s \ {x})
    BY <1>1, SumSplits
<1> QED
    BY <1>2, <1>3, <1>4, <1>5

\* A changed value changes the sum by as much.
LEMMA SumChanges ==
    ASSUME NEW D, IsFiniteSet(D), NEW f \in [D -> Int], NEW g \in [D -> Int],
           NEW x \in D, \A y \in D \ {x} : g[y] = f[y]
    PROVE  SumFunction(g) = SumFunction(f) + g[x] - f[x]
<1>1. [y \in D \ {x} |-> g[y]] = [y \in D \ {x} |-> f[y]]
    OBVIOUS
<1> DEFINE rest == SumFunction([y \in D \ {x} |-> f[y]])
<1>2. SumFunction(f) = f[x] + rest
    BY SumFacts
<1>3. SumFunction(g) = g[x] + rest
    BY <1>1, SumFacts
<1>4. rest \in Int
    BY FS_Subset, SumFacts
<1> HIDE DEF rest
<1> QED
    BY <1>2, <1>3, <1>4

\* A sum of zeros is 0.
LEMMA SumOfZeros ==
    ASSUME NEW D, IsFiniteSet(D), NEW f \in [D -> {0}]
    PROVE  SumFunction(f) = 0
<1> DEFINE P == {s \in SUBSET D : SumFunction([y \in s |-> f[y]]) = 0}
<1>1. ASSUME NEW s \in SUBSET D, \A x \in s : s \ {x} \in P PROVE s \in P
    <2> DEFINE g == [y \in s |-> f[y]]
    <2>1. IsFiniteSet(s) /\ g \in [s -> Int]
        BY FS_Subset
    <2>2. CASE s = {}
        <3>1. SumFunction(g) = 0
            BY <2>1, <2>2, SumFacts
        <3> QED
            BY <3>1
    <2>3. CASE s # {}
        <3>1. PICK x \in s : TRUE
            BY <2>3
        <3>2. SumFunction(g) = g[x] + SumFunction([y \in s \ {x} |-> g[y]])
            BY <2>1, SumFacts
        <3>3. [y \in s \ {x} |-> g[y]] = [y \in s \ {x} |-> f[y]] /\ g[x] = 0
            OBVIOUS
        <3>4. SumFunction([y \in s \ {x} |-> f[y]]) = 0
            BY <1>1
        <3>5. SumFunction(g) = 0
            BY <3>2, <3>3, <3>4
        <3> QED
            BY <3>5
    <2> QED
        BY <2>2, <2>3
<1> HIDE DEF P
<1>2. SUBSET D \subseteq P
    BY <1>1, SubsetInduction
<1>3. [y \in D |-> f[y]] = f
    OBVIOUS
<1> QED
    BY <1>2, <1>3 DEF P

\* A sum of values that are not below zero is not below any of them.
LEMMA SumBounds ==
    ASSUME NEW D, IsFiniteSet(D), NEW f \in [D -> Nat]
    PROVE  /\ SumFunction(f) \in Nat
           /\ \A x \in D : f[x] <= SumFunction(f)
<1> DEFINE P == {s \in SUBSET D : SumFunction([y \in s |-> f[y]]) \in Nat}
<1>1. ASSUME NEW s \in SUBSET D, \A x \in s : s \ {x} \in P PROVE s \in P
    <2> DEFINE g == [y \in s |-> f[y]]
    <2>1. IsFiniteSet(s) /\ g \in [s -> Int]
        BY FS_Subset
    <2>2. CASE s = {}
        <3>1. SumFunction(g) = 0
            BY <2>1, <2>2, SumFacts
        <3> QED
            BY <3>1
    <2>3. CASE s # {}
        <3>1. PICK x \in s : TRUE
            BY <2>3
        <3>2. SumFunction(g) = g[x] + SumFunction([y \in s \ {x} |-> g[y]])
            BY <2>1, SumFacts
        <3>3. [y \in s \ {x} |-> g[y]] = [y \in s \ {x} |-> f[y]]
            OBVIOUS
        <3>4. SumFunction([y \in s \ {x} |-> f[y]]) \in Nat
            BY <1>1
        <3>5. g[x] \in Nat
            OBVIOUS
        <3>6. SumFunction(g) \in Nat
            BY <3>2, <3>3, <3>4, <3>5
        <3> QED
            BY <3>6
    <2> QED
        BY <2>2, <2>3
<1> HIDE DEF P
<1>2. SUBSET D \subseteq P
    BY <1>1, SubsetInduction
<1>3. [y \in D |-> f[y]] = f
    OBVIOUS
<1>4. SumFunction(f) \in Nat
    BY <1>2, <1>3 DEF P
<1>5. ASSUME NEW x \in D PROVE f[x] <= SumFunction(f)
    <2>1. SumFunction([y \in D \ {x} |-> f[y]]) \in Nat
        BY <1>2 DEF P
    <2>2. SumFunction(f) = f[x] + SumFunction([y \in D \ {x} |-> f[y]])
        BY SumFacts
    <2> QED
        BY <2>1, <2>2
<1> QED
    BY <1>4, <1>5

\* A sum grows with its terms.
LEMMA SumGrows ==
    ASSUME NEW D, IsFiniteSet(D), NEW f \in [D -> Int], NEW g \in [D -> Int],
           \A x \in D : f[x] <= g[x]
    PROVE  SumFunction(f) <= SumFunction(g)
<1> DEFINE P == {s \in SUBSET D : SumOver(f, s) <= SumOver(g, s)}
<1>1. ASSUME NEW s \in SUBSET D, \A x \in s : s \ {x} \in P PROVE s \in P
    <2>1. CASE s = {}
        <3>1. [y \in s |-> f[y]] = [y \in s |-> g[y]]
            BY <2>1
        <3>2. SumOver(f, s) = SumOver(g, s) /\ SumOver(f, s) \in Int
            BY <3>1, SumTakesOff DEF SumOver
        <3> QED
            BY <3>2
    <2>2. CASE s # {}
        <3>1. PICK x \in s : TRUE
            BY <2>2
        <3>2. /\ s \ {x} \in SUBSET D
              /\ SumOver(f, s) = f[x] + SumOver(f, s \ {x})
              /\ SumOver(g, s) = g[x] + SumOver(g, s \ {x})
            BY SumTakesOff
        <3>3. SumOver(f, s \ {x}) \in Int /\ SumOver(g, s \ {x}) \in Int
            BY <3>2, SumTakesOff
        <3>4. SumOver(f, s \ {x}) <= SumOver(g, s \ {x})
            BY <1>1
        <3>5. f[x] \in Int /\ g[x] \in Int /\ f[x] <= g[x]
            OBVIOUS
        <3>6. SumOver(f, s) <= SumOver(g, s)
            BY <3>2, <3>3, <3>4, <3>5
        <3> QED
            BY <3>6
    <2> QED
        BY <2>1, <2>2
<1> HIDE DEF P
<1>2. SUBSET D \subseteq P
    BY <1>1, SubsetInduction
<1>3. SumOver(f, D) <= SumOver(g, D)
    BY <1>2 DEF P
<1> QED
    BY <1>3, SumOverAll

\* A sum does not change with the names of its terms.
LEMMA SumRenamed ==
    ASSUME NEW D, IsFiniteSet(D), NEW E, NEW b \in Bijection(D, E),
           NEW f \in [D -> Int], NEW g \in [E -> Int], \A x \in D : f[x] = g[b[x]]
    PROVE  SumFunction(f) = SumFunction(g)
<1>1. /\ b \in [D -> E] /\ \A x, y \in D : b[x] = b[y] => x = y
      /\ \A e \in E : \E x \in D : b[x] = e
    BY DEF Bijection, Injection, Surjection, IsInjective
<1>2. IsFiniteSet(E)
    BY FS_Surjection DEF Bijection
<1> DEFINE Img(s) == {b[x] : x \in s}
           P == {s \in SUBSET D : SumOver(f, s) = SumOver(g, Img(s))}
<1>3. ASSUME NEW s \in SUBSET D, \A x \in s : s \ {x} \in P PROVE s \in P
    <2>1. CASE s = {}
        <3>1. [y \in s |-> f[y]] = [y \in Img(s) |-> g[y]]
            BY <2>1
        <3>2. SumOver(f, s) = SumOver(g, Img(s))
            BY <3>1 DEF SumOver
        <3> QED
            BY <3>2
    <2>2. CASE s # {}
        <3>1. PICK x \in s : TRUE
            BY <2>2
        <3>2. SumOver(f, s) = f[x] + SumOver(f, s \ {x})
            BY SumTakesOff
        <3>3. Img(s) \in SUBSET E /\ b[x] \in Img(s)
            BY <1>1
        <3>4. Img(s) \ {b[x]} = Img(s \ {x})
            BY <1>1
        <3>5. SumOver(f, s \ {x}) = SumOver(g, Img(s \ {x}))
            BY <1>3
        <3>6. f[x] = g[b[x]]
            OBVIOUS
        <3> HIDE DEF Img
        <3>7. SumOver(g, Img(s)) = g[b[x]] + SumOver(g, Img(s) \ {b[x]})
            BY <1>2, <3>3, SumTakesOff
        <3>8. SumOver(f, s) = SumOver(g, Img(s))
            BY <3>2, <3>4, <3>5, <3>6, <3>7
        <3> QED
            BY <3>8
    <2> QED
        BY <2>1, <2>2
<1> HIDE DEF P
<1>4. SUBSET D \subseteq P
    BY <1>3, SubsetInduction
<1>5. Img(D) = E
    BY <1>1
<1>6. SumOver(f, D) = SumOver(g, Img(D))
    BY <1>4 DEF P
<1> QED
    BY <1>5, <1>6, SumOverAll

\* Terms that are 0 can be left out.
LEMMA SumWithoutZeros ==
    ASSUME NEW D, IsFiniteSet(D), NEW S \in SUBSET D, NEW f \in [D -> Int],
           \A x \in D \ S : f[x] = 0
    PROVE  SumFunction(f) = SumFunction([x \in S |-> f[x]])
<1> DEFINE P == {s \in SUBSET D : SumOver(f, s) = SumOver(f, s \cap S)}
<1>1. ASSUME NEW s \in SUBSET D, \A x \in s : s \ {x} \in P PROVE s \in P
    <2>1. CASE s = {}
        <3>1. s \cap S = s
            BY <2>1
        <3> QED
            BY <3>1
    <2>2. CASE s # {}
        <3>1. PICK x \in s : TRUE
            BY <2>2
        <3>2. SumOver(f, s) = f[x] + SumOver(f, s \ {x}) /\ s \ {x} \in SUBSET D
            BY SumTakesOff
        <3>3. SumOver(f, s \ {x}) = SumOver(f, (s \ {x}) \cap S)
            BY <1>1
        <3>4. ASSUME x \in S PROVE SumOver(f, s) = SumOver(f, s \cap S)
            <4>1. (s \ {x}) \cap S = (s \cap S) \ {x}
                OBVIOUS
            <4>2. s \cap S \in SUBSET D /\ x \in s \cap S
                BY <3>4
            <4>3. SumOver(f, s \cap S) = f[x] + SumOver(f, (s \cap S) \ {x})
                BY <4>2, SumTakesOff
            <4> HIDE DEF P
            <4> QED
                BY <3>2, <3>3, <4>1, <4>3
        <3>5. ASSUME x \notin S PROVE SumOver(f, s) = SumOver(f, s \cap S)
            <4>1. (s \ {x}) \cap S = s \cap S /\ f[x] = 0
                BY <3>5
            <4>2. SumOver(f, s \ {x}) = SumOver(f, s \cap S)
                BY <3>3, <4>1
            <4>3. SumOver(f, s \ {x}) \in Int
                BY <3>2, SumTakesOff
            <4> QED
                BY <3>2, <4>1, <4>2, <4>3
        <3>6. SumOver(f, s) = SumOver(f, s \cap S)
            BY <3>4, <3>5
        <3> QED
            BY <3>6
    <2> QED
        BY <2>1, <2>2
<1> HIDE DEF P
<1>2. SUBSET D \subseteq P
    BY <1>1, SubsetInduction
<1>3. SumOver(f, D) = SumOver(f, D \cap S) /\ D \cap S = S
    BY <1>2 DEF P
<1> QED
    BY <1>3, SumOverAll DEF SumOver

-----------------------------------------------------------------------------
\* The operators the model is built from.

\* A set of indices that has a member has a least one.
LEMMA LeastIndex ==
    ASSUME NEW S, S \subseteq Nat, S # {}
    PROVE  Min(S) \in S
<1>1. \A x, y \in Nat : <<y, x>> \in OpToRel(<, Nat) <=> y < x
    BY DEF OpToRel
<1>2. PICK x \in S : \A y \in S : ~(<<y, x>> \in OpToRel(<, Nat))
    BY NatLessThanWellFounded, WFMin, Zenon
<1>3. \A y \in S : x =< y
    <2> SUFFICES ASSUME NEW y \in S PROVE x =< y
        OBVIOUS
    <2>1. x \in Nat /\ y \in Nat
        OBVIOUS
    <2>2. ~(y < x)
        BY <1>1, <1>2, <2>1, Zenon
    <2> QED
        BY <2>1, <2>2, SMT
<1> QED
    BY <1>3, Zenon DEF Min

\* A chain of validation handlers returns an error code, or a handler throws.
LEMMA RunType ==
    ASSUME NEW chain \in Seq(Handler), NEW txn
    PROVE  Run(chain, txn) \in ErrorCode \cup {Thrown}
<1> DEFINE stops == {i \in DOMAIN chain : Check(chain[i], txn) # "NONE"}
<1>1. \A h \in Handler : Check(h, txn) \in ErrorCode \cup {Thrown}
    BY DEF Handler, Check, BasicCheck, LimitCheck, FraudCheck, ErrorCode, Thrown
<1>2. CASE stops = {}
    BY <1>2 DEF Run, ErrorCode
<1>3. CASE stops # {}
    <2>1. stops \subseteq Nat
        OBVIOUS
    <2>2. Min(stops) \in DOMAIN chain
        BY <1>3, <2>1, LeastIndex
    <2>3. chain[Min(stops)] \in Handler
        BY <2>2
    <2> QED
        BY <1>1, <1>3, <2>3 DEF Run
<1> QED
    BY <1>2, <1>3

\* A credit or a debit leaves an amount of money behind, and none below zero.
LEMMA AccountMoney ==
    ASSUME NEW b \in Money, NEW m \in Money
    PROVE  /\ AfterCredit(b, m) \in Money
           /\ AfterDebit(b, m) \in Money
           /\ AfterCredit(b, m).minor >= b.minor
           /\ b.minor >= 0 => AfterDebit(b, m).minor >= 0
BY DEF AfterCredit, AfterDebit, CreditVerdict, DebitVerdict, Plus, Minus, Money,
       IsNegative, Exceeds, SameCcy

\* fail() and advance() stay within the lifecycle.
LEMMA AdvanceType ==
    ASSUME NEW s \in TxnStatus, NEW to \in TxnStatus
    PROVE  Advance(s, to) \in TxnStatus
BY DEF Advance

\* A payment posts two legs, a debit and then a credit.
LEMMA PostingLegs ==
    ASSUME TypeOK, NEW c \in Calls
    PROVE  /\ Posting(c) \in Seq(LedgerEntry)
           /\ Len(Posting(c)) = 2
           /\ \A i \in 1..2 : Posting(c)[i].txn = txnId[c]
           /\ Posting(c)[1].dir = "DEBIT"
           /\ Posting(c)[2].dir = "CREDIT"
<1>1. req[c] \in PaymentRequest
    BY ConstantsAssumption DEF TypeOK
<1>2. \A i \in 1..2 : Posting(c)[i] \in LedgerEntry
    BY <1>1 DEF TypeOK, Posting, Entry, LedgerEntry, PaymentRequest, Direction, Money
<1> QED
    BY <1>2 DEF Posting, Entry

\* The entries of an account are finitely many, and their net is a number.
LEMMA NetType ==
    ASSUME NEW entries \in Seq(LedgerEntry), NEW a
    PROVE  /\ IsFiniteSet(EntriesFor(entries, a))
           /\ EntriesFor(entries, a) \subseteq DOMAIN entries
           /\ \A i \in DOMAIN entries : SignedAmount(entries[i]).minor \in Int
           /\ DerivedNet(entries, a) \in Int
<1> DEFINE I == EntriesFor(entries, a)
           f == [i \in I |-> SignedAmount(entries[i]).minor]
<1>1. Len(entries) \in Nat /\ DOMAIN entries = 1..Len(entries)
    OBVIOUS
<1>2. I \in SUBSET (1..Len(entries))
    BY <1>1 DEF EntriesFor
<1>3. IsFiniteSet(1..Len(entries))
    BY <1>1, FS_Interval
<1>4. \A i \in DOMAIN entries : SignedAmount(entries[i]).minor \in Int
    <2>1. \A i \in DOMAIN entries : entries[i] \in LedgerEntry
        OBVIOUS
    <2> QED
        BY <2>1 DEF LedgerEntry, SignedAmount, Times, Money
<1>5. DerivedNet(entries, a) = SumFunction(f)
    BY DEF DerivedNet, NetAt
<1> HIDE DEF I
<1>6. IsFiniteSet(I)
    BY <1>2, <1>3, FS_Subset
<1>7. f \in [I -> Int]
    BY <1>1, <1>2, <1>4
<1> HIDE DEF f
<1>8. SumFunction(f) \in Int
    BY <1>6, <1>7, SumFacts
<1> QED
    BY <1>1, <1>2, <1>4, <1>5, <1>6, <1>8 DEF I

\* The net of an account over one more entry.
LEMMA NetGrows ==
    ASSUME NEW entries \in Seq(LedgerEntry), NEW e \in LedgerEntry, NEW a
    PROVE  DerivedNet(Append(entries, e), a)
             = DerivedNet(entries, a)
                 + (IF e.account = a THEN SignedAmount(e).minor ELSE 0)
<1> DEFINE n == Len(entries) + 1
           more == Append(entries, e)
           I == EntriesFor(entries, a)
           J == EntriesFor(more, a)
           g == [i \in J |-> SignedAmount(more[i]).minor]
<1>1. /\ DOMAIN more = DOMAIN entries \cup {n} /\ n \notin DOMAIN entries
      /\ more[n] = e
      /\ \A i \in DOMAIN entries : more[i] = entries[i]
      /\ more \in Seq(LedgerEntry)
    OBVIOUS
<1>2. /\ IsFiniteSet(J) /\ J \subseteq DOMAIN more /\ DerivedNet(more, a) \in Int
      /\ \A i \in DOMAIN more : SignedAmount(more[i]).minor \in Int
    <2> HIDE DEF more
    <2> QED
        BY <1>1, NetType
<1>3. I \subseteq DOMAIN entries /\ DerivedNet(entries, a) \in Int
    BY NetType
<1>4. /\ DerivedNet(entries, a) = SumFunction([i \in I |-> SignedAmount(entries[i]).minor])
      /\ DerivedNet(more, a) = SumFunction(g)
    BY DEF DerivedNet, NetAt
<1> HIDE DEF more, n
<1>5. J = IF e.account = a THEN I \cup {n} ELSE I
    BY <1>1 DEF EntriesFor
<1> HIDE DEF I, J
<1>6. g \in [J -> Int]
    BY <1>2
<1>7. CASE e.account = a
    <2>1. n \in J /\ J \ {n} = I
        BY <1>1, <1>3, <1>5, <1>7
    <2>2. [i \in J \ {n} |-> g[i]] = [i \in I |-> SignedAmount(entries[i]).minor]
        BY <1>1, <1>3, <2>1
    <2>3. SumOver(g, J \ {n}) = DerivedNet(entries, a)
        BY <1>4, <2>2 DEF SumOver
    <2>4. g[n] = SignedAmount(e).minor /\ g[n] \in Int
        BY <1>1, <1>6, <2>1
    <2> HIDE DEF g
    <2>5. SumFunction(g) = g[n] + SumOver(g, J \ {n})
        BY <1>2, <1>6, <2>1, SumSplits
    <2>6. DerivedNet(more, a) = g[n] + DerivedNet(entries, a)
        BY <1>4, <2>3, <2>5
    <2> QED
        BY <1>3, <1>7, <2>4, <2>6 DEF more
<1>8. CASE e.account # a
    <2>1. g = [i \in I |-> SignedAmount(entries[i]).minor]
        BY <1>1, <1>3, <1>5, <1>8
    <2>2. DerivedNet(more, a) = DerivedNet(entries, a)
        BY <1>4, <2>1
    <2> QED
        BY <1>3, <1>8, <2>2 DEF more
<1> QED
    BY <1>7, <1>8

\* An empty journal moves nothing.
LEMMA NetOfNothing ==
    ASSUME NEW a
    PROVE  DerivedNet(<< >>, a) = 0
<1> DEFINE f == [i \in EntriesFor(<< >>, a) |-> SignedAmount(<< >>[i]).minor]
<1>1. EntriesFor(<< >>, a) = {}
    BY DEF EntriesFor
<1>2. f \in [{} -> Int]
    BY <1>1
<1>3. IsFiniteSet({})
    BY FS_EmptySet
<1> HIDE DEF f
<1>4. SumFunction(f) = 0
    BY <1>2, <1>3, SumFacts
<1> QED
    BY <1>4 DEF DerivedNet, NetAt, f

-----------------------------------------------------------------------------
\* Types.

LEMMA InitTypeOK == Init => TypeOK
<1> SUFFICES ASSUME Init PROVE TypeOK
    OBVIOUS
<1>1. outcome \in [Calls -> Outcome]
    BY DEF Init, Outcome, ErrorCode
<1> QED
    BY <1>1, ConstantsAssumption DEF Init, TypeOK, Labels, TxnStatus, ErrorCode

\* Every step keeps every variable in its type.
LEMMA NextTypeOK == TypeOK /\ [Next]_vars => TypeOK'
<1> SUFFICES ASSUME TypeOK, [Next]_vars PROVE TypeOK'
    OBVIOUS
<1> USE ConstantsAssumption
<1>1. ASSUME NEW c \in Calls, NEW from, NEW to \in Labels, Step(c, from, to)
      PROVE  pc' \in [Calls -> Labels]
    BY <1>1 DEF TypeOK, Step
<1>2. ASSUME NEW c \in Calls, NEW from, NEW code \in ErrorCode,
             Failing(c, from, code)
      PROVE  /\ pc' \in [Calls -> Labels]
             /\ error' \in [Calls -> ErrorCode]
             /\ status' \in [Calls -> TxnStatus]
    <2>1. Advance(status[c], "FAILED") \in TxnStatus
        BY AdvanceType DEF TypeOK, TxnStatus
    <2> QED
        BY <1>2, <2>1 DEF TypeOK, Failing, Step, Labels
<1>3. ASSUME NEW c \in Calls
      PROVE  /\ req[c] \in PaymentRequest
             /\ TransactionOf(c) \in Transaction
             /\ \A id : Find(id) \subseteq Transaction
    BY DEF TypeOK, TransactionOf, Transaction, PaymentRequest, Find
<1>4. ASSUME NEW c \in Calls, NEW tag \in {"ok", "err", "threw"},
             NEW code \in ErrorCode, NEW value \in SUBSET Transaction,
             Return(c, tag, code, value)
      PROVE  outcome' \in [Calls -> Outcome]
    BY <1>4 DEF TypeOK, Return, Outcome
<1>5. ASSUME NEW c \in Calls, NEW a \in Ids,
             \/ balance' = [balance EXCEPT ![a] = AfterCredit(@, req[c].amount)]
             \/ balance' = [balance EXCEPT ![a] = AfterDebit(@, req[c].amount)]
      PROVE  balance' \in [Accounts -> Money]
    <2>1. req[c].amount \in Money
        BY <1>3 DEF PaymentRequest
    <2>2. CASE a \in Accounts
        <3>1. balance[a] \in Money
            BY <2>2 DEF TypeOK
        <3>2. /\ AfterCredit(balance[a], req[c].amount) \in Money
              /\ AfterDebit(balance[a], req[c].amount) \in Money
            BY <2>1, <3>1, AccountMoney
        <3> QED
            BY <1>5, <3>2 DEF TypeOK
    <2>3. CASE a \notin Accounts
        BY <1>5, <2>3 DEF TypeOK
    <2> QED
        BY <2>2, <2>3
<1>6. ASSUME NEW c \in Calls
      PROVE  /\ req[c].key \in Keys
             /\ req[c].payer \in Ids
             /\ req[c].payee \in Ids
             /\ req[c].amount \in Money
    BY <1>3 DEF PaymentRequest
<1> USE DEF stack, shared, vars
<1>7. ASSUME NEW c \in Calls, Pay(c) PROVE TypeOK'
    <2>1. CASE MintId(c)
        BY <2>1, <1>1 DEF TypeOK, MintId, Labels
    <2>2. CASE ClaimKey(c)
        BY <2>2, <1>1, <1>6 DEF TypeOK, ClaimKey, Labels
    <2>3. CASE KeyTaken(c)
        BY <2>3, <1>1 DEF TypeOK, KeyTaken, Labels
    <2>4. CASE Replay(c)
        <3>1. outcome' \in [Calls -> Outcome]
            BY <2>4, <1>3, <1>4 DEF Replay, ErrorCode
        <3> QED
            BY <2>4, <3>1, <1>1 DEF TypeOK, Replay, Labels
    <2>5. CASE Build(c)
        <3>1. outcome' \in [Calls -> Outcome]
            BY <2>5, <1>4 DEF TypeOK, Build, ErrorCode
        <3> QED
            BY <2>5, <3>1, <1>1 DEF TypeOK, Build, Labels
    <2>6. CASE Acquire(c)
        BY <2>6, <1>1, <1>6 DEF TypeOK, Acquire, Labels
    <2>7. CASE Validate(c)
        <3>1. Run(Chain, req[c]) \in ErrorCode \cup {Thrown}
            BY RunType
        <3>2. outcome' \in [Calls -> Outcome]
            BY <2>7, <1>4 DEF TypeOK, Validate, ErrorCode
        <3>3. /\ pc' \in [Calls -> Labels]
              /\ error' \in [Calls -> ErrorCode]
              /\ status' \in [Calls -> TxnStatus]
            BY <2>7, <3>1, <1>1, <1>2 DEF TypeOK, Validate, Labels
        <3> QED
            BY <2>7, <3>2, <3>3 DEF TypeOK, Validate
    <2>8. CASE FindAccounts(c)
        <3>1. /\ pc' \in [Calls -> Labels]
              /\ error' \in [Calls -> ErrorCode]
              /\ status' \in [Calls -> TxnStatus]
            BY <2>8, <1>1, <1>2 DEF TypeOK, FindAccounts, Labels, ErrorCode
        <3> QED
            BY <2>8, <3>1 DEF TypeOK, FindAccounts
    <2>9. CASE Authorize(c)
        <3>1. Advance(status[c], "AUTHORIZED") \in TxnStatus
            BY AdvanceType DEF TypeOK, TxnStatus
        <3> QED
            BY <2>9, <3>1, <1>1 DEF TypeOK, Authorize, Labels
    <2>10. CASE Decline(c)
        <3>1. PICK code \in Strategy(c).authorize : Failing(c, "authorize", code)
            BY <2>10 DEF Decline
        <3>2. code \in ErrorCode
            BY <1>3 DEF Strategy, PaymentRequest, Provider
        <3> QED
            BY <2>10, <3>1, <3>2, <1>2 DEF TypeOK, Decline
    <2>11. CASE DebitPayer(c)
        <3>1. DebitVerdict(balance[req[c].payer], req[c].amount) \in ErrorCode
            BY DEF DebitVerdict, ErrorCode
        <3>2. /\ pc' \in [Calls -> Labels]
              /\ error' \in [Calls -> ErrorCode]
              /\ status' \in [Calls -> TxnStatus]
            BY <2>11, <3>1, <1>1, <1>2 DEF TypeOK, DebitPayer, Labels
        <3>3. balance' \in [Accounts -> Money]
            BY <2>11, <1>5, <1>6 DEF DebitPayer
        <3> QED
            BY <2>11, <3>2, <3>3 DEF TypeOK, DebitPayer
    <2>12. CASE CreditPayee(c)
        <3>1. balance' \in [Accounts -> Money]
            BY <2>12, <1>5, <1>6 DEF CreditPayee
        <3> QED
            BY <2>12, <3>1, <1>1 DEF TypeOK, CreditPayee, Labels
    <2>13. CASE SeqOfDebit(c)
        <3>1. seqs' \in [Calls -> [debit: Nat, credit: Nat]]
            <4>1. seqs \in [Calls -> [debit: Nat, credit: Nat]] /\ nextSeq \in Nat
                BY DEF TypeOK
            <4> DEFINE taken == [seqs[c] EXCEPT !.debit = nextSeq]
            <4>2. taken \in [debit: Nat, credit: Nat]
                BY <4>1
            <4>3. seqs' = [seqs EXCEPT ![c] = taken]
                BY <2>13 DEF SeqOfDebit
            <4> HIDE DEF taken
            <4> QED
                BY <4>1, <4>2, <4>3
        <3>2. nextSeq' \in Nat \ {0}
            BY <2>13 DEF TypeOK, SeqOfDebit
        <3> QED
            BY <2>13, <3>1, <3>2, <1>1 DEF TypeOK, SeqOfDebit, Labels
    <2>14. CASE SeqOfCredit(c)
        <3>1. seqs' \in [Calls -> [debit: Nat, credit: Nat]]
            <4>1. seqs \in [Calls -> [debit: Nat, credit: Nat]] /\ nextSeq \in Nat
                BY DEF TypeOK
            <4> DEFINE taken == [seqs[c] EXCEPT !.credit = nextSeq]
            <4>2. taken \in [debit: Nat, credit: Nat]
                BY <4>1
            <4>3. seqs' = [seqs EXCEPT ![c] = taken]
                BY <2>14 DEF SeqOfCredit
            <4> HIDE DEF taken
            <4> QED
                BY <4>1, <4>2, <4>3
        <3>2. nextSeq' \in Nat \ {0}
            BY <2>14 DEF TypeOK, SeqOfCredit
        <3> QED
            BY <2>14, <3>1, <3>2, <1>1 DEF TypeOK, SeqOfCredit, Labels
    <2>15. CASE PostAccepted(c)
        <3>1. journal' \in Seq(LedgerEntry)
            BY <2>15, PostingLegs, ConcatProperties DEF TypeOK, PostAccepted
        <3> QED
            BY <2>15, <3>1, <1>1 DEF TypeOK, PostAccepted, Labels
    <2>16. CASE PostRejected(c)
        <3>1. Refusals(c) \subseteq ErrorCode
            BY DEF Refusals, PostVerdict, ErrorCode
        <3> QED
            BY <2>16, <3>1, <1>1 DEF TypeOK, PostRejected, Labels
    <2>17. CASE RefundPayer(c)
        <3>1. balance' \in [Accounts -> Money]
            BY <2>17, <1>5, <1>6 DEF RefundPayer
        <3> QED
            BY <2>17, <3>1, <1>1 DEF TypeOK, RefundPayer, Labels
    <2>18. CASE ChargePayee(c)
        <3>1. balance' \in [Accounts -> Money]
            BY <2>18, <1>5, <1>6 DEF ChargePayee
        <3>2. error[c] \in ErrorCode
            BY DEF TypeOK
        <3> QED
            BY <2>18, <3>1, <3>2, <1>2 DEF TypeOK, ChargePayee
    <2>19. CASE Capture(c)
        <3>1. Advance(status[c], "CAPTURED") \in TxnStatus
            BY AdvanceType DEF TypeOK, TxnStatus
        <3> QED
            BY <2>19, <3>1, <1>1 DEF TypeOK, Capture, Labels
    <2>20. CASE CaptureRefused(c)
        <3>1. PICK code \in Strategy(c).capture : Failing(c, "capture", code)
            BY <2>20 DEF CaptureRefused
        <3>2. code \in ErrorCode
            BY <1>3 DEF Strategy, PaymentRequest, Provider
        <3> QED
            BY <2>20, <3>1, <3>2, <1>2 DEF TypeOK, CaptureRefused
    <2>21. CASE Save(c)
        <3>1. store' \in SUBSET Transaction
            BY <2>21, <1>3 DEF TypeOK, Save
        <3> QED
            BY <2>21, <3>1, <1>1 DEF TypeOK, Save, Labels
    <2>22. CASE Publish(c)
        <3>1. outcome' \in [Calls -> Outcome]
            <4>1. error[c] \in ErrorCode /\ "NONE" \in ErrorCode
                BY DEF TypeOK, ErrorCode
            <4>2. \/ Return(c, "ok", "NONE", {TransactionOf(c)})
                  \/ Return(c, "err", error[c], {})
                BY <2>22 DEF Publish
            <4> QED
                BY <1>3, <1>4, <4>1, <4>2
        <3>2. log' \in Seq(DomainEvent)
            BY <2>22, AppendProperties DEF TypeOK, Publish, DomainEvent
        <3> QED
            BY <2>22, <3>1, <3>2, <1>1 DEF TypeOK, Publish, Labels
    <2>23. CASE Release(c)
        BY <2>23, <1>1, <1>6 DEF TypeOK, Release, Labels
    <2> QED
        BY <1>7, <2>1, <2>2, <2>3, <2>4, <2>5, <2>6, <2>7, <2>8, <2>9, <2>10,
           <2>11, <2>12, <2>13, <2>14, <2>15, <2>16, <2>17, <2>18, <2>19, <2>20,
           <2>21, <2>22, <2>23 DEF Pay
<1>8. ASSUME NEW a \in Accounts, OpenAccount(a) PROVE TypeOK'
    BY <1>8 DEF TypeOK, OpenAccount
<1>9. CASE UNCHANGED vars
    BY <1>9 DEF TypeOK
<1> QED
    BY <1>7, <1>8, <1>9 DEF Next, Finished

\* The types of the service's state, whatever the collaborators do.
THEOREM TypeCorrect == Spec => []TypeOK
<1> QED
    BY InitTypeOK, NextTypeOK, PTL DEF Spec

-----------------------------------------------------------------------------
\* Steps of a call.

\* A step of a call leaves the other calls alone, and only a few actions touch the
\* ids, the claims, the locks, the journal, the store or the balances; the others
\* move the call forward between the regions the invariant speaks of.
Moves(c) ==
    /\ req' = req
    /\ \E to \in Labels : pc' = [pc EXCEPT ![c] = to]
    /\ \/ MintId(c)
       \/ /\ UNCHANGED <<txnId, nextTxn>>
          /\ pc[c] # "mint" /\ pc'[c] # "mint"
    /\ \/ ClaimKey(c)
       \/ /\ UNCHANGED claimed
          /\ Working(c)' => Working(c)
    /\ \/ Acquire(c)
       \/ Release(c)
       \/ /\ UNCHANGED holder
          /\ pc'[c] \in Critical => pc[c] \in Critical
    /\ \/ PostAccepted(c)
       \/ /\ UNCHANGED journal
          /\ pc[c] \in AfterPost => pc'[c] \in AfterPost
    /\ \/ Save(c)
       \/ /\ UNCHANGED store
          /\ pc[c] \in AfterSave => pc'[c] \in AfterSave
    /\ \/ DebitPayer(c) \/ CreditPayee(c) \/ RefundPayer(c) \/ ChargePayee(c)
       \/ UNCHANGED balance

LEMMA PayMoves ==
    ASSUME TypeOK, NEW c \in Calls, Pay(c)
    PROVE  Moves(c)
<1> USE DEF TypeOK, Moves, Step, Working, Critical, AfterPost, AfterSave, Labels,
            stack, shared
<1>1. CASE MintId(c)
    BY <1>1 DEF MintId
<1>2. CASE ClaimKey(c)
    BY <1>2 DEF ClaimKey
<1>3. CASE KeyTaken(c)
    BY <1>3 DEF KeyTaken
<1>4. CASE Replay(c)
    BY <1>4 DEF Replay
<1>5. CASE Build(c)
    BY <1>5 DEF Build
<1>6. CASE Acquire(c)
    BY <1>6 DEF Acquire
<1>7. CASE Validate(c)
    BY <1>7 DEF Validate, Failing
<1>8. CASE FindAccounts(c)
    BY <1>8 DEF FindAccounts, Failing
<1>9. CASE Authorize(c)
    BY <1>9 DEF Authorize
<1>10. CASE Decline(c)
    BY <1>10 DEF Decline, Failing
<1>11. CASE DebitPayer(c)
    BY <1>11 DEF DebitPayer, Failing
<1>12. CASE CreditPayee(c)
    BY <1>12 DEF CreditPayee
<1>13. CASE SeqOfDebit(c)
    BY <1>13 DEF SeqOfDebit
<1>14. CASE SeqOfCredit(c)
    BY <1>14 DEF SeqOfCredit
<1>15. CASE PostAccepted(c)
    BY <1>15 DEF PostAccepted
<1>16. CASE PostRejected(c)
    BY <1>16 DEF PostRejected
<1>17. CASE RefundPayer(c)
    BY <1>17 DEF RefundPayer
<1>18. CASE ChargePayee(c)
    BY <1>18 DEF ChargePayee, Failing
<1>19. CASE Capture(c)
    BY <1>19 DEF Capture
<1>20. CASE CaptureRefused(c)
    BY <1>20 DEF CaptureRefused, Failing
<1>21. CASE Save(c)
    BY <1>21 DEF Save
<1>22. CASE Publish(c)
    BY <1>22 DEF Publish
<1>23. CASE Release(c)
    BY <1>23 DEF Release
<1> QED
    BY <1>1, <1>2, <1>3, <1>4, <1>5, <1>6, <1>7, <1>8, <1>9, <1>10, <1>11,
       <1>12, <1>13, <1>14, <1>15, <1>16, <1>17, <1>18, <1>19, <1>20, <1>21,
       <1>22, <1>23 DEF Pay

-----------------------------------------------------------------------------
\* The inductive invariant.

LEMMA InitOwnership == Init => Ownership
BY DEF Init, Ownership, Reservations, IdsAreFresh, ClaimsAreKept, LocksAreKept,
       PostedByItsClaimant, DebitedOnce, SavedByItsOwner, Working, Critical

\* An id is minted by one call only.
LEMMA IdsStep ==
    ASSUME TypeOK, Reservations, NEW c \in Calls, Moves(c)
    PROVE  IdsAreFresh'
<1> USE DEF TypeOK, Reservations, IdsAreFresh
<1>1. CASE MintId(c)
    BY <1>1 DEF MintId, Step
<1>2. CASE ~MintId(c)
    BY <1>2 DEF Moves
<1> QED
    BY <1>1, <1>2

\* A claim is never overwritten, and a call works only under a claim of its own.
LEMMA ClaimsStep ==
    ASSUME TypeOK, Reservations, NEW c \in Calls, Moves(c)
    PROVE  /\ ClaimsAreKept'
           /\ \A k \in Keys : claimed[k] # 0 => claimed'[k] = claimed[k]
           /\ \A d \in Calls : txnId[d] # 0 => txnId'[d] = txnId[d]
<1>1. \A d \in Calls : txnId[d] # 0 => txnId'[d] = txnId[d]
    BY DEF Moves, MintId, Step, TypeOK, Reservations, IdsAreFresh
<1>2. \A k \in Keys : claimed[k] # 0 => claimed'[k] = claimed[k]
    BY DEF Moves, ClaimKey, TypeOK
<1>3. \A d \in Calls : req[d].key \in Keys
    BY ConstantsAssumption DEF TypeOK, PaymentRequest
<1>4. \A d \in Calls : Working(d) => txnId[d] # 0
    BY DEF Working, Reservations, IdsAreFresh
<1>5. ASSUME NEW d \in Calls, Working(d)'
      PROVE  (claimed[req[d].key] = txnId[d])'
    <2>1. CASE d = c /\ ClaimKey(c)
        BY <1>3, <2>1 DEF ClaimKey, TypeOK, stack
    <2>2. CASE ~(d = c /\ ClaimKey(c))
        <3>1. Working(d)
            BY <1>5, <2>2 DEF Moves, Working, TypeOK
        <3>2. claimed[req[d].key] = txnId[d]
            BY <3>1 DEF Reservations, ClaimsAreKept
        <3> QED
            BY <1>1, <1>2, <1>3, <1>4, <3>1, <3>2 DEF Moves
    <2> QED
        BY <2>1, <2>2
<1> QED
    BY <1>1, <1>2, <1>5 DEF ClaimsAreKept

\* A lock is taken when it is free and given back by its holder.
LEMMA LocksStep ==
    ASSUME TypeOK, Reservations, NEW c \in Calls, Moves(c)
    PROVE  LocksAreKept'
<1>1. \A d \in Calls : req[d].payer \in Ids
    BY ConstantsAssumption DEF TypeOK, PaymentRequest
<1>2. SUFFICES ASSUME NEW d \in Calls, pc'[d] \in Critical
               PROVE  holder'[req'[d].payer] = d
    BY DEF LocksAreKept
<1>3. req' = req
    BY DEF Moves
<1>4. d # c => pc'[d] = pc[d]
    BY DEF Moves, TypeOK
<1>5. pc[d] \in Critical => holder[req[d].payer] = d
    BY DEF Reservations, LocksAreKept
<1>6. NoCall # d
    BY ConstantsAssumption
<1>7. CASE Acquire(c)
    BY <1>1, <1>2, <1>3, <1>4, <1>5, <1>6, <1>7 DEF Acquire, TypeOK
<1>8. CASE Release(c)
    <2>1. pc[c] \in Critical /\ pc'[c] \notin Critical
        BY <1>8 DEF Release, Step, Critical, TypeOK
    <2>2. d # c /\ holder[req[c].payer] = c /\ holder[req[d].payer] = d
        BY <1>2, <1>4, <1>5, <2>1 DEF Reservations, LocksAreKept
    <2> QED
        BY <1>1, <1>3, <1>8, <2>2 DEF Release, TypeOK
<1>9. CASE ~Acquire(c) /\ ~Release(c)
    BY <1>2, <1>3, <1>4, <1>5, <1>9 DEF Moves
<1> QED
    BY <1>7, <1>8, <1>9

\* No two calls are at work on the account of one payer.
LEMMA OnePayerAtATime ==
    ASSUME Reservations, NEW c \in Calls, NEW d \in Calls,
           pc[c] \in Critical, pc[d] \in Critical, req[c].payer = req[d].payer
    PROVE  c = d
BY DEF Reservations, LocksAreKept

\* An accepted posting leaves the journal as it was and adds its two legs.
LEMMA PostingAppends ==
    ASSUME TypeOK, NEW c \in Calls, PostAccepted(c)
    PROVE  /\ Len(journal) \in Nat
           /\ DOMAIN journal = 1..Len(journal)
           /\ DOMAIN journal' = 1..(Len(journal) + 2)
           /\ \A i \in 1..Len(journal) : journal'[i] = journal[i]
           /\ journal'[Len(journal) + 1] = Posting(c)[1]
           /\ journal'[Len(journal) + 2] = Posting(c)[2]
<1> DEFINE joined == journal \o Posting(c)
<1>1. /\ journal \in Seq(LedgerEntry) /\ Posting(c) \in Seq(LedgerEntry)
      /\ Len(Posting(c)) = 2
    BY PostingLegs DEF TypeOK
<1>2. /\ Len(journal) \in Nat
      /\ DOMAIN journal = 1..Len(journal)
    BY <1>1
<1>3. /\ joined \in Seq(LedgerEntry)
      /\ Len(joined) = Len(journal) + Len(Posting(c))
      /\ \A i \in 1..Len(journal) + Len(Posting(c)) :
            joined[i] = IF i <= Len(journal) THEN journal[i]
                        ELSE Posting(c)[i - Len(journal)]
    BY <1>1, ConcatProperties
<1>4. DOMAIN joined = 1..Len(joined)
    BY <1>3
<1>5. journal' = joined
    BY DEF PostAccepted
<1> HIDE DEF joined
<1> QED
    BY <1>1, <1>2, <1>3, <1>4, <1>5

\* What is posted is posted by the claimant of its key, and once.
LEMMA JournalStep ==
    ASSUME TypeOK, Reservations, NEW c \in Calls, Moves(c)
    PROVE  PostedByItsClaimant' /\ DebitedOnce'
<1>1. /\ req' = req
      /\ \A d \in Calls : d # c => pc'[d] = pc[d]
      /\ \A d \in Calls : pc[d] \in AfterPost => txnId[d] # 0
    BY DEF Moves, TypeOK, Reservations, IdsAreFresh, AfterPost
<1>2. /\ \A k \in Keys : claimed[k] # 0 => claimed'[k] = claimed[k]
      /\ \A d \in Calls : txnId[d] # 0 => txnId'[d] = txnId[d]
    BY ClaimsStep
<1>3. \A d \in Calls : req[d].key \in Keys
    BY ConstantsAssumption DEF TypeOK, PaymentRequest
<1>4. ASSUME NEW d \in Calls, pc[d] \in AfterPost, claimed[req[d].key] = txnId[d]
      PROVE  /\ txnId'[d] = txnId[d]
             /\ claimed'[req'[d].key] = txnId[d]
    BY <1>1, <1>2, <1>3, <1>4
<1>5. CASE PostAccepted(c)
    <2>1. /\ pc[c] = "post" /\ pc'[c] = "capture"
          /\ journal' = journal \o Posting(c)
          /\ UNCHANGED <<txnId, claimed>>
        BY <1>5 DEF PostAccepted, Step, TypeOK, stack
    <2>2. \A d \in Calls : pc[d] \in AfterPost => pc'[d] \in AfterPost
        BY <1>1, <2>1 DEF AfterPost
    <2>3. claimed[req[c].key] = txnId[c] /\ txnId[c] # 0
        BY <2>1 DEF Reservations, ClaimsAreKept, IdsAreFresh, Working, Labels
    <2>4. \A i \in DOMAIN journal : journal[i].txn # txnId[c]
        <3> SUFFICES ASSUME NEW i \in DOMAIN journal, journal[i].txn = txnId[c]
                     PROVE  FALSE
            OBVIOUS
        <3>1. PICK d \in Calls : journal[i].txn = txnId[d] /\ pc[d] \in AfterPost
            BY DEF Reservations, PostedByItsClaimant
        <3>2. d = c
            BY <2>3, <3>1 DEF Reservations, IdsAreFresh
        <3> QED
            BY <2>1, <3>1, <3>2 DEF AfterPost
    <2>5. /\ Posting(c) \in Seq(LedgerEntry)
          /\ Len(Posting(c)) = 2
          /\ \A i \in 1..2 : Posting(c)[i].txn = txnId[c]
          /\ Posting(c)[2].dir = "CREDIT"
        BY PostingLegs
    <2>6. /\ Len(journal) \in Nat
          /\ DOMAIN journal = 1..Len(journal)
          /\ DOMAIN journal' = 1..(Len(journal) + 2)
          /\ \A i \in 1..Len(journal) : journal'[i] = journal[i]
          /\ journal'[Len(journal) + 1] = Posting(c)[1]
          /\ journal'[Len(journal) + 2] = Posting(c)[2]
        BY <1>5, PostingAppends
    <2>7. \A i \in DOMAIN journal' :
              \/ i \in DOMAIN journal
              \/ i = Len(journal) + 1
              \/ i = Len(journal) + 2 /\ journal'[i].dir = "CREDIT"
        BY <2>5, <2>6
    <2>8. \A i \in DOMAIN journal' : i \notin DOMAIN journal => journal'[i].txn = txnId[c]
        BY <2>5, <2>6, <2>7
    <2>9. PostedByItsClaimant'
        <3> SUFFICES ASSUME NEW i \in DOMAIN journal'
                     PROVE  \E d \in Calls : /\ journal'[i].txn = txnId'[d]
                                              /\ pc'[d] \in AfterPost
                                              /\ claimed'[req'[d].key] = txnId'[d]
            BY DEF PostedByItsClaimant
        <3>1. CASE i \in DOMAIN journal
            <4>1. PICK d \in Calls : /\ journal[i].txn = txnId[d]
                                     /\ pc[d] \in AfterPost
                                     /\ claimed[req[d].key] = txnId[d]
                BY <3>1 DEF Reservations, PostedByItsClaimant
            <4> QED
                BY <1>1, <2>1, <2>2, <2>6, <3>1, <4>1
        <3>2. CASE i \notin DOMAIN journal
            BY <1>1, <2>1, <2>3, <2>8, <3>2 DEF AfterPost
        <3> QED
            BY <3>1, <3>2
    <2>10. DebitedOnce'
        BY <2>4, <2>6, <2>7, <2>8, "DEBIT" # "CREDIT" DEF Reservations, DebitedOnce
    <2> QED
        BY <2>9, <2>10
<1>6. CASE ~PostAccepted(c)
    <2>1. journal' = journal /\ (\A d \in Calls : pc[d] \in AfterPost => pc'[d] \in AfterPost)
        BY <1>1, <1>6 DEF Moves
    <2>2. DebitedOnce'
        BY <2>1 DEF Reservations, DebitedOnce
    <2>3. PostedByItsClaimant'
        <3> SUFFICES ASSUME NEW i \in DOMAIN journal
                     PROVE  \E d \in Calls : /\ journal[i].txn = txnId'[d]
                                              /\ pc'[d] \in AfterPost
                                              /\ claimed'[req'[d].key] = txnId'[d]
            BY <2>1 DEF PostedByItsClaimant
        <3>1. PICK d \in Calls : /\ journal[i].txn = txnId[d]
                                 /\ pc[d] \in AfterPost
                                 /\ claimed[req[d].key] = txnId[d]
            BY DEF Reservations, PostedByItsClaimant
        <3> QED
            BY <1>4, <2>1, <3>1
    <2> QED
        BY <2>2, <2>3
<1> QED
    BY <1>5, <1>6

\* A step of a call keeps the reservations, whatever the store holds.
LEMMA ReservationsStep ==
    ASSUME TypeOK, Reservations, NEW c \in Calls, Moves(c)
    PROVE  Reservations'
BY IdsStep, ClaimsStep, LocksStep, JournalStep DEF Reservations

\* What is saved is saved by the owner of its id, over nothing else.
LEMMA StoreStep ==
    ASSUME TypeOK, Ownership, NEW c \in Calls, Moves(c)
    PROVE  SavedByItsOwner' /\ store \subseteq store'
<1>1. \A d \in Calls : d # c => pc'[d] = pc[d]
    BY DEF Moves, TypeOK
<1>2. \A d \in Calls : pc[d] \in AfterSave => txnId'[d] = txnId[d]
    BY ClaimsStep DEF Ownership, Reservations, IdsAreFresh, AfterSave
<1>3. CASE Save(c)
    <2>1. /\ pc[c] = "save" /\ pc'[c] = "publish"
          /\ store' = (store \ Find(txnId[c])) \cup {TransactionOf(c)}
          /\ txnId' = txnId
        BY <1>3 DEF Save, Step, TypeOK, stack
    <2>2. Find(txnId[c]) = {}
        <3> SUFFICES ASSUME NEW t \in store, t.id = txnId[c] PROVE FALSE
            BY DEF Find
        <3>1. PICK d \in Calls : t.id = txnId[d] /\ pc[d] \in AfterSave
            BY DEF Ownership, SavedByItsOwner
        <3>2. txnId[c] # 0
            BY <2>1 DEF Ownership, Reservations, IdsAreFresh
        <3>3. d = c
            BY <3>1, <3>2 DEF Ownership, Reservations, IdsAreFresh
        <3> QED
            BY <2>1, <3>1, <3>3 DEF AfterSave
    <2>3. store' = store \cup {TransactionOf(c)} /\ TransactionOf(c).id = txnId[c]
        BY <2>1, <2>2 DEF TransactionOf
    <2> QED
        BY <1>1, <2>1, <2>3 DEF Ownership, SavedByItsOwner, AfterSave
<1>4. CASE ~Save(c)
    <2>1. /\ store' = store
          /\ \A d \in Calls : pc[d] \in AfterSave => pc'[d] \in AfterSave
        BY <1>1, <1>4 DEF Moves
    <2> QED
        BY <1>2, <2>1 DEF Ownership, SavedByItsOwner
<1> QED
    BY <1>3, <1>4

LEMMA NextOwnership == TypeOK /\ Ownership /\ [Next]_vars => Ownership'
<1> SUFFICES ASSUME TypeOK, Ownership, [Next]_vars PROVE Ownership'
    OBVIOUS
<1>1. ASSUME NEW c \in Calls, Pay(c) PROVE Ownership'
    BY <1>1, PayMoves, ReservationsStep, StoreStep DEF Ownership
<1>2. ASSUME NEW a \in Accounts, OpenAccount(a) PROVE Ownership'
    BY <1>2 DEF OpenAccount, stack, Ownership, Reservations, IdsAreFresh, ClaimsAreKept,
                LocksAreKept, PostedByItsClaimant, DebitedOnce, SavedByItsOwner,
                Working
<1>3. CASE UNCHANGED vars
    BY <1>3 DEF vars, stack, shared, Ownership, Reservations, IdsAreFresh, ClaimsAreKept,
                LocksAreKept, PostedByItsClaimant, DebitedOnce, SavedByItsOwner,
                Working
<1> QED
    BY <1>1, <1>2, <1>3 DEF Next, Finished

\* Every id, claim and lock has one call it belongs to, at any moment and whatever
\* the collaborators of pay() do.
THEOREM OwnershipHolds == Spec => []Ownership
<1>1. Init => TypeOK /\ Ownership
    BY InitTypeOK, InitOwnership
<1>2. TypeOK /\ Ownership /\ [Next]_vars => (TypeOK /\ Ownership)'
    BY NextTypeOK, NextOwnership
<1> QED
    BY <1>1, <1>2, PTL DEF Spec

-----------------------------------------------------------------------------
\* What follows.

\* pay() charges a key at most once, whatever the interleaving and the retries.
THEOREM NoDoubleCharge == Spec => []ChargedOnce
<1>1. TypeOK /\ Ownership => ChargedOnce
    <2> SUFFICES ASSUME TypeOK, Ownership,
                        NEW i \in DOMAIN journal, NEW j \in DOMAIN journal,
                        NEW c \in Calls, NEW d \in Calls,
                        journal[i].dir = "DEBIT", journal[j].dir = "DEBIT",
                        journal[i].txn = txnId[c], journal[j].txn = txnId[d],
                        req[c].key = req[d].key
                 PROVE  i = j
        BY DEF ChargedOnce
    <2>1. ASSUME NEW n \in DOMAIN journal, NEW e \in Calls, journal[n].txn = txnId[e]
          PROVE  claimed[req[e].key] = txnId[e]
        <3>1. PICK o \in Calls : /\ journal[n].txn = txnId[o]
                                 /\ pc[o] \in AfterPost
                                 /\ claimed[req[o].key] = txnId[o]
            BY DEF Ownership, Reservations, PostedByItsClaimant
        <3>2. o = e
            BY <2>1, <3>1 DEF Ownership, Reservations, IdsAreFresh, AfterPost
        <3> QED
            BY <3>1, <3>2
    <2>2. txnId[c] = txnId[d]
        BY <2>1
    <2> QED
        BY <2>2 DEF Ownership, Reservations, DebitedOnce
<1> QED
    BY <1>1, TypeCorrect, OwnershipHolds, PTL

\* A transaction once saved is never replaced.
THEOREM SavedForGood == Spec => StoredForever
<1>1. TypeOK /\ Ownership /\ [Next]_vars => [store \subseteq store']_store
    <2> SUFFICES ASSUME TypeOK, Ownership, [Next]_vars PROVE store \subseteq store'
        OBVIOUS
    <2>1. ASSUME NEW c \in Calls, Pay(c) PROVE store \subseteq store'
        BY <2>1, PayMoves, StoreStep
    <2>2. ASSUME NEW a \in Accounts, OpenAccount(a) PROVE store \subseteq store'
        BY <2>2 DEF OpenAccount
    <2>3. CASE UNCHANGED vars
        BY <2>3 DEF vars, shared
    <2> QED
        BY <2>1, <2>2, <2>3 DEF Next, Finished
<1> QED
    BY <1>1, TypeCorrect, OwnershipHolds, PTL DEF Spec, StoredForever

\* A call leaves a balance as it is, or credits or debits it its amount.
LEMMA BalanceMoves ==
    ASSUME TypeOK, NEW c \in Calls, Pay(c), NEW a \in Accounts
    PROVE  \/ balance'[a] = balance[a]
           \/ balance'[a] = AfterCredit(balance[a], req[c].amount)
           \/ balance'[a] = AfterDebit(balance[a], req[c].amount)
<1>1. CASE DebitPayer(c)
    BY <1>1 DEF DebitPayer, TypeOK
<1>2. CASE CreditPayee(c)
    BY <1>2 DEF CreditPayee, TypeOK
<1>3. CASE RefundPayer(c)
    BY <1>3 DEF RefundPayer, TypeOK
<1>4. CASE ChargePayee(c)
    BY <1>4 DEF ChargePayee, TypeOK
<1> QED
    BY <1>1, <1>2, <1>3, <1>4, PayMoves DEF Moves

\* The guarded debit keeps every balance at zero or above: no order of payments and
\* compensations overdraws an account.
THEOREM NeverOverdrawn == Spec => []NoOverdraft
<1>1. Init => NoOverdraft
    BY OpeningAssumption DEF Init, NoOverdraft
<1>2. TypeOK /\ NoOverdraft /\ [Next]_vars => NoOverdraft'
    <2> SUFFICES ASSUME TypeOK, NoOverdraft, [Next]_vars PROVE NoOverdraft'
        OBVIOUS
    <2>1. ASSUME NEW c \in Calls, Pay(c) PROVE NoOverdraft'
        <3> SUFFICES ASSUME NEW a \in Accounts PROVE balance'[a].minor >= 0
            BY DEF NoOverdraft
        <3>1. req[c].amount \in Money /\ balance[a] \in Money /\ balance[a].minor >= 0
            BY ConstantsAssumption DEF TypeOK, PaymentRequest, NoOverdraft
        <3>2. \/ balance'[a] = balance[a]
              \/ balance'[a] = AfterCredit(balance[a], req[c].amount)
              \/ balance'[a] = AfterDebit(balance[a], req[c].amount)
            BY <2>1, BalanceMoves
        <3>3. /\ AfterCredit(balance[a], req[c].amount) \in Money
              /\ AfterCredit(balance[a], req[c].amount).minor >= balance[a].minor
              /\ AfterDebit(balance[a], req[c].amount).minor >= 0
            BY <3>1, AccountMoney
        <3> QED
            BY <3>1, <3>2, <3>3 DEF Money
    <2>2. ASSUME NEW a \in Accounts, OpenAccount(a) PROVE NoOverdraft'
        BY <2>2 DEF OpenAccount, NoOverdraft
    <2>3. CASE UNCHANGED vars
        BY <2>3 DEF vars, shared, NoOverdraft
    <2> QED
        BY <2>1, <2>2, <2>3 DEF Next, Finished
<1> QED
    BY <1>1, <1>2, TypeCorrect, PTL DEF Spec

\* A balance goes down under the lock of its account, or by a compensation.
THEOREM DebitsUnderLock == Spec => OnlyTheHolderDebits
<1> DEFINE Guarded ==
        \A a \in Accounts :
            balance'[a].minor < balance[a].minor
            => \/ holder[a] \in Calls /\ pc[holder[a]] = "debit"
               \/ \E c \in Calls : pc[c] = "chargePayee" /\ req[c].payee = a
<1>1. TypeOK /\ Ownership /\ [Next]_vars => [Guarded]_balance
    <2> SUFFICES ASSUME TypeOK, Ownership, Next,
                        NEW a \in Accounts, balance'[a].minor < balance[a].minor
                 PROVE  \/ holder[a] \in Calls /\ pc[holder[a]] = "debit"
                        \/ \E c \in Calls : pc[c] = "chargePayee" /\ req[c].payee = a
        BY DEF vars, shared
    <2>1. balance' # balance
        BY DEF TypeOK, Money
    <2>2. PICK c \in Calls : Pay(c)
        BY <2>1 DEF Next, OpenAccount, Finished, vars, shared
    <2>3. DebitPayer(c) \/ CreditPayee(c) \/ RefundPayer(c) \/ ChargePayee(c)
        BY <2>1, <2>2, PayMoves DEF Moves
    <2>4. /\ req[c].amount \in Money /\ balance[a] \in Money
          /\ AfterCredit(balance[a], req[c].amount) \in Money
          /\ AfterCredit(balance[a], req[c].amount).minor >= balance[a].minor
        BY ConstantsAssumption, AccountMoney DEF TypeOK, PaymentRequest
    <2>5. CASE DebitPayer(c)
        <3>1. pc[c] = "debit" /\ req[c].payer = a
            BY <2>4, <2>5 DEF DebitPayer, Failing, Step, TypeOK, Money
        <3>2. holder[a] = c
            BY <3>1 DEF Ownership, Reservations, LocksAreKept, Critical
        <3> QED
            BY <3>1, <3>2
    <2>6. CASE CreditPayee(c)
        BY <2>4, <2>6 DEF CreditPayee, TypeOK, Money
    <2>7. CASE RefundPayer(c)
        BY <2>4, <2>7 DEF RefundPayer, TypeOK, Money
    <2>8. CASE ChargePayee(c)
        BY <2>4, <2>8 DEF ChargePayee, Failing, Step, TypeOK, Money
    <2> QED
        BY <2>3, <2>5, <2>6, <2>7, <2>8
<1> QED
    BY <1>1, TypeCorrect, OwnershipHolds, PTL DEF Spec, OnlyTheHolderDebits

-----------------------------------------------------------------------------
\* Steps of a call, seen from its own state.

\* A step of a call leaves what other calls keep to themselves alone.
KeepsOthers(c) ==
    \A d \in Calls \ {c} :
        /\ pc'[d] = pc[d]
        /\ txnId'[d] = txnId[d]
        /\ status'[d] = status[d]
        /\ error'[d] = error[d]
        /\ outcome'[d] = outcome[d]
        /\ seqs'[d] = seqs[d]

LEMMA PayKeepsOthers ==
    ASSUME TypeOK, NEW c \in Calls, Pay(c)
    PROVE  KeepsOthers(c)
<1> USE DEF TypeOK, KeepsOthers, Step, Return, Failing, stack, shared
<1>1. CASE MintId(c) \/ ClaimKey(c) \/ KeyTaken(c) \/ Replay(c) \/ Build(c)
    BY <1>1 DEF MintId, ClaimKey, KeyTaken, Replay, Build
<1>2. CASE Acquire(c) \/ Validate(c) \/ FindAccounts(c) \/ Authorize(c) \/ Decline(c)
    BY <1>2 DEF Acquire, Validate, FindAccounts, Authorize, Decline
<1>3. CASE DebitPayer(c) \/ CreditPayee(c) \/ SeqOfDebit(c) \/ SeqOfCredit(c)
    BY <1>3 DEF DebitPayer, CreditPayee, SeqOfDebit, SeqOfCredit
<1>4. CASE PostAccepted(c) \/ PostRejected(c) \/ RefundPayer(c) \/ ChargePayee(c)
    BY <1>4 DEF PostAccepted, PostRejected, RefundPayer, ChargePayee
<1>5. CASE Capture(c) \/ CaptureRefused(c) \/ Save(c) \/ Publish(c) \/ Release(c)
    BY <1>5 DEF Capture, CaptureRefused, Save, Publish, Release
<1> QED
    BY <1>1, <1>2, <1>3, <1>4, <1>5 DEF Pay

\* Only an accepted posting adds to the transactions that have legs, and it adds its own.
LEMMA PostedStep ==
    ASSUME TypeOK, NEW c \in Calls, Moves(c)
    PROVE  /\ PostAccepted(c) => Posted' = Posted \cup {txnId[c]}
           /\ ~PostAccepted(c) => Posted' = Posted
<1>1. CASE PostAccepted(c)
    <2>1. Posting(c)[1].txn = txnId[c] /\ Posting(c)[2].txn = txnId[c]
        BY PostingLegs
    <2>2. /\ DOMAIN journal = 1..Len(journal) /\ Len(journal) \in Nat
          /\ DOMAIN journal' = 1..(Len(journal) + 2)
          /\ \A i \in 1..Len(journal) : journal'[i] = journal[i]
          /\ journal'[Len(journal) + 1] = Posting(c)[1]
          /\ journal'[Len(journal) + 2] = Posting(c)[2]
        BY <1>1, PostingAppends
    <2>3. Posted' = Posted \cup {txnId[c]}
        <3>1. \A id : id \in Posted' <=> \E i \in DOMAIN journal' : journal'[i].txn = id
            BY DEF Posted
        <3>2. \A id : id \in Posted <=> \E i \in DOMAIN journal : journal[i].txn = id
            BY DEF Posted
        <3>3. txnId[c] \in Posted'
            BY <2>1, <2>2, <3>1
        <3>4. Posted \subseteq Posted'
            BY <2>2, <3>1, <3>2
        <3>5. \A i \in DOMAIN journal' : \/ i \in DOMAIN journal /\ journal'[i] = journal[i]
                                         \/ journal'[i].txn = txnId[c]
            BY <2>1, <2>2
        <3>6. Posted' \subseteq Posted \cup {txnId[c]}
            BY <3>1, <3>2, <3>5
        <3> QED
            BY <3>3, <3>4, <3>6
    <2> QED
        BY <1>1, <2>3
<1>2. CASE ~PostAccepted(c)
    BY <1>2 DEF Moves, Posted
<1> QED
    BY <1>1, <1>2

\* Only a save changes what is found, and it adds the call's own transaction to none.
LEMMA FindStep ==
    ASSUME TypeOK, Ownership, NEW c \in Calls, Moves(c)
    PROVE  /\ Save(c) => /\ txnId[c] # 0
                         /\ Find(txnId[c]) = {}
                         /\ store' = store \cup {TransactionOf(c)}
                         /\ Find(txnId[c])' = {TransactionOf(c)}
                         /\ \A id : id # txnId[c] =>
                               {t \in store' : t.id = id} = {t \in store : t.id = id}
           /\ ~Save(c) => store' = store
<1>1. CASE Save(c)
    <2>1. /\ pc[c] = "save" /\ txnId' = txnId
          /\ store' = (store \ Find(txnId[c])) \cup {TransactionOf(c)}
        BY <1>1 DEF Save, Step, stack
    <2>2. txnId[c] # 0
        BY <2>1 DEF Ownership, Reservations, IdsAreFresh
    <2>3. Find(txnId[c]) = {}
        <3> SUFFICES ASSUME NEW t \in store, t.id = txnId[c] PROVE FALSE
            BY DEF Find
        <3>1. PICK d \in Calls : t.id = txnId[d] /\ pc[d] \in AfterSave
            BY DEF Ownership, SavedByItsOwner
        <3>2. d = c
            BY <2>2, <3>1 DEF Ownership, Reservations, IdsAreFresh
        <3> QED
            BY <2>1, <3>1, <3>2 DEF AfterSave
    <2>4. TransactionOf(c).id = txnId[c]
        BY DEF TransactionOf
    <2> QED
        BY <1>1, <2>1, <2>2, <2>3, <2>4 DEF Find
<1>2. CASE ~Save(c)
    BY <1>2 DEF Moves
<1> QED
    BY <1>1, <1>2

\* Before its call has posted, an id has no legs.
LEMMA NoLegsYet ==
    ASSUME Reservations, NEW c \in Calls, txnId[c] # 0, pc[c] \notin AfterPost
    PROVE  txnId[c] \notin Posted
<1> SUFFICES ASSUME NEW i \in DOMAIN journal, journal[i].txn = txnId[c] PROVE FALSE
    BY DEF Posted
<1>1. PICK d \in Calls : journal[i].txn = txnId[d] /\ pc[d] \in AfterPost
    BY DEF Reservations, PostedByItsClaimant
<1> QED
    BY <1>1 DEF Reservations, IdsAreFresh

\* ... and before it has saved, no transaction either.
LEMMA NothingOfItYet ==
    ASSUME TypeOK, Ownership, NEW c \in Calls, txnId[c] # 0
    PROVE  /\ pc[c] \notin AfterPost => txnId[c] \notin Posted
           /\ pc[c] \notin AfterSave => Find(txnId[c]) = {}
<1>1. ASSUME NEW t \in store, t.id = txnId[c] PROVE pc[c] \in AfterSave
    <2>1. PICK d \in Calls : t.id = txnId[d] /\ pc[d] \in AfterSave
        BY DEF Ownership, SavedByItsOwner
    <2> QED
        BY <1>1, <2>1 DEF Ownership, Reservations, IdsAreFresh
<1> QED
    BY <1>1, NoLegsYet DEF Ownership, Find

\* The region of pay() a call is in has an id of its own.
LEMMA HasId ==
    ASSUME Reservations, NEW c \in Calls, pc[c] # "mint"
    PROVE  txnId[c] # 0
BY DEF Reservations, IdsAreFresh

-----------------------------------------------------------------------------
\* The bookkeeping of pay() is an invariant.

LEMMA InitBookkeeping == Init => Bookkeeping
<1> SUFFICES ASSUME Init PROVE Bookkeeping
    OBVIOUS
<1>1. \A c \in Calls : StatusFollows(c) /\ MoneyFollows(c) /\ AnswerFollows(c)
    BY DEF Init, StatusFollows, MoneyFollows, AnswerFollows, Unapproved, Approved,
           Compensating, AfterSave
<1> QED
    BY <1>1 DEF Init, Bookkeeping, StoreIsSettled, SavedUnderItsKey, ClaimedByItsCaller

\* A call moves its own status and error on with its place.
LEMMA StatusStep ==
    ASSUME TypeOK, \A d \in Calls : StatusFollows(d), NEW c \in Calls, Pay(c)
    PROVE  \A d \in Calls : StatusFollows(d)'
<1>1. ASSUME NEW d \in Calls, d # c PROVE StatusFollows(d)'
    BY <1>1, PayKeepsOthers DEF KeepsOthers, StatusFollows, Verdict
<1>2. StatusFollows(c)'
    <2> USE DEF TypeOK, StatusFollows, Verdict, Unapproved, Approved, Compensating,
                Step, stack
    <2>1. CASE MintId(c) \/ ClaimKey(c) \/ KeyTaken(c) \/ Replay(c) \/ Build(c)
        BY <2>1 DEF MintId, ClaimKey, KeyTaken, Replay, Build
    <2>2. CASE Acquire(c) \/ FindAccounts(c)
        BY <2>2 DEF Acquire, FindAccounts, Failing, Advance, CanTransition, Allowed,
                    TxnStatus
    <2>3. CASE Validate(c)
        BY <2>3 DEF Validate, Failing, Advance, CanTransition, Allowed, TxnStatus
    <2>4. CASE Authorize(c)
        BY <2>4 DEF Authorize, Advance, CanTransition, Allowed, TxnStatus
    <2>5. CASE Decline(c)
        BY <2>5 DEF Decline, Failing, Advance, CanTransition, Allowed, TxnStatus
    <2>6. CASE DebitPayer(c)
        <3>1. status[c] = "AUTHORIZED" /\ error[c] = "NONE"
            BY <2>6 DEF DebitPayer, Failing
        <3>2. CASE pc'[c] = "credit" /\ UNCHANGED <<status, error>>
            BY <3>1, <3>2
        <3>3. ASSUME NEW code, code # "NONE", Failing(c, "debit", code)
              PROVE  StatusFollows(c)'
            <4>1. pc'[c] = "save" /\ error'[c] = code /\ status'[c] = "FAILED"
                BY <3>1, <3>3 DEF Failing, Advance, CanTransition, Allowed, TxnStatus
            <4> QED
                BY <3>3, <4>1
        <3> QED
            BY <2>6, <3>2, <3>3 DEF DebitPayer
    <2>7. CASE CreditPayee(c) \/ SeqOfDebit(c) \/ SeqOfCredit(c) \/ RefundPayer(c)
        <3>1. /\ UNCHANGED <<status, error>>
              /\ \/ /\ pc[c] \in {"credit", "seqDebit", "seqCredit"}
                    /\ pc'[c] \in {"seqDebit", "seqCredit", "post"}
                 \/ pc[c] = "refundPayer" /\ pc'[c] = "chargePayee"
            BY <2>7 DEF CreditPayee, SeqOfDebit, SeqOfCredit, RefundPayer
        <3> QED
            BY <3>1
    <2>8. CASE PostAccepted(c)
        BY <2>8 DEF PostAccepted
    <2>9. CASE PostRejected(c)
        <3>1. PICK code \in Refusals(c) : error' = [error EXCEPT ![c] = code]
            BY <2>9 DEF PostRejected
        <3>2. code # "NONE"
            BY DEF Refusals
        <3> QED
            BY <2>9, <3>1, <3>2 DEF PostRejected
    <2>10. CASE ChargePayee(c)
        BY <2>10 DEF ChargePayee, Failing, Advance, CanTransition, Allowed, TxnStatus
    <2>11. CASE Capture(c)
        BY <2>11 DEF Capture, Advance, CanTransition, Allowed, TxnStatus
    <2>12. CASE CaptureRefused(c)
        BY <2>12 DEF CaptureRefused, Failing, Advance, CanTransition, Allowed, TxnStatus
    <2>13. CASE Save(c) \/ Publish(c) \/ Release(c)
        BY <2>13 DEF Save, Publish, Release
    <2> QED
        BY <2>1, <2>2, <2>3, <2>4, <2>5, <2>6, <2>7, <2>8, <2>9, <2>10, <2>11, <2>12,
           <2>13 DEF Pay
<1> QED
    BY <1>1, <1>2

\* An answer is given once, on the way out.
LEMMA AnswerStep ==
    ASSUME TypeOK, Ownership, Bookkeeping, NEW c \in Calls, Pay(c)
    PROVE  \A d \in Calls : AnswerFollows(d)'
<1> Moves(c)
    BY PayMoves
<1>1. \A d \in Calls : claimed[req[d].key] # 0 => claimed'[req'[d].key] # 0
    <2>1. \A d \in Calls : req'[d] = req[d] /\ req[d].key \in Keys
        BY ConstantsAssumption DEF Moves, TypeOK, PaymentRequest
    <2> QED
        BY <2>1, ClaimsStep DEF Ownership
<1>2. ASSUME NEW d \in Calls, d # c PROVE AnswerFollows(d)'
    BY <1>1, <1>2, PayKeepsOthers DEF KeepsOthers, Bookkeeping, AnswerFollows
<1>3. pc'[c] = "replay" => claimed'[req'[c].key] # 0
    BY <1>1 DEF Pay, MintId, ClaimKey, KeyTaken, Replay, Build, Acquire, Validate,
       FindAccounts, Authorize, Decline, DebitPayer, CreditPayee, SeqOfDebit, SeqOfCredit,
       PostAccepted, PostRejected, RefundPayer, ChargePayee, Capture, CaptureRefused, Save,
       Publish, Release, Step, Failing, TypeOK
<1>4. outcome'[c].tag = "none" <=> pc'[c] \notin {"release", "done"}
    <2> USE DEF TypeOK, Bookkeeping, AnswerFollows, Step, Return, Failing, stack
    <2>1. CASE MintId(c) \/ ClaimKey(c) \/ KeyTaken(c)
        BY <2>1 DEF MintId, ClaimKey, KeyTaken
    <2>2. CASE Acquire(c) \/ Validate(c) \/ FindAccounts(c) \/ Authorize(c) \/ Decline(c)
        BY <2>2 DEF Acquire, Validate, FindAccounts, Authorize, Decline
    <2>3. CASE DebitPayer(c) \/ CreditPayee(c) \/ SeqOfDebit(c) \/ SeqOfCredit(c)
        BY <2>3 DEF DebitPayer, CreditPayee, SeqOfDebit, SeqOfCredit
    <2>4. CASE PostAccepted(c) \/ PostRejected(c) \/ RefundPayer(c) \/ ChargePayee(c)
        BY <2>4 DEF PostAccepted, PostRejected, RefundPayer, ChargePayee
    <2>5. CASE Capture(c) \/ CaptureRefused(c) \/ Save(c) \/ Publish(c) \/ Release(c)
        BY <2>5 DEF Capture, CaptureRefused, Save, Publish, Release
    <2>6. CASE Replay(c)
        <3>1. outcome'[c].tag \in {"ok", "err"}
            <4> DEFINE prior == Find(claimed[req[c].key])
            <4>1. \/ Return(c, "ok", "NONE", prior)
                  \/ Return(c, "err", "DUPLICATE_REQUEST", {})
                BY <2>6, Zenon DEF Replay
            <4> HIDE DEF prior
            <4> QED
                BY <4>1
        <3>2. pc'[c] = "done"
            BY <2>6 DEF Replay
        <3> QED
            BY <3>1, <3>2
    <2>7. CASE Build(c)
        <3>1. \/ pc'[c] = "done" /\ outcome'[c].tag = "threw"
              \/ pc'[c] = "acquire" /\ outcome' = outcome
            BY <2>7 DEF Build
        <3>2. pc[c] = "build"
            BY <2>7 DEF Build
        <3> QED
            BY <3>1, <3>2
    <2> QED
        BY <2>1, <2>2, <2>3, <2>4, <2>5, <2>6, <2>7 DEF Pay
<1> QED
    BY <1>2, <1>3, <1>4 DEF AnswerFollows

\* The legs and the saved transaction of a call are where its place says they are.
LEMMA MoneyStep ==
    ASSUME TypeOK, Ownership, Bookkeeping, NEW c \in Calls, Pay(c)
    PROVE  \A d \in Calls : MoneyFollows(d)'
<1> Moves(c) /\ KeepsOthers(c)
    BY PayMoves, PayKeepsOthers
<1>1. req' = req /\ Posted \subseteq Posted'
    BY PostedStep DEF Moves
<1>2. ASSUME NEW d \in Calls, d # c PROVE MoneyFollows(d)'
    <2>1. /\ pc'[d] = pc[d] /\ error'[d] = error[d] /\ txnId'[d] = txnId[d]
          /\ status'[d] = status[d]
        BY <1>2 DEF KeepsOthers
    <2>2. TransactionOf(d)' = TransactionOf(d)
        BY <1>1, <1>2 DEF KeepsOthers, TransactionOf
    <2>3. MoneyFollows(d)
        BY DEF Bookkeeping
    <2>4. CASE pc[d] = "capture"
        BY <1>1, <2>1, <2>3, <2>4 DEF MoneyFollows, AfterSave
    <2>5. CASE pc[d] = "save"
        <3>1. txnId[d] # 0 /\ txnId[d] # txnId[c]
            BY <1>2, <2>5 DEF Ownership, Reservations, IdsAreFresh
        <3>2. txnId[d] \in Posted' <=> txnId[d] \in Posted
            BY <3>1, PostedStep
        <3> QED
            BY <2>1, <2>3, <2>5, <3>2 DEF MoneyFollows, AfterSave
    <2>6. CASE pc[d] \in AfterSave
        <3>1. txnId[d] # 0 /\ txnId[d] # txnId[c]
            BY <1>2, <2>6 DEF Ownership, Reservations, IdsAreFresh, AfterSave
        <3>2. {t \in store' : t.id = txnId[d]} = {t \in store : t.id = txnId[d]}
            BY <3>1, FindStep
        <3>3. txnId[d] \in Posted' <=> txnId[d] \in Posted
            BY <3>1, PostedStep
        <3> QED
            BY <2>1, <2>2, <2>3, <2>6, <3>2, <3>3 DEF MoneyFollows, Find, AfterSave
    <2> QED
        BY <2>1, <2>4, <2>5, <2>6 DEF MoneyFollows, AfterSave
<1>3. MoneyFollows(c)'
    <2>1. CASE pc'[c] = "capture"
        <3>1. PostAccepted(c)
            BY <2>1 DEF Pay, MintId, ClaimKey, KeyTaken, Replay, Build, Acquire, Validate,
               FindAccounts, Authorize, Decline, DebitPayer, CreditPayee, SeqOfDebit,
               SeqOfCredit, PostRejected, RefundPayer, ChargePayee, Capture,
               CaptureRefused, Save, Publish, Release, Step, Failing, TypeOK
        <3>2. txnId' = txnId
            BY <3>1 DEF PostAccepted, stack
        <3> QED
            BY <2>1, <3>1, <3>2, PostedStep DEF MoneyFollows, AfterSave
    <2>2. CASE pc'[c] = "save"
        <3>1. \/ Validate(c) \/ FindAccounts(c) \/ Decline(c) \/ DebitPayer(c)
              \/ ChargePayee(c)
              \/ Capture(c) \/ CaptureRefused(c)
            BY <2>2 DEF Pay, MintId, ClaimKey, KeyTaken, Replay, Build, Acquire,
               Authorize, CreditPayee, SeqOfDebit, SeqOfCredit, PostAccepted,
               PostRejected, RefundPayer, Save, Publish, Release, Step, TypeOK
        <3>2. txnId' = txnId /\ Posted' = Posted
            BY <3>1, PostedStep DEF Validate, FindAccounts, Decline, DebitPayer, ChargePayee,
               Capture, CaptureRefused, shared, Posted
        <3>3. CASE Capture(c)
            BY <2>2, <3>2, <3>3 DEF Capture, Step, Bookkeeping, MoneyFollows, StatusFollows,
               Approved, Compensating, AfterSave
        <3>4. CASE CaptureRefused(c)
            <4>1. PICK code \in Strategy(c).capture \ {"NONE"} : Failing(c, "capture", code)
                BY <3>4 DEF CaptureRefused
            <4>2. req[c].method \in PaymentMethod
                BY ConstantsAssumption DEF TypeOK, PaymentRequest
            <4>3. CaptureRefusable
                BY <4>1, <4>2 DEF CaptureRefusable, Strategy
            <4>4. error'[c] # "NONE"
                BY <4>1 DEF Failing, TypeOK
            <4> QED
                BY <2>2, <4>3, <4>4 DEF MoneyFollows, AfterSave
        <3>5. CASE Validate(c) \/ FindAccounts(c) \/ Decline(c) \/ DebitPayer(c) \/ ChargePayee(c)
            <4>1. pc[c] \in {"validate", "find", "authorize", "debit", "chargePayee"}
                BY <3>5 DEF Validate, FindAccounts, Decline, DebitPayer, ChargePayee, Failing,
                   Step
            <4>2. txnId[c] \notin Posted
                BY <4>1, HasId, NothingOfItYet DEF Ownership, AfterPost
            <4>3. error'[c] # "NONE"
                <5>1. CASE Validate(c)
                    BY <2>2, <5>1 DEF Validate, Failing, Step, TypeOK
                <5>2. CASE FindAccounts(c)
                    BY <2>2, <5>2 DEF FindAccounts, Failing, Step, TypeOK
                <5>3. CASE Decline(c)
                    BY <2>2, <5>3 DEF Decline, Failing, Step, TypeOK
                <5>4. CASE DebitPayer(c)
                    <6> DEFINE verdict == DebitVerdict(balance[req[c].payer], req[c].amount)
                    <6>1. \/ Step(c, "debit", "credit")
                          \/ verdict # "NONE" /\ Failing(c, "debit", verdict)
                        BY <5>4 DEF DebitPayer
                    <6> HIDE DEF verdict
                    <6> QED
                        BY <2>2, <6>1 DEF Failing, Step, TypeOK
                <5>5. CASE ChargePayee(c)
                    BY <2>2, <5>5 DEF ChargePayee, Failing, Step, TypeOK, Bookkeeping,
                       StatusFollows, Approved, Compensating
                <5> QED
                    BY <3>5, <5>1, <5>2, <5>3, <5>4, <5>5
            <4> QED
                BY <2>2, <3>2, <4>2, <4>3 DEF MoneyFollows, AfterSave
        <3> QED
            BY <3>1, <3>3, <3>4, <3>5
    <2>3. CASE pc'[c] = "publish"
        <3>1. Save(c)
            BY <2>3 DEF Pay, MintId, ClaimKey, KeyTaken, Replay, Build, Acquire, Validate,
               FindAccounts, Authorize, Decline, DebitPayer, CreditPayee, SeqOfDebit,
               SeqOfCredit, PostAccepted, PostRejected, RefundPayer, ChargePayee, Capture,
               CaptureRefused, Publish, Release, Step, Failing, TypeOK
        <3>2. /\ txnId' = txnId /\ TransactionOf(c)' = TransactionOf(c)
              /\ pc[c] = "save" /\ status' = status
            BY <3>1 DEF Save, Step, stack, TransactionOf
        <3>3. status[c] # "INITIATED"
            BY <3>2 DEF Bookkeeping, StatusFollows, Verdict
        <3>4. Find(txnId[c])' = {TransactionOf(c)}
            BY <3>1, FindStep
        <3> QED
            BY <2>3, <3>2, <3>3, <3>4 DEF MoneyFollows, Find
    <2>4. CASE pc'[c] \in {"release", "done"}
        <3>1. \/ Replay(c) \/ Build(c) \/ Validate(c)
              \/ Publish(c) \/ Release(c)
            BY <2>4 DEF Pay, MintId, ClaimKey, KeyTaken, Acquire, FindAccounts, Authorize,
               Decline, DebitPayer, CreditPayee, SeqOfDebit, SeqOfCredit, PostAccepted,
               PostRejected, RefundPayer, ChargePayee, Capture, CaptureRefused, Save, Step,
               Failing, TypeOK
        <3>2. /\ txnId' = txnId /\ Posted' = Posted /\ store' = store
              /\ status' = status
            BY <2>4, <3>1 DEF Replay, Build, Validate, Publish, Release, Failing, Step,
               TypeOK, stack, shared, Posted
        <3>3. CASE Replay(c) \/ Build(c) \/ Validate(c)
            <4>1. pc[c] \in {"replay", "build", "validate"}
                BY <3>3 DEF Replay, Build, Validate, Step, Failing
            <4>2. status[c] = "INITIATED"
                BY <4>1 DEF Bookkeeping, StatusFollows, Unapproved
            <4>3. txnId[c] \notin Posted
                BY <4>1, HasId, NothingOfItYet DEF AfterPost, Ownership
            <4> QED
                BY <2>4, <3>2, <4>2, <4>3 DEF MoneyFollows
        <3>4. CASE Publish(c) \/ Release(c)
            <4>1. pc[c] \in AfterSave
                BY <3>4 DEF Publish, Release, Step, AfterSave
            <4>2. TransactionOf(c)' = TransactionOf(c)
                BY <1>1, <3>2 DEF TransactionOf
            <4> QED
                BY <2>4, <3>2, <4>1, <4>2 DEF Bookkeeping, MoneyFollows, Find
        <3> QED
            BY <3>1, <3>3, <3>4
    <2> QED
        BY <2>1, <2>2, <2>3, <2>4 DEF MoneyFollows, AfterSave
<1> QED
    BY <1>2, <1>3

\* What a call saves tells of its legs and stands under its key.
LEMMA SavedStep ==
    ASSUME TypeOK, Ownership, Bookkeeping, NEW c \in Calls, Pay(c)
    PROVE  StoreIsSettled' /\ SavedUnderItsKey'
<1> Moves(c)
    BY PayMoves
<1>1. req' = req /\ \A d \in Calls : d # c => txnId'[d] = txnId[d]
    BY PayKeepsOthers DEF Moves, KeepsOthers
<1>2. CASE Save(c)
    <2>1. /\ pc[c] = "save" /\ txnId' = txnId
          /\ txnId[c] # 0
          /\ store' = store \cup {TransactionOf(c)}
          /\ Posted' = Posted
        BY <1>2, FindStep DEF Save, Step, stack, Posted
    <2>2. /\ TransactionOf(c).id = txnId[c] /\ TransactionOf(c).key = req[c].key
          /\ TransactionOf(c).status = status[c]
        BY DEF TransactionOf
    <2>3. IF txnId[c] \in Posted THEN status[c] = "CAPTURED" \/ CaptureRefusable
                                 ELSE status[c] = "FAILED"
        BY <2>1 DEF Bookkeeping, StatusFollows, MoneyFollows, Verdict
    <2>4. StoreIsSettled'
        BY <2>1, <2>2, <2>3 DEF Bookkeeping, StoreIsSettled
    <2>5. SavedUnderItsKey'
        BY <1>1, <2>1, <2>2 DEF Bookkeeping, SavedUnderItsKey, Ownership, Reservations, IdsAreFresh
    <2> QED
        BY <2>4, <2>5
<1>3. CASE ~Save(c)
    <2>1. store' = store
        BY <1>3, FindStep
    <2>2. \A t \in store : t.id \in Posted' => t.id \in Posted
        <3>1. CASE PostAccepted(c)
            <4>1. pc[c] = "post" /\ txnId[c] # 0
                BY <3>1, HasId DEF Ownership, PostAccepted, Step
            <4>2. Find(txnId[c]) = {}
                BY <4>1, NothingOfItYet DEF AfterSave
            <4> QED
                BY <3>1, <4>2, PostedStep DEF Find
        <3>2. CASE ~PostAccepted(c)
            BY <3>2, PostedStep
        <3> QED
            BY <3>1, <3>2
    <2>3. Posted \subseteq Posted'
        BY PostedStep
    <2>4. StoreIsSettled'
        BY <2>1, <2>2, <2>3 DEF Bookkeeping, StoreIsSettled
    <2>5. ASSUME NEW t \in store, t.id = txnId'[c] PROVE t.key = req[c].key
        <3>1. CASE MintId(c)
            <4>1. PICK d \in Calls : t.id = txnId[d]
                BY DEF Ownership, SavedByItsOwner
            <4>2. txnId'[c] = nextTxn
                BY <3>1 DEF MintId, TypeOK
            <4>3. txnId[d] < nextTxn /\ txnId[d] \in Nat /\ nextTxn \in Nat
                BY DEF TypeOK, Ownership, Reservations, IdsAreFresh
            <4>4. txnId[d] # nextTxn
                BY <4>3
            <4> QED
                BY <2>5, <4>1, <4>2, <4>4
        <3>2. CASE txnId' = txnId
            BY <2>5, <3>2 DEF Bookkeeping, SavedUnderItsKey
        <3> QED
            BY <3>1, <3>2 DEF Moves
    <2>6. SavedUnderItsKey'
        BY <1>1, <2>1, <2>5 DEF Bookkeeping, SavedUnderItsKey
    <2> QED
        BY <2>4, <2>6
<1> QED
    BY <1>2, <1>3

\* A key is claimed by a call that carries it.
LEMMA ClaimedStep ==
    ASSUME TypeOK, Ownership, Bookkeeping, NEW c \in Calls, Pay(c)
    PROVE  ClaimedByItsCaller'
<1> Moves(c)
    BY PayMoves
<1> SUFFICES ASSUME NEW k \in Keys, claimed'[k] # 0
             PROVE  \E d \in Calls : txnId'[d] = claimed'[k] /\ req'[d].key = k
    BY DEF ClaimedByItsCaller
<1>1. CASE claimed'[k] = claimed[k]
    <2>1. PICK d \in Calls : txnId[d] = claimed[k] /\ req[d].key = k
        BY <1>1 DEF Bookkeeping, ClaimedByItsCaller
    <2>2. txnId'[d] = txnId[d] /\ req' = req
        BY <1>1, <2>1, ClaimsStep DEF Moves, Ownership
    <2> QED
        BY <1>1, <2>1, <2>2
<1>2. CASE claimed'[k] # claimed[k]
    <2>1. ClaimKey(c)
        BY <1>2 DEF Moves
    <2>2. claimed' = [claimed EXCEPT ![req[c].key] = txnId[c]] /\ txnId' = txnId /\ req' = req
        BY <2>1 DEF ClaimKey, stack
    <2>3. req[c].key = k /\ claimed'[k] = txnId[c]
        BY <1>2, <2>2 DEF TypeOK
    <2> QED
        BY <2>2, <2>3
<1> QED
    BY <1>1, <1>2

\* What the steps of Next other than a call's leave alone.
LEMMA Elsewhere ==
    ASSUME [Next]_vars, ~ \E c \in Calls : Pay(c)
    PROVE  UNCHANGED <<stack, pc, nextTxn, nextSeq, claimed, holder, balance, journal,
                       store, log>>
BY DEF Next, OpenAccount, Finished, vars, stack, shared

LEMMA NextBookkeeping == TypeOK /\ Ownership /\ Bookkeeping /\ [Next]_vars => Bookkeeping'
<1> SUFFICES ASSUME TypeOK, Ownership, Bookkeeping, [Next]_vars PROVE Bookkeeping'
    OBVIOUS
<1>1. ASSUME NEW c \in Calls, Pay(c) PROVE Bookkeeping'
    BY <1>1, StatusStep, MoneyStep, AnswerStep, SavedStep, ClaimedStep DEF Bookkeeping
<1>2. CASE ~ \E c \in Calls : Pay(c)
    BY <1>2, Elsewhere DEF stack, Bookkeeping, StatusFollows, MoneyFollows, AnswerFollows,
       StoreIsSettled, SavedUnderItsKey, ClaimedByItsCaller, Posted, Find, TransactionOf, Verdict
<1> QED
    BY <1>1, <1>2

\* A call's status, error, answer, legs and saved transaction agree at any moment.
THEOREM BookkeepingHolds == Spec => []Bookkeeping
<1>1. TypeOK /\ Ownership /\ Bookkeeping /\ [Next]_vars => Bookkeeping'
    BY NextBookkeeping
<1> QED
    BY <1>1, InitBookkeeping, TypeCorrect, OwnershipHolds, PTL DEF Spec

-----------------------------------------------------------------------------
\* The refinement: each step of a call is a step of the contract, or none.

\* Another key is not claimed under the id of a call.
LEMMA KeysHaveTheirIds ==
    ASSUME TypeOK, Ownership, Bookkeeping, NEW c \in Calls, txnId[c] # 0,
           NEW k \in Keys, k # req[c].key
    PROVE  claimed[k] # txnId[c]
BY DEF Bookkeeping, ClaimedByItsCaller, Ownership, Reservations, IdsAreFresh

\* Where neither claims nor journal nor store change, nothing becomes of a key.
LEMMA SamePhase ==
    ASSUME UNCHANGED <<claimed, journal, store>>
    PROVE  \A k \in Keys : Phase(k)' = Phase(k)
BY DEF Phase, Find, Posted

\* Callers that get no answer in a step are told what they were told before.
LEMMA SameTold ==
    ASSUME TypeOK, Bookkeeping, NEW c \in Calls, KeepsOthers(c),
           outcome' = outcome, pc[c] \in {"release", "done"} => error' = error
    PROVE  \A d \in Calls : Told(d)' = Told(d)
<1>1. ASSUME NEW d \in Calls, d # c PROVE Told(d)' = Told(d)
    BY <1>1 DEF KeepsOthers, Told
<1>2. Told(c)' = Told(c)
    <2>1. outcome[c].tag = "none" \/ error' = error
        BY DEF Bookkeeping, AnswerFollows
    <2> QED
        BY <2>1 DEF Told
<1> QED
    BY <1>1, <1>2

\* A claim, a posting and a save are steps of the key they are made for.
LEMMA PhaseStep ==
    ASSUME TypeOK, Ownership, Bookkeeping, NEW c \in Calls, Pay(c),
           ClaimKey(c) \/ PostAccepted(c) \/ Save(c)
    PROVE  LET k == req[c].key
           IN  /\ \/ Phase(k) = "free" /\ Phase(k)' = "claimed"
                  \/ Phase(k) = "claimed" /\ Phase(k)' = "posted"
                  \/ Phase(k) = "posted" /\ Phase(k)' = "captured"
                  \/ Phase(k) = "claimed" /\ Phase(k)' = "failed"
                  \/ Phase(k) = "posted" /\ Phase(k)' = "failed" /\ CaptureRefusable
               /\ \A j \in Keys \ {k} : Phase(j)' = Phase(j)
<1> DEFINE k == req[c].key
<1> Moves(c)
    BY PayMoves
<1>1. /\ k \in Keys /\ req' = req
      /\ pc[c] \in {"claim", "post", "save"} /\ txnId[c] # 0 /\ txnId' = txnId
    BY ConstantsAssumption, HasId DEF Ownership, ClaimKey, PostAccepted, Save, Step, stack, TypeOK,
       PaymentRequest, Moves
<1>2. k' = k /\ \A j \in Keys \ {k} : claimed[j] # txnId[c]
    BY <1>1, KeysHaveTheirIds
<1> HIDE DEF k
<1>3. CASE ClaimKey(c)
    <2>1. /\ claimed[k] = 0 /\ claimed' = [claimed EXCEPT ![k] = txnId[c]]
          /\ UNCHANGED <<journal, store>>
        BY <1>3 DEF ClaimKey, k
    <2>2. Find(txnId[c]) = {} /\ txnId[c] \notin Posted
        BY <1>1, <1>3, NothingOfItYet DEF ClaimKey, Step, AfterPost, AfterSave
    <2>3. Phase(k) = "free"
        BY <2>1 DEF Phase
    <2>4. claimed'[k] = txnId[c] /\ \A j \in Keys \ {k} : claimed'[j] = claimed[j]
        BY <1>1, <2>1 DEF TypeOK
    <2>5. Phase(k)' = "claimed"
        <3>1. claimed'[k] # 0 /\ {t \in store' : t.id = claimed'[k]} = {}
            BY <1>1, <2>1, <2>2, <2>4 DEF Find
        <3>2. claimed'[k] \notin Posted'
            BY <2>1, <2>2, <2>4 DEF Posted
        <3> QED
            BY <1>2, <3>1, <3>2 DEF Phase, Find
    <2>6. \A j \in Keys \ {k} : Phase(j)' = Phase(j)
        BY <2>1, <2>4 DEF Phase, Find, Posted
    <2> QED
        BY <2>3, <2>5, <2>6 DEF k
<1>4. \/ claimed[k] = txnId[c] /\ UNCHANGED claimed /\ pc[c] \in {"post", "save"}
      \/ ClaimKey(c)
    BY <1>1 DEF k, PostAccepted, Save, Step, Ownership, Reservations, ClaimsAreKept, Working, Labels
<1>5. CASE PostAccepted(c)
    <2>1. /\ UNCHANGED <<claimed, store>> /\ pc[c] = "post" /\ claimed[k] = txnId[c]
          /\ Posted' = Posted \cup {txnId[c]}
        BY <1>4, <1>5, PostedStep DEF PostAccepted, ClaimKey, Step
    <2>2. Find(txnId[c]) = {} /\ txnId[c] \notin Posted
        BY <1>1, <2>1, NothingOfItYet DEF AfterPost, AfterSave
    <2>3. Phase(k) = "claimed" /\ Phase(k)' = "posted"
        <3>1. /\ claimed[k] # 0 /\ {t \in store : t.id = claimed[k]} = {}
              /\ claimed[k] \notin Posted
            BY <1>1, <2>1, <2>2 DEF Find
        <3>2. /\ claimed'[k] # 0 /\ {t \in store' : t.id = claimed'[k]} = {}
              /\ claimed'[k] \in Posted'
            BY <2>1, <3>1
        <3> QED
            BY <1>2, <3>1, <3>2 DEF Phase, Find
    <2>4. \A j \in Keys \ {k} : Phase(j)' = Phase(j)
        BY <1>2, <2>1 DEF Phase, Find
    <2> QED
        BY <2>3, <2>4 DEF k
<1>6. CASE Save(c)
    <2>1. /\ UNCHANGED <<claimed, journal>> /\ pc[c] = "save" /\ claimed[k] = txnId[c]
          /\ Posted' = Posted
        BY <1>4, <1>6 DEF Save, ClaimKey, Step, Posted
    <2>2. /\ Find(txnId[c]) = {}
          /\ store' = store \cup {TransactionOf(c)}
          /\ \A id : id # txnId[c] => {t \in store' : t.id = id} = {t \in store : t.id = id}
        BY <1>6, FindStep
    <2>3. {t \in store' : t.id = claimed'[k]} = {TransactionOf(c)}
        <3>1. TransactionOf(c).id = txnId[c]
            BY DEF TransactionOf
        <3> QED
            BY <2>1, <2>2, <3>1 DEF Find
    <2>4. TransactionOf(c).status = status[c]
        BY DEF TransactionOf
    <2>5. /\ status[c] = IF error[c] = "NONE" THEN "CAPTURED" ELSE "FAILED"
          /\ IF error[c] = "NONE" THEN txnId[c] \in Posted
             ELSE txnId[c] \in Posted => CaptureRefusable
        BY <2>1 DEF Bookkeeping, StatusFollows, MoneyFollows, Verdict
    <2>6. Phase(k) = IF txnId[c] \in Posted THEN "posted" ELSE "claimed"
        BY <1>1, <2>1, <2>2 DEF Phase
    <2>7. Phase(k)' = IF status[c] = "CAPTURED" THEN "captured" ELSE "failed"
        <3>1. claimed'[k] # 0
            BY <1>1, <2>1
        <3> QED
            BY <1>2, <2>3, <2>4, <3>1 DEF Phase, Find
    <2>8. \A j \in Keys \ {k} : Phase(j)' = Phase(j)
        <3> SUFFICES ASSUME NEW j \in Keys \ {k} PROVE Phase(j)' = Phase(j)
            OBVIOUS
        <3>1. claimed'[j] = claimed[j]
            BY <2>1
        <3>2. {t \in store' : t.id = claimed'[j]} = {t \in store : t.id = claimed[j]}
            BY <1>2, <2>2, <3>1
        <3> QED
            BY <2>1, <3>1, <3>2 DEF Phase, Find
    <2> QED
        BY <2>5, <2>6, <2>7, <2>8 DEF k
<1> QED
    BY <1>3, <1>5, <1>6

\* An answer is true of its key.
LEMMA AnswerIsTrue ==
    ASSUME TypeOK, Ownership, Bookkeeping, NEW c \in Calls, Pay(c), outcome' # outcome
    PROVE  /\ UNCHANGED <<claimed, journal, store>>
           /\ Told(c) = "none"
           /\ \/ Told(c)' = "captured" /\ Phase(req[c].key) = "captured"
              \/ Told(c)' = "failed" /\ Phase(req[c].key) = "failed"
              \/ Told(c)' = "busy" /\ Phase(req[c].key) \in {"claimed", "posted"}
              \/ Told(c)' = "threw" /\ Phase(req[c].key) = "claimed"
<1>1. Replay(c) \/ Build(c) \/ Validate(c) \/ Publish(c)
    BY DEF Pay, MintId, ClaimKey, KeyTaken, Acquire, FindAccounts, Authorize, Decline,
       DebitPayer, CreditPayee, SeqOfDebit, SeqOfCredit, PostAccepted, PostRejected,
       RefundPayer, ChargePayee, Capture, CaptureRefused, Save, Release, Failing, stack
<1>2. /\ UNCHANGED <<claimed, journal, store, txnId, req>>
      /\ pc[c] \in {"replay", "build", "validate", "publish"}
    BY <1>1 DEF Replay, Build, Validate, Publish, Step, Failing, shared
<1>3. Told(c) = "none"
    BY <1>2 DEF Bookkeeping, AnswerFollows, Told
<1>4. CASE Replay(c)
    <2> DEFINE prior == Find(claimed[req[c].key])
    <2>1. /\ pc[c] = "replay" /\ error' = error /\ claimed[req[c].key] # 0
          /\ error[c] = "NONE"
        BY <1>4 DEF Replay, Step, Bookkeeping, AnswerFollows, StatusFollows, Unapproved
    <2>2. IF prior # {} THEN Return(c, "ok", "NONE", prior)
                        ELSE Return(c, "err", "DUPLICATE_REQUEST", {})
        BY <1>4, Zenon DEF Replay
    <2>3. CASE prior # {}
        <3>1. outcome'[c].tag = "ok" /\ outcome'[c].value = prior
            BY <2>2, <2>3 DEF Return, TypeOK
        <3>2. Told(c)' = IF \A t \in prior : t.status = "CAPTURED" THEN "captured"
                                                                  ELSE "failed"
            BY <3>1 DEF Told
        <3>3. Phase(req[c].key) = IF \A t \in prior : t.status = "CAPTURED" THEN "captured"
                                                                  ELSE "failed"
            BY <2>1, <2>3 DEF Phase
        <3> QED
            BY <1>2, <1>3, <3>2, <3>3
    <2>4. CASE prior = {}
        <3>1. outcome'[c].tag = "err"
            BY <2>2, <2>4 DEF Return, TypeOK
        <3>2. Told(c)' = "busy"
            BY <2>1, <3>1 DEF Told
        <3>3. Phase(req[c].key) \in {"claimed", "posted"}
            BY <2>1, <2>4 DEF Phase
        <3> QED
            BY <1>2, <1>3, <3>2, <3>3
    <2> QED
        BY <2>3, <2>4
<1>5. CASE Build(c) \/ Validate(c)
    <2>1. outcome'[c].tag = "threw" /\ pc[c] \in {"build", "validate"}
        BY <1>5 DEF Build, Validate, Step, Return, Failing, TypeOK
    <2>2. /\ claimed[req[c].key] = txnId[c] /\ txnId[c] # 0
          /\ Find(txnId[c]) = {} /\ txnId[c] \notin Posted
        BY <2>1, HasId, NothingOfItYet DEF Ownership, Reservations, ClaimsAreKept, Working, Labels,
           AfterPost, AfterSave
    <2>3. Told(c)' = "threw" /\ Phase(req[c].key) = "claimed"
        BY <2>1, <2>2 DEF Told, Phase
    <2> QED
        BY <1>2, <1>3, <2>3
<1>6. CASE Publish(c)
    <2>1. pc[c] = "publish" /\ error' = error
        BY <1>6 DEF Publish, Step
    <2>2. /\ claimed[req[c].key] = txnId[c] /\ txnId[c] # 0
          /\ Find(txnId[c]) = {TransactionOf(c)}
          /\ status[c] = IF error[c] = "NONE" THEN "CAPTURED" ELSE "FAILED"
        BY <2>1, HasId DEF Ownership, Reservations, ClaimsAreKept, Working, Labels, Bookkeeping,
           MoneyFollows, StatusFollows, Verdict, AfterSave
    <2>3. TransactionOf(c).status = status[c]
        BY DEF TransactionOf
    <2>4. Phase(req[c].key) = IF error[c] = "NONE" THEN "captured" ELSE "failed"
        BY <2>2, <2>3 DEF Phase
    <2>5. Told(c)' = IF error[c] = "NONE" THEN "captured" ELSE "failed"
        <3>1. IF error[c] = "NONE" THEN Return(c, "ok", "NONE", {TransactionOf(c)})
                                   ELSE Return(c, "err", error[c], {})
            BY <1>6, Zenon DEF Publish
        <3>2. CASE error[c] = "NONE"
            <4>1. outcome'[c].tag = "ok" /\ outcome'[c].value = {TransactionOf(c)}
                BY <3>1, <3>2 DEF Return, TypeOK
            <4> QED
                BY <2>2, <2>3, <3>2, <4>1 DEF Told
        <3>3. CASE error[c] # "NONE"
            <4>1. outcome'[c].tag = "err"
                BY <3>1, <3>3 DEF Return, TypeOK
            <4> QED
                BY <2>1, <3>3, <4>1 DEF Told
        <3> QED
            BY <3>2, <3>3
    <2> QED
        BY <1>2, <1>3, <2>4, <2>5
<1> QED
    BY <1>1, <1>4, <1>5, <1>6

\* A step of one key and no caller is that step of the contract.
LEMMA KeyMoves ==
    ASSUME NEW k \in Keys, NEW from, NEW to, req' = req,
           Phase(k) = from, Phase(k)' = to,
           \A j \in Keys \ {k} : Phase(j)' = Phase(j),
           \A d \in Calls : Told(d)' = Told(d)
    PROVE  Contract!Becomes(k, from, to)
BY DEF Contract!Becomes

\* A step of one caller and no key is an answer of the contract.
LEMMA CallerIsTold ==
    ASSUME NEW c \in Calls, NEW what \in DOMAIN Contract!Truth, req' = req,
           Told(c) = "none", Told(c)' = what,
           Phase(req[c].key) \in Contract!Truth[what], req[c].key \in Keys,
           \A k \in Keys : Phase(k)' = Phase(k),
           \A d \in Calls \ {c} : Told(d)' = Told(d)
    PROVE  Contract!Answer(c, what)
BY DEF Contract!Answer

LEMMA InitContract == Init => Contract!Init
<1> SUFFICES ASSUME Init PROVE Contract!Init
    OBVIOUS
<1>1. \A k \in Keys : Phase(k) = "free"
    BY DEF Init, Phase
<1>2. \A c \in Calls : Told(c) = "none"
    BY DEF Init, Told
<1>3. \A c \in Calls : req[c].key \in Keys
    BY InitTypeOK, ConstantsAssumption DEF TypeOK, PaymentRequest
<1> QED
    BY <1>1, <1>2, <1>3 DEF Contract!Init

\* Every step of a call is a step of the contract, or none.
LEMMA StepOfTheContract ==
    ASSUME TypeOK, Ownership, Bookkeeping, NEW c \in Calls, Pay(c)
    PROVE  Contract!Next \/ UNCHANGED Contract!cvars
<1> Moves(c) /\ KeepsOthers(c)
    BY PayMoves, PayKeepsOthers
<1>1. req' = req /\ req[c].key \in Keys
    BY ConstantsAssumption DEF Moves, TypeOK, PaymentRequest
<1>2. pc[c] \in {"release", "done"} => error' = error
    BY DEF Pay, MintId, ClaimKey, KeyTaken, Replay, Build, Acquire, Validate, FindAccounts,
       Authorize, Decline, DebitPayer, CreditPayee, SeqOfDebit, SeqOfCredit, PostAccepted,
       PostRejected, RefundPayer, ChargePayee, Capture, CaptureRefused, Save, Publish,
       Release, Step, Failing, stack
<1>3. CASE outcome' = outcome /\ (ClaimKey(c) \/ PostAccepted(c) \/ Save(c))
    <2>1. \A d \in Calls : Told(d)' = Told(d)
        BY <1>2, <1>3, SameTold
    <2>2. PICK k \in Keys : k = req[c].key
        BY <1>1
    <2>3. /\ \/ Phase(k) = "free" /\ Phase(k)' = "claimed"
             \/ Phase(k) = "claimed" /\ Phase(k)' = "posted"
             \/ Phase(k) = "posted" /\ Phase(k)' = "captured"
             \/ Phase(k) = "claimed" /\ Phase(k)' = "failed"
             \/ Phase(k) = "posted" /\ Phase(k)' = "failed" /\ CaptureRefusable
          /\ \A j \in Keys \ {k} : Phase(j)' = Phase(j)
        BY <1>1, <1>3, <2>2, PhaseStep
    <2>4. \/ Contract!Becomes(k, "free", "claimed")
          \/ Contract!Becomes(k, "claimed", "posted")
          \/ Contract!Becomes(k, "posted", "captured")
          \/ Contract!Becomes(k, "claimed", "failed")
          \/ CaptureRefusable /\ Contract!Becomes(k, "posted", "failed")
        BY <1>1, <2>1, <2>3, KeyMoves
    <2> QED
        BY <2>4 DEF Contract!Next, Contract!Claim, Contract!Post, Contract!Capture,
           Contract!Fail
<1>4. CASE outcome' = outcome /\ ~(ClaimKey(c) \/ PostAccepted(c) \/ Save(c))
    <2>1. \A k \in Keys : Phase(k)' = Phase(k)
        BY <1>4, SamePhase DEF Moves
    <2>2. \A d \in Calls : Told(d)' = Told(d)
        BY <1>2, <1>4, SameTold
    <2> QED
        BY <1>1, <2>1, <2>2 DEF Contract!cvars
<1>5. CASE outcome' # outcome
    <2>1. \A k \in Keys : Phase(k)' = Phase(k)
        BY <1>5, AnswerIsTrue, SamePhase
    <2>2. \A d \in Calls \ {c} : Told(d)' = Told(d)
        BY DEF KeepsOthers, Told
    <2>3. PICK what \in DOMAIN Contract!Truth :
             /\ Told(c) = "none" /\ Told(c)' = what
             /\ Phase(req[c].key) \in Contract!Truth[what]
        BY <1>5, AnswerIsTrue DEF Contract!Truth
    <2>4. Contract!Answer(c, what)
        BY <1>1, <2>1, <2>2, <2>3, CallerIsTold
    <2> QED
        BY <2>4 DEF Contract!Next
<1> QED
    BY <1>3, <1>4, <1>5

\* PaymentService implements its contract: under every interleaving of every set of
\* calls a key is posted at most once and settles once, and no caller is told anything
\* else about it.
THEOREM ServiceKeepsContract == Spec => KeepsContract
<1>1. Init => Contract!Init
    BY InitContract
<1>2. TypeOK /\ Ownership /\ Bookkeeping /\ [Next]_vars
        => [Contract!Next]_(Contract!cvars)
    <2> SUFFICES ASSUME TypeOK, Ownership, Bookkeeping, [Next]_vars
                 PROVE  Contract!Next \/ UNCHANGED Contract!cvars
        OBVIOUS
    <2>1. ASSUME NEW c \in Calls, Pay(c)
          PROVE  Contract!Next \/ UNCHANGED Contract!cvars
        BY <2>1, StepOfTheContract
    <2>2. CASE ~ \E c \in Calls : Pay(c)
        <3>1. UNCHANGED <<req, outcome, error, claimed, journal, store>>
            BY <2>2, Elsewhere DEF stack
        <3>2. (\A k \in Keys : Phase(k)' = Phase(k)) /\ \A d \in Calls : Told(d)' = Told(d)
            BY <3>1, SamePhase DEF Told
        <3> QED
            BY <3>1, <3>2 DEF Contract!cvars
    <2> QED
        BY <2>1, <2>2
<1> QED
    BY <1>1, <1>2, TypeCorrect, OwnershipHolds, BookkeepingHolds, PTL
    DEF Spec, KeepsContract, Contract!Spec
=============================================================================
