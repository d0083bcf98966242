--------------------------- MODULE AnalysisProofs ---------------------------
(***************************************************************************)
(* What the analysis makes of any text and of any answer of a model: facts *)
(* about the operators of RuleEngine and AnalysisContract, and what they   *)
(* rest on about finite sets, sums and extremes.                           *)
(*                                                                         *)
(* Induction is by a set: NatInductionSet and SubsetInduction conclude     *)
(* that a set contains every number, every subset.                         *)
(***************************************************************************)
EXTENDS RuleEngine, FiniteSetTheorems, TLAPS

-----------------------------------------------------------------------------
\* A set of natural numbers with zero and every successor is all of them.
LEMMA NatInductionSet ==
    ASSUME NEW G, 0 \in G, \A n \in Nat : n \in G => n + 1 \in G
    PROVE  Nat \subseteq G
<1> SUFFICES ASSUME NEW m \in Nat, m \notin G PROVE FALSE
  OBVIOUS
<1> DEFINE Bad == Nat \ G
           Less == OpToRel(<, Nat)
<1>1. Bad \subseteq Nat /\ m \in Bad
  OBVIOUS
<1>2. IsWellFoundedOn(Less, Nat)
  BY NatLessThanWellFounded
<1>3. PICK n \in Bad : \A k \in Bad : ~(<<k, n>> \in Less)
  <2> HIDE DEF Bad, Less
  <2> QED
    BY <1>1, <1>2, WFMin
<1>4. n \in Nat /\ n \notin G
  OBVIOUS
<1>5. n # 0
  BY <1>4
<1>6. n - 1 \in Nat /\ n - 1 < n /\ (n - 1) + 1 = n
  BY <1>4, <1>5
<1>7. <<n - 1, n>> \in Less
  BY <1>4, <1>6 DEF OpToRel
<1>8. n - 1 \in G
  BY <1>3, <1>6, <1>7
<1> QED
  BY <1>4, <1>6, <1>8

\* A family of subsets of a finite set that has each set whose smaller subsets it has
\* has them all.
LEMMA SmallestSet ==
    ASSUME NEW S, IsFiniteSet(S), NEW G,
           \A T \in SUBSET S : (\A U \in SUBSET T : U # T => U \in G) => T \in G
    PROVE  SUBSET S \subseteq G
<1> SUFFICES ASSUME NEW V \in SUBSET S, V \notin G PROVE FALSE
  OBVIOUS
<1> DEFINE Bad == (SUBSET S) \ G
           Less == StrictSubsetOrdering(S)
<1>1. IsWellFoundedOn(Less, SUBSET S)
  <2>1. IsWellFoundedOn(Less, FiniteSubsetsOf(S))
    BY FS_StrictSubsetOrderingWellFounded
  <2>2. FiniteSubsetsOf(S) = SUBSET S
    BY FS_FiniteSubsetsOfFinite
  <2> QED
    BY <2>1, <2>2
<1>2. Bad \subseteq SUBSET S /\ V \in Bad
  OBVIOUS
<1>3. PICK T \in Bad : \A U \in Bad : ~(<<U, T>> \in Less)
  <2> HIDE DEF Bad, Less
  <2> QED
    BY <1>1, <1>2, WFMin
<1>4. T \in SUBSET S /\ T \notin G
  OBVIOUS
<1>5. \A U \in SUBSET T : U # T => U \in G
  BY <1>3, <1>4 DEF StrictSubsetOrdering
<1> QED
  BY <1>4, <1>5

\* A family with the empty set and with each set one of whose elements can be left out.
LEMMA SubsetInduction ==
    ASSUME NEW S, IsFiniteSet(S), NEW G, {} \in G,
           \A T \in SUBSET S : \A x \in S \ T : T \in G => T \cup {x} \in G
    PROVE  S \in G
<1>1. ASSUME NEW T \in SUBSET S, \A U \in SUBSET T : U # T => U \in G PROVE T \in G
  <2>1. CASE T = {}
    BY <2>1
  <2>2. CASE T # {}
    <3>1. PICK x \in T : TRUE
      BY <2>2
    <3>2. T \ {x} \in SUBSET T /\ T \ {x} # T /\ T \ {x} \in SUBSET S /\ x \in S \ (T \ {x})
          /\ (T \ {x}) \cup {x} = T
      BY <3>1
    <3>3. T \ {x} \in G
      BY <1>1, <3>2
    <3> QED
      BY <3>2, <3>3
  <2> QED
    BY <2>1, <2>2
<1>2. SUBSET S \subseteq G
  BY <1>1, SmallestSet
<1> QED
  BY <1>2

-----------------------------------------------------------------------------
(* Sums: what Total adds up does not depend on the order in which it does.  *)

Chosen(s) == CHOOSE x \in s : TRUE
Rest(s) == s \ {Chosen(s)}

\* The partial sums of f over the sets of F.
IsRun(g, f, F) == g = [s \in F |-> IF s = {} THEN 0 ELSE f[Chosen(s)] + g[Rest(s)]]

LEMMA TotalIsRun ==
    ASSUME NEW f, NEW I
    PROVE  Total(f, I) = (CHOOSE g : IsRun(g, f, SUBSET I))[I]
  BY DEF Total, FoldSet, MapThenFoldSet, IsRun, Chosen, Rest

LEMMA RestSmaller ==
    ASSUME NEW s, IsFiniteSet(s), s # {}
    PROVE  /\ Chosen(s) \in s /\ Rest(s) \subseteq s /\ Rest(s) # s
           /\ IsFiniteSet(Rest(s)) /\ Cardinality(Rest(s)) = Cardinality(s) - 1
<1>1. Chosen(s) \in s
  BY DEF Chosen
<1> QED
  BY <1>1, FS_RemoveElement DEF Rest

LEMMA RunExists ==
    ASSUME NEW f, NEW I, IsFiniteSet(I)
    PROVE  \E g : IsRun(g, f, SUBSET I)
<1> DEFINE Small(n) == {s \in SUBSET I : Cardinality(s) <= n}
           G == {n \in Nat : \E g : IsRun(g, f, Small(n))}
<1>1. \A s \in SUBSET I : IsFiniteSet(s) /\ Cardinality(s) \in Nat
  BY FS_Subset, FS_CardinalityType
<1>2. 0 \in G
  <2>1. \A s \in Small(0) : s = {}
    BY <1>1, FS_EmptySet
  <2>2. IsRun([s \in Small(0) |-> 0], f, Small(0))
    BY <2>1 DEF IsRun
  <2> QED
    BY <2>2
<1>3. ASSUME NEW n \in Nat, n \in G PROVE n + 1 \in G
  <2>1. PICK g : IsRun(g, f, Small(n))
    BY <1>3
  <2> DEFINE h == [s \in Small(n + 1) |-> IF s \in Small(n) THEN g[s] ELSE f[Chosen(s)] + g[Rest(s)]]
  <2>2. ASSUME NEW s \in Small(n + 1), s # {}
        PROVE  Rest(s) \in Small(n) /\ Rest(s) \in Small(n + 1)
    <3>1. s \in SUBSET I /\ Cardinality(s) <= n + 1 /\ IsFiniteSet(s) /\ Cardinality(s) \in Nat
      BY <1>1
    <3>2. Rest(s) \in SUBSET I /\ Cardinality(Rest(s)) = Cardinality(s) - 1
      BY <2>2, <3>1, RestSmaller
    <3> QED
      BY <3>1, <3>2
  <2>3. ASSUME NEW s \in Small(n + 1)
        PROVE  h[s] = IF s = {} THEN 0 ELSE f[Chosen(s)] + h[Rest(s)]
    <3>1. {} \in Small(n)
      BY FS_EmptySet
    <3>2. CASE s = {}
      BY <2>1, <3>1, <3>2 DEF IsRun
    <3>3. CASE s # {}
      <4>1. h[Rest(s)] = g[Rest(s)]
        BY <2>2, <3>3
      <4>2. s \in Small(n) => g[s] = f[Chosen(s)] + g[Rest(s)]
        BY <2>1, <3>3 DEF IsRun
      <4> QED
        BY <3>3, <4>1, <4>2
    <3> QED
      BY <3>2, <3>3
  <2>4. IsRun(h, f, Small(n + 1))
    <3> DEFINE k == [s \in Small(n + 1) |-> IF s = {} THEN 0 ELSE f[Chosen(s)] + h[Rest(s)]]
    <3>1. h = k
      BY <2>3
    <3> QED
      BY <3>1 DEF IsRun
  <2> HIDE DEF h
  <2>5. n + 1 \in Nat
    OBVIOUS
  <2> QED
    BY <2>4, <2>5
<1>4. Cardinality(I) \in G
  <2> HIDE DEF G
  <2> QED
    BY <1>1, <1>2, <1>3, NatInductionSet
<1>5. Small(Cardinality(I)) = SUBSET I
  BY FS_Subset
<1> QED
  BY <1>4, <1>5

\* The partial sums over the subsets of I that Total(f, I) is taken from.
Partial(f, I) == CHOOSE g : IsRun(g, f, SUBSET I)

LEMMA PartialSums ==
    ASSUME NEW f, NEW I, IsFiniteSet(I)
    PROVE  /\ Total(f, I) = Partial(f, I)[I]
           /\ Partial(f, I)[{}] = 0
           /\ \A s \in SUBSET I : s # {} =>
                 Partial(f, I)[s] = f[Chosen(s)] + Partial(f, I)[Rest(s)]
<1>1. IsRun(Partial(f, I), f, SUBSET I)
  BY RunExists DEF Partial
<1>2. Total(f, I) = Partial(f, I)[I]
  BY TotalIsRun DEF Partial
<1> QED
  BY <1>1, <1>2 DEF IsRun

LEMMA PartialsAgree ==
    ASSUME NEW f, NEW I, IsFiniteSet(I), NEW J \in SUBSET I, NEW s \in SUBSET J
    PROVE  Partial(f, I)[s] = Partial(f, J)[s]
<1> DEFINE G == {t \in SUBSET J : Partial(f, I)[t] = Partial(f, J)[t]}
<1>1. IsFiniteSet(J)
  BY FS_Subset
<1>2. ASSUME NEW t \in SUBSET J, \A u \in SUBSET t : u # t => u \in G PROVE t \in G
  <2>1. CASE t = {}
    BY <1>1, <2>1, PartialSums
  <2>2. CASE t # {}
    <3>1. IsFiniteSet(t)
      BY <1>1, FS_Subset
    <3>2. Rest(t) \in G
      BY <1>2, <2>2, <3>1, RestSmaller
    <3>3. t \in SUBSET I
      OBVIOUS
    <3>4. Partial(f, I)[t] = f[Chosen(t)] + Partial(f, I)[Rest(t)]
      BY <2>2, <3>3, PartialSums
    <3>5. Partial(f, J)[t] = f[Chosen(t)] + Partial(f, J)[Rest(t)]
      BY <1>1, <2>2, PartialSums
    <3> QED
      BY <3>2, <3>4, <3>5
  <2> QED
    BY <2>1, <2>2
<1>3. SUBSET J \subseteq G
  <2> HIDE DEF G
  <2> QED
    BY <1>1, <1>2, SmallestSet
<1> QED
  BY <1>3

LEMMA SubTotals ==
    ASSUME NEW f, NEW I, IsFiniteSet(I), NEW J \in SUBSET I
    PROVE  Total(f, J) = Partial(f, I)[J]
<1>1. IsFiniteSet(J)
  BY FS_Subset
<1> QED
  BY <1>1, PartialSums, PartialsAgree

\* The sum of natural numbers is one.
LEMMA TotalNat ==
    ASSUME NEW f, NEW I, IsFiniteSet(I), \A i \in I : f[i] \in Nat
    PROVE  Total(f, I) \in Nat
<1> DEFINE G == {t \in SUBSET I : Partial(f, I)[t] \in Nat}
<1>1. ASSUME NEW t \in SUBSET I, \A u \in SUBSET t : u # t => u \in G PROVE t \in G
  <2>1. CASE t = {}
    BY <2>1, PartialSums
  <2>2. CASE t # {}
    <3>1. IsFiniteSet(t)
      BY FS_Subset
    <3>2. Rest(t) \in G /\ Chosen(t) \in I
      BY <1>1, <2>2, <3>1, RestSmaller
    <3>3. Partial(f, I)[t] = f[Chosen(t)] + Partial(f, I)[Rest(t)]
      BY <2>2, PartialSums
    <3>4. f[Chosen(t)] \in Nat /\ Partial(f, I)[Rest(t)] \in Nat
      BY <3>2
    <3> QED
      BY <3>3, <3>4
  <2> QED
    BY <2>1, <2>2
<1>2. SUBSET I \subseteq G
  <2> HIDE DEF G
  <2> QED
    BY <1>1, SmallestSet
<1>3. Partial(f, I)[I] \in Nat
  BY <1>2
<1> QED
  BY <1>3, PartialSums

\* Any element may be added last.
LEMMA TotalSplits ==
    ASSUME NEW f, NEW I, IsFiniteSet(I), \A i \in I : f[i] \in Nat, NEW x \in I
    PROVE  Total(f, I) = f[x] + Total(f, I \ {x})
<1> DEFINE P == Partial(f, I)
           G == {t \in SUBSET I : \A y \in t : P[t] = f[y] + P[t \ {y}]}
<1>0. \A t \in SUBSET I : IsFiniteSet(t) /\ P[t] \in Nat
  BY FS_Subset, SubTotals, TotalNat
<1>1. ASSUME NEW t \in SUBSET I, \A u \in SUBSET t : u # t => u \in G PROVE t \in G
  <2> SUFFICES ASSUME NEW y \in t PROVE P[t] = f[y] + P[t \ {y}]
    OBVIOUS
  <2> DEFINE c == Chosen(t)
  <2>1. c \in t /\ Rest(t) = t \ {c}
    BY DEF Chosen, Rest
  <2>2. P[t] = f[c] + P[t \ {c}]
    <3>1. t # {}
      BY <2>1
    <3>2. P[t] = f[Chosen(t)] + P[Rest(t)]
      BY <3>1, PartialSums
    <3> QED
      BY <2>1, <3>2
  <2> HIDE DEF c
  <2>3. CASE y = c
    BY <2>2, <2>3
  <2>4. CASE y # c
    <3>1. t \ {c} \in G /\ t \ {y} \in G
      BY <1>1, <2>1
    <3>2. y \in t \ {c} /\ c \in t \ {y} /\ (t \ {c}) \ {y} = (t \ {y}) \ {c}
      BY <2>1, <2>4
    <3> DEFINE q == P[(t \ {y}) \ {c}]
    <3>3. P[t \ {c}] = f[y] + q
      BY <3>1, <3>2
    <3>4. P[t \ {y}] = f[c] + q
      BY <3>1, <3>2
    <3>5. q \in Nat /\ f[y] \in Nat /\ f[c] \in Nat
      BY <1>0, <2>1
    <3> HIDE DEF q, P
    <3> QED
      BY <2>2, <3>3, <3>4, <3>5
  <2> QED
    BY <2>3, <2>4
<1>2. SUBSET I \subseteq G
  <2> HIDE DEF G
  <2> QED
    BY <1>1, SmallestSet
<1>3. P[I] = f[x] + P[I \ {x}]
  BY <1>2
<1>4. P[I \ {x}] = Total(f, I \ {x}) /\ P[I] = Total(f, I)
  BY SubTotals
<1> QED
  BY <1>3, <1>4

LEMMA TotalEmpty == ASSUME NEW f PROVE Total(f, {}) = 0
  BY PartialSums, FS_EmptySet

LEMMA TotalAdds ==
    ASSUME NEW f, NEW I, IsFiniteSet(I), NEW x, x \notin I,
           f[x] \in Nat, \A i \in I : f[i] \in Nat
    PROVE  Total(f, I \cup {x}) = f[x] + Total(f, I)
<1>1. IsFiniteSet(I \cup {x}) /\ (I \cup {x}) \ {x} = I
  BY FS_AddElement
<1>2. \A i \in I \cup {x} : f[i] \in Nat
  OBVIOUS
<1>3. x \in I \cup {x}
  OBVIOUS
<1> HIDE DEF Total
<1>4. Total(f, I \cup {x}) = f[x] + Total(f, (I \cup {x}) \ {x})
  BY <1>1, <1>2, <1>3, TotalSplits
<1> QED
  BY <1>1, <1>4

LEMMA TotalSame ==
    ASSUME NEW f, NEW g, NEW I, IsFiniteSet(I), \A i \in I : f[i] = g[i] /\ f[i] \in Nat
    PROVE  Total(f, I) = Total(g, I)
<1> DEFINE G == {T \in SUBSET I : Total(f, T) = Total(g, T)}
<1>1. {} \in G
  BY TotalEmpty
<1>2. ASSUME NEW T \in SUBSET I, NEW x \in I \ T, T \in G PROVE T \cup {x} \in G
  <2>1. IsFiniteSet(T)
    BY FS_Subset
  <2>2. Total(f, T \cup {x}) = f[x] + Total(f, T) /\ Total(g, T \cup {x}) = g[x] + Total(g, T)
    BY <2>1, TotalAdds
  <2> QED
    BY <1>2, <2>2
<1>3. I \in G
  <2> HIDE DEF G
  <2> QED
    BY <1>1, <1>2, SubsetInduction
<1> QED
  BY <1>3

\* A sum is at least each of its terms, and at most their bound times their number.
LEMMA TotalHasTerm ==
    ASSUME NEW f, NEW I, IsFiniteSet(I), \A i \in I : f[i] \in Nat, NEW x \in I
    PROVE  f[x] <= Total(f, I)
<1>1. IsFiniteSet(I \ {x})
  BY FS_RemoveElement
<1>2. Total(f, I \ {x}) \in Nat
  BY <1>1, TotalNat
<1>3. Total(f, I) = f[x] + Total(f, I \ {x})
  BY TotalSplits
<1> QED
  BY <1>2, <1>3

LEMMA TotalBounded ==
    ASSUME NEW f, NEW I, IsFiniteSet(I), NEW m \in Nat, \A i \in I : f[i] \in 0 .. m
    PROVE  Total(f, I) <= m * Cardinality(I)
<1> DEFINE G == {T \in SUBSET I : Total(f, T) <= m * Cardinality(T)}
<1>1. {} \in G
  BY TotalEmpty, FS_EmptySet
<1>2. ASSUME NEW T \in SUBSET I, NEW x \in I \ T, T \in G PROVE T \cup {x} \in G
  <2>1. IsFiniteSet(T)
    BY FS_Subset
  <2>2. Total(f, T \cup {x}) = f[x] + Total(f, T) /\ Total(f, T) \in Nat
    BY <2>1, TotalAdds, TotalNat
  <2>3. Cardinality(T) \in Nat /\ Cardinality(T \cup {x}) = Cardinality(T) + 1
    BY <2>1, FS_AddElement, FS_CardinalityType
  <2>4. m * (Cardinality(T) + 1) = m * Cardinality(T) + m
    BY <2>3
  <2>5. Total(f, T) <= m * Cardinality(T)
    BY <1>2
  <2>6. m * Cardinality(T) \in Nat
    BY <2>3
  <2>7. f[x] \in 0 .. m
    OBVIOUS
  <2> QED
    BY <2>2, <2>3, <2>4, <2>5, <2>6, <2>7
<1>3. I \in G
  <2> HIDE DEF G
  <2> QED
    BY <1>1, <1>2, SubsetInduction
<1> QED
  BY <1>3

\* Counting the elements of D group by group.
LEMMA Groups ==
    ASSUME NEW h, NEW D, IsFiniteSet(D), NEW K, IsFiniteSet(K), \A d \in D : h[d] \in K,
           NEW g, \A k \in K : g[k] = Cardinality({d \in D : h[d] = k})
    PROVE  Total(g, K) = Cardinality(D)
<1> DEFINE In(T) == {d \in D : h[d] \in T}
           G == {T \in SUBSET K : Total(g, T) = Cardinality(In(T))}
<1>0. \A T : IsFiniteSet(In(T)) /\ Cardinality(In(T)) \in Nat
  BY FS_Subset, FS_CardinalityType
<1>01. \A k \in K : g[k] \in Nat
  <2> SUFFICES ASSUME NEW k \in K PROVE g[k] \in Nat
    OBVIOUS
  <2>1. IsFiniteSet({d \in D : h[d] = k})
    BY FS_Subset
  <2> QED
    BY <2>1, FS_CardinalityType
<1>1. {} \in G
  <2>1. In({}) = {}
    OBVIOUS
  <2> QED
    BY <2>1, TotalEmpty, FS_EmptySet
<1>2. ASSUME NEW T \in SUBSET K, NEW x \in K \ T, T \in G PROVE T \cup {x} \in G
  <2>1. IsFiniteSet(T)
    BY FS_Subset
  <2>2. Total(g, T \cup {x}) = g[x] + Total(g, T)
    BY <1>01, <2>1, TotalAdds
  <2> DEFINE One == {d \in D : h[d] = x}
  <2>3. In(T \cup {x}) = In(T) \cup One /\ In(T) \cap One = {}
    OBVIOUS
  <2>4. IsFiniteSet(One) /\ Cardinality(One) \in Nat
    BY FS_Subset, FS_CardinalityType
  <2>5. Cardinality(In(T) \cup One) = Cardinality(In(T)) + Cardinality(One) - Cardinality(In(T) \cap One)
    <3> HIDE DEF In, One
    <3> QED
      BY <1>0, <2>4, FS_Union
  <2>6. Cardinality(In(T \cup {x})) = Cardinality(In(T)) + Cardinality(One)
    <3>1. Cardinality(In(T) \cap One) = 0
      BY <2>3, FS_EmptySet
    <3>2. Cardinality(In(T \cup {x})) = Cardinality(In(T) \cup One)
      BY <2>3
    <3>3. Cardinality(In(T)) \in Nat
      BY <1>0
    <3> HIDE DEF In, One
    <3> QED
      BY <2>4, <2>5, <3>1, <3>2, <3>3
  <2>7. g[x] = Cardinality(One) /\ Total(g, T) = Cardinality(In(T))
    BY <1>2
  <2> HIDE DEF One, In
  <2>8. Total(g, T \cup {x}) = Cardinality(In(T \cup {x}))
    BY <1>0, <2>2, <2>4, <2>6, <2>7
  <2> USE DEF In
  <2> QED
    BY <2>8
<1>3. K \in G
  <2> HIDE DEF G
  <2> QED
    BY <1>1, <1>2, SubsetInduction
<1>4. In(K) = D
  OBVIOUS
<1> QED
  BY <1>3, <1>4

-----------------------------------------------------------------------------
(* Extremes: of finite sets of numbers, and of numbers that are weighed.    *)

LEMMA ImageFinite ==
    ASSUME NEW f, NEW I, IsFiniteSet(I)
    PROVE  LET T == {f[i] : i \in I} IN IsFiniteSet(T) /\ Cardinality(T) <= Cardinality(I)
<1> DEFINE T == {f[i] : i \in I}
           g == [i \in I |-> f[i]]
<1>1. g \in Surjection(I, T)
  BY DEF Surjection
<1> QED
  BY <1>1, FS_Surjection

LEMMA HasGreatest ==
    ASSUME NEW S \in SUBSET Int, IsFiniteSet(S), S # {}
    PROVE  \E x \in S : \A y \in S : x >= y
<1> DEFINE G == {T \in SUBSET S : T # {} => \E x \in T : \A y \in T : x >= y}
<1>1. {} \in G
  OBVIOUS
<1>2. ASSUME NEW T \in SUBSET S, NEW z \in S \ T, T \in G PROVE T \cup {z} \in G
  <2>1. CASE T = {}
    BY <2>1
  <2>2. CASE T # {}
    <3>1. PICK x \in T : \A y \in T : x >= y
      BY <1>2, <2>2
    <3>2. CASE x >= z
      BY <3>1, <3>2
    <3>3. CASE z > x
      BY <3>1, <3>3
    <3> QED
      BY <3>2, <3>3
  <2> QED
    BY <2>1, <2>2
<1>3. S \in G
  <2> HIDE DEF G
  <2> QED
    BY <1>1, <1>2, SubsetInduction
<1> QED
  BY <1>3

LEMMA MaxIsGreatest ==
    ASSUME NEW S \in SUBSET Int, IsFiniteSet(S), S # {}
    PROVE  Max(S) \in S /\ \A y \in S : Max(S) >= y
  BY HasGreatest DEF Max

LEMMA MinIsLeast ==
    ASSUME NEW S \in SUBSET Int, IsFiniteSet(S), S # {}
    PROVE  Min(S) \in S /\ \A y \in S : Min(S) <= y
<1> DEFINE N == {n \in Int : -n \in S}
           f == [s \in S |-> -s]
<1>1. f \in Surjection(S, N)
  BY DEF Surjection
<1>2. IsFiniteSet(N)
  BY <1>1, FS_Surjection
<1>3. N # {} /\ N \in SUBSET Int
  <2>1. PICK s \in S : TRUE
    OBVIOUS
  <2>2. -s \in N
    BY <2>1
  <2> QED
    BY <2>2
<1>4. PICK n \in N : \A m \in N : n >= m
  BY <1>2, <1>3, HasGreatest
<1>5. -n \in S /\ \A y \in S : -n <= y
  BY <1>4
<1> QED
  BY <1>5 DEF Min

LEMMA MaxOfTwo ==
    ASSUME NEW a \in Int, NEW b \in Int
    PROVE  Max({a, b}) = IF a >= b THEN a ELSE b
<1>1. CASE a >= b
  BY <1>1 DEF Max
<1>2. CASE b > a
  BY <1>2 DEF Max
<1> QED
  BY <1>1, <1>2

LEMMA MinOfTwo ==
    ASSUME NEW a \in Int, NEW b \in Int
    PROVE  Min({a, b}) = IF a <= b THEN a ELSE b
<1>1. CASE a <= b
  BY <1>1 DEF Min
<1>2. CASE b < a
  BY <1>2 DEF Min
<1> QED
  BY <1>1, <1>2

\* j comes before i in the order of TopBy.
Ahead(weight, j, i) == weight[j] > weight[i] \/ (weight[j] = weight[i] /\ j < i)

LEMMA HasWorst ==
    ASSUME NEW S \in SUBSET Int, IsFiniteSet(S), S # {}, NEW w, \A i \in S : w[i] \in Int
    PROVE  \E m \in S : \A j \in S \ {m} : Ahead(w, j, m)
<1> DEFINE W == {w[i] : i \in S}
<1>1. W \in SUBSET Int /\ IsFiniteSet(W) /\ W # {}
  BY ImageFinite
<1>2. PICK k \in S : \A i \in S : w[k] <= w[i]
  <2>1. Min(W) \in W /\ \A y \in W : Min(W) <= y
    <3> HIDE DEF W
    <3> QED
      BY <1>1, MinIsLeast
  <2> QED
    BY <2>1
<1> DEFINE L == {i \in S : w[i] = w[k]}
<1>3. L \in SUBSET Int /\ IsFiniteSet(L) /\ L # {}
  BY FS_Subset
<1>4. PICK m \in L : \A i \in L : m >= i
  BY <1>3, HasGreatest
<1>5. ASSUME NEW j \in S \ {m} PROVE Ahead(w, j, m)
  <2>1. w[j] >= w[m] /\ w[j] \in Int /\ w[m] \in Int /\ j \in Int /\ m \in Int
    BY <1>2
  <2>2. w[j] = w[m] => j <= m /\ j # m
    BY <1>4
  <2> QED
    BY <2>1, <2>2 DEF Ahead
<1> QED
  BY <1>5

LEMMA TopByIsSmall ==
    ASSUME NEW I \in SUBSET Int, IsFiniteSet(I), NEW w, \A i \in I : w[i] \in Int, NEW n \in Nat
    PROVE  /\ TopBy(I, w, n) \in SUBSET I /\ IsFiniteSet(TopBy(I, w, n))
           /\ Cardinality(TopBy(I, w, n)) <= n
<1> DEFINE T == TopBy(I, w, n)
<1>1. T \in SUBSET I
  BY DEF TopBy
<1>2. IsFiniteSet(T) /\ Cardinality(T) \in Nat
  <2> HIDE DEF T
  <2> QED
    BY <1>1, FS_Subset, FS_CardinalityType
<1>3. CASE T = {}
  BY <1>1, <1>2, <1>3, FS_EmptySet
<1>4. CASE T # {}
  <2>1. PICK m \in T : \A j \in T \ {m} : Ahead(w, j, m)
    <3> HIDE DEF T
    <3> QED
      BY <1>1, <1>2, <1>4, HasWorst
  <2> DEFINE B == {j \in I : Ahead(w, j, m)}
  <2>2. Cardinality(B) < n
    BY DEF TopBy, Ahead
  <2> HIDE DEF T
  <2>3. T \ {m} \in SUBSET B
    BY <1>1, <2>1
  <2>4. IsFiniteSet(B) /\ Cardinality(B) \in Nat
    BY FS_Subset, FS_CardinalityType
  <2>5. Cardinality(T \ {m}) <= Cardinality(B)
    BY <2>3, <2>4, FS_Subset
  <2>6. Cardinality(T \ {m}) = Cardinality(T) - 1
    BY <1>2, <2>1, FS_RemoveElement
  <2>7. Cardinality(T) <= n
    BY <1>2, <2>2, <2>4, <2>5, <2>6
  <2> USE DEF T
  <2> QED
    BY <1>1, <1>2, <2>7
<1> QED
  BY <1>3, <1>4

-----------------------------------------------------------------------------
(* What is made of a model's answer.                                        *)

LEMMA Capped == ASSUME NEW n \in Nat, NEW cap \in Nat PROVE AtMost(n, cap) \in Nat /\ AtMost(n, cap) <= cap
  BY DEF AtMost

LEMMA SummaryCapped == ASSUME NEW n \in Nat PROVE AtMost(n, 4000) <= 4000
  BY Capped

LEMMA Clamped ==
    ASSUME NEW v \in Int \cup {None}, v # None
    PROVE  ClampConfidence(v) \in 0 .. Unit
<1> DEFINE w == IF Unit < v /\ v <= 100 * Unit THEN v \div 100 ELSE v
<1>1. v \in Int
  OBVIOUS
<1>2. w \in Int
  BY <1>1 DEF Unit
<1>3. ClampConfidence(v) = Max({0, Min({Unit, w})})
  BY DEF ClampConfidence
<1> HIDE DEF w
<1>4. Min({Unit, w}) = IF Unit <= w THEN Unit ELSE w
  BY <1>2, MinOfTwo DEF Unit
<1> DEFINE m == Min({Unit, w})
<1>5. m \in Int /\ m <= Unit
  BY <1>2, <1>4 DEF Unit
<1> HIDE DEF m
<1>6. Max({0, m}) = IF 0 >= m THEN 0 ELSE m
  BY <1>5, MaxOfTwo
<1>7. Max({0, m}) \in 0 .. Unit
  <2>1. CASE 0 >= m
    <3>1. Max({0, m}) = 0
      BY <1>6, <2>1
    <3> QED
      BY <3>1 DEF Unit
  <2>2. CASE ~(0 >= m)
    <3>1. Max({0, m}) = m
      BY <1>6, <2>2
    <3>2. m \in 0 .. Unit
      BY <1>5, <2>2 DEF Unit
    <3> QED
      BY <3>1, <3>2
  <2> QED
    BY <2>1, <2>2
<1> USE DEF m
<1> QED
  BY <1>3, <1>7

\* coerce_analysis: whatever a model answers within the schema, as long as a float can hold
\* its numbers, its type, numbers, texts and lists are admitted after the repair; only the
\* warning that the adapter adds for a truncated text can exceed its list, and only where
\* the model gave twenty of its own.
THEOREM AnswersRepaired ==
    ASSUME NEW r, IsResponse(r), ~Raises(r), NEW truncated \in BOOLEAN
    PROVE  LET a == Analysis(r, truncated) IN
           /\ a.kind \in Kind /\ a.confidence \in 0 .. Unit /\ a.fields \in 0 .. 100
           /\ Valid(a) \/ (truncated /\ r.warnings >= 20)
<1> DEFINE c == CoerceAnalysis(r)
           a == Analysis(r, truncated)
<1>1. /\ r.language \in Nat /\ r.summary \in Nat /\ r.keywords \in Nat
      /\ r.entities \in Nat /\ r.text \in Nat /\ r.fields \in Nat /\ r.key \in Nat /\ r.value \in Nat
      /\ r.warnings \in Nat /\ r.item \in Int \cup {None} /\ r.confidence \in Int \cup {None}
  BY DEF IsResponse
<1>2. /\ a.kind = c.kind /\ a.language = c.language /\ a.summary = c.summary /\ a.keywords = c.keywords
      /\ a.entities = c.entities /\ a.text = c.text /\ a.fields = c.fields
      /\ a.key = c.key /\ a.value = c.value /\ a.item = c.item
      /\ a.confidence = c.confidence
      /\ a.warnings = IF truncated THEN c.warnings + 1 ELSE c.warnings
  BY DEF Analysis, CoerceAnalysis
<1>3. c.kind \in Kind
  BY DEF CoerceAnalysis, Kind
<1>4. /\ c.summary <= 4000 /\ c.keywords <= 25 /\ c.entities <= 100
      /\ c.fields \in Nat /\ c.fields <= 100
      /\ c.language <= 16 /\ c.text <= 512 /\ c.key <= 128 /\ c.value <= 2048
  <2>1. AtMost(r.summary, 4000) <= 4000
    <3>1. r.summary \in Nat
      BY <1>1
    <3> QED
      BY <3>1, SummaryCapped
  <2>2. AtMost(r.keywords, 25) <= 25
    BY <1>1, Capped
  <2>3. AtMost(r.entities, 100) <= 100 /\ AtMost(r.fields, 100) \in Nat /\ AtMost(r.fields, 100) <= 100
    BY <1>1, Capped
  <2>4. AtMost(r.language, 16) <= 16 /\ AtMost(r.text, 512) <= 512
    BY <1>1 DEF AtMost
  <2>5. AtMost(r.key, 128) <= 128 /\ AtMost(r.value, 2048) <= 2048
    BY <1>1 DEF AtMost
  <2>6. /\ c.summary = AtMost(r.summary, 4000) /\ c.keywords = AtMost(r.keywords, 25)
        /\ c.entities = AtMost(r.entities, 100) /\ c.fields = AtMost(r.fields, 100)
        /\ c.language = AtMost(r.language, 16) /\ c.text = AtMost(r.text, 512)
        /\ c.key = AtMost(r.key, 128) /\ c.value = AtMost(r.value, 2048)
    BY DEF CoerceAnalysis
  <2> HIDE DEF c
  <2> QED
    BY <2>1, <2>2, <2>3, <2>4, <2>5, <2>6
<1>5. c.item = None \/ c.item \in 0 .. Unit
  <2>1. CASE r.item = None
    BY <2>1 DEF CoerceAnalysis, ClampConfidence
  <2>2. CASE r.item # None
    <3>1. ClampConfidence(r.item) \in 0 .. Unit
      BY <1>1, <2>2, Clamped
    <3> QED
      BY <3>1 DEF CoerceAnalysis
  <2> QED
    BY <2>1, <2>2
<1>6. c.confidence \in 0 .. Unit
  <2>0. c.confidence = IF ClampConfidence(r.confidence) = None THEN 0 ELSE ClampConfidence(r.confidence)
    BY DEF CoerceAnalysis
  <2>1. CASE r.confidence = None
    <3>1. ClampConfidence(r.confidence) = None
      BY <2>1 DEF ClampConfidence
    <3>2. c.confidence = 0
      BY <2>0, <3>1
    <3> QED
      BY <3>2 DEF Unit
  <2>2. CASE r.confidence # None
    <3>1. ClampConfidence(r.confidence) \in 0 .. Unit
      BY <1>1, <2>2, Clamped
    <3>2. 0 \in 0 .. Unit
      BY DEF Unit
    <3> HIDE DEF c
    <3>3. CASE ClampConfidence(r.confidence) = None
      BY <2>0, <3>2, <3>3
    <3>4. CASE ClampConfidence(r.confidence) # None
      BY <2>0, <3>1, <3>4
    <3> QED
      BY <3>3, <3>4
  <2> QED
    BY <2>1, <2>2
<1>7. c.warnings = IF r.warnings > 20 THEN 20 ELSE r.warnings
  BY DEF CoerceAnalysis, AtMost
<1> HIDE DEF a, c
<1>8. /\ a.summary <= 4000 /\ a.keywords <= 25 /\ a.entities <= 100 /\ a.fields <= 100
      /\ a.language <= 16 /\ a.text <= 512 /\ a.key <= 128 /\ a.value <= 2048
  BY <1>2, <1>4
<1>9. a.kind \in Kind /\ (a.item = None \/ a.item \in 0 .. Unit) /\ a.confidence \in 0 .. Unit
  BY <1>2, <1>3, <1>5, <1>6
<1>10. a.warnings <= 20 => Valid(a)
  BY <1>8, <1>9 DEF Valid
<1>11. Valid(a) \/ (truncated /\ r.warnings >= 20)
  <2>1. r.warnings \in Nat
    BY <1>1
  <2>2. (truncated /\ r.warnings >= 20) \/ a.warnings <= 20
    BY <1>2, <1>7, <2>1
  <2> QED
    BY <1>10, <2>2
<1>12. a.kind \in Kind /\ a.confidence \in 0 .. Unit /\ a.fields \in 0 .. 100
  BY <1>2, <1>3, <1>4, <1>6
<1> USE DEF a
<1> QED
  BY <1>11, <1>12

\* A pair may be added when a hundred are there.
LEMMA MergeBounded ==
    ASSUME NEW fields \in 0 .. 100, NEW detected \in Nat
    PROVE  MergeExtractorFields(fields, detected) \in 0 .. 101
<1>1. Max({100, fields + 1}) = IF 100 >= fields + 1 THEN 100 ELSE fields + 1
  BY MaxOfTwo
<1>2. Max({100, fields + 1}) \in 0 .. 101
  BY <1>1
<1> DEFINE cap == Max({100, fields + 1})
<1>3. cap \in 0 .. 101 /\ MergeExtractorFields(fields, detected) = AtMost(fields + detected, cap)
  BY <1>2 DEF MergeExtractorFields
<1> HIDE DEF cap
<1>4. fields + detected \in Nat /\ cap \in Nat
  BY <1>3
<1>5. AtMost(fields + detected, cap) \in Nat /\ AtMost(fields + detected, cap) <= cap
  BY <1>4, Capped
<1> QED
  BY <1>3, <1>5

-----------------------------------------------------------------------------
(* What the rules find.                                                     *)

LEMMA Classified ==
    ASSUME NEW t, IsText(t)
    PROVE  Classify(t).kind \in Kind /\ Classify(t).score \in Nat
<1> DEFINE S == {t.scores[k] : k \in DOMAIN t.scores}
           best == Max(S)
           I == {i \in DOMAIN KindOrder : t.scores[KindOrder[i]] = best}
<1>1. t.scores \in [Kind \ {"other"} -> Nat]
  BY DEF IsText
<1>2. IsFiniteSet(Kind \ {"other"})
  <2>1. DOMAIN KindOrder = 1 .. 9
    BY DEF KindOrder
  <2>2. Kind \ {"other"} = {KindOrder[i] : i \in 1 .. 9}
    BY DEF KindOrder, Kind
  <2>3. 1 \in Int /\ 9 \in Int
    OBVIOUS
  <2>4. IsFiniteSet(1 .. 9)
    BY <2>3, FS_Interval
  <2>5. IsFiniteSet({KindOrder[i] : i \in 1 .. 9})
    BY <2>4, ImageFinite
  <2> QED
    BY <2>2, <2>5
<1>3. S \in SUBSET Nat /\ IsFiniteSet(S)
  BY <1>1, <1>2, ImageFinite
<1>4. S # {}
  <2>1. t.scores["invoice"] \in S
    BY <1>1 DEF Kind
  <2> QED
    BY <2>1
<1>5. best \in S
  <2> HIDE DEF S
  <2>1. S \in SUBSET Int
    BY <1>3
  <2> QED
    BY <1>3, <1>4, <2>1, MaxIsGreatest
<1>6. PICK k \in Kind \ {"other"} : t.scores[k] = best
  BY <1>1, <1>5
<1>7. PICK i \in DOMAIN KindOrder : KindOrder[i] = k
  BY <1>6 DEF KindOrder, Kind
<1>8. I \in SUBSET (1 .. 9) /\ i \in I
  BY <1>6, <1>7 DEF KindOrder
<1>9. IsFiniteSet(I)
  <2>1. 1 \in Int /\ 9 \in Int
    OBVIOUS
  <2>2. IsFiniteSet(1 .. 9)
    BY <2>1, FS_Interval
  <2> HIDE DEF I
  <2> QED
    BY <1>8, <2>2, FS_Subset
<1>10. Min(I) \in I
  <2> HIDE DEF I
  <2>1. I \in SUBSET Int /\ I # {}
    BY <1>8
  <2> QED
    BY <1>9, <2>1, MinIsLeast
<1>11. KindOrder[Min(I)] \in Kind
  <2>1. \A j \in 1 .. 9 : KindOrder[j] \in Kind
    BY DEF KindOrder, Kind
  <2> HIDE DEF I
  <2>2. Min(I) \in 1 .. 9
    BY <1>8, <1>10
  <2> QED
    BY <2>1, <2>2
<1>12. Classify(t) = [kind |-> IF best >= 4 THEN KindOrder[Min(I)] ELSE "other", score |-> best]
  BY DEF Classify
<1>13. best \in Nat
  BY <1>3, <1>5
<1> HIDE DEF best, I, S
<1> QED
  BY <1>11, <1>12, <1>13 DEF Kind

LEMMA EntitiesBounded ==
    ASSUME NEW t, IsText(t)
    PROVE  FindEntities(t) \in 0 .. 100
<1> DEFINE A == Accepted(t)
           E == {<<m.value, m.class>> : m \in A}
           f == [m \in A |-> <<m.value, m.class>>]
<1>1. IsFiniteSet(A)
  <2>1. A \in SUBSET t.matches /\ IsFiniteSet(t.matches)
    BY DEF Accepted, Kept, IsText
  <2> QED
    BY <2>1, FS_Subset
<1>2. IsFiniteSet({f[m] : m \in A})
  <2> HIDE DEF A, f
  <2> QED
    BY <1>1, ImageFinite
<1>3. {f[m] : m \in A} = E
  OBVIOUS
<1>4. Cardinality(E) \in Nat
  <2> HIDE DEF E
  <2> QED
    BY <1>2, <1>3, FS_CardinalityType
<1>5. FindEntities(t) = AtMost(Cardinality(E), 100)
  BY DEF FindEntities
<1>6. AtMost(Cardinality(E), 100) \in Nat /\ AtMost(Cardinality(E), 100) <= 100
  <2> HIDE DEF E
  <2> QED
    BY <1>4, Capped
<1> QED
  BY <1>5, <1>6

LEMMA FieldSources ==
    ASSUME NEW t, IsText(t)
    PROVE  IsFiniteSet(Labelled(t)) /\ IsFiniteSet(Unlabelled(t))
<1>1. IsFiniteSet(t.labels) /\ Labelled(t) \in SUBSET t.labels
  BY DEF IsText, Labelled
<1>2. IsFiniteSet(AmountKey)
  <2>1. IsFiniteSet({"total_amount"}) /\ IsFiniteSet({"subtotal"}) /\ IsFiniteSet({"tax_amount"})
    BY FS_Singleton
  <2>2. IsFiniteSet({"total_amount"} \cup {"subtotal"})
    BY <2>1, FS_Union
  <2>3. IsFiniteSet(({"total_amount"} \cup {"subtotal"}) \cup {"tax_amount"})
    BY <2>1, <2>2, FS_Union
  <2>4. AmountKey = ({"total_amount"} \cup {"subtotal"}) \cup {"tax_amount"}
    BY DEF AmountKey
  <2> QED
    BY <2>3, <2>4
<1>3. Unlabelled(t) \in SUBSET AmountKey
  BY DEF IsText, Unlabelled
<1> QED
  BY <1>1, <1>2, <1>3, FS_Subset

LEMMA FieldsBounded ==
    ASSUME NEW t, IsText(t)
    PROVE  FindFields(t) \in 0 .. 100
<1> DEFINE L == Labelled(t)
           f == [l \in L |-> l.key]
           K == {l.key : l \in L}
           F == K \cup Unlabelled(t)
<1>1. IsFiniteSet({f[l] : l \in L})
  <2>1. IsFiniteSet(L)
    BY FieldSources
  <2> HIDE DEF L, f
  <2> QED
    BY <2>1, ImageFinite
<1>2. {f[l] : l \in L} = K
  OBVIOUS
<1>3. IsFiniteSet(F)
  <2> HIDE DEF K
  <2> QED
    BY <1>1, <1>2, FieldSources, FS_Union
<1>4. FindFields(t) = AtMost(Cardinality(F), 100)
  BY DEF FindFields
<1> HIDE DEF F
<1>5. Cardinality(F) \in Nat
  BY <1>3, FS_CardinalityType
<1>6. AtMost(Cardinality(F), 100) \in Nat /\ AtMost(Cardinality(F), 100) <= 100
  BY <1>5, Capped
<1> QED
  BY <1>4, <1>6

\* The greatest of some lengths is within a bound exactly if each of them is.
LEMMA LongestWithin ==
    ASSUME NEW S \in SUBSET Nat, IsFiniteSet(S), NEW bound \in Nat
    PROVE  Max({0} \cup S) \in Nat /\ (Max({0} \cup S) <= bound <=> \A n \in S : n <= bound)
<1> DEFINE T == {0} \cup S
<1>1. T \in SUBSET Int /\ T # {} /\ T \in SUBSET Nat
  OBVIOUS
<1>2. IsFiniteSet(T)
  BY FS_EmptySet, FS_AddElement, FS_Union
<1>3. S \subseteq T /\ \A n \in T : n = 0 \/ n \in S
  OBVIOUS
<1> HIDE DEF T
<1>4. Max(T) \in T /\ \A n \in T : Max(T) >= n
  BY <1>1, <1>2, MaxIsGreatest
<1> DEFINE m == Max(T)
<1>5. m \in Nat /\ (m = 0 \/ m \in S) /\ \A n \in S : m >= n
  BY <1>1, <1>3, <1>4
<1> HIDE DEF m
<1>6. m <= bound <=> \A n \in S : n <= bound
  <2>1. ASSUME m <= bound, NEW n \in S PROVE n <= bound
    BY <1>5, <2>1
  <2>2. ASSUME \A n \in S : n <= bound PROVE m <= bound
    BY <1>5, <2>2
  <2> QED
    BY <2>1, <2>2
<1> USE DEF m
<1> USE DEF T
<1> QED
  BY <1>5, <1>6

\* add: no entity is longer than the schema admits.
LEMMA TextsFit ==
    ASSUME NEW t, IsText(t)
    PROVE  Max({0} \cup {m.chars : m \in Accepted(t)}) <= 512
<1> DEFINE A == Accepted(t)
           f == [m \in A |-> m.chars]
           S == {f[m] : m \in A}
<1>1. A \in SUBSET t.matches /\ IsFiniteSet(t.matches)
  BY DEF Accepted, Kept, IsText
<1>2. \A m \in A : m.chars \in 2 .. 512
  BY DEF Accepted, Kept
<1>3. IsFiniteSet(A)
  BY <1>1, FS_Subset
<1>4. IsFiniteSet(S)
  <2> HIDE DEF A, f
  <2> QED
    BY <1>3, ImageFinite
<1>5. S \in SUBSET Nat /\ \A n \in S : n <= 512
  BY <1>2
<1>6. {m.chars : m \in A} = S
  OBVIOUS
<1> HIDE DEF S, A
<1>7. Max({0} \cup S) <= 512
  BY <1>4, <1>5, LongestWithin
<1> USE DEF A
<1> QED
  BY <1>6, <1>7

\* The values fit unless an amount does not.
LEMMA ValuesFit ==
    ASSUME NEW t, IsText(t)
    PROVE  Max({0} \cup ValueLengths(t)) <= 2048 <=> ~Overlong(t)
<1> DEFINE L == Labelled(t)
           K == Unlabelled(t)
           f == [l \in L |-> AtMost(l.chars, 2048)]
           g == [k \in K |-> t.amounts[k]]
           F == {f[l] : l \in L}
           G == {g[k] : k \in K}
           S == ValueLengths(t)
<1>1. IsFiniteSet(L) /\ IsFiniteSet(K)
  BY FieldSources
<1>2. IsFiniteSet(F)
  <2> HIDE DEF L, f
  <2> QED
    BY <1>1, ImageFinite
<1>3. IsFiniteSet(G)
  <2> HIDE DEF K, g
  <2> QED
    BY <1>1, ImageFinite
<1>4. S = F \cup G
  BY DEF ValueLengths
<1>5. ASSUME NEW l \in L PROVE f[l] \in Nat /\ f[l] <= 2048
  <2>1. l.chars \in Nat
    BY DEF Labelled, IsText
  <2> QED
    BY <2>1 DEF AtMost
<1>6. ASSUME NEW k \in K PROVE g[k] \in Nat
  BY DEF Unlabelled, IsText
<1>7. IsFiniteSet(S) /\ S \in SUBSET Nat
  <2> HIDE DEF F, G, S
  <2>1. IsFiniteSet(S)
    BY <1>2, <1>3, <1>4, FS_Union
  <2>2. F \in SUBSET Nat /\ G \in SUBSET Nat
    BY <1>5, <1>6 DEF F, G
  <2> QED
    BY <1>4, <2>1, <2>2
<1>8. (\A n \in S : n <= 2048) <=> ~Overlong(t)
  <2>1. (\A n \in S : n <= 2048) <=> \A k \in K : g[k] <= 2048
    BY <1>4, <1>5
  <2>2. Overlong(t) <=> \E k \in K : g[k] > 2048
    BY DEF Overlong
  <2> HIDE DEF K, g, S
  <2> QED
    BY <1>6, <2>1, <2>2
<1> HIDE DEF S
<1>9. Max({0} \cup S) <= 2048 <=> \A n \in S : n <= 2048
  BY <1>7, LongestWithin
<1> USE DEF S
<1> QED
  BY <1>8, <1>9

LEMMA SummaryBounded ==
    ASSUME NEW t, IsText(t)
    PROVE  Summarise(t) <= 4000
<1> DEFINE prose == {i \in DOMAIN t.sentences : t.sentences[i].tokens >= 5}
           place(i) == Cardinality({j \in prose : j < i})
           scored == {i \in prose : place(i) < 200 /\ t.sentences[i].words # {}}
           keywords == {TopKeywords(t)[k] : k \in DOMAIN TopKeywords(t)}
           weight == [i \in scored |->
               (100 * Cardinality(t.sentences[i].words \cap keywords)) \div Cardinality(t.sentences[i].words)
               + (CASE place(i) < 3 -> 35 [] place(i) \in 3 .. 7 -> 15 [] OTHER -> 0)]
           length == [i \in DOMAIN t.sentences |-> t.sentences[i].chars + 2]
           best == TopBy(scored, weight, 4)
<1>1. Summarise(t) = CASE prose = {} -> AtMost(t.chars, 403)
         [] prose # {} /\ scored = {} -> AtMost(length[Min(prose)], 400)
         [] OTHER -> AtMost(Total(length, best), 4000)
  BY DEF Summarise
<1>2. DOMAIN t.sentences \in SUBSET Nat /\ IsFiniteSet(DOMAIN t.sentences)
  <2>1. Len(t.sentences) \in Nat /\ DOMAIN t.sentences = 1 .. Len(t.sentences)
    BY DEF IsText
  <2>2. 1 \in Int /\ Len(t.sentences) \in Int
    BY <2>1
  <2>3. IsFiniteSet(1 .. Len(t.sentences))
    BY <2>2, FS_Interval
  <2> QED
    BY <2>1, <2>3
<1>3. \A i \in DOMAIN t.sentences : length[i] \in Nat
  BY DEF IsText
<1>4. prose \in SUBSET DOMAIN t.sentences /\ scored \in SUBSET DOMAIN t.sentences
  OBVIOUS
<1>5. IsFiniteSet(prose) /\ IsFiniteSet(scored)
  <2> HIDE DEF prose, scored
  <2> QED
    BY <1>2, <1>4, FS_Subset
<1>6. best \in SUBSET DOMAIN t.sentences
  BY <1>4 DEF TopBy
<1> HIDE DEF prose, scored, length, weight, best
<1>7. CASE prose = {}
  <2>1. t.chars \in Nat
    BY DEF IsText
  <2>2. AtMost(t.chars, 403) <= 403 /\ AtMost(t.chars, 403) \in Nat
    BY <2>1, Capped
  <2>3. Summarise(t) = AtMost(t.chars, 403)
    BY <1>1, <1>7
  <2> QED
    BY <2>2, <2>3
<1>8. CASE prose # {} /\ scored = {}
  <2>0. prose \in SUBSET Int
    BY <1>2, <1>4
  <2>1. Min(prose) \in prose
    BY <1>5, <1>8, <2>0, MinIsLeast
  <2>2. length[Min(prose)] \in Nat
    BY <1>3, <1>4, <2>1
  <2> DEFINE n == length[Min(prose)]
  <2>3. Summarise(t) = AtMost(n, 400)
    BY <1>1, <1>8
  <2>4. n \in Nat
    BY <2>2
  <2> HIDE DEF n
  <2>5. AtMost(n, 400) <= 400 /\ AtMost(n, 400) \in Nat
    BY <2>4, Capped
  <2> QED
    BY <2>3, <2>5
<1>9. CASE prose # {} /\ scored # {}
  <2>1. IsFiniteSet(best) /\ \A i \in best : length[i] \in Nat
    BY <1>2, <1>3, <1>6, FS_Subset
  <2>2. Total(length, best) \in Nat
    BY <2>1, TotalNat
  <2>3. Summarise(t) = AtMost(Total(length, best), 4000)
    BY <1>1, <1>9
  <2> DEFINE n == Total(length, best)
  <2> HIDE DEF n
  <2> QED
    BY <2>2, <2>3, SummaryCapped DEF n
<1> QED
  BY <1>7, <1>8, <1>9

\* "A rule-based engine should never claim the confidence of a real model."
LEMMA ConfidenceBounded ==
    ASSUME NEW t, IsText(t)
    PROVE  OverallConfidence(t) \in Nat /\ OverallConfidence(t) <= 7800
<1> DEFINE parts == 30 * 12 * AtMost(t.chars, 2000) + 30 * 2000 * AtMost(Classify(t).score, 12)
                 + 25 * 3000 * AtMost(FindFields(t), 8) + 15 * 2400 * AtMost(FindEntities(t), 10)
           share == (2 * parts + 24000) \div 48000
<1>1. parts \in Nat
  <2>1. t.chars \in Nat /\ Classify(t).score \in Nat /\ FindFields(t) \in Nat /\ FindEntities(t) \in Nat
    <3>1. t.chars \in Nat
      BY DEF IsText
    <3>2. Classify(t).score \in Nat
      BY Classified
    <3>3. FindFields(t) \in 0 .. 100 /\ FindEntities(t) \in 0 .. 100
      BY FieldsBounded, EntitiesBounded
    <3> QED
      BY <3>1, <3>2, <3>3
  <2>2. AtMost(t.chars, 2000) \in Nat
    BY <2>1 DEF AtMost
  <2>3. AtMost(Classify(t).score, 12) \in Nat
    BY <2>1 DEF AtMost
  <2>4. AtMost(FindFields(t), 8) \in Nat
    BY <2>1 DEF AtMost
  <2>5. AtMost(FindEntities(t), 10) \in Nat
    BY <2>1 DEF AtMost
  <2> QED
    BY <2>2, <2>3, <2>4, <2>5
<1>2. share \in Int
  <2> HIDE DEF parts
  <2> QED
    BY <1>1
<1>3. OverallConfidence(t) = 100 * Min({78, Max({5, share})})
  BY DEF OverallConfidence
<1> HIDE DEF share
<1> DEFINE high == Max({5, share})
<1>4. high \in Int /\ high >= 5
  <2>1. Max({5, share}) = IF 5 >= share THEN 5 ELSE share
    BY <1>2, MaxOfTwo
  <2> QED
    BY <1>2, <2>1
<1> HIDE DEF high
<1> DEFINE low == Min({78, high})
<1>5. low \in Nat /\ low <= 78
  <2>1. Min({78, high}) = IF 78 <= high THEN 78 ELSE high
    BY <1>4, MinOfTwo
  <2> QED
    BY <1>4, <2>1
<1>6. OverallConfidence(t) = 100 * low
  BY <1>3 DEF high
<1> HIDE DEF low
<1> QED
  BY <1>5, <1>6

\* heuristic.py, "a floor on quality": what the rules make of a text passes the validation
\* of the schema, items and their lengths included, exactly if no amount of the text is
\* longer than a field may be; and its confidence stays at 78 percent or below.
THEOREM RulesAreValid ==
    ASSUME NEW t, IsText(t)
    PROVE  LET a == RuleAnalysis(t) IN
           /\ Valid(a) <=> ~Overlong(t)
           /\ a.kind \in Kind /\ a.fields \in 0 .. 100
           /\ a.confidence \in Nat /\ a.confidence <= 7800
<1> DEFINE a == RuleAnalysis(t)
<1>1. /\ a.kind = Classify(t).kind /\ a.summary = Summarise(t) /\ a.keywords = Len(TopKeywords(t))
      /\ a.entities = FindEntities(t) /\ a.fields = FindFields(t)
      /\ a.text = Max({0} \cup {m.chars : m \in Accepted(t)}) /\ a.value = Max({0} \cup ValueLengths(t))
      /\ a.language = 2 /\ a.key = 128
      /\ a.confidence = OverallConfidence(t)
      /\ a.warnings = IF t.chars < 200 THEN 2 ELSE 1
  BY DEF RuleAnalysis
<1>2. Len(TopKeywords(t)) <= 25
  <2> DEFINE n == AtMost(Len(t.ranked), 12)
  <2>1. n \in Nat /\ n <= 12
    BY Capped DEF IsText
  <2>2. TopKeywords(t) = SubSeq(t.ranked, 1, n)
    BY DEF TopKeywords
  <2>3. Len(SubSeq(t.ranked, 1, n)) = n
    <3> HIDE DEF n
    <3> QED
      BY <2>1
  <2> HIDE DEF n
  <2> QED
    BY <2>1, <2>2, <2>3
<1>3. a.kind \in Kind
  BY <1>1, Classified
<1>4. a.summary <= 4000
  BY <1>1, SummaryBounded
<1>5. a.entities <= 100 /\ a.fields <= 100 /\ a.fields \in 0 .. 100
  <2>1. FindEntities(t) \in 0 .. 100 /\ FindFields(t) \in 0 .. 100
    BY EntitiesBounded, FieldsBounded
  <2>2. a.entities = FindEntities(t) /\ a.fields = FindFields(t)
    BY <1>1
  <2> HIDE DEF a
  <2>3. a.entities \in 0 .. 100 /\ a.fields \in 0 .. 100
    BY <2>1, <2>2
  <2> QED
    BY <2>3
<1>6. a.confidence \in Nat /\ a.confidence <= 7800
  BY <1>1, ConfidenceBounded
<1>7. a.keywords <= 25 /\ a.warnings <= 20
  BY <1>1, <1>2
<1>8. a.item \in 0 .. Unit
  BY DEF RuleAnalysis, Unit
<1>9. a.confidence \in 0 .. Unit
  <2>1. Unit \in Nat /\ 7800 <= Unit
    BY DEF Unit
  <2> QED
    BY <1>6, <2>1
<1> HIDE DEF a
<1>10. a.text <= 512 /\ a.language <= 16 /\ a.key <= 128 /\ (a.value <= 2048 <=> ~Overlong(t))
  <2>1. a.text <= 512
    BY <1>1, TextsFit
  <2>2. a.value <= 2048 <=> ~Overlong(t)
    BY <1>1, ValuesFit
  <2> QED
    BY <1>1, <2>1, <2>2
<1>11. Valid(a) <=> ~Overlong(t)
  BY <1>3, <1>4, <1>5, <1>7, <1>8, <1>9, <1>10 DEF Valid
<1> USE DEF a
<1> QED
  BY <1>3, <1>5, <1>6, <1>11

-----------------------------------------------------------------------------
(* Division: the quotient is the number q with b * q <= a < b * (q + 1).    *)

LEMMA Division ==
    ASSUME NEW a \in Int, NEW b \in Nat, b # 0
    PROVE  a \div b \in Int /\ b * (a \div b) <= a /\ a < b * (a \div b) + b
  OBVIOUS

LEMMA Monotone == ASSUME NEW h \in Nat, NEW m \in Int, NEW n \in Int, m <= n PROVE h * m <= h * n
  OBVIOUS

\* A passage that clears the threshold has more than a quarter of the question's words.
LEMMA ThresholdCounts ==
    ASSUME NEW hits \in Nat, hits > 0, NEW size \in Nat, size > 0, NEW bonus \in Nat, bonus <= 1500,
           (hits * (Unit + bonus)) \div size >= 3400
    PROVE  4 * hits > size
<1> DEFINE d == hits * (Unit + bonus)
<1>1. Unit = 10000
  BY DEF Unit
<1>2. d \in Nat /\ d <= hits * 11500
  BY <1>1
<1> HIDE DEF d
<1>3. d \div size \in Int /\ size * (d \div size) <= d
  BY <1>2, Division
<1>4. d \div size >= 3400
  BY DEF d
<1>5. size * 3400 <= size * (d \div size)
  BY <1>3, <1>4, Monotone
<1> DEFINE e == size * (d \div size)
<1>6. e \in Int
  BY <1>3
<1> HIDE DEF e
<1>7. size * 3400 <= e /\ e <= d
  BY <1>3, <1>5 DEF e
<1>8. size * 3400 <= hits * 11500
  BY <1>2, <1>6, <1>7
<1> QED
  BY <1>8

\* answer_question: the rules answer a question only with one to three quotes, one of
\* which has more than a quarter of the words of the question, whatever the text.
THEOREM AnswersHold ==
    ASSUME NEW t, IsText(t), NEW question, IsFiniteSet(question), Answer(t, question).found
    PROVE  /\ Cardinality(Answer(t, question).quotes) \in 1 .. 3
           /\ \E i \in Answer(t, question).quotes :
                 4 * Cardinality(t.sentences[i].words \cap question) > Cardinality(question)
<1> DEFINE hits(i) == Cardinality(t.sentences[i].words \cap question)
           bonus(i) == IF Cardinality(t.sentences[i].words) <= 20 THEN 1500
                       ELSE 30000 \div Cardinality(t.sentences[i].words)
           I == {k \in DOMAIN t.sentences : hits(k) > 0}
           density == Density(t, question)
           quotes == TopBy(I, density, 3)
<1>1. /\ DOMAIN density = I
      /\ \A i \in I : density[i] = (hits(i) * (Unit + bonus(i))) \div Cardinality(question)
  BY DEF Density
<1>2. Answer(t, question).quotes = quotes /\ \E i \in quotes : density[i] >= 3400
  <2>1. DOMAIN density = I
    BY <1>1
  <2> HIDE DEF I
  <2>2. Answer(t, question) = [blank |-> FALSE, found |-> \E i \in TopBy(DOMAIN density, density, 3) : density[i] >= 3400,
                               quotes |-> TopBy(DOMAIN density, density, 3)]
    BY DEF Answer
  <2> HIDE DEF density
  <2> QED
    BY <2>1, <2>2
<1>3. I \in SUBSET Int /\ IsFiniteSet(I)
  <2>1. Len(t.sentences) \in Nat /\ DOMAIN t.sentences = 1 .. Len(t.sentences)
    BY DEF IsText
  <2>2. 1 \in Int /\ Len(t.sentences) \in Int
    BY <2>1
  <2>3. IsFiniteSet(1 .. Len(t.sentences))
    BY <2>2, FS_Interval
  <2>4. I \in SUBSET (1 .. Len(t.sentences))
    BY <2>1
  <2> HIDE DEF I
  <2>5. IsFiniteSet(I)
    BY <2>3, <2>4, FS_Subset
  <2>6. I \in SUBSET Int
    BY <2>4
  <2> QED
    BY <2>5, <2>6
<1>4. ASSUME NEW i \in I
      PROVE  /\ hits(i) \in Nat /\ hits(i) > 0 /\ bonus(i) \in Nat /\ bonus(i) <= 1500
             /\ Cardinality(question) \in Nat /\ Cardinality(question) > 0
  <2>1. IsFiniteSet(t.sentences[i].words)
    BY DEF IsText
  <2> DEFINE words == t.sentences[i].words
  <2>2. Cardinality(words) \in Nat /\ Cardinality(question) \in Nat
    BY <2>1, FS_CardinalityType
  <2> HIDE DEF words
  <2>3. IsFiniteSet(words \cap question) /\ Cardinality(words \cap question) <= Cardinality(question)
        /\ Cardinality(words \cap question) \in Nat
    BY FS_Intersection, FS_CardinalityType
  <2>4. hits(i) = Cardinality(words \cap question) /\ hits(i) > 0
    BY DEF words
  <2>5. bonus(i) = IF Cardinality(words) <= 20 THEN 1500 ELSE 30000 \div Cardinality(words)
    BY DEF words
  <2>6. CASE Cardinality(words) <= 20
    BY <2>2, <2>3, <2>4, <2>5, <2>6
  <2>7. CASE Cardinality(words) > 20
    <3> DEFINE c == Cardinality(words)
    <3>1. c \in Nat /\ c > 20
      BY <2>2, <2>7
    <3>2. bonus(i) = 30000 \div c
      BY <2>2, <2>5, <2>7
    <3> HIDE DEF c
    <3>3. 30000 \div c \in Nat /\ 30000 \div c <= 1500
      BY <3>1
    <3> QED
      BY <2>2, <2>3, <2>4, <3>2, <3>3
  <2> QED
    BY <2>2, <2>6, <2>7
<1>5. \A i \in I : density[i] \in Int
  <2> SUFFICES ASSUME NEW i \in I PROVE density[i] \in Int
    OBVIOUS
  <2> DEFINE d == hits(i) * (Unit + bonus(i))
  <2>1. Unit \in Nat
    BY DEF Unit
  <2>2. d \in Int /\ Cardinality(question) \in Nat /\ Cardinality(question) # 0
    <3> DEFINE h == hits(i)
               b == bonus(i)
               n == Cardinality(question)
    <3>1. h \in Nat /\ b \in Nat /\ n \in Nat /\ n > 0
      BY <1>4
    <3> HIDE DEF h, b, n
    <3>2. h * (Unit + b) \in Int /\ n # 0
      BY <2>1, <3>1
    <3> USE DEF h, b, n
    <3> QED
      BY <3>1, <3>2
  <2>3. density[i] = d \div Cardinality(question)
    BY <1>1
  <2> HIDE DEF d
  <2>4. d \div Cardinality(question) \in Int
    BY <2>2, Division
  <2> QED
    BY <2>3, <2>4
<1>6. quotes \in SUBSET I /\ IsFiniteSet(quotes) /\ Cardinality(quotes) <= 3
  <2> HIDE DEF I, density
  <2> QED
    BY <1>3, <1>5, TopByIsSmall
<1>7. PICK i \in quotes : density[i] >= 3400
  BY <1>2
<1>8. 4 * hits(i) > Cardinality(question)
  <2>1. i \in I
    BY <1>6, <1>7
  <2> DEFINE h == hits(i)
             b == bonus(i)
             n == Cardinality(question)
  <2>2. (h * (Unit + b)) \div n >= 3400
    BY <1>1, <1>7, <2>1
  <2>3. h \in Nat /\ h > 0 /\ b \in Nat /\ b <= 1500 /\ n \in Nat /\ n > 0
    BY <1>4, <2>1
  <2>4. 4 * h > n
    <3> HIDE DEF h, b, n
    <3> QED
      BY <2>2, <2>3, ThresholdCounts
  <2> QED
    BY <2>4
<1>9. Cardinality(quotes) \in 1 .. 3
  <2> HIDE DEF quotes
  <2>1. Cardinality(quotes) \in Nat /\ Cardinality(quotes) # 0
    BY <1>6, <1>7, FS_CardinalityType, FS_EmptySet
  <2> QED
    BY <1>6, <2>1
<1>10. Answer(t, question).quotes = quotes
  BY <1>2
<1> HIDE DEF quotes
<1>11. \E k \in quotes : 4 * Cardinality(t.sentences[k].words \cap question) > Cardinality(question)
  <2>1. 4 * Cardinality(t.sentences[i].words \cap question) > Cardinality(question)
    BY <1>8
  <2> WITNESS i \in quotes
  <2> QED
    BY <2>1
<1> QED
  BY <1>9, <1>10, <1>11
=============================================================================
