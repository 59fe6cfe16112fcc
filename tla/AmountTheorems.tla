--------------------------- MODULE AmountTheorems ---------------------------
(***************************************************************************)
(* Facts that the proofs about the amounts of a quote rest on.  First of   *)
(* numbers: sums over finite sets, the arithmetic of reduced fractions,    *)
(* and powers of ten.  Then of each operator along the way of a request:   *)
(* the fees (CalculatedFees), the samples (SamplesAreTyped), the fills of  *)
(* a route (PathIsCovered), its orders in both cases (QuoteInfoIsWorse),   *)
(* and the steps of its transaction, balance by balance.  Every sum and    *)
(* every fold is taken apart by an instance of FoldTheorems.               *)
(***************************************************************************)
EXTENDS QuoteAmounts, FiniteSetTheorems, SequenceTheorems, WellFoundedInduction, TLAPS

-----------------------------------------------------------------------------
(* Sums.                                                                       *)

First(s) == CHOOSE x \in s : TRUE
AddTerm(f, x, sum) == f[x] + sum
Sums == INSTANCE FoldTheorems WITH Op <- AddTerm, Choose <- First

(* A set of subsets of a finite set has a minimal one, if any.                 *)
LEMMA MinimalSubset ==
    ASSUME NEW S, IsFiniteSet(S), NEW B \in SUBSET (SUBSET S), B # {}
    PROVE  \E T \in B : \A U \in B : U \subseteq T => U = T
<1>1. IsWellFoundedOn(StrictSubsetOrdering(S), SUBSET S)
  BY FS_StrictSubsetOrderingWellFounded, FS_FiniteSubsetsOfFinite
<1>2. PICK T \in B : \A U \in B : ~ (<<U, T>> \in StrictSubsetOrdering(S))
  BY <1>1, WFMin
<1>. QED  BY <1>2 DEF StrictSubsetOrdering

(* A sum over a set is a fold.                                               *)
LEMMA SumIsFold ==
    ASSUME NEW f, NEW S
    PROVE  SumFunctionOnSet(f, S) = Sums!Fold(f, 0, S)
BY DEF SumFunctionOnSet, FoldFunctionOnSet, MapThenFoldSet, Sums!Fold, Sums!AreFolds, First, AddTerm

(* The elements of a finite set are taken off one by one.                    *)
LEMMA HasFirsts ==
    ASSUME NEW S, IsFiniteSet(S)
    PROVE  Sums!HasMinima(S) /\ Sums!Chooses(S)
<1>1. Sums!HasMinima(S)
  BY MinimalSubset DEF Sums!HasMinima
<1>2. Sums!Chooses(S)
  BY DEF Sums!Chooses, First
<1>. QED  BY <1>1, <1>2

(* The sum over a finite set is one of its terms and the sum of the others.  *)
LEMMA SumUnfolds ==
    ASSUME NEW f, NEW S, IsFiniteSet(S)
    PROVE  SumFunctionOnSet(f, S) =
             IF S = {} THEN 0 ELSE f[First(S)] + SumFunctionOnSet(f, S \ {First(S)})
<1>1. Sums!HasMinima(S) /\ Sums!Chooses(S)
  BY HasFirsts
<1>2. Sums!Fold(f, 0, S) = IF S = {} THEN 0 ELSE AddTerm(f, First(S), Sums!Fold(f, 0, S \ {First(S)}))
  BY <1>1, Sums!FoldUnfolds
<1>. QED  BY <1>2, SumIsFold DEF AddTerm

(* The sum over no terms is 0.                                               *)
LEMMA SumOfNothing == \A f : SumFunctionOnSet(f, {}) = 0
BY SumUnfolds, FS_EmptySet

(* A sum of integers is an integer, and of natural numbers a natural one.    *)
LEMMA SumIsInt ==
    ASSUME NEW f, NEW S, IsFiniteSet(S), \A x \in S : f[x] \in Int
    PROVE  SumFunctionOnSet(f, S) \in Int
<1>1. \A x \in S, y \in Int : AddTerm(f, x, y) \in Int
  BY DEF AddTerm
<1>2. Sums!HasMinima(S) /\ Sums!Chooses(S) /\ 0 \in Int
  BY HasFirsts
<1>3. Sums!Fold(f, 0, S) \in Int
  BY <1>1, <1>2, Sums!FoldIsWithin
<1>. QED  BY <1>3, SumIsFold

LEMMA SumIsNat ==
    ASSUME NEW f, NEW S, IsFiniteSet(S), \A x \in S : f[x] \in Nat
    PROVE  SumFunctionOnSet(f, S) \in Nat
<1>1. \A x \in S, y \in Nat : AddTerm(f, x, y) \in Nat
  BY DEF AddTerm
<1>2. Sums!HasMinima(S) /\ Sums!Chooses(S) /\ 0 \in Nat
  BY HasFirsts
<1>3. Sums!Fold(f, 0, S) \in Nat
  BY <1>1, <1>2, Sums!FoldIsWithin
<1>. QED  BY <1>3, SumIsFold

(* It does not matter which summand is taken first.                            *)
LEMMA SumWithout ==
    ASSUME NEW f, NEW S, IsFiniteSet(S), \A y \in S : f[y] \in Int, NEW x \in S
    PROVE  SumFunctionOnSet(f, S) = f[x] + SumFunctionOnSet(f, S \ {x})
<1>. DEFINE B == {T \in SUBSET S : \E y \in T : SumFunctionOnSet(f, T) # f[y] + SumFunctionOnSet(f, T \ {y})}
<1>1. ASSUME B # {} PROVE FALSE
  <2>1. PICK T \in B : \A U \in B : U \subseteq T => U = T
    <3>1. B \in SUBSET (SUBSET S)
      OBVIOUS
    <3>. HIDE DEF B
    <3>. QED  BY <1>1, <3>1, MinimalSubset
  <2>2. T \in SUBSET S /\ IsFiniteSet(T)
    BY FS_Subset
  <2>3. PICK y \in T : SumFunctionOnSet(f, T) # f[y] + SumFunctionOnSet(f, T \ {y})
    BY <2>1
  <2>. DEFINE p == First(T)
              W == T \ {p, y}
  <2>4. p \in T
    BY <2>3 DEF First
  <2>5. SumFunctionOnSet(f, T) = f[p] + SumFunctionOnSet(f, T \ {p})
    BY <2>2, <2>3, SumUnfolds
  <2>6. p # y
    BY <2>3, <2>5
  <2>7. T \ {p} \notin B /\ T \ {y} \notin B
    BY <2>1, <2>4
  <2>. HIDE DEF p
  <2>8. SumFunctionOnSet(f, T \ {p}) = f[y] + SumFunctionOnSet(f, (T \ {p}) \ {y})
    BY <2>2, <2>6, <2>7
  <2>9. SumFunctionOnSet(f, T \ {y}) = f[p] + SumFunctionOnSet(f, (T \ {y}) \ {p})
    BY <2>2, <2>4, <2>6, <2>7
  <2>10. /\ SumFunctionOnSet(f, T \ {p}) = f[y] + SumFunctionOnSet(f, W)
         /\ SumFunctionOnSet(f, T \ {y}) = f[p] + SumFunctionOnSet(f, W)
    <3>1. (T \ {p}) \ {y} = W /\ (T \ {y}) \ {p} = W
      OBVIOUS
    <3>. QED  BY <2>8, <2>9, <3>1
  <2>11. f[p] \in Int /\ f[y] \in Int /\ SumFunctionOnSet(f, W) \in Int
    <3>1. W \in SUBSET S
      BY <2>2
    <3>. HIDE DEF W
    <3>2. IsFiniteSet(W)
      BY <3>1, FS_Subset
    <3>3. SumFunctionOnSet(f, W) \in Int
      BY <3>1, <3>2, SumIsInt
    <3>. QED  BY <2>2, <2>4, <3>3
  <2>. HIDE DEF W, B
  <2>. QED  BY <2>3, <2>5, <2>10, <2>11, SMT
<1>. QED  BY <1>1

(* The sum of one term is the term.                                          *)
LEMMA SumOfOne ==
    ASSUME NEW f, NEW x, f[x] \in Int
    PROVE  SumFunctionOnSet(f, {x}) = f[x]
<1>1. IsFiniteSet({x}) /\ {x} \ {x} = {}
  BY FS_Singleton
<1>2. SumFunctionOnSet(f, {x}) = f[x] + SumFunctionOnSet(f, {})
  BY <1>1, SumWithout
<1>. QED  BY <1>2, SumOfNothing

(* A term of a sum of natural numbers is at most the sum.                    *)
LEMMA SumHasPart ==
    ASSUME NEW f, NEW S, IsFiniteSet(S), \A y \in S : f[y] \in Nat, NEW x \in S
    PROVE  f[x] <= SumFunctionOnSet(f, S)
<1>1. SumFunctionOnSet(f, S) = f[x] + SumFunctionOnSet(f, S \ {x})
  BY SumWithout
<1>2. SumFunctionOnSet(f, S \ {x}) \in Nat
  <2>1. IsFiniteSet(S \ {x})
    BY FS_Subset
  <2>. QED  BY <2>1, SumIsNat
<1>. QED  BY <1>1, <1>2

(* Sums of the same terms are the same.                                      *)
LEMMA SumAgrees ==
    ASSUME NEW f, NEW g, NEW S, IsFiniteSet(S), \A x \in S : f[x] = g[x]
    PROVE  SumFunctionOnSet(f, S) = SumFunctionOnSet(g, S)
<1>. DEFINE B == {T \in SUBSET S : SumFunctionOnSet(f, T) # SumFunctionOnSet(g, T)}
<1>1. ASSUME B # {} PROVE FALSE
  <2>1. PICK T \in B : \A U \in B : U \subseteq T => U = T
    <3>1. B \in SUBSET (SUBSET S)
      OBVIOUS
    <3>. HIDE DEF B
    <3>. QED  BY <1>1, <3>1, MinimalSubset
  <2>2. T \in SUBSET S /\ IsFiniteSet(T)
    BY FS_Subset
  <2>3. T # {}
    BY <2>1, SumOfNothing
  <2>4. First(T) \in T
    BY <2>3 DEF First
  <2>5. SumFunctionOnSet(f, T \ {First(T)}) = SumFunctionOnSet(g, T \ {First(T)})
    BY <2>1, <2>2, <2>4
  <2>6. /\ SumFunctionOnSet(f, T) = f[First(T)] + SumFunctionOnSet(f, T \ {First(T)})
        /\ SumFunctionOnSet(g, T) = g[First(T)] + SumFunctionOnSet(g, T \ {First(T)})
    BY <2>2, <2>3, SumUnfolds
  <2>7. f[First(T)] = g[First(T)]
    BY <2>2, <2>4
  <2>. QED  BY <2>1, <2>5, <2>6, <2>7
<1>. QED  BY <1>1

(* A sum of zeros is 0.                                                      *)
LEMMA SumOfZeros ==
    ASSUME NEW f, NEW S, IsFiniteSet(S), \A x \in S : f[x] = 0
    PROVE  SumFunctionOnSet(f, S) = 0
<1>. DEFINE B == {T \in SUBSET S : SumFunctionOnSet(f, T) # 0}
<1>1. ASSUME B # {} PROVE FALSE
  <2>1. PICK T \in B : \A U \in B : U \subseteq T => U = T
    <3>1. B \in SUBSET (SUBSET S)
      OBVIOUS
    <3>. HIDE DEF B
    <3>. QED  BY <1>1, <3>1, MinimalSubset
  <2>2. T \in SUBSET S /\ IsFiniteSet(T)
    BY FS_Subset
  <2>3. T # {}
    BY <2>1, SumOfNothing
  <2>4. First(T) \in T
    BY <2>3 DEF First
  <2>5. SumFunctionOnSet(f, T \ {First(T)}) = 0
    BY <2>1, <2>2, <2>4
  <2>6. SumFunctionOnSet(f, T) = f[First(T)] + SumFunctionOnSet(f, T \ {First(T)})
    BY <2>2, <2>3, SumUnfolds
  <2>7. f[First(T)] = 0
    BY <2>2, <2>4
  <2>. QED  BY <2>1, <2>5, <2>6, <2>7
<1>. QED  BY <1>1

(* The sum over two disjoint sets is the sum over one plus the sum over the  *)
(* other.                                                                    *)
LEMMA SumOfUnion ==
    ASSUME NEW f, NEW S, NEW R, IsFiniteSet(S), IsFiniteSet(R), S \cap R = {},
           \A x \in S \cup R : f[x] \in Int
    PROVE  SumFunctionOnSet(f, S \cup R) = SumFunctionOnSet(f, S) + SumFunctionOnSet(f, R)
<1>. DEFINE B == {T \in SUBSET R : SumFunctionOnSet(f, S \cup T) # SumFunctionOnSet(f, S) + SumFunctionOnSet(f, T)}
<1>0. SumFunctionOnSet(f, S) \in Int
  BY SumIsInt
<1>1. ASSUME B # {} PROVE FALSE
  <2>1. PICK T \in B : \A U \in B : U \subseteq T => U = T
    <3>1. B \in SUBSET (SUBSET R)
      OBVIOUS
    <3>. HIDE DEF B
    <3>. QED  BY <1>1, <3>1, MinimalSubset
  <2>2. T \in SUBSET R /\ IsFiniteSet(T) /\ IsFiniteSet(S \cup T)
    <3>1. T \in SUBSET R
      BY <2>1
    <3>2. IsFiniteSet(T)
      BY <3>1, FS_Subset
    <3>3. IsFiniteSet(S \cup T)
      BY <3>2, FS_Union
    <3>. QED  BY <3>1, <3>2, <3>3
  <2>3. T # {}
    <3>. SUFFICES ASSUME T = {} PROVE FALSE
      OBVIOUS
    <3>1. S \cup T = S
      OBVIOUS
    <3>2. SumFunctionOnSet(f, T) = 0
      BY SumOfNothing
    <3>. QED  BY <1>0, <2>1, <3>1, <3>2
  <2>4. PICK x \in T : TRUE
    BY <2>3
  <2>. DEFINE U == T \ {x}
  <2>5. U \in SUBSET R /\ U \notin B
    BY <2>1, <2>2, <2>4
  <2>6. SumFunctionOnSet(f, S \cup U) = SumFunctionOnSet(f, S) + SumFunctionOnSet(f, U)
    BY <2>5
  <2>7. SumFunctionOnSet(f, T) = f[x] + SumFunctionOnSet(f, U)
    BY <2>2, <2>4, SumWithout
  <2>8. SumFunctionOnSet(f, S \cup T) = f[x] + SumFunctionOnSet(f, S \cup U)
    <3>1. (S \cup T) \ {x} = S \cup U
      BY <2>2, <2>4
    <3>2. x \in S \cup T
      BY <2>4
    <3>3. \A y \in S \cup T : f[y] \in Int
      BY <2>2
    <3>4. SumFunctionOnSet(f, S \cup T) = f[x] + SumFunctionOnSet(f, (S \cup T) \ {x})
      BY <2>2, <3>2, <3>3, SumWithout
    <3>. QED  BY <3>1, <3>4
  <2>9. f[x] \in Int /\ SumFunctionOnSet(f, U) \in Int
    <3>1. IsFiniteSet(U)
      BY <2>2, FS_Subset
    <3>2. \A y \in U : f[y] \in Int
      BY <2>2
    <3>3. SumFunctionOnSet(f, U) \in Int
      BY <3>1, <3>2, SumIsInt
    <3>. QED  BY <2>2, <2>4, <3>3
  <2>10. SumFunctionOnSet(f, S \cup T) # SumFunctionOnSet(f, S) + SumFunctionOnSet(f, T)
    BY <2>1
  <2>. HIDE DEF B, U
  <2>. QED  BY <1>0, <2>6, <2>7, <2>8, <2>9, <2>10
<1>2. R \notin B
  BY <1>1
<1>. QED  BY <1>2

(* A linear bound on the terms is one on the sums.                             *)
LEMMA SumsAreBounded ==
    ASSUME NEW f, NEW g, NEW S, IsFiniteSet(S), \A x \in S : f[x] \in Int, \A x \in S : g[x] \in Int,
           NEW a \in Int, NEW b \in Int, NEW c \in Int, \A x \in S : a * f[x] <= b * g[x] + c
    PROVE  a * SumFunctionOnSet(f, S) <= b * SumFunctionOnSet(g, S) + c * Cardinality(S)
<1>. DEFINE F(T) == SumFunctionOnSet(f, T)
            G(T) == SumFunctionOnSet(g, T)
            C(T) == Cardinality(T)
            Bound(T) == a * F(T) <= b * G(T) + c * C(T)
            B == {T \in SUBSET S : ~ Bound(T)}
<1>0. \A T \in SUBSET S : IsFiniteSet(T) /\ F(T) \in Int /\ G(T) \in Int /\ C(T) \in Nat
  <2>. SUFFICES ASSUME NEW T \in SUBSET S PROVE IsFiniteSet(T) /\ F(T) \in Int /\ G(T) \in Int /\ C(T) \in Nat
    OBVIOUS
  <2>1. IsFiniteSet(T)
    BY FS_Subset
  <2>2. (\A x \in T : f[x] \in Int) /\ (\A x \in T : g[x] \in Int)
    OBVIOUS
  <2>. QED  BY <2>1, <2>2, SumIsInt, FS_CardinalityType
<1>1. ASSUME B # {} PROVE FALSE
  <2>1. PICK T \in B : \A U \in B : U \subseteq T => U = T
    <3>1. B \in SUBSET (SUBSET S)
      OBVIOUS
    <3>. HIDE DEF B
    <3>. QED  BY <1>1, <3>1, MinimalSubset
  <2>2. T \in SUBSET S /\ IsFiniteSet(T) /\ ~ Bound(T)
    BY <1>0, <2>1
  <2>3. T # {}
    <3>. SUFFICES ASSUME T = {} PROVE FALSE
      OBVIOUS
    <3>1. F(T) = 0 /\ G(T) = 0 /\ C(T) = 0
      BY SumOfNothing, FS_EmptySet
    <3>. HIDE DEF F, G, C, B
    <3>. QED  BY <2>2, <3>1
  <2>4. PICK x \in T : TRUE
    BY <2>3
  <2>. DEFINE U == T \ {x}
  <2>5. U \in SUBSET S /\ Bound(U)
    <3>1. U \in SUBSET S /\ U \notin B
      BY <2>1, <2>2, <2>4
    <3>. HIDE DEF U, F, G, C
    <3>. QED  BY <3>1
  <2>6. F(T) = f[x] + F(U) /\ G(T) = g[x] + G(U) /\ C(T) = C(U) + 1
    <3>1. (\A y \in T : f[y] \in Int) /\ (\A y \in T : g[y] \in Int)
      BY <2>2
    <3>2. F(T) = f[x] + F(U) /\ G(T) = g[x] + G(U)
      BY <2>2, <2>4, <3>1, SumWithout
    <3>3. C(T) = C(U) + 1
      <4>1. T = U \cup {x} /\ x \notin U /\ IsFiniteSet(U)
        BY <1>0, <2>4, <2>5
      <4>. HIDE DEF U
      <4>2. Cardinality(U \cup {x}) = Cardinality(U) + 1
        BY <4>1, FS_AddElement
      <4>. QED  BY <4>1, <4>2
    <3>. QED  BY <3>2, <3>3
  <2>7. f[x] \in Int /\ g[x] \in Int /\ a * f[x] <= b * g[x] + c
    BY <2>2, <2>4
  <2>8. F(U) \in Int /\ G(U) \in Int /\ C(U) \in Nat
    BY <1>0, <2>5
  <2>. DEFINE p == f[x]
              q == g[x]
              u == F(U)
              v == G(U)
              k == C(U)
  <2>9. a * (p + u) <= b * (q + v) + c * (k + 1)
    <3>1. a * u <= b * v + c * k /\ a * p <= b * q + c
      BY <2>5, <2>7
    <3>2. p \in Int /\ q \in Int /\ u \in Int /\ v \in Int /\ k \in Int
      BY <2>7, <2>8
    <3>. HIDE DEF p, q, u, v, k
    <3>3. a * (p + u) = a * p + a * u /\ b * (q + v) = b * q + b * v /\ c * (k + 1) = c * k + c
      BY <3>2
    <3>4. a * p \in Int /\ a * u \in Int /\ b * q \in Int /\ b * v \in Int /\ c * k \in Int
      BY <3>2
    <3>. QED  BY <3>1, <3>3, <3>4
  <2>. HIDE DEF F, G, C, U, B
  <2>. QED  BY <2>2, <2>6, <2>9
<1>2. Bound(S)
  <2>1. S \notin B
    BY <1>1
  <2>. HIDE DEF F, G, C
  <2>. QED  BY <2>1
<1>. QED  BY <1>2

(* Summing by group and then over the groups is summing over all.              *)
LEMMA SumByGroup ==
    ASSUME NEW f, NEW S, IsFiniteSet(S), \A x \in S : f[x] \in Int, NEW r
    PROVE  LET group(y) == {x \in S : r[x] = y}
               groups == [y \in {r[x] : x \in S} |-> SumFunctionOnSet(f, group(y))]
           IN  /\ SumFunction(groups) = SumFunctionOnSet(f, S)
               /\ IsFiniteSet({r[x] : x \in S})
<1>. DEFINE group(y) == {x \in S : r[x] = y}
            R == {r[x] : x \in S}
            groups == [y \in R |-> SumFunctionOnSet(f, group(y))]
            all(T) == {x \in S : r[x] \in T}
            B == {T \in SUBSET R : SumFunctionOnSet(groups, T) # SumFunctionOnSet(f, all(T))}
<1>1. IsFiniteSet(R)
  <2>1. [x \in S |-> r[x]] \in Surjection(S, R)
    BY DEF Surjection
  <2>. QED  BY <2>1, FS_Surjection
<1>2. \A T \in SUBSET S : IsFiniteSet(T) /\ SumFunctionOnSet(f, T) \in Int
  <2>. SUFFICES ASSUME NEW T \in SUBSET S PROVE IsFiniteSet(T) /\ SumFunctionOnSet(f, T) \in Int
    OBVIOUS
  <2>1. IsFiniteSet(T)
    BY FS_Subset
  <2>. QED  BY <2>1, SumIsInt
<1>3. \A y \in R : groups[y] = SumFunctionOnSet(f, group(y)) /\ groups[y] \in Int
  BY <1>2
<1>4. DOMAIN groups = R
  OBVIOUS
<1>. HIDE DEF groups, R
<1>5. ASSUME B # {} PROVE FALSE
  <2>1. PICK T \in B : \A U \in B : U \subseteq T => U = T
    <3>1. B \in SUBSET (SUBSET R)
      OBVIOUS
    <3>. HIDE DEF B
    <3>. QED  BY <1>1, <1>5, <3>1, MinimalSubset
  <2>2. T \in SUBSET R /\ IsFiniteSet(T)
    BY <1>1, FS_Subset
  <2>3. T # {}
    <3>. SUFFICES ASSUME T = {} PROVE FALSE
      OBVIOUS
    <3>1. all(T) = {}
      OBVIOUS
    <3>2. SumFunctionOnSet(f, all(T)) = 0 /\ SumFunctionOnSet(groups, T) = 0
      BY <3>1, SumOfNothing
    <3>. QED  BY <2>1, <3>2
  <2>4. PICK y \in T : TRUE
    BY <2>3
  <2>. DEFINE U == T \ {y}
  <2>5. SumFunctionOnSet(groups, U) = SumFunctionOnSet(f, all(U))
    BY <2>1, <2>2, <2>4
  <2>6. SumFunctionOnSet(groups, T) = groups[y] + SumFunctionOnSet(groups, U)
    <3>1. \A z \in T : groups[z] \in Int
      BY <1>3, <2>2
    <3>. HIDE DEF B
    <3>. QED  BY <2>2, <3>1, SumWithout
  <2>7. all(T) = group(y) \cup all(U) /\ group(y) \cap all(U) = {}
    BY <2>4
  <2>8. group(y) \in SUBSET S /\ all(U) \in SUBSET S
    OBVIOUS
  <2>9. SumFunctionOnSet(f, all(T)) = SumFunctionOnSet(f, group(y)) + SumFunctionOnSet(f, all(U))
    <3>. HIDE DEF group, all
    <3>1. \A x \in group(y) \cup all(U) : f[x] \in Int
      BY <2>8
    <3>2. IsFiniteSet(group(y)) /\ IsFiniteSet(all(U))
      BY <1>2, <2>8
    <3>. HIDE DEF B, U
    <3>3. SumFunctionOnSet(f, group(y) \cup all(U))
            = SumFunctionOnSet(f, group(y)) + SumFunctionOnSet(f, all(U))
      BY <2>7, <3>1, <3>2, SumOfUnion
    <3>. QED  BY <2>7, <3>3
  <2>10. groups[y] = SumFunctionOnSet(f, group(y))
    BY <1>3, <2>2, <2>4
  <2>11. SumFunctionOnSet(groups, T) # SumFunctionOnSet(f, all(T))
    BY <2>1
  <2>. HIDE DEF B, U, group, all
  <2>. QED  BY <2>5, <2>6, <2>9, <2>10, <2>11
<1>6. all(R) = S
  BY DEF R
<1>7. SumFunctionOnSet(groups, R) = SumFunctionOnSet(f, S)
  BY <1>5, <1>6
<1>8. SumFunction(groups) = SumFunctionOnSet(f, S)
  BY <1>4, <1>7 DEF SumFunction
<1>. QED  BY <1>1, <1>8 DEF groups, R
-----------------------------------------------------------------------------
(* Induction, for a set in place of a predicate.                               *)

LEMMA StrongInduction ==
    ASSUME NEW T, \A n \in Nat : (\A m \in Nat : m < n => m \in T) => n \in T
    PROVE  Nat \subseteq T
<1>. DEFINE B == Nat \ T
<1>1. ASSUME B # {} PROVE FALSE
  <2>1. PICK n \in B : \A m \in B : ~ (<<m, n>> \in OpToRel(<, Nat))
    <3>1. B \subseteq Nat
      OBVIOUS
    <3>. HIDE DEF B
    <3>. QED  BY <1>1, <3>1, NatLessThanWellFounded, WFMin
  <2>2. \A m \in Nat : m < n => m \in T
    BY <2>1 DEF OpToRel
  <2>. QED  BY <2>1, <2>2
<1>. QED  BY <1>1

(* A set that has 0, and with each number the next, has all natural numbers. *)
LEMMA SetInduction ==
    ASSUME NEW T, 0 \in T, \A n \in Nat : n \in T => n + 1 \in T
    PROVE  Nat \subseteq T
<1>1. ASSUME NEW n \in Nat, \A m \in Nat : m < n => m \in T
      PROVE  n \in T
  <2>1. CASE n = 0
    BY <2>1
  <2>2. CASE n # 0
    <3>1. n - 1 \in Nat /\ n - 1 < n /\ (n - 1) + 1 = n
      BY <2>2
    <3>2. n - 1 \in T
      BY <1>1, <3>1
    <3>3. (n - 1) + 1 \in T
      BY <3>1, <3>2
    <3>. QED  BY <3>1, <3>3
  <2>. QED  BY <2>1, <2>2
<1>. QED  BY <1>1, StrongInduction

-----------------------------------------------------------------------------
(* Euclid's algorithm.                                                         *)

LEMMA Division ==
    ASSUME NEW a \in Int, NEW b \in Nat \ {0}
    PROVE  /\ a \div b \in Int /\ a % b \in Nat /\ a % b < b
           /\ a = b * (a \div b) + (a % b)
OBVIOUS

GcdRow(g, b) == [a \in Nat |-> IF b = 0 THEN a ELSE g[a % b][b]]
AreGcds(g, n) == g = [b \in 0 .. n |-> GcdRow(g, b)]

(* A row of the table of divisors depends on the rows before it only.        *)
LEMMA GcdRowAgrees ==
    ASSUME NEW g, NEW h, NEW b \in Nat, \A m \in Nat : m < b => g[m] = h[m]
    PROVE  GcdRow(g, b) = GcdRow(h, b)
<1>1. ASSUME NEW a \in Nat PROVE (IF b = 0 THEN a ELSE g[a % b][b]) = (IF b = 0 THEN a ELSE h[a % b][b])
  BY Division
<1>. QED  BY <1>1 DEF GcdRow

(* Each row of a table is what its definition says.                          *)
LEMMA GcdsAreRows ==
    ASSUME NEW n \in Nat, NEW g, AreGcds(g, n), NEW b \in 0 .. n
    PROVE  g[b] = GcdRow(g, b)
<1>. DEFINE f == [k \in 0 .. n |-> GcdRow(g, k)]
<1>1. f[b] = GcdRow(g, b)
  OBVIOUS
<1>2. g = f
  BY DEF AreGcds
<1>. HIDE DEF f
<1>3. g[b] = f[b]
  BY <1>2, Zenon
<1>. QED  BY <1>1, <1>3, Zenon

(* Two tables agree where both are defined.                                  *)
LEMMA GcdsAreUnique ==
    ASSUME NEW n \in Nat, NEW m \in Nat, n <= m, NEW g, NEW h, AreGcds(g, n), AreGcds(h, m)
    PROVE  g[n] = h[n]
<1>. DEFINE T == {b \in Nat : b <= n => g[b] = h[b]}
<1>1. ASSUME NEW b \in Nat, \A k \in Nat : k < b => k \in T
      PROVE  b \in T
  <2>. SUFFICES ASSUME b <= n PROVE g[b] = h[b]
    OBVIOUS
  <2>1. \A k \in Nat : k < b => g[k] = h[k]
    BY <1>1
  <2>2. b \in 0 .. n /\ b \in 0 .. m
    OBVIOUS
  <2>3. g[b] = GcdRow(g, b) /\ h[b] = GcdRow(h, b)
    BY <2>2, GcdsAreRows
  <2>4. GcdRow(g, b) = GcdRow(h, b)
    BY <2>1, GcdRowAgrees
  <2>. QED  BY <2>3, <2>4, Zenon
<1>2. Nat \subseteq T
  <2>. HIDE DEF T
  <2>. QED  BY <1>1, StrongInduction
<1>. QED  BY <1>2

(* There is a table of every length.                                         *)
LEMMA GcdsExist == \A n \in Nat : \E g : AreGcds(g, n)
<1>. DEFINE T == {n \in Nat : \E g : AreGcds(g, n)}
<1>1. 0 \in T
  <2>. DEFINE g == [b \in 0 .. 0 |-> [a \in Nat |-> a]]
  <2>1. \A b \in 0 .. 0 : g[b] = GcdRow(g, b)
    BY DEF GcdRow
  <2>2. g = [b \in 0 .. 0 |-> g[b]]
    OBVIOUS
  <2>. HIDE DEF g
  <2>3. AreGcds(g, 0)
    BY <2>1, <2>2 DEF AreGcds
  <2>. QED  BY <2>3
<1>2. ASSUME NEW n \in Nat, n \in T PROVE n + 1 \in T
  <2>1. PICK g : AreGcds(g, n)
    BY <1>2
  <2>. DEFINE h == [b \in 0 .. (n + 1) |-> GcdRow(g, b)]
  <2>2. \A b \in 0 .. n : h[b] = g[b]
    BY <2>1 DEF AreGcds
  <2>3. ASSUME NEW b \in 0 .. (n + 1) PROVE h[b] = GcdRow(h, b)
    <3>1. \A m \in Nat : m < b => h[m] = g[m]
      BY <2>2
    <3>2. h[b] = GcdRow(g, b)
      OBVIOUS
    <3>. HIDE DEF h
    <3>3. GcdRow(h, b) = GcdRow(g, b)
      BY <3>1, GcdRowAgrees
    <3>. QED  BY <3>2, <3>3
  <2>4. h = [b \in 0 .. (n + 1) |-> h[b]]
    OBVIOUS
  <2>. HIDE DEF h
  <2>5. AreGcds(h, n + 1)
    BY <2>3, <2>4 DEF AreGcds
  <2>. QED  BY <2>5
<1>. HIDE DEF T
<1>3. Nat \subseteq T
  BY <1>1, <1>2, SetInduction
<1>. QED  BY <1>3 DEF T

(* The recursive definition of Gcd is Euclid's algorithm.                    *)
LEMMA GcdUnfolds == \A b \in Nat, a \in Nat : Gcd[b][a] = IF b = 0 THEN a ELSE Gcd[a % b][b]
<1>. DEFINE H(n) == CHOOSE g : AreGcds(g, n)
            G == [b \in Nat |-> H(b)[b]]
            IsGcd(g) == g = [b \in Nat |-> [a \in Nat |-> IF b = 0 THEN a ELSE g[a % b][b]]]
<1>1. \A n \in Nat : AreGcds(H(n), n)
  BY GcdsExist
<1>. HIDE DEF H
<1>2. ASSUME NEW b \in Nat PROVE G[b] = GcdRow(G, b)
  <2>1. H(b)[b] = GcdRow(H(b), b)
    BY <1>1 DEF AreGcds
  <2>2. ASSUME NEW m \in Nat, m < b PROVE H(b)[m] = G[m]
    BY <1>1, <2>2, GcdsAreUnique
  <2>3. G[b] = H(b)[b]
    OBVIOUS
  <2>. HIDE DEF G
  <2>4. GcdRow(H(b), b) = GcdRow(G, b)
    BY <2>2, GcdRowAgrees
  <2>. QED  BY <2>1, <2>3, <2>4
<1>3. G = [b \in Nat |-> G[b]]
  OBVIOUS
<1>. HIDE DEF G
<1>4. IsGcd(G)
  BY <1>2, <1>3 DEF GcdRow
<1>5. Gcd = CHOOSE g : IsGcd(g)
  BY DEF Gcd
<1>6. IsGcd(Gcd)
  BY <1>4, <1>5
<1>. QED  BY <1>6

Divides(g, n) == \E k \in Nat : n = k * g

(* The number it finds is positive and divides both.                         *)
LEMMA GcdDivides ==
    ASSUME NEW a \in Nat, NEW b \in Nat, a # 0 \/ b # 0
    PROVE  Gcd[b][a] \in Nat \ {0} /\ Divides(Gcd[b][a], a) /\ Divides(Gcd[b][a], b)
<1>. DEFINE Good(m, n) == Gcd[n][m] \in Nat \ {0} /\ Divides(Gcd[n][m], m) /\ Divides(Gcd[n][m], n)
            T == {n \in Nat : \A m \in Nat : m # 0 \/ n # 0 => Good(m, n)}
<1>1. ASSUME NEW n \in Nat, \A k \in Nat : k < n => k \in T PROVE n \in T
  <2>. SUFFICES ASSUME NEW m \in Nat, m # 0 \/ n # 0 PROVE Good(m, n)
    OBVIOUS
  <2>1. CASE n = 0
    <3>1. Gcd[n][m] = m
      BY <2>1, GcdUnfolds
    <3>2. m = 1 * m /\ 0 = 0 * m
      OBVIOUS
    <3>. QED  BY <2>1, <3>1, <3>2 DEF Divides
  <2>2. CASE n # 0
    <3>. DEFINE r == m % n
                q == m \div n
                g == Gcd[r][n]
    <3>1. Gcd[n][m] = g
      BY <2>2, GcdUnfolds
    <3>2. r \in Nat /\ r < n /\ q \in Int /\ m = n * q + r
      BY <2>2, Division
    <3>3. q \in Nat
      BY <2>2
    <3>4. Good(n, r)
      BY <1>1, <2>2, <3>2
    <3>5. PICK k \in Nat : n = k * g
      BY <3>4 DEF Divides
    <3>6. PICK l \in Nat : r = l * g
      BY <3>4 DEF Divides
    <3>7. g \in Nat \ {0}
      BY <3>4
    <3>. HIDE DEF r, q, g
    <3>8. m = (k * q + l) * g /\ k * q + l \in Nat
      BY <3>2, <3>3, <3>5, <3>6, <3>7
    <3>. QED  BY <3>1, <3>5, <3>7, <3>8 DEF Divides
  <2>. QED  BY <2>1, <2>2
<1>. HIDE DEF T
<1>2. Nat \subseteq T
  BY <1>1, StrongInduction
<1>. QED  BY <1>2 DEF T
-----------------------------------------------------------------------------
(* Fractions.  They are compared by what they stand for, never as pairs.       *)

\* x stands for n / d.
IsFrac(x, n, d) == x \in Rat /\ x[1] * d = n * x[2]

(* The parts of a rational number are an integer and a positive integer.     *)
LEMMA RatParts ==
    ASSUME NEW x \in Rat
    PROVE  x[1] \in Int /\ x[2] \in Nat \ {0} /\ x[2] \in Int /\ x[2] > 0
BY DEF Rat

(* Integers are rational numbers with the denominator 1.                     *)
LEMMA NumIsRat ==
    /\ \A n \in Int : Num(n) \in Rat /\ Num(n)[1] = n /\ Num(n)[2] = 1
    /\ Zero \in NonNeg /\ One \in NonNeg
    /\ \A n \in Nat : Num(n) \in NonNeg
    /\ \A x \in NonNeg : x \in Rat /\ x[1] >= 0
BY DEF Num, Rat, NonNeg, Zero, One

(* A product divided by one factor is the other.                             *)
LEMMA DivideOut ==
    ASSUME NEW k \in Int, NEW g \in Nat \ {0}
    PROVE  (k * g) \div g = k
OBVIOUS

(* A common divisor can be taken out.                                          *)
LEMMA Cancelled ==
    ASSUME NEW n \in Int, NEW d \in Nat \ {0}
    PROVE  LET g == Gcd[d][Abs(n)]
           IN  /\ g \in Nat \ {0}
               /\ n \div g \in Int /\ n = (n \div g) * g
               /\ d \div g \in Nat \ {0} /\ d = (d \div g) * g
<1>. DEFINE g == Gcd[d][Abs(n)]
<1>1. Abs(n) \in Nat
  BY DEF Abs
<1>2. g \in Nat \ {0} /\ Divides(g, Abs(n)) /\ Divides(g, d)
  BY <1>1, GcdDivides
<1>. HIDE DEF g
<1>3. PICK k \in Nat : Abs(n) = k * g
  BY <1>2 DEF Divides
<1>4. PICK l \in Nat : d = l * g
  BY <1>2 DEF Divides
<1>5. PICK m \in Int : n = m * g
  <2>1. CASE n >= 0
    BY <1>3, <2>1 DEF Abs
  <2>2. CASE n < 0
    <3>1. n = (-k) * g
      BY <1>2, <1>3, <2>2 DEF Abs
    <3>2. -k \in Int
      OBVIOUS
    <3>. QED  BY <3>1, <3>2
  <2>. QED  BY <2>1, <2>2
<1>6. n \div g = m
  BY <1>2, <1>5, DivideOut
<1>7. d \div g = l
  BY <1>2, <1>4, DivideOut
<1>8. l # 0
  BY <1>2, <1>4
<1>. QED  BY <1>2, <1>4, <1>5, <1>6, <1>7, <1>8 DEF g

(* Reducing a fraction does not change what it stands for.                   *)
LEMMA FracValue ==
    ASSUME NEW n \in Int, NEW d \in Nat \ {0}
    PROVE  IsFrac(Frac(n, d), n, d)
<1>. DEFINE g == Gcd[d][Abs(n)]
            a == n \div g
            b == d \div g
<1>1. g \in Nat \ {0} /\ a \in Int /\ n = a * g /\ b \in Nat \ {0} /\ d = b * g
  BY Cancelled
<1>2. Frac(n, d) = <<a, b>>
  BY DEF Frac
<1>. HIDE DEF g, a, b
<1>3. a * d = n * b
  BY <1>1
<1>. QED  BY <1>1, <1>2, <1>3 DEF IsFrac, Rat

(* What a sum stands for.                                                    *)
LEMMA PlusValue ==
    ASSUME NEW x \in Rat, NEW y \in Rat
    PROVE  IsFrac(Plus(x, y), x[1] * y[2] + y[1] * x[2], x[2] * y[2])
<1>1. x[1] * y[2] + y[1] * x[2] \in Int /\ x[2] * y[2] \in Nat \ {0}
  BY RatParts
<1>. QED  BY <1>1, FracValue DEF Plus

(* What a product stands for.                                                *)
LEMMA TimesValue ==
    ASSUME NEW x \in Rat, NEW y \in Rat
    PROVE  IsFrac(Times(x, y), x[1] * y[1], x[2] * y[2])
<1>. DEFINE g == Gcd[y[2]][Abs(x[1])]
            h == Gcd[x[2]][Abs(y[1])]
            a == x[1] \div g
            b == y[1] \div h
            c == x[2] \div h
            d == y[2] \div g
<1>1. x[1] \in Int /\ x[2] \in Nat \ {0} /\ y[1] \in Int /\ y[2] \in Nat \ {0}
  BY RatParts
<1>2. g \in Nat \ {0} /\ a \in Int /\ x[1] = a * g /\ d \in Nat \ {0} /\ y[2] = d * g
  BY <1>1, Cancelled
<1>3. h \in Nat \ {0} /\ b \in Int /\ y[1] = b * h /\ c \in Nat \ {0} /\ x[2] = c * h
  BY <1>1, Cancelled
<1>4. Times(x, y) = <<a * b, c * d>>
  BY DEF Times
<1>. HIDE DEF g, h, a, b, c, d
<1>5. a * b \in Int /\ c * d \in Nat \ {0}
  BY <1>2, <1>3
<1>6. (a * b) * ((c * h) * (d * g)) = ((a * g) * (b * h)) * (c * d)
  BY <1>2, <1>3
<1>. QED  BY <1>2, <1>3, <1>4, <1>5, <1>6 DEF IsFrac, Rat

(* What a negated number stands for.                                         *)
LEMMA NegValue ==
    ASSUME NEW x \in Rat
    PROVE  Neg(x) \in Rat /\ Neg(x)[1] = -x[1] /\ Neg(x)[2] = x[2]
BY RatParts DEF Neg, Rat

(* What a difference stands for.                                             *)
LEMMA MinusValue ==
    ASSUME NEW x \in Rat, NEW y \in Rat
    PROVE  IsFrac(Minus(x, y), x[1] * y[2] - y[1] * x[2], x[2] * y[2])
<1>1. IsFrac(Plus(x, Neg(y)), x[1] * y[2] + (-y[1]) * x[2], x[2] * y[2])
  BY NegValue, PlusValue
<1>2. x[1] * y[2] + (-y[1]) * x[2] = x[1] * y[2] - y[1] * x[2]
  BY RatParts
<1>. QED  BY <1>1, <1>2 DEF Minus

(* What a quotient by a positive number stands for.                          *)
LEMMA OverValue ==
    ASSUME NEW x \in Rat, NEW y \in Rat, y[1] > 0
    PROVE  IsFrac(Over(x, y), x[1] * y[2], x[2] * y[1])
<1>1. <<y[2], y[1]>> \in Rat
  BY RatParts DEF Rat
<1>2. Over(x, y) = Times(x, <<y[2], y[1]>>)
  BY DEF Over
<1>. QED  BY <1>1, <1>2, TimesValue

-----------------------------------------------------------------------------
(* The order, and rounding.                                                    *)

LEMMA CancelLeq ==
    ASSUME NEW a \in Int, NEW b \in Int, NEW c \in Nat \ {0}, a * c <= b * c
    PROVE  a <= b
OBVIOUS

(* Multiplying by a natural number keeps an order.                           *)
LEMMA ScaleLeq ==
    ASSUME NEW a \in Int, NEW b \in Int, NEW c \in Nat, a <= b
    PROVE  a * c <= b * c
OBVIOUS

(* Numbers are ordered as any fractions they stand for, by cross-            *)
(* multiplication.                                                           *)
LEMMA FracLeq ==
    ASSUME NEW x, NEW n \in Int, NEW d \in Nat \ {0}, IsFrac(x, n, d),
           NEW y, NEW m \in Int, NEW e \in Nat \ {0}, IsFrac(y, m, e)
    PROVE  Leq(x, y) <=> n * e <= m * d
<1>1. x[1] \in Int /\ x[2] \in Nat \ {0} /\ x[1] * d = n * x[2]
  BY RatParts DEF IsFrac
<1>2. y[1] \in Int /\ y[2] \in Nat \ {0} /\ y[1] * e = m * y[2]
  BY RatParts DEF IsFrac
<1>3. (x[1] * y[2]) * (d * e) = (n * e) * (x[2] * y[2])
  <2>1. (x[1] * y[2]) * (d * e) = (x[1] * d) * (y[2] * e)
    BY <1>1, <1>2
  <2>2. (n * x[2]) * (y[2] * e) = (n * e) * (x[2] * y[2])
    BY <1>1, <1>2
  <2>. QED  BY <1>1, <2>1, <2>2
<1>4. (y[1] * x[2]) * (d * e) = (m * d) * (x[2] * y[2])
  <2>1. (y[1] * x[2]) * (d * e) = (y[1] * e) * (x[2] * d)
    BY <1>1, <1>2
  <2>2. (m * y[2]) * (x[2] * d) = (m * d) * (x[2] * y[2])
    BY <1>1, <1>2
  <2>. QED  BY <1>2, <2>1, <2>2
<1>. DEFINE a == x[1] * y[2]
            b == y[1] * x[2]
            p == d * e
            q == x[2] * y[2]
            u == n * e
            v == m * d
<1>5. a \in Int /\ b \in Int /\ u \in Int /\ v \in Int /\ p \in Nat \ {0} /\ q \in Nat \ {0}
  BY <1>1, <1>2
<1>6. a * p = u * q /\ b * p = v * q
  BY <1>3, <1>4
<1>7. Leq(x, y) <=> a <= b
  BY DEF Leq
<1>. HIDE DEF a, b, p, q, u, v
<1>8. a <= b <=> u <= v
  <2>1. ASSUME a <= b PROVE u <= v
    BY <1>5, <1>6, <2>1, ScaleLeq, CancelLeq
  <2>2. ASSUME u <= v PROVE a <= b
    BY <1>5, <1>6, <2>2, ScaleLeq, CancelLeq
  <2>. QED  BY <2>1, <2>2
<1>. QED  BY <1>7, <1>8 DEF u, v

(* A number stands for its own parts.                                        *)
LEMMA RatIsFrac == \A x \in Rat : IsFrac(x, x[1], x[2])
BY RatParts DEF IsFrac

(* The order is reflexive and total.                                         *)
LEMMA LeqIsTotal ==
    ASSUME NEW x \in Rat, NEW y \in Rat
    PROVE  /\ Leq(x, x)
           /\ Leq(x, y) \/ Leq(y, x)
           /\ Less(x, y) => Leq(x, y)
BY RatParts DEF Leq, Less

(* The order is transitive.                                                  *)
LEMMA LeqIsTransitive ==
    ASSUME NEW x \in Rat, NEW y \in Rat, NEW z \in Rat, Leq(x, y), Leq(y, z)
    PROVE  Leq(x, z)
<1>. DEFINE a == x[1]
            p == x[2]
            b == y[1]
            q == y[2]
            c == z[1]
            r == z[2]
<1>1. a \in Int /\ b \in Int /\ c \in Int /\ p \in Nat \ {0} /\ q \in Nat \ {0} /\ r \in Nat \ {0}
  BY RatParts
<1>2. a * q <= b * p /\ b * r <= c * q
  BY DEF Leq
<1>. HIDE DEF a, b, c, p, q, r
<1>3. (a * q) * r <= (b * p) * r /\ (b * r) * p <= (c * q) * p
  BY <1>1, <1>2, ScaleLeq
<1>4. (a * r) * q <= (c * p) * q
  BY <1>1, <1>3
<1>5. a * r <= c * p
  <2>1. a * r \in Int /\ c * p \in Int
    BY <1>1
  <2>. HIDE DEF a, b, c, p, q, r
  <2>. QED  BY <1>1, <1>4, <2>1, CancelLeq
<1>. QED  BY <1>5 DEF Leq, a, c, p, r

(* A number fits in what remains if the sum does not exceed the whole.         *)
LEMMA FitsIn ==
    ASSUME NEW x \in Rat, NEW y \in Rat, NEW z \in Rat
    PROVE  Leq(y, Minus(z, x)) <=> Leq(Plus(x, y), z)
<1>. DEFINE a == x[1]
            p == x[2]
            b == y[1]
            q == y[2]
            c == z[1]
            r == z[2]
<1>1. a \in Int /\ b \in Int /\ c \in Int /\ p \in Nat \ {0} /\ q \in Nat \ {0} /\ r \in Nat \ {0}
  BY RatParts
<1>2. IsFrac(Minus(z, x), c * p - a * r, r * p) /\ IsFrac(Plus(x, y), a * q + b * p, p * q)
  BY MinusValue, PlusValue
<1>3. IsFrac(y, b, q) /\ IsFrac(z, c, r)
  BY RatIsFrac
<1>. HIDE DEF a, b, c, p, q, r
<1>4. c * p - a * r \in Int /\ r * p \in Nat \ {0} /\ a * q + b * p \in Int /\ p * q \in Nat \ {0}
  BY <1>1
<1>5. Leq(y, Minus(z, x)) <=> b * (r * p) <= (c * p - a * r) * q
  BY <1>1, <1>2, <1>3, <1>4, FracLeq
<1>6. Leq(Plus(x, y), z) <=> (a * q + b * p) * r <= c * (p * q)
  BY <1>1, <1>2, <1>3, <1>4, FracLeq
<1>7. b * (r * p) <= (c * p - a * r) * q <=> (a * q + b * p) * r <= c * (p * q)
  BY <1>1
<1>. QED  BY <1>5, <1>6, <1>7

(* A sum grows with its terms.                                               *)
LEMMA PlusIsMonotone ==
    ASSUME NEW x \in Rat, NEW y \in Rat, NEW z \in Rat, Leq(y, z)
    PROVE  Leq(Plus(x, y), Plus(x, z)) /\ Leq(Plus(y, x), Plus(z, x))
<1>. DEFINE a == x[1]
            p == x[2]
            b == y[1]
            q == y[2]
            c == z[1]
            r == z[2]
<1>1. a \in Int /\ b \in Int /\ c \in Int /\ p \in Nat \ {0} /\ q \in Nat \ {0} /\ r \in Nat \ {0}
  BY RatParts
<1>2. /\ IsFrac(Plus(x, y), a * q + b * p, p * q) /\ IsFrac(Plus(y, x), b * p + a * q, q * p)
      /\ IsFrac(Plus(x, z), a * r + c * p, p * r) /\ IsFrac(Plus(z, x), c * p + a * r, r * p)
  BY PlusValue
<1>3. b * r <= c * q
  BY DEF Leq
<1>. HIDE DEF a, b, c, p, q, r
<1>4. /\ a * q + b * p \in Int /\ p * q \in Nat \ {0} /\ b * p + a * q \in Int /\ q * p \in Nat \ {0}
      /\ a * r + c * p \in Int /\ p * r \in Nat \ {0} /\ c * p + a * r \in Int /\ r * p \in Nat \ {0}
  BY <1>1
<1>5. (b * r) * (p * p) <= (c * q) * (p * p)
  <2>1. b * r \in Int /\ c * q \in Int /\ p * p \in Nat
    BY <1>1
  <2>. QED  BY <1>3, <2>1, ScaleLeq
<1>6. (a * q + b * p) * (p * r) <= (a * r + c * p) * (p * q)
  BY <1>1, <1>5
<1>7. (b * p + a * q) * (r * p) <= (c * p + a * r) * (q * p)
  BY <1>1, <1>5
<1>8. Leq(Plus(x, y), Plus(x, z))
  BY <1>2, <1>4, <1>6, FracLeq
<1>9. Leq(Plus(y, x), Plus(z, x))
  BY <1>2, <1>4, <1>7, FracLeq
<1>. QED  BY <1>8, <1>9

(* A product with a number that is not negative grows with the other factor. *)
LEMMA TimesIsMonotone ==
    ASSUME NEW x \in NonNeg, NEW y \in Rat, NEW z \in Rat, Leq(y, z)
    PROVE  Leq(Times(x, y), Times(x, z))
<1>. DEFINE a == x[1]
            p == x[2]
            b == y[1]
            q == y[2]
            c == z[1]
            r == z[2]
<1>0. x \in Rat /\ a >= 0
  BY NumIsRat
<1>1. a \in Nat /\ b \in Int /\ c \in Int /\ p \in Nat \ {0} /\ q \in Nat \ {0} /\ r \in Nat \ {0}
  BY <1>0, RatParts
<1>2. IsFrac(Times(x, y), a * b, p * q) /\ IsFrac(Times(x, z), a * c, p * r)
  BY <1>0, TimesValue
<1>3. b * r <= c * q
  BY DEF Leq
<1>. HIDE DEF a, b, c, p, q, r
<1>4. (b * r) * (a * p) <= (c * q) * (a * p)
  <2>1. b * r \in Int /\ c * q \in Int /\ a * p \in Nat
    BY <1>1
  <2>. QED  BY <1>3, <2>1, ScaleLeq
<1>5. (a * b) * (p * r) <= (a * c) * (p * q)
  BY <1>1, <1>4
<1>6. a * b \in Int /\ p * q \in Nat \ {0} /\ a * c \in Int /\ p * r \in Nat \ {0}
  BY <1>1
<1>. QED  BY <1>2, <1>5, <1>6, FracLeq

(* A number has the sign of the numerators it stands for.                    *)
LEMMA SignOfFrac ==
    ASSUME NEW x, NEW n \in Int, NEW d \in Nat \ {0}, IsFrac(x, n, d)
    PROVE  /\ x \in Rat
           /\ n >= 0 <=> x[1] >= 0
           /\ n > 0 <=> x[1] > 0
<1>1. x \in Rat /\ x[1] \in Int /\ x[2] \in Nat \ {0} /\ x[1] * d = n * x[2]
  BY RatParts DEF IsFrac
<1>. DEFINE a == x[1]
            b == x[2]
<1>2. a \in Int /\ b \in Nat \ {0} /\ a * d = n * b
  BY <1>1
<1>. HIDE DEF a, b
<1>3. n >= 0 <=> a * d >= 0
  BY <1>2
<1>4. a >= 0 <=> a * d >= 0
  BY <1>2
<1>5. n > 0 <=> a * d > 0
  BY <1>2
<1>6. a > 0 <=> a * d > 0
  BY <1>2
<1>. QED  BY <1>1, <1>3, <1>4, <1>5, <1>6 DEF a

(* Sums, products and quotients of numbers that are not negative are not     *)
(* negative, and positive if their parts are.                                *)
LEMMA NonNegIsClosed ==
    ASSUME NEW x \in NonNeg, NEW y \in NonNeg
    PROVE  /\ Plus(x, y) \in NonNeg /\ Times(x, y) \in NonNeg
           /\ y[1] > 0 => Over(x, y) \in NonNeg
           /\ x[1] > 0 /\ y[1] > 0 => Times(x, y)[1] > 0 /\ Over(x, y)[1] > 0
           /\ x[1] > 0 \/ y[1] > 0 => Plus(x, y)[1] > 0
<1>. DEFINE a == x[1]
            p == x[2]
            b == y[1]
            q == y[2]
<1>0. x \in Rat /\ y \in Rat /\ a >= 0 /\ b >= 0
  BY NumIsRat
<1>1. a \in Nat /\ b \in Nat /\ p \in Nat \ {0} /\ q \in Nat \ {0}
  BY <1>0, RatParts
<1>2. /\ IsFrac(Plus(x, y), a * q + b * p, p * q) /\ IsFrac(Times(x, y), a * b, p * q)
      /\ b > 0 => IsFrac(Over(x, y), a * q, p * b)
  BY <1>0, PlusValue, TimesValue, OverValue
<1>. HIDE DEF a, b, p, q
<1>3. /\ a * q + b * p \in Nat /\ p * q \in Nat \ {0} /\ a * b \in Nat /\ a * q \in Nat
      /\ b > 0 => p * b \in Nat \ {0}
      /\ a > 0 => a * q > 0
      /\ a > 0 /\ b > 0 => a * b > 0
      /\ a > 0 \/ b > 0 => a * q + b * p > 0
  BY <1>1
<1>4. Plus(x, y) \in Rat /\ Plus(x, y)[1] >= 0 /\ (a > 0 \/ b > 0 => Plus(x, y)[1] > 0)
  BY <1>2, <1>3, SignOfFrac
<1>5. Times(x, y) \in Rat /\ Times(x, y)[1] >= 0 /\ (a > 0 /\ b > 0 => Times(x, y)[1] > 0)
  BY <1>2, <1>3, SignOfFrac
<1>6. b > 0 => Over(x, y) \in Rat /\ Over(x, y)[1] >= 0 /\ (a > 0 => Over(x, y)[1] > 0)
  BY <1>2, <1>3, SignOfFrac
<1>. QED  BY <1>4, <1>5, <1>6 DEF NonNeg, a, b

(* Rounding down and up are the integers next to a number.                     *)
LEMMA FloorIsBelow ==
    ASSUME NEW x \in Rat
    PROVE  /\ Floor(x) \in Int
           /\ \A n \in Int : n <= Floor(x) <=> Leq(Num(n), x)
<1>. DEFINE a == x[1]
            p == x[2]
            f == Floor(x)
<1>1. a \in Int /\ p \in Nat \ {0}
  BY RatParts
<1>2. f = a \div p
  BY DEF Floor
<1>3. f \in Int /\ p * f <= a /\ a < p * f + p
  <2>. HIDE DEF a, p, f
  <2>1. a \div p \in Int /\ a % p \in Nat /\ a % p < p /\ a = p * (a \div p) + (a % p)
    BY <1>1, Division
  <2>. QED  BY <1>1, <1>2, <2>1
<1>4. ASSUME NEW n \in Int PROVE Leq(Num(n), x) <=> n * p <= a
  BY <1>1 DEF Leq, Num
<1>. HIDE DEF a, p, f
<1>5. ASSUME NEW n \in Int PROVE n <= f <=> n * p <= a
  <2>1. ASSUME n <= f PROVE n * p <= a
    <3>1. n * p <= f * p
      BY <1>1, <1>3, <2>1, ScaleLeq
    <3>. QED  BY <1>1, <1>3, <3>1
  <2>2. ASSUME n * p <= a, ~ (n <= f) PROVE FALSE
    <3>1. (f + 1) * p <= n * p
      BY <1>1, <1>3, <2>2, ScaleLeq
    <3>. QED  BY <1>1, <1>3, <2>2, <3>1
  <2>. QED  BY <1>3, <2>1, <2>2
<1>. QED  BY <1>3, <1>4, <1>5 DEF f

(* The ceiling is the least integer that is not below the number.            *)
LEMMA CeilIsAbove ==
    ASSUME NEW x \in Rat
    PROVE  /\ Ceil(x) \in Int
           /\ \A n \in Int : Ceil(x) <= n <=> Leq(x, Num(n))
<1>. DEFINE f == Floor(Neg(x))
<1>1. Neg(x) \in Rat /\ Neg(x)[1] = -x[1] /\ Neg(x)[2] = x[2]
  BY NegValue
<1>2. Ceil(x) = -f
  BY <1>1 DEF Ceil, Floor
<1>3. f \in Int /\ \A n \in Int : n <= f <=> Leq(Num(n), Neg(x))
  BY <1>1, FloorIsBelow
<1>. HIDE DEF f
<1>4. ASSUME NEW n \in Int PROVE -f <= n <=> Leq(x, Num(n))
  <2>1. -f <= n <=> -n <= f
    BY <1>3
  <2>2. -n \in Int
    OBVIOUS
  <2>3. -n <= f <=> Leq(Num(-n), Neg(x))
    BY <1>3, <2>2
  <2>4. Leq(Num(-n), Neg(x)) <=> Leq(x, Num(n))
    BY <1>1, RatParts DEF Leq, Num
  <2>. QED  BY <2>1, <2>3, <2>4
<1>. QED  BY <1>2, <1>3, <1>4

(* Rounding leaves an integer alone.                                         *)
LEMMA RoundingOfInt ==
    ASSUME NEW n \in Int
    PROVE  Floor(Num(n)) = n /\ Ceil(Num(n)) = n
BY DEF Floor, Ceil, Num

(* Rounding keeps the order.                                                 *)
LEMMA RoundingIsMonotone ==
    ASSUME NEW x \in Rat, NEW y \in Rat, Leq(x, y)
    PROVE  Floor(x) <= Floor(y) /\ Ceil(x) <= Ceil(y)
<1>1. Floor(x) \in Int /\ Floor(y) \in Int /\ Ceil(x) \in Int /\ Ceil(y) \in Int
  BY FloorIsBelow, CeilIsAbove
<1>2. Leq(Num(Floor(x)), x) /\ Leq(y, Num(Ceil(y)))
  BY <1>1, FloorIsBelow, CeilIsAbove
<1>3. Num(Floor(x)) \in Rat /\ Num(Ceil(y)) \in Rat
  BY <1>1, NumIsRat
<1>4. Leq(Num(Floor(x)), y) /\ Leq(x, Num(Ceil(y)))
  BY <1>2, <1>3, LeqIsTransitive
<1>. QED  BY <1>1, <1>4, FloorIsBelow, CeilIsAbove

(* A number that is not negative is rounded to a natural number.             *)
LEMMA FloorOfNonNeg ==
    ASSUME NEW x \in NonNeg
    PROVE  Floor(x) \in Nat /\ Ceil(x) \in Nat /\ Floor(x) <= Ceil(x)
<1>1. x \in Rat /\ Leq(Num(0), x)
  BY NumIsRat, RatParts DEF Leq, Num
<1>2. Floor(x) \in Int /\ 0 <= Floor(x)
  BY <1>1, FloorIsBelow
<1>3. Leq(Num(Floor(x)), x) /\ Leq(x, Num(Ceil(x))) /\ Ceil(x) \in Int
  BY <1>1, <1>2, FloorIsBelow, CeilIsAbove
<1>4. Leq(Num(Floor(x)), Num(Ceil(x)))
  BY <1>1, <1>2, <1>3, NumIsRat, LeqIsTransitive
<1>5. Floor(x) <= Ceil(x)
  BY <1>2, <1>3, <1>4 DEF Leq, Num
<1>. QED  BY <1>2, <1>3, <1>5

(* Integers stay integers.                                                   *)
LEMMA PlusOfInts ==
    ASSUME NEW a \in Int, NEW b \in Int
    PROVE  Plus(Num(a), Num(b)) = Num(a + b) /\ Minus(Num(a), Num(b)) = Num(a - b)
<1>1. ASSUME NEW n \in Int PROVE Frac(n, 1) = Num(n)
  <2>1. Abs(n) \in Nat /\ Abs(n) % 1 = 0
    BY DEF Abs
  <2>2. Gcd[1][Abs(n)] = Gcd[0][1]
    BY <2>1, GcdUnfolds
  <2>3. Gcd[0][1] = 1
    BY GcdUnfolds
  <2>4. n \div 1 = n /\ 1 \div 1 = 1
    OBVIOUS
  <2>. QED  BY <2>2, <2>3, <2>4 DEF Frac, Num
<1>2. Plus(Num(a), Num(b)) = Frac(a + b, 1)
  <2>1. a * 1 + b * 1 = a + b /\ 1 * 1 = 1
    OBVIOUS
  <2>. QED  BY <2>1 DEF Plus, Num
<1>3. Minus(Num(a), Num(b)) = Frac(a - b, 1)
  <2>1. a * 1 + (-b) * 1 = a - b /\ 1 * 1 = 1
    OBVIOUS
  <2>. QED  BY <2>1 DEF Minus, Neg, Plus, Num
<1>. QED  BY <1>1, <1>2, <1>3

(* Integers are ordered as numbers as they are as integers.                  *)
LEMMA LeqOfInts ==
    ASSUME NEW a \in Int, NEW b \in Int
    PROVE  /\ Leq(Num(a), Num(b)) <=> a <= b
           /\ MinOf(Num(a), Num(b)) = Num(IF a <= b THEN a ELSE b)
BY DEF Leq, MinOf, Num

(* Rounding to the nearest does not cross an integer.                        *)
LEMMA HalfUpOfNonNeg ==
    ASSUME NEW x \in NonNeg
    PROVE  /\ HalfUp(x) \in Nat
           /\ \A n \in Int : Leq(x, Num(n)) => HalfUp(x) <= n
           /\ \A n \in Int : Leq(Num(n), x) => n <= HalfUp(x)
<1>. DEFINE a == x[1]
            b == x[2]
            h == HalfUp(x)
<1>1. a \in Nat /\ b \in Nat \ {0}
  BY NumIsRat, RatParts
<1>2. h = (2 * a + b) \div (2 * b)
  BY <1>1 DEF HalfUp
<1>3. \A n \in Int : (Leq(x, Num(n)) <=> a <= n * b) /\ (Leq(Num(n), x) <=> n * b <= a)
  BY <1>1 DEF Leq, Num
<1>. HIDE DEF a, b, h
<1>. DEFINE u == 2 * a + b
            v == 2 * b
<1>4. u \in Int /\ u >= 0 /\ v \in Nat \ {0}
  BY <1>1
<1>5. u = 2 * a + b /\ v = 2 * b
  OBVIOUS
<1>. HIDE DEF u, v
<1>6. h \in Int /\ v * h <= u /\ u < v * h + v
  <2>1. u \div v \in Int /\ u % v \in Nat /\ u % v < v /\ u = v * (u \div v) + (u % v)
    BY <1>4, Division
  <2>2. h = u \div v
    BY <1>2, <1>5
  <2>. QED  BY <1>4, <2>1, <2>2
<1>7. h >= 0
  <2>. SUFFICES ASSUME h <= -1 PROVE FALSE
    BY <1>6
  <2>1. h * v <= (-1) * v
    BY <1>4, <1>6, ScaleLeq
  <2>. QED  BY <1>4, <1>6, <2>1
<1>8. ASSUME NEW n \in Int, a <= n * b PROVE h <= n
  <2>. SUFFICES ASSUME n + 1 <= h PROVE FALSE
    BY <1>6
  <2>1. (n + 1) * v <= h * v
    BY <1>4, <1>6, ScaleLeq
  <2>. QED  BY <1>1, <1>4, <1>5, <1>6, <1>8, <2>1
<1>9. ASSUME NEW n \in Int, n * b <= a PROVE n <= h
  <2>. SUFFICES ASSUME h + 1 <= n PROVE FALSE
    BY <1>6
  <2>1. (h + 1) * v <= n * v
    BY <1>4, <1>6, ScaleLeq
  <2>. QED  BY <1>1, <1>4, <1>5, <1>6, <1>9, <2>1
<1>. QED  BY <1>3, <1>6, <1>7, <1>8, <1>9 DEF h

(* How far rounding moves a fraction.                                        *)
LEMMA CeilIsNear ==
    ASSUME NEW x, NEW n \in Int, NEW d \in Nat \ {0}, IsFrac(x, n, d)
    PROVE  Ceil(x) \in Int /\ n <= Ceil(x) * d /\ Ceil(x) * d <= n + d - 1
<1>. DEFINE c == Ceil(x)
<1>1. x \in Rat
  BY DEF IsFrac
<1>2. c \in Int /\ \A m \in Int : c <= m <=> Leq(x, Num(m))
  BY <1>1, CeilIsAbove
<1>. HIDE DEF c
<1>3. ASSUME NEW m \in Int PROVE c <= m <=> n <= m * d
  <2>1. IsFrac(Num(m), m, 1)
    BY NumIsRat DEF IsFrac
  <2>2. Leq(x, Num(m)) <=> n * 1 <= m * d
    BY <2>1, FracLeq
  <2>. QED  BY <1>2, <2>2
<1>4. n <= c * d
  BY <1>2, <1>3
<1>5. ~ (n <= (c - 1) * d)
  BY <1>2, <1>3
<1>6. (c - 1) * d = c * d - d /\ c * d \in Int
  BY <1>2
<1>. QED  BY <1>2, <1>4, <1>5, <1>6 DEF c

(* Rounding down loses less than one.                                        *)
LEMMA FloorIsNear ==
    ASSUME NEW x, NEW n \in Int, NEW d \in Nat \ {0}, IsFrac(x, n, d)
    PROVE  Floor(x) \in Int /\ Floor(x) * d <= n /\ n <= Floor(x) * d + d - 1
<1>. DEFINE c == Floor(x)
<1>1. x \in Rat
  BY DEF IsFrac
<1>2. c \in Int /\ \A m \in Int : m <= c <=> Leq(Num(m), x)
  BY <1>1, FloorIsBelow
<1>. HIDE DEF c
<1>3. ASSUME NEW m \in Int PROVE m <= c <=> m * d <= n
  <2>1. IsFrac(Num(m), m, 1)
    BY NumIsRat DEF IsFrac
  <2>2. Leq(Num(m), x) <=> m * d <= n * 1
    BY <2>1, FracLeq
  <2>. QED  BY <1>2, <2>2
<1>4. c * d <= n
  BY <1>2, <1>3
<1>5. ~ ((c + 1) * d <= n)
  BY <1>2, <1>3
<1>6. (c + 1) * d = c * d + d /\ c * d \in Int
  BY <1>2
<1>. QED  BY <1>2, <1>4, <1>5, <1>6 DEF c

(* Rounding to the nearest moves by at most a half.                          *)
LEMMA HalfUpIsNear ==
    ASSUME NEW x \in NonNeg, NEW n \in Nat, NEW d \in Nat \ {0}, IsFrac(x, n, d)
    PROVE  /\ HalfUp(x) \in Nat
           /\ 2 * (HalfUp(x) * d) <= 2 * n + d
           /\ 2 * n <= 2 * (HalfUp(x) * d) + d
<1>. DEFINE a == x[1]
            b == x[2]
            h == HalfUp(x)
<1>1. a \in Nat /\ b \in Nat \ {0} /\ a * d = n * b
  BY NumIsRat, RatParts DEF IsFrac
<1>2. h = (2 * a + b) \div (2 * b)
  BY <1>1 DEF HalfUp
<1>3. h \in Nat
  BY HalfUpOfNonNeg
<1>. HIDE DEF a, b, h
<1>. DEFINE u == 2 * a + b
            v == 2 * b
<1>4. u \in Int /\ v \in Nat \ {0} /\ h = u \div v
  BY <1>1, <1>2
<1>. HIDE DEF u, v
<1>5. v * h <= u /\ u <= v * h + v
  BY <1>3, <1>4, Division
<1>6. 2 * (h * b) <= 2 * a + b /\ 2 * a <= 2 * (h * b) + b
  BY <1>1, <1>3, <1>5 DEF u, v
<1>. DEFINE l == 2 * (h * b)
            r == 2 * a
<1>7. l \in Int /\ r \in Int /\ l <= r + b /\ r <= l + b
  BY <1>1, <1>3, <1>6
<1>8. l * d = (2 * (h * d)) * b /\ r * d = (2 * n) * b
  <2>1. (2 * (h * b)) * d = (2 * (h * d)) * b
    BY <1>1, <1>3
  <2>2. (2 * a) * d = 2 * (a * d) /\ 2 * (n * b) = (2 * n) * b
    BY <1>1
  <2>. QED  BY <1>1, <2>1, <2>2
<1>. HIDE DEF l, r
<1>9. l * d <= (r + b) * d /\ r * d <= (l + b) * d
  BY <1>1, <1>7, ScaleLeq
<1>. DEFINE p == 2 * (h * d)
            q == 2 * n
<1>10. p \in Int /\ q \in Int /\ p + d \in Int /\ q + d \in Int
  BY <1>3
<1>11. p * b <= (q + d) * b /\ q * b <= (p + d) * b
  <2>1. (r + b) * d = r * d + b * d /\ (l + b) * d = l * d + b * d
    BY <1>1, <1>7
  <2>2. l * d = p * b /\ r * d = q * b
    BY <1>8
  <2>. HIDE DEF p, q
  <2>3. (q + d) * b = q * b + b * d /\ (p + d) * b = p * b + b * d
    BY <1>1, <1>10
  <2>. QED  BY <1>9, <2>1, <2>2, <2>3
<1>. HIDE DEF p, q
<1>12. p <= q + d /\ q <= p + d
  BY <1>1, <1>10, <1>11, CancelLeq
<1>. QED  BY <1>3, <1>12 DEF p, q, h

-----------------------------------------------------------------------------
(* Operations on fractions that are known by what they stand for.            *)

LEMMA ProductOfFracs ==
    ASSUME NEW x, NEW n \in Int, NEW d \in Nat \ {0}, IsFrac(x, n, d),
           NEW y, NEW m \in Int, NEW e \in Nat \ {0}, IsFrac(y, m, e)
    PROVE  IsFrac(Times(x, y), n * m, d * e)
<1>. DEFINE t == Times(x, y)
            a == x[1]
            p == x[2]
            b == y[1]
            q == y[2]
<1>1. x \in Rat /\ a \in Int /\ p \in Nat \ {0} /\ a * d = n * p
  BY RatParts DEF IsFrac
<1>2. y \in Rat /\ b \in Int /\ q \in Nat \ {0} /\ b * e = m * q
  BY RatParts DEF IsFrac
<1>3. IsFrac(t, a * b, p * q)
  BY <1>1, <1>2, TimesValue
<1>. HIDE DEF t, a, b, p, q
<1>4. t \in Rat /\ t[1] \in Int /\ t[2] \in Nat \ {0} /\ t[1] * (p * q) = (a * b) * t[2]
  BY <1>3, RatParts DEF IsFrac
<1>. DEFINE k == p * q
            l == t[1] * (d * e)
            r == (n * m) * t[2]
<1>5. k \in Nat \ {0} /\ l \in Int /\ r \in Int
  BY <1>1, <1>2, <1>4
<1>6. l * k = r * k
  <2>1. (t[1] * (d * e)) * (p * q) = (t[1] * (p * q)) * (d * e)
    BY <1>1, <1>2, <1>4
  <2>2. ((a * b) * t[2]) * (d * e) = ((a * d) * (b * e)) * t[2]
    BY <1>1, <1>2, <1>4
  <2>3. ((n * p) * (m * q)) * t[2] = ((n * m) * t[2]) * (p * q)
    BY <1>1, <1>2, <1>4
  <2>. QED  BY <1>1, <1>2, <1>4, <2>1, <2>2, <2>3
<1>. HIDE DEF k, l, r
<1>7. l = r
  BY <1>5, <1>6
<1>. QED  BY <1>4, <1>7 DEF IsFrac, l, r, t

(* What the inverse of a positive number stands for.                         *)
LEMMA InverseOfFrac ==
    ASSUME NEW y, NEW m \in Nat \ {0}, NEW e \in Nat \ {0}, IsFrac(y, m, e)
    PROVE  y \in Rat /\ y[1] > 0 /\ IsFrac(<<y[2], y[1]>>, e, m)
<1>. DEFINE b == y[1]
            q == y[2]
<1>1. y \in Rat /\ b \in Int /\ q \in Nat \ {0} /\ b * e = m * q
  BY RatParts DEF IsFrac
<1>2. b > 0
  BY SignOfFrac
<1>. HIDE DEF b, q
<1>3. <<q, b>> \in Rat /\ q * m = e * b
  BY <1>1, <1>2 DEF Rat
<1>. QED  BY <1>1, <1>2, <1>3 DEF IsFrac, b, q

(* What a quotient stands for.                                               *)
LEMMA QuotientOfFracs ==
    ASSUME NEW x, NEW n \in Int, NEW d \in Nat \ {0}, IsFrac(x, n, d),
           NEW y, NEW m \in Nat \ {0}, NEW e \in Nat \ {0}, IsFrac(y, m, e)
    PROVE  IsFrac(Over(x, y), n * e, d * m)
<1>. DEFINE z == <<y[2], y[1]>>
<1>1. y[1] > 0 /\ IsFrac(z, e, m)
  BY InverseOfFrac
<1>2. Over(x, y) = Times(x, z)
  BY <1>1 DEF Over
<1>. HIDE DEF z
<1>. QED  BY <1>1, <1>2, ProductOfFracs

(* What a sum stands for.                                                    *)
LEMMA SumOfFracs ==
    ASSUME NEW x, NEW n \in Int, NEW d \in Nat \ {0}, IsFrac(x, n, d),
           NEW y, NEW m \in Int, NEW e \in Nat \ {0}, IsFrac(y, m, e)
    PROVE  IsFrac(Plus(x, y), n * e + m * d, d * e)
<1>. DEFINE t == Plus(x, y)
            a == x[1]
            p == x[2]
            b == y[1]
            q == y[2]
<1>1. x \in Rat /\ a \in Int /\ p \in Nat \ {0} /\ a * d = n * p
  BY RatParts DEF IsFrac
<1>2. y \in Rat /\ b \in Int /\ q \in Nat \ {0} /\ b * e = m * q
  BY RatParts DEF IsFrac
<1>3. IsFrac(t, a * q + b * p, p * q)
  BY <1>1, <1>2, PlusValue
<1>. HIDE DEF t, a, b, p, q
<1>4. t \in Rat /\ t[1] \in Int /\ t[2] \in Nat \ {0} /\ t[1] * (p * q) = (a * q + b * p) * t[2]
  BY <1>3, RatParts DEF IsFrac
<1>. DEFINE k == p * q
            l == t[1] * (d * e)
            r == (n * e + m * d) * t[2]
<1>5. k \in Nat \ {0} /\ l \in Int /\ r \in Int
  BY <1>1, <1>2, <1>4
<1>6. l * k = r * k
  <2>1. (t[1] * (d * e)) * (p * q) = (t[1] * (p * q)) * (d * e)
    BY <1>1, <1>2, <1>4
  <2>2. ((a * q + b * p) * t[2]) * (d * e) = ((a * d) * (q * e) + (b * e) * (p * d)) * t[2]
    BY <1>1, <1>2, <1>4
  <2>3. ((n * p) * (q * e) + (m * q) * (p * d)) * t[2] = ((n * e + m * d) * t[2]) * (p * q)
    BY <1>1, <1>2, <1>4
  <2>. QED  BY <1>1, <1>2, <1>4, <2>1, <2>2, <2>3
<1>. HIDE DEF k, l, r
<1>7. l = r
  BY <1>5, <1>6
<1>. QED  BY <1>4, <1>7 DEF IsFrac, l, r, t

(* What a difference stands for.                                             *)
LEMMA DifferenceOfFracs ==
    ASSUME NEW x, NEW n \in Int, NEW d \in Nat \ {0}, IsFrac(x, n, d),
           NEW y, NEW m \in Int, NEW e \in Nat \ {0}, IsFrac(y, m, e)
    PROVE  IsFrac(Minus(x, y), n * e - m * d, d * e)
<1>. DEFINE k == -m
<1>1. k \in Int /\ IsFrac(Neg(y), k, e)
  BY NegValue, RatParts DEF IsFrac
<1>. HIDE DEF k
<1>2. IsFrac(Plus(x, Neg(y)), n * e + k * d, d * e)
  BY <1>1, SumOfFracs
<1>3. n * e + k * d = n * e - m * d
  BY DEF k
<1>. QED  BY <1>2, <1>3 DEF Minus

(* Zero over any denominator is zero.                                        *)
LEMMA FracOfNothing ==
    ASSUME NEW d \in Nat \ {0}
    PROVE  Frac(0, d) = Zero
<1>1. Abs(0) = 0 /\ 0 % d = 0
  BY DEF Abs
<1>2. Gcd[d][0] = d
  <2>1. Gcd[d][0] = Gcd[0][d]
    BY <1>1, GcdUnfolds
  <2>2. Gcd[0][d] = d
    BY GcdUnfolds
  <2>. QED  BY <2>1, <2>2
<1>3. 0 \div d = 0 /\ d \div d = 1
  BY DivideOut
<1>. QED  BY <1>1, <1>2, <1>3 DEF Frac, Zero, Num

(* There is one zero.                                                        *)
LEMMA DifferenceIsZero ==
    ASSUME NEW x \in Rat, NEW y \in Rat, Minus(x, y)[1] = 0
    PROVE  Minus(x, y) = Zero
<1>. DEFINE n == x[1] * Neg(y)[2] + Neg(y)[1] * x[2]
            d == x[2] * Neg(y)[2]
<1>1. Minus(x, y) = Frac(n, d)
  BY DEF Minus, Plus
<1>2. n \in Int /\ d \in Nat \ {0}
  BY NegValue, RatParts
<1>. HIDE DEF n, d
<1>3. n = 0
  <2>. DEFINE t == Frac(n, d)
  <2>1. IsFrac(t, n, d) /\ t[1] = 0
    BY <1>1, <1>2, FracValue
  <2>2. t[2] \in Nat \ {0} /\ 0 * d = n * t[2]
    BY <2>1, RatParts DEF IsFrac
  <2>. HIDE DEF t
  <2>. QED  BY <1>2, <2>2
<1>. QED  BY <1>1, <1>2, <1>3, FracOfNothing

(* A quotient is compared by the product.                                    *)
LEMMA OverAsFactor ==
    ASSUME NEW y \in Rat, NEW m \in Rat, NEW t \in Rat, t[1] > 0
    PROVE  /\ Over(m, t) \in Rat
           /\ Leq(y, Over(m, t)) <=> Leq(Times(y, t), m)
           /\ Leq(Over(m, t), y) <=> Leq(m, Times(y, t))
<1>. DEFINE a == y[1]
            b == y[2]
            c == m[1]
            d == m[2]
            e == t[1]
            f == t[2]
<1>1. a \in Int /\ b \in Nat \ {0} /\ c \in Int /\ d \in Nat \ {0} /\ e \in Nat \ {0} /\ f \in Nat \ {0}
  BY RatParts
<1>2. IsFrac(Over(m, t), c * f, d * e) /\ IsFrac(Times(y, t), a * e, b * f) /\ IsFrac(y, a, b) /\ IsFrac(m, c, d)
  BY OverValue, TimesValue, RatIsFrac
<1>. HIDE DEF a, b, c, d, e, f
<1>3. c * f \in Int /\ d * e \in Nat \ {0} /\ a * e \in Int /\ b * f \in Nat \ {0}
  BY <1>1
<1>4. Leq(y, Over(m, t)) <=> a * (d * e) <= (c * f) * b
  BY <1>1, <1>2, <1>3, FracLeq
<1>5. Leq(Times(y, t), m) <=> (a * e) * d <= c * (b * f)
  BY <1>1, <1>2, <1>3, FracLeq
<1>6. Leq(Over(m, t), y) <=> (c * f) * b <= a * (d * e)
  BY <1>1, <1>2, <1>3, FracLeq
<1>7. Leq(m, Times(y, t)) <=> c * (b * f) <= (a * e) * d
  BY <1>1, <1>2, <1>3, FracLeq
<1>8. a * (d * e) = (a * e) * d /\ (c * f) * b = c * (b * f)
  BY <1>1
<1>. QED  BY <1>2, <1>4, <1>5, <1>6, <1>7, <1>8 DEF IsFrac

(* A quotient by a positive number grows with the dividend.                  *)
LEMMA OverIsMonotone ==
    ASSUME NEW m \in Rat, NEW n \in Rat, NEW t \in Rat, t[1] > 0, Leq(m, n)
    PROVE  Leq(Over(m, t), Over(n, t))
<1>. DEFINE y == Over(m, t)
            z == Times(y, t)
<1>1. y \in Rat
  BY OverAsFactor
<1>2. Leq(y, y)
  BY <1>1, LeqIsTotal
<1>3. Leq(z, m)
  BY <1>1, <1>2, OverAsFactor
<1>4. z \in Rat
  BY <1>1, TimesValue DEF IsFrac
<1>. HIDE DEF z
<1>5. Leq(z, n)
  BY <1>3, <1>4, LeqIsTransitive
<1>. HIDE DEF y
<1>6. Leq(y, Over(n, t))
  BY <1>1, <1>5, OverAsFactor DEF z
<1>. QED  BY <1>6 DEF y

(* Rounding to units of 1 / u.                                               *)
LEMMA RoundedToUnits ==
    ASSUME NEW u \in Nat \ {0}, NEW x \in Rat
    PROVE  LET low == Frac(Floor(Times(x, Num(u))), u)
               high == Frac(Ceil(Times(x, Num(u))), u)
           IN  /\ low \in Rat /\ high \in Rat /\ Leq(low, x) /\ Leq(x, high)
               /\ \A y \in Rat : Leq(x, y) => /\ Leq(low, Frac(Floor(Times(y, Num(u))), u))
                                              /\ Leq(high, Frac(Ceil(Times(y, Num(u))), u))
<1>1. Num(u) \in Rat /\ IsFrac(Num(u), u, 1)
  BY NumIsRat DEF IsFrac
<1>2. ASSUME NEW y \in Rat
      PROVE  /\ Times(y, Num(u)) \in Rat /\ IsFrac(Times(y, Num(u)), y[1] * u, y[2] * 1)
             /\ y[1] \in Int /\ y[2] \in Nat \ {0} /\ y[2] * 1 = y[2]
             /\ Floor(Times(y, Num(u))) \in Int /\ Ceil(Times(y, Num(u))) \in Int
  <2>1. y[1] \in Int /\ y[2] \in Nat \ {0} /\ IsFrac(y, y[1], y[2])
    BY RatParts, RatIsFrac
  <2>2. IsFrac(Times(y, Num(u)), y[1] * u, y[2] * 1)
    <3>. DEFINE n == y[1]
                d == y[2]
                one == 1
                v == Num(u)
    <3>1. n \in Int /\ d \in Nat \ {0} /\ IsFrac(y, n, d) /\ one \in Nat \ {0} /\ IsFrac(v, u, one) /\ u \in Int
      BY <1>1, <2>1
    <3>. HIDE DEF n, d, one, v
    <3>2. IsFrac(Times(y, v), n * u, d * one)
      BY <3>1, ProductOfFracs
    <3>. QED  BY <3>2 DEF n, d, one, v
  <2>3. Times(y, Num(u)) \in Rat
    BY <2>2 DEF IsFrac
  <2>. QED  BY <2>1, <2>2, <2>3, FloorIsBelow, CeilIsAbove
<1>3. ASSUME NEW j \in Int PROVE Frac(j, u) \in Rat /\ IsFrac(Frac(j, u), j, u)
  BY FracValue DEF IsFrac
<1>4. ASSUME NEW j \in Int, NEW k \in Int, j <= k PROVE Leq(Frac(j, u), Frac(k, u))
  <2>1. j * u <= k * u
    BY <1>4, ScaleLeq
  <2>. QED  BY <1>3, <2>1, FracLeq
<1>. DEFINE w == Times(x, Num(u))
            f == Floor(w)
            c == Ceil(w)
            a == x[1]
            b == x[2]
<1>5. w \in Rat /\ IsFrac(w, a * u, b) /\ a \in Int /\ b \in Nat \ {0} /\ f \in Int /\ c \in Int /\ a * u \in Int
  BY <1>2
<1>6. IsFrac(x, a, b)
  BY RatIsFrac
<1>. HIDE DEF w, a, b
<1>7. f * b <= a * u /\ a * u <= c * b
  BY <1>5, FloorIsNear, CeilIsNear
<1>. HIDE DEF f, c
<1>8. Leq(Frac(f, u), x) /\ Leq(x, Frac(c, u))
  <2>1. Leq(Frac(f, u), x) <=> f * b <= a * u
    BY <1>3, <1>5, <1>6, FracLeq
  <2>2. Leq(x, Frac(c, u)) <=> a * u <= c * b
    BY <1>3, <1>5, <1>6, FracLeq
  <2>. QED  BY <1>7, <2>1, <2>2
<1>9. ASSUME NEW y \in Rat, Leq(x, y)
      PROVE  Leq(Frac(f, u), Frac(Floor(Times(y, Num(u))), u)) /\ Leq(Frac(c, u), Frac(Ceil(Times(y, Num(u))), u))
  <2>. DEFINE v == Times(y, Num(u))
              g == Floor(v)
              h == Ceil(v)
              l == y[1]
              m == y[2]
  <2>1. v \in Rat /\ IsFrac(v, l * u, m) /\ l \in Int /\ m \in Nat \ {0} /\ g \in Int /\ h \in Int /\ l * u \in Int
    BY <1>2
  <2>2. a * m <= l * b
    BY <1>9 DEF Leq, a, b
  <2>. HIDE DEF v, l, m
  <2>3. (a * u) * m <= (l * u) * b
    <3>1. a * m \in Int /\ l * b \in Int /\ u \in Nat
      BY <1>5, <2>1
    <3>2. (a * m) * u <= (l * b) * u
      BY <2>2, <3>1, ScaleLeq
    <3>3. (a * m) * u = (a * u) * m /\ (l * b) * u = (l * u) * b
      BY <1>5, <2>1
    <3>. QED  BY <3>2, <3>3
  <2>4. Leq(w, v)
    BY <1>5, <2>1, <2>3, FracLeq
  <2>5. f <= g /\ c <= h
    BY <1>5, <2>1, <2>4, RoundingIsMonotone DEF f, c
  <2>. HIDE DEF g, h
  <2>6. Leq(Frac(f, u), Frac(g, u)) /\ Leq(Frac(c, u), Frac(h, u))
    BY <1>4, <1>5, <2>1, <2>5
  <2>. QED  BY <2>6 DEF g, h, v
<1>10. Frac(f, u) \in Rat /\ Frac(c, u) \in Rat
  BY <1>3, <1>5
<1>. QED  BY <1>8, <1>9, <1>10 DEF f, c, w

(* A percentage with so many decimal places, rounded up, that is within a    *)
(* limit leaves what it was rounded from within the limit.                   *)
LEMMA LimitOfPercent ==
    ASSUME NEW x \in Rat, NEW i \in Rat, NEW c \in Nat \ {0}, NEW e \in Nat \ {0},
           Leq(Frac(Ceil(Times(x, Num(c * e))), e), Times(i, Num(c)))
    PROVE  Leq(x, i)
<1>. DEFINE a == x[1]
            b == x[2]
            g == i[1]
            h == i[2]
            one == 1
            m == c * e
            v == Num(m)
            w == Num(c)
            y == Times(x, v)
            k == Ceil(y)
            z == Times(i, w)
<1>1. a \in Int /\ b \in Nat \ {0} /\ g \in Int /\ h \in Nat \ {0} /\ IsFrac(x, a, b) /\ IsFrac(i, g, h)
  BY RatParts, RatIsFrac
<1>2. one \in Nat \ {0} /\ m \in Nat \ {0} /\ m \in Int /\ c \in Int /\ IsFrac(v, m, one) /\ IsFrac(w, c, one)
  <2>1. m \in Nat \ {0} /\ m \in Int
    OBVIOUS
  <2>. HIDE DEF m
  <2>. QED  BY <2>1, NumIsRat DEF IsFrac
<1>3. Leq(Frac(k, e), z)
  BY DEF k, y, z, v, w, m
<1>. HIDE DEF a, b, g, h, one, v, w, m
<1>4. IsFrac(y, a * m, b * one) /\ IsFrac(z, g * c, h * one)
  BY <1>1, <1>2, ProductOfFracs
<1>5. b * one = b /\ h * one = h /\ a * m \in Int /\ g * c \in Int
  BY <1>1, <1>2 DEF one
<1>. HIDE DEF y, z
<1>6. k \in Int /\ a * m <= k * b
  BY <1>1, <1>4, <1>5, CeilIsNear
<1>. HIDE DEF k
<1>7. k * h <= (g * c) * e
  BY <1>1, <1>3, <1>4, <1>5, <1>6, FracValue, FracLeq
<1>8. a * h <= g * b
  <2>1. (a * m) * h <= (k * b) * h
    BY <1>1, <1>5, <1>6, ScaleLeq
  <2>2. k * h \in Int /\ (g * c) * e \in Int /\ (k * h) * b <= ((g * c) * e) * b
    <3>1. k * h \in Int /\ (g * c) * e \in Int
      BY <1>1, <1>5, <1>6
    <3>. QED  BY <1>1, <1>7, <3>1, ScaleLeq
  <2>3. (k * b) * h = (k * h) * b /\ (a * m) * h = (a * h) * m /\ ((g * c) * e) * b = (g * b) * m
    BY <1>1, <1>2, <1>6 DEF m
  <2>4. (a * h) * m \in Int /\ (k * h) * b \in Int /\ (g * b) * m \in Int /\ a * h \in Int /\ g * b \in Int
    BY <1>1, <1>2, <1>6
  <2>5. (a * h) * m <= (g * b) * m
    BY <2>1, <2>2, <2>3, <2>4
  <2>. QED  BY <1>2, <2>4, <2>5, CancelLeq
<1>. QED  BY <1>1, <1>8, FracLeq

(* If q of the one token are bought for each of the other, and the rate q is *)
(* below the one of the prices b and s of the tokens by no more than i, then *)
(* so is what is bought.                                                     *)
LEMMA RateIsLimited ==
    ASSUME NEW q \in Rat, NEW b \in Rat, b[1] > 0, NEW s \in Rat, s[1] > 0, NEW i \in Rat,
           NEW sold \in NonNeg, NEW bought \in Rat,
           Leq(Times(q, sold), bought), Leq(Minus(One, Over(q, Over(b, s))), i)
    PROVE  Leq(Times(Minus(One, i), Times(sold, b)), Times(bought, s))
<1>. DEFINE one == 1
            q1 == q[1]
            q2 == q[2]
            b1 == b[1]
            b2 == b[2]
            s1 == s[1]
            s2 == s[2]
            i1 == i[1]
            i2 == i[2]
            t1 == sold[1]
            t2 == sold[2]
            v1 == bought[1]
            v2 == bought[2]
<1>1. q1 \in Int /\ q2 \in Nat \ {0} /\ i1 \in Int /\ i2 \in Nat \ {0} /\ v1 \in Int /\ v2 \in Nat \ {0}
  BY RatParts
<1>2. b1 \in Nat \ {0} /\ b2 \in Nat \ {0} /\ s1 \in Nat \ {0} /\ s2 \in Nat \ {0}
  BY RatParts
<1>3. sold \in Rat /\ t1 \in Nat /\ t2 \in Nat \ {0}
  BY NumIsRat, RatParts
<1>4. /\ IsFrac(q, q1, q2) /\ IsFrac(b, b1, b2) /\ IsFrac(s, s1, s2) /\ IsFrac(i, i1, i2)
      /\ IsFrac(sold, t1, t2) /\ IsFrac(bought, v1, v2)
  BY <1>3, RatIsFrac
<1>5. one \in Nat \ {0} /\ one \in Int /\ IsFrac(One, one, one)
  BY NumIsRat DEF One, IsFrac
<1>. HIDE DEF one, q1, q2, b1, b2, s1, s2, i1, i2, t1, t2, v1, v2
<1>. DEFINE r1 == b1 * s2
            r2 == b2 * s1
            n1 == q1 * r2
            n2 == q2 * r1
<1>6. r1 \in Nat \ {0} /\ r2 \in Nat \ {0} /\ n1 \in Int /\ n2 \in Nat \ {0}
  BY <1>1, <1>2
<1>7. IsFrac(Over(b, s), r1, r2)
  BY <1>2, <1>4, QuotientOfFracs
<1>. HIDE DEF r1, r2
<1>8. IsFrac(Over(q, Over(b, s)), n1, n2)
  <2>. DEFINE r == Over(b, s)
  <2>. HIDE DEF r
  <2>1. IsFrac(Over(q, r), n1, n2)
    BY <1>1, <1>4, <1>6, <1>7, QuotientOfFracs DEF r
  <2>. QED  BY <2>1 DEF r
<1>. HIDE DEF n1, n2
<1>9. (i2 - i1) * n2 <= n1 * i2
  <2>. DEFINE r == Over(q, Over(b, s))
              x == Minus(One, r)
  <2>1. IsFrac(x, one * n2 - n1 * one, one * n2)
    <3>. HIDE DEF r
    <3>1. IsFrac(Minus(One, r), one * n2 - n1 * one, one * n2)
      BY <1>5, <1>6, <1>8, DifferenceOfFracs DEF r
    <3>. QED  BY <3>1
  <2>2. one * n2 - n1 * one = n2 - n1 /\ one * n2 = n2 /\ n2 - n1 \in Int
    BY <1>6 DEF one
  <2>3. Leq(x, i)
    OBVIOUS
  <2>. HIDE DEF x
  <2>4. (n2 - n1) * i2 <= i1 * n2
    <3>. DEFINE y == n2 - n1
    <3>1. y \in Int /\ IsFrac(x, y, n2)
      BY <2>1, <2>2
    <3>. HIDE DEF y
    <3>2. y * i2 <= i1 * n2
      BY <1>1, <1>4, <1>6, <2>3, <3>1, FracLeq
    <3>. QED  BY <3>2 DEF y
  <2>5. (n2 - n1) * i2 = n2 * i2 - n1 * i2 /\ (i2 - i1) * n2 = n2 * i2 - i1 * n2
    BY <1>1, <1>6
  <2>6. n2 * i2 \in Int /\ n1 * i2 \in Int /\ i1 * n2 \in Int
    BY <1>1, <1>6
  <2>. QED  BY <2>4, <2>5, <2>6
<1>10. (q1 * t1) * v2 <= v1 * (q2 * t2)
  <2>1. IsFrac(Times(q, sold), q1 * t1, q2 * t2) /\ q1 * t1 \in Int /\ q2 * t2 \in Nat \ {0}
    BY <1>1, <1>3, <1>4, ProductOfFracs
  <2>. QED  BY <1>1, <1>4, <2>1, FracLeq
<1>. DEFINE l == i2 - i1
            x == Minus(One, i)
            y == Times(sold, b)
            left == Times(x, y)
            right == Times(bought, s)
<1>11. l \in Int
  BY <1>1
<1>12. IsFrac(x, l, i2)
  <2>1. IsFrac(x, one * i2 - i1 * one, one * i2)
    BY <1>1, <1>4, <1>5, DifferenceOfFracs
  <2>2. one * i2 - i1 * one = i2 - i1 /\ one * i2 = i2
    BY <1>1 DEF one
  <2>. QED  BY <2>1, <2>2
<1>13. IsFrac(y, t1 * b1, t2 * b2) /\ t1 * b1 \in Int /\ t2 * b2 \in Nat \ {0}
  BY <1>2, <1>3, <1>4, ProductOfFracs
<1>14. l * n2 <= n1 * i2
  BY <1>9
<1>. HIDE DEF l, x, y
<1>15. IsFrac(left, l * (t1 * b1), i2 * (t2 * b2))
  BY <1>1, <1>11, <1>12, <1>13, ProductOfFracs
<1>16. IsFrac(right, v1 * s1, v2 * s2)
  BY <1>1, <1>2, <1>4, ProductOfFracs
<1>17. (l * (t1 * b1)) * (v2 * s2) <= (v1 * s1) * (i2 * (t2 * b2))
  <2>. DEFINE k == t1 * v2
              m == (i2 * b2) * s1
  <2>1. k \in Nat /\ m \in Nat
    BY <1>1, <1>2, <1>3
  <2>2. (l * n2) * k <= (n1 * i2) * k
    <3>1. l * n2 \in Int /\ n1 * i2 \in Int
      BY <1>1, <1>6, <1>11
    <3>. HIDE DEF k
    <3>. QED  BY <1>14, <2>1, <3>1, ScaleLeq
  <2>3. ((q1 * t1) * v2) * m <= (v1 * (q2 * t2)) * m
    <3>1. (q1 * t1) * v2 \in Int /\ v1 * (q2 * t2) \in Int
      BY <1>1, <1>3
    <3>. HIDE DEF m
    <3>. QED  BY <1>10, <2>1, <3>1, ScaleLeq
  <2>4. (n1 * i2) * k = ((q1 * t1) * v2) * m
    BY <1>1, <1>2, <1>3 DEF n1, r2
  <2>5. (l * n2) * k = ((l * (t1 * b1)) * (v2 * s2)) * q2
    BY <1>1, <1>2, <1>3, <1>11 DEF n2, r1
  <2>6. (v1 * (q2 * t2)) * m = ((v1 * s1) * (i2 * (t2 * b2))) * q2
    BY <1>1, <1>2, <1>3
  <2>7. /\ (l * (t1 * b1)) * (v2 * s2) \in Int /\ (v1 * s1) * (i2 * (t2 * b2)) \in Int
        /\ (n1 * i2) * k \in Int
    BY <1>1, <1>2, <1>3, <1>6, <1>11
  <2>. DEFINE c == (l * (t1 * b1)) * (v2 * s2)
              d == (v1 * s1) * (i2 * (t2 * b2))
              e == (n1 * i2) * k
  <2>8. c * q2 <= e /\ e <= d * q2 /\ c \in Int /\ d \in Int /\ e \in Int
    BY <2>2, <2>3, <2>4, <2>5, <2>6, <2>7
  <2>. HIDE DEF c, d, e
  <2>9. c * q2 <= d * q2
    BY <1>1, <2>8
  <2>10. c <= d
    BY <1>1, <2>8, <2>9, CancelLeq
  <2>. QED  BY <2>10 DEF c, d
<1>18. l * (t1 * b1) \in Int /\ i2 * (t2 * b2) \in Nat \ {0} /\ v1 * s1 \in Int /\ v2 * s2 \in Nat \ {0}
  BY <1>1, <1>2, <1>3, <1>11, <1>13
<1>. DEFINE lo == l * (t1 * b1)
            ld == i2 * (t2 * b2)
            hi == v1 * s1
            hd == v2 * s2
<1>19. lo \in Int /\ ld \in Nat \ {0} /\ hi \in Int /\ hd \in Nat \ {0} /\ IsFrac(left, lo, ld) /\ IsFrac(right, hi, hd) /\ lo * hd <= hi * ld
  BY <1>15, <1>16, <1>17, <1>18
<1>. HIDE DEF lo, ld, hi, hd, left, right
<1>20. Leq(left, right)
  BY <1>19, FracLeq
<1>. QED  BY <1>20 DEF left, right, x, y
-----------------------------------------------------------------------------
(* The powers of ten.                                                          *)

NextTen(g, k) == IF k = 0 THEN 1 ELSE 10 * g[k - 1]
AreTens(g, n) == g = [k \in 0 .. n |-> NextTen(g, k)]

(* Each entry of a table of powers is what its definition says.              *)
LEMMA TensAreNext ==
    ASSUME NEW n \in Nat, NEW g, AreTens(g, n), NEW k \in 0 .. n
    PROVE  g[k] = NextTen(g, k)
<1>. DEFINE f == [j \in 0 .. n |-> NextTen(g, j)]
<1>1. f[k] = NextTen(g, k)
  OBVIOUS
<1>2. g = f
  BY DEF AreTens
<1>. HIDE DEF f
<1>3. g[k] = f[k]
  BY <1>2, Zenon
<1>. QED  BY <1>1, <1>3, Zenon

(* Two tables agree where both are defined.                                  *)
LEMMA TensAreUnique ==
    ASSUME NEW n \in Nat, NEW m \in Nat, n <= m, NEW g, NEW h, AreTens(g, n), AreTens(h, m)
    PROVE  g[n] = h[n]
<1>. DEFINE T == {k \in Nat : k <= n => g[k] = h[k]}
<1>1. 0 \in T
  <2>1. g[0] = NextTen(g, 0) /\ h[0] = NextTen(h, 0)
    BY TensAreNext
  <2>. QED  BY <2>1 DEF NextTen
<1>2. ASSUME NEW k \in Nat, k \in T PROVE k + 1 \in T
  <2>. SUFFICES ASSUME k + 1 <= n PROVE g[k + 1] = h[k + 1]
    OBVIOUS
  <2>1. k + 1 \in 0 .. n /\ k + 1 \in 0 .. m /\ k + 1 # 0 /\ (k + 1) - 1 = k
    OBVIOUS
  <2>2. g[k] = h[k]
    BY <1>2
  <2>3. g[k + 1] = NextTen(g, k + 1) /\ h[k + 1] = NextTen(h, k + 1)
    BY <2>1, TensAreNext
  <2>. QED  BY <2>1, <2>2, <2>3 DEF NextTen
<1>3. Nat \subseteq T
  <2>. HIDE DEF T
  <2>. QED  BY <1>1, <1>2, SetInduction
<1>. QED  BY <1>3

(* There is a table of every length.                                         *)
LEMMA TensExist == \A n \in Nat : \E g : AreTens(g, n)
<1>. DEFINE T == {n \in Nat : \E g : AreTens(g, n)}
<1>1. 0 \in T
  <2>. DEFINE g == [k \in 0 .. 0 |-> 1]
  <2>1. \A k \in 0 .. 0 : g[k] = NextTen(g, k)
    BY DEF NextTen
  <2>2. g = [k \in 0 .. 0 |-> g[k]]
    OBVIOUS
  <2>. HIDE DEF g
  <2>3. AreTens(g, 0)
    BY <2>1, <2>2 DEF AreTens
  <2>. QED  BY <2>3
<1>2. ASSUME NEW n \in Nat, n \in T PROVE n + 1 \in T
  <2>1. PICK g : AreTens(g, n)
    BY <1>2
  <2>. DEFINE h == [k \in 0 .. (n + 1) |-> NextTen(g, k)]
  <2>2. \A k \in 0 .. n : h[k] = g[k]
    BY <2>1, TensAreNext
  <2>3. ASSUME NEW k \in 0 .. (n + 1) PROVE h[k] = NextTen(h, k)
    <3>0. k # 0 => k - 1 \in 0 .. n
      OBVIOUS
    <3>2. h[k] = NextTen(g, k)
      OBVIOUS
    <3>. HIDE DEF h
    <3>1. k # 0 => h[k - 1] = g[k - 1]
      BY <2>2, <3>0
    <3>. QED  BY <3>1, <3>2 DEF NextTen
  <2>4. h = [k \in 0 .. (n + 1) |-> h[k]]
    OBVIOUS
  <2>. HIDE DEF h
  <2>5. AreTens(h, n + 1)
    BY <2>3, <2>4 DEF AreTens
  <2>. QED  BY <2>5
<1>. HIDE DEF T
<1>3. Nat \subseteq T
  BY <1>1, <1>2, SetInduction
<1>. QED  BY <1>3 DEF T

(* The recursive definition of the powers is one.                            *)
LEMMA TenToUnfolds == \A k \in Nat : TenTo[k] = IF k = 0 THEN 1 ELSE 10 * TenTo[k - 1]
<1>. DEFINE H(n) == CHOOSE g : AreTens(g, n)
            G == [k \in Nat |-> H(k)[k]]
            IsTen(g) == g = [k \in Nat |-> IF k = 0 THEN 1 ELSE 10 * g[k - 1]]
<1>1. \A n \in Nat : AreTens(H(n), n)
  BY TensExist
<1>. HIDE DEF H
<1>2. ASSUME NEW k \in Nat PROVE G[k] = NextTen(G, k)
  <2>1. H(k)[k] = NextTen(H(k), k)
    BY <1>1, TensAreNext
  <2>2. k # 0 => H(k)[k - 1] = G[k - 1]
    BY <1>1, TensAreUnique
  <2>3. G[k] = H(k)[k]
    OBVIOUS
  <2>. HIDE DEF G
  <2>. QED  BY <2>1, <2>2, <2>3 DEF NextTen
<1>3. G = [k \in Nat |-> G[k]]
  OBVIOUS
<1>. HIDE DEF G
<1>4. IsTen(G)
  BY <1>2, <1>3 DEF NextTen
<1>5. TenTo = CHOOSE g : IsTen(g)
  BY DEF TenTo
<1>6. IsTen(TenTo)
  BY <1>4, <1>5
<1>. QED  BY <1>6

(* A power of ten is positive, and larger than its exponent.                 *)
LEMMA TenIsPositive == \A k \in Nat : TenTo[k] \in Nat \ {0} /\ TenTo[k] > k
<1>. DEFINE T == {k \in Nat : TenTo[k] \in Nat \ {0} /\ TenTo[k] > k}
<1>1. 0 \in T
  BY TenToUnfolds
<1>2. ASSUME NEW k \in Nat, k \in T PROVE k + 1 \in T
  <2>1. TenTo[k + 1] = 10 * TenTo[k]
    <3>1. k + 1 \in Nat /\ k + 1 # 0 /\ (k + 1) - 1 = k
      OBVIOUS
    <3>. QED  BY <3>1, TenToUnfolds
  <2>. DEFINE t == TenTo[k]
  <2>2. t \in Nat \ {0} /\ t > k
    BY <1>2
  <2>. HIDE DEF t
  <2>3. 10 * t \in Nat \ {0} /\ 10 * t > k + 1
    BY <2>2
  <2>. QED  BY <2>1, <2>3 DEF t
<1>. HIDE DEF T
<1>3. Nat \subseteq T
  BY <1>1, <1>2, SetInduction
<1>. QED  BY <1>3 DEF T

(* Powers are multiplied by adding the exponents.                            *)
LEMMA TensMultiply == \A k \in Nat, n \in Nat : TenTo[k + n] = TenTo[k] * TenTo[n]
<1>. SUFFICES ASSUME NEW k \in Nat PROVE \A n \in Nat : TenTo[k + n] = TenTo[k] * TenTo[n]
  OBVIOUS
<1>. DEFINE T == {n \in Nat : TenTo[k + n] = TenTo[k] * TenTo[n]}
<1>1. 0 \in T
  <2>1. k + 0 = k /\ TenTo[0] = 1 /\ TenTo[k] \in Nat
    BY TenToUnfolds, TenIsPositive
  <2>. DEFINE t == TenTo[k]
  <2>. HIDE DEF t
  <2>2. t \in Nat => t * 1 = t
    OBVIOUS
  <2>. QED  BY <2>1, <2>2 DEF t
<1>2. ASSUME NEW n \in Nat, n \in T PROVE n + 1 \in T
  <2>1. /\ k + (n + 1) \in Nat /\ k + (n + 1) # 0 /\ (k + (n + 1)) - 1 = k + n
        /\ n + 1 \in Nat /\ n + 1 # 0 /\ (n + 1) - 1 = n
    OBVIOUS
  <2>2. TenTo[k + (n + 1)] = 10 * TenTo[k + n] /\ TenTo[n + 1] = 10 * TenTo[n]
    BY <2>1, TenToUnfolds
  <2>3. TenTo[k + n] = TenTo[k] * TenTo[n]
    BY <1>2
  <2>4. TenTo[k] \in Nat /\ TenTo[n] \in Nat
    BY TenIsPositive
  <2>. DEFINE t == TenTo[k]
              u == TenTo[n]
  <2>. HIDE DEF t, u
  <2>5. t \in Nat /\ u \in Nat => 10 * (t * u) = t * (10 * u)
    OBVIOUS
  <2>6. TenTo[k + (n + 1)] = TenTo[k] * TenTo[n + 1]
    BY <2>2, <2>3, <2>4, <2>5 DEF t, u
  <2>. QED  BY <2>6
<1>. HIDE DEF T
<1>3. Nat \subseteq T
  BY <1>1, <1>2, SetInduction
<1>. QED  BY <1>3 DEF T

(* So many digits from the first that is not zero: the number is moved by at *)
(* most five units of the digit after the last.                              *)
LEMMA PrecisionIsNear ==
    ASSUME NEW x \in Rat, x[1] > 0, NEW digits \in Nat \ {0}
    PROVE  LET y == ToPrecision(x, digits)
               r == Frac(5, TenTo[digits])
           IN  y \in NonNeg /\ Leq(y, Times(Plus(One, r), x)) /\ Leq(Times(Minus(One, r), x), y)
<1>. DEFINE n == x[1]
            d == x[2]
            E == TenTo[digits]
            r == Frac(5, E)
            reaches(k) == Leq(One, Times(x, Num(TenTo[k])))
            y == ToPrecision(x, digits)
<1>1. n \in Nat \ {0} /\ d \in Nat \ {0} /\ IsFrac(x, n, d) /\ x \in Rat
  BY RatParts, RatIsFrac
<1>2. E \in Nat \ {0}
  BY TenIsPositive
<1>3. ASSUME NEW k \in Nat PROVE reaches(k) <=> d <= n * TenTo[k]
  <2>. DEFINE t == TenTo[k]
  <2>1. t \in Nat \ {0}
    BY TenIsPositive
  <2>. HIDE DEF n, d, t
  <2>2. IsFrac(Num(t), t, 1)
    BY <2>1, NumIsRat, RatIsFrac
  <2>3. IsFrac(One, 1, 1)
    BY NumIsRat, RatIsFrac DEF One
  <2>4. IsFrac(Times(x, Num(t)), n * t, d * 1)
    BY <1>1, <2>1, <2>2, ProductOfFracs
  <2>5. n * t \in Int /\ d * 1 = d
    BY <1>1, <2>1
  <2>6. Leq(One, Times(x, Num(t))) <=> 1 * d <= (n * t) * 1
    BY <1>1, <2>3, <2>4, <2>5, FracLeq
  <2>. QED  BY <1>1, <2>5, <2>6 DEF t
<1>. DEFINE leading == CHOOSE k \in 0 .. d : reaches(k) /\ \A j \in 0 .. (k - 1) : ~ reaches(j)
<1>4. leading \in 0 .. d /\ reaches(leading)
  <2>1. reaches(d)
    <3>1. TenTo[d] \in Nat /\ TenTo[d] > d /\ d \in Nat
      BY <1>1, TenIsPositive
    <3>. DEFINE t == TenTo[d]
    <3>2. t \in Nat /\ t > d
      BY <3>1
    <3>. HIDE DEF n, d, t
    <3>3. d <= n * t
      BY <1>1, <3>2
    <3>. HIDE DEF reaches
    <3>. QED  BY <1>1, <1>3, <3>3 DEF t
  <2>. HIDE DEF reaches, d
  <2>2. \E k \in 0 .. d : reaches(k) /\ \A j \in 0 .. (k - 1) : ~ reaches(j)
    <3>. SUFFICES ASSUME \A k \in 0 .. d : reaches(k) => \E j \in 0 .. (k - 1) : reaches(j)
                  PROVE  FALSE
      OBVIOUS
    <3>. DEFINE T == {k \in Nat : k <= d => ~ reaches(k)}
    <3>1. ASSUME NEW k \in Nat, \A j \in Nat : j < k => j \in T PROVE k \in T
      <4>. SUFFICES ASSUME k <= d, reaches(k) PROVE FALSE
        OBVIOUS
      <4>1. PICK j \in 0 .. (k - 1) : reaches(j)
        BY <1>1
      <4>2. j \in Nat /\ j < k /\ j <= d
        BY <1>1
      <4>. QED  BY <3>1, <4>1, <4>2
    <3>2. Nat \subseteq T
      <4>. HIDE DEF T
      <4>. QED  BY <3>1, StrongInduction
    <3>. QED  BY <1>1, <2>1, <3>2
  <2>. QED  BY <2>2
<1>. DEFINE K == leading + digits - 1
            S == TenTo[K]
            h == HalfUp(Times(x, Num(S)))
            L == TenTo[leading]
<1>5. leading \in Nat /\ K \in Nat /\ K + 1 = leading + digits
  BY <1>1, <1>4
<1>6. x # Zero
  BY NumIsRat DEF Zero
<1>7. y = Frac(h, S)
  BY <1>6 DEF ToPrecision
<1>. HIDE DEF reaches
<1>8. d <= n * L
  BY <1>3, <1>4, <1>5
<1>9. 10 * S = L * E
  <2>1. TenTo[K + 1] = 10 * TenTo[K]
    <3>1. K + 1 \in Nat /\ K + 1 # 0 /\ (K + 1) - 1 = K
      BY <1>5
    <3>. HIDE DEF K
    <3>. QED  BY <3>1, TenToUnfolds
  <2>2. TenTo[leading + digits] = TenTo[leading] * TenTo[digits]
    BY <1>5, TensMultiply
  <2>. QED  BY <1>5, <2>1, <2>2
<1>10. S \in Nat \ {0} /\ L \in Nat \ {0}
  BY <1>5, TenIsPositive
<1>. HIDE DEF n, d, E, L, S, K, leading, y
<1>11. IsFrac(Times(x, Num(S)), n * S, d) /\ Times(x, Num(S)) \in NonNeg
  <2>1. IsFrac(Num(S), S, 1)
    BY <1>10, NumIsRat, RatIsFrac
  <2>2. IsFrac(Times(x, Num(S)), n * S, d * 1)
    BY <1>1, <1>10, <2>1, ProductOfFracs
  <2>3. x \in NonNeg /\ Num(S) \in NonNeg
    BY <1>1, <1>10, NumIsRat DEF NonNeg, n
  <2>. QED  BY <1>1, <2>2, <2>3, NonNegIsClosed
<1>12. n * S \in Nat
  BY <1>1, <1>10
<1>13. h \in Nat /\ 2 * (h * d) <= 2 * (n * S) + d /\ 2 * (n * S) <= 2 * (h * d) + d
  BY <1>1, <1>11, <1>12, HalfUpIsNear
<1>. HIDE DEF h
<1>14. IsFrac(y, h, S)
  BY <1>7, <1>10, <1>13, FracValue
<1>15. y \in NonNeg
  <2>1. y \in Rat /\ (h >= 0 <=> y[1] >= 0)
    BY <1>10, <1>13, <1>14, SignOfFrac
  <2>. QED  BY <1>13, <2>1 DEF NonNeg
<1>16. IsFrac(r, 5, E) /\ IsFrac(One, 1, 1)
  BY <1>2, FracValue, NumIsRat, RatIsFrac DEF One
<1>. HIDE DEF r
<1>17. IsFrac(Plus(One, r), E + 5, E) /\ IsFrac(Minus(One, r), E - 5, E)
  <2>1. IsFrac(Plus(One, r), 1 * E + 5 * 1, 1 * E)
    BY <1>2, <1>16, SumOfFracs
  <2>2. IsFrac(Minus(One, r), 1 * E - 5 * 1, 1 * E)
    BY <1>2, <1>16, DifferenceOfFracs
  <2>3. 1 * E + 5 * 1 = E + 5 /\ 1 * E - 5 * 1 = E - 5 /\ 1 * E = E
    BY <1>2
  <2>. QED  BY <2>1, <2>2, <2>3
<1>18. IsFrac(Times(Plus(One, r), x), (E + 5) * n, E * d) /\ IsFrac(Times(Minus(One, r), x), (E - 5) * n, E * d)
  <2>1. E + 5 \in Int /\ E - 5 \in Int
    BY <1>2
  <2>. QED  BY <1>1, <1>2, <1>17, <2>1, ProductOfFracs
<1>19. E * d <= 10 * (n * S)
  <2>1. d * E <= (n * L) * E
    <3>1. n * L \in Int
      BY <1>1, <1>10
    <3>. QED  BY <1>1, <1>2, <1>8, <3>1, ScaleLeq
  <2>2. (n * L) * E = n * (L * E) /\ n * (10 * S) = 10 * (n * S)
    BY <1>1, <1>2, <1>10
  <2>3. d * E = E * d
    BY <1>1, <1>2
  <2>. QED  BY <1>9, <2>1, <2>2, <2>3
<1>20. E * (2 * (h * d)) <= E * (2 * (n * S)) + E * d /\ E * (2 * (n * S)) <= E * (2 * (h * d)) + E * d
  <2>. DEFINE a == h * d
              b == n * S
  <2>1. a \in Nat /\ b \in Nat
    BY <1>1, <1>13, <1>12
  <2>2. 2 * a <= 2 * b + d /\ 2 * b <= 2 * a + d
    BY <1>13
  <2>. HIDE DEF a, b
  <2>3. (2 * a) * E <= (2 * b + d) * E /\ (2 * b) * E <= (2 * a + d) * E
    <3>1. 2 * a \in Int /\ 2 * b + d \in Int /\ 2 * b \in Int /\ 2 * a + d \in Int
      BY <1>1, <2>1
    <3>. QED  BY <1>2, <2>2, <3>1, ScaleLeq
  <2>4. /\ (2 * a) * E = E * (2 * a) /\ (2 * b + d) * E = E * (2 * b) + E * d
        /\ (2 * b) * E = E * (2 * b) /\ (2 * a + d) * E = E * (2 * a) + E * d
    BY <1>1, <1>2, <2>1
  <2>5. E * (2 * a) <= E * (2 * b) + E * d /\ E * (2 * b) <= E * (2 * a) + E * d
    BY <2>3, <2>4
  <2>. QED  BY <2>5 DEF a, b
<1>21. h * (E * d) <= ((E + 5) * n) * S /\ ((E - 5) * n) * S <= h * (E * d)
  <2>. DEFINE a == E * (h * d)
              b == E * (n * S)
              c == n * S
              f == E * d
  <2>1. a \in Nat /\ b \in Nat /\ c \in Nat /\ f \in Nat
    BY <1>1, <1>2, <1>10, <1>12, <1>13
  <2>2. E * (2 * (h * d)) = 2 * a /\ E * (2 * (n * S)) = 2 * b
    BY <1>1, <1>2, <1>10, <1>13
  <2>3. 2 * a <= 2 * b + f /\ 2 * b <= 2 * a + f /\ f <= 10 * c
    BY <1>19, <1>20, <2>2
  <2>4. h * (E * d) = a /\ ((E + 5) * n) * S = b + 5 * c /\ ((E - 5) * n) * S = b - 5 * c
    BY <1>1, <1>2, <1>10, <1>13
  <2>. HIDE DEF a, b, c, f
  <2>5. a <= b + 5 * c /\ b - 5 * c <= a
    BY <2>1, <2>3
  <2>. QED  BY <2>4, <2>5
<1>22. /\ Leq(y, Times(Plus(One, r), x)) <=> h * (E * d) <= ((E + 5) * n) * S
       /\ Leq(Times(Minus(One, r), x), y) <=> ((E - 5) * n) * S <= h * (E * d)
  <2>1. (E + 5) * n \in Int /\ (E - 5) * n \in Int /\ E * d \in Nat \ {0} /\ h \in Int
    BY <1>1, <1>2, <1>13
  <2>. QED  BY <1>10, <1>14, <1>18, <2>1, FracLeq
<1>. QED  BY <1>15, <1>21, <1>22 DEF y, r, E
-----------------------------------------------------------------------------
(* The folds of the model go through a sequence in turn.  Each is an         *)
(* instance of FoldTheorems.                                                 *)

NextPart(s, i, acc) == acc \o s[i]
NextTerm(f, i, acc) == Plus(acc, f[i])
NextFill(c, i, acc) == AddFill(c[1], acc, c[2][i])
NextOrder(orders, i, acc) == FillOrder(acc, orders[i])
NextGas(orders, i, acc) == acc + orders[i].way.gas
NextInfo(infos, i, acc) == [k \in DOMAIN acc |-> acc[k] + infos[i][k]]

Parts == INSTANCE FoldTheorems WITH Op <- NextPart, Choose <- Max
Terms == INSTANCE FoldTheorems WITH Op <- NextTerm, Choose <- Max
Sizes == INSTANCE FoldTheorems WITH Op <- NextFill, Choose <- Max
Orders == INSTANCE FoldTheorems WITH Op <- NextOrder, Choose <- Max
Gases == INSTANCE FoldTheorems WITH Op <- NextGas, Choose <- Max
Infos == INSTANCE FoldTheorems WITH Op <- NextInfo, Choose <- Max

(* The maximum of a finite set of integers that is not empty is its largest  *)
(* element.                                                                  *)
LEMMA HasMax ==
    ASSUME NEW S, IsFiniteSet(S), \A y \in S : y \in Int, S # {}
    PROVE  Max(S) \in S /\ \A y \in S : y <= Max(S)
<1>m. \A C \in SUBSET (SUBSET S) : C # {} => \E T \in C : \A U \in C : U \subseteq T => U = T
  BY MinimalSubset
<1>. DEFINE part(x) == {y \in S : x <= y}
            B == {part(x) : x \in S}
<1>0. B \in SUBSET (SUBSET S) /\ B # {}
  OBVIOUS
<1>1. PICK T \in B : \A U \in B : U \subseteq T => U = T
  <2>. HIDE DEF B, part
  <2>. QED  BY <1>m, <1>0
<1>2. PICK x \in S : T = part(x)
  OBVIOUS
<1>3. ASSUME NEW y \in S, ~ (y <= x) PROVE FALSE
  <2>0. x \in Int /\ y \in Int
    OBVIOUS
  <2>1. part(y) \in B
    OBVIOUS
  <2>2. part(y) \subseteq part(x)
    <3>. SUFFICES ASSUME NEW z \in S, z \in part(y) PROVE z \in part(x)
      OBVIOUS
    <3>1. z \in Int
      OBVIOUS
    <3>. QED  BY <1>3, <2>0, <3>1
  <2>3. x \in part(x)
    BY <2>0
  <2>4. x \notin part(y)
    BY <1>3
  <2>. HIDE DEF part, B
  <2>. QED  BY <1>1, <1>2, <2>1, <2>2, <2>3, <2>4
<1>4. \A y \in S : y <= x
  BY <1>3
<1>5. \A y \in S : x >= y
  BY <1>4
<1>6. Max(S) \in S /\ \A y \in S : Max(S) >= y
  BY <1>5 DEF Max
<1>. QED  BY <1>6

(* The minimum of such a set, with which the router's sample is found and    *)
(* what an order sells, is its smallest element.                             *)
LEMMA HasMin ==
    ASSUME NEW S, IsFiniteSet(S), \A y \in S : y \in Int, S # {}
    PROVE  Min(S) \in S /\ \A y \in S : Min(S) <= y
<1>m. \A C \in SUBSET (SUBSET S) : C # {} => \E T \in C : \A U \in C : U \subseteq T => U = T
  BY MinimalSubset
<1>. DEFINE part(x) == {y \in S : x >= y}
            B == {part(x) : x \in S}
<1>0. B \in SUBSET (SUBSET S) /\ B # {}
  OBVIOUS
<1>1. PICK T \in B : \A U \in B : U \subseteq T => U = T
  <2>. HIDE DEF B, part
  <2>. QED  BY <1>m, <1>0
<1>2. PICK x \in S : T = part(x)
  OBVIOUS
<1>3. ASSUME NEW y \in S, ~ (y >= x) PROVE FALSE
  <2>0. x \in Int /\ y \in Int
    OBVIOUS
  <2>1. part(y) \in B
    OBVIOUS
  <2>2. part(y) \subseteq part(x)
    <3>. SUFFICES ASSUME NEW z \in S, z \in part(y) PROVE z \in part(x)
      OBVIOUS
    <3>1. z \in Int
      OBVIOUS
    <3>. QED  BY <1>3, <2>0, <3>1
  <2>3. x \in part(x)
    BY <2>0
  <2>4. x \notin part(y)
    BY <1>3
  <2>. HIDE DEF part, B
  <2>. QED  BY <1>1, <1>2, <2>1, <2>2, <2>3, <2>4
<1>4. \A y \in S : y >= x
  BY <1>3
<1>5. \A y \in S : x <= y
  BY <1>4
<1>. QED  BY <1>5 DEF Min

(* What FoldInTurn asks for.                                                 *)
LEMMA InTurn ==
    ASSUME NEW len \in Nat
    PROVE  /\ \A B \in SUBSET (SUBSET (1 .. len)) : B # {} => \E T \in B : \A U \in B : U \subseteq T => U = T
           /\ \A s \in SUBSET (1 .. len) : s # {} => Max(s) \in s
           /\ \A n \in 1 .. len : Max(1 .. n) = n
<1>1. IsFiniteSet(1 .. len)
  BY FS_Interval
<1>. DEFINE S == 1 .. len
<1>2. \A B \in SUBSET (SUBSET S) : B # {} => \E T \in B : \A U \in B : U \subseteq T => U = T
  <2>. HIDE DEF S
  <2>1. IsFiniteSet(S)
    BY <1>1 DEF S
  <2>. QED  BY <2>1, MinimalSubset
<1>3. ASSUME NEW n \in 1 .. len PROVE Max(1 .. n) = n
  <2>. DEFINE R == 1 .. n
  <2>1. IsFiniteSet(R) /\ R \subseteq Int /\ n \in R
    BY FS_Interval
  <2>. HIDE DEF R
  <2>2. Max(R) \in R /\ n <= Max(R)
    BY <2>1, HasMax
  <2>. QED  BY <2>2 DEF R
<1>4. ASSUME NEW s \in SUBSET (1 .. len), s # {} PROVE Max(s) \in s
  <2>1. s \subseteq Int
    OBVIOUS
  <2>2. IsFiniteSet(s)
    <3>. DEFINE R == 1 .. len
    <3>1. IsFiniteSet(R) /\ s \subseteq R
      BY <1>1
    <3>. HIDE DEF R
    <3>. QED  BY <3>1, FS_Subset
  <2>. QED  BY <1>4, <2>1, <2>2, HasMax
<1>. QED  BY <1>2, <1>3, <1>4 DEF S

-----------------------------------------------------------------------------
(* What is chosen of a sequence.                                             *)

Part(s, I, i) == IF i \in I THEN <<s[i]>> ELSE <<>>
PartsOf(s, I) == [i \in DOMAIN s |-> Part(s, I, i)]
ChosenUpTo(s, I, n) == Parts!Fold(PartsOf(s, I), <<>>, 1 .. n)

(* The elements at chosen places are collected one after the other.          *)
LEMMA ChosenInTurn ==
    ASSUME NEW S, NEW s \in Seq(S), NEW I
    PROVE  /\ Chosen(s, I) = ChosenUpTo(s, I, Len(s))
           /\ ChosenUpTo(s, I, 0) = <<>>
           /\ \A n \in 1 .. Len(s) :
                 ChosenUpTo(s, I, n) = ChosenUpTo(s, I, n - 1) \o Part(s, I, n)
<1>. DEFINE f == PartsOf(s, I)
<1>1. DOMAIN f = 1 .. Len(s) /\ \A n \in 1 .. Len(s) : f[n] = Part(s, I, n)
  BY DEF PartsOf
<1>2. Chosen(s, I) = FoldLeft(\o, <<>>, f)
  BY DEF Chosen, PartsOf, Part
<1>. HIDE DEF f
<1>3. FoldLeft(\o, <<>>, f) = Parts!Fold(f, <<>>, DOMAIN f)
  BY DEF FoldLeft, MapThenFoldSet, Parts!Fold, Parts!AreFolds, NextPart
<1>4. Len(s) \in Nat
  OBVIOUS
<1>5. /\ Parts!Fold(f, <<>>, 1 .. 0) = <<>>
      /\ \A n \in 1 .. Len(s) : Parts!Fold(f, <<>>, 1 .. n) = NextPart(f, n, Parts!Fold(f, <<>>, 1 .. (n - 1)))
  BY <1>4, InTurn, Parts!FoldInTurn DEF Parts!HasMinima, Parts!Chooses
<1>. QED  BY <1>1, <1>2, <1>3, <1>5 DEF ChosenUpTo, NextPart, f

(* Only elements at those indices.                                           *)
LEMMA ChosenIsSeq ==
    ASSUME NEW S, NEW s \in Seq(S), NEW I
    PROVE  Chosen(s, I) \in Seq({s[i] : i \in I \cap DOMAIN s})
<1>. DEFINE E == {s[i] : i \in I \cap DOMAIN s}
            T == {n \in Nat : n <= Len(s) => ChosenUpTo(s, I, n) \in Seq(E)}
<1>. HIDE DEF T, E
<1>a. Len(s) \in Nat /\ DOMAIN s = 1 .. Len(s)
  OBVIOUS
<1>0. /\ Chosen(s, I) = ChosenUpTo(s, I, Len(s))
      /\ ChosenUpTo(s, I, 0) = <<>>
      /\ \A n \in 1 .. Len(s) :
            ChosenUpTo(s, I, n) = ChosenUpTo(s, I, n - 1) \o Part(s, I, n)
  BY ChosenInTurn
<1>1. 0 \in T
  <2>0. <<>> \in Seq(E)
    OBVIOUS
  <2>1. ChosenUpTo(s, I, 0) \in Seq(E)
    BY <1>0, <2>0, Zenon
  <2>. QED  BY <2>1 DEF T
<1>2. ASSUME NEW n \in Nat, n \in T PROVE n + 1 \in T
  <2>. SUFFICES ASSUME n + 1 <= Len(s) PROVE ChosenUpTo(s, I, n + 1) \in Seq(E)
    BY DEF T
  <2>1. n + 1 \in 1 .. Len(s) /\ (n + 1) - 1 = n
    BY <1>a
  <2>2. ChosenUpTo(s, I, n + 1) = ChosenUpTo(s, I, n) \o Part(s, I, n + 1)
    BY <1>0, <2>1
  <2>3. ChosenUpTo(s, I, n) \in Seq(E)
    BY <1>a, <1>2 DEF T
  <2>4. n + 1 \in I => s[n + 1] \in E
    BY <1>a, <2>1 DEF E
  <2>5. Part(s, I, n + 1) \in Seq(E)
    BY <2>4 DEF Part
  <2>. QED  BY <2>2, <2>3, <2>5, ConcatProperties
<1>3. Nat \subseteq T
  BY <1>1, <1>2, SetInduction
<1>. QED  BY <1>a, <1>0, <1>3 DEF T, E

-----------------------------------------------------------------------------
(* The size of a path never exceeds the amount.                              *)

NoSize == [input |-> Zero, output |-> Zero]
SizeUpTo(amt, fills, n) == Sizes!Fold(<<amt, fills>>, NoSize, 1 .. n)

(* createAdjustedSize adds the fills one after the other.                    *)
LEMMA SizeInTurn ==
    ASSUME NEW amt, NEW S, NEW fills \in Seq(S)
    PROVE  /\ createAdjustedSize(amt, fills) = SizeUpTo(amt, fills, Len(fills))
           /\ SizeUpTo(amt, fills, 0) = NoSize
           /\ \A n \in 1 .. Len(fills) :
                 SizeUpTo(amt, fills, n) = AddFill(amt, SizeUpTo(amt, fills, n - 1), fills[n])
<1>1. DOMAIN fills = 1 .. Len(fills) /\ Len(fills) \in Nat
  OBVIOUS
<1>2. createAdjustedSize(amt, fills) = Sizes!Fold(<<amt, fills>>, NoSize, DOMAIN fills)
  BY DEF createAdjustedSize, FoldLeft, MapThenFoldSet, Sizes!Fold, Sizes!AreFolds, NextFill, NoSize
<1>. DEFINE c == <<amt, fills>>
<1>3. c[1] = amt /\ c[2] = fills
  OBVIOUS
<1>. HIDE DEF c
<1>4. /\ Sizes!Fold(c, NoSize, 1 .. 0) = NoSize
      /\ \A n \in 1 .. Len(fills) :
            Sizes!Fold(c, NoSize, 1 .. n) = NextFill(c, n, Sizes!Fold(c, NoSize, 1 .. (n - 1)))
  BY <1>1, InTurn, Sizes!FoldInTurn DEF Sizes!HasMinima, Sizes!Chooses
<1>. QED  BY <1>1, <1>2, <1>3, <1>4 DEF SizeUpTo, NextFill, c

(* A fill that is added to a size that is within the amount is cut to what   *)
(* is left of it.                                                            *)
LEMMA AddFillFits ==
    ASSUME NEW amt \in Nat, NEW size, NEW fill, size.input \in Rat, fill.input \in Rat,
           Leq(size.input, Num(amt))
    PROVE  AddFill(amt, size, fill).input \in Rat /\ Leq(AddFill(amt, size, fill).input, Num(amt))
<1>. DEFINE remaining == Minus(Num(amt), size.input)
<1>1. Num(amt) \in Rat
  BY NumIsRat
<1>2. remaining \in Rat
  BY <1>1, MinusValue DEF IsFrac
<1>3. CASE Less(remaining, fill.input)
  <2>1. AddFill(amt, size, fill).input = Num(amt)
    BY <1>3 DEF AddFill
  <2>. QED  BY <1>1, <2>1, LeqIsTotal
<1>4. CASE ~ Less(remaining, fill.input)
  <2>1. AddFill(amt, size, fill).input = Plus(size.input, fill.input)
    BY <1>4 DEF AddFill
  <2>2. Leq(fill.input, remaining)
    BY <1>4 DEF Less
  <2>3. Leq(Plus(size.input, fill.input), Num(amt))
    BY <1>1, <2>2, FitsIn
  <2>4. Plus(size.input, fill.input) \in Rat
    BY PlusValue DEF IsFrac
  <2>. QED  BY <2>1, <2>3, <2>4
<1>. QED  BY <1>3, <1>4

(* The adjusted size of a path never takes more than the amount.             *)
LEMMA SizeFits ==
    ASSUME NEW amt \in Nat, NEW S, NEW fills \in Seq(S), \A f \in S : f.input \in Rat
    PROVE  /\ createAdjustedSize(amt, fills).input \in Rat
           /\ Leq(createAdjustedSize(amt, fills).input, Num(amt))
<1>. DEFINE size(n) == SizeUpTo(amt, fills, n)
            T == {n \in Nat : n <= Len(fills) => size(n).input \in Rat /\ Leq(size(n).input, Num(amt))}
<1>0. /\ createAdjustedSize(amt, fills) = size(Len(fills))
      /\ size(0) = NoSize
      /\ \A n \in 1 .. Len(fills) : size(n) = AddFill(amt, size(n - 1), fills[n])
  BY SizeInTurn
<1>a. Len(fills) \in Nat
  OBVIOUS
<1>. HIDE DEF size
<1>1. 0 \in T
  <2>1. Zero \in Rat /\ Leq(Zero, Num(amt))
    BY NumIsRat DEF Leq, Zero, Num
  <2>. QED  BY <1>0, <2>1 DEF NoSize
<1>2. ASSUME NEW n \in Nat, n \in T PROVE n + 1 \in T
  <2>. SUFFICES ASSUME n + 1 <= Len(fills) PROVE size(n + 1).input \in Rat /\ Leq(size(n + 1).input, Num(amt))
    OBVIOUS
  <2>1. n + 1 \in 1 .. Len(fills) /\ (n + 1) - 1 = n
    BY <1>a
  <2>2. size(n + 1) = AddFill(amt, size(n), fills[n + 1])
    BY <1>0, <2>1
  <2>3. size(n).input \in Rat /\ Leq(size(n).input, Num(amt))
    BY <1>2, <1>a
  <2>4. fills[n + 1].input \in Rat
    BY <2>1
  <2>. QED  BY <2>2, <2>3, <2>4, AddFillFits
<1>. HIDE DEF T
<1>3. Nat \subseteq T
  BY <1>1, <1>2, SetInduction
<1>. QED  BY <1>a, <1>0, <1>3 DEF T

(* The better of two paths covers the amount as far as either does.          *)
LEMMA BetterCoversMore ==
    ASSUME NEW side, NEW amt \in Nat, NEW x, NEW y,
           createAdjustedSize(amt, x).input \in Rat, Leq(createAdjustedSize(amt, x).input, Num(amt)),
           createAdjustedSize(amt, y).input \in Rat, Leq(createAdjustedSize(amt, y).input, Num(amt))
    PROVE  IF isAdjustedBetterThan(side, amt, x, y)
           THEN Leq(createAdjustedSize(amt, y).input, createAdjustedSize(amt, x).input)
           ELSE Leq(createAdjustedSize(amt, x).input, createAdjustedSize(amt, y).input)
<1>. DEFINE a == createAdjustedSize(amt, x).input
            b == createAdjustedSize(amt, y).input
<1>1. isAdjustedBetterThan(side, amt, x, y) <=>
        IF Less(a, Num(amt)) \/ Less(b, Num(amt)) THEN Less(b, a)
        ELSE Less(adjustedCompleteRate(side, amt, y), adjustedCompleteRate(side, amt, x))
  BY DEF isAdjustedBetterThan
<1>2. Num(amt) \in Rat
  BY NumIsRat
<1>3. a \in Rat /\ b \in Rat /\ Leq(a, Num(amt)) /\ Leq(b, Num(amt))
  OBVIOUS
<1>. HIDE DEF a, b
<1>4. CASE Less(a, Num(amt)) \/ Less(b, Num(amt))
  <2>1. Less(b, a) => Leq(b, a)
    BY <1>3, LeqIsTotal
  <2>2. ~ Less(b, a) => Leq(a, b)
    BY DEF Less
  <2>. QED  BY <1>1, <1>4, <2>1, <2>2 DEF a, b
<1>5. CASE ~ (Less(a, Num(amt)) \/ Less(b, Num(amt)))
  <2>1. Leq(Num(amt), a) /\ Leq(Num(amt), b)
    BY <1>5 DEF Less
  <2>2. Leq(a, b) /\ Leq(b, a)
    BY <1>2, <1>3, <2>1, LeqIsTransitive
  <2>. QED  BY <2>2 DEF a, b
<1>. QED  BY <1>4, <1>5

-----------------------------------------------------------------------------
(* Fees.                                                                     *)

FeeKinds == {"integrator", "zeroEx", "gas"}

\* What calculateFees makes of a configuration that is accepted.
FeesInv(f) ==
    /\ DOMAIN f = FeeKinds
    /\ \A k \in FeeKinds : f[k] # NoFee => f[k].feeAmount \in Nat
    /\ f["integrator"] # NoFee /\ f["zeroEx"] # NoFee /\ f["zeroEx"].type = "integrator_share" =>
           /\ f["zeroEx"].feeAmount <= f["integrator"].feeAmount
           /\ f["integrator"].feeAmount > 0 => f["zeroEx"].feeAmount < f["integrator"].feeAmount

\* What a fee adds to what the taker pays.
Due(f, k) ==
    IF ~ Charged(f[k]) THEN 0
    ELSE IF k = "zeroEx" /\ f["zeroEx"].type = "integrator_share" /\ Charged(f["integrator"]) THEN 0
    ELSE f[k].feeAmount

ChargedKinds(f) == {k \in DOMAIN f : Charged(f[k])}

(* Each kind that is charged has a positive part of the fees: the integrator *)
(* keeps something after 0x has its share.                                   *)
LEMMA PartsArePositive ==
    ASSUME NEW f, FeesInv(f)
    PROVE  /\ DOMAIN PartOf(f) = ChargedKinds(f) /\ ChargedKinds(f) \subseteq FeeKinds
           /\ IsFiniteSet(ChargedKinds(f)) /\ IsFiniteSet(FeeKinds)
           /\ \A k \in ChargedKinds(f) : PartOf(f)[k] \in Nat /\ PartOf(f)[k] > 0
<1>1. IsFiniteSet(FeeKinds)
  <2>1. FeeKinds = ({"integrator"} \cup {"zeroEx"}) \cup {"gas"}
    BY DEF FeeKinds
  <2>. QED  BY <2>1, FS_Singleton, FS_Union
<1>2. ChargedKinds(f) \subseteq FeeKinds
  BY DEF ChargedKinds, FeesInv
<1>3. IsFiniteSet(ChargedKinds(f))
  BY <1>1, <1>2, FS_Subset
<1>4. DOMAIN PartOf(f) = ChargedKinds(f)
  BY DEF PartOf, ChargedKinds
<1>5. ASSUME NEW k \in ChargedKinds(f) PROVE PartOf(f)[k] \in Nat /\ PartOf(f)[k] > 0
  <2>1. /\ k \in FeeKinds /\ f[k] # NoFee /\ f[k].feeAmount > 0
        /\ PartOf(f)[k] = IF k = "integrator" THEN IntegratorReceives(f) ELSE f[k].feeAmount
    BY <1>2 DEF ChargedKinds, Charged, BilledOnChain, PartOf
  <2>2. f[k].feeAmount \in Nat
    BY <2>1 DEF FeesInv
  <2>3. CASE k # "integrator"
    BY <2>1, <2>2, <2>3
  <2>4. CASE k = "integrator"
    <3>1. PartOf(f)[k] = f["integrator"].feeAmount -
            (IF BilledOnChain(f["zeroEx"]) /\ f["zeroEx"].type = "integrator_share" THEN f["zeroEx"].feeAmount ELSE 0)
      BY <2>1, <2>4 DEF IntegratorReceives
    <3>2. BilledOnChain(f["zeroEx"]) => f["zeroEx"].feeAmount \in Nat
      BY DEF FeesInv, BilledOnChain, FeeKinds
    <3>3. BilledOnChain(f["zeroEx"]) /\ f["zeroEx"].type = "integrator_share" =>
            f["zeroEx"].feeAmount < f["integrator"].feeAmount
      BY <2>1, <2>4 DEF FeesInv, BilledOnChain
    <3>. QED  BY <2>1, <2>2, <2>4, <3>1, <3>2, <3>3
  <2>. QED  BY <2>3, <2>4
<1>. QED  BY <1>1, <1>2, <1>3, <1>4, <1>5

(* Adding the parts up by recipient neither loses nor repeats one, and every *)
(* transfer is positive.                                                     *)
LEMMA TransfersByRecipient ==
    ASSUME NEW f, FeesInv(f)
    PROVE  /\ TotalOnChain(OnChainTransfers(f)) = SumFunctionOnSet(PartOf(f), ChargedKinds(f))
           /\ DOMAIN OnChainTransfers(f) = {f[k].feeRecipient : k \in ChargedKinds(f)}
           /\ \A r \in DOMAIN OnChainTransfers(f) : OnChainTransfers(f)[r] > 0
<1>. DEFINE D == ChargedKinds(f)
            part == PartOf(f)
            to == [k \in D |-> f[k].feeRecipient]
            transfers == [r \in {to[k] : k \in D} |-> SumFunctionOnSet(part, {k \in D : to[k] = r})]
<1>1. DOMAIN part = D /\ IsFiniteSet(D) /\ \A k \in D : part[k] \in Nat /\ part[k] > 0
  BY PartsArePositive
<1>2. {to[k] : k \in D} = {f[k].feeRecipient : k \in D}
  OBVIOUS
<1>3. ASSUME NEW r PROVE {k \in D : to[k] = r} = {k \in D : f[k].feeRecipient = r}
  OBVIOUS
<1>4. OnChainTransfers(f) = [r \in {f[k].feeRecipient : k \in D} |->
                                SumFunctionOnSet(part, {k \in D : f[k].feeRecipient = r})]
  BY <1>1 DEF OnChainTransfers
<1>5. transfers = OnChainTransfers(f)
  BY <1>2, <1>3, <1>4
<1>. HIDE DEF D, part, to
<1>6. SumFunction(transfers) = SumFunctionOnSet(part, D)
  <2>1. \A k \in D : part[k] \in Int
    BY <1>1
  <2>2. IsFiniteSet(D)
    BY <1>1
  <2>. QED  BY <2>1, <2>2, SumByGroup, ZenonT(30)
<1>7. ASSUME NEW r \in DOMAIN transfers PROVE transfers[r] > 0
  <2>. DEFINE G == {k \in D : to[k] = r}
  <2>1. transfers[r] = SumFunctionOnSet(part, G)
    OBVIOUS
  <2>2. PICK k \in D : r = to[k]
    OBVIOUS
  <2>3. k \in G /\ G \subseteq D
    BY <2>2
  <2>. HIDE DEF G, transfers
  <2>4. IsFiniteSet(G)
    BY <1>1, <2>3, FS_Subset
  <2>5. \A x \in G : part[x] \in Nat
    BY <1>1, <2>3
  <2>6. part[k] <= SumFunctionOnSet(part, G)
    BY <2>3, <2>4, <2>5, SumHasPart
  <2>7. SumFunctionOnSet(part, G) \in Nat
    BY <2>4, <2>5, SumIsNat
  <2>. QED  BY <1>1, <2>1, <2>6, <2>7
<1>8. DOMAIN transfers = {f[k].feeRecipient : k \in D}
  BY <1>2
<1>. HIDE DEF transfers
<1>. QED  BY <1>5, <1>6, <1>7, <1>8 DEF TotalOnChain, D, part

(* The transfers of _calculateTotalOnChainFees pay each fee once, and the    *)
(* share of 0x out of the integrator's fee.                                  *)
LEMMA TransfersAddUp ==
    ASSUME NEW f, FeesInv(f)
    PROVE  /\ TotalOnChain(OnChainTransfers(f)) = Due(f, "integrator") + Due(f, "zeroEx") + Due(f, "gas")
           /\ TotalOnChain(OnChainTransfers(f)) \in Nat
<1>. DEFINE D == ChargedKinds(f)
            K == FeeKinds
            part == PartOf(f)
            all == [k \in K |-> IF k \in D THEN part[k] ELSE 0]
<1>1. /\ DOMAIN part = D /\ IsFiniteSet(D) /\ D \subseteq K /\ IsFiniteSet(K)
      /\ \A k \in D : part[k] \in Nat /\ part[k] > 0
  BY PartsArePositive
<1>2. \A k \in K : all[k] \in Nat /\ all[k] \in Int
  BY <1>1
<1>3. \A k \in D : part[k] = all[k]
  BY <1>1
<1>4. \A k \in K \ D : all[k] = 0
  OBVIOUS
<1>a. \A k \in K : all[k] = IF k \in D THEN part[k] ELSE 0
  OBVIOUS
<1>. HIDE DEF D, K, part, all
<1>5. SumFunctionOnSet(part, D) = SumFunctionOnSet(all, D)
  BY <1>1, <1>3, SumAgrees
<1>6. SumFunctionOnSet(all, K \ D) = 0
  <2>1. IsFiniteSet(K \ D)
    BY <1>1, FS_Subset
  <2>. QED  BY <1>4, <2>1, SumOfZeros
<1>7. SumFunctionOnSet(all, K) = SumFunctionOnSet(all, D) + SumFunctionOnSet(all, K \ D)
  <2>1. D \cup (K \ D) = K /\ D \cap (K \ D) = {}
    BY <1>1
  <2>2. IsFiniteSet(K \ D)
    BY <1>1, FS_Subset
  <2>3. \A k \in D \cup (K \ D) : all[k] \in Int
    BY <1>2, <2>1
  <2>4. SumFunctionOnSet(all, D \cup (K \ D)) = SumFunctionOnSet(all, D) + SumFunctionOnSet(all, K \ D)
    BY <1>1, <2>1, <2>2, <2>3, SumOfUnion
  <2>. QED  BY <2>1, <2>4
<1>8. SumFunctionOnSet(all, D) \in Nat
  <2>1. \A k \in D : all[k] \in Nat
    BY <1>1, <1>2
  <2>. QED  BY <1>1, <2>1, SumIsNat
<1>9. SumFunctionOnSet(all, K) = all["integrator"] + all["zeroEx"] + all["gas"]
  <2>1. /\ "integrator" \in K /\ "zeroEx" \in K \ {"integrator"}
        /\ (K \ {"integrator"}) \ {"zeroEx"} = {"gas"} /\ "gas" \in K
    BY DEF K, FeeKinds
  <2>2. SumFunctionOnSet(all, K) = all["integrator"] + SumFunctionOnSet(all, K \ {"integrator"})
    BY <1>1, <1>2, <2>1, SumWithout
  <2>. DEFINE L == K \ {"integrator"}
  <2>3. IsFiniteSet(L) /\ \A k \in L : all[k] \in Int
    BY <1>1, <1>2, FS_Subset
  <2>4. SumFunctionOnSet(all, L) = all["zeroEx"] + SumFunctionOnSet(all, L \ {"zeroEx"})
    <3>1. "zeroEx" \in L
      BY <2>1
    <3>. HIDE DEF L
    <3>. QED  BY <2>3, <3>1, SumWithout
  <2>5. SumFunctionOnSet(all, L \ {"zeroEx"}) = all["gas"]
    BY <1>2, <2>1, SumOfOne
  <2>6. all["integrator"] \in Int /\ all["zeroEx"] \in Int /\ all["gas"] \in Int
    BY <1>2, <2>1
  <2>. QED  BY <2>2, <2>4, <2>5, <2>6
<1>10. all["integrator"] + all["zeroEx"] + all["gas"] = Due(f, "integrator") + Due(f, "zeroEx") + Due(f, "gas")
  <2>1. /\ "integrator" \in D <=> Charged(f["integrator"])
        /\ "zeroEx" \in D <=> Charged(f["zeroEx"])
        /\ "gas" \in D <=> Charged(f["gas"])
    BY DEF D, ChargedKinds, FeesInv, FeeKinds
  <2>2. /\ all["integrator"] = IF Charged(f["integrator"]) THEN part["integrator"] ELSE 0
        /\ all["zeroEx"] = IF Charged(f["zeroEx"]) THEN part["zeroEx"] ELSE 0
        /\ all["gas"] = IF Charged(f["gas"]) THEN part["gas"] ELSE 0
    BY <1>a, <2>1 DEF K, FeeKinds
  <2>3. /\ Charged(f["integrator"]) => part["integrator"] = IntegratorReceives(f)
        /\ Charged(f["zeroEx"]) => part["zeroEx"] = f["zeroEx"].feeAmount
        /\ Charged(f["gas"]) => part["gas"] = f["gas"].feeAmount
    BY <2>1 DEF part, PartOf, D, ChargedKinds
  <2>4. all["gas"] = Due(f, "gas")
    BY <2>2, <2>3 DEF Due
  <2>5. \A k \in K : Charged(f[k]) => f[k].feeAmount \in Nat
    BY DEF K, FeesInv, Charged, BilledOnChain
  <2>6. Due(f, "gas") \in Int
    BY <2>5 DEF Due, K, FeeKinds
  <2>7. CASE ~ Charged(f["integrator"])
    BY <2>2, <2>3, <2>4, <2>7 DEF Due
  <2>8. CASE Charged(f["integrator"]) /\ BilledOnChain(f["zeroEx"]) /\ f["zeroEx"].type = "integrator_share"
    <3>1. f["zeroEx"].feeAmount \in Nat /\ f["integrator"].feeAmount \in Nat
      BY <2>8 DEF FeesInv, FeeKinds, BilledOnChain, Charged
    <3>2. all["integrator"] = f["integrator"].feeAmount - f["zeroEx"].feeAmount
      BY <2>2, <2>3, <2>8 DEF IntegratorReceives
    <3>3. all["zeroEx"] = f["zeroEx"].feeAmount
      BY <2>2, <2>3, <2>8, <3>1 DEF Charged
    <3>4. Due(f, "integrator") = f["integrator"].feeAmount /\ Due(f, "zeroEx") = 0
      BY <2>8 DEF Due
    <3>. QED  BY <2>4, <2>6, <3>1, <3>2, <3>3, <3>4
  <2>9. CASE Charged(f["integrator"]) /\ ~ (BilledOnChain(f["zeroEx"]) /\ f["zeroEx"].type = "integrator_share")
    <3>1. f["integrator"].feeAmount \in Nat
      BY <2>5, <2>9 DEF K, FeeKinds
    <3>2. all["integrator"] = f["integrator"].feeAmount
      BY <2>2, <2>3, <2>9, <3>1 DEF IntegratorReceives
    <3>3. Due(f, "integrator") = f["integrator"].feeAmount
      BY <2>9 DEF Due
    <3>4. all["zeroEx"] = Due(f, "zeroEx")
      BY <2>2, <2>3, <2>9 DEF Due, Charged
    <3>. QED  BY <2>4, <3>2, <3>3, <3>4
  <2>. QED  BY <2>7, <2>8, <2>9
<1>11. TotalOnChain(OnChainTransfers(f)) = SumFunctionOnSet(part, D)
  BY TransfersByRecipient DEF part, D
<1>. QED  BY <1>5, <1>6, <1>7, <1>8, <1>9, <1>10, <1>11

(* A share of an amount, rounded down.                                       *)
LEMMA ShareOf ==
    ASSUME NEW x \in Nat, NEW p \in NonNeg
    PROVE  /\ Floor(Times(Num(x), p)) \in Nat
           /\ Less(p, One) => /\ Floor(Times(Num(x), p)) <= x
                              /\ x > 0 => Floor(Times(Num(x), p)) < x
<1>. DEFINE t == Times(Num(x), p)
            f == Floor(t)
<1>1. Num(x) \in NonNeg /\ Num(x) \in Rat /\ Num(x)[1] = x /\ Num(x)[2] = 1 /\ p \in Rat /\ p[1] >= 0
  BY NumIsRat
<1>2. p[1] \in Nat /\ p[2] \in Nat \ {0}
  BY <1>1, RatParts
<1>3. t \in NonNeg /\ t \in Rat
  BY <1>1, NonNegIsClosed, NumIsRat
<1>4. IsFrac(t, x * p[1], 1 * p[2])
  BY <1>1, TimesValue
<1>5. f \in Int /\ \A n \in Int : n <= f <=> Leq(Num(n), t)
  BY <1>3, FloorIsBelow
<1>. DEFINE a == p[1]
            b == p[2]
<1>. HIDE DEF t, f
<1>6. \A n \in Int : Leq(Num(n), t) <=> n * b <= x * a
  <2>. SUFFICES ASSUME NEW n \in Int PROVE Leq(Num(n), t) <=> n * b <= x * a
    OBVIOUS
  <2>1. IsFrac(Num(n), n, 1)
    BY DEF IsFrac, Num, Rat
  <2>2. x * a \in Int /\ 1 * b \in Nat \ {0}
    BY <1>2
  <2>3. Leq(Num(n), t) <=> n * (1 * b) <= (x * a) * 1
    BY <1>4, <2>1, <2>2, FracLeq
  <2>. QED  BY <1>2, <2>3
<1>7. Less(p, One) => a < b
  BY <1>2 DEF Less, Leq, One, Num
<1>8. a \in Nat /\ b \in Nat \ {0}
  BY <1>2
<1>. HIDE DEF a, b
<1>9. f >= 0
  <2>1. 0 * b <= x * a
    BY <1>8
  <2>. QED  BY <1>5, <1>6, <2>1
<1>10. ASSUME a < b PROVE f <= x /\ (x > 0 => f < x)
  <2>1. ~ (x + 1 <= f)
    <3>1. ~ ((x + 1) * b <= x * a)
      BY <1>8, <1>10
    <3>. QED  BY <1>5, <1>6, <3>1
  <2>2. x > 0 => ~ (x <= f)
    <3>1. x > 0 => ~ (x * b <= x * a)
      BY <1>8, <1>10
    <3>. QED  BY <1>5, <1>6, <3>1
  <2>. QED  BY <1>5, <2>1, <2>2
<1>. QED  BY <1>5, <1>7, <1>9, <1>10 DEF f, t

(* Fees cannot be less than nothing.                                         *)
FeeConfigsInv(c) ==
    /\ \A k \in {"integrator", "zeroEx"} : c[k] # NoFee => c[k].percentage \in NonNeg
    /\ Accepted(c)

GasIsCovered(f, perWei, gasPrice, gasUsed, perTransfer) ==
    Charged(f["gas"]) =>
        f["gas"].feeAmount >=
            Floor(Times(perWei, Num(gasPrice * (gasUsed + perTransfer * Cardinality(DOMAIN OnChainTransfers(f))))))

(* calculateFees, for any accepted configuration, returns fees whose kinds   *)
(* are consistent, and a gas fee that covers the gas of its transfers.       *)
LEMMA CalculatedFees ==
    ASSUME NEW c, FeeConfigsInv(c), NEW sold \in Nat, NEW perWei \in NonNeg,
           NEW gasPrice \in Nat, NEW gasUsed \in Nat, NEW perTransfer \in Nat
    PROVE  LET f == calculateFees(c, sold, perWei, gasPrice, gasUsed, perTransfer)
           IN  FeesInv(f) /\ GasIsCovered(f, perWei, gasPrice, gasUsed, perTransfer)
<1>. DEFINE i == IntegratorFee(c.integrator, sold)
            z == ZeroExFee(c.zeroEx, sold, i)
            recipients == GasRecipients(c.gas, perWei, {i, z})
            g == GasFee(c.gas, perWei, gasPrice, gasUsed, perTransfer, {i, z})
            f == calculateFees(c, sold, perWei, gasPrice, gasUsed, perTransfer)
<1>1. f = [integrator |-> i, zeroEx |-> z, gas |-> g]
  BY DEF calculateFees
<1>2. DOMAIN f = FeeKinds /\ f["integrator"] = i /\ f["zeroEx"] = z /\ f["gas"] = g
  BY <1>1 DEF FeeKinds
<1>3. /\ c.integrator # NoFee => c.integrator.percentage \in NonNeg /\ Less(c.integrator.percentage, One)
      /\ c.zeroEx # NoFee => c.zeroEx.percentage \in NonNeg /\ Less(c.zeroEx.percentage, One)
      /\ c.zeroEx # NoFee /\ c.zeroEx.type = "integrator_share" => c.integrator # NoFee
  BY DEF FeeConfigsInv, Accepted
<1>4. c.integrator # NoFee => i.feeAmount = Floor(Times(Num(sold), c.integrator.percentage)) /\ i.feeAmount \in Nat
  BY <1>3, ShareOf DEF IntegratorFee, Fee
<1>5. c.integrator = NoFee => i = NoFee
  BY DEF IntegratorFee
<1>6. c.zeroEx = NoFee => z = NoFee
  BY DEF ZeroExFee
<1>7. c.zeroEx # NoFee /\ c.zeroEx.type = "volume" => z.feeAmount \in Nat /\ z.type = "volume"
  BY <1>3, ShareOf DEF ZeroExFee, Fee
<1>8. c.zeroEx # NoFee /\ c.zeroEx.type # "volume" =>
        z.feeAmount = Floor(Times(Num(i.feeAmount), c.zeroEx.percentage)) /\ z.type = c.zeroEx.type
  BY DEF ZeroExFee, Fee
<1>9. f["integrator"] # NoFee /\ f["zeroEx"] # NoFee => c.integrator # NoFee /\ c.zeroEx # NoFee
  BY <1>2, <1>5, <1>6
<1>10. c.zeroEx # NoFee => c.zeroEx.type \in {"volume", "integrator_share"}
  BY DEF FeeConfigsInv, Accepted, FeeTypes
<1>11. c.zeroEx # NoFee /\ c.zeroEx.type = "integrator_share" =>
         z.feeAmount \in Nat /\ z.feeAmount <= i.feeAmount /\ (i.feeAmount > 0 => z.feeAmount < i.feeAmount)
  BY <1>3, <1>4, <1>8, ShareOf
<1>12. c.gas # NoFee => g.feeAmount = Floor(Times(perWei, Num(gasPrice * (gasUsed + perTransfer * Cardinality(recipients)))))
  BY DEF GasFee, Fee
<1>13. IsFiniteSet(recipients) /\ Cardinality(recipients) \in Nat
  <2>. DEFINE P == {e \in {i, z} : Charged(e)}
              R == {e.feeRecipient : e \in P}
              Q == IF BilledOnChain(c.gas) /\ Less(Zero, perWei) THEN {c.gas.feeRecipient} ELSE {}
  <2>1. IsFiniteSet({i, z})
    <3>. HIDE DEF i, z
    <3>1. {i, z} = {i} \cup {z} /\ IsFiniteSet({i}) /\ IsFiniteSet({z})
      BY FS_Singleton
    <3>. QED  BY <3>1, FS_Union
  <2>2. IsFiniteSet(P)
    BY <2>1, FS_Subset
  <2>3. IsFiniteSet(R)
    <3>. HIDE DEF P
    <3>1. [e \in P |-> e.feeRecipient] \in Surjection(P, R)
      BY DEF Surjection
    <3>. HIDE DEF R
    <3>. QED  BY <2>2, <3>1, FS_Surjection
  <2>4. IsFiniteSet(Q)
    BY FS_Singleton, FS_EmptySet
  <2>5. recipients = R \cup Q
    BY DEF GasRecipients
  <2>. HIDE DEF R, Q, recipients
  <2>6. IsFiniteSet(recipients)
    BY <2>3, <2>4, <2>5, FS_Union
  <2>. QED  BY <2>6, FS_CardinalityType
<1>14. \A n \in Nat : /\ Num(gasPrice * (gasUsed + perTransfer * n)) \in NonNeg
                      /\ Times(perWei, Num(gasPrice * (gasUsed + perTransfer * n))) \in NonNeg
                      /\ Floor(Times(perWei, Num(gasPrice * (gasUsed + perTransfer * n)))) \in Nat
  <2>. SUFFICES ASSUME NEW n \in Nat
                PROVE  /\ Num(gasPrice * (gasUsed + perTransfer * n)) \in NonNeg
                       /\ Times(perWei, Num(gasPrice * (gasUsed + perTransfer * n))) \in NonNeg
                       /\ Floor(Times(perWei, Num(gasPrice * (gasUsed + perTransfer * n)))) \in Nat
    OBVIOUS
  <2>. DEFINE m == gasPrice * (gasUsed + perTransfer * n)
  <2>1. m \in Nat
    OBVIOUS
  <2>. HIDE DEF m
  <2>2. Num(m) \in NonNeg
    BY <2>1, NumIsRat
  <2>3. Times(perWei, Num(m)) \in NonNeg
    BY <2>2, NonNegIsClosed
  <2>4. Floor(Times(perWei, Num(m))) \in Nat
    BY <2>3, FloorOfNonNeg
  <2>. QED  BY <2>2, <2>3, <2>4 DEF m
<1>15. c.gas # NoFee => g.feeAmount \in Nat
  BY <1>12, <1>13, <1>14
<1>16. c.gas = NoFee => g = NoFee
  BY DEF GasFee
<1>. HIDE DEF i, z, g, f, recipients
<1>17. FeesInv(f)
  <2>1. \A k \in FeeKinds : f[k] # NoFee => f[k].feeAmount \in Nat
    BY <1>2, <1>4, <1>5, <1>6, <1>7, <1>10, <1>11, <1>15, <1>16 DEF FeeKinds
  <2>2. f["integrator"] # NoFee /\ f["zeroEx"] # NoFee /\ f["zeroEx"].type = "integrator_share" =>
           /\ f["zeroEx"].feeAmount <= f["integrator"].feeAmount
           /\ f["integrator"].feeAmount > 0 => f["zeroEx"].feeAmount < f["integrator"].feeAmount
    BY <1>2, <1>7, <1>8, <1>9, <1>10, <1>11
  <2>. QED  BY <1>2, <2>1, <2>2 DEF FeesInv
<1>18. GasIsCovered(f, perWei, gasPrice, gasUsed, perTransfer)
  <2>. SUFFICES ASSUME Charged(g)
                PROVE  g.feeAmount >= Floor(Times(perWei, Num(gasPrice * (gasUsed + perTransfer * Cardinality(DOMAIN OnChainTransfers(f))))))
    BY <1>2 DEF GasIsCovered
  <2>. DEFINE D == DOMAIN OnChainTransfers(f)
  <2>1. D = {f[k].feeRecipient : k \in ChargedKinds(f)}
    BY <1>17, TransfersByRecipient
  <2>2. c.gas # NoFee /\ g # NoFee /\ g.feeAmount > 0
    BY <1>16 DEF Charged, BilledOnChain
  <2>3. g.feeRecipient = c.gas.feeRecipient /\ g.billingType = c.gas.billingType
    BY <2>2 DEF g, GasFee, Fee
  <2>4. Less(Zero, perWei)
    <3>. SUFFICES ASSUME perWei[1] <= 0 PROVE FALSE
      <4>1. perWei[1] \in Int
        BY NumIsRat, RatParts
      <4>. QED  BY <4>1, NumIsRat, RatParts DEF Less, Leq, Zero, Num
    <3>. DEFINE m == gasPrice * (gasUsed + perTransfer * Cardinality(recipients))
    <3>1. perWei \in Rat /\ perWei[1] = 0 /\ m \in Nat
      BY <1>13, NumIsRat, RatParts
    <3>2. g.feeAmount = Floor(Times(perWei, Num(m)))
      BY <1>12, <2>2
    <3>. HIDE DEF m
    <3>3. Num(m) \in Rat
      BY <3>1, NumIsRat
    <3>4. IsFrac(Times(perWei, Num(m)), perWei[1] * m, perWei[2] * 1)
      BY <3>1, <3>3, NumIsRat, TimesValue
    <3>. DEFINE t == Times(perWei, Num(m))
    <3>5. t \in Rat /\ t[1] = 0
      <4>1. perWei[2] \in Nat \ {0}
        BY <3>1, RatParts
      <4>2. t \in Rat /\ t[1] \in Int /\ t[2] \in Nat \ {0} /\ t[1] * (perWei[2] * 1) = (perWei[1] * m) * t[2]
        BY <3>4, RatParts DEF IsFrac
      <4>. HIDE DEF t
      <4>3. t[1] * perWei[2] = 0
        BY <3>1, <4>1, <4>2
      <4>. QED  BY <4>1, <4>2, <4>3
    <3>. HIDE DEF t
    <3>6. Floor(t) = 0
      BY <3>5, RatParts DEF Floor
    <3>. QED  BY <2>2, <3>2, <3>6 DEF t
  <2>5. D \subseteq recipients
    <3>. SUFFICES ASSUME NEW k \in ChargedKinds(f) PROVE f[k].feeRecipient \in recipients
      BY <2>1
    <3>1. Charged(f[k]) /\ k \in FeeKinds
      BY <1>2 DEF ChargedKinds
    <3>2. CASE k = "gas"
      <4>1. BilledOnChain(c.gas)
        BY <2>2, <2>3 DEF Charged, BilledOnChain
      <4>. QED  BY <1>2, <2>3, <2>4, <3>2, <4>1 DEF recipients, GasRecipients
    <3>3. CASE k = "integrator" \/ k = "zeroEx"
      <4>1. f[k] \in {i, z}
        BY <1>2, <3>3
      <4>. QED  BY <3>1, <4>1 DEF recipients, GasRecipients
    <3>. QED  BY <3>1, <3>2, <3>3 DEF FeeKinds
  <2>. DEFINE n == Cardinality(D)
              m == Cardinality(recipients)
              x == Num(gasPrice * (gasUsed + perTransfer * n))
              y == Num(gasPrice * (gasUsed + perTransfer * m))
  <2>6. n \in Nat /\ m \in Nat /\ n <= m
    <3>. HIDE DEF D
    <3>. QED  BY <1>13, <2>5, FS_Subset, FS_CardinalityType
  <2>7. g.feeAmount = Floor(Times(perWei, y))
    BY <1>12, <2>2
  <2>8. gasPrice * (gasUsed + perTransfer * n) <= gasPrice * (gasUsed + perTransfer * m)
    <3>. HIDE DEF n, m
    <3>1. n * perTransfer <= m * perTransfer
      BY <2>6, ScaleLeq
    <3>. DEFINE u == gasUsed + perTransfer * n
                v == gasUsed + perTransfer * m
    <3>2. u <= v /\ u \in Int /\ v \in Int
      BY <2>6, <3>1
    <3>. HIDE DEF u, v
    <3>3. u * gasPrice <= v * gasPrice
      BY <3>2, ScaleLeq
    <3>4. gasPrice * u <= gasPrice * v
      BY <3>2, <3>3
    <3>. QED  BY <3>4 DEF u, v
  <2>9. x \in NonNeg /\ y \in NonNeg
    <3>. HIDE DEF n, m
    <3>. QED  BY <1>14, <2>6
  <2>10. x \in Rat /\ y \in Rat /\ Times(perWei, x) \in Rat /\ Times(perWei, y) \in Rat
    <3>1. Times(perWei, x) \in NonNeg /\ Times(perWei, y) \in NonNeg
      <4>. HIDE DEF x, y
      <4>. QED  BY <2>9, NonNegIsClosed
    <3>. HIDE DEF x, y
    <3>. QED  BY <2>9, <3>1, NumIsRat
  <2>11. Leq(x, y)
    <3>1. gasPrice * (gasUsed + perTransfer * n) \in Int /\ gasPrice * (gasUsed + perTransfer * m) \in Int
      <4>. HIDE DEF n, m
      <4>. QED  BY <2>6
    <3>. HIDE DEF n, m
    <3>. QED  BY <2>8, <3>1 DEF Leq, Num
  <2>12. Leq(Times(perWei, x), Times(perWei, y))
    <3>. HIDE DEF x, y
    <3>. QED  BY <2>10, <2>11, TimesIsMonotone
  <2>13. Floor(Times(perWei, x)) <= Floor(Times(perWei, y)) /\ Floor(Times(perWei, x)) \in Int /\ Floor(Times(perWei, y)) \in Int
    <3>. HIDE DEF x, y
    <3>. QED  BY <2>10, <2>12, RoundingIsMonotone, FloorIsBelow
  <2>. HIDE DEF x, y
  <2>. QED  BY <2>7, <2>13 DEF x, n, D
<1>. QED  BY <1>17, <1>18 DEF f

-----------------------------------------------------------------------------
(* What the router is told.                                                  *)

Sample == [input : Nat, output : Nat]

(* Each amount of getSampleAmounts is between one unit and the whole.        *)
LEMMA SampleAmounts ==
    ASSUME NEW amt \in Nat \ {0}, NEW n \in Nat \ {0}, NEW i \in 1 .. n
    PROVE  getSampleAmounts(amt, n)[i] \in 1 .. amt
<1>. DEFINE x == Frac(amt * i, n)
<1>0. amt \in Int /\ i \in Int /\ n \in Int /\ amt * i \in Int /\ amt * i > 0
  OBVIOUS
<1>1. IsFrac(x, amt * i, n) /\ x \in Rat
  BY <1>0, FracValue DEF IsFrac
<1>2. getSampleAmounts(amt, n)[i] = Ceil(x)
  BY DEF getSampleAmounts
<1>. HIDE DEF x
<1>3. Ceil(x) \in Int /\ \A m \in Int : Ceil(x) <= m <=> Leq(x, Num(m))
  BY <1>1, CeilIsAbove
<1>4. \A m \in Int : Leq(x, Num(m)) <=> (amt * i) * 1 <= m * n
  <2>. SUFFICES ASSUME NEW m \in Int PROVE Leq(x, Num(m)) <=> (amt * i) * 1 <= m * n
    OBVIOUS
  <2>1. IsFrac(Num(m), m, 1)
    BY DEF IsFrac, Num, Rat
  <2>. DEFINE k == amt * i
  <2>2. k \in Int /\ IsFrac(x, k, n)
    BY <1>0, <1>1
  <2>. HIDE DEF k
  <2>3. Leq(x, Num(m)) <=> k * 1 <= m * n
    BY <2>1, <2>2, FracLeq
  <2>. QED  BY <2>3 DEF k
<1>5. i * amt <= n * amt
  BY ScaleLeq
<1>6. Ceil(x) <= amt
  BY <1>0, <1>3, <1>4, <1>5
<1>7. ~ (Ceil(x) <= 0)
  BY <1>0, <1>3, <1>4
<1>. QED  BY <1>2, <1>3, <1>6, <1>7

(* The samples of a pool that reaches the amount are amounts with an output, *)
(* and so are those that are kept.                                           *)
LEMMA SamplesAreTyped ==
    ASSUME NEW amt \in Nat \ {0}, NEW n \in Nat \ {0}, NEW w, Reaches(w, amt), w.kind # "native"
    PROVE  /\ SamplesOf(w, amt, n) \in Seq(Sample) /\ Len(SamplesOf(w, amt, n)) = n
           /\ WithOutput(SamplesOf(w, amt, n)) \in Seq(Sample)
           /\ \A I : Chosen(SamplesOf(w, amt, n), I) \in Seq(Sample)
<1>. DEFINE s == SamplesOf(w, amt, n)
<1>1. /\ DOMAIN s = 1 .. n
      /\ \A i \in 1 .. n : s[i] = [input |-> getSampleAmounts(amt, n)[i], output |-> w.curve[getSampleAmounts(amt, n)[i]]]
  BY DEF SamplesOf
<1>2. \A i \in 1 .. n : s[i] \in Sample
  <2>. SUFFICES ASSUME NEW i \in 1 .. n PROVE s[i] \in Sample
    OBVIOUS
  <2>1. getSampleAmounts(amt, n)[i] \in 1 .. amt
    BY SampleAmounts
  <2>2. w.curve[getSampleAmounts(amt, n)[i]] \in Nat
    BY <2>1 DEF Reaches
  <2>. QED  BY <1>1, <2>1, <2>2 DEF Sample
<1>3. s = [i \in 1 .. n |-> s[i]]
  BY DEF SamplesOf
<1>4. s \in Seq(Sample) /\ Len(s) = n
  <2>. HIDE DEF s
  <2>1. s \in [1 .. n -> Sample]
    BY <1>2, <1>3
  <2>. QED  BY <2>1
<1>. HIDE DEF s
<1>5. WithOutput(s) \in Seq(Sample)
  <2>. DEFINE good == {k \in DOMAIN s : s[k].output # 0}
              m == IF good = {} THEN 0 ELSE Max(good)
  <2>1. WithOutput(s) = SubSeq(s, 1, m)
    BY DEF WithOutput
  <2>2. IsFiniteSet(good)
    <3>. DEFINE D == 1 .. n
    <3>1. IsFiniteSet(D) /\ good \subseteq D
      BY <1>1, FS_Interval
    <3>. HIDE DEF D, good
    <3>. QED  BY <3>1, FS_Subset
  <2>3. \A y \in good : y \in Int
    BY <1>1
  <2>4. good # {} => Max(good) \in good
    <3>. HIDE DEF good
    <3>. QED  BY <2>2, <2>3, HasMax
  <2>5. m \in 0 .. n
    BY <1>1, <2>4
  <2>. HIDE DEF m
  <2>6. \A i \in 1 .. m : s[i] \in Sample
    BY <1>2, <2>5
  <2>7. m \in Int /\ 1 \in Int
    BY <2>5
  <2>. QED  BY <2>1, <2>6, <2>7, SubSeqProperties
<1>6. ASSUME NEW I PROVE Chosen(s, I) \in Seq(Sample)
  <2>1. Chosen(s, I) \in Seq({s[i] : i \in I \cap DOMAIN s})
    BY <1>4, ChosenIsSeq
  <2>2. {s[i] : i \in I \cap DOMAIN s} \subseteq Sample
    BY <1>1, <1>2
  <2>. QED  BY <2>1, <2>2, SeqMonotonic
<1>. QED  BY <1>4, <1>5, <1>6 DEF s

IsOffer(w) == IsWay(w) /\ (w.kind # "native" => w.samples \in Seq(Sample))

AreWays(s, n) == s \in Seq(Range(s)) /\ \A i \in DOMAIN s : IsWay(s[i]) /\ Reaches(s[i], n)
AreOffers(s) == s \in Seq(Range(s)) /\ \A i \in DOMAIN s : IsOffer(s[i])

(* A sequence is one over its range, and its elements are in the set it is   *)
(* over.                                                                     *)
LEMMA IsSeqOfRange ==
    ASSUME NEW S, NEW s \in Seq(S)
    PROVE  s \in Seq(Range(s)) /\ Range(s) \subseteq S /\ \A i \in DOMAIN s : s[i] \in S
<1>1. DOMAIN s = 1 .. Len(s) /\ Len(s) \in Nat /\ \A i \in 1 .. Len(s) : s[i] \in S
  BY ElementOfSeq
<1>2. \A i \in 1 .. Len(s) : s[i] \in Range(s)
  BY <1>1 DEF Range
<1>3. s = [i \in 1 .. Len(s) |-> s[i]]
  OBVIOUS
<1>4. s \in [1 .. Len(s) -> Range(s)]
  <2>. DEFINE n == Len(s)
              R == Range(s)
  <2>1. s = [i \in 1 .. n |-> s[i]] /\ \A i \in 1 .. n : s[i] \in R
    BY <1>2, <1>3
  <2>. HIDE DEF n, R
  <2>2. s \in [1 .. n -> R]
    BY <2>1
  <2>. QED  BY <2>2 DEF n, R
<1>5. s \in Seq(Range(s))
  <2>. DEFINE R == Range(s)
  <2>1. s \in [1 .. Len(s) -> R]
    BY <1>4
  <2>. HIDE DEF R
  <2>2. s \in Seq(R)
    BY <1>1, <2>1, SeqDef
  <2>. QED  BY <2>2 DEF R
<1>. QED  BY <1>1, <1>5 DEF Range

(* What the router is offered are ways with samples of positive inputs.      *)
LEMMA RoutablePathsAreOffers ==
    ASSUME NEW side, NEW amt \in Nat \ {0}, NEW n \in Nat \ {0}, NEW ws, AreWays(ws, amt)
    PROVE  AreOffers(RoutablePaths(side, amt, ws, n))
<1>. DEFINE sampled(w) == SamplesOf(w, amt, n)
            samples(w) == CASE w.kind = "native" -> NativeSamples(side, amt, w.order)
                            [] w.kind = "bridge" -> WithOutput(sampled(w))
                            [] w.kind = "twoHop" -> Chosen(sampled(w), {k \in 1 .. n : sampled(w)[k].output # 0})
            offers == [i \in DOMAIN ws |-> [ws[i] EXCEPT !.samples = samples(ws[i])]]
            usable(w) == w.kind = "bridge" => Len(w.samples) >= MIN_NUM_SAMPLE_INPUTS
            of(kind) == Chosen(offers, {i \in DOMAIN offers : offers[i].kind = kind /\ usable(offers[i])})
            O == {offers[i] : i \in DOMAIN offers}
<1>1. RoutablePaths(side, amt, ws, n) = of("bridge") \o of("twoHop") \o of("native")
  BY DEF RoutablePaths
<1>2. DOMAIN ws = 1 .. Len(ws) /\ Len(ws) \in Nat
  BY DEF AreWays
<1>3. ASSUME NEW i \in DOMAIN ws PROVE IsOffer(offers[i])
  <2>1. offers[i] = [ws[i] EXCEPT !.samples = samples(ws[i])]
    OBVIOUS
  <2>2. IsWay(ws[i]) /\ Reaches(ws[i], amt)
    BY DEF AreWays
  <2>. DEFINE w == ws[i]
              p == samples(w)
  <2>3. w.kind \in {"native", "bridge", "twoHop"}
    BY <2>2 DEF IsWay
  <2>4. w.kind # "native" => p \in Seq(Sample)
    <3>1. w.kind # "native" => /\ WithOutput(sampled(w)) \in Seq(Sample)
                               /\ \A I : Chosen(sampled(w), I) \in Seq(Sample)
      BY <2>2, SamplesAreTyped
    <3>2. w.kind = "bridge" => p = WithOutput(sampled(w))
      OBVIOUS
    <3>3. w.kind = "twoHop" => p = Chosen(sampled(w), {k \in 1 .. n : sampled(w)[k].output # 0})
      OBVIOUS
    <3>. HIDE DEF sampled, p
    <3>. QED  BY <2>3, <3>1, <3>2, <3>3
  <2>5. /\ DOMAIN offers[i] = DOMAIN w /\ offers[i].samples = p
        /\ offers[i].kind = w.kind /\ offers[i].gas = w.gas /\ offers[i].order = w.order
        /\ offers[i].source = w.source
    <3>. HIDE DEF p, offers
    <3>1. DOMAIN w = {"kind", "source", "vip", "cheap", "gas", "curve", "samples", "order"}
      BY <2>2 DEF IsWay
    <3>2. offers[i] = [w EXCEPT !.samples = p]
      BY <2>1 DEF p
    <3>. QED  BY <3>1, <3>2
  <2>. HIDE DEF p, offers
  <2>. QED  BY <2>2, <2>4, <2>5 DEF IsOffer, IsWay
<1>4. offers \in Seq(O)
  <2>. DEFINE m == Len(ws)
  <2>1. m \in Nat /\ DOMAIN offers = 1 .. m /\ \A i \in 1 .. m : offers[i] \in O
    BY <1>2
  <2>2. offers = [i \in 1 .. m |-> offers[i]]
    <3>. DEFINE e(i) == [ws[i] EXCEPT !.samples = samples(ws[i])]
    <3>1. offers = [i \in DOMAIN ws |-> e(i)]
      OBVIOUS
    <3>. HIDE DEF e, offers, samples
    <3>. QED  BY <1>2, <3>1
  <2>. HIDE DEF m, offers, O
  <2>3. offers \in [1 .. m -> O]
    BY <2>1, <2>2
  <2>. QED  BY <2>1, <2>3, SeqDef
<1>5. \A o \in O : IsOffer(o)
  BY <1>3
<1>6. ASSUME NEW kind PROVE of(kind) \in Seq(O)
  <2>. DEFINE I == {i \in DOMAIN offers : offers[i].kind = kind /\ usable(offers[i])}
  <2>1. Chosen(offers, I) \in Seq({offers[i] : i \in I \cap DOMAIN offers})
    <3>. HIDE DEF offers, I, O
    <3>. QED  BY <1>4, ChosenIsSeq
  <2>2. {offers[i] : i \in I \cap DOMAIN offers} \subseteq O
    <3>. HIDE DEF offers
    <3>. QED  OBVIOUS
  <2>. HIDE DEF I, offers, O
  <2>3. Chosen(offers, I) \in Seq(O)
    BY <2>1, <2>2, SeqMonotonic
  <2>. QED  BY <2>3 DEF I
<1>. DEFINE a == of("bridge")
            b == of("twoHop")
            c == of("native")
            s == a \o b \o c
<1>7. a \in Seq(O) /\ b \in Seq(O) /\ c \in Seq(O)
  BY <1>6
<1>. HIDE DEF O, a, b, c, offers
<1>8. s \in Seq(O)
  BY <1>7, ConcatProperties
<1>. HIDE DEF s
<1>9. s \in Seq(Range(s)) /\ \A i \in DOMAIN s : IsOffer(s[i])
  BY <1>5, <1>8, IsSeqOfRange
<1>. QED  BY <1>1, <1>9 DEF AreOffers, s, a, b, c

-----------------------------------------------------------------------------
(* What the router answers: it does not route more than the amount, and it   *)
(* knows the output of what it routes over samples.                          *)

IsRoute(r, offers, amt) ==
    /\ r.inputs \in [DOMAIN offers -> Nat] /\ SumFunction(r.inputs) \in 0 .. amt
    /\ \A i \in DOMAIN offers :
           r.inputs[i] # 0 /\ offers[i].kind # "native" => r.outputs[i] \in Nat /\ offers[i].samples # <<>>

(* The output that the router expects for an input within the samples of a   *)
(* way is that of one of them.                                               *)
LEMMA RoutedOutputIsNat ==
    ASSUME NEW w, w.samples \in Seq(Sample), NEW x \in Nat \ {0}, x <= MaxInput(w)
    PROVE  w.samples # <<>> /\ RoutedOutput(w, x) \in Nat
<1>. DEFINE s == w.samples
            J == {j \in DOMAIN s : s[j].input >= x}
<1>1. s # <<>> /\ x <= Last(s).input
  BY DEF MaxInput
<1>2. Len(s) \in Nat \ {0} /\ DOMAIN s = 1 .. Len(s) /\ \A j \in 1 .. Len(s) : s[j] \in Sample
  <2>1. Len(s) \in Nat \ {0}
    BY <1>1, EmptySeq
  <2>. QED  BY <2>1, ElementOfSeq
<1>3. Last(s) = s[Len(s)]
  BY DEF Last
<1>4. \A j \in 1 .. Len(s) : s[j].input \in Nat /\ s[j].output \in Nat
  BY <1>2 DEF Sample
<1>5. Len(s) \in J
  BY <1>1, <1>2, <1>3, <1>4
<1>6. IsFiniteSet(J)
  <2>. DEFINE D == 1 .. Len(s)
  <2>1. IsFiniteSet(D) /\ J \subseteq D
    BY <1>2, FS_Interval
  <2>. HIDE DEF D, J
  <2>. QED  BY <2>1, FS_Subset
<1>7. \A y \in J : y \in Int
  BY <1>2
<1>8. Min(J) \in J
  <2>. HIDE DEF J
  <2>. QED  BY <1>5, <1>6, <1>7, HasMin
<1>9. RoutedOutput(w, x) = s[Min(J)].output
  BY DEF RoutedOutput
<1>10. Min(J) \in 1 .. Len(s)
  BY <1>2, <1>8
<1>. QED  BY <1>1, <1>4, <1>9, <1>10

(* The inputs of an answer of the router are within the amount, and its      *)
(* outputs are amounts.                                                      *)
LEMMA RoutesAreRoutes ==
    ASSUME NEW offers, AreOffers(offers), NEW usable, amount \in Nat, LostUnits \subseteq Nat,
           NEW r \in RoutesOver(offers, usable)
    PROVE  IsRoute(r, offers, amount)
<1>. DEFINE takes(i) == IF i \in usable THEN MaxInput(offers[i]) ELSE 0
            out(f, i) == IF f[i] = 0 THEN 0 ELSE RoutedOutput(offers[i], f[i])
<1>1. PICK f \in [DOMAIN offers -> 0 .. amount] :
         /\ \A i \in DOMAIN offers : f[i] <= takes(i)
         /\ amount - SumFunction(f) \in LostUnits
         /\ r = [inputs |-> f, outputs |-> [i \in DOMAIN offers |-> out(f, i)]]
  BY DEF RoutesOver
<1>2. r.inputs = f /\ \A i \in DOMAIN offers : r.outputs[i] = out(f, i)
  BY <1>1
<1>3. IsFiniteSet(DOMAIN offers)
  <2>. DEFINE D == 1 .. Len(offers)
  <2>1. DOMAIN offers = D /\ IsFiniteSet(D)
    BY FS_Interval DEF AreOffers
  <2>. HIDE DEF D
  <2>. QED  BY <2>1
<1>4. DOMAIN f = DOMAIN offers /\ \A i \in DOMAIN offers : f[i] \in Nat
  OBVIOUS
<1>5. SumFunction(f) \in Nat
  <2>1. SumFunctionOnSet(f, DOMAIN offers) \in Nat
    BY <1>3, <1>4, SumIsNat
  <2>. QED  BY <1>4, <2>1 DEF SumFunction
<1>6. SumFunction(f) <= amount
  <2>1. amount - SumFunction(f) \in Nat
    BY <1>1
  <2>. QED  BY <1>5, <2>1
<1>7. ASSUME NEW i \in DOMAIN offers, f[i] # 0, offers[i].kind # "native"
      PROVE  out(f, i) \in Nat /\ offers[i].samples # <<>>
  <2>1. offers[i].samples \in Seq(Sample)
    BY <1>7 DEF AreOffers, IsOffer
  <2>2. f[i] \in Nat \ {0}
    BY <1>4, <1>7
  <2>3. f[i] <= MaxInput(offers[i])
    BY <1>1, <2>2
  <2>4. offers[i].samples # <<>> /\ RoutedOutput(offers[i], f[i]) \in Nat
    BY <2>1, <2>2, <2>3, RoutedOutputIsNat
  <2>. QED  BY <1>7, <2>4
<1>8. f \in [DOMAIN offers -> Nat]
  OBVIOUS
<1>. HIDE DEF out, takes
<1>. QED  BY <1>2, <1>5, <1>6, <1>7, <1>8 DEF IsRoute

(* So they are when there is no route, and when the router fails.            *)
LEMMA NoRouteIsRoute ==
    ASSUME NEW offers, AreOffers(offers), NEW amt \in Nat
    PROVE  IsRoute(NoRoute(offers), offers, amt) /\ IsRoute(FailedRoute(offers), offers, amt)
<1>. DEFINE z == [i \in DOMAIN offers |-> 0]
<1>1. NoRoute(offers).inputs = z /\ FailedRoute(offers).inputs = z
  BY DEF NoRoute, FailedRoute
<1>2. IsFiniteSet(DOMAIN offers)
  <2>. DEFINE D == 1 .. Len(offers)
  <2>1. DOMAIN offers = D /\ IsFiniteSet(D)
    BY FS_Interval DEF AreOffers
  <2>. HIDE DEF D
  <2>. QED  BY <2>1
<1>3. z \in [DOMAIN offers -> Nat] /\ DOMAIN z = DOMAIN offers /\ \A i \in DOMAIN offers : z[i] = 0
  OBVIOUS
<1>. HIDE DEF z
<1>4. SumFunctionOnSet(z, DOMAIN offers) = 0
  BY <1>2, <1>3, SumOfZeros
<1>5. SumFunction(z) = 0
  BY <1>3, <1>4 DEF SumFunction
<1>. QED  BY <1>1, <1>3, <1>5 DEF IsRoute

-----------------------------------------------------------------------------
(* The inputs of the fills: each is a positive part of the amount.           *)

NumSumUpTo(f, n) == Terms!Fold(f, Zero, 1 .. n)

(* A sum of numbers adds them one after the other.                           *)
LEMMA TermsInTurn ==
    ASSUME NEW f, NEW len \in Nat, DOMAIN f = 1 .. len
    PROVE  /\ FoldLeft(Plus, Zero, f) = NumSumUpTo(f, len)
           /\ NumSumUpTo(f, 0) = Zero
           /\ \A n \in 1 .. len : NumSumUpTo(f, n) = Plus(NumSumUpTo(f, n - 1), f[n])
<1>1. FoldLeft(Plus, Zero, f) = Terms!Fold(f, Zero, DOMAIN f)
  BY DEF FoldLeft, MapThenFoldSet, Terms!Fold, Terms!AreFolds, NextTerm
<1>2. /\ Terms!Fold(f, Zero, 1 .. 0) = Zero
      /\ \A n \in 1 .. len : Terms!Fold(f, Zero, 1 .. n) = NextTerm(f, n, Terms!Fold(f, Zero, 1 .. (n - 1)))
  BY InTurn, Terms!FoldInTurn DEF Terms!HasMinima, Terms!Chooses
<1>. QED  BY <1>1, <1>2 DEF NumSumUpTo, NextTerm

(* The sum of the router's inputs, as numbers, is the number of their sum.   *)
LEMMA TotalOfInputs ==
    ASSUME NEW len \in Nat, NEW inputs \in [1 .. len -> Nat]
    PROVE  SumQ(LAMBDA n : Num(n), inputs) = Num(SumFunction(inputs))
<1>. DEFINE f == [i \in DOMAIN inputs |-> Num(inputs[i])]
            sum(n) == SumFunctionOnSet(inputs, 1 .. n)
            T == {n \in Nat : n <= len => NumSumUpTo(f, n) = Num(sum(n)) /\ sum(n) \in Int}
<1>1. SumQ(LAMBDA n : Num(n), inputs) = FoldLeft(Plus, Zero, f)
  BY DEF SumQ
<1>2. DOMAIN f = 1 .. len /\ \A i \in 1 .. len : f[i] = Num(inputs[i]) /\ inputs[i] \in Int
  OBVIOUS
<1>. HIDE DEF f
<1>3. /\ FoldLeft(Plus, Zero, f) = NumSumUpTo(f, len)
      /\ NumSumUpTo(f, 0) = Zero
      /\ \A n \in 1 .. len : NumSumUpTo(f, n) = Plus(NumSumUpTo(f, n - 1), f[n])
  BY <1>2, TermsInTurn
<1>4. 0 \in T
  <2>1. 1 .. 0 = {}
    OBVIOUS
  <2>2. sum(0) = 0
    BY <2>1, SumOfNothing
  <2>. HIDE DEF sum
  <2>. QED  BY <1>3, <2>2 DEF Zero
<1>5. ASSUME NEW n \in Nat, n \in T PROVE n + 1 \in T
  <2>. SUFFICES ASSUME n + 1 <= len PROVE NumSumUpTo(f, n + 1) = Num(sum(n + 1)) /\ sum(n + 1) \in Int
    OBVIOUS
  <2>1. n + 1 \in 1 .. len /\ (n + 1) - 1 = n /\ (1 .. (n + 1)) \ {n + 1} = 1 .. n
    OBVIOUS
  <2>2. NumSumUpTo(f, n + 1) = Plus(NumSumUpTo(f, n), f[n + 1])
    BY <1>3, <2>1
  <2>3. NumSumUpTo(f, n) = Num(sum(n)) /\ sum(n) \in Int
    BY <1>5
  <2>4. sum(n + 1) = inputs[n + 1] + sum(n)
    <3>. DEFINE D == 1 .. (n + 1)
    <3>1. IsFiniteSet(D) /\ n + 1 \in D
      BY FS_Interval
    <3>2. \A y \in D : inputs[y] \in Int
      BY <1>2
    <3>3. D \ {n + 1} = 1 .. n
      BY <2>1
    <3>. HIDE DEF D
    <3>4. SumFunctionOnSet(inputs, D) = inputs[n + 1] + SumFunctionOnSet(inputs, D \ {n + 1})
      BY <3>1, <3>2, SumWithout
    <3>. QED  BY <3>3, <3>4 DEF D
  <2>. HIDE DEF sum
  <2>5. inputs[n + 1] \in Int /\ f[n + 1] = Num(inputs[n + 1])
    BY <1>2, <2>1
  <2>6. Plus(Num(sum(n)), Num(inputs[n + 1])) = Num(sum(n) + inputs[n + 1])
    BY <2>3, <2>5, PlusOfInts
  <2>7. sum(n + 1) = sum(n) + inputs[n + 1]
    BY <2>3, <2>4, <2>5
  <2>. QED  BY <2>2, <2>3, <2>5, <2>6, <2>7
<1>. HIDE DEF T
<1>6. Nat \subseteq T
  BY <1>4, <1>5, SetInduction
<1>7. NumSumUpTo(f, len) = Num(sum(len))
  BY <1>6 DEF T
<1>8. sum(len) = SumFunction(inputs)
  BY DEF SumFunction
<1>. HIDE DEF sum
<1>. QED  BY <1>1, <1>3, <1>7, <1>8

(* The factor that corrects what the router lost is positive.                *)
LEMMA ScalarIsPositive ==
    ASSUME NEW amt \in Nat \ {0}, NEW len \in Nat, NEW inputs \in [1 .. len -> Nat],
           SumFunction(inputs) \in 1 .. amt
    PROVE  PrecisionErrorScalar(amt, inputs) \in NonNeg /\ PrecisionErrorScalar(amt, inputs)[1] > 0
<1>. DEFINE k == SumFunction(inputs)
            P == Precision
            x == Num(amt * P)
            q == Over(x, Num(k))
            h == HalfUp(q)
<1>1. PrecisionErrorScalar(amt, inputs) = Frac(h, P)
  BY TotalOfInputs DEF PrecisionErrorScalar
<1>2. P \in Nat \ {0} /\ k \in Nat \ {0} /\ k <= amt
  BY PathAssumption
<1>. HIDE DEF k, P
<1>3. amt * P \in Nat
  BY <1>2
<1>4. x \in NonNeg /\ Num(k) \in NonNeg /\ Num(k)[1] > 0 /\ x[1] = amt * P /\ x[2] = 1 /\ Num(k)[1] = k /\ Num(k)[2] = 1
      /\ x \in Rat /\ Num(k) \in Rat /\ Num(P) \in Rat
  BY <1>2, <1>3, NumIsRat
<1>. HIDE DEF x
<1>5. q \in NonNeg
  BY <1>4, NonNegIsClosed
<1>6. IsFrac(q, x[1] * Num(k)[2], x[2] * Num(k)[1])
  BY <1>4, OverValue
<1>7. IsFrac(q, (amt * P) * 1, 1 * k)
  BY <1>4, <1>6
<1>8. Leq(Num(P), q)
  <2>. DEFINE m == (amt * P) * 1
              e == 1 * k
  <2>1. m \in Int /\ e \in Nat \ {0} /\ P \in Int
    BY <1>2
  <2>2. IsFrac(Num(P), P, 1)
    BY <1>2 DEF IsFrac, Num, Rat
  <2>3. k * P <= amt * P
    BY <1>2, ScaleLeq
  <2>4. P * e <= m * 1
    BY <1>2, <2>3
  <2>5. IsFrac(q, m, e)
    BY <1>7
  <2>. HIDE DEF m, e, q
  <2>. QED  BY <2>1, <2>2, <2>4, <2>5, FracLeq
<1>. HIDE DEF q
<1>9. h \in Nat /\ P <= h
  BY <1>2, <1>5, <1>8, HalfUpOfNonNeg
<1>. HIDE DEF h
<1>10. IsFrac(Frac(h, P), h, P)
  BY <1>2, <1>9, FracValue
<1>. DEFINE r == Frac(h, P)
<1>11. r \in Rat /\ r[1] > 0
  BY <1>2, <1>9, <1>10, SignOfFrac
<1>. HIDE DEF r
<1>12. r[1] >= 0
  BY <1>11, RatParts
<1>. QED  BY <1>1, <1>11, <1>12 DEF NonNeg, r

(* A corrected input is a whole number of units, at least one and at most    *)
(* the amount.                                                               *)
LEMMA RouteInputIsPart ==
    ASSUME NEW amt \in Nat \ {0}, NEW len \in Nat, NEW inputs \in [1 .. len -> Nat],
           SumFunction(inputs) \in 0 .. amt, NEW i \in 1 .. len, inputs[i] # 0
    PROVE  \E k \in 1 .. amt : RouteInputCorrected(amt, inputs, i) = Num(k)
<1>1. SumFunction(inputs) \in 1 .. amt
  <2>. DEFINE D == 1 .. len
  <2>0. IsFiniteSet(D)
    BY FS_Interval
  <2>1. i \in D /\ \A y \in D : inputs[y] \in Nat
    OBVIOUS
  <2>. HIDE DEF D
  <2>2. inputs[i] <= SumFunctionOnSet(inputs, D)
    BY <2>0, <2>1, SumHasPart
  <2>3. inputs[i] <= SumFunction(inputs)
    BY <2>2 DEF D, SumFunction
  <2>. QED  BY <2>3
<1>. DEFINE s == PrecisionErrorScalar(amt, inputs)
            y == Num(inputs[i])
            x == Times(s, y)
            c == Ceil(x)
<1>2. s \in NonNeg /\ s[1] > 0
  BY <1>1, ScalarIsPositive
<1>3. y \in NonNeg /\ y[1] > 0
  BY NumIsRat
<1>. HIDE DEF s, y
<1>4. x \in NonNeg /\ x \in Rat /\ x[1] > 0
  BY <1>2, <1>3, NonNegIsClosed, NumIsRat
<1>. HIDE DEF x
<1>5. c \in Int /\ \A m \in Int : c <= m <=> Leq(x, Num(m))
  BY <1>4, CeilIsAbove
<1>6. ~ Leq(x, Num(0))
  BY <1>4, RatParts DEF Leq, Num
<1>7. c >= 1
  BY <1>5, <1>6
<1>. HIDE DEF c
<1>8. MinOf(Num(c), Num(amt)) = Num(IF c <= amt THEN c ELSE amt)
  BY <1>5, LeqOfInts
<1>9. RouteInputCorrected(amt, inputs, i) = MinOf(Num(c), Num(amt))
  BY DEF RouteInputCorrected, c, x, s, y
<1>. QED  BY <1>5, <1>7, <1>8, <1>9

-----------------------------------------------------------------------------
(* The fills of a path.                                                      *)

IsFill(f, amt) ==
    /\ IsWay(f.way) /\ (\E k \in 1 .. amt : f.input = Num(k)) /\ f.output \in NonNeg /\ f.output[1] > 0
    /\ f.way.kind # "native" => \E n \in Nat : f.output = Num(n)

ArePathFills(fills, amt) ==
    fills \in Seq(Range(fills)) /\ \A i \in DOMAIN fills : IsFill(fills[i], amt)

(* An order is filled for what the router wants of it, or for all it has.    *)
LEMMA NativeFill ==
    ASSUME NEW side, NEW w, IsWay(w), w.kind = "native", NEW amt \in Nat, NEW target \in 1 .. amt
    PROVE  LET f == nativeOrderToFill(side, w, target)
               a == OrderInput(side, w.order)
           IN  IsFill(f, amt) /\ f.way = w /\ a \in Nat \ {0} /\ f.input = Num(IF target <= a THEN target ELSE a)
<1>. DEFINE a == OrderInput(side, w.order)
            b == OrderOutput(side, w.order)
            m == IF target <= a THEN target ELSE a
            f == nativeOrderToFill(side, w, target)
<1>1. a \in Nat \ {0} /\ b \in Nat \ {0}
  BY DEF IsWay, OrderInput, OrderOutput
<1>2. MinOf(Num(target), Num(a)) = Num(m)
  BY <1>1, LeqOfInts
<1>3. m \in 1 .. amt
  BY <1>1
<1>4. f.way = w /\ f.input = Num(m) /\ f.output = Times(Over(Num(m), Num(a)), Num(b))
  BY <1>2 DEF nativeOrderToFill
<1>. HIDE DEF a, b, m, f
<1>5. Num(m) \in NonNeg /\ Num(a) \in NonNeg /\ Num(a)[1] > 0 /\ Num(b) \in NonNeg
  BY <1>1, <1>3, NumIsRat
<1>6. Over(Num(m), Num(a)) \in NonNeg
  BY <1>5, NonNegIsClosed
<1>7. Times(Over(Num(m), Num(a)), Num(b)) \in NonNeg /\ Times(Over(Num(m), Num(a)), Num(b))[1] > 0
  <2>1. Num(m)[1] > 0 /\ Num(b)[1] > 0
    BY <1>1, <1>3, NumIsRat
  <2>2. Over(Num(m), Num(a))[1] > 0
    BY <1>5, <2>1, NonNegIsClosed
  <2>. QED  BY <1>5, <1>6, <2>1, <2>2, NonNegIsClosed
<1>8. IsFill(f, amt)
  BY <1>3, <1>4, <1>7 DEF IsFill
<1>. QED  BY <1>1, <1>4, <1>8 DEF f, m, a

(* The sample a fill of a pool is scaled from is one of those of the way.    *)
LEMMA SampleForIsSample ==
    ASSUME NEW samples \in Seq(Sample), samples # <<>>, NEW k \in Nat, NEW output \in Nat
    PROVE  SampleFor(samples, Num(k), output) \in Sample
<1>. DEFINE c == Cardinality({j \in DOMAIN samples : Less(Num(samples[j].input), Num(k))})
<1>1. SampleFor(samples, Num(k), output) =
        IF c = 0 \/ c = Len(samples) THEN IF c = 0 THEN samples[1] ELSE samples[c]
        ELSE [input |-> Floor(Num(k)), output |-> output]
  BY DEF SampleFor
<1>2. Floor(Num(k)) = k
  BY RoundingOfInt
<1>3. Len(samples) \in Nat \ {0}
  BY EmptySeq
<1>4. samples[1] \in Sample /\ samples[Len(samples)] \in Sample
  BY <1>3, ElementOfSeq
<1>. HIDE DEF c
<1>. QED  BY <1>1, <1>2, <1>4 DEF Sample

(* A fill of a pool takes the input of the router, and gives a whole number  *)
(* of units, one at least.                                                   *)
LEMMA DexFillIsFill ==
    ASSUME NEW side, NEW w, IsOffer(w), w.kind # "native", w.samples # <<>>,
           NEW amt \in Nat, NEW k \in 1 .. amt, NEW output \in Nat, NEW adjustor
    PROVE  LET f == DexFill(side, w, Num(k), output, adjustor) IN IsFill(f, amt) /\ f.input = Num(k)
<1>. DEFINE s == SampleFor(w.samples, Num(k), output)
            d == dexSampleToFill(side, w, s)
            fill == createFillFromDexSample(side, w, s, adjustor)
            O == {w.samples[j].output : j \in DOMAIN w.samples}
            cap == Max(O)
            scaled(x) == LET n == HalfUp(x)
                             capped == IF n < cap THEN n ELSE cap
                         IN Num(IF capped < 1 THEN 1 ELSE capped)
            f == DexFill(side, w, Num(k), output, adjustor)
<1>1. IsWay(w) /\ w.samples \in Seq(Sample)
  BY DEF IsOffer
<1>2. s \in Sample
  BY <1>1, SampleForIsSample
<1>. HIDE DEF s
<1>3. /\ DOMAIN d = {"way", "input", "output", "adjustedOutput"}
      /\ d.way = w /\ d.output = Num(s.output)
  BY DEF dexSampleToFill
<1>4. fill = d \/ \E a : fill = [d EXCEPT !.adjustedOutput = a]
  <2>. HIDE DEF d
  <2>1. fill = adjustFills(side, d, adjustor)
    BY DEF createFillFromDexSample, d
  <2>. QED  BY <2>1 DEF adjustFills
<1>5. /\ DOMAIN fill = {"way", "input", "output", "adjustedOutput"}
      /\ fill.way = w /\ fill.output = Num(s.output)
  <2>. HIDE DEF d, fill
  <2>1. CASE fill = d
    BY <1>3, <2>1
  <2>2. CASE \E a : fill = [d EXCEPT !.adjustedOutput = a]
    BY <1>3, <2>2
  <2>. QED  BY <1>4, <2>1, <2>2
<1>6. f = [fill EXCEPT !.input = Num(k), !.output = scaled(@), !.adjustedOutput = scaled(@)]
  BY DEF DexFill, s
<1>. HIDE DEF fill, d
<1>7. f.way = w /\ f.input = Num(k) /\ f.output = scaled(Num(s.output))
  <2>. HIDE DEF scaled, f
  <2>. QED  BY <1>5, <1>6
<1>8. cap \in Int
  <2>. DEFINE D == DOMAIN w.samples
  <2>1. Len(w.samples) \in Nat \ {0} /\ D = 1 .. Len(w.samples)
    BY <1>1, EmptySeq
  <2>2. IsFiniteSet(D)
    <3>1. IsFiniteSet(1 .. Len(w.samples))
      BY <2>1, FS_Interval
    <3>. HIDE DEF D
    <3>. QED  BY <2>1, <3>1
  <2>3. \A j \in D : w.samples[j].output \in Nat
    <3>1. \A j \in D : w.samples[j] \in Sample
      BY <1>1, <2>1, ElementOfSeq
    <3>. QED  BY <3>1 DEF Sample
  <2>4. 1 \in D
    BY <2>1
  <2>5. O = {w.samples[j].output : j \in D}
    OBVIOUS
  <2>. HIDE DEF D, O
  <2>6. IsFiniteSet(O)
    <3>1. [j \in D |-> w.samples[j].output] \in Surjection(D, O)
      BY <2>5 DEF Surjection
    <3>. QED  BY <2>2, <3>1, FS_Surjection
  <2>7. O # {} /\ \A y \in O : y \in Int
    BY <2>3, <2>4, <2>5
  <2>8. Max(O) \in O
    BY <2>6, <2>7, HasMax
  <2>. QED  BY <2>7, <2>8
<1>9. HalfUp(Num(s.output)) \in Nat
  <2>1. Num(s.output) \in NonNeg
    BY <1>2, NumIsRat DEF Sample
  <2>. QED  BY <2>1, HalfUpOfNonNeg
<1>10. \E n \in Nat \ {0} : scaled(Num(s.output)) = Num(n)
  <2>. DEFINE n == HalfUp(Num(s.output))
              c == IF n < cap THEN n ELSE cap
              m == IF c < 1 THEN 1 ELSE c
  <2>1. scaled(Num(s.output)) = Num(m)
    OBVIOUS
  <2>2. m \in Nat \ {0}
    <3>1. n \in Nat
      BY <1>9
    <3>. HIDE DEF n, cap
    <3>. QED  BY <1>8, <3>1
  <2>. HIDE DEF m
  <2>. QED  BY <2>1, <2>2
<1>11. scaled(Num(s.output)) \in NonNeg /\ scaled(Num(s.output))[1] > 0
  BY <1>10, NumIsRat
<1>. HIDE DEF scaled, f
<1>12. IsFill(f, amt)
  BY <1>1, <1>7, <1>10, <1>11 DEF IsFill
<1>. QED  BY <1>7, <1>12 DEF f

(* Each fill of a path takes a whole number of units within the amount, from *)
(* one of the ways.                                                          *)
LEMMA PathsAreFills ==
    ASSUME NEW side, NEW amt \in Nat \ {0}, NEW offers, AreOffers(offers),
           NEW route, IsRoute(route, offers, amt), NEW adjustor,
           createPathFromRoute(side, amt, offers, route, adjustor) # NoPath
    PROVE  ArePathFills(createPathFromRoute(side, amt, offers, route, adjustor), amt)
<1>. DEFINE used == {i \in DOMAIN offers : route.inputs[i] # 0 /\ route.outputs[i] # 0}
            fill(i) == RouteFill(side, amt, offers, route, adjustor, i)
            fills == [i \in DOMAIN offers |-> fill(i)]
            path_ == Chosen(fills, used)
            F == {fills[i] : i \in used \cap DOMAIN fills}
            A == {fills[i] : i \in DOMAIN fills}
            len == Len(offers)
<1>1. createPathFromRoute(side, amt, offers, route, adjustor) = path_
  BY DEF createPathFromRoute
<1>2. DOMAIN offers = 1 .. len /\ len \in Nat
  BY DEF AreOffers
<1>3. ASSUME NEW i \in DOMAIN offers, route.inputs[i] # 0 PROVE IsFill(fill(i), amt)
  <2>. DEFINE input == RouteInputCorrected(amt, route.inputs, i)
  <2>1. /\ fill(i) = IF offers[i].kind = "native" THEN nativeOrderToFill(side, offers[i], Floor(input))
                     ELSE DexFill(side, offers[i], input, route.outputs[i], adjustor)
    BY DEF RouteFill
  <2>2. route.inputs \in [1 .. len -> Nat] /\ SumFunction(route.inputs) \in 0 .. amt
    BY <1>2 DEF IsRoute
  <2>. HIDE DEF len, fill
  <2>3. PICK k \in 1 .. amt : input = Num(k)
    BY <1>2, <1>3, <2>2, RouteInputIsPart
  <2>. HIDE DEF input
  <2>4. IsOffer(offers[i]) /\ IsWay(offers[i])
    BY DEF AreOffers, IsOffer
  <2>5. CASE offers[i].kind = "native"
    <3>1. Floor(input) = k
      BY <2>3, RoundingOfInt
    <3>2. fill(i) = nativeOrderToFill(side, offers[i], k)
      BY <2>1, <2>5, <3>1
    <3>. QED  BY <2>4, <2>5, <3>2, NativeFill
  <2>6. CASE offers[i].kind # "native"
    <3>1. route.outputs[i] \in Nat /\ offers[i].samples # <<>>
      BY <1>3, <2>6 DEF IsRoute
    <3>2. fill(i) = DexFill(side, offers[i], Num(k), route.outputs[i], adjustor)
      BY <2>1, <2>3, <2>6
    <3>. QED  BY <2>4, <2>6, <3>1, <3>2, DexFillIsFill
  <2>. QED  BY <2>5, <2>6
<1>. HIDE DEF fill, len
<1>4. fills \in Seq(A)
  <2>1. DOMAIN fills = 1 .. len /\ \A i \in 1 .. len : fills[i] \in A
    BY <1>2
  <2>2. fills = [i \in 1 .. len |-> fills[i]]
    BY <1>2
  <2>. HIDE DEF fills, A
  <2>3. fills \in [1 .. len -> A]
    BY <2>1, <2>2
  <2>. QED  BY <1>2, <2>3, SeqDef
<1>5. \A f \in F : IsFill(f, amt)
  BY <1>3
<1>6. path_ \in Seq(F)
  <2>. HIDE DEF fills, A, used
  <2>. QED  BY <1>4, ChosenIsSeq
<1>. HIDE DEF F, path_
<1>7. path_ \in Seq(Range(path_)) /\ \A i \in DOMAIN path_ : IsFill(path_[i], amt)
  BY <1>5, <1>6, IsSeqOfRange
<1>. QED  BY <1>1, <1>7 DEF ArePathFills

(* The path that is chosen covers the amount as far as the other.            *)
LEMMA OptimalCoversMore ==
    ASSUME NEW side, NEW amt \in Nat, NEW all, NEW vip,
           all # NoPath => ArePathFills(all, amt), vip # NoPath => ArePathFills(vip, amt),
           findOptimalPath(side, amt, all, vip) # NoPath, NEW other \in {all, vip}, other # NoPath
    PROVE  Leq(createAdjustedSize(amt, other).input,
               createAdjustedSize(amt, findOptimalPath(side, amt, all, vip)).input)
<1>1. ASSUME NEW p, ArePathFills(p, amt)
      PROVE  createAdjustedSize(amt, p).input \in Rat /\ Leq(createAdjustedSize(amt, p).input, Num(amt))
  <2>1. p \in Seq(Range(p)) /\ \A f \in Range(p) : f.input \in Rat
    <3>1. \A k \in 1 .. amt : Num(k) \in Rat
      BY NumIsRat
    <3>. QED  BY <1>1, <3>1 DEF ArePathFills, IsFill, Range
  <2>. QED  BY <2>1, SizeFits
<1>. DEFINE size(p) == createAdjustedSize(amt, p).input
            b == findOptimalPath(side, amt, all, vip)
<1>2. b = IF all = NoPath \/ (vip # NoPath /\ isAdjustedBetterThan(side, amt, vip, all)) THEN vip ELSE all
  BY DEF findOptimalPath
<1>3. all # NoPath => size(all) \in Rat /\ Leq(size(all), Num(amt)) /\ Leq(size(all), size(all))
  BY <1>1, LeqIsTotal
<1>4. vip # NoPath => size(vip) \in Rat /\ Leq(size(vip), Num(amt)) /\ Leq(size(vip), size(vip))
  BY <1>1, LeqIsTotal
<1>5. all # NoPath /\ vip # NoPath =>
        IF isAdjustedBetterThan(side, amt, vip, all) THEN Leq(size(all), size(vip)) ELSE Leq(size(vip), size(all))
  BY <1>3, <1>4, BetterCoversMore
<1>. HIDE DEF size
<1>6. Leq(size(other), size(b))
  BY <1>2, <1>3, <1>4, <1>5
<1>. QED  BY <1>6 DEF size

-----------------------------------------------------------------------------
(* The orders of a path.                                                     *)

IsOrder(o, amt) ==
    IsFill(o.fill, amt) /\ o.way = o.fill.way /\ o.maker \in NonNeg /\ o.taker \in NonNeg

AreOrders(os, amt) == os \in Seq(Range(os)) /\ \A i \in DOMAIN os : IsOrder(os[i], amt)

(* The orders of a kind are those of the fills of the path, as               *)
(* createOrdersByType makes them.                                            *)
LEMMA OrdersAreOrders ==
    ASSUME NEW side, NEW amt \in Nat, NEW fills, ArePathFills(fills, amt), NEW kind
    PROVE  /\ AreOrders(OrdersOf(side, fills, kind), amt)
           /\ \A j \in DOMAIN OrdersOf(side, fills, kind) :
                  OrdersOf(side, fills, kind)[j] = OrderOf(side, OrdersOf(side, fills, kind)[j].fill)
<1>. DEFINE order(i) == OrderOf(side, fills[i])
            os == [i \in DOMAIN fills |-> order(i)]
            I == {i \in DOMAIN fills : fills[i].way.kind = kind}
            A == {os[i] : i \in DOMAIN os}
            E == {os[i] : i \in I \cap DOMAIN os}
            s == Chosen(os, I)
            len == Len(fills)
<1>1. OrdersOf(side, fills, kind) = s
  BY DEF OrdersOf
<1>2. DOMAIN fills = 1 .. len /\ len \in Nat
  BY DEF ArePathFills
<1>3. ASSUME NEW i \in DOMAIN fills PROVE IsOrder(order(i), amt)
  <2>. DEFINE f == fills[i]
  <2>1. IsFill(f, amt)
    BY DEF ArePathFills
  <2>2. order(i).fill = f /\ order(i).way = f.way /\ order(i).maker = makerAmount(side, f) /\ order(i).taker = takerAmount(side, f)
    BY DEF OrderOf
  <2>. HIDE DEF f, order
  <2>3. f.input \in NonNeg /\ f.output \in NonNeg
    BY <2>1, NumIsRat DEF IsFill
  <2>4. Num(Floor(f.output)) \in NonNeg /\ Num(Ceil(f.output)) \in NonNeg
    <3>1. Floor(f.output) \in Nat /\ Ceil(f.output) \in Nat
      BY <2>3, FloorOfNonNeg
    <3>. QED  BY <3>1, NumIsRat
  <2>. QED  BY <2>1, <2>2, <2>3, <2>4 DEF IsOrder, makerAmount, takerAmount
<1>3a. \A i \in DOMAIN fills : order(i) = OrderOf(side, order(i).fill)
  BY DEF OrderOf
<1>. HIDE DEF order, len
<1>4. os \in Seq(A)
  <2>1. DOMAIN os = 1 .. len /\ \A i \in 1 .. len : os[i] \in A
    BY <1>2
  <2>2. os = [i \in 1 .. len |-> os[i]]
    BY <1>2
  <2>. HIDE DEF os, A
  <2>3. os \in [1 .. len -> A]
    BY <2>1, <2>2
  <2>. QED  BY <1>2, <2>3, SeqDef
<1>5. \A o \in E : IsOrder(o, amt) /\ o = OrderOf(side, o.fill)
  BY <1>3, <1>3a
<1>6. s \in Seq(E)
  <2>. HIDE DEF os, A, I
  <2>. QED  BY <1>4, ChosenIsSeq
<1>. HIDE DEF E, s
<1>7. s \in Seq(Range(s)) /\ \A i \in DOMAIN s : IsOrder(s[i], amt) /\ s[i] = OrderOf(side, s[i].fill)
  BY <1>5, <1>6, IsSeqOfRange
<1>. QED  BY <1>1, <1>7 DEF AreOrders

(* Two sequences of orders make one.                                         *)
LEMMA OrdersTogether ==
    ASSUME NEW amt, NEW s, AreOrders(s, amt), NEW t, AreOrders(t, amt)
    PROVE  AreOrders(s \o t, amt)
<1>. DEFINE R == Range(s) \cup Range(t)
            u == s \o t
<1>1. s \in Seq(R) /\ t \in Seq(R)
  <2>1. s \in Seq(Range(s)) /\ Range(s) \subseteq R
    BY DEF AreOrders
  <2>2. t \in Seq(Range(t)) /\ Range(t) \subseteq R
    BY DEF AreOrders
  <2>. HIDE DEF R
  <2>. QED  BY <2>1, <2>2, SeqMonotonic
<1>2. \A o \in R : IsOrder(o, amt)
  BY DEF AreOrders, Range
<1>. HIDE DEF R
<1>3. u \in Seq(R)
  BY <1>1, ConcatProperties
<1>. HIDE DEF u
<1>4. u \in Seq(Range(u)) /\ \A i \in DOMAIN u : u[i] \in R
  BY <1>3, IsSeqOfRange
<1>. QED  BY <1>2, <1>4 DEF AreOrders, u

-----------------------------------------------------------------------------
(* Filling them in turn: the inputs add up to the amount, and no further.    *)

LimitFee(o) == IF o.way.source = "Limit" THEN ProtocolFee ELSE 0

(* One round of the loop of fillQuoteOrders takes the next order, or what is *)
(* left of the amount, at most its gas and at most its protocol fee.         *)
LEMMA FillOrderStep ==
    ASSUME NEW amt \in Nat, NEW a \in 0 .. amt, NEW r, r.input = Num(a), r.remaining = Num(amt - a),
           r.output \in NonNeg, r.gas \in Nat, r.protocolFee \in Nat, ProtocolFee \in Nat,
           NEW o, IsOrder(o, amt), NEW k \in 1 .. amt, o.fill.input = Num(k)
    PROVE  LET s == FillOrder(r, o)
               b == IF a + k <= amt THEN a + k ELSE amt
           IN  /\ s.input = Num(b) /\ s.remaining = Num(amt - b) /\ s.output \in NonNeg
               /\ s.gas \in Nat /\ s.gas <= r.gas + o.way.gas
               /\ s.protocolFee \in Nat /\ s.protocolFee <= r.protocolFee + LimitFee(o)
<1>. DEFINE s == FillOrder(r, o)
            b == IF a + k <= amt THEN a + k ELSE amt
            m == IF k <= amt - a THEN k ELSE amt - a
            out == Times(o.fill.output, Over(Num(m), Num(k)))
<1>0. o.way.gas \in Nat /\ o.fill.output \in NonNeg
  BY DEF IsOrder, IsFill, IsWay
<1>1. Leq(r.remaining, Zero) <=> a = amt
  <2>1. Leq(Num(amt - a), Num(0)) <=> amt - a <= 0
    BY LeqOfInts
  <2>. QED  BY <2>1 DEF Zero
<1>2. CASE a = amt
  <2>1. s = r
    BY <1>1, <1>2 DEF FillOrder
  <2>2. b = a
    BY <1>2
  <2>3. r.gas <= r.gas + o.way.gas /\ r.protocolFee <= r.protocolFee + LimitFee(o)
    BY <1>0 DEF LimitFee
  <2>. HIDE DEF s, b
  <2>. QED  BY <2>1, <2>2, <2>3 DEF s, b
<1>3. CASE a # amt
  <2>0. m \in Nat \ {0} /\ a + m = b /\ (amt - a) - m = amt - b /\ m \in Int /\ a \in Int /\ amt - a \in Int
    BY <1>3
  <2>1. MinOf(o.fill.input, r.remaining) = Num(m)
    BY LeqOfInts
  <2>. HIDE DEF m, b
  <2>2. /\ s.input = Plus(r.input, Num(m)) /\ s.output = Plus(r.output, out)
        /\ s.remaining = Minus(r.remaining, Num(m)) /\ s.gas = r.gas + o.way.gas
        /\ s.protocolFee = r.protocolFee + LimitFee(o)
    BY <1>1, <1>3, <2>1 DEF FillOrder, LimitFee
  <2>3. Plus(Num(a), Num(m)) = Num(a + m) /\ Minus(Num(amt - a), Num(m)) = Num((amt - a) - m)
    BY <2>0, PlusOfInts
  <2>4. out \in NonNeg
    <3>1. Num(m) \in NonNeg /\ Num(k) \in NonNeg /\ Num(k)[1] > 0
      BY <2>0, NumIsRat
    <3>2. Over(Num(m), Num(k)) \in NonNeg
      BY <3>1, NonNegIsClosed
    <3>. QED  BY <1>0, <3>2, NonNegIsClosed
  <2>. HIDE DEF out
  <2>5. Plus(r.output, out) \in NonNeg
    BY <2>4, NonNegIsClosed
  <2>6. r.gas + o.way.gas \in Nat /\ r.protocolFee + LimitFee(o) \in Nat
    BY <1>0 DEF LimitFee
  <2>. HIDE DEF s
  <2>. QED  BY <2>0, <2>2, <2>3, <2>5, <2>6 DEF s, b
<1>. QED  BY <1>2, <1>3

NothingFilled(amt) ==
    [input |-> Zero, output |-> Zero, remaining |-> Num(amt), gas |-> 0, protocolFee |-> 0, bySource |-> <<>>]
FilledUpTo(amt, os, n) == Orders!Fold(os, NothingFilled(amt), 1 .. n)

(* fillQuoteOrders fills the orders one after the other.                     *)
LEMMA FilledInTurn ==
    ASSUME NEW amt, NEW S, NEW os \in Seq(S)
    PROVE  /\ fillQuoteOrders(amt, os) = FilledUpTo(amt, os, Len(os))
           /\ FilledUpTo(amt, os, 0) = NothingFilled(amt)
           /\ \A n \in 1 .. Len(os) : FilledUpTo(amt, os, n) = FillOrder(FilledUpTo(amt, os, n - 1), os[n])
<1>1. DOMAIN os = 1 .. Len(os) /\ Len(os) \in Nat
  OBVIOUS
<1>. DEFINE base == NothingFilled(amt)
<1>2. fillQuoteOrders(amt, os) = FoldLeft(FillOrder, base, os)
  BY DEF fillQuoteOrders, NothingFilled
<1>. HIDE DEF base
<1>3. FoldLeft(FillOrder, base, os) = Orders!Fold(os, base, DOMAIN os)
  BY DEF FoldLeft, MapThenFoldSet, Orders!Fold, Orders!AreFolds, NextOrder
<1>4. /\ Orders!Fold(os, base, 1 .. 0) = base
      /\ \A n \in 1 .. Len(os) : Orders!Fold(os, base, 1 .. n) = NextOrder(os, n, Orders!Fold(os, base, 1 .. (n - 1)))
  BY <1>1, InTurn, Orders!FoldInTurn DEF Orders!HasMinima, Orders!Chooses
<1>. QED  BY <1>1, <1>2, <1>3, <1>4 DEF FilledUpTo, NextOrder, base

AllGas(os) == FoldLeft(LAMBDA g, o : g + o.way.gas, 0, os)
GasUpTo(os, n) == Gases!Fold(os, 0, 1 .. n)

(* The gas of a worst case adds that of the orders one after the other.      *)
LEMMA GasInTurn ==
    ASSUME NEW S, NEW os \in Seq(S)
    PROVE  /\ AllGas(os) = GasUpTo(os, Len(os))
           /\ GasUpTo(os, 0) = 0
           /\ \A n \in 1 .. Len(os) : GasUpTo(os, n) = GasUpTo(os, n - 1) + os[n].way.gas
<1>1. DOMAIN os = 1 .. Len(os) /\ Len(os) \in Nat
  OBVIOUS
<1>2. AllGas(os) = Gases!Fold(os, 0, DOMAIN os)
  BY DEF AllGas, FoldLeft, MapThenFoldSet, Gases!Fold, Gases!AreFolds, NextGas
<1>3. /\ Gases!Fold(os, 0, 1 .. 0) = 0
      /\ \A n \in 1 .. Len(os) : Gases!Fold(os, 0, 1 .. n) = NextGas(os, n, Gases!Fold(os, 0, 1 .. (n - 1)))
  BY <1>1, InTurn, Gases!FoldInTurn DEF Gases!HasMinima, Gases!Chooses
<1>. QED  BY <1>1, <1>2, <1>3 DEF GasUpTo, NextGas

LimitsUpTo(os, n) == {i \in 1 .. n : os[i].way.source = "Limit"}

(* The worst case pays the protocol fee once for each limit order.           *)
LEMMA LimitsInTurn ==
    ASSUME NEW os, NEW n \in Nat
    PROVE  /\ Cardinality(LimitsUpTo(os, 0)) = 0
           /\ Cardinality(LimitsUpTo(os, n)) \in Nat
           /\ ProtocolFee \in Nat =>
                ProtocolFee * Cardinality(LimitsUpTo(os, n + 1)) =
                  ProtocolFee * Cardinality(LimitsUpTo(os, n)) + LimitFee(os[n + 1])
<1>1. LimitsUpTo(os, 0) = {}
  BY DEF LimitsUpTo
<1>2. IsFiniteSet(LimitsUpTo(os, n))
  <2>. DEFINE D == 1 .. n
  <2>1. IsFiniteSet(D) /\ LimitsUpTo(os, n) \subseteq D
    BY FS_Interval DEF LimitsUpTo
  <2>. HIDE DEF D
  <2>. QED  BY <2>1, FS_Subset
<1>3. Cardinality(LimitsUpTo(os, n)) \in Nat
  BY <1>2, FS_CardinalityType
<1>4. n + 1 \notin LimitsUpTo(os, n)
  BY DEF LimitsUpTo
<1>5. CASE os[n + 1].way.source = "Limit"
  <2>1. LimitsUpTo(os, n + 1) = LimitsUpTo(os, n) \cup {n + 1}
    BY <1>5 DEF LimitsUpTo
  <2>2. Cardinality(LimitsUpTo(os, n + 1)) = Cardinality(LimitsUpTo(os, n)) + 1
    BY <1>2, <1>4, <2>1, FS_AddElement
  <2>3. LimitFee(os[n + 1]) = ProtocolFee
    BY <1>5 DEF LimitFee
  <2>. DEFINE c == Cardinality(LimitsUpTo(os, n))
  <2>4. c \in Nat
    BY <1>3
  <2>. HIDE DEF c
  <2>5. ProtocolFee \in Nat => ProtocolFee * (c + 1) = ProtocolFee * c + ProtocolFee
    BY <2>4
  <2>. QED  BY <1>1, <1>3, <2>2, <2>3, <2>5, FS_EmptySet DEF c
<1>6. CASE os[n + 1].way.source # "Limit"
  <2>1. LimitsUpTo(os, n + 1) = LimitsUpTo(os, n)
    BY <1>6 DEF LimitsUpTo
  <2>2. LimitFee(os[n + 1]) = 0
    BY <1>6 DEF LimitFee
  <2>. DEFINE c == Cardinality(LimitsUpTo(os, n))
  <2>3. c \in Nat
    BY <1>3
  <2>. HIDE DEF c
  <2>4. ProtocolFee \in Nat => ProtocolFee * c = ProtocolFee * c + 0
    BY <2>3
  <2>. QED  BY <1>1, <1>3, <2>1, <2>2, <2>4, FS_EmptySet DEF c
<1>. QED  BY <1>5, <1>6

\* What the fills of orders take, whatever the amount.
SizeOf(o) == o.fill.input[1]
SizesUpTo(os, n) == SumFunctionOnSet([i \in DOMAIN os |-> SizeOf(os[i])], 1 .. n)
SmallerOf(a, b) == IF a <= b THEN a ELSE b

(* The sizes of the orders add up one after the other, each a whole number   *)
(* of units within the amount.                                               *)
LEMMA SizesInTurn ==
    ASSUME NEW amt \in Nat, NEW os, AreOrders(os, amt)
    PROVE  /\ SizesUpTo(os, 0) = 0
           /\ \A n \in 0 .. Len(os) : SizesUpTo(os, n) \in Nat
           /\ \A n \in 1 .. Len(os) : /\ SizesUpTo(os, n) = SizesUpTo(os, n - 1) + SizeOf(os[n])
                                      /\ SizeOf(os[n]) \in 1 .. amt /\ os[n].fill.input = Num(SizeOf(os[n]))
<1>. DEFINE f == [i \in DOMAIN os |-> SizeOf(os[i])]
<1>1. DOMAIN os = 1 .. Len(os) /\ Len(os) \in Nat
  BY DEF AreOrders
<1>2. ASSUME NEW n \in 1 .. Len(os) PROVE SizeOf(os[n]) \in 1 .. amt /\ os[n].fill.input = Num(SizeOf(os[n]))
  <2>1. PICK k \in 1 .. amt : os[n].fill.input = Num(k)
    BY <1>1 DEF AreOrders, IsOrder, IsFill
  <2>2. Num(k)[1] = k
    BY NumIsRat
  <2>. QED  BY <2>1, <2>2 DEF SizeOf
<1>3. \A n \in 1 .. Len(os) : f[n] = SizeOf(os[n]) /\ f[n] \in Nat
  BY <1>1, <1>2
<1>. HIDE DEF f
<1>4. ASSUME NEW n \in 0 .. Len(os) PROVE SumFunctionOnSet(f, 1 .. n) \in Nat
  <2>. DEFINE D == 1 .. n
  <2>0. IsFiniteSet(D)
    BY FS_Interval
  <2>1. \A x \in D : f[x] \in Nat
    BY <1>1, <1>3
  <2>. HIDE DEF D
  <2>2. SumFunctionOnSet(f, D) \in Nat
    BY <2>0, <2>1, SumIsNat
  <2>. QED  BY <2>2 DEF D
<1>5. ASSUME NEW n \in 1 .. Len(os) PROVE SumFunctionOnSet(f, 1 .. n) = SumFunctionOnSet(f, 1 .. (n - 1)) + f[n]
  <2>. DEFINE D == 1 .. n
  <2>0. IsFiniteSet(D)
    BY FS_Interval
  <2>1. n \in D /\ D \ {n} = 1 .. (n - 1)
    BY <1>1
  <2>2. \A x \in D : f[x] \in Int
    BY <1>1, <1>3
  <2>3. n - 1 \in 0 .. Len(os)
    BY <1>1
  <2>. HIDE DEF D
  <2>4. SumFunctionOnSet(f, D) = f[n] + SumFunctionOnSet(f, D \ {n})
    BY <2>0, <2>1, <2>2, SumWithout
  <2>5. SumFunctionOnSet(f, 1 .. (n - 1)) \in Nat
    BY <1>4, <2>3
  <2>6. f[n] \in Nat
    BY <1>3
  <2>7. SumFunctionOnSet(f, D) = SumFunctionOnSet(f, 1 .. (n - 1)) + f[n]
    <3>. DEFINE y == SumFunctionOnSet(f, 1 .. (n - 1))
                x == SumFunctionOnSet(f, D)
    <3>1. x = f[n] + y /\ y \in Nat
      BY <2>1, <2>4, <2>5, Zenon
    <3>. HIDE DEF x, y
    <3>2. x = y + f[n]
      BY <2>6, <3>1
    <3>. QED  BY <3>2 DEF x, y
  <2>. QED  BY <2>7 DEF D
<1>6. SumFunctionOnSet(f, 1 .. 0) = 0
  <2>1. 1 .. 0 = {}
    OBVIOUS
  <2>. QED  BY <2>1, SumOfNothing
<1>. QED  BY <1>2, <1>3, <1>4, <1>5, <1>6 DEF SizesUpTo, f

FilledInv(amt, os, n) ==
    LET r == FilledUpTo(amt, os, n)
        a == SmallerOf(SizesUpTo(os, n), amt)
    IN  /\ r.input = Num(a) /\ r.remaining = Num(amt - a) /\ r.output \in NonNeg
        /\ r.gas \in Nat /\ GasUpTo(os, n) \in Nat /\ r.gas <= GasUpTo(os, n)
        /\ r.protocolFee \in Nat /\ r.protocolFee <= ProtocolFee * Cardinality(LimitsUpTo(os, n))

(* The loop of fillQuoteOrders, from the first order to the last, takes the  *)
(* sizes of the orders up to the amount, with no more gas and protocol fee   *)
(* than all of them need.                                                    *)
LEMMA SimulatedFill ==
    ASSUME NEW amt \in Nat, NEW os, AreOrders(os, amt)
    PROVE  /\ fillQuoteOrders(amt, os) = FilledUpTo(amt, os, Len(os))
           /\ AllGas(os) = GasUpTo(os, Len(os))
           /\ FilledInv(amt, os, Len(os)) /\ \A n \in 0 .. Len(os) : FilledInv(amt, os, n)
<1>1. os \in Seq(Range(os)) /\ Len(os) \in Nat /\ DOMAIN os = 1 .. Len(os)
  BY DEF AreOrders
<1>2. /\ fillQuoteOrders(amt, os) = FilledUpTo(amt, os, Len(os))
      /\ FilledUpTo(amt, os, 0) = NothingFilled(amt)
      /\ \A n \in 1 .. Len(os) : FilledUpTo(amt, os, n) = FillOrder(FilledUpTo(amt, os, n - 1), os[n])
  BY <1>1, FilledInTurn
<1>3. /\ AllGas(os) = GasUpTo(os, Len(os))
      /\ GasUpTo(os, 0) = 0
      /\ \A n \in 1 .. Len(os) : GasUpTo(os, n) = GasUpTo(os, n - 1) + os[n].way.gas
  BY <1>1, GasInTurn
<1>4. /\ SizesUpTo(os, 0) = 0
      /\ \A n \in 0 .. Len(os) : SizesUpTo(os, n) \in Nat
      /\ \A n \in 1 .. Len(os) : /\ SizesUpTo(os, n) = SizesUpTo(os, n - 1) + SizeOf(os[n])
                                 /\ SizeOf(os[n]) \in 1 .. amt /\ os[n].fill.input = Num(SizeOf(os[n]))
  BY SizesInTurn
<1>5. ProtocolFee \in Nat
  BY NumbersAssumption
<1>. DEFINE T == {n \in Nat : n <= Len(os) => FilledInv(amt, os, n)}
<1>6. 0 \in T
  <2>. DEFINE r == NothingFilled(amt)
  <2>1. r.input = Num(0) /\ r.output = Zero /\ r.remaining = Num(amt) /\ r.gas = 0 /\ r.protocolFee = 0
    BY DEF NothingFilled, Zero
  <2>2. SmallerOf(0, amt) = 0 /\ amt - 0 = amt
    BY DEF SmallerOf
  <2>3. ProtocolFee * Cardinality(LimitsUpTo(os, 0)) = 0
    <3>1. Cardinality(LimitsUpTo(os, 0)) = 0
      BY LimitsInTurn
    <3>. QED  BY <1>5, <3>1
  <2>4. Zero \in NonNeg
    BY NumIsRat
  <2>. HIDE DEF r
  <2>5. FilledInv(amt, os, 0)
    BY <1>2, <1>3, <1>4, <2>1, <2>2, <2>3, <2>4 DEF FilledInv, r
  <2>. QED  BY <2>5
<1>7. ASSUME NEW n \in Nat, n \in T PROVE n + 1 \in T
  <2>. SUFFICES ASSUME n + 1 <= Len(os) PROVE FilledInv(amt, os, n + 1)
    OBVIOUS
  <2>1. n + 1 \in 1 .. Len(os) /\ (n + 1) - 1 = n /\ n \in 0 .. Len(os)
    BY <1>1
  <2>. DEFINE r == FilledUpTo(amt, os, n)
              s == FilledUpTo(amt, os, n + 1)
              o == os[n + 1]
              k == SizeOf(o)
              z == SizesUpTo(os, n)
              a == SmallerOf(z, amt)
              b == SmallerOf(SizesUpTo(os, n + 1), amt)
              lim == ProtocolFee * Cardinality(LimitsUpTo(os, n))
  <2>2. s = FillOrder(r, o)
    BY <1>2, <2>1
  <2>3. GasUpTo(os, n + 1) = GasUpTo(os, n) + o.way.gas
    BY <1>3, <2>1
  <2>4. SizesUpTo(os, n + 1) = z + k /\ k \in 1 .. amt /\ o.fill.input = Num(k) /\ z \in Nat
    BY <1>4, <2>1
  <2>5. /\ r.input = Num(a) /\ r.remaining = Num(amt - a) /\ r.output \in NonNeg
        /\ r.gas \in Nat /\ GasUpTo(os, n) \in Nat /\ r.gas <= GasUpTo(os, n)
        /\ r.protocolFee \in Nat /\ r.protocolFee <= lim
    BY <1>7, <1>1 DEF FilledInv
  <2>6. IsOrder(o, amt) /\ o.way.gas \in Nat
    BY <1>1, <2>1 DEF AreOrders, IsOrder, IsFill, IsWay
  <2>7. a \in 0 .. amt /\ b = IF a + k <= amt THEN a + k ELSE amt
    <3>. HIDE DEF z, k
    <3>. QED  BY <2>4 DEF SmallerOf
  <2>8. lim \in Nat /\ ProtocolFee * Cardinality(LimitsUpTo(os, n + 1)) = lim + LimitFee(o)
    <3>1. Cardinality(LimitsUpTo(os, n)) \in Nat
      BY LimitsInTurn
    <3>2. lim \in Nat
      <4>. DEFINE c == Cardinality(LimitsUpTo(os, n))
      <4>. HIDE DEF c
      <4>. QED  BY <1>5, <3>1 DEF c
    <3>. QED  BY <1>5, <3>2, LimitsInTurn
  <2>9. LimitFee(o) \in Nat
    BY <1>5 DEF LimitFee
  <2>. HIDE DEF r, s, o, k, z, a, b, lim
  <2>. DEFINE c == IF a + k <= amt THEN a + k ELSE amt
  <2>10. /\ FillOrder(r, o).input = Num(c) /\ FillOrder(r, o).remaining = Num(amt - c) /\ FillOrder(r, o).output \in NonNeg
         /\ FillOrder(r, o).gas \in Nat /\ FillOrder(r, o).gas <= r.gas + o.way.gas
         /\ FillOrder(r, o).protocolFee \in Nat /\ FillOrder(r, o).protocolFee <= r.protocolFee + LimitFee(o)
    BY <1>5, <2>4, <2>5, <2>6, <2>7, FillOrderStep
  <2>11. b = c
    BY <2>7
  <2>. HIDE DEF c
  <2>12. s.input = Num(b) /\ s.remaining = Num(amt - b) /\ s.output \in NonNeg /\ s.gas \in Nat /\ s.protocolFee \in Nat
    BY <2>2, <2>10, <2>11
  <2>13. GasUpTo(os, n + 1) \in Nat /\ s.gas <= GasUpTo(os, n + 1)
    BY <2>2, <2>3, <2>5, <2>6, <2>10
  <2>14. s.protocolFee <= lim + LimitFee(o)
    BY <2>2, <2>5, <2>8, <2>9, <2>10
  <2>. QED  BY <2>8, <2>12, <2>13, <2>14 DEF FilledInv, s, b
<1>. HIDE DEF T
<1>8. Nat \subseteq T
  BY <1>6, <1>7, SetInduction
<1>. QED  BY <1>1, <1>2, <1>3, <1>8 DEF T

-----------------------------------------------------------------------------
(* Slippage is against the taker.                                            *)

LEMMA ShareIsSmaller ==
    ASSUME NEW x \in NonNeg, NEW d \in NonNeg
    PROVE  /\ Leq(d, One) => Leq(Times(x, d), x)
           /\ Leq(One, d) => Leq(x, Times(x, d))
<1>. DEFINE a == x[1]
            b == x[2]
            n == d[1]
            m == d[2]
            t == Times(x, d)
<1>1. x \in Rat /\ d \in Rat /\ a \in Nat /\ b \in Nat \ {0} /\ n \in Nat /\ m \in Nat \ {0}
  BY NumIsRat, RatParts
<1>2. IsFrac(t, a * n, b * m) /\ IsFrac(x, a, b)
  BY <1>1, TimesValue, RatIsFrac
<1>3. (Leq(d, One) <=> n <= m) /\ (Leq(One, d) <=> m <= n)
  BY <1>1 DEF Leq, One, Num
<1>. HIDE DEF a, b, n, m, t
<1>4. a * n \in Int /\ b * m \in Nat \ {0} /\ a * b \in Nat
  BY <1>1
<1>5. n <= m => Leq(t, x)
  <2>1. n <= m => n * (a * b) <= m * (a * b)
    BY <1>1, <1>4, ScaleLeq
  <2>2. (a * n) * b = n * (a * b) /\ a * (b * m) = m * (a * b)
    BY <1>1
  <2>3. Leq(t, x) <=> (a * n) * b <= a * (b * m)
    BY <1>1, <1>2, <1>4, FracLeq
  <2>. QED  BY <2>1, <2>2, <2>3
<1>6. m <= n => Leq(x, t)
  <2>1. m <= n => m * (a * b) <= n * (a * b)
    BY <1>1, <1>4, ScaleLeq
  <2>2. (a * n) * b = n * (a * b) /\ a * (b * m) = m * (a * b)
    BY <1>1
  <2>3. Leq(x, t) <=> a * (b * m) <= (a * n) * b
    BY <1>1, <1>2, <1>4, FracLeq
  <2>. QED  BY <2>1, <2>2, <2>3
<1>. QED  BY <1>3, <1>5, <1>6 DEF t

(* The factors by which a slippage of at most one moves an amount are not    *)
(* negative, on either side of one.                                          *)
LEMMA SlippageFactors ==
    ASSUME NEW s \in NonNeg, Leq(s, One)
    PROVE  /\ Minus(One, s) \in NonNeg /\ Leq(Minus(One, s), One)
           /\ Plus(One, s) \in NonNeg /\ Leq(One, Plus(One, s))
           /\ Minus(One, Zero) = One /\ Plus(One, Zero) = One
<1>. DEFINE a == s[1]
            b == s[2]
            x == Minus(One, s)
            y == Plus(One, s)
<1>1. s \in Rat /\ One \in Rat /\ One[1] = 1 /\ One[2] = 1 /\ a \in Nat /\ b \in Nat \ {0}
  BY NumIsRat, RatParts DEF One
<1>2. a <= b
  BY <1>1 DEF Leq, One, Num
<1>3. IsFrac(x, 1 * b - a * 1, 1 * b) /\ IsFrac(y, 1 * b + a * 1, 1 * b) /\ IsFrac(One, 1, 1)
  BY <1>1, MinusValue, PlusValue, RatIsFrac
<1>4. IsFrac(x, b - a, b) /\ IsFrac(y, b + a, b)
  <2>1. 1 * b - a * 1 = b - a /\ 1 * b = b /\ 1 * b + a * 1 = b + a
    BY <1>1
  <2>. QED  BY <1>3, <2>1
<1>. HIDE DEF a, b, x, y
<1>5. b - a \in Nat /\ b + a \in Nat
  BY <1>1, <1>2
<1>6. x \in Rat /\ x[1] >= 0 /\ y \in Rat /\ y[1] >= 0
  BY <1>1, <1>4, <1>5, SignOfFrac
<1>7. Leq(x, One) /\ Leq(One, y)
  <2>1. Leq(x, One) <=> (b - a) * 1 <= 1 * b
    BY <1>1, <1>3, <1>4, <1>5, FracLeq
  <2>2. Leq(One, y) <=> 1 * b <= (b + a) * 1
    BY <1>1, <1>3, <1>4, <1>5, FracLeq
  <2>. QED  BY <1>1, <1>2, <2>1, <2>2
<1>8. Minus(One, Zero) = One /\ Plus(One, Zero) = One
  <2>1. Minus(Num(1), Num(0)) = Num(1 - 0) /\ Plus(Num(1), Num(0)) = Num(1 + 0)
    BY PlusOfInts
  <2>. QED  BY <2>1 DEF One, Zero
<1>. QED  BY <1>6, <1>7, <1>8 DEF NonNeg, x, y

(* What slips is rounded against the taker.                                  *)
LEMMA SlipIsWorse ==
    ASSUME NEW x \in NonNeg, NEW s \in NonNeg, Leq(s, One), NEW side \in {"sell", "buy"}
    PROVE  /\ Slip(side, s, x) \in Nat /\ Slip(side, Zero, x) \in Nat
           /\ side = "sell" => Slip(side, s, x) <= Slip(side, Zero, x)
           /\ side = "buy" => Slip(side, s, x) >= Slip(side, Zero, x)
<1>. DEFINE m == Minus(One, s)
            p == Plus(One, s)
<1>1. /\ m \in NonNeg /\ Leq(m, One) /\ p \in NonNeg /\ Leq(One, p) /\ One \in NonNeg
      /\ Minus(One, Zero) = One /\ Plus(One, Zero) = One
  BY SlippageFactors, NumIsRat
<1>2. /\ side = "sell" => Slip(side, s, x) = Floor(Times(x, m)) /\ Slip(side, Zero, x) = Floor(Times(x, One))
      /\ side = "buy" => Slip(side, s, x) = Ceil(Times(x, p)) /\ Slip(side, Zero, x) = Ceil(Times(x, One))
  BY <1>1 DEF Slip
<1>. HIDE DEF m, p
<1>3. Times(x, m) \in NonNeg /\ Times(x, p) \in NonNeg /\ Times(x, One) \in NonNeg
  BY <1>1, NonNegIsClosed
<1>4. m \in Rat /\ p \in Rat /\ One \in Rat /\ Times(x, m) \in Rat /\ Times(x, p) \in Rat /\ Times(x, One) \in Rat
  BY <1>1, <1>3, NumIsRat
<1>5. Leq(Times(x, m), Times(x, One)) /\ Leq(Times(x, One), Times(x, p))
  BY <1>1, <1>4, TimesIsMonotone
<1>6. /\ Floor(Times(x, m)) \in Nat /\ Floor(Times(x, One)) \in Nat
      /\ Ceil(Times(x, p)) \in Nat /\ Ceil(Times(x, One)) \in Nat
  BY <1>3, FloorOfNonNeg
<1>7. Floor(Times(x, m)) <= Floor(Times(x, One)) /\ Ceil(Times(x, One)) <= Ceil(Times(x, p))
  BY <1>4, <1>5, RoundingIsMonotone
<1>. QED  BY <1>2, <1>6, <1>7

-----------------------------------------------------------------------------
(* The best and the worst case.                                              *)

IsInfo(i) ==
    /\ DOMAIN i = {"maker", "taker", "gas", "protocolFee"}
    /\ i.maker \in Nat /\ i.taker \in Nat /\ i.gas \in Nat /\ i.protocolFee \in Nat

Worse(w, b) ==
    w.maker <= b.maker /\ w.taker >= b.taker /\ w.gas >= b.gas /\ w.protocolFee >= b.protocolFee

(* The simulated worst case of orders is no better than the best case.       *)
LEMMA SinglesAreWorse ==
    ASSUME NEW amt \in Nat, NEW os, AreOrders(os, amt), NEW s \in NonNeg, Leq(s, One), NEW side \in {"sell", "buy"}
    PROVE  /\ IsInfo(simulateBestCaseFill(side, amt, os)) /\ IsInfo(simulateWorstCaseFill(side, amt, s, os))
           /\ Worse(simulateWorstCaseFill(side, amt, s, os), simulateBestCaseFill(side, amt, os))
<1>. DEFINE r == fillQuoteOrders(amt, os)
            len == Len(os)
            a == SmallerOf(SizesUpTo(os, len), amt)
            fee == ProtocolFee * Cardinality(LimitsUpTo(os, len))
            b == simulateBestCaseFill(side, amt, os)
            w == simulateWorstCaseFill(side, amt, s, os)
<1>1. /\ r.input = Num(a) /\ r.output \in NonNeg /\ r.gas \in Nat /\ AllGas(os) \in Nat /\ r.gas <= AllGas(os)
      /\ r.protocolFee \in Nat /\ r.protocolFee <= fee
  BY SimulatedFill DEF FilledInv
<1>2. len \in Nat /\ DOMAIN os = 1 .. len
  BY DEF AreOrders
<1>3. fee \in Nat
  <2>. DEFINE c == Cardinality(LimitsUpTo(os, len))
  <2>1. c \in Nat
    BY <1>2, LimitsInTurn
  <2>. HIDE DEF c
  <2>2. ProtocolFee * c \in Nat
    BY <2>1, NumbersAssumption
  <2>. QED  BY <2>2 DEF c
<1>4. {i \in DOMAIN os : os[i].way.source = "Limit"} = LimitsUpTo(os, len)
  BY <1>2 DEF LimitsUpTo
<1>5. RoundInput(side, r.input) \in Nat
  <2>1. Num(a) \in NonNeg
    <3>1. SizesUpTo(os, len) \in Nat
      BY <1>2, SizesInTurn
    <3>2. a \in Nat
      BY <3>1 DEF SmallerOf
    <3>. QED  BY <3>2, NumIsRat
  <2>. HIDE DEF a
  <2>2. Floor(Num(a)) \in Nat /\ Ceil(Num(a)) \in Nat
    BY <2>1, FloorOfNonNeg
  <2>. QED  BY <1>1, <2>2 DEF RoundInput
<1>. DEFINE i == RoundInput(side, r.input)
            x == Slip(side, Zero, r.output)
            y == Slip(side, s, r.output)
<1>6. b = Info(side, i, x, r.gas, r.protocolFee)
  BY DEF simulateBestCaseFill
<1>7. w = Info(side, i, y, AllGas(os), fee)
  BY <1>4 DEF simulateWorstCaseFill, AllGas
<1>8. x \in Nat /\ y \in Nat /\ (side = "sell" => y <= x) /\ (side = "buy" => y >= x) /\ i \in Nat
  BY <1>1, <1>5, SlipIsWorse
<1>. HIDE DEF r, len, fee, a, i, x, y, b, w
<1>9. IsInfo(b) /\ IsInfo(w)
  BY <1>1, <1>3, <1>6, <1>7, <1>8 DEF IsInfo, Info
<1>10. Worse(w, b)
  BY <1>1, <1>3, <1>6, <1>7, <1>8 DEF Worse, Info
<1>. QED  BY <1>9, <1>10 DEF b, w

(* The worst case of a two-hop is no better than the best case.              *)
LEMMA TwoHopsAreWorse ==
    ASSUME NEW amt, NEW o, IsOrder(o, amt), NEW s \in NonNeg, Leq(s, One), NEW side \in {"sell", "buy"}
    PROVE  IsInfo(TwoHopBest(o)) /\ IsInfo(TwoHopWorst(side, s, o)) /\ Worse(TwoHopWorst(side, s, o), TwoHopBest(o))
<1>. DEFINE b == TwoHopBest(o)
            w == TwoHopWorst(side, s, o)
            m == Floor(o.maker)
            t == Floor(o.taker)
            lo == HalfUp(Times(Num(m), Minus(One, s)))
            hi == Ceil(Times(Num(t), Plus(One, s)))
<1>1. m \in Nat /\ t \in Nat /\ o.way.gas \in Nat
  BY FloorOfNonNeg DEF IsOrder, IsFill, IsWay
<1>. HIDE DEF m, t
<1>2. b = [maker |-> m, taker |-> t, gas |-> o.way.gas, protocolFee |-> 0]
  BY DEF TwoHopBest, m, t
<1>3. /\ side = "sell" => w = [b EXCEPT !.maker = HalfUp(Times(Num(@), Minus(One, s)))]
      /\ side = "buy" => w = [b EXCEPT !.taker = Ceil(Times(Num(@), Plus(One, s)))]
  BY DEF TwoHopWorst
<1>4. /\ side = "sell" => w = [maker |-> lo, taker |-> t, gas |-> o.way.gas, protocolFee |-> 0]
      /\ side = "buy" => w = [maker |-> m, taker |-> hi, gas |-> o.way.gas, protocolFee |-> 0]
  <2>. HIDE DEF b, w
  <2>. QED  BY <1>2, <1>3
<1>5. Minus(One, s) \in NonNeg /\ Leq(Minus(One, s), One) /\ Plus(One, s) \in NonNeg /\ Leq(One, Plus(One, s))
  BY SlippageFactors
<1>6. Num(m) \in NonNeg /\ Num(t) \in NonNeg
  BY <1>1, NumIsRat
<1>7. lo \in Nat /\ lo <= m
  <2>1. Times(Num(m), Minus(One, s)) \in NonNeg
    BY <1>5, <1>6, NonNegIsClosed
  <2>2. Leq(Times(Num(m), Minus(One, s)), Num(m))
    BY <1>5, <1>6, ShareIsSmaller
  <2>. QED  BY <1>1, <2>1, <2>2, HalfUpOfNonNeg
<1>8. hi \in Nat /\ hi >= t
  <2>. DEFINE x == Times(Num(t), Plus(One, s))
  <2>1. x \in NonNeg /\ x \in Rat /\ Num(t) \in Rat
    BY <1>1, <1>5, <1>6, NonNegIsClosed, NumIsRat
  <2>2. Leq(Num(t), x)
    BY <1>5, <1>6, ShareIsSmaller
  <2>. HIDE DEF x
  <2>3. Ceil(Num(t)) <= Ceil(x) /\ Ceil(x) \in Nat /\ Ceil(Num(t)) = t
    BY <1>1, <2>1, <2>2, RoundingIsMonotone, FloorOfNonNeg, RoundingOfInt
  <2>. QED  BY <1>1, <2>3 DEF x
<1>. HIDE DEF lo, hi, b, w
<1>9. IsInfo(b) /\ IsInfo(w)
  BY <1>1, <1>2, <1>4, <1>7, <1>8 DEF IsInfo
<1>10. Worse(w, b)
  BY <1>1, <1>2, <1>4, <1>7, <1>8 DEF Worse
<1>. QED  BY <1>9, <1>10 DEF b, w

NoInfo == [maker |-> 0, taker |-> 0, gas |-> 0, protocolFee |-> 0]
MergedUpTo(infos, n) == Infos!Fold(infos, NoInfo, 1 .. n)

(* mergeSwapQuoteInfos adds the cases one after the other.                   *)
LEMMA MergedInTurn ==
    ASSUME NEW S, NEW infos \in Seq(S)
    PROVE  /\ mergeSwapQuoteInfos(infos) = MergedUpTo(infos, Len(infos))
           /\ MergedUpTo(infos, 0) = NoInfo
           /\ \A n \in 1 .. Len(infos) : MergedUpTo(infos, n) = NextInfo(infos, n, MergedUpTo(infos, n - 1))
<1>1. DOMAIN infos = 1 .. Len(infos) /\ Len(infos) \in Nat
  OBVIOUS
<1>. DEFINE base == NoInfo
<1>2. mergeSwapQuoteInfos(infos) = FoldLeft(LAMBDA x, y : [k \in DOMAIN x |-> x[k] + y[k]], base, infos)
  BY DEF mergeSwapQuoteInfos, NoInfo
<1>. HIDE DEF base
<1>3. FoldLeft(LAMBDA x, y : [k \in DOMAIN x |-> x[k] + y[k]], base, infos) = Infos!Fold(infos, base, DOMAIN infos)
  BY DEF FoldLeft, MapThenFoldSet, Infos!Fold, Infos!AreFolds, NextInfo
<1>4. /\ Infos!Fold(infos, base, 1 .. 0) = base
      /\ \A n \in 1 .. Len(infos) : Infos!Fold(infos, base, 1 .. n) = NextInfo(infos, n, Infos!Fold(infos, base, 1 .. (n - 1)))
  BY <1>1, InTurn, Infos!FoldInTurn DEF Infos!HasMinima, Infos!Chooses
<1>. QED  BY <1>1, <1>2, <1>3, <1>4 DEF MergedUpTo, base

AddInfo(x, y) == [k \in DOMAIN x |-> x[k] + y[k]]

(* The sum of two cases is one, amount by amount.                            *)
LEMMA AddedInfos ==
    ASSUME NEW x, IsInfo(x), NEW y, IsInfo(y)
    PROVE  /\ IsInfo(AddInfo(x, y))
           /\ AddInfo(x, y).maker = x.maker + y.maker /\ AddInfo(x, y).taker = x.taker + y.taker
           /\ AddInfo(x, y).gas = x.gas + y.gas /\ AddInfo(x, y).protocolFee = x.protocolFee + y.protocolFee
BY DEF IsInfo, AddInfo

(* Sums of cases that are worse are worse.                                   *)
LEMMA AddedAreWorse ==
    ASSUME NEW x, IsInfo(x), NEW y, IsInfo(y), NEW u, IsInfo(u), NEW v, IsInfo(v), Worse(u, x), Worse(v, y)
    PROVE  Worse(AddInfo(u, v), AddInfo(x, y))
<1>1. /\ AddInfo(x, y).maker = x.maker + y.maker /\ AddInfo(x, y).taker = x.taker + y.taker
      /\ AddInfo(x, y).gas = x.gas + y.gas /\ AddInfo(x, y).protocolFee = x.protocolFee + y.protocolFee
  BY AddedInfos
<1>2. /\ AddInfo(u, v).maker = u.maker + v.maker /\ AddInfo(u, v).taker = u.taker + v.taker
      /\ AddInfo(u, v).gas = u.gas + v.gas /\ AddInfo(u, v).protocolFee = u.protocolFee + v.protocolFee
  BY AddedInfos
<1>. QED  BY <1>1, <1>2 DEF Worse, IsInfo

AreInfos(s) == s \in Seq(Range(s)) /\ \A i \in DOMAIN s : IsInfo(s[i])

(* So are the merged cases of any number of orders.                          *)
LEMMA MergedAreWorse ==
    ASSUME NEW bs, AreInfos(bs), NEW ws, AreInfos(ws), Len(bs) = Len(ws),
           \A i \in 1 .. Len(bs) : Worse(ws[i], bs[i])
    PROVE  /\ IsInfo(mergeSwapQuoteInfos(bs)) /\ IsInfo(mergeSwapQuoteInfos(ws))
           /\ Worse(mergeSwapQuoteInfos(ws), mergeSwapQuoteInfos(bs))
<1>. DEFINE len == Len(bs)
            b(n) == MergedUpTo(bs, n)
            w(n) == MergedUpTo(ws, n)
            T == {n \in Nat : n <= len => IsInfo(b(n)) /\ IsInfo(w(n)) /\ Worse(w(n), b(n))}
<1>1. /\ bs \in Seq(Range(bs)) /\ DOMAIN bs = 1 .. len /\ ws \in Seq(Range(ws)) /\ DOMAIN ws = 1 .. len
      /\ len \in Nat /\ Len(ws) = len
  BY DEF AreInfos
<1>2. /\ mergeSwapQuoteInfos(bs) = b(len) /\ b(0) = NoInfo
      /\ \A n \in 1 .. len : b(n) = AddInfo(b(n - 1), bs[n])
  BY <1>1, MergedInTurn DEF NextInfo, AddInfo
<1>3. /\ mergeSwapQuoteInfos(ws) = w(len) /\ w(0) = NoInfo
      /\ \A n \in 1 .. len : w(n) = AddInfo(w(n - 1), ws[n])
  BY <1>1, MergedInTurn DEF NextInfo, AddInfo
<1>4. \A n \in 1 .. len : IsInfo(bs[n]) /\ IsInfo(ws[n]) /\ Worse(ws[n], bs[n])
  BY <1>1 DEF AreInfos
<1>. HIDE DEF b, w, len
<1>5. 0 \in T
  <2>1. IsInfo(NoInfo) /\ Worse(NoInfo, NoInfo)
    BY DEF IsInfo, Worse, NoInfo
  <2>. QED  BY <1>2, <1>3, <2>1
<1>6. ASSUME NEW n \in Nat, n \in T PROVE n + 1 \in T
  <2>. SUFFICES ASSUME n + 1 <= len PROVE IsInfo(b(n + 1)) /\ IsInfo(w(n + 1)) /\ Worse(w(n + 1), b(n + 1))
    OBVIOUS
  <2>1. n + 1 \in 1 .. len /\ (n + 1) - 1 = n /\ n <= len
    BY <1>1
  <2>2. b(n + 1) = AddInfo(b(n), bs[n + 1]) /\ w(n + 1) = AddInfo(w(n), ws[n + 1])
    BY <1>2, <1>3, <2>1
  <2>3. IsInfo(b(n)) /\ IsInfo(w(n)) /\ Worse(w(n), b(n))
    BY <1>6, <2>1
  <2>4. IsInfo(bs[n + 1]) /\ IsInfo(ws[n + 1]) /\ Worse(ws[n + 1], bs[n + 1])
    BY <1>4, <2>1
  <2>. QED  BY <2>2, <2>3, <2>4, AddedInfos, AddedAreWorse
<1>. HIDE DEF T
<1>7. Nat \subseteq T
  BY <1>5, <1>6, SetInduction
<1>8. IsInfo(b(len)) /\ IsInfo(w(len)) /\ Worse(w(len), b(len))
  BY <1>1, <1>7 DEF T
<1>. QED  BY <1>2, <1>3, <1>8

(* The case of the single hops comes before those of the two-hops.           *)
LEMMA OneAndMore ==
    ASSUME NEW x, IsInfo(x), NEW f, AreInfos(f)
    PROVE  /\ AreInfos(<<x>> \o f) /\ Len(<<x>> \o f) = Len(f) + 1
           /\ (<<x>> \o f)[1] = x /\ \A i \in 1 .. Len(f) : (<<x>> \o f)[i + 1] = f[i]
<1>. DEFINE S == {x} \cup Range(f)
            one == <<x>>
            s == one \o f
<1>1. one \in Seq(S) /\ Len(one) = 1 /\ one[1] = x
  OBVIOUS
<1>2. f \in Seq(S) /\ Len(f) \in Nat
  <2>1. f \in Seq(Range(f)) /\ Range(f) \subseteq S
    BY DEF AreInfos
  <2>. HIDE DEF S
  <2>. QED  BY <2>1, SeqMonotonic
<1>3. \A y \in S : IsInfo(y)
  BY DEF AreInfos, Range
<1>. HIDE DEF S, one
<1>4. s \in Seq(S) /\ Len(s) = Len(one) + Len(f)
      /\ \A i \in 1 .. Len(one) + Len(f) : s[i] = IF i <= Len(one) THEN one[i] ELSE f[i - Len(one)]
  BY <1>1, <1>2, ConcatProperties
<1>. HIDE DEF s
<1>5. AreInfos(s)
  <2>1. s \in Seq(Range(s)) /\ \A i \in DOMAIN s : s[i] \in S
    BY <1>4, IsSeqOfRange
  <2>. QED  BY <1>3, <2>1 DEF AreInfos
<1>6. s[1] = x
  <2>1. 1 \in 1 .. Len(one) + Len(f) /\ 1 <= Len(one)
    BY <1>1, <1>2
  <2>. QED  BY <1>1, <1>4, <2>1
<1>7. ASSUME NEW i \in 1 .. Len(f) PROVE s[i + 1] = f[i]
  <2>1. i + 1 \in 1 .. Len(one) + Len(f) /\ ~ (i + 1 <= Len(one)) /\ (i + 1) - Len(one) = i
    BY <1>1, <1>2
  <2>. QED  BY <1>4, <2>1
<1>8. Len(s) = Len(f) + 1
  BY <1>1, <1>2, <1>4
<1>. QED  BY <1>5, <1>6, <1>7, <1>8 DEF s, one

(* calculateQuoteInfo: the worst case of a path is no better than the best   *)
(* case.                                                                     *)
LEMMA QuoteInfoIsWorse ==
    ASSUME NEW amt \in Nat, NEW fills, ArePathFills(fills, amt), NEW s \in NonNeg, Leq(s, One),
           NEW side \in {"sell", "buy"}
    PROVE  LET q == calculateQuoteInfo(side, amt, s, fills)
           IN  IsInfo(q.best) /\ IsInfo(q.worst) /\ Worse(q.worst, q.best)
<1>. DEFINE q == calculateQuoteInfo(side, amt, s, fills)
            single == OrdersOf(side, fills, "native") \o OrdersOf(side, fills, "bridge")
            hops == OrdersOf(side, fills, "twoHop")
            b1 == simulateBestCaseFill(side, amt, single)
            w1 == simulateWorstCaseFill(side, amt, s, single)
            hb(i) == TwoHopBest(hops[i])
            hw(i) == TwoHopWorst(side, s, hops[i])
            bf == [i \in DOMAIN hops |-> hb(i)]
            wf == [i \in DOMAIN hops |-> hw(i)]
            bs == <<b1>> \o bf
            ws == <<w1>> \o wf
            len == Len(hops)
<1>1. q.best = mergeSwapQuoteInfos(bs) /\ q.worst = mergeSwapQuoteInfos(ws)
  BY DEF calculateQuoteInfo
<1>2. AreOrders(single, amt) /\ AreOrders(hops, amt)
  BY OrdersAreOrders, OrdersTogether
<1>. HIDE DEF single, hops
<1>3. IsInfo(b1) /\ IsInfo(w1) /\ Worse(w1, b1)
  BY <1>2, SinglesAreWorse
<1>4. DOMAIN hops = 1 .. len /\ len \in Nat
  BY <1>2 DEF AreOrders
<1>5. ASSUME NEW i \in 1 .. len PROVE IsInfo(hb(i)) /\ IsInfo(hw(i)) /\ Worse(hw(i), hb(i))
  <2>1. IsOrder(hops[i], amt)
    BY <1>2, <1>4 DEF AreOrders
  <2>. QED  BY <2>1, TwoHopsAreWorse
<1>. HIDE DEF b1, w1, hb, hw, len
<1>6. AreInfos(bf) /\ Len(bf) = len /\ \A i \in 1 .. len : bf[i] = hb(i)
  <2>. DEFINE S == {hb(i) : i \in 1 .. len}
  <2>1. bf \in [1 .. len -> S] /\ \A i \in 1 .. len : bf[i] = hb(i)
    BY <1>4
  <2>2. \A y \in S : IsInfo(y)
    BY <1>5
  <2>. HIDE DEF S, bf
  <2>3. bf \in Seq(S) /\ Len(bf) = len
    BY <1>4, <2>1, SeqDef
  <2>4. bf \in Seq(Range(bf)) /\ \A i \in DOMAIN bf : bf[i] \in S
    BY <2>3, IsSeqOfRange
  <2>. QED  BY <2>1, <2>2, <2>3, <2>4 DEF AreInfos
<1>6a. AreInfos(wf) /\ Len(wf) = len /\ \A i \in 1 .. len : wf[i] = hw(i)
  <2>. DEFINE S == {hw(i) : i \in 1 .. len}
  <2>1. wf \in [1 .. len -> S] /\ \A i \in 1 .. len : wf[i] = hw(i)
    BY <1>4
  <2>2. \A y \in S : IsInfo(y)
    BY <1>5
  <2>. HIDE DEF S, wf
  <2>3. wf \in Seq(S) /\ Len(wf) = len
    BY <1>4, <2>1, SeqDef
  <2>4. wf \in Seq(Range(wf)) /\ \A i \in DOMAIN wf : wf[i] \in S
    BY <2>3, IsSeqOfRange
  <2>. QED  BY <2>1, <2>2, <2>3, <2>4 DEF AreInfos
<1>7. \A i \in 1 .. len : Worse(wf[i], bf[i])
  BY <1>5, <1>6, <1>6a
<1>. HIDE DEF bf, wf
<1>8. AreInfos(bs) /\ Len(bs) = len + 1 /\ bs[1] = b1 /\ \A i \in 1 .. len : bs[i + 1] = bf[i]
  BY <1>3, <1>6, OneAndMore
<1>9. AreInfos(ws) /\ Len(ws) = len + 1 /\ ws[1] = w1 /\ \A i \in 1 .. len : ws[i + 1] = wf[i]
  BY <1>3, <1>6a, OneAndMore
<1>. HIDE DEF bs, ws
<1>10. \A i \in 1 .. Len(bs) : Worse(ws[i], bs[i])
  <2>. SUFFICES ASSUME NEW i \in 1 .. (len + 1) PROVE Worse(ws[i], bs[i])
    BY <1>8
  <2>1. CASE i = 1
    BY <1>3, <1>8, <1>9, <2>1
  <2>2. CASE i # 1
    <3>1. i - 1 \in 1 .. len /\ (i - 1) + 1 = i
      BY <1>4, <2>2
    <3>. QED  BY <1>7, <1>8, <1>9, <3>1
  <2>. QED  BY <2>1, <2>2
<1>. QED  BY <1>1, <1>8, <1>9, <1>10, MergedAreWorse

-----------------------------------------------------------------------------
(* What the fills of a path take together.                                   *)

InputsOf(p) == [i \in DOMAIN p |-> p[i].input[1]]
Taken(p) == SumFunctionOnSet(InputsOf(p), DOMAIN p)

(* The inputs of a path are whole numbers, and add up to what it takes.      *)
LEMMA InputsAreTaken ==
    ASSUME NEW amt \in Nat, NEW p, ArePathFills(p, amt)
    PROVE  /\ \A i \in DOMAIN p : InputsOf(p)[i] \in 1 .. amt /\ p[i].input = Num(InputsOf(p)[i])
           /\ Taken(p) \in Nat
           /\ SumQ(LAMBDA f : f.input, p) = Num(Taken(p))
<1>. DEFINE len == Len(p)
            k == InputsOf(p)
<1>1. DOMAIN p = 1 .. len /\ len \in Nat /\ DOMAIN k = 1 .. len
  BY DEF ArePathFills, InputsOf
<1>2. ASSUME NEW i \in 1 .. len PROVE k[i] \in 1 .. amt /\ p[i].input = Num(k[i])
  <2>1. PICK n \in 1 .. amt : p[i].input = Num(n)
    BY <1>1 DEF ArePathFills, IsFill
  <2>2. k[i] = n
    BY <1>1, <2>1, NumIsRat DEF InputsOf
  <2>. QED  BY <2>1, <2>2
<1>3. k \in [1 .. len -> Nat]
  <2>1. \A i \in 1 .. len : k[i] \in Nat
    BY <1>2
  <2>2. k = [i \in 1 .. len |-> p[i].input[1]]
    BY <1>1 DEF InputsOf
  <2>. QED  BY <1>1, <2>1, <2>2
<1>. HIDE DEF len
<1>4. SumFunctionOnSet(k, 1 .. len) \in Nat
  <2>. DEFINE D == 1 .. len
  <2>0. IsFiniteSet(D)
    BY <1>1, FS_Interval
  <2>1. \A i \in D : k[i] \in Nat
    BY <1>3
  <2>. HIDE DEF D
  <2>2. SumFunctionOnSet(k, D) \in Nat
    BY <2>0, <2>1, SumIsNat
  <2>. QED  BY <2>2 DEF D
<1>5. SumQ(LAMBDA n : Num(n), k) = Num(SumFunction(k))
  BY <1>1, <1>3, TotalOfInputs
<1>6. SumQ(LAMBDA n : Num(n), k) = SumQ(LAMBDA f : f.input, p)
  <2>1. [i \in DOMAIN k |-> Num(k[i])] = [i \in DOMAIN p |-> p[i].input]
    BY <1>1, <1>2
  <2>. QED  BY <2>1 DEF SumQ
<1>7. Taken(p) = SumFunction(k) /\ Taken(p) = SumFunctionOnSet(k, 1 .. len)
  BY <1>1 DEF Taken, SumFunction
<1>. QED  BY <1>1, <1>2, <1>4, <1>5, <1>6, <1>7

(* The factor that scales the inputs of the router is near the quotient.     *)
LEMMA ScalarIsNear ==
    ASSUME NEW amt \in Nat \ {0}, NEW len \in Nat, NEW inputs \in [1 .. len -> Nat],
           SumFunction(inputs) \in 1 .. amt
    PROVE  \E h \in Nat : /\ IsFrac(PrecisionErrorScalar(amt, inputs), h, Precision)
                          /\ 2 * (h * SumFunction(inputs)) <= 2 * (amt * Precision) + SumFunction(inputs)
                          /\ 2 * (amt * Precision) <= 2 * (h * SumFunction(inputs)) + SumFunction(inputs)
<1>. DEFINE k == SumFunction(inputs)
            P == Precision
            x == Num(amt * P)
            q == Over(x, Num(k))
            h == HalfUp(q)
<1>1. PrecisionErrorScalar(amt, inputs) = Frac(h, P)
  BY TotalOfInputs DEF PrecisionErrorScalar
<1>2. P \in Nat \ {0} /\ k \in Nat \ {0} /\ k <= amt
  BY PathAssumption
<1>. HIDE DEF k, P
<1>3. amt * P \in Nat
  BY <1>2
<1>4. x \in NonNeg /\ Num(k) \in NonNeg /\ Num(k)[1] > 0 /\ x[1] = amt * P /\ x[2] = 1 /\ Num(k)[1] = k /\ Num(k)[2] = 1
      /\ x \in Rat /\ Num(k) \in Rat
  BY <1>2, <1>3, NumIsRat
<1>. HIDE DEF x
<1>5. q \in NonNeg
  BY <1>4, NonNegIsClosed
<1>6. IsFrac(q, x[1] * Num(k)[2], x[2] * Num(k)[1])
  BY <1>4, OverValue
<1>7. IsFrac(q, amt * P, k)
  <2>1. (amt * P) * 1 = amt * P /\ 1 * k = k
    BY <1>2, <1>3
  <2>. QED  BY <1>4, <1>6, <2>1
<1>. HIDE DEF q
<1>8. h \in Nat /\ 2 * (h * k) <= 2 * (amt * P) + k /\ 2 * (amt * P) <= 2 * (h * k) + k
  BY <1>2, <1>3, <1>5, <1>7, HalfUpIsNear
<1>. HIDE DEF h
<1>9. IsFrac(Frac(h, P), h, P)
  BY <1>2, <1>8, FracValue
<1>. QED  BY <1>1, <1>8, <1>9 DEF k, P

\* The parts z of an amount over a route: scaled by h, and rounded up.
IsScaled(z, input, h, amt) ==
    z \in 1 .. amt /\ Precision * z <= h * input + (Precision - 1) /\ (z = amt \/ h * input <= Precision * z)

(* A corrected input is the router's times the factor, rounded up, or the    *)
(* whole amount.                                                             *)
LEMMA RouteInputIsNear ==
    ASSUME NEW amt \in Nat \ {0}, NEW len \in Nat, NEW inputs \in [1 .. len -> Nat],
           NEW h \in Nat, IsFrac(PrecisionErrorScalar(amt, inputs), h, Precision),
           NEW i \in 1 .. len, NEW z \in 1 .. amt, RouteInputCorrected(amt, inputs, i) = Num(z)
    PROVE  IsScaled(z, inputs[i], h, amt)
<1>. DEFINE s == PrecisionErrorScalar(amt, inputs)
            n == inputs[i]
            P == Precision
            x == Times(s, Num(n))
            c == Ceil(x)
<1>1. P \in Nat \ {0} /\ n \in Nat
  BY PathAssumption
<1>2. RouteInputCorrected(amt, inputs, i) = MinOf(Num(c), Num(amt))
  BY DEF RouteInputCorrected
<1>3. IsFrac(s, h, P)
  OBVIOUS
<1>. HIDE DEF s, n, P
<1>4. s \in Rat /\ Num(n) \in Rat /\ Num(n)[1] = n /\ Num(n)[2] = 1 /\ s[1] * P = h * s[2] /\ s[1] \in Int /\ s[2] \in Nat \ {0}
  BY <1>1, <1>3, NumIsRat, RatParts DEF IsFrac
<1>5. IsFrac(x, s[1] * n, s[2])
  <2>1. IsFrac(x, s[1] * Num(n)[1], s[2] * Num(n)[2])
    BY <1>4, TimesValue
  <2>2. s[2] * 1 = s[2]
    BY <1>4
  <2>. QED  BY <1>4, <2>1, <2>2
<1>6. IsFrac(x, h * n, P)
  <2>. DEFINE a == s[1]
              b == s[2]
  <2>1. a * P = h * b /\ a \in Int /\ b \in Nat \ {0}
    BY <1>4
  <2>2. x \in Rat /\ x[1] * b = (a * n) * x[2] /\ x[1] \in Int /\ x[2] \in Nat \ {0}
    BY <1>5, RatParts DEF IsFrac
  <2>. DEFINE u == x[1]
              v == x[2]
  <2>3. u * b = (a * n) * v /\ u \in Int /\ v \in Nat \ {0}
    BY <2>2
  <2>. HIDE DEF a, b, u, v
  <2>4. (u * P) * b = ((h * n) * v) * b
    <3>1. (u * P) * b = (u * b) * P
      BY <1>1, <2>1, <2>3
    <3>2. ((a * n) * v) * P = (a * P) * (n * v)
      BY <1>1, <2>1, <2>3
    <3>3. (h * b) * (n * v) = ((h * n) * v) * b
      BY <1>1, <2>1, <2>3
    <3>. QED  BY <2>1, <2>3, <3>1, <3>2, <3>3
  <2>5. u * P = (h * n) * v
    <3>. DEFINE l == u * P
                r == (h * n) * v
    <3>1. l \in Int /\ r \in Int /\ l * b = r * b
      BY <1>1, <2>3, <2>4
    <3>. HIDE DEF l, r
    <3>2. l <= r /\ r <= l
      BY <2>1, <3>1, CancelLeq
    <3>3. l = r
      BY <3>1, <3>2
    <3>. QED  BY <3>3 DEF l, r
  <2>. QED  BY <2>2, <2>5 DEF IsFrac, u, v
<1>7. c \in Int /\ h * n <= c * P /\ c * P <= h * n + P - 1
  <2>1. h * n \in Int
    BY <1>1
  <2>. HIDE DEF x
  <2>. QED  BY <1>1, <1>6, <2>1, CeilIsNear
<1>. HIDE DEF c
<1>8. Num(z) = Num(IF c <= amt THEN c ELSE amt)
  BY <1>2, <1>7, LeqOfInts
<1>9. z = IF c <= amt THEN c ELSE amt
  <2>1. Num(z)[1] = z /\ \A m \in Int : Num(m)[1] = m
    BY NumIsRat
  <2>. QED  BY <1>7, <1>8, <2>1
<1>10. h * n \in Int /\ c * P = P * c /\ z * P = P * z
  BY <1>1, <1>7
<1>11. P * z <= h * n + (P - 1)
  <2>1. z <= c
    BY <1>7, <1>9
  <2>2. z * P <= c * P
    BY <1>1, <1>7, <2>1, ScaleLeq
  <2>3. z * P \in Int /\ c * P \in Int
    BY <1>1, <1>7
  <2>. QED  BY <1>1, <1>7, <1>10, <2>2, <2>3
<1>12. z = amt \/ h * n <= P * z
  BY <1>7, <1>9, <1>10
<1>. QED  BY <1>11, <1>12 DEF IsScaled, n, P

(* The terms of what is chosen add up to the terms at the chosen indices.    *)
Values(s, v) == [i \in DOMAIN s |-> v[s[i]]]
ValueOf(s, v) == SumFunctionOnSet(Values(s, v), DOMAIN s)

(* One more element adds its value to that of a sequence.                    *)
LEMMA ValueOfOneMore ==
    ASSUME NEW S, NEW s \in Seq(S), NEW x \in S, NEW v, \A y \in S : v[y] \in Int
    PROVE  /\ ValueOf(s \o <<x>>, v) = ValueOf(s, v) + v[x] /\ ValueOf(s, v) \in Int
           /\ Len(s \o <<x>>) = Len(s) + 1
<1>. DEFINE one == <<x>>
            t == s \o one
            n == Len(s)
            D == 1 .. n
            E == 1 .. (n + 1)
            f == Values(s, v)
            g == Values(t, v)
<1>1. one \in Seq(S) /\ Len(one) = 1 /\ one[1] = x
  OBVIOUS
<1>2. n \in Nat /\ DOMAIN s = D
  OBVIOUS
<1>. HIDE DEF one
<1>3. t \in Seq(S) /\ Len(t) = n + Len(one)
      /\ \A i \in 1 .. n + Len(one) : t[i] = IF i <= n THEN s[i] ELSE one[i - n]
  BY <1>1, ConcatProperties
<1>. HIDE DEF t
<1>4. DOMAIN t = E /\ Len(t) = n + 1
  BY <1>1, <1>2, <1>3
<1>5. \A i \in D : t[i] = s[i] /\ i \in E
  BY <1>1, <1>2, <1>3
<1>6. t[n + 1] = x
  <2>1. n + 1 \in 1 .. n + Len(one) /\ ~ (n + 1 <= n) /\ (n + 1) - n = 1
    BY <1>1, <1>2
  <2>. QED  BY <1>1, <1>3, <2>1
<1>7. (\A i \in D : s[i] \in S) /\ (\A i \in E : t[i] \in S)
  BY <1>2, <1>3, <1>4, ElementOfSeq
<1>8. (\A i \in D : f[i] = v[s[i]] /\ f[i] \in Int) /\ (\A i \in E : g[i] = v[t[i]] /\ g[i] \in Int)
  BY <1>2, <1>4, <1>7 DEF Values
<1>9. (\A i \in D : g[i] = f[i]) /\ g[n + 1] = v[x] /\ n + 1 \in E /\ E \ {n + 1} = D
  BY <1>2, <1>5, <1>6, <1>8
<1>10. IsFiniteSet(D) /\ IsFiniteSet(E)
  BY <1>2, FS_Interval
<1>. HIDE DEF f, g, D, E
<1>11. SumFunctionOnSet(g, E) = g[n + 1] + SumFunctionOnSet(g, E \ {n + 1})
  BY <1>8, <1>9, <1>10, SumWithout
<1>12. SumFunctionOnSet(g, D) = SumFunctionOnSet(f, D)
  BY <1>9, <1>10, SumAgrees
<1>13. SumFunctionOnSet(f, D) \in Int
  BY <1>8, <1>10, SumIsInt
<1>14. ValueOf(t, v) = SumFunctionOnSet(g, E) /\ ValueOf(s, v) = SumFunctionOnSet(f, D)
  BY <1>2, <1>4 DEF ValueOf, f, g
<1>15. v[x] \in Int
  OBVIOUS
<1>16. ValueOf(t, v) = v[x] + ValueOf(s, v) /\ ValueOf(s, v) \in Int
  BY <1>9, <1>11, <1>12, <1>13, <1>14
<1>17. ValueOf(t, v) = ValueOf(s, v) + v[x]
  BY <1>15, <1>16
<1>. QED  BY <1>4, <1>16, <1>17 DEF t, one

(* The chosen elements of a sequence are worth the sum of the values at      *)
(* their places.                                                             *)
LEMMA ChosenAddsUp ==
    ASSUME NEW S, NEW s \in Seq(S), NEW v, \A y \in S : v[y] \in Int, NEW I \in SUBSET DOMAIN s
    PROVE  /\ ValueOf(Chosen(s, I), v) = SumFunctionOnSet(Values(s, v), I)
           /\ Len(Chosen(s, I)) = Cardinality(I)
<1>. DEFINE c(n) == ChosenUpTo(s, I, n)
            f == Values(s, v)
            J(n) == {i \in I : i <= n}
            Sum(n) == SumFunctionOnSet(f, J(n))
            T == {n \in Nat : n <= Len(s) => /\ c(n) \in Seq(S) /\ ValueOf(c(n), v) = Sum(n)
                                             /\ Len(c(n)) = Cardinality(J(n))}
<1>a. Len(s) \in Nat /\ DOMAIN s = 1 .. Len(s)
  OBVIOUS
<1>0. /\ Chosen(s, I) = c(Len(s))
      /\ c(0) = <<>>
      /\ \A n \in 1 .. Len(s) : c(n) = c(n - 1) \o Part(s, I, n)
  BY ChosenInTurn
<1>b. \A i \in DOMAIN s : s[i] \in S /\ f[i] = v[s[i]] /\ f[i] \in Int
  BY DEF Values
<1>c. \A n \in Nat : IsFiniteSet(J(n)) /\ J(n) \subseteq DOMAIN s
  <2>. DEFINE D == DOMAIN s
  <2>1. IsFiniteSet(1 .. Len(s))
    BY <1>a, FS_Interval
  <2>2. IsFiniteSet(D) /\ \A n \in Nat : J(n) \subseteq D
    BY <1>a, <2>1
  <2>. HIDE DEF D, J
  <2>3. \A n \in Nat : IsFiniteSet(J(n))
    BY <2>2, FS_Subset
  <2>. QED  BY <2>2, <2>3 DEF D
<1>. HIDE DEF c, f
<1>1. 0 \in T
  <2>1. J(0) = {}
    BY <1>a
  <2>2. Sum(0) = 0
    BY <2>1, SumOfNothing
  <2>3. Cardinality(J(0)) = 0
    BY <2>1, FS_EmptySet
  <2>4. <<>> \in Seq(S) /\ Len(<<>>) = 0 /\ DOMAIN <<>> = {}
    OBVIOUS
  <2>5. ValueOf(<<>>, v) = 0
    BY <2>4, SumOfNothing DEF ValueOf
  <2>6. c(0) \in Seq(S) /\ Len(c(0)) = 0 /\ ValueOf(c(0), v) = 0
    BY <1>0, <2>4, <2>5, Zenon
  <2>. HIDE DEF J, Sum
  <2>. QED  BY <2>2, <2>3, <2>6
<1>2. ASSUME NEW n \in Nat, n \in T PROVE n + 1 \in T
  <2>. SUFFICES ASSUME n + 1 <= Len(s)
                PROVE  c(n + 1) \in Seq(S) /\ ValueOf(c(n + 1), v) = Sum(n + 1) /\ Len(c(n + 1)) = Cardinality(J(n + 1))
    OBVIOUS
  <2>1. n + 1 \in 1 .. Len(s) /\ (n + 1) - 1 = n /\ n <= Len(s) /\ n + 1 \in DOMAIN s
    BY <1>a
  <2>2. c(n + 1) = c(n) \o Part(s, I, n + 1)
    BY <1>0, <2>1
  <2>3. c(n) \in Seq(S) /\ ValueOf(c(n), v) = Sum(n) /\ Len(c(n)) = Cardinality(J(n))
    <3>. HIDE DEF J, Sum
    <3>. QED  BY <1>2, <2>1
  <2>4. CASE n + 1 \in I
    <3>. DEFINE x == s[n + 1]
    <3>1. x \in S /\ f[n + 1] = v[x] /\ f[n + 1] \in Int
      BY <1>b, <2>1
    <3>2. c(n + 1) = c(n) \o <<x>>
      BY <2>2, <2>4, Zenon DEF Part
    <3>. HIDE DEF x
    <3>3. ValueOf(c(n + 1), v) = ValueOf(c(n), v) + v[x] /\ ValueOf(c(n), v) \in Int /\ Len(c(n + 1)) = Len(c(n)) + 1
      <4>1. /\ ValueOf(c(n) \o <<x>>, v) = ValueOf(c(n), v) + v[x] /\ ValueOf(c(n), v) \in Int
            /\ Len(c(n) \o <<x>>) = Len(c(n)) + 1
        BY <2>3, <3>1, ValueOfOneMore, Zenon
      <4>. QED  BY <3>2, <4>1, Zenon
    <3>4. c(n + 1) \in Seq(S)
      <4>. DEFINE one == <<x>>
      <4>1. one \in Seq(S)
        BY <3>1
      <4>2. c(n + 1) = c(n) \o one
        BY <3>2
      <4>. HIDE DEF one
      <4>. QED  BY <2>3, <4>1, <4>2, ConcatProperties
    <3>5. n + 1 \in J(n + 1) /\ J(n + 1) \ {n + 1} = J(n) /\ J(n + 1) = J(n) \cup {n + 1} /\ n + 1 \notin J(n)
      BY <1>a, <2>4
    <3>6. IsFiniteSet(J(n)) /\ IsFiniteSet(J(n + 1)) /\ J(n + 1) \subseteq DOMAIN s
      BY <1>c
    <3>. HIDE DEF J
    <3>7. \A i \in J(n + 1) : f[i] \in Int
      BY <1>b, <3>6
    <3>8. SumFunctionOnSet(f, J(n + 1)) = f[n + 1] + SumFunctionOnSet(f, J(n + 1) \ {n + 1})
      BY <3>5, <3>6, <3>7, SumWithout
    <3>9. Cardinality(J(n) \cup {n + 1}) = Cardinality(J(n)) + 1
      BY <3>5, <3>6, FS_AddElement
    <3>10. Sum(n + 1) = f[n + 1] + Sum(n)
      BY <3>5, <3>8
    <3>. HIDE DEF Sum
    <3>11. ValueOf(c(n + 1), v) = Sum(n + 1)
      BY <2>3, <3>1, <3>3, <3>10
    <3>. QED  BY <2>3, <3>3, <3>4, <3>5, <3>9, <3>11
  <2>5. CASE n + 1 \notin I
    <3>1. c(n + 1) = c(n)
      <4>1. c(n + 1) = c(n) \o <<>>
        BY <2>2, <2>5, Zenon DEF Part
      <4>2. c(n) \o <<>> = c(n)
        BY <2>3, ConcatEmptySeq
      <4>. QED  BY <4>1, <4>2, Zenon
    <3>2. J(n + 1) = J(n)
      BY <1>a, <2>5
    <3>3. Sum(n + 1) = Sum(n)
      BY <3>2
    <3>. HIDE DEF Sum, J
    <3>. QED  BY <2>3, <3>1, <3>2, <3>3
  <2>. QED  BY <2>4, <2>5
<1>3. J(Len(s)) = I
  BY <1>a
<1>. HIDE DEF T
<1>4. Nat \subseteq T
  BY <1>1, <1>2, SetInduction
<1>5. ValueOf(c(Len(s)), v) = Sum(Len(s)) /\ Len(c(Len(s))) = Cardinality(J(Len(s)))
  <2>. HIDE DEF J, Sum
  <2>. QED  BY <1>a, <1>4 DEF T
<1>. QED  BY <1>0, <1>3, <1>5 DEF f

\* A fill that takes all of an order.
UsedUp(side, f) == f.way.kind = "native" /\ f.input = Num(OrderInput(side, f.way.order))

(* A fill takes the router's input times the factor, rounded up, unless it   *)
(* takes the whole amount or uses up an order.                               *)
LEMMA RouteFillIsNear ==
    ASSUME NEW side, NEW amt \in Nat \ {0}, NEW offers, AreOffers(offers),
           NEW route, IsRoute(route, offers, amt), NEW adjustor,
           NEW h \in Nat, IsFrac(PrecisionErrorScalar(amt, route.inputs), h, Precision),
           NEW i \in DOMAIN offers, route.inputs[i] # 0
    PROVE  LET f == RouteFill(side, amt, offers, route, adjustor, i)
           IN  \E z \in 1 .. amt : /\ f.input = Num(z)
                                   /\ Precision * z <= h * route.inputs[i] + (Precision - 1)
                                   /\ z = amt \/ h * route.inputs[i] <= Precision * z \/ UsedUp(side, f)
<1>. DEFINE f == RouteFill(side, amt, offers, route, adjustor, i)
            input == RouteInputCorrected(amt, route.inputs, i)
            len == Len(offers)
            n == route.inputs[i]
            P == Precision
<1>1. f = IF offers[i].kind = "native" THEN nativeOrderToFill(side, offers[i], Floor(input))
          ELSE DexFill(side, offers[i], input, route.outputs[i], adjustor)
  BY DEF RouteFill
<1>2. DOMAIN offers = 1 .. len /\ len \in Nat
  BY DEF AreOffers
<1>3. route.inputs \in [1 .. len -> Nat] /\ SumFunction(route.inputs) \in 0 .. amt
  BY <1>2 DEF IsRoute
<1>. HIDE DEF len, f
<1>4. PICK k \in 1 .. amt : input = Num(k)
  BY <1>2, <1>3, RouteInputIsPart
<1>5. IsScaled(k, n, h, amt)
  BY <1>2, <1>3, <1>4, RouteInputIsNear
<1>. HIDE DEF input
<1>6. IsOffer(offers[i]) /\ IsWay(offers[i])
  BY DEF AreOffers, IsOffer
<1>7. n \in Nat /\ P \in Nat \ {0}
  BY <1>2, <1>3, PathAssumption
<1>8. CASE offers[i].kind = "native"
  <2>. DEFINE a == OrderInput(side, offers[i].order)
              z == IF k <= a THEN k ELSE a
  <2>1. Floor(input) = k
    BY <1>4, RoundingOfInt
  <2>2. f = nativeOrderToFill(side, offers[i], k)
    BY <1>1, <1>8, <2>1
  <2>3. f.way = offers[i] /\ a \in Nat \ {0} /\ f.input = Num(z)
    BY <1>6, <1>8, <2>2, NativeFill
  <2>. HIDE DEF a, P, n
  <2>4. z \in 1 .. amt /\ (z # k => z = a) /\ z <= k
    BY <2>3
  <2>5. z = k \/ UsedUp(side, f)
    BY <1>8, <2>3, <2>4 DEF UsedUp, a
  <2>6. P * z <= P * k
    BY <1>7, <2>4
  <2>7. P * k <= h * n + (P - 1)
    BY <1>5 DEF IsScaled, P
  <2>8. P * z <= h * n + (P - 1)
    <3>. DEFINE u == P * z
                w == P * k
                y == h * n
    <3>1. u \in Int /\ w \in Int /\ y \in Int /\ u <= w /\ w <= y + (P - 1)
      BY <1>7, <2>4, <2>6, <2>7
    <3>. HIDE DEF u, w, y
    <3>2. u <= y + (P - 1)
      BY <1>7, <3>1
    <3>. QED  BY <3>2 DEF u, w, y
  <2>9. z = amt \/ h * n <= P * z \/ UsedUp(side, f)
    BY <1>5, <2>5 DEF IsScaled, P
  <2>. HIDE DEF z
  <2>. QED  BY <2>3, <2>4, <2>8, <2>9 DEF P, n, f
<1>9. CASE offers[i].kind # "native"
  <2>1. route.outputs[i] \in Nat /\ offers[i].samples # <<>>
    BY <1>9 DEF IsRoute
  <2>2. f = DexFill(side, offers[i], Num(k), route.outputs[i], adjustor)
    BY <1>1, <1>4, <1>9
  <2>3. f.input = Num(k)
    <3>. DEFINE w == offers[i]
                o == route.outputs[i]
    <3>1. IsOffer(w) /\ w.kind # "native" /\ w.samples # <<>> /\ o \in Nat /\ amt \in Nat
      BY <1>6, <1>9, <2>1
    <3>. HIDE DEF w, o
    <3>2. DexFill(side, w, Num(k), o, adjustor).input = Num(k)
      BY <3>1, DexFillIsFill
    <3>. QED  BY <2>2, <3>2, Zenon DEF w, o
  <2>. QED  BY <1>5, <2>3 DEF IsScaled, f
<1>. QED  BY <1>8, <1>9

(* Nothing that is chosen is lost.                                           *)
LEMMA ChosenHasAll ==
    ASSUME NEW S, NEW s \in Seq(S), NEW I \in SUBSET DOMAIN s, NEW i \in I
    PROVE  \E j \in DOMAIN Chosen(s, I) : Chosen(s, I)[j] = s[i]
<1>. DEFINE v == [y \in S |-> IF y = s[i] THEN 1 ELSE 0]
            c == Chosen(s, I)
            f == Values(s, v)
            g == Values(c, v)
            E == {s[k] : k \in I \cap DOMAIN s}
<1>1. \A y \in S : v[y] \in Int /\ v[y] \in Nat
  OBVIOUS
<1>2. \A k \in DOMAIN s : s[k] \in S /\ f[k] = v[s[k]]
  BY DEF Values
<1>3. f[i] = 1 /\ \A k \in I : f[k] \in Nat
  BY <1>1, <1>2
<1>4. IsFiniteSet(I)
  <2>. DEFINE D == DOMAIN s
  <2>1. IsFiniteSet(1 .. Len(s))
    BY FS_Interval
  <2>2. IsFiniteSet(D) /\ I \subseteq D
    BY <2>1
  <2>. HIDE DEF D
  <2>. QED  BY <2>2, FS_Subset
<1>5. c \in Seq(E) /\ E \subseteq S
  BY <1>2, ChosenIsSeq
<1>. HIDE DEF f, v, E
<1>6. ValueOf(c, v) = SumFunctionOnSet(f, I)
  BY <1>1, ChosenAddsUp DEF f
<1>7. 1 <= SumFunctionOnSet(f, I)
  BY <1>3, <1>4, SumHasPart
<1>. HIDE DEF c
<1>8. DOMAIN c = 1 .. Len(c) /\ Len(c) \in Nat /\ \A j \in DOMAIN c : c[j] \in S /\ g[j] = v[c[j]]
  <2>1. \A j \in DOMAIN c : c[j] \in E
    BY <1>5
  <2>. QED  BY <1>5, <2>1 DEF Values
<1>9. ASSUME \A j \in DOMAIN c : c[j] # s[i] PROVE FALSE
  <2>1. \A j \in DOMAIN c : g[j] = 0
    BY <1>8, <1>9 DEF v
  <2>2. IsFiniteSet(1 .. Len(c))
    BY <1>8, FS_Interval
  <2>3. IsFiniteSet(DOMAIN c)
    BY <1>8, <2>2, Zenon
  <2>. HIDE DEF g
  <2>4. SumFunctionOnSet(g, DOMAIN c) = 0
    BY <2>1, <2>3, SumOfZeros
  <2>. QED  BY <1>6, <1>7, <2>4 DEF ValueOf, g
<1>. QED  BY <1>9 DEF c

\* The indices of a route that become fills.
UsedOf(offers, route) == {i \in DOMAIN offers : route.inputs[i] # 0 /\ route.outputs[i] # 0}

(* createPathFromRoute: what the fills of a path take is at most a unit per  *)
(* fill more than the amount, and falls short of it only if an order is used *)
(* up or a part of the route is left out.                                    *)
LEMMA PathIsCovered ==
    ASSUME NEW side, NEW amt \in Nat \ {0}, amt < 2 * Precision, NEW offers, AreOffers(offers),
           NEW route, IsRoute(route, offers, amt), NEW adjustor,
           createPathFromRoute(side, amt, offers, route, adjustor) # NoPath
    PROVE  LET p == createPathFromRoute(side, amt, offers, route, adjustor)
           IN  /\ Len(p) >= 1 /\ Taken(p) <= amt + Len(p)
               /\ Taken(p) < amt => \/ \E j \in DOMAIN p : UsedUp(side, p[j])
                                    \/ \E i \in DOMAIN offers : route.inputs[i] # 0 /\ route.outputs[i] = 0
<1>. DEFINE used == UsedOf(offers, route)
            fill(i) == RouteFill(side, amt, offers, route, adjustor, i)
            fills == [i \in DOMAIN offers |-> fill(i)]
            p == createPathFromRoute(side, amt, offers, route, adjustor)
            F == {fills[i] : i \in used \cap DOMAIN fills}
            A == {fills[i] : i \in DOMAIN fills}
            len == Len(offers)
            in == route.inputs
            total == SumFunction(in)
            P == Precision
            v == [y \in A |-> IF y.input[1] \in Int THEN y.input[1] ELSE 0]
            z == Values(fills, v)
            U == Cardinality(used)
            K == SumFunctionOnSet(z, used)
            N == SumFunctionOnSet(in, used)
<1>1. p = Chosen(fills, used) /\ used # {}
  BY DEF createPathFromRoute, UsedOf
<1>2. DOMAIN offers = 1 .. len /\ len \in Nat
  BY DEF AreOffers
<1>3. in \in [1 .. len -> Nat] /\ total \in 0 .. amt /\ \A i \in DOMAIN offers : in[i] \in Nat
  BY <1>2 DEF IsRoute
<1>4. used \subseteq DOMAIN offers /\ \A i \in used : in[i] # 0 /\ i \in DOMAIN offers
  BY DEF UsedOf
<1>5. ArePathFills(p, amt)
  BY PathsAreFills
<1>6. fills \in Seq(A) /\ DOMAIN fills = DOMAIN offers
  <2>. HIDE DEF fill, len
  <2>1. DOMAIN fills = 1 .. len /\ \A i \in 1 .. len : fills[i] \in A
    BY <1>2
  <2>2. fills = [i \in 1 .. len |-> fills[i]]
    BY <1>2
  <2>. HIDE DEF fills, A
  <2>3. fills \in [1 .. len -> A]
    BY <2>1, <2>2
  <2>4. fills \in Seq(A)
    BY <1>2, <2>3, SeqDef
  <2>. QED  BY <1>2, <2>1, <2>4
<1>7. \A i \in DOMAIN offers : fills[i] = fill(i) /\ fills[i] \in A
  OBVIOUS
<1>. HIDE DEF len, fill, fills, A, p, used
<1>8. IsFiniteSet(used) /\ U \in Nat /\ U >= 1
  <2>. DEFINE D == DOMAIN offers
  <2>1. IsFiniteSet(1 .. len)
    BY <1>2, FS_Interval
  <2>2. IsFiniteSet(D)
    BY <1>2, <2>1, Zenon
  <2>. HIDE DEF D
  <2>3. used \subseteq D
    BY <1>4 DEF D
  <2>4. IsFiniteSet(used)
    BY <2>2, <2>3, FS_Subset
  <2>5. U \in Nat /\ U # 0
    BY <1>1, <2>4, FS_CardinalityType, FS_EmptySet
  <2>. QED  BY <2>4, <2>5
<1>9. total \in 1 .. amt
  <2>1. PICK i \in used : TRUE
    BY <1>1
  <2>. DEFINE D == 1 .. len
  <2>2. IsFiniteSet(D)
    BY <1>2, FS_Interval
  <2>3. i \in D /\ \A y \in D : in[y] \in Nat
    BY <1>2, <1>3, <1>4
  <2>. HIDE DEF D
  <2>4. in[i] <= SumFunctionOnSet(in, D)
    BY <2>2, <2>3, SumHasPart
  <2>5. in[i] \in Nat /\ in[i] # 0
    BY <1>3, <1>4
  <2>6. total = SumFunctionOnSet(in, D)
    <3>1. DOMAIN in = D
      BY <1>3 DEF D
    <3>. HIDE DEF in
    <3>. QED  BY <3>1 DEF SumFunction
  <2>. HIDE DEF total, in
  <2>. QED  BY <1>3, <2>4, <2>5, <2>6
<1>10. PICK h \in Nat : /\ IsFrac(PrecisionErrorScalar(amt, in), h, P)
                        /\ 2 * (h * total) <= 2 * (amt * P) + total
                        /\ 2 * (amt * P) <= 2 * (h * total) + total
  BY <1>2, <1>3, <1>9, ScalarIsNear
<1>. HIDE DEF total
<1>11. ASSUME NEW i \in used
       PROVE  /\ z[i] \in 1 .. amt /\ P * z[i] <= h * in[i] + (P - 1)
              /\ z[i] = amt \/ h * in[i] <= P * z[i] \/ UsedUp(side, fills[i])
  <2>1. PICK k \in 1 .. amt : /\ fill(i).input = Num(k) /\ P * k <= h * in[i] + (P - 1)
                              /\ k = amt \/ h * in[i] <= P * k \/ UsedUp(side, fill(i))
    <3>1. i \in DOMAIN offers /\ in[i] # 0
      BY <1>4
    <3>. QED  BY <1>10, <3>1, RouteFillIsNear DEF fill
  <2>2. i \in DOMAIN offers /\ fills[i] = fill(i) /\ fills[i] \in A
    BY <1>4, <1>7
  <2>3. fills[i].input[1] = k
    BY <2>1, <2>2, NumIsRat
  <2>4. z[i] = k
    BY <1>6, <2>2, <2>3 DEF Values
  <2>. HIDE DEF z, v, in
  <2>. QED  BY <2>1, <2>2, <2>4
<1>12. \A y \in A : v[y] \in Int
  OBVIOUS
<1>13. ValueOf(p, v) = K /\ Len(p) = U
  <2>. HIDE DEF v
  <2>. QED  BY <1>1, <1>4, <1>6, <1>12, ChosenAddsUp
<1>14. Taken(p) = ValueOf(p, v)
  <2>1. p \in Seq(F)
    <3>1. Chosen(fills, used) \in Seq(F)
      BY <1>6, ChosenIsSeq
    <3>. QED  BY <1>1, <3>1, Zenon
  <2>2. F \subseteq A
    BY <1>4, <1>6, <1>7
  <2>. HIDE DEF F
  <2>3. \A j \in DOMAIN p : p[j] \in A
    BY <2>1, <2>2
  <2>4. \A j \in DOMAIN p : InputsOf(p)[j] \in Int /\ InputsOf(p)[j] = p[j].input[1]
    <3>1. amt \in Nat
      OBVIOUS
    <3>2. \A j \in DOMAIN p : InputsOf(p)[j] \in 1 .. amt
      BY <1>5, <3>1, InputsAreTaken
    <3>3. \A j \in DOMAIN p : InputsOf(p)[j] = p[j].input[1]
      BY DEF InputsOf
    <3>. QED  BY <3>2, <3>3
  <2>5. \A j \in DOMAIN p : InputsOf(p)[j] = Values(p, v)[j]
    BY <2>3, <2>4 DEF Values
  <2>6. IsFiniteSet(DOMAIN p)
    <3>1. DOMAIN p = 1 .. Len(p) /\ Len(p) \in Nat
      BY <1>5 DEF ArePathFills
    <3>2. IsFiniteSet(1 .. Len(p))
      BY <3>1, FS_Interval
    <3>. QED  BY <3>1, <3>2, Zenon
  <2>. HIDE DEF v
  <2>7. SumFunctionOnSet(InputsOf(p), DOMAIN p) = SumFunctionOnSet(Values(p, v), DOMAIN p)
    BY <2>5, <2>6, SumAgrees
  <2>. QED  BY <2>7 DEF Taken, ValueOf
<1>15. \A i \in used : z[i] \in Int /\ z[i] \in Nat /\ in[i] \in Int /\ in[i] \in Nat
  <2>1. \A i \in used : in[i] \in Nat
    BY <1>3, <1>4
  <2>. HIDE DEF z, in
  <2>. QED  BY <1>11, <2>1
<1>16. P \in Nat \ {0} /\ P \in Int /\ h \in Int /\ P - 1 \in Int
  BY PathAssumption
<1>17. K \in Nat /\ N \in Nat
  <2>. HIDE DEF z, in
  <2>. QED  BY <1>8, <1>15, SumIsNat
<1>18. P * K <= h * N + (P - 1) * U
  <2>1. \A i \in used : P * z[i] <= h * in[i] + (P - 1)
    BY <1>11
  <2>. DEFINE q == P - 1
  <2>2. q \in Int /\ \A i \in used : P * z[i] <= h * in[i] + q
    BY <1>16, <2>1
  <2>. HIDE DEF z, in, P, q
  <2>3. P * SumFunctionOnSet(z, used) <= h * SumFunctionOnSet(in, used) + q * Cardinality(used)
    BY <1>8, <1>15, <1>16, <2>2, SumsAreBounded
  <2>. QED  BY <2>3 DEF q
<1>19. \E R \in Nat : total = N + R /\ ((\A i \in DOMAIN offers \ used : in[i] = 0) => R = 0)
  <2>. DEFINE D == DOMAIN offers
              O == D \ used
              R == SumFunctionOnSet(in, O)
  <2>1. DOMAIN in = D /\ \A i \in D : in[i] \in Nat /\ in[i] \in Int
    BY <1>2, <1>3
  <2>2. IsFiniteSet(D)
    <3>1. IsFiniteSet(1 .. len)
      BY <1>2, FS_Interval
    <3>. QED  BY <1>2, <3>1, Zenon
  <2>. HIDE DEF in
  <2>3. used \subseteq D
    BY <1>4
  <2>. HIDE DEF D
  <2>4. used \cup O = D /\ used \cap O = {} /\ O \subseteq D
    BY <2>3
  <2>5. IsFiniteSet(O)
    BY <2>2, <2>4, FS_Subset
  <2>6. (\A i \in used \cup O : in[i] \in Int) /\ (\A i \in O : in[i] \in Nat)
    BY <2>1, <2>4
  <2>. HIDE DEF O
  <2>7. SumFunctionOnSet(in, used \cup O) = SumFunctionOnSet(in, used) + SumFunctionOnSet(in, O)
    BY <1>8, <2>4, <2>5, <2>6, SumOfUnion
  <2>8. R \in Nat
    BY <2>5, <2>6, SumIsNat
  <2>9. (\A i \in O : in[i] = 0) => R = 0
    BY <2>5, SumOfZeros
  <2>10. total = SumFunctionOnSet(in, used \cup O)
    BY <2>1, <2>4, Zenon DEF total, SumFunction
  <2>. HIDE DEF R
  <2>. QED  BY <2>7, <2>8, <2>9, <2>10 DEF R, O, D
<1>20. PICK R \in Nat : total = N + R /\ ((\A i \in DOMAIN offers \ used : in[i] = 0) => R = 0)
  BY <1>19
<1>. HIDE DEF K, N, U, z, in, P
<1>21. K <= amt + U
  <2>1. h * N <= h * total
    BY <1>17, <1>20
  <2>. DEFINE a == h * N
              b == h * total
              c == P * K
              d == P * U
              e == amt * P
  <2>2. a \in Int /\ b \in Int /\ c \in Int /\ d \in Int /\ e \in Int /\ total \in Int
    BY <1>8, <1>9, <1>16, <1>17
  <2>3. (P - 1) * U = d - U
    BY <1>8, <1>16
  <2>4. a <= b /\ c <= a + (d - U) /\ 2 * b <= 2 * e + total
    BY <1>10, <1>18, <2>1, <2>3
  <2>5. (amt + U) * P = e + d /\ K * P = c
    BY <1>8, <1>16, <1>17
  <2>6. total < 2 * P /\ U >= 1
    BY <1>8, <1>9, <1>16 DEF P
  <2>. HIDE DEF a, b, c, d, e
  <2>7. c < e + d + P
    BY <1>8, <1>16, <2>2, <2>4, <2>6
  <2>8. ~ (amt + U + 1 <= K)
    <3>. SUFFICES ASSUME amt + U + 1 <= K PROVE FALSE
      OBVIOUS
    <3>1. (amt + U + 1) * P <= K * P
      BY <1>8, <1>16, <1>17, ScaleLeq
    <3>2. (amt + U + 1) * P = (amt + U) * P + P
      BY <1>8, <1>16
    <3>. QED  BY <1>16, <2>2, <2>5, <2>7, <3>1, <3>2
  <2>. QED  BY <1>8, <1>17, <2>8
<1>22. ASSUME K < amt, \A j \in DOMAIN p : ~ UsedUp(side, p[j]),
              \A i \in DOMAIN offers : ~ (in[i] # 0 /\ route.outputs[i] = 0)
       PROVE  FALSE
  <2>1. \A i \in DOMAIN offers \ used : in[i] = 0
    BY <1>22 DEF used, UsedOf, in
  <2>2. total = N
    BY <1>17, <1>20, <2>1
  <2>3. ASSUME NEW i \in used PROVE ~ UsedUp(side, fills[i])
    <3>1. used \in SUBSET DOMAIN fills
      BY <1>4, <1>6
    <3>2. PICK j \in DOMAIN Chosen(fills, used) : Chosen(fills, used)[j] = fills[i]
      BY <1>6, <3>1, ChosenHasAll
    <3>. QED  BY <1>1, <1>22, <3>2
  <2>4. \A i \in used : z[i] <= K
    BY <1>8, <1>15, SumHasPart DEF K
  <2>5. \A i \in used : h * in[i] <= P * z[i]
    <3>. SUFFICES ASSUME NEW i \in used PROVE h * in[i] <= P * z[i]
      OBVIOUS
    <3>1. z[i] # amt
      BY <1>15, <1>17, <1>22, <2>4
    <3>. QED  BY <1>11, <2>3, <3>1
  <2>6. h * N <= P * K + 0 * U
    <3>. DEFINE q == 0
    <3>1. q \in Int /\ \A i \in used : h * in[i] <= P * z[i] + q
      BY <1>15, <1>16, <2>5
    <3>. HIDE DEF q
    <3>2. h * SumFunctionOnSet(in, used) <= P * SumFunctionOnSet(z, used) + q * Cardinality(used)
      BY <1>8, <1>15, <1>16, <3>1, SumsAreBounded
    <3>. QED  BY <3>2 DEF N, K, U, q
  <2>. DEFINE b == h * total
              c == P * K
              e == amt * P
  <2>7. b \in Int /\ c \in Int /\ e \in Int /\ total \in Int /\ 0 * U = 0
    BY <1>8, <1>9, <1>16, <1>17
  <2>8. b <= c /\ 2 * e <= 2 * b + total /\ total < 2 * P
    BY <1>9, <1>10, <1>16, <2>2, <2>6, <2>7 DEF P
  <2>9. (amt - 1) * P = e - P /\ K * P = c
    BY <1>16, <1>17
  <2>10. K * P <= (amt - 1) * P
    BY <1>16, <1>17, <1>22, ScaleLeq
  <2>. HIDE DEF b, c, e
  <2>. QED  BY <1>16, <2>7, <2>8, <2>9, <2>10
<1>23. Taken(p) = K /\ Len(p) = U
  BY <1>13, <1>14 DEF K, U
<1>24. /\ Len(p) >= 1 /\ Taken(p) <= amt + Len(p)
       /\ Taken(p) < amt => \/ \E j \in DOMAIN p : UsedUp(side, p[j])
                            \/ \E i \in DOMAIN offers : in[i] # 0 /\ route.outputs[i] = 0
  BY <1>8, <1>21, <1>22, <1>23
<1>. QED  BY <1>24 DEF p, in

-----------------------------------------------------------------------------
(* What the best and the worst case take: the single-hop orders are filled   *)
(* up to the amount, the two-hops come on top.                               *)

KindOf(fills, kind) == {i \in DOMAIN fills : fills[i].way.kind = kind}
SizeOfAll(os) == SizesUpTo(os, Len(os))

(* The orders of a kind take together what the fills of that kind take.      *)
LEMMA SizesOfKind ==
    ASSUME NEW side, NEW amt \in Nat, NEW fills, ArePathFills(fills, amt), NEW kind
    PROVE  SizeOfAll(OrdersOf(side, fills, kind)) = SumFunctionOnSet(InputsOf(fills), KindOf(fills, kind))
<1>. DEFINE order(i) == OrderOf(side, fills[i])
            os == [i \in DOMAIN fills |-> order(i)]
            I == KindOf(fills, kind)
            A == {os[i] : i \in DOMAIN os}
            E == {os[i] : i \in I \cap DOMAIN os}
            c == OrdersOf(side, fills, kind)
            v == [o \in A |-> SizeOf(o)]
            len == Len(fills)
            k == InputsOf(fills)
            w == Values(os, v)
<1>1. c = Chosen(os, I)
  BY DEF OrdersOf, KindOf
<1>2. DOMAIN fills = 1 .. len /\ len \in Nat /\ I \subseteq DOMAIN fills
  BY DEF ArePathFills, KindOf
<1>3. \A i \in DOMAIN fills : k[i] \in 1 .. amt /\ k[i] = fills[i].input[1]
  <2>1. \A i \in DOMAIN fills : k[i] \in 1 .. amt
    BY InputsAreTaken
  <2>. QED  BY <2>1 DEF InputsOf
<1>. HIDE DEF k
<1>4. \A i \in DOMAIN fills : SizeOf(order(i)) = k[i]
  BY <1>3 DEF OrderOf, SizeOf
<1>. HIDE DEF order, len, c, I
<1>5. os \in Seq(A) /\ DOMAIN os = DOMAIN fills /\ \A i \in DOMAIN fills : os[i] = order(i) /\ os[i] \in A
  <2>1. DOMAIN os = 1 .. len /\ \A i \in 1 .. len : os[i] \in A
    BY <1>2
  <2>2. os = [i \in 1 .. len |-> os[i]]
    BY <1>2
  <2>3. \A i \in DOMAIN fills : os[i] = order(i) /\ os[i] \in A
    OBVIOUS
  <2>. HIDE DEF os, A
  <2>4. os \in [1 .. len -> A]
    BY <2>1, <2>2
  <2>5. os \in Seq(A)
    BY <1>2, <2>4, SeqDef
  <2>. QED  BY <1>2, <2>1, <2>3, <2>5
<1>6. \A o \in A : SizeOf(o) \in Int
  BY <1>3, <1>4
<1>7. \A o \in A : v[o] = SizeOf(o) /\ v[o] \in Int
  BY <1>6
<1>8. c \in Seq(E)
  <2>. HIDE DEF os, A
  <2>1. Chosen(os, I) \in Seq(E)
    BY <1>5, ChosenIsSeq
  <2>. QED  BY <1>1, <2>1, Zenon
<1>9. E \subseteq A
  OBVIOUS
<1>10. \A i \in I : w[i] = k[i]
  <2>. SUFFICES ASSUME NEW i \in I PROVE w[i] = k[i]
    OBVIOUS
  <2>1. i \in DOMAIN fills /\ i \in DOMAIN os /\ os[i] = order(i) /\ os[i] \in A
    BY <1>2, <1>5
  <2>2. w[i] = v[os[i]]
    BY <2>1 DEF Values
  <2>. HIDE DEF os, A, v, w
  <2>. QED  BY <1>4, <1>7, <2>1, <2>2
<1>11. IsFiniteSet(I)
  <2>. DEFINE D == DOMAIN fills
  <2>1. IsFiniteSet(1 .. len)
    BY <1>2, FS_Interval
  <2>2. IsFiniteSet(D)
    BY <1>2, <2>1, Zenon
  <2>3. I \subseteq D
    BY <1>2
  <2>. HIDE DEF D
  <2>. QED  BY <2>2, <2>3, FS_Subset
<1>. HIDE DEF os, A, v
<1>12. ValueOf(c, v) = SumFunctionOnSet(w, I)
  BY <1>1, <1>2, <1>5, <1>7, ChosenAddsUp
<1>. HIDE DEF w
<1>13. SumFunctionOnSet(w, I) = SumFunctionOnSet(k, I)
  BY <1>10, <1>11, SumAgrees
<1>14. SizeOfAll(c) = ValueOf(c, v)
  <2>. DEFINE f == [i \in DOMAIN c |-> SizeOf(c[i])]
              g == Values(c, v)
              D == DOMAIN c
  <2>1. DOMAIN c = 1 .. Len(c) /\ Len(c) \in Nat
    BY <1>8
  <2>2. \A i \in D : c[i] \in A
    BY <1>8, <1>9
  <2>3. \A i \in D : f[i] = g[i]
    BY <1>7, <2>2 DEF Values
  <2>4. IsFiniteSet(D)
    <3>1. IsFiniteSet(1 .. Len(c))
      BY <2>1, FS_Interval
    <3>. QED  BY <2>1, <3>1, Zenon
  <2>. HIDE DEF f, g
  <2>5. SumFunctionOnSet(f, D) = SumFunctionOnSet(g, D)
    BY <2>3, <2>4, SumAgrees
  <2>6. SizeOfAll(c) = SumFunctionOnSet(f, D)
    BY <2>1 DEF SizeOfAll, SizesUpTo, f
  <2>. QED  BY <2>5, <2>6 DEF ValueOf, g
<1>. QED  BY <1>12, <1>13, <1>14 DEF c, k, I

(* Two sequences of orders take together what each takes.                    *)
LEMMA SizesTogether ==
    ASSUME NEW amt \in Nat, NEW s, AreOrders(s, amt), NEW t, AreOrders(t, amt)
    PROVE  SizeOfAll(s \o t) = SizeOfAll(s) + SizeOfAll(t) /\ SizeOfAll(s) \in Nat /\ SizeOfAll(t) \in Nat
<1>. DEFINE u == s \o t
            m == Len(s)
            n == Len(t)
            R == Range(s) \cup Range(t)
            T == {j \in Nat : j <= m => SizesUpTo(u, j) = SizesUpTo(s, j)}
            W == {j \in Nat : j <= n => SizesUpTo(u, m + j) = SizesUpTo(s, m) + SizesUpTo(t, j)}
<1>1. AreOrders(u, amt)
  BY OrdersTogether
<1>2. m \in Nat /\ n \in Nat
  BY DEF AreOrders
<1>3. Len(u) = m + n /\ \A i \in 1 .. m + n : u[i] = IF i <= m THEN s[i] ELSE t[i - m]
  <2>1. s \in Seq(R) /\ t \in Seq(R)
    <3>1. s \in Seq(Range(s)) /\ Range(s) \subseteq R
      BY DEF AreOrders
    <3>2. t \in Seq(Range(t)) /\ Range(t) \subseteq R
      BY DEF AreOrders
    <3>. HIDE DEF R
    <3>. QED  BY <3>1, <3>2, SeqMonotonic
  <2>. HIDE DEF R
  <2>. QED  BY <2>1, ConcatProperties
<1>. HIDE DEF u, m, n
<1>4. /\ SizesUpTo(u, 0) = 0 /\ \A j \in 0 .. Len(u) : SizesUpTo(u, j) \in Nat
      /\ \A j \in 1 .. Len(u) : SizesUpTo(u, j) = SizesUpTo(u, j - 1) + SizeOf(u[j]) /\ SizeOf(u[j]) \in 1 .. amt
  BY <1>1, SizesInTurn
<1>5. /\ SizesUpTo(s, 0) = 0 /\ \A j \in 0 .. m : SizesUpTo(s, j) \in Nat
      /\ \A j \in 1 .. m : SizesUpTo(s, j) = SizesUpTo(s, j - 1) + SizeOf(s[j])
  BY SizesInTurn DEF m
<1>6. /\ SizesUpTo(t, 0) = 0 /\ \A j \in 0 .. n : SizesUpTo(t, j) \in Nat
      /\ \A j \in 1 .. n : SizesUpTo(t, j) = SizesUpTo(t, j - 1) + SizeOf(t[j])
  BY SizesInTurn DEF n
<1>7. 0 \in T
  BY <1>4, <1>5
<1>8. ASSUME NEW j \in Nat, j \in T PROVE j + 1 \in T
  <2>. SUFFICES ASSUME j + 1 <= m PROVE SizesUpTo(u, j + 1) = SizesUpTo(s, j + 1)
    OBVIOUS
  <2>1. j + 1 \in 1 .. m /\ j + 1 \in 1 .. Len(u) /\ j + 1 \in 1 .. m + n /\ (j + 1) - 1 = j /\ j <= m
    BY <1>2, <1>3
  <2>2. u[j + 1] = s[j + 1]
    BY <1>3, <2>1
  <2>3. SizesUpTo(u, j) = SizesUpTo(s, j)
    BY <1>8, <2>1
  <2>4. SizesUpTo(u, j + 1) = SizesUpTo(u, j) + SizeOf(u[j + 1])
    BY <1>4, <2>1
  <2>5. SizesUpTo(s, j + 1) = SizesUpTo(s, j) + SizeOf(s[j + 1])
    BY <1>5, <2>1
  <2>. QED  BY <2>2, <2>3, <2>4, <2>5
<1>9. SizesUpTo(u, m) = SizesUpTo(s, m)
  <2>. HIDE DEF T
  <2>1. Nat \subseteq T
    BY <1>7, <1>8, SetInduction
  <2>. QED  BY <1>2, <2>1 DEF T
<1>10. 0 \in W
  <2>1. m + 0 = m /\ SizesUpTo(s, m) \in Nat
    BY <1>2, <1>5
  <2>. QED  BY <1>6, <1>9, <2>1
<1>11. ASSUME NEW j \in Nat, j \in W PROVE j + 1 \in W
  <2>. SUFFICES ASSUME j + 1 <= n PROVE SizesUpTo(u, m + (j + 1)) = SizesUpTo(s, m) + SizesUpTo(t, j + 1)
    OBVIOUS
  <2>. DEFINE i == m + (j + 1)
  <2>1. /\ j + 1 \in 1 .. n /\ i \in 1 .. Len(u) /\ i \in 1 .. m + n /\ i - 1 = m + j /\ j <= n
        /\ (j + 1) - 1 = j /\ j \in 0 .. n /\ ~ (i <= m) /\ i - m = j + 1
    BY <1>2, <1>3
  <2>. HIDE DEF i
  <2>2. u[i] = t[j + 1]
    BY <1>3, <2>1
  <2>3. SizesUpTo(u, m + j) = SizesUpTo(s, m) + SizesUpTo(t, j)
    BY <1>11, <2>1
  <2>4. SizesUpTo(u, i) = SizesUpTo(u, m + j) + SizeOf(u[i]) /\ SizeOf(u[i]) \in 1 .. amt
    BY <1>4, <2>1
  <2>5. SizesUpTo(t, j + 1) = SizesUpTo(t, j) + SizeOf(t[j + 1])
    BY <1>6, <2>1
  <2>6. SizesUpTo(s, m) \in Nat /\ SizesUpTo(t, j) \in Nat
    BY <1>2, <1>5, <1>6, <2>1
  <2>7. SizesUpTo(u, i) = SizesUpTo(s, m) + SizesUpTo(t, j + 1)
    BY <2>2, <2>3, <2>4, <2>5, <2>6
  <2>. QED  BY <2>7 DEF i
<1>12. SizesUpTo(u, m + n) = SizesUpTo(s, m) + SizesUpTo(t, n)
  <2>. HIDE DEF W
  <2>1. Nat \subseteq W
    BY <1>10, <1>11, SetInduction
  <2>. QED  BY <1>2, <2>1 DEF W
<1>13. SizesUpTo(s, m) \in Nat /\ SizesUpTo(t, n) \in Nat
  BY <1>2, <1>5, <1>6
<1>. QED  BY <1>3, <1>12, <1>13 DEF SizeOfAll, u, m, n

\* The side of a case that the request fixes.
TakenBy(side, i) == IF side = "sell" THEN i.taker ELSE i.maker

(* Best and worst case of orders take what the orders have, up to the        *)
(* amount.                                                                   *)
LEMMA SinglesTake ==
    ASSUME NEW amt \in Nat, NEW os, AreOrders(os, amt), NEW s, NEW side \in {"sell", "buy"}
    PROVE  /\ TakenBy(side, simulateBestCaseFill(side, amt, os)) = SmallerOf(SizeOfAll(os), amt)
           /\ TakenBy(side, simulateWorstCaseFill(side, amt, s, os)) = SmallerOf(SizeOfAll(os), amt)
<1>. DEFINE r == fillQuoteOrders(amt, os)
            a == SmallerOf(SizeOfAll(os), amt)
<1>1. r.input = Num(a)
  BY SimulatedFill DEF FilledInv, SizeOfAll
<1>2. a \in Int
  <2>1. SizeOfAll(os) \in Nat
    <3>1. Len(os) \in Nat
      BY DEF AreOrders
    <3>. QED  BY <3>1, SizesInTurn DEF SizeOfAll
  <2>. QED  BY <2>1 DEF SmallerOf
<1>. HIDE DEF a, r
<1>3. RoundInput(side, r.input) = a
  BY <1>1, <1>2, RoundingOfInt DEF RoundInput
<1>4. TakenBy(side, simulateBestCaseFill(side, amt, os)) = RoundInput(side, r.input)
  BY DEF TakenBy, simulateBestCaseFill, Info, r
<1>5. TakenBy(side, simulateWorstCaseFill(side, amt, s, os)) = RoundInput(side, r.input)
  BY DEF TakenBy, simulateWorstCaseFill, Info, r
<1>. QED  BY <1>3, <1>4, <1>5 DEF a

(* Best and worst case of a two-hop take all that it has, whatever the       *)
(* amount.                                                                   *)
LEMMA TwoHopTakes ==
    ASSUME NEW amt \in Nat, NEW o, IsOrder(o, amt), NEW side \in {"sell", "buy"}, o = OrderOf(side, o.fill), NEW s
    PROVE  TakenBy(side, TwoHopBest(o)) = SizeOf(o) /\ TakenBy(side, TwoHopWorst(side, s, o)) = SizeOf(o)
<1>1. PICK k \in 1 .. amt : o.fill.input = Num(k)
  BY DEF IsOrder, IsFill
<1>2. SizeOf(o) = k
  BY <1>1, NumIsRat DEF SizeOf
<1>. DEFINE f == o.fill
<1>3. o.maker = makerAmount(side, f) /\ o.taker = takerAmount(side, f)
  <2>1. o = OrderOf(side, f)
    OBVIOUS
  <2>. HIDE DEF f
  <2>. QED  BY <2>1 DEF OrderOf
<1>4. /\ side = "sell" => o.taker = Num(k)
      /\ side = "buy" => o.maker = Num(k)
  BY <1>1, <1>3 DEF makerAmount, takerAmount
<1>5. Floor(Num(k)) = k
  BY RoundingOfInt
<1>. DEFINE m == Floor(o.maker)
            t == Floor(o.taker)
<1>6. TwoHopBest(o) = [maker |-> m, taker |-> t, gas |-> o.way.gas, protocolFee |-> 0]
  BY DEF TwoHopBest
<1>7. (side = "sell" => t = k) /\ (side = "buy" => m = k)
  BY <1>4, <1>5
<1>. HIDE DEF m, t
<1>8. TakenBy(side, TwoHopBest(o)) = k
  BY <1>6, <1>7 DEF TakenBy
<1>9. TakenBy(side, TwoHopWorst(side, s, o)) = k
  BY <1>6, <1>7 DEF TakenBy, TwoHopWorst
<1>. QED  BY <1>2, <1>8, <1>9

(* The merged cases take what the single hops and the two-hops take.         *)
LEMMA MergedTake ==
    ASSUME NEW amt \in Nat, NEW hops, AreOrders(hops, amt), NEW x, IsInfo(x), NEW f, AreInfos(f),
           Len(f) = Len(hops), NEW side \in {"sell", "buy"},
           \A i \in 1 .. Len(f) : TakenBy(side, f[i]) = SizeOf(hops[i])
    PROVE  TakenBy(side, mergeSwapQuoteInfos(<<x>> \o f)) = TakenBy(side, x) + SizeOfAll(hops)
<1>. DEFINE bs == <<x>> \o f
            len == Len(f)
            b(n) == MergedUpTo(bs, n)
            z(n) == SizesUpTo(hops, n)
            T == {n \in Nat : n <= len => IsInfo(b(n + 1)) /\ TakenBy(side, b(n + 1)) = TakenBy(side, x) + z(n)}
<1>1. len \in Nat /\ Len(hops) = len
  BY DEF AreInfos
<1>2. AreInfos(bs) /\ Len(bs) = len + 1 /\ bs[1] = x /\ \A i \in 1 .. len : bs[i + 1] = f[i]
  BY OneAndMore
<1>. HIDE DEF bs, len
<1>3. /\ mergeSwapQuoteInfos(bs) = b(len + 1) /\ b(0) = NoInfo
      /\ \A n \in 1 .. (len + 1) : b(n) = AddInfo(b(n - 1), bs[n])
  BY <1>2, MergedInTurn DEF NextInfo, AddInfo, AreInfos
<1>4. z(0) = 0 /\ \A n \in 1 .. len : z(n) = z(n - 1) + SizeOf(hops[n])
  BY <1>1, SizesInTurn
<1>4a. (\A n \in 0 .. len : z(n) \in Nat) /\ \A n \in 1 .. len : SizeOf(hops[n]) \in Nat
  <2>1. \A n \in 0 .. Len(hops) : SizesUpTo(hops, n) \in Nat
    BY SizesInTurn
  <2>2. \A n \in 1 .. Len(hops) : SizeOf(hops[n]) \in 1 .. amt
    BY SizesInTurn
  <2>. QED  BY <1>1, <2>1, <2>2
<1>5. \A i \in 1 .. len : IsInfo(f[i]) /\ TakenBy(side, f[i]) = SizeOf(hops[i])
  BY DEF AreInfos, len
<1>6. \A y : IsInfo(y) => TakenBy(side, y) \in Nat
  BY DEF IsInfo, TakenBy
<1>7. ASSUME NEW y, IsInfo(y), NEW w, IsInfo(w)
      PROVE  IsInfo(AddInfo(y, w)) /\ TakenBy(side, AddInfo(y, w)) = TakenBy(side, y) + TakenBy(side, w)
  BY <1>7, AddedInfos DEF TakenBy
<1>. HIDE DEF b, z
<1>8. 0 \in T
  <2>1. b(1) = AddInfo(NoInfo, x)
    <3>1. 1 \in 1 .. (len + 1) /\ 1 - 1 = 0
      BY <1>1
    <3>. QED  BY <1>2, <1>3, <3>1
  <2>2. IsInfo(NoInfo) /\ TakenBy(side, NoInfo) = 0
    BY DEF IsInfo, NoInfo, TakenBy
  <2>3. IsInfo(b(1)) /\ TakenBy(side, b(1)) = 0 + TakenBy(side, x)
    BY <1>7, <2>1, <2>2
  <2>4. TakenBy(side, x) \in Nat
    BY <1>6
  <2>5. TakenBy(side, b(1)) = TakenBy(side, x) + z(0)
    BY <1>4, <2>3, <2>4
  <2>6. 0 + 1 = 1
    OBVIOUS
  <2>. QED  BY <2>3, <2>5, <2>6
<1>9. ASSUME NEW n \in Nat, n \in T PROVE n + 1 \in T
  <2>. SUFFICES ASSUME n + 1 <= len
                PROVE  IsInfo(b((n + 1) + 1)) /\ TakenBy(side, b((n + 1) + 1)) = TakenBy(side, x) + z(n + 1)
    OBVIOUS
  <2>. DEFINE j == n + 1
  <2>1. /\ j \in 1 .. len /\ j + 1 \in 1 .. (len + 1) /\ (j + 1) - 1 = j /\ j - 1 = n /\ n <= len /\ n \in 0 .. len
    BY <1>1
  <2>2. IsInfo(b(j)) /\ TakenBy(side, b(j)) = TakenBy(side, x) + z(n)
    BY <1>9, <2>1
  <2>. HIDE DEF j
  <2>3. b(j + 1) = AddInfo(b(j), f[j])
    BY <1>2, <1>3, <2>1
  <2>4. IsInfo(b(j + 1)) /\ TakenBy(side, b(j + 1)) = TakenBy(side, b(j)) + SizeOf(hops[j])
    BY <1>5, <1>7, <2>1, <2>2, <2>3
  <2>5. z(j) = z(n) + SizeOf(hops[j]) /\ z(n) \in Nat /\ SizeOf(hops[j]) \in Nat
    BY <1>4, <1>4a, <2>1
  <2>6. TakenBy(side, x) \in Nat
    BY <1>6
  <2>7. TakenBy(side, b(j + 1)) = TakenBy(side, x) + z(j)
    BY <2>2, <2>4, <2>5, <2>6
  <2>. QED  BY <2>4, <2>7 DEF j
<1>. HIDE DEF T
<1>10. Nat \subseteq T
  BY <1>8, <1>9, SetInduction
<1>11. TakenBy(side, b(len + 1)) = TakenBy(side, x) + z(len)
  BY <1>1, <1>10 DEF T
<1>. QED  BY <1>1, <1>3, <1>11 DEF bs, z, SizeOfAll

(* Both cases of calculateQuoteInfo take the same of what the request fixes. *)
LEMMA QuoteInfoTakes ==
    ASSUME NEW amt \in Nat, NEW fills, ArePathFills(fills, amt), NEW s \in NonNeg, Leq(s, One),
           NEW side \in {"sell", "buy"}
    PROVE  LET q == calculateQuoteInfo(side, amt, s, fills)
               single == OrdersOf(side, fills, "native") \o OrdersOf(side, fills, "bridge")
               z == SmallerOf(SizeOfAll(single), amt) + SizeOfAll(OrdersOf(side, fills, "twoHop"))
           IN  TakenBy(side, q.best) = z /\ TakenBy(side, q.worst) = z
<1>. DEFINE q == calculateQuoteInfo(side, amt, s, fills)
            single == OrdersOf(side, fills, "native") \o OrdersOf(side, fills, "bridge")
            hops == OrdersOf(side, fills, "twoHop")
            b1 == simulateBestCaseFill(side, amt, single)
            w1 == simulateWorstCaseFill(side, amt, s, single)
            hb(i) == TwoHopBest(hops[i])
            hw(i) == TwoHopWorst(side, s, hops[i])
            bf == [i \in DOMAIN hops |-> hb(i)]
            wf == [i \in DOMAIN hops |-> hw(i)]
            len == Len(hops)
            a == SmallerOf(SizeOfAll(single), amt)
<1>1. q.best = mergeSwapQuoteInfos(<<b1>> \o bf) /\ q.worst = mergeSwapQuoteInfos(<<w1>> \o wf)
  BY DEF calculateQuoteInfo
<1>2. AreOrders(single, amt) /\ AreOrders(hops, amt)
  BY OrdersAreOrders, OrdersTogether
<1>2a. \A j \in DOMAIN hops : hops[j] = OrderOf(side, hops[j].fill)
  BY OrdersAreOrders
<1>. HIDE DEF single, hops
<1>3. IsInfo(b1) /\ IsInfo(w1) /\ TakenBy(side, b1) = a /\ TakenBy(side, w1) = a
  BY <1>2, SinglesAreWorse, SinglesTake
<1>4. DOMAIN hops = 1 .. len /\ len \in Nat
  BY <1>2 DEF AreOrders
<1>5. ASSUME NEW i \in 1 .. len
      PROVE  /\ IsInfo(hb(i)) /\ TakenBy(side, hb(i)) = SizeOf(hops[i])
             /\ IsInfo(hw(i)) /\ TakenBy(side, hw(i)) = SizeOf(hops[i])
  <2>1. IsOrder(hops[i], amt) /\ hops[i] = OrderOf(side, hops[i].fill)
    BY <1>2, <1>2a, <1>4 DEF AreOrders
  <2>2. IsInfo(hb(i)) /\ IsInfo(hw(i))
    BY <2>1, TwoHopsAreWorse
  <2>3. TakenBy(side, hb(i)) = SizeOf(hops[i]) /\ TakenBy(side, hw(i)) = SizeOf(hops[i])
    BY <2>1, TwoHopTakes
  <2>. QED  BY <2>2, <2>3
<1>. HIDE DEF b1, w1, hb, hw, len, a
<1>6. AreInfos(bf) /\ Len(bf) = len /\ \A i \in 1 .. len : bf[i] = hb(i)
  <2>. DEFINE S == {hb(i) : i \in 1 .. len}
  <2>1. bf \in [1 .. len -> S] /\ \A i \in 1 .. len : bf[i] = hb(i)
    BY <1>4
  <2>2. \A y \in S : IsInfo(y)
    BY <1>5
  <2>. HIDE DEF S, bf
  <2>3. bf \in Seq(S) /\ Len(bf) = len
    BY <1>4, <2>1, SeqDef
  <2>4. bf \in Seq(Range(bf)) /\ \A i \in DOMAIN bf : bf[i] \in S
    BY <2>3, IsSeqOfRange
  <2>. QED  BY <2>1, <2>2, <2>3, <2>4 DEF AreInfos
<1>7. AreInfos(wf) /\ Len(wf) = len /\ \A i \in 1 .. len : wf[i] = hw(i)
  <2>. DEFINE S == {hw(i) : i \in 1 .. len}
  <2>1. wf \in [1 .. len -> S] /\ \A i \in 1 .. len : wf[i] = hw(i)
    BY <1>4
  <2>2. \A y \in S : IsInfo(y)
    BY <1>5
  <2>. HIDE DEF S, wf
  <2>3. wf \in Seq(S) /\ Len(wf) = len
    BY <1>4, <2>1, SeqDef
  <2>4. wf \in Seq(Range(wf)) /\ \A i \in DOMAIN wf : wf[i] \in S
    BY <2>3, IsSeqOfRange
  <2>. QED  BY <2>1, <2>2, <2>3, <2>4 DEF AreInfos
<1>. HIDE DEF bf, wf
<1>8. \A i \in 1 .. Len(bf) : TakenBy(side, bf[i]) = SizeOf(hops[i])
  BY <1>5, <1>6
<1>9. \A i \in 1 .. Len(wf) : TakenBy(side, wf[i]) = SizeOf(hops[i])
  BY <1>5, <1>7
<1>10. Len(bf) = Len(hops) /\ Len(wf) = Len(hops)
  BY <1>6, <1>7 DEF len
<1>11. TakenBy(side, mergeSwapQuoteInfos(<<b1>> \o bf)) = TakenBy(side, b1) + SizeOfAll(hops)
  BY <1>2, <1>3, <1>6, <1>8, <1>10, MergedTake
<1>12. TakenBy(side, mergeSwapQuoteInfos(<<w1>> \o wf)) = TakenBy(side, w1) + SizeOfAll(hops)
  BY <1>2, <1>3, <1>7, <1>9, <1>10, MergedTake
<1>. HIDE DEF q
<1>13. TakenBy(side, q.best) = a + SizeOfAll(hops) /\ TakenBy(side, q.worst) = a + SizeOfAll(hops)
  BY <1>1, <1>3, <1>11, <1>12, Zenon
<1>. QED  BY <1>13 DEF q, a, single, hops

(* The single-hop orders are filled up to the amount, the two-hops as they   *)
(* are: a path that reaches the amount is used that far, and no order beyond *)
(* its fill.                                                                 *)
LEMMA PathIsUsed ==
    ASSUME NEW amt \in Nat, NEW fills, ArePathFills(fills, amt), NEW s \in NonNeg, Leq(s, One),
           NEW side \in {"sell", "buy"}
    PROVE  LET q == calculateQuoteInfo(side, amt, s, fills)
               z == TakenBy(side, q.best)
           IN  /\ z \in Nat /\ TakenBy(side, q.worst) = z
               /\ SmallerOf(Taken(fills), amt) <= z /\ z <= Taken(fills)
               /\ (\A i \in DOMAIN fills : fills[i].way.kind # "twoHop") => z <= amt
<1>. DEFINE q == calculateQuoteInfo(side, amt, s, fills)
            natives == OrdersOf(side, fills, "native")
            bridges == OrdersOf(side, fills, "bridge")
            hops == OrdersOf(side, fills, "twoHop")
            k == InputsOf(fills)
            D == DOMAIN fills
            A == KindOf(fills, "native")
            B == KindOf(fills, "bridge")
            C == KindOf(fills, "twoHop")
            x == SumFunctionOnSet(k, A)
            y == SumFunctionOnSet(k, B)
            w == SumFunctionOnSet(k, C)
            z == TakenBy(side, q.best)
<1>1. AreOrders(natives, amt) /\ AreOrders(bridges, amt) /\ AreOrders(hops, amt)
  BY OrdersAreOrders
<1>2. SizeOfAll(natives) = x /\ SizeOfAll(bridges) = y /\ SizeOfAll(hops) = w
  BY SizesOfKind
<1>3. z = SmallerOf(SizeOfAll(natives \o bridges), amt) + SizeOfAll(hops) /\ TakenBy(side, q.worst) = z
  BY QuoteInfoTakes
<1>4. \A i \in D : k[i] \in 1 .. amt
  BY InputsAreTaken
<1>5. A \cup (B \cup C) = D /\ A \cap (B \cup C) = {} /\ B \cap C = {}
  <2>1. \A i \in D : fills[i].way.kind \in {"native", "bridge", "twoHop"}
    BY DEF ArePathFills, IsFill, IsWay
  <2>. QED  BY <2>1 DEF KindOf
<1>6. IsFiniteSet(D)
  <2>1. D = 1 .. Len(fills) /\ Len(fills) \in Nat
    BY DEF ArePathFills
  <2>2. IsFiniteSet(1 .. Len(fills))
    BY <2>1, FS_Interval
  <2>. QED  BY <2>1, <2>2, Zenon
<1>6a. (\A i \in D : fills[i].way.kind # "twoHop") => C = {}
  BY DEF KindOf
<1>7. Taken(fills) = SumFunctionOnSet(k, D)
  BY DEF Taken
<1>. HIDE DEF natives, bridges, hops, k, D, A, B, C, q, z
<1>8. \A i \in D : k[i] \in Int
  BY <1>4
<1>9. A \subseteq D /\ B \subseteq D /\ C \subseteq D /\ B \cup C \subseteq D
  BY <1>5
<1>10. IsFiniteSet(A) /\ IsFiniteSet(B) /\ IsFiniteSet(C) /\ IsFiniteSet(B \cup C)
  BY <1>6, <1>9, FS_Subset
<1>11. SumFunctionOnSet(k, B \cup C) = y + w
  <2>1. \A i \in B \cup C : k[i] \in Int
    BY <1>8, <1>9
  <2>. QED  BY <1>5, <1>10, <2>1, SumOfUnion
<1>12. SumFunctionOnSet(k, D) = x + (y + w)
  <2>1. \A i \in A \cup (B \cup C) : k[i] \in Int
    BY <1>5, <1>8
  <2>. DEFINE E == B \cup C
  <2>2. IsFiniteSet(A) /\ IsFiniteSet(E) /\ A \cap E = {} /\ A \cup E = D /\ \A i \in A \cup E : k[i] \in Int
    BY <1>5, <1>10, <2>1
  <2>3. SumFunctionOnSet(k, E) = y + w
    BY <1>11
  <2>. HIDE DEF E, x, y, w
  <2>4. SumFunctionOnSet(k, A \cup E) = SumFunctionOnSet(k, A) + SumFunctionOnSet(k, E)
    BY <2>2, SumOfUnion
  <2>. QED  BY <2>2, <2>3, <2>4, Zenon DEF x
<1>13. SizeOfAll(natives \o bridges) = SizeOfAll(natives) + SizeOfAll(bridges)
       /\ SizeOfAll(natives) \in Nat /\ SizeOfAll(bridges) \in Nat
  BY <1>1, SizesTogether
<1>14. SizeOfAll(hops) \in Nat
  BY <1>1, SizesTogether
<1>15. C = {} => w = 0
  BY SumOfNothing
<1>. DEFINE t == Taken(fills)
<1>16. t = x + (y + w)
  BY <1>7, <1>12
<1>. HIDE DEF x, y, w, t
<1>17. x \in Nat /\ y \in Nat /\ w \in Nat /\ z = SmallerOf(x + y, amt) + w
  BY <1>2, <1>3, <1>13, <1>14
<1>18. z \in Nat /\ SmallerOf(t, amt) <= z /\ z <= t /\ (w = 0 => z <= amt)
  BY <1>16, <1>17 DEF SmallerOf
<1>. QED  BY <1>3, <1>6a, <1>15, <1>18 DEF q, z, t, D

-----------------------------------------------------------------------------
(* What the proxy does with a transaction: steps one after the other, and    *)
(* orders one after the other.                                               *)

\* A step, unless one has failed; and whether it has failed.
Do(worst, state, step) ==
    IF state.ok
    THEN [DoStep(worst, state, step) EXCEPT !.ok = \A t \in CurrencyTokens : DoStep(worst, state, step).held[t] >= 0]
    ELSE state

NextState(c, i, acc) == Do(c[1], acc, c[2][i])
NextFilled(c, i, acc) == FillOne(c[1], c[2], acc, c[3][i])
NextHopAmount(c, i, acc) ==
    acc + (IF c[1] = "sell" THEN c[2][i].sampled.takes ELSE c[2][i].sampled.gives)

States == INSTANCE FoldTheorems WITH Op <- NextState, Choose <- Max
Filled == INSTANCE FoldTheorems WITH Op <- NextFilled, Choose <- Max
HopAmounts == INSTANCE FoldTheorems WITH Op <- NextHopAmount, Choose <- Max

StateAfter(worst, state, steps, n) == States!Fold(<<worst, steps>>, state, 1 .. n)
Run(worst, state, steps) == StateAfter(worst, state, steps, Len(steps))

(* The steps of a transaction are done in turn,                              *)
LEMMA StepsInTurn ==
    ASSUME NEW worst, NEW state, NEW S, NEW steps \in Seq(S)
    PROVE  \A n \in 1 .. Len(steps) :
               StateAfter(worst, state, steps, n) = Do(worst, StateAfter(worst, state, steps, n - 1), steps[n])
<1>. DEFINE c == <<worst, steps>>
<1>1. c[1] = worst /\ c[2] = steps /\ Len(steps) \in Nat
  OBVIOUS
<1>2. \A k : StateAfter(worst, state, steps, k) = States!Fold(c, state, 1 .. k)
  BY DEF StateAfter
<1>. HIDE DEF c
<1>3. /\ States!Fold(c, state, 1 .. 0) = state
      /\ \A n \in 1 .. Len(steps) : States!Fold(c, state, 1 .. n) = NextState(c, n, States!Fold(c, state, 1 .. (n - 1)))
  BY <1>1, InTurn, States!FoldInTurn DEF States!HasMinima, States!Chooses
<1>. QED  BY <1>1, <1>2, <1>3 DEF NextState

(* from what there is before the first one.                                  *)
LEMMA BeforeTheSteps ==
    ASSUME NEW worst, NEW state, NEW S, NEW steps \in Seq(S)
    PROVE  StateAfter(worst, state, steps, 0) = state
<1>. DEFINE c == <<worst, steps>>
<1>1. Len(steps) \in Nat
  OBVIOUS
<1>. HIDE DEF c
<1>2. States!Fold(c, state, 1 .. 0) = state
  BY <1>1, InTurn, States!FoldInTurn DEF States!HasMinima, States!Chooses
<1>. QED  BY <1>2 DEF StateAfter, c

\* What the proxy holds before the first step.
AtStart(t, value, balance) ==
    [held |-> [Nothing EXCEPT !["eth"] = value,
                              !["sell"] = IF t.in = "eth" THEN 0 ELSE IF t.takes = All THEN balance ELSE t.takes],
     fees |-> Nothing, back |-> Nothing, ok |-> TRUE]

(* Execute runs the steps of the transaction on what it takes.               *)
LEMMA ExecuteRuns ==
    ASSUME NEW t, NEW value, NEW balance, NEW worst, NEW S, t.steps \in Seq(S)
    PROVE  Execute(t, value, balance, worst) = Run(worst, AtStart(t, value, balance), t.steps)
<1>. DEFINE s == AtStart(t, value, balance)
<1>1. DOMAIN t.steps = 1 .. Len(t.steps)
  OBVIOUS
<1>2. Execute(t, value, balance, worst) = States!Fold(<<worst, t.steps>>, s, DOMAIN t.steps)
  BY DEF Execute, FoldLeft, MapThenFoldSet, States!Fold, States!AreFolds, NextState, Do, AtStart
<1>. QED  BY <1>1, <1>2 DEF Run, StateAfter

(* Nothing to do does nothing, and one step is that step.                    *)
LEMMA RunOfOne ==
    ASSUME NEW worst, NEW state
    PROVE  Run(worst, state, <<>>) = state /\ \A step : Run(worst, state, <<step>>) = Do(worst, state, step)
<1>1. Run(worst, state, <<>>) = state
  <2>1. <<>> \in Seq({}) /\ Len(<<>>) = 0
    OBVIOUS
  <2>2. StateAfter(worst, state, <<>>, 0) = state
    BY <2>1, BeforeTheSteps
  <2>. QED  BY <2>1, <2>2 DEF Run
<1>2. ASSUME NEW step PROVE Run(worst, state, <<step>>) = Do(worst, state, step)
  <2>. DEFINE s == <<step>>
  <2>1. s \in Seq({step}) /\ Len(s) = 1 /\ s[1] = step /\ 1 \in 1 .. 1 /\ 1 - 1 = 0
    OBVIOUS
  <2>. HIDE DEF s
  <2>2. StateAfter(worst, state, s, 0) = state
    BY <2>1, BeforeTheSteps
  <2>3. StateAfter(worst, state, s, 1) = Do(worst, StateAfter(worst, state, s, 1 - 1), s[1])
    BY <2>1, StepsInTurn
  <2>. QED  BY <2>1, <2>2, <2>3 DEF Run, s
<1>. QED  BY <1>1, <1>2

(* A transaction in two parts is done part by part.                          *)
LEMMA RunOfBoth ==
    ASSUME NEW worst, NEW state, NEW S, NEW a \in Seq(S), NEW b \in Seq(S)
    PROVE  Run(worst, state, a \o b) = Run(worst, Run(worst, state, a), b)
<1>. DEFINE u == a \o b
            la == Len(a)
            lb == Len(b)
            after(n) == StateAfter(worst, state, u, n)
            first(n) == StateAfter(worst, state, a, n)
            middle == first(la)
            second(n) == StateAfter(worst, middle, b, n)
            T == {n \in Nat : n <= la => after(n) = first(n)}
            W == {n \in Nat : n <= lb => after(la + n) = second(n)}
<1>1. u \in Seq(S) /\ Len(u) = la + lb /\ la \in Nat /\ lb \in Nat
  BY ConcatProperties
<1>2. /\ \A n \in 1 .. la : u[n] = a[n]
      /\ \A n \in 1 .. lb : u[la + n] = b[n]
  BY ConcatProperties
<1>3. after(0) = state /\ \A n \in 1 .. (la + lb) : after(n) = Do(worst, after(n - 1), u[n])
  <2>. HIDE DEF u
  <2>. QED  BY <1>1, StepsInTurn, BeforeTheSteps
<1>4. first(0) = state /\ \A n \in 1 .. la : first(n) = Do(worst, first(n - 1), a[n])
  BY StepsInTurn, BeforeTheSteps
<1>5. second(0) = middle /\ \A n \in 1 .. lb : second(n) = Do(worst, second(n - 1), b[n])
  BY StepsInTurn, BeforeTheSteps
<1>6. Run(worst, state, u) = after(la + lb) /\ Run(worst, state, a) = middle /\ Run(worst, middle, b) = second(lb)
  BY <1>1 DEF Run
<1>. HIDE DEF u, la, lb, after, first, second
<1>7. \A n \in Nat : n \in T
  <2>1. 0 \in T
    BY <1>3, <1>4
  <2>2. ASSUME NEW n \in Nat, n \in T PROVE n + 1 \in T
    <3>. SUFFICES ASSUME n + 1 <= la PROVE after(n + 1) = first(n + 1)
      OBVIOUS
    <3>1. n + 1 \in 1 .. la /\ n + 1 \in 1 .. (la + lb) /\ (n + 1) - 1 = n /\ after(n) = first(n)
      BY <1>1, <2>2
    <3>. QED  BY <1>2, <1>3, <1>4, <3>1
  <2>. HIDE DEF T
  <2>. QED  BY <2>1, <2>2, SetInduction
<1>8. after(la) = middle
  BY <1>1, <1>7
<1>9. \A n \in Nat : n \in W
  <2>1. 0 \in W
    <3>1. la + 0 = la
      BY <1>1
    <3>. QED  BY <1>5, <1>8, <3>1
  <2>2. ASSUME NEW n \in Nat, n \in W PROVE n + 1 \in W
    <3>. SUFFICES ASSUME n + 1 <= lb PROVE after(la + (n + 1)) = second(n + 1)
      OBVIOUS
    <3>1. /\ n + 1 \in 1 .. lb /\ la + (n + 1) \in 1 .. (la + lb) /\ (n + 1) - 1 = n
          /\ (la + (n + 1)) - 1 = la + n /\ after(la + n) = second(n)
      BY <1>1, <2>2
    <3>. QED  BY <1>2, <1>3, <1>5, <3>1
  <2>. HIDE DEF W
  <2>. QED  BY <2>1, <2>2, SetInduction
<1>10. after(la + lb) = second(lb)
  BY <1>1, <1>9
<1>. QED  BY <1>6, <1>10 DEF u

(* What every step of a transaction keeps, the transaction keeps.            *)
LEMMA RunKeeps ==
    ASSUME NEW worst, NEW P, NEW state \in P, NEW S, NEW steps \in Seq(S),
           \A x \in P, step \in S : Do(worst, x, step) \in P
    PROVE  Run(worst, state, steps) \in P
<1>. DEFINE after(n) == StateAfter(worst, state, steps, n)
            len == Len(steps)
            T == {n \in Nat : n <= len => after(n) \in P}
<1>1. after(0) = state /\ \A n \in 1 .. len : after(n) = Do(worst, after(n - 1), steps[n])
  BY StepsInTurn, BeforeTheSteps
<1>2. len \in Nat /\ \A n \in 1 .. len : steps[n] \in S
  OBVIOUS
<1>3. Run(worst, state, steps) = after(len)
  BY DEF Run
<1>. HIDE DEF after, len
<1>4. 0 \in T
  BY <1>1
<1>5. ASSUME NEW n \in Nat, n \in T PROVE n + 1 \in T
  <2>. SUFFICES ASSUME n + 1 <= len PROVE after(n + 1) \in P
    OBVIOUS
  <2>1. n + 1 \in 1 .. len /\ (n + 1) - 1 = n /\ after(n) \in P
    BY <1>2, <1>5
  <2>. QED  BY <1>1, <1>2, <2>1
<1>. HIDE DEF T
<1>6. \A n \in Nat : n \in T
  BY <1>4, <1>5, SetInduction
<1>. QED  BY <1>2, <1>3, <1>6 DEF T

(* A transaction that has failed stays as it is.                             *)
LEMMA FailureStays ==
    ASSUME NEW worst, NEW state, ~ state.ok, NEW S, NEW steps \in Seq(S)
    PROVE  Run(worst, state, steps) = state
<1>1. \A x \in {state}, step \in S : Do(worst, x, step) \in {state}
  BY DEF Do
<1>2. Run(worst, state, steps) \in {state}
  BY <1>1, RunKeeps
<1>. QED  BY <1>2

-----------------------------------------------------------------------------
(* Filling the orders of a step.                                             *)

Rates == [takes : Nat, gives : Nat]
FillStates == [balance : Int, bought : Int, remaining : Int, protocolFee : Nat]

IsEncoded(o) == o.cap \in Nat \cup {All} /\ o.sampled \in Rates /\ o.encoded \in Rates
AreEncoded(os) == os \in Seq(Range(os)) /\ \A i \in DOMAIN os : IsEncoded(os[i])

\* What an order is asked for, what it sells, and what it gives for that.
Wanted(side, s, o) ==
    IF side = "sell" THEN s.remaining ELSE Ceil(Frac(o.encoded.takes * s.remaining, Larger(1, o.encoded.gives)))
SoldBy(side, s, o) == Min({Wanted(side, s, o), s.balance} \cup (IF o.cap = All THEN {} ELSE {o.cap}))
BoughtFor(o, worst, sold) ==
    IF Rate(o, worst).takes = 0 THEN 0 ELSE (Rate(o, worst).gives * sold) \div Rate(o, worst).takes
FeeOfOrder(o) == IF o.source = "Limit" THEN ProtocolFee ELSE 0

(* An order sells what is wanted of it, what is there, or its cap.           *)
LEMMA OrderIsFilled ==
    ASSUME NEW side, NEW worst, NEW s \in FillStates, NEW o, IsEncoded(o), s.remaining > 0
    PROVE  LET sold == SoldBy(side, s, o)
               bought == BoughtFor(o, worst, sold)
           IN /\ sold \in Int /\ sold <= Wanted(side, s, o) /\ sold <= s.balance /\ (o.cap # All => sold <= o.cap)
              /\ sold \in {Wanted(side, s, o), s.balance, o.cap} /\ (sold = o.cap => o.cap # All \/ sold \in {Wanted(side, s, o), s.balance})
              /\ Wanted(side, s, o) \in Int /\ bought \in Int
              /\ FillOne(side, worst, s, o) =
                     [balance |-> s.balance - sold, bought |-> s.bought + bought,
                      remaining |-> s.remaining - (IF side = "sell" THEN sold ELSE bought),
                      protocolFee |-> s.protocolFee + FeeOfOrder(o)]
<1>. DEFINE wanted == Wanted(side, s, o)
            A == {wanted, s.balance} \cup (IF o.cap = All THEN {} ELSE {o.cap})
            sold == SoldBy(side, s, o)
            bought == BoughtFor(o, worst, sold)
            rate == Rate(o, worst)
<1>1. s.balance \in Int /\ s.remaining \in Int /\ s.bought \in Int /\ s.protocolFee \in Nat
  BY DEF FillStates
<1>2. o.encoded.takes \in Nat /\ o.encoded.gives \in Nat /\ rate.takes \in Nat /\ rate.gives \in Nat /\ (o.cap # All => o.cap \in Nat)
  BY DEF IsEncoded, Rates, Rate
<1>3. wanted \in Int
  <2>1. Larger(1, o.encoded.gives) \in Nat \ {0}
    BY <1>2 DEF Larger
  <2>2. o.encoded.takes * s.remaining \in Int
    BY <1>1, <1>2
  <2>3. Frac(o.encoded.takes * s.remaining, Larger(1, o.encoded.gives)) \in Rat
    BY <2>1, <2>2, FracValue DEF IsFrac
  <2>4. Ceil(Frac(o.encoded.takes * s.remaining, Larger(1, o.encoded.gives))) \in Int
    BY <2>3, CeilIsAbove
  <2>. QED  BY <1>1, <2>4 DEF Wanted
<1>4. sold = Min(A)
  BY DEF SoldBy
<1>. HIDE DEF wanted, sold
<1>5. A \subseteq Int /\ A # {} /\ IsFiniteSet(A)
  <2>1. A = {wanted, s.balance} \/ A = {wanted, s.balance, o.cap}
    OBVIOUS
  <2>2. IsFiniteSet({wanted, s.balance}) /\ IsFiniteSet({wanted, s.balance, o.cap})
    <3>1. IsFiniteSet({wanted})
      BY FS_Singleton
    <3>2. IsFiniteSet({wanted} \cup {s.balance})
      BY <3>1, FS_AddElement
    <3>3. IsFiniteSet(({wanted} \cup {s.balance}) \cup {o.cap})
      BY <3>2, FS_AddElement
    <3>4. {wanted} \cup {s.balance} = {wanted, s.balance} /\ ({wanted} \cup {s.balance}) \cup {o.cap} = {wanted, s.balance, o.cap}
      OBVIOUS
    <3>. QED  BY <3>2, <3>3, <3>4
  <2>3. IsFiniteSet(A)
    BY <2>1, <2>2
  <2>. QED  BY <1>1, <1>2, <1>3, <2>3
<1>6. sold \in A /\ \A n \in A : sold <= n
  <2>. HIDE DEF A
  <2>. QED  BY <1>4, <1>5, HasMin
<1>7. sold \in Int /\ sold <= wanted /\ sold <= s.balance /\ (o.cap # All => sold <= o.cap)
  BY <1>5, <1>6
<1>8. sold \in {wanted, s.balance, o.cap} /\ (sold = o.cap => o.cap # All \/ sold \in {wanted, s.balance})
  BY <1>6
<1>9. bought \in Int
  <2>1. rate.takes # 0 => (rate.gives * sold) \div rate.takes \in Int
    BY <1>2, <1>7, Division
  <2>. QED  BY <2>1 DEF BoughtFor
<1>10. ~ (s.remaining <= 0)
  BY <1>1
<1>11. FillOne(side, worst, s, o) =
         [balance |-> s.balance - sold, bought |-> s.bought + bought,
          remaining |-> s.remaining - (IF side = "sell" THEN sold ELSE bought),
          protocolFee |-> s.protocolFee + FeeOfOrder(o)]
  BY <1>10 DEF FillOne, sold, SoldBy, BoughtFor, Wanted, FeeOfOrder
<1>. QED  BY <1>3, <1>7, <1>8, <1>9, <1>11 DEF wanted, sold

(* Filling an order keeps numbers numbers.                                   *)
LEMMA FillOneIsTyped ==
    ASSUME NEW side, NEW worst, NEW s \in FillStates, NEW o, IsEncoded(o)
    PROVE  FillOne(side, worst, s, o) \in FillStates
<1>. DEFINE sold == SoldBy(side, s, o)
            bought == BoughtFor(o, worst, sold)
<1>1. s.balance \in Int /\ s.remaining \in Int /\ s.bought \in Int /\ s.protocolFee \in Nat
  BY DEF FillStates
<1>2. CASE s.remaining <= 0
  BY <1>2 DEF FillOne
<1>3. CASE ~ (s.remaining <= 0)
  <2>1. s.remaining > 0
    BY <1>1, <1>3
  <2>2. /\ sold \in Int /\ bought \in Int
        /\ FillOne(side, worst, s, o) =
             [balance |-> s.balance - sold, bought |-> s.bought + bought,
              remaining |-> s.remaining - (IF side = "sell" THEN sold ELSE bought),
              protocolFee |-> s.protocolFee + FeeOfOrder(o)]
    BY <2>1, OrderIsFilled
  <2>3. FeeOfOrder(o) \in Nat
    BY NumbersAssumption DEF FeeOfOrder
  <2>. HIDE DEF sold, bought
  <2>. QED  BY <1>1, <2>2, <2>3 DEF FillStates
<1>. QED  BY <1>2, <1>3

ToFill(balance, amt) ==
    [balance |-> balance, bought |-> 0, protocolFee |-> 0, remaining |-> IF amt = All THEN balance ELSE amt]
FillAfter(side, worst, state, orders, n) == Filled!Fold(<<side, worst, orders>>, state, 1 .. n)
FillOf(side, worst, state, orders) == FillAfter(side, worst, state, orders, Len(orders))

(* The orders of a step are filled in turn,                                  *)
LEMMA FillsInTurn ==
    ASSUME NEW side, NEW worst, NEW state, NEW S, NEW orders \in Seq(S)
    PROVE  \A n \in 1 .. Len(orders) :
               FillAfter(side, worst, state, orders, n)
               = FillOne(side, worst, FillAfter(side, worst, state, orders, n - 1), orders[n])
<1>. DEFINE c == <<side, worst, orders>>
<1>1. c[1] = side /\ c[2] = worst /\ c[3] = orders /\ Len(orders) \in Nat
  OBVIOUS
<1>2. \A n : FillAfter(side, worst, state, orders, n) = Filled!Fold(c, state, 1 .. n)
  BY DEF FillAfter
<1>. HIDE DEF c
<1>3. /\ Filled!Fold(c, state, 1 .. 0) = state
      /\ \A n \in 1 .. Len(orders) : Filled!Fold(c, state, 1 .. n) = NextFilled(c, n, Filled!Fold(c, state, 1 .. (n - 1)))
  BY <1>1, InTurn, Filled!FoldInTurn DEF Filled!HasMinima, Filled!Chooses
<1>. QED  BY <1>1, <1>2, <1>3 DEF NextFilled

(* from what there is before the first one.                                  *)
LEMMA BeforeTheFills ==
    ASSUME NEW side, NEW worst, NEW state, NEW S, NEW orders \in Seq(S)
    PROVE  FillAfter(side, worst, state, orders, 0) = state
<1>. DEFINE c == <<side, worst, orders>>
<1>1. Len(orders) \in Nat
  OBVIOUS
<1>. HIDE DEF c
<1>2. Filled!Fold(c, state, 1 .. 0) = state
  BY <1>1, InTurn, Filled!FoldInTurn DEF Filled!HasMinima, Filled!Chooses
<1>. QED  BY <1>2 DEF FillAfter, c

(* What filling one of the orders keeps, filling all of them keeps.          *)
LEMMA FillKeeps ==
    ASSUME NEW side, NEW worst, NEW P, NEW state \in P, NEW S, NEW orders \in Seq(S),
           \A x \in P, i \in 1 .. Len(orders) : FillOne(side, worst, x, orders[i]) \in P
    PROVE  \A n \in 0 .. Len(orders) : FillAfter(side, worst, state, orders, n) \in P
<1>. DEFINE after(n) == FillAfter(side, worst, state, orders, n)
            len == Len(orders)
            T == {n \in Nat : n <= len => after(n) \in P}
<1>1. after(0) = state
  BY BeforeTheFills
<1>2. len \in Nat /\ \A n \in 1 .. len : after(n) = FillOne(side, worst, after(n - 1), orders[n])
  BY FillsInTurn
<1>. HIDE DEF after, len
<1>3. 0 \in T
  BY <1>1
<1>4. ASSUME NEW n \in Nat, n \in T PROVE n + 1 \in T
  <2>. SUFFICES ASSUME n + 1 <= len PROVE after(n + 1) \in P
    OBVIOUS
  <2>1. n + 1 \in 1 .. len /\ (n + 1) - 1 = n /\ after(n) \in P
    BY <1>2, <1>4
  <2>. QED  BY <1>2, <2>1 DEF len
<1>. HIDE DEF T
<1>5. \A n \in Nat : n \in T
  BY <1>3, <1>4, SetInduction
<1>6. \A n \in 0 .. len : after(n) \in P
  BY <1>2, <1>5 DEF T
<1>. QED  BY <1>6 DEF after, len

-----------------------------------------------------------------------------
(* What a step does to the balances.                                         *)

Balances == [CurrencyTokens -> Int]
Positions == [held : Balances, fees : Balances, back : Balances, ok : BOOLEAN]

IsFillStep(x) ==
    /\ x.do = "fill" /\ x.from \in CurrencyTokens /\ x.to \in CurrencyTokens /\ x.from # x.to
    /\ x.amount \in Int \cup {All} /\ AreEncoded(x.orders)
IsConvertStep(x) ==
    /\ x.do = "convert" /\ x.from \in CurrencyTokens /\ x.to \in CurrencyTokens /\ x.from # x.to
    /\ x.amount \in Int \cup {All}
IsFeeStep(x) == x.do = "fee" /\ x.token \in CurrencyTokens /\ x.amount \in Int
IsSurplusStep(x) == x.do = "surplus" /\ x.token \in CurrencyTokens /\ x.bestCase \in Int
IsReturnStep(x) == x.do = "return"
IsStep(x) == IsFillStep(x) \/ IsConvertStep(x) \/ IsFeeStep(x) \/ IsSurplusStep(x) \/ IsReturnStep(x)

FillResult(worst, state, x) == FillOf(x.side, worst, ToFill(state.held[x.from], x.amount), x.orders)

\* The balances after a step of fills.
MovedBy(worst, held, x) ==
    LET r == FillOrders(worst, x, held[x.from])
    IN [Move(held, x.from, x.to, held[x.from] - r.balance, r.bought) EXCEPT !["eth"] = @ - r.protocolFee]

\* What a step of fills leaves of a token.
FilledHeld(worst, state, x, t) ==
    LET r == FillResult(worst, state, x)
    IN (state.held[t] + (IF t = x.from THEN r.balance - state.held[x.from] ELSE IF t = x.to THEN r.bought ELSE 0))
       - (IF t = "eth" THEN r.protocolFee ELSE 0)

(* A step of fills changes the balances only.                                *)
LEMMA FillsMove ==
    ASSUME NEW worst, NEW state, NEW x, x.do = "fill"
    PROVE  DoStep(worst, state, x) = [state EXCEPT !.held = MovedBy(worst, state.held, x)]
BY DEF DoStep, MovedBy

(* A step of fills moves what is sold and what is bought, and pays protocol  *)
(* fees.                                                                     *)
LEMMA FillStepFills ==
    ASSUME NEW worst, NEW state \in Positions, NEW x, IsFillStep(x)
    PROVE  /\ FillResult(worst, state, x) \in FillStates
           /\ DoStep(worst, state, x) = [state EXCEPT !.held = [t \in CurrencyTokens |-> FilledHeld(worst, state, x, t)]]
<1>. DEFINE b == state.held[x.from]
            s == ToFill(b, x.amount)
            r == FillResult(worst, state, x)
            orders == x.orders
            h == state.held
            Os == Range(orders)
<1>1. h \in Balances /\ b \in Int /\ orders \in Seq(Os) /\ \A i \in 1 .. Len(orders) : IsEncoded(orders[i])
  BY DEF IsFillStep, Positions, Balances, AreEncoded
<1>2. s \in FillStates
  BY <1>1 DEF ToFill, FillStates, IsFillStep
<1>3. DOMAIN orders = 1 .. Len(orders) /\ Len(orders) \in Nat
  BY <1>1
<1>4. r \in FillStates
  <2>. HIDE DEF s, Os
  <2>1. \A n \in 0 .. Len(orders) : FillAfter(x.side, worst, s, orders, n) \in FillStates
    BY <1>1, <1>2, FillOneIsTyped, FillKeeps
  <2>. QED  BY <1>3, <2>1 DEF FillResult, FillOf, s
<1>5. FillOrders(worst, x, b) = r
  <2>1. FillOrders(worst, x, b) = Filled!Fold(<<x.side, worst, orders>>, s, DOMAIN orders)
    BY DEF FillOrders, ToFill, FoldLeft, MapThenFoldSet, Filled!Fold, Filled!AreFolds, NextFilled
  <2>. QED  BY <1>3, <2>1 DEF FillResult, FillOf, FillAfter
<1>. DEFINE held == [Move(h, x.from, x.to, b - r.balance, r.bought) EXCEPT !["eth"] = @ - r.protocolFee]
            new == [t \in CurrencyTokens |-> (h[t] + (IF t = x.from THEN r.balance - b ELSE IF t = x.to THEN r.bought ELSE 0))
                                             - (IF t = "eth" THEN r.protocolFee ELSE 0)]
<1>6. DoStep(worst, state, x) = [state EXCEPT !.held = held]
  <2>1. x.do = "fill"
    BY DEF IsFillStep
  <2>2. DoStep(worst, state, x) = [state EXCEPT !.held = MovedBy(worst, h, x)]
    BY <2>1, FillsMove
  <2>3. MovedBy(worst, h, x) = held
    BY <1>5 DEF MovedBy
  <2>. HIDE DEF held
  <2>. QED  BY <2>2, <2>3
<1>. HIDE DEF r, s
<1>7. held = new
  <2>1. r.balance \in Int /\ r.bought \in Int /\ r.protocolFee \in Nat
    BY <1>4 DEF FillStates
  <2>2. x.from \in CurrencyTokens /\ x.to \in CurrencyTokens /\ x.from # x.to
    BY DEF IsFillStep
  <2>3. DOMAIN h = CurrencyTokens /\ \A t \in CurrencyTokens : h[t] \in Int
    BY <1>1 DEF Balances
  <2>4. "eth" \in CurrencyTokens
    BY DEF CurrencyTokens
  <2>. DEFINE m == Move(h, x.from, x.to, b - r.balance, r.bought)
  <2>5. DOMAIN m = CurrencyTokens /\ \A t \in CurrencyTokens : m[t] = h[t] + (IF t = x.from THEN r.balance - b ELSE IF t = x.to THEN r.bought ELSE 0)
    <3>. HIDE DEF h
    <3>. QED  BY <2>1, <2>2, <2>3, <1>1 DEF Move
  <2>. HIDE DEF m
  <2>6. held = [m EXCEPT !["eth"] = @ - r.protocolFee]
    BY DEF m
  <2>7. m = [t \in CurrencyTokens |-> m[t]]
    <3>1. m = [Move(h, x.from, x.to, b - r.balance, r.bought) EXCEPT !["eth"] = @]
      BY <2>3, <2>4 DEF m, Move
    <3>. QED  BY <2>5, <3>1
  <2>8. \A t \in CurrencyTokens : held[t] = new[t]
    <3>. SUFFICES ASSUME NEW t \in CurrencyTokens PROVE held[t] = new[t]
      OBVIOUS
    <3>1. held[t] = IF t = "eth" THEN m[t] - r.protocolFee ELSE m[t]
      BY <2>4, <2>5, <2>6, <2>7
    <3>2. m[t] = h[t] + (IF t = x.from THEN r.balance - b ELSE IF t = x.to THEN r.bought ELSE 0)
      BY <2>5
    <3>3. m[t] \in Int
      <4>. HIDE DEF h
      <4>. QED  BY <1>1, <2>1, <2>3, <3>2
    <3>4. new[t] = (h[t] + (IF t = x.from THEN r.balance - b ELSE IF t = x.to THEN r.bought ELSE 0)) - (IF t = "eth" THEN r.protocolFee ELSE 0)
      OBVIOUS
    <3>. HIDE DEF held, new
    <3>. QED  BY <2>1, <3>1, <3>2, <3>3, <3>4
  <2>9. held = [t \in CurrencyTokens |-> held[t]]
    BY <2>5, <2>6
  <2>. HIDE DEF held
  <2>. QED  BY <2>8, <2>9
<1>8. new = [t \in CurrencyTokens |-> FilledHeld(worst, state, x, t)]
  BY DEF FilledHeld, r
<1>. HIDE DEF held, new
<1>. QED  BY <1>4, <1>6, <1>7, <1>8 DEF r

(* A step that is done: whether it has failed is seen in the balances.       *)
LEMMA StepIsDone ==
    ASSUME NEW worst, NEW state, state.ok, NEW x, DoStep(worst, state, x) \in Positions
    PROVE  LET d == DoStep(worst, state, x)
               e == Do(worst, state, x)
           IN /\ e \in Positions /\ e.held = d.held /\ e.fees = d.fees /\ e.back = d.back
              /\ e.ok <=> \A t \in CurrencyTokens : d.held[t] >= 0
<1>. DEFINE d == DoStep(worst, state, x)
            ok == \A t \in CurrencyTokens : d.held[t] >= 0
<1>1. Do(worst, state, x) = [d EXCEPT !.ok = ok]
  BY DEF Do
<1>2. d \in Positions /\ ok \in BOOLEAN
  OBVIOUS
<1>. HIDE DEF d, ok
<1>3. Do(worst, state, x) \in Positions
  BY <1>1, <1>2 DEF Positions
<1>4. Do(worst, state, x).ok = ok
  BY <1>1, <1>2 DEF Positions
<1>. QED  BY <1>1, <1>2, <1>3, <1>4 DEF Positions, d, ok

(* Fills.                                                                    *)
LEMMA FillIsDone ==
    ASSUME NEW worst, NEW state \in Positions, state.ok, NEW x, IsFillStep(x)
    PROVE  LET e == Do(worst, state, x)
           IN /\ FillResult(worst, state, x) \in FillStates
              /\ e \in Positions /\ e.fees = state.fees /\ e.back = state.back
              /\ \A t \in CurrencyTokens : e.held[t] = FilledHeld(worst, state, x, t)
              /\ e.ok <=> \A t \in CurrencyTokens : e.held[t] >= 0
<1>. DEFINE r == FillResult(worst, state, x)
            h == [t \in CurrencyTokens |-> FilledHeld(worst, state, x, t)]
            d == DoStep(worst, state, x)
<1>1. r \in FillStates
  BY FillStepFills
<1>2. d = [state EXCEPT !.held = h]
  BY FillStepFills
<1>3. h \in Balances
  <2>1. r.balance \in Int /\ r.bought \in Int /\ r.protocolFee \in Int
    BY <1>1 DEF FillStates
  <2>2. x.from \in CurrencyTokens /\ \A t \in CurrencyTokens : state.held[t] \in Int
    BY DEF Positions, Balances, IsFillStep
  <2>. HIDE DEF r
  <2>3. \A t \in CurrencyTokens : FilledHeld(worst, state, x, t) \in Int
    BY <2>1, <2>2 DEF FilledHeld, r
  <2>. QED  BY <2>3 DEF Balances
<1>. HIDE DEF h, d
<1>4. d \in Positions /\ d.held = h /\ d.fees = state.fees /\ d.back = state.back
  BY <1>2, <1>3 DEF Positions
<1>5. \A t \in CurrencyTokens : h[t] = FilledHeld(worst, state, x, t)
  BY DEF h
<1>. QED  BY <1>1, <1>4, <1>5, StepIsDone DEF d

(* Conversions: wrapping and unwrapping the native token.                    *)
LEMMA ConvertIsDone ==
    ASSUME NEW worst, NEW state \in Positions, state.ok, NEW x, IsConvertStep(x)
    PROVE  LET e == Do(worst, state, x)
               moved == IF x.amount = All THEN state.held[x.from] ELSE x.amount
           IN /\ moved \in Int
              /\ e \in Positions /\ e.fees = state.fees /\ e.back = state.back
              /\ \A t \in CurrencyTokens :
                     e.held[t] = IF t = x.from THEN state.held[t] - moved
                                 ELSE IF t = x.to THEN state.held[t] + moved ELSE state.held[t]
              /\ e.ok <=> \A t \in CurrencyTokens : e.held[t] >= 0
<1>. DEFINE moved == IF x.amount = All THEN state.held[x.from] ELSE x.amount
            h == Move(state.held, x.from, x.to, moved, moved)
            d == DoStep(worst, state, x)
<1>1. d = [state EXCEPT !.held = h]
  <2>1. x.do = "convert"
    BY DEF IsConvertStep
  <2>. QED  BY <2>1 DEF DoStep
<1>2. x.from \in CurrencyTokens /\ x.to \in CurrencyTokens /\ x.from # x.to /\ state.held \in [CurrencyTokens -> Int]
  BY DEF Positions, Balances, IsConvertStep
<1>3. moved \in Int
  BY <1>2 DEF IsConvertStep
<1>. HIDE DEF moved
<1>4. h \in Balances /\ \A t \in CurrencyTokens :
         h[t] = IF t = x.from THEN state.held[t] - moved ELSE IF t = x.to THEN state.held[t] + moved ELSE state.held[t]
  BY <1>2, <1>3 DEF Move, Balances
<1>. HIDE DEF h, d
<1>5. d \in Positions /\ d.held = h /\ d.fees = state.fees /\ d.back = state.back
  BY <1>1, <1>4 DEF Positions
<1>. QED  BY <1>3, <1>4, <1>5, StepIsDone DEF d, moved

(* The payment of a fee.                                                     *)
LEMMA FeeIsDone ==
    ASSUME NEW worst, NEW state \in Positions, state.ok, NEW x, IsFeeStep(x)
    PROVE  LET e == Do(worst, state, x)
           IN /\ e \in Positions /\ e.back = state.back
              /\ \A t \in CurrencyTokens :
                    /\ e.held[t] = IF t = x.token THEN state.held[t] - x.amount ELSE state.held[t]
                    /\ e.fees[t] = IF t = x.token THEN state.fees[t] + x.amount ELSE state.fees[t]
              /\ e.ok <=> \A t \in CurrencyTokens : e.held[t] >= 0
<1>. DEFINE h == [state.held EXCEPT ![x.token] = @ - x.amount]
            f == [state.fees EXCEPT ![x.token] = @ + x.amount]
            d == DoStep(worst, state, x)
<1>1. d = [state EXCEPT !.held = h, !.fees = f]
  <2>1. x.do = "fee"
    BY DEF IsFeeStep
  <2>2. d = [state EXCEPT !.held[x.token] = @ - x.amount, !.fees[x.token] = @ + x.amount]
    BY <2>1 DEF DoStep
  <2>3. state = [held |-> state.held, fees |-> state.fees, back |-> state.back, ok |-> state.ok]
    BY DEF Positions
  <2>. QED  BY <2>2, <2>3
<1>2. x.token \in CurrencyTokens /\ x.amount \in Int /\ state.held \in [CurrencyTokens -> Int] /\ state.fees \in [CurrencyTokens -> Int]
  BY DEF Positions, Balances, IsFeeStep
<1>3. /\ h \in Balances /\ f \in Balances
      /\ \A t \in CurrencyTokens : /\ h[t] = IF t = x.token THEN state.held[t] - x.amount ELSE state.held[t]
                                   /\ f[t] = IF t = x.token THEN state.fees[t] + x.amount ELSE state.fees[t]
  BY <1>2 DEF Balances
<1>. HIDE DEF h, f, d
<1>4. d \in Positions /\ d.held = h /\ d.fees = f /\ d.back = state.back
  BY <1>1, <1>3 DEF Positions
<1>. QED  BY <1>3, <1>4, StepIsDone DEF d

(* What is bought beyond the best case.                                      *)
LEMMA SurplusIsDone ==
    ASSUME NEW worst, NEW state \in Positions, state.ok, NEW x, IsSurplusStep(x)
    PROVE  LET e == Do(worst, state, x)
           IN /\ e \in Positions /\ e.fees = state.fees /\ e.back = state.back
              /\ \A t \in CurrencyTokens :
                    e.held[t] = IF t = x.token THEN Smaller(state.held[t], x.bestCase) ELSE state.held[t]
              /\ e.ok <=> \A t \in CurrencyTokens : e.held[t] >= 0
<1>. DEFINE surplus == Larger(0, state.held[x.token] - x.bestCase)
            h == [state.held EXCEPT ![x.token] = @ - surplus]
            d == DoStep(worst, state, x)
<1>1. d = [state EXCEPT !.held = h]
  <2>1. x.do = "surplus"
    BY DEF IsSurplusStep
  <2>2. d = [state EXCEPT !.held[x.token] = @ - surplus]
    BY <2>1 DEF DoStep
  <2>. HIDE DEF surplus
  <2>. QED  BY <2>2
<1>2. x.token \in CurrencyTokens /\ x.bestCase \in Int /\ state.held \in [CurrencyTokens -> Int]
  BY DEF Positions, Balances, IsSurplusStep
<1>3. h \in Balances /\ \A t \in CurrencyTokens :
         h[t] = IF t = x.token THEN Smaller(state.held[t], x.bestCase) ELSE state.held[t]
  BY <1>2 DEF Balances, Larger, Smaller
<1>. HIDE DEF h, d
<1>4. d \in Positions /\ d.held = h /\ d.fees = state.fees /\ d.back = state.back
  BY <1>1, <1>3 DEF Positions
<1>. QED  BY <1>3, <1>4, StepIsDone DEF d

(* What goes back to the taker.                                              *)
LEMMA ReturnIsDone ==
    ASSUME NEW worst, NEW state \in Positions, state.ok, NEW x, IsReturnStep(x)
    PROVE  LET e == Do(worst, state, x)
           IN /\ e \in Positions /\ e.fees = state.fees
              /\ \A t \in CurrencyTokens :
                    /\ e.held[t] = IF t \in x.tokens THEN 0 ELSE state.held[t]
                    /\ e.back[t] = IF t \in x.tokens THEN state.back[t] + state.held[t] ELSE state.back[t]
              /\ e.ok <=> \A t \in CurrencyTokens : e.held[t] >= 0
<1>. DEFINE h == [t \in CurrencyTokens |-> IF t \in x.tokens THEN 0 ELSE state.held[t]]
            b == [t \in CurrencyTokens |-> IF t \in x.tokens THEN state.back[t] + state.held[t] ELSE state.back[t]]
            d == DoStep(worst, state, x)
<1>1. /\ state.held \in Balances /\ DOMAIN state.held = CurrencyTokens
      /\ state.back \in Balances /\ DOMAIN state.back = CurrencyTokens
  BY DEF Positions, Balances
<1>2. d = [state EXCEPT !.back = b, !.held = h]
  <2>1. x.do = "return"
    BY DEF IsReturnStep
  <2>2. d = [state EXCEPT !.back = [t \in DOMAIN @ |-> IF t \in x.tokens THEN @[t] + state.held[t] ELSE @[t]],
                          !.held = [t \in DOMAIN @ |-> IF t \in x.tokens THEN 0 ELSE @[t]]]
    BY <2>1 DEF DoStep
  <2>. QED  BY <1>1, <2>2
<1>3. h \in Balances /\ b \in Balances
  BY <1>1 DEF Balances
<1>4. \A t \in CurrencyTokens :
         /\ h[t] = IF t \in x.tokens THEN 0 ELSE state.held[t]
         /\ b[t] = IF t \in x.tokens THEN state.back[t] + state.held[t] ELSE state.back[t]
  OBVIOUS
<1>. HIDE DEF h, b, d
<1>5. d \in Positions /\ d.held = h /\ d.fees = state.fees /\ d.back = b
  BY <1>2, <1>3 DEF Positions
<1>. QED  BY <1>4, <1>5, StepIsDone DEF d

(* Every step keeps numbers numbers.                                         *)
LEMMA StepIsTyped ==
    ASSUME NEW worst, NEW state \in Positions, NEW x, IsStep(x)
    PROVE  Do(worst, state, x) \in Positions
<1>1. CASE ~ state.ok
  BY <1>1 DEF Do
<1>2. CASE state.ok
  BY <1>2, FillIsDone, ConvertIsDone, FeeIsDone, SurplusIsDone, ReturnIsDone DEF IsStep
<1>. QED  BY <1>1, <1>2

-----------------------------------------------------------------------------
(* The steps of a transaction.                                               *)

IsQuote(q) ==
    /\ q.side \in {"sell", "buy"} /\ q.amount \in Nat /\ q.slippage \in NonNeg /\ Leq(q.slippage, One)
    /\ ArePathFills(q.path, q.amount)
    /\ IsInfo(q.info.best) /\ IsInfo(q.info.worst) /\ Worse(q.info.worst, q.info.best)

\* What the options say: fees in the sold token are those of a meta-transaction
\* in its first version, which sells no native token.
AreOptions(o) ==
    /\ o.buyFee \in Nat /\ o.surplusCost \in Nat /\ SellFeeAmount(o) \in Nat
    /\ IF DOMAIN o.sellFees = {} THEN SellFeeAmount(o) = 0 ELSE o.mtx = "v1" /\ ~ o.fromEth
    /\ o.fromEth \in BOOLEAN /\ o.toEth \in BOOLEAN

AreSteps(s) == s \in Seq(Range(s)) /\ \A i \in DOMAIN s : IsStep(s[i])

(* The order that is encoded has the amounts of the order, and what slippage *)
(* leaves of them, rounded down.                                             *)
LEMMA EncodedIsEncoded ==
    ASSUME NEW q, IsQuote(q), NEW order, IsOrder(order, q.amount)
    PROVE  IsEncoded(EncodedOrder(q, order))
<1>. DEFINE slipped == SlipOrder(q.side, q.slippage, order)
            down == Num(Floor(Times(order.maker, Minus(One, q.slippage))))
            up == Num(Ceil(Times(order.taker, Plus(One, q.slippage))))
<1>1. order.maker \in NonNeg /\ order.taker \in NonNeg
  BY DEF IsOrder
<1>2. Minus(One, q.slippage) \in NonNeg /\ Plus(One, q.slippage) \in NonNeg
  BY SlippageFactors DEF IsQuote
<1>3. down \in NonNeg /\ up \in NonNeg
  <2>1. Times(order.maker, Minus(One, q.slippage)) \in NonNeg /\ Times(order.taker, Plus(One, q.slippage)) \in NonNeg
    BY <1>1, <1>2, NonNegIsClosed
  <2>2. Floor(Times(order.maker, Minus(One, q.slippage))) \in Nat /\ Ceil(Times(order.taker, Plus(One, q.slippage))) \in Nat
    BY <2>1, FloorOfNonNeg
  <2>. QED  BY <2>2, NumIsRat
<1>. HIDE DEF down, up
<1>4. slipped.maker \in {order.maker, down} /\ slipped.taker \in {order.taker, up}
  <2>1. CASE order.way.kind = "native"
    BY <2>1 DEF SlipOrder
  <2>2. CASE order.way.kind # "native" /\ q.side = "sell"
    <3>1. slipped = [order EXCEPT !.maker = down]
      BY <2>2 DEF SlipOrder, down
    <3>2. order.maker \in NonNeg
      BY <1>1
    <3>. HIDE DEF slipped
    <3>3. slipped.taker = order.taker
      BY <3>1
    <3>4. slipped.maker \in {order.maker, down}
      BY <3>1
    <3>. QED  BY <3>3, <3>4
  <2>3. CASE order.way.kind # "native" /\ q.side # "sell"
    <3>1. slipped = [order EXCEPT !.taker = up]
      BY <2>3 DEF SlipOrder, up
    <3>. HIDE DEF slipped
    <3>3. slipped.maker = order.maker
      BY <3>1
    <3>4. slipped.taker \in {order.taker, up}
      BY <3>1
    <3>. QED  BY <3>3, <3>4
  <2>. QED  BY <2>1, <2>2, <2>3
<1>5. slipped.maker \in NonNeg /\ slipped.taker \in NonNeg
  BY <1>1, <1>3, <1>4
<1>. HIDE DEF slipped
<1>6. Floor(slipped.maker) \in Nat /\ Floor(slipped.taker) \in Nat /\ Floor(order.maker) \in Nat /\ Floor(order.taker) \in Nat
  BY <1>1, <1>5, FloorOfNonNeg
<1>. QED  BY <1>6 DEF EncodedOrder, IsEncoded, Rates, slipped

(* The orders of a kind are encoded one by one.                              *)
LEMMA EncodedOfKind ==
    ASSUME NEW q, IsQuote(q), NEW kind
    PROVE  /\ AreEncoded(EncodedOrders(q, kind))
           /\ Len(EncodedOrders(q, kind)) = Len(OrdersOf(q.side, q.path, kind))
           /\ DOMAIN EncodedOrders(q, kind) = DOMAIN OrdersOf(q.side, q.path, kind)
           /\ \A i \in DOMAIN OrdersOf(q.side, q.path, kind) :
                  EncodedOrders(q, kind)[i] = EncodedOrder(q, OrdersOf(q.side, q.path, kind)[i])
<1>. DEFINE os == OrdersOf(q.side, q.path, kind)
            es == EncodedOrders(q, kind)
            n == Len(os)
            E == {EncodedOrder(q, os[i]) : i \in DOMAIN os}
<1>1. q.amount \in Nat /\ ArePathFills(q.path, q.amount)
  BY DEF IsQuote
<1>2. AreOrders(os, q.amount)
  BY <1>1, OrdersAreOrders
<1>3. os \in Seq(Range(os)) /\ \A i \in DOMAIN os : IsOrder(os[i], q.amount)
  BY <1>2 DEF AreOrders
<1>4. DOMAIN os = 1 .. n /\ n \in Nat
  BY <1>3
<1>5. es = [i \in DOMAIN os |-> EncodedOrder(q, os[i])]
  BY DEF EncodedOrders
<1>6. \A e \in E : IsEncoded(e)
  BY <1>3, EncodedIsEncoded
<1>. HIDE DEF os, es, n
<1>7. es \in [1 .. n -> E]
  BY <1>4, <1>5
<1>. HIDE DEF E
<1>8. es \in Seq(E) /\ Len(es) = n
  BY <1>4, <1>7, SeqDef
<1>9. es \in Seq(Range(es)) /\ \A i \in DOMAIN es : es[i] \in E
  BY <1>8, IsSeqOfRange
<1>10. AreEncoded(es)
  BY <1>6, <1>9 DEF AreEncoded
<1>. QED  BY <1>4, <1>5, <1>8, <1>10 DEF os, es, n

(* Two sequences with elements of a kind make one: what is encoded, and what *)
(* is done.                                                                  *)
LEMMA EncodedTogether ==
    ASSUME NEW a, AreEncoded(a), NEW b, AreEncoded(b)
    PROVE  AreEncoded(a \o b)
<1>. DEFINE R == Range(a) \cup Range(b)
            u == a \o b
<1>1. a \in Seq(R) /\ b \in Seq(R)
  <2>1. a \in Seq(Range(a)) /\ Range(a) \subseteq R /\ b \in Seq(Range(b)) /\ Range(b) \subseteq R
    BY DEF AreEncoded
  <2>. HIDE DEF R
  <2>. QED  BY <2>1, SeqMonotonic
<1>2. \A o \in R : IsEncoded(o)
  BY DEF AreEncoded, Range
<1>. HIDE DEF R
<1>3. u \in Seq(R)
  BY <1>1, ConcatProperties
<1>. HIDE DEF u
<1>4. u \in Seq(Range(u)) /\ \A i \in DOMAIN u : u[i] \in R
  BY <1>3, IsSeqOfRange
<1>. QED  BY <1>2, <1>4 DEF AreEncoded, u

(* The orders of a quote are encoded orders.                                 *)
LEMMA HopsAreEncoded ==
    ASSUME NEW q, IsQuote(q)
    PROVE  AreEncoded(SingleHops(q)) /\ AreEncoded(TwoHops(q))
BY EncodedOfKind, EncodedTogether DEF SingleHops, TwoHops

\* The two steps of a two-hop order.
FirstStep(q, o, order) == Fill("sell", "mid", "sell", IF WholeBalance(q, o) THEN All ELSE order.cap, <<FirstHop(order)>>)
SecondStep(order) == Fill("mid", "buy", "sell", All, <<SecondHop(order)>>)
HopsOf(q, o) == [i \in DOMAIN TwoHops(q) |-> <<FirstStep(q, o, TwoHops(q)[i]), SecondStep(TwoHops(q)[i])>>]
HopsUpTo(q, o, n) == Parts!Fold(HopsOf(q, o), <<>>, 1 .. n)

(* The two-hops follow one another.                                          *)
LEMMA HopsInTurn ==
    ASSUME NEW q, IsQuote(q), NEW o
    PROVE  /\ createTwoHopTransformations(q, o) = HopsUpTo(q, o, Len(TwoHops(q)))
           /\ HopsUpTo(q, o, 0) = <<>>
           /\ \A n \in 1 .. Len(TwoHops(q)) : HopsUpTo(q, o, n) = HopsUpTo(q, o, n - 1) \o HopsOf(q, o)[n]
<1>. DEFINE f == HopsOf(q, o)
            len == Len(TwoHops(q))
<1>1. DOMAIN TwoHops(q) = 1 .. len /\ len \in Nat
  BY HopsAreEncoded DEF AreEncoded
<1>2. DOMAIN f = 1 .. len
  BY <1>1 DEF HopsOf
<1>3. createTwoHopTransformations(q, o) = FoldLeft(\o, <<>>, f)
  BY DEF createTwoHopTransformations, HopsOf, FirstStep, SecondStep
<1>. HIDE DEF f, len
<1>4. FoldLeft(\o, <<>>, f) = Parts!Fold(f, <<>>, DOMAIN f)
  BY DEF FoldLeft, MapThenFoldSet, Parts!Fold, Parts!AreFolds, NextPart
<1>5. /\ Parts!Fold(f, <<>>, 1 .. 0) = <<>>
      /\ \A n \in 1 .. len : Parts!Fold(f, <<>>, 1 .. n) = NextPart(f, n, Parts!Fold(f, <<>>, 1 .. (n - 1)))
  BY <1>1, InTurn, Parts!FoldInTurn DEF Parts!HasMinima, Parts!Chooses
<1>. QED  BY <1>2, <1>3, <1>4, <1>5 DEF HopsUpTo, NextPart, f, len

(* A hop of an encoded order is an encoded order.                            *)
LEMMA HopIsEncoded ==
    ASSUME NEW order, IsEncoded(order), DOMAIN order = {"source", "cap", "sampled", "encoded"}
    PROVE  /\ IsEncoded(FirstHop(order)) /\ IsEncoded(SecondHop(order)) /\ IsEncoded(Uncapped(order))
           /\ FirstHop(order).cap = order.cap /\ SecondHop(order).cap = All /\ Uncapped(order).cap = All
           /\ FirstHop(order).sampled.takes = order.sampled.takes /\ FirstHop(order).sampled.gives = order.sampled.takes
           /\ FirstHop(order).encoded.takes = order.encoded.takes /\ FirstHop(order).encoded.gives = order.encoded.takes
           /\ SecondHop(order).sampled = order.sampled /\ SecondHop(order).encoded = order.encoded
           /\ Uncapped(order).sampled = order.sampled /\ Uncapped(order).encoded = order.encoded
           /\ Uncapped(order).source = order.source
           /\ FirstHop(order).source = order.source[1] /\ SecondHop(order).source = order.source[2]
           /\ IsEncoded(Uncapped(FirstHop(order))) /\ Uncapped(FirstHop(order)).cap = All
           /\ Uncapped(FirstHop(order)).source = order.source[1]
           /\ Uncapped(FirstHop(order)).sampled = FirstHop(order).sampled
           /\ Uncapped(FirstHop(order)).encoded = FirstHop(order).encoded
<1>. DEFINE a == [order.sampled EXCEPT !.gives = order.sampled.takes]
            b == [order.encoded EXCEPT !.gives = order.encoded.takes]
            f == FirstHop(order)
            g == SecondHop(order)
            u == Uncapped(order)
            v == Uncapped(f)
<1>1. order.cap \in Nat \cup {All} /\ order.sampled \in Rates /\ order.encoded \in Rates
  BY DEF IsEncoded
<1>2. /\ a \in Rates /\ a.takes = order.sampled.takes /\ a.gives = order.sampled.takes
      /\ b \in Rates /\ b.takes = order.encoded.takes /\ b.gives = order.encoded.takes
  BY <1>1 DEF Rates
<1>3. f = [order EXCEPT !.source = @[1], !.sampled = a, !.encoded = b]
  BY DEF FirstHop
<1>4. g = [order EXCEPT !.source = @[2], !.cap = All] /\ u = [order EXCEPT !.cap = All] /\ v = [f EXCEPT !.cap = All]
  BY DEF SecondHop, Uncapped
<1>. HIDE DEF a, b, f, g, u, v
<1>5. f.cap = order.cap /\ f.sampled = a /\ f.encoded = b /\ f.source = order.source[1] /\ DOMAIN f = {"source", "cap", "sampled", "encoded"}
  BY <1>3
<1>6. g.cap = All /\ g.sampled = order.sampled /\ g.encoded = order.encoded /\ g.source = order.source[2]
  BY <1>4
<1>7. u.cap = All /\ u.sampled = order.sampled /\ u.encoded = order.encoded /\ u.source = order.source
  BY <1>4
<1>8. v.cap = All /\ v.sampled = f.sampled /\ v.encoded = f.encoded /\ v.source = f.source
  BY <1>4, <1>5
<1>. QED  BY <1>1, <1>2, <1>5, <1>6, <1>7, <1>8 DEF IsEncoded, f, g, u, v

(* One order is a sequence of orders.                                        *)
LEMMA OneIsEncoded ==
    ASSUME NEW e, IsEncoded(e)
    PROVE  AreEncoded(<<e>>) /\ Len(<<e>>) = 1 /\ <<e>>[1] = e
<1>1. <<e>> \in Seq({e})
  OBVIOUS
<1>2. <<e>> \in Seq(Range(<<e>>)) /\ \A i \in DOMAIN <<e>> : <<e>>[i] \in {e}
  BY <1>1, IsSeqOfRange
<1>. QED  BY <1>2 DEF AreEncoded

(* The encoded orders are records with these fields.                         *)
LEMMA EncodedFields ==
    ASSUME NEW q, IsQuote(q)
    PROVE  /\ \A i \in DOMAIN TwoHops(q) : IsEncoded(TwoHops(q)[i]) /\ DOMAIN TwoHops(q)[i] = {"source", "cap", "sampled", "encoded"}
           /\ \A i \in DOMAIN SingleHops(q) : IsEncoded(SingleHops(q)[i]) /\ DOMAIN SingleHops(q)[i] = {"source", "cap", "sampled", "encoded"}
<1>. DEFINE Fields == {"source", "cap", "sampled", "encoded"}
<1>1. \A order : DOMAIN EncodedOrder(q, order) = Fields
  BY DEF EncodedOrder
<1>2. ASSUME NEW kind PROVE \A i \in DOMAIN EncodedOrders(q, kind) : DOMAIN EncodedOrders(q, kind)[i] = Fields
  BY <1>1, EncodedOfKind
<1>. HIDE DEF Fields
<1>3. \A i \in DOMAIN SingleHops(q) : DOMAIN SingleHops(q)[i] = Fields
  <2>. DEFINE a == EncodedOrders(q, "native")
              b == EncodedOrders(q, "bridge")
  <2>1. AreEncoded(a) /\ AreEncoded(b)
    BY EncodedOfKind
  <2>2. (\A i \in DOMAIN a : DOMAIN a[i] = Fields) /\ (\A i \in DOMAIN b : DOMAIN b[i] = Fields)
    BY <1>2
  <2>3. a \in Seq(Range(a)) /\ b \in Seq(Range(b))
    BY <2>1 DEF AreEncoded
  <2>. HIDE DEF a, b
  <2>4. \A i \in DOMAIN (a \o b) : DOMAIN (a \o b)[i] = Fields
    BY <2>2, <2>3
  <2>. QED  BY <2>4 DEF SingleHops, a, b
<1>4. \A i \in DOMAIN TwoHops(q) : DOMAIN TwoHops(q)[i] = Fields
  BY <1>2 DEF TwoHops
<1>5. AreEncoded(SingleHops(q)) /\ AreEncoded(TwoHops(q))
  BY HopsAreEncoded
<1>. QED  BY <1>3, <1>4, <1>5 DEF AreEncoded, Fields

(* The steps of a two-hop are fills.                                         *)
LEMMA HopsAreFills ==
    ASSUME NEW q, IsQuote(q), NEW o, NEW i \in DOMAIN TwoHops(q)
    PROVE  IsFillStep(FirstStep(q, o, TwoHops(q)[i])) /\ IsFillStep(SecondStep(TwoHops(q)[i]))
<1>. DEFINE order == TwoHops(q)[i]
            a == FirstStep(q, o, order)
            b == SecondStep(order)
<1>1. IsEncoded(order) /\ DOMAIN order = {"source", "cap", "sampled", "encoded"}
  BY EncodedFields
<1>. HIDE DEF order
<1>2. IsEncoded(FirstHop(order)) /\ IsEncoded(SecondHop(order))
  BY <1>1, HopIsEncoded
<1>3. AreEncoded(<<FirstHop(order)>>) /\ AreEncoded(<<SecondHop(order)>>)
  BY <1>2, OneIsEncoded
<1>4. order.cap \in Int \cup {All}
  BY <1>1 DEF IsEncoded
<1>5. IsFillStep(a)
  BY <1>3, <1>4 DEF IsFillStep, FirstStep, Fill, CurrencyTokens
<1>6. IsFillStep(b)
  BY <1>3 DEF IsFillStep, SecondStep, Fill, CurrencyTokens
<1>. QED  BY <1>5, <1>6 DEF order

(* Two steps, one after the other.                                           *)
LEMMA TwoInARow == ASSUME NEW x, NEW y PROVE <<x>> \o <<y>> = <<x, y>>
<1>. DEFINE S == {x, y}
            a == <<x>>
            b == <<y>>
            u == a \o b
            v == <<x, y>>
<1>1. a \in Seq(S) /\ b \in Seq(S) /\ v \in Seq(S)
  OBVIOUS
<1>2. Len(a) = 1 /\ Len(b) = 1 /\ Len(v) = 2 /\ a[1] = x /\ b[1] = y /\ v[1] = x /\ v[2] = y
  OBVIOUS
<1>. HIDE DEF S, a, b, v
<1>3. u \in Seq(S) /\ Len(u) = 2 /\ u[1] = x /\ u[2] = y
  <2>1. /\ u \in Seq(S) /\ Len(u) = Len(a) + Len(b)
        /\ \A i \in 1 .. Len(a) + Len(b) : u[i] = IF i <= Len(a) THEN a[i] ELSE b[i - Len(a)]
    BY <1>1, ConcatProperties
  <2>. HIDE DEF u
  <2>2. 1 \in 1 .. Len(a) + Len(b) /\ 1 <= Len(a) /\ 2 \in 1 .. Len(a) + Len(b) /\ ~ (2 <= Len(a)) /\ 2 - Len(a) = 1
    BY <1>2
  <2>. QED  BY <1>2, <2>1, <2>2
<1>. HIDE DEF u
<1>4. \A i \in 1 .. Len(u) : u[i] = v[i]
  BY <1>2, <1>3
<1>5. u = v
  BY <1>1, <1>2, <1>3, <1>4, SeqEqual
<1>. QED  BY <1>5 DEF u, v, a, b

HopSteps(q, o) ==
    {FirstStep(q, o, TwoHops(q)[i]) : i \in DOMAIN TwoHops(q)} \cup {SecondStep(TwoHops(q)[i]) : i \in DOMAIN TwoHops(q)}

AfterHops(worst, state, q, o, n) == Run(worst, state, HopsUpTo(q, o, n))

(* Two-hops are done one after the other, each in its two steps.             *)
LEMMA RunOfHops ==
    ASSUME NEW q, IsQuote(q), NEW o, NEW worst, NEW state
    PROVE  /\ \A n \in 0 .. Len(TwoHops(q)) : HopsUpTo(q, o, n) \in Seq(HopSteps(q, o))
           /\ AfterHops(worst, state, q, o, 0) = state
           /\ \A n \in 1 .. Len(TwoHops(q)) :
                  AfterHops(worst, state, q, o, n) =
                  Do(worst, Do(worst, AfterHops(worst, state, q, o, n - 1), FirstStep(q, o, TwoHops(q)[n])), SecondStep(TwoHops(q)[n]))
<1>. DEFINE len == Len(TwoHops(q))
            first(n) == FirstStep(q, o, TwoHops(q)[n])
            second(n) == SecondStep(TwoHops(q)[n])
            S == HopSteps(q, o)
            up(n) == HopsUpTo(q, o, n)
            T == {n \in Nat : n <= len => up(n) \in Seq(S)}
<1>1. DOMAIN TwoHops(q) = 1 .. len /\ len \in Nat
  BY HopsAreEncoded DEF AreEncoded
<1>2. up(0) = <<>> /\ \A n \in 1 .. len : up(n) = up(n - 1) \o <<first(n), second(n)>>
  BY <1>1, HopsInTurn DEF HopsOf
<1>3. \A n \in 1 .. len : first(n) \in S /\ second(n) \in S
  BY <1>1 DEF HopSteps
<1>. HIDE DEF len, first, second, S, up
<1>4. \A n \in Nat : n \in T
  <2>1. 0 \in T
    <3>1. <<>> \in Seq(S)
      OBVIOUS
    <3>. QED  BY <1>2, <3>1
  <2>2. ASSUME NEW n \in Nat, n \in T PROVE n + 1 \in T
    <3>. SUFFICES ASSUME n + 1 <= len PROVE up(n + 1) \in Seq(S)
      OBVIOUS
    <3>1. n + 1 \in 1 .. len /\ (n + 1) - 1 = n /\ up(n) \in Seq(S)
      BY <1>1, <2>2
    <3>2. <<first(n + 1), second(n + 1)>> \in Seq(S)
      BY <1>3, <3>1
    <3>3. up(n) \o <<first(n + 1), second(n + 1)>> \in Seq(S)
      BY <3>1, <3>2, ConcatProperties
    <3>. QED  BY <1>2, <3>1, <3>3
  <2>. HIDE DEF T
  <2>. QED  BY <2>1, <2>2, SetInduction
<1>5. \A n \in 0 .. len : up(n) \in Seq(S)
  BY <1>1, <1>4
<1>6. Run(worst, state, up(0)) = state
  BY <1>2, RunOfOne
<1>7. ASSUME NEW n \in 1 .. len
      PROVE  Run(worst, state, up(n)) = Do(worst, Do(worst, Run(worst, state, up(n - 1)), first(n)), second(n))
  <2>. DEFINE a == <<first(n)>>
              b == <<second(n)>>
              before == Run(worst, state, up(n - 1))
  <2>1. a \in Seq(S) /\ b \in Seq(S) /\ up(n - 1) \in Seq(S) /\ a \o b = <<first(n), second(n)>>
    <3>1. first(n) \in S /\ second(n) \in S /\ n - 1 \in 0 .. len
      BY <1>1, <1>3
    <3>2. <<first(n)>> \in Seq(S) /\ <<second(n)>> \in Seq(S)
      BY <3>1
    <3>3. <<first(n)>> \o <<second(n)>> = <<first(n), second(n)>>
      BY TwoInARow
    <3>. QED  BY <1>5, <3>1, <3>2, <3>3
  <2>2. up(n) = up(n - 1) \o (a \o b) /\ a \o b \in Seq(S)
    BY <1>2, <2>1, ConcatProperties
  <2>. HIDE DEF a, b, before
  <2>3. Run(worst, state, up(n)) = Run(worst, before, a \o b)
    <3>. DEFINE c == up(n - 1)
                d == a \o b
    <3>1. c \in Seq(S) /\ d \in Seq(S) /\ up(n) = c \o d
      BY <2>1, <2>2
    <3>. HIDE DEF c, d
    <3>2. Run(worst, state, c \o d) = Run(worst, Run(worst, state, c), d)
      BY <3>1, RunOfBoth
    <3>. QED  BY <3>1, <3>2 DEF before, c, d
  <2>4. Run(worst, before, a \o b) = Run(worst, Run(worst, before, a), b)
    <3>1. a \in Seq(S) /\ b \in Seq(S)
      BY <2>1
    <3>. QED  BY <3>1, RunOfBoth
  <2>5. Run(worst, before, a) = Do(worst, before, first(n))
    BY RunOfOne DEF a
  <2>6. \A x : Run(worst, x, b) = Do(worst, x, second(n))
    BY RunOfOne DEF b
  <2>. QED  BY <2>3, <2>4, <2>5, <2>6 DEF before
<1>. QED  BY <1>5, <1>6, <1>7 DEF AfterHops, len, first, second, S, up

\* The states of a transformation, part by part.
AfterSellFee(worst, state, o) == Run(worst, state, SellFeeSteps(o))
AfterWrap(worst, state, q, o) == Run(worst, AfterSellFee(worst, state, o), WrapSteps(q, o))
AfterTwoHops(worst, state, q, o) == AfterHops(worst, AfterWrap(worst, state, q, o), q, o, Len(TwoHops(q)))
AfterSingles(worst, state, q, o) == Run(worst, AfterTwoHops(worst, state, q, o), createNonTwoHopTransformation(q, o))
AfterUnwrap(worst, state, q, o) == Run(worst, AfterSingles(worst, state, q, o), UnwrapSteps(o))
AfterFee(worst, state, q, o) == Run(worst, AfterUnwrap(worst, state, q, o), BuyFeeSteps(o))
AfterSurplus(worst, state, q, o) == Run(worst, AfterFee(worst, state, q, o), SurplusSteps(q, o))
AfterReturn(worst, state, q, o) == Do(worst, AfterSurplus(worst, state, q, o), createPayTakerTransformation(q, o))

\* What the two-hops take of the amount of the request.
HopAmount(side, order) == IF side = "sell" THEN order.sampled.takes ELSE order.sampled.gives
HopAmountUpTo(q, n) == HopAmounts!Fold(<<q.side, TwoHops(q)>>, 0, 1 .. n)

(* getNonTwoHopFillAmount takes off one after the other.                     *)
LEMMA HopAmountsInTurn ==
    ASSUME NEW q, IsQuote(q)
    PROVE  /\ getNonTwoHopFillAmount(q) = q.amount - HopAmountUpTo(q, Len(TwoHops(q)))
           /\ HopAmountUpTo(q, 0) = 0
           /\ \A n \in 1 .. Len(TwoHops(q)) :
                  HopAmountUpTo(q, n) = HopAmountUpTo(q, n - 1) + HopAmount(q.side, TwoHops(q)[n])
           /\ \A n \in 0 .. Len(TwoHops(q)) : HopAmountUpTo(q, n) \in Nat
           /\ getNonTwoHopFillAmount(q) \in Int
<1>. DEFINE hops == TwoHops(q)
            len == Len(hops)
            c == <<q.side, hops>>
            up(n) == HopAmountUpTo(q, n)
            T == {n \in Nat : n <= len => up(n) \in Nat}
<1>1. DOMAIN hops = 1 .. len /\ len \in Nat /\ \A i \in DOMAIN hops : IsEncoded(hops[i])
  BY HopsAreEncoded DEF AreEncoded
<1>2. getNonTwoHopFillAmount(q) = q.amount - HopAmounts!Fold(c, 0, DOMAIN hops)
  BY DEF getNonTwoHopFillAmount, FoldLeft, MapThenFoldSet, HopAmounts!Fold, HopAmounts!AreFolds, NextHopAmount
<1>3. c[1] = q.side /\ c[2] = hops
  OBVIOUS
<1>4. \A n : up(n) = HopAmounts!Fold(c, 0, 1 .. n)
  BY DEF HopAmountUpTo
<1>. HIDE DEF c, hops, len, up
<1>5. /\ HopAmounts!Fold(c, 0, 1 .. 0) = 0
      /\ \A n \in 1 .. len : HopAmounts!Fold(c, 0, 1 .. n) = NextHopAmount(c, n, HopAmounts!Fold(c, 0, 1 .. (n - 1)))
  BY <1>1, InTurn, HopAmounts!FoldInTurn DEF HopAmounts!HasMinima, HopAmounts!Chooses
<1>6. up(0) = 0 /\ \A n \in 1 .. len : up(n) = up(n - 1) + HopAmount(q.side, hops[n])
  BY <1>3, <1>4, <1>5 DEF NextHopAmount, HopAmount
<1>7. \A n \in 1 .. len : HopAmount(q.side, hops[n]) \in Nat
  BY <1>1 DEF HopAmount, IsEncoded, Rates
<1>8. \A n \in Nat : n \in T
  <2>1. 0 \in T
    BY <1>6
  <2>2. ASSUME NEW n \in Nat, n \in T PROVE n + 1 \in T
    <3>. SUFFICES ASSUME n + 1 <= len PROVE up(n + 1) \in Nat
      OBVIOUS
    <3>1. n + 1 \in 1 .. len /\ (n + 1) - 1 = n /\ up(n) \in Nat
      BY <1>1, <2>2
    <3>. QED  BY <1>6, <1>7, <3>1
  <2>. HIDE DEF T
  <2>. QED  BY <2>1, <2>2, SetInduction
<1>9. \A n \in 0 .. len : up(n) \in Nat
  BY <1>1, <1>8
<1>10. q.amount \in Nat /\ len \in 0 .. len
  BY <1>1 DEF IsQuote
<1>11. getNonTwoHopFillAmount(q) = q.amount - up(len)
  BY <1>1, <1>2, <1>4
<1>12. getNonTwoHopFillAmount(q) \in Int
  BY <1>9, <1>10, <1>11
<1>. QED  BY <1>6, <1>9, <1>11, <1>12 DEF hops, len, up

(* The steps of the parts of a transformation are steps.                     *)
LEMMA PartsAreSteps ==
    ASSUME NEW q, IsQuote(q), NEW o, AreOptions(o)
    PROVE  /\ IsFeeStep(PayFee(InToken(o), SellFeeAmount(o)))
           /\ IsConvertStep(Convert("eth", "sell", IF o.entire THEN All ELSE TransformedAmount(q, o)))
           /\ IsConvertStep(Convert("buy", "eth", All))
           /\ IsFillStep(Fill("sell", "buy", q.side, IF WholeBalance(q, o) THEN All ELSE getNonTwoHopFillAmount(q), SingleHops(q)))
           /\ IsFeeStep(PayFee(OutToken(o), o.buyFee))
           /\ IsSurplusStep(TakeSurplus(OutToken(o), Larger(q.info.best.maker + o.surplusCost, q.info.best.maker)))
           /\ IsReturnStep(createPayTakerTransformation(q, o))
<1>1. q.info.best.maker \in Nat /\ q.info.best.taker \in Nat /\ q.info.worst.taker \in Nat /\ o.buyFee \in Nat /\ o.surplusCost \in Nat
  BY DEF IsQuote, IsInfo, AreOptions
<1>2. TransformedAmount(q, o) \in Int
  <2>1. sellAmount(q) \in Nat
    BY <1>1 DEF sellAmount, Larger
  <2>2. SellFeeAmount(o) \in Nat
    BY DEF AreOptions
  <2>. QED  BY <2>1, <2>2 DEF TransformedAmount
<1>3. getNonTwoHopFillAmount(q) \in Int
  BY HopAmountsInTurn
<1>4. OutToken(o) \in CurrencyTokens /\ InToken(o) \in CurrencyTokens
  BY DEF OutToken, InToken, CurrencyTokens
<1>4a. IsFeeStep(PayFee(InToken(o), SellFeeAmount(o)))
  BY <1>4 DEF IsFeeStep, PayFee, AreOptions
<1>5. IsConvertStep(Convert("eth", "sell", IF o.entire THEN All ELSE TransformedAmount(q, o)))
  BY <1>2 DEF Convert, IsConvertStep, CurrencyTokens
<1>6. IsConvertStep(Convert("buy", "eth", All))
  BY DEF Convert, IsConvertStep, CurrencyTokens
<1>7. IsFillStep(Fill("sell", "buy", q.side, IF WholeBalance(q, o) THEN All ELSE getNonTwoHopFillAmount(q), SingleHops(q)))
  BY <1>3, HopsAreEncoded DEF Fill, IsFillStep, CurrencyTokens
<1>8. IsFeeStep(PayFee(OutToken(o), o.buyFee))
  BY <1>1, <1>4 DEF IsFeeStep, PayFee
<1>9. IsSurplusStep(TakeSurplus(OutToken(o), Larger(q.info.best.maker + o.surplusCost, q.info.best.maker)))
  BY <1>1, <1>4 DEF IsSurplusStep, TakeSurplus, Larger
<1>10. IsReturnStep(createPayTakerTransformation(q, o))
  BY DEF IsReturnStep, createPayTakerTransformation, Return
<1>. QED  BY <1>4a, <1>5, <1>6, <1>7, <1>8, <1>9, <1>10

(* The parts of a transformation, but for the two-hops, are a step or none.  *)
LEMMA PartsAreSequences ==
    ASSUME NEW q, NEW o
    PROVE  /\ SellFeeSteps(o) \in Seq(Range(SellFeeSteps(o)))
           /\ WrapSteps(q, o) \in Seq(Range(WrapSteps(q, o)))
           /\ createNonTwoHopTransformation(q, o) \in Seq(Range(createNonTwoHopTransformation(q, o)))
           /\ UnwrapSteps(o) \in Seq(Range(UnwrapSteps(o)))
           /\ BuyFeeSteps(o) \in Seq(Range(BuyFeeSteps(o)))
           /\ SurplusSteps(q, o) \in Seq(Range(SurplusSteps(q, o)))
<1>1. \A y, s : s \in {<<>>, <<y>>} => s \in Seq(Range(s))
  <2>. SUFFICES ASSUME NEW y, NEW s, s \in {<<>>, <<y>>}  PROVE  s \in Seq(Range(s))
    OBVIOUS
  <2>1. s \in Seq({y})
    <3>1. <<y>> \in Seq({y}) /\ <<>> \in Seq({y})
      OBVIOUS
    <3>. QED  BY <3>1
  <2>. QED  BY <2>1, IsSeqOfRange
<1>1a. SellFeeSteps(o) \in Seq(Range(SellFeeSteps(o)))
  BY <1>1 DEF SellFeeSteps
<1>2. WrapSteps(q, o) \in Seq(Range(WrapSteps(q, o)))
  BY <1>1 DEF WrapSteps
<1>3. createNonTwoHopTransformation(q, o) \in Seq(Range(createNonTwoHopTransformation(q, o)))
  BY <1>1 DEF createNonTwoHopTransformation
<1>4. UnwrapSteps(o) \in Seq(Range(UnwrapSteps(o)))
  BY <1>1 DEF UnwrapSteps
<1>5. BuyFeeSteps(o) \in Seq(Range(BuyFeeSteps(o)))
  BY <1>1 DEF BuyFeeSteps
<1>6. SurplusSteps(q, o) \in Seq(Range(SurplusSteps(q, o)))
  BY <1>1 DEF SurplusSteps
<1>. QED  BY <1>1a, <1>2, <1>3, <1>4, <1>5, <1>6

(* A transformation is done part by part.                                    *)
LEMMA RunOfTransform ==
    ASSUME NEW q, IsQuote(q), NEW o, AreOptions(o), NEW worst, NEW state
    PROVE  /\ TransformSteps(q, o) \in Seq(Range(TransformSteps(q, o)))
           /\ Run(worst, state, TransformSteps(q, o)) = AfterReturn(worst, state, q, o)
<1>. DEFINE g == SellFeeSteps(o)
            w == WrapSteps(q, o)
            h == createTwoHopTransformations(q, o)
            n == createNonTwoHopTransformation(q, o)
            u == UnwrapSteps(o)
            f == BuyFeeSteps(o)
            p == SurplusSteps(q, o)
            x == createPayTakerTransformation(q, o)
            r == <<x>>
            len == Len(TwoHops(q))
            S == Range(g) \cup Range(w) \cup HopSteps(q, o) \cup Range(n) \cup Range(u) \cup Range(f) \cup Range(p) \cup {x}
<1>1. TransformSteps(q, o) = (((((((g \o w) \o h) \o n) \o u) \o f) \o p) \o r)
  BY DEF TransformSteps
<1>2. g \in Seq(S) /\ w \in Seq(S) /\ n \in Seq(S) /\ u \in Seq(S) /\ f \in Seq(S) /\ p \in Seq(S)
  <2>1. /\ g \in Seq(Range(g)) /\ w \in Seq(Range(w)) /\ n \in Seq(Range(n))
        /\ u \in Seq(Range(u)) /\ f \in Seq(Range(f)) /\ p \in Seq(Range(p))
    BY PartsAreSequences
  <2>. HIDE DEF g, w, n, u, f, p
  <2>7. Range(g) \subseteq S /\ Range(w) \subseteq S /\ Range(n) \subseteq S /\ Range(u) \subseteq S /\ Range(f) \subseteq S /\ Range(p) \subseteq S
    OBVIOUS
  <2>. HIDE DEF S
  <2>. QED  BY <2>1, <2>7, SeqMonotonic
<1>3. h \in Seq(S) /\ h = HopsUpTo(q, o, len)
  <2>0. h = HopsUpTo(q, o, len)
    BY HopsInTurn
  <2>1. len \in Nat
    <3>. DEFINE T == TwoHops(q)
    <3>1. AreEncoded(T)
      BY HopsAreEncoded
    <3>. HIDE DEF T
    <3>2. Len(T) \in Nat
      BY <3>1, LenProperties DEF AreEncoded
    <3>. QED  BY <3>2 DEF T
  <2>2. HopsUpTo(q, o, len) \in Seq(HopSteps(q, o))
    <3>1. len \in 0 .. len
      BY <2>1
    <3>. QED  BY <3>1, RunOfHops
  <2>3. HopSteps(q, o) \subseteq S
    OBVIOUS
  <2>. HIDE DEF h, S, len
  <2>. QED  BY <2>0, <2>1, <2>2, <2>3, SeqMonotonic
<1>4. r \in Seq(S)
  <2>1. x \in S
    OBVIOUS
  <2>. HIDE DEF x, S
  <2>. QED  BY <2>1
<1>. HIDE DEF g, w, h, n, u, f, p, x, r, S, len
<1>. DEFINE a1 == g \o w
            a2 == a1 \o h
            a3 == a2 \o n
            a4 == a3 \o u
            a5 == a4 \o f
            a6 == a5 \o p
            a7 == a6 \o r
<1>6. a1 \in Seq(S) /\ Run(worst, state, a1) = AfterWrap(worst, state, q, o)
  <2>1. a1 \in Seq(S)
    BY <1>2, ConcatProperties
  <2>2. Run(worst, state, a1) = Run(worst, Run(worst, state, g), w)
    BY <1>2, RunOfBoth
  <2>. QED  BY <2>1, <2>2 DEF AfterWrap, AfterSellFee, g, w
<1>. HIDE DEF a1
<1>7. a2 \in Seq(S) /\ Run(worst, state, a2) = AfterTwoHops(worst, state, q, o)
  <2>1. a2 \in Seq(S)
    BY <1>3, <1>6, ConcatProperties
  <2>2. Run(worst, state, a2) = Run(worst, Run(worst, state, a1), h)
    BY <1>3, <1>6, RunOfBoth
  <2>. QED  BY <1>3, <1>6, <2>1, <2>2 DEF AfterTwoHops, AfterHops, len
<1>. HIDE DEF a2
<1>8. a3 \in Seq(S) /\ Run(worst, state, a3) = AfterSingles(worst, state, q, o)
  <2>1. a3 \in Seq(S)
    BY <1>2, <1>7, ConcatProperties
  <2>2. Run(worst, state, a3) = Run(worst, Run(worst, state, a2), n)
    BY <1>2, <1>7, RunOfBoth
  <2>. QED  BY <1>7, <2>1, <2>2 DEF AfterSingles, n
<1>. HIDE DEF a3
<1>9. a4 \in Seq(S) /\ Run(worst, state, a4) = AfterUnwrap(worst, state, q, o)
  <2>1. a4 \in Seq(S)
    BY <1>2, <1>8, ConcatProperties
  <2>2. Run(worst, state, a4) = Run(worst, Run(worst, state, a3), u)
    BY <1>2, <1>8, RunOfBoth
  <2>. QED  BY <1>8, <2>1, <2>2 DEF AfterUnwrap, u
<1>. HIDE DEF a4
<1>10. a5 \in Seq(S) /\ Run(worst, state, a5) = AfterFee(worst, state, q, o)
  <2>1. a5 \in Seq(S)
    BY <1>2, <1>9, ConcatProperties
  <2>2. Run(worst, state, a5) = Run(worst, Run(worst, state, a4), f)
    BY <1>2, <1>9, RunOfBoth
  <2>. QED  BY <1>9, <2>1, <2>2 DEF AfterFee, f
<1>. HIDE DEF a5
<1>11. a6 \in Seq(S) /\ Run(worst, state, a6) = AfterSurplus(worst, state, q, o)
  <2>1. a6 \in Seq(S)
    BY <1>2, <1>10, ConcatProperties
  <2>2. Run(worst, state, a6) = Run(worst, Run(worst, state, a5), p)
    BY <1>2, <1>10, RunOfBoth
  <2>. QED  BY <1>10, <2>1, <2>2 DEF AfterSurplus, p
<1>. HIDE DEF a6
<1>12. a7 \in Seq(S) /\ Run(worst, state, a7) = AfterReturn(worst, state, q, o)
  <2>1. a7 \in Seq(S)
    BY <1>4, <1>11, ConcatProperties
  <2>2. Run(worst, state, a7) = Run(worst, Run(worst, state, a6), r)
    BY <1>4, <1>11, RunOfBoth
  <2>3. Run(worst, Run(worst, state, a6), r) = Do(worst, Run(worst, state, a6), x)
    BY RunOfOne DEF r
  <2>. QED  BY <1>11, <2>1, <2>2, <2>3 DEF AfterReturn, x
<1>13. TransformSteps(q, o) = a7
  BY <1>1 DEF a1, a2, a3, a4, a5, a6, a7
<1>14. a7 \in Seq(Range(a7))
  <2>. HIDE DEF a7
  <2>. QED  BY <1>12, IsSeqOfRange
<1>. QED  BY <1>12, <1>13, <1>14

(* The feature that is chosen fits, and the ones that are cheap have no fee  *)
(* to pay.                                                                   *)
LEMMA FeatureFits ==
    ASSUME NEW q, NEW o
    PROVE  /\ Feature(q, o) \in {"uniswapV2", "uniswapV3", "pancake", "curve", "rfq", "otc",
                                 "multiplexBatch", "multiplexMultiHop", "transformERC20"}
           /\ Compatible(Feature(q, o), q, o)
           /\ Feature(q, o) # "transformERC20" => ~ requiresTransformERC20(o)
<1>. DEFINE I == {i \in DOMAIN Features : Compatible(Features[i], q, o)}
            f == Feature(q, o)
<1>1. DOMAIN Features = 1 .. 9 /\ Features[9] = "transformERC20"
  BY DEF Features
<1>2. Compatible("transformERC20", q, o)
  BY DEF Compatible
<1>3. 9 \in I /\ I \subseteq 1 .. 9
  <2>. HIDE DEF I
  <2>1. 9 \in DOMAIN Features
    BY <1>1
  <2>. QED  BY <1>1, <1>2, <2>1 DEF I
<1>4. IsFiniteSet(I)
  <2>. DEFINE N == 1 .. 9
  <2>0. I \subseteq N
    BY <1>3
  <2>1. IsFiniteSet(N)
    <3>1. 1 \in Int /\ 9 \in Int
      OBVIOUS
    <3>. QED  BY <3>1, FS_Interval
  <2>. HIDE DEF I, N
  <2>. QED  BY <2>0, <2>1, FS_Subset
<1>5. Min(I) \in I
  <2>. HIDE DEF I
  <2>1. I \subseteq Int /\ I # {}
    BY <1>3
  <2>. QED  BY <2>1, <1>4, HasMin
<1>6. f = Features[Min(I)]
  BY DEF Feature
<1>. DEFINE m == Min(I)
<1>7. m \in 1 .. 9 /\ Compatible(Features[m], q, o)
  BY <1>1, <1>5
<1>. HIDE DEF m, f, I
<1>8. f = Features[m]
  BY <1>6 DEF m
<1>9. f \in {"uniswapV2", "uniswapV3", "pancake", "curve", "rfq", "otc",
             "multiplexBatch", "multiplexMultiHop", "transformERC20"}
  BY <1>7, <1>8 DEF Features
<1>10. Compatible(f, q, o)
  BY <1>7, <1>8
<1>11. f # "transformERC20" => ~ requiresTransformERC20(o)
  BY <1>9, <1>10 DEF Compatible, isDirectSwapCompatible, isMultiplexBatchFillCompatible, isMultiplexMultiHopFillCompatible
<1>. QED  BY <1>9, <1>10, <1>11 DEF f

(* A transaction that has not failed has not failed before.                  *)
LEMMA OkBefore ==
    ASSUME NEW worst, NEW state, NEW S, NEW steps \in Seq(S), Run(worst, state, steps).ok
    PROVE  state.ok
<1>1. ~ state.ok => Run(worst, state, steps) = state
  BY FailureStays
<1>. QED  BY <1>1

(* The parts of a transformation one by one.  Fees in the sold token.        *)
LEMMA SellFeeIsPaid ==
    ASSUME NEW q, IsQuote(q), NEW o, AreOptions(o), NEW worst, NEW state \in Positions,
           Run(worst, state, SellFeeSteps(o)).ok
    PROVE  LET e == Run(worst, state, SellFeeSteps(o))
               paid(t) == IF t = InToken(o) THEN SellFeeAmount(o) ELSE 0
           IN /\ state.ok /\ e \in Positions /\ e.back = state.back
              /\ \A t \in CurrencyTokens : e.held[t] = state.held[t] - paid(t) /\ e.fees[t] = state.fees[t] + paid(t)
<1>. DEFINE step == PayFee(InToken(o), SellFeeAmount(o))
            part == SellFeeSteps(o)
            e == Run(worst, state, part)
<1>1. part \in {<<>>, <<step>>} /\ (part = <<>> => SellFeeAmount(o) = 0)
  BY DEF SellFeeSteps, AreOptions
<1>2. IsFeeStep(step) /\ step.token = InToken(o) /\ step.amount = SellFeeAmount(o)
  BY PartsAreSteps DEF PayFee
<1>. HIDE DEF step, part
<1>3. state.ok /\ (part = <<>> => e = state) /\ (part = <<step>> => e = Do(worst, state, step))
  <2>1. Run(worst, state, part).ok
    BY DEF part
  <2>2. /\ part \in Seq({step})
        /\ (part = <<>> /\ e = state) \/ (part = <<step>> /\ e = Do(worst, state, step))
    <3>1. part \in {<<>>, <<step>>}
      BY <1>1
    <3>2. Run(worst, state, <<>>) = state /\ Run(worst, state, <<step>>) = Do(worst, state, step)
      BY RunOfOne
    <3>3. <<step>> \in Seq({step}) /\ <<>> \in Seq({step})
      OBVIOUS
    <3>. QED  BY <3>1, <3>2, <3>3
  <2>3. state.ok
    BY <2>1, <2>2, OkBefore
  <2>4. <<step>> # <<>>
    OBVIOUS
  <2>. HIDE DEF e
  <2>. QED  BY <2>2, <2>3, <2>4
<1>4. state.held \in [CurrencyTokens -> Int] /\ state.fees \in [CurrencyTokens -> Int] /\ SellFeeAmount(o) \in Nat
  BY DEF Positions, Balances, AreOptions
<1>. HIDE DEF e
<1>5. CASE part = <<>>
  BY <1>1, <1>3, <1>4, <1>5 DEF e, part
<1>6. CASE part = <<step>>
  <2>. DEFINE d == Do(worst, state, step)
  <2>0. state.ok /\ e = d
    BY <1>3, <1>6
  <2>1. /\ d \in Positions /\ d.back = state.back
        /\ \A t \in CurrencyTokens :
              /\ d.held[t] = IF t = step.token THEN state.held[t] - step.amount ELSE state.held[t]
              /\ d.fees[t] = IF t = step.token THEN state.fees[t] + step.amount ELSE state.fees[t]
        /\ d.ok <=> \A t \in CurrencyTokens : d.held[t] >= 0
    <3>1. IsFeeStep(step)
      BY <1>2
    <3>. HIDE DEF step
    <3>. QED  BY <3>1, <2>0, FeeIsDone
  <2>2. \A t \in CurrencyTokens : state.held[t] \in Int /\ state.fees[t] \in Int
    BY <1>4
  <2>. HIDE DEF d
  <2>. QED  BY <2>0, <1>2, <1>3, <1>4, <2>1, <2>2 DEF e, part
<1>. QED  BY <1>1, <1>5, <1>6

(* The native token is wrapped.                                              *)
LEMMA EthIsWrapped ==
    ASSUME NEW q, IsQuote(q), NEW o, AreOptions(o), NEW worst, NEW state \in Positions,
           Run(worst, state, WrapSteps(q, o)).ok
    PROVE  LET e == Run(worst, state, WrapSteps(q, o))
               asked == IF o.entire THEN All ELSE TransformedAmount(q, o)
               moved == IF InToken(o) = "sell" THEN 0 ELSE IF asked = All THEN state.held["eth"] ELSE asked
           IN /\ state.ok /\ e \in Positions /\ e.fees = state.fees /\ e.back = state.back /\ moved \in Int
              /\ \A t \in CurrencyTokens :
                     e.held[t] = IF t = "eth" THEN state.held[t] - moved
                                 ELSE IF t = "sell" THEN state.held[t] + moved ELSE state.held[t]
<1>. DEFINE asked == IF o.entire THEN All ELSE TransformedAmount(q, o)
            moved == IF InToken(o) = "sell" THEN 0 ELSE IF asked = All THEN state.held["eth"] ELSE asked
            step == Convert("eth", "sell", asked)
            part == WrapSteps(q, o)
            e == Run(worst, state, part)
<1>1. part \in {<<>>, <<step>>} /\ (part = <<>> => InToken(o) = "sell") /\ (part # <<>> => InToken(o) # "sell")
  BY DEF WrapSteps
<1>2. IsConvertStep(step) /\ step.from = "eth" /\ step.to = "sell" /\ step.amount = asked
  BY PartsAreSteps DEF Convert
<1>. HIDE DEF step, part, asked
<1>3. state.ok /\ (part = <<>> => e = state) /\ (part = <<step>> => e = Do(worst, state, step))
  <2>1. Run(worst, state, part).ok
    BY DEF part
  <2>2. /\ part \in Seq({step})
        /\ (part = <<>> /\ e = state) \/ (part = <<step>> /\ e = Do(worst, state, step))
    <3>1. part \in {<<>>, <<step>>}
      BY <1>1
    <3>2. Run(worst, state, <<>>) = state /\ Run(worst, state, <<step>>) = Do(worst, state, step)
      BY RunOfOne
    <3>3. <<step>> \in Seq({step}) /\ <<>> \in Seq({step})
      OBVIOUS
    <3>. QED  BY <3>1, <3>2, <3>3
  <2>3. state.ok
    BY <2>1, <2>2, OkBefore
  <2>4. <<step>> # <<>>
    OBVIOUS
  <2>. HIDE DEF e
  <2>. QED  BY <2>2, <2>3, <2>4
<1>4. state.held \in [CurrencyTokens -> Int] /\ \A t \in CurrencyTokens : state.held[t] \in Int
  BY DEF Positions, Balances
<1>. HIDE DEF e
<1>5. CASE part = <<>>
  <2>1. moved = 0
    BY <1>1, <1>5
  <2>. HIDE DEF moved
  <2>2. \A t \in CurrencyTokens : e.held[t] = state.held[t]
    BY <1>3, <1>5
  <2>. QED  BY <1>3, <1>4, <1>5, <2>1, <2>2 DEF e, part, moved, asked
<1>6. CASE part = <<step>>
  <2>. DEFINE m == IF step.amount = All THEN state.held[step.from] ELSE step.amount
  <2>. DEFINE d == Do(worst, state, step)
  <2>0. state.ok /\ e = d
    BY <1>3, <1>6
  <2>1. /\ m \in Int
        /\ d \in Positions /\ d.fees = state.fees /\ d.back = state.back
        /\ \A t \in CurrencyTokens :
               d.held[t] = IF t = step.from THEN state.held[t] - m
                           ELSE IF t = step.to THEN state.held[t] + m ELSE state.held[t]
        /\ d.ok <=> \A t \in CurrencyTokens : d.held[t] >= 0
    <3>1. IsConvertStep(step)
      BY <1>2
    <3>. HIDE DEF step
    <3>. QED  BY <3>1, <2>0, ConvertIsDone
  <2>2. moved = m
    <3>1. InToken(o) # "sell"
      <4>1. <<step>> # <<>>
        OBVIOUS
      <4>. QED  BY <1>1, <1>6, <4>1
    <3>. QED  BY <1>2, <3>1
  <2>. HIDE DEF moved, m, d
  <2>. QED  BY <2>0, <1>2, <1>3, <2>1, <2>2 DEF e, part, moved, asked
<1>. QED  BY <1>1, <1>5, <1>6

(* What is bought is unwrapped.                                              *)
LEMMA WethIsUnwrapped ==
    ASSUME NEW q, IsQuote(q), NEW o, AreOptions(o), NEW worst, NEW state \in Positions,
           Run(worst, state, UnwrapSteps(o)).ok
    PROVE  LET e == Run(worst, state, UnwrapSteps(o))
               moved == IF OutToken(o) = "buy" THEN 0 ELSE state.held["buy"]
           IN /\ state.ok /\ e \in Positions /\ e.fees = state.fees /\ e.back = state.back
              /\ \A t \in CurrencyTokens :
                     e.held[t] = IF t = "buy" THEN state.held[t] - moved
                                 ELSE IF t = "eth" THEN state.held[t] + moved ELSE state.held[t]
<1>. DEFINE moved == IF OutToken(o) = "buy" THEN 0 ELSE state.held["buy"]
            step == Convert("buy", "eth", All)
            part == UnwrapSteps(o)
            e == Run(worst, state, part)
<1>1. part \in {<<>>, <<step>>} /\ (part = <<>> => OutToken(o) = "buy") /\ (part # <<>> => OutToken(o) # "buy")
  BY DEF UnwrapSteps
<1>2. IsConvertStep(step) /\ step.from = "buy" /\ step.to = "eth" /\ step.amount = All
  BY PartsAreSteps DEF Convert
<1>. HIDE DEF step, part
<1>3. state.ok /\ (part = <<>> => e = state) /\ (part = <<step>> => e = Do(worst, state, step))
  <2>1. Run(worst, state, part).ok
    BY DEF part
  <2>2. /\ part \in Seq({step})
        /\ (part = <<>> /\ e = state) \/ (part = <<step>> /\ e = Do(worst, state, step))
    <3>1. part \in {<<>>, <<step>>}
      BY <1>1
    <3>2. Run(worst, state, <<>>) = state /\ Run(worst, state, <<step>>) = Do(worst, state, step)
      BY RunOfOne
    <3>3. <<step>> \in Seq({step}) /\ <<>> \in Seq({step})
      OBVIOUS
    <3>. QED  BY <3>1, <3>2, <3>3
  <2>3. state.ok
    BY <2>1, <2>2, OkBefore
  <2>4. <<step>> # <<>>
    OBVIOUS
  <2>. HIDE DEF e
  <2>. QED  BY <2>2, <2>3, <2>4
<1>4. state.held \in [CurrencyTokens -> Int] /\ \A t \in CurrencyTokens : state.held[t] \in Int
  BY DEF Positions, Balances
<1>. HIDE DEF e
<1>5. CASE part = <<>>
  <2>1. moved = 0
    BY <1>1, <1>5
  <2>. HIDE DEF moved
  <2>2. \A t \in CurrencyTokens : e.held[t] = state.held[t]
    BY <1>3, <1>5
  <2>. QED  BY <1>3, <1>4, <1>5, <2>1, <2>2 DEF e, part, moved
<1>6. CASE part = <<step>>
  <2>. DEFINE m == IF step.amount = All THEN state.held[step.from] ELSE step.amount
  <2>. DEFINE d == Do(worst, state, step)
  <2>0. state.ok /\ e = d
    BY <1>3, <1>6
  <2>1. /\ m \in Int
        /\ d \in Positions /\ d.fees = state.fees /\ d.back = state.back
        /\ \A t \in CurrencyTokens :
               d.held[t] = IF t = step.from THEN state.held[t] - m
                           ELSE IF t = step.to THEN state.held[t] + m ELSE state.held[t]
        /\ d.ok <=> \A t \in CurrencyTokens : d.held[t] >= 0
    <3>1. IsConvertStep(step)
      BY <1>2
    <3>. HIDE DEF step
    <3>. QED  BY <3>1, <2>0, ConvertIsDone
  <2>2. moved = m
    <3>1. OutToken(o) # "buy"
      <4>1. <<step>> # <<>>
        OBVIOUS
      <4>. QED  BY <1>1, <1>6, <4>1
    <3>. QED  BY <1>2, <3>1
  <2>. HIDE DEF moved, m, d
  <2>. QED  BY <2>0, <1>2, <1>3, <2>1, <2>2 DEF e, part, moved
<1>. QED  BY <1>1, <1>5, <1>6

(* The affiliate is paid.                                                    *)
LEMMA BuyFeeIsPaid ==
    ASSUME NEW q, IsQuote(q), NEW o, AreOptions(o), NEW worst, NEW state \in Positions,
           Run(worst, state, BuyFeeSteps(o)).ok
    PROVE  LET e == Run(worst, state, BuyFeeSteps(o))
               paid(t) == IF t = OutToken(o) THEN o.buyFee ELSE 0
           IN /\ state.ok /\ e \in Positions /\ e.back = state.back
              /\ \A t \in CurrencyTokens : e.held[t] = state.held[t] - paid(t) /\ e.fees[t] = state.fees[t] + paid(t)
<1>. DEFINE step == PayFee(OutToken(o), o.buyFee)
            part == BuyFeeSteps(o)
            e == Run(worst, state, part)
<1>1. part \in {<<>>, <<step>>} /\ (part = <<>> => o.buyFee = 0)
  <2>1. o.buyFee \in Nat
    BY DEF AreOptions
  <2>2. <<step>> # <<>>
    OBVIOUS
  <2>3. part = IF o.buyFee > 0 THEN <<step>> ELSE <<>>
    BY DEF BuyFeeSteps
  <2>. HIDE DEF part, step
  <2>. QED  BY <2>1, <2>2, <2>3
<1>2. IsFeeStep(step) /\ step.token = OutToken(o) /\ step.amount = o.buyFee
  BY PartsAreSteps DEF PayFee
<1>. HIDE DEF step, part
<1>3. state.ok /\ (part = <<>> => e = state) /\ (part = <<step>> => e = Do(worst, state, step))
  <2>1. Run(worst, state, part).ok
    BY DEF part
  <2>2. /\ part \in Seq({step})
        /\ (part = <<>> /\ e = state) \/ (part = <<step>> /\ e = Do(worst, state, step))
    <3>1. part \in {<<>>, <<step>>}
      BY <1>1
    <3>2. Run(worst, state, <<>>) = state /\ Run(worst, state, <<step>>) = Do(worst, state, step)
      BY RunOfOne
    <3>3. <<step>> \in Seq({step}) /\ <<>> \in Seq({step})
      OBVIOUS
    <3>. QED  BY <3>1, <3>2, <3>3
  <2>3. state.ok
    BY <2>1, <2>2, OkBefore
  <2>4. <<step>> # <<>>
    OBVIOUS
  <2>. HIDE DEF e
  <2>. QED  BY <2>2, <2>3, <2>4
<1>4. state.held \in [CurrencyTokens -> Int] /\ state.fees \in [CurrencyTokens -> Int] /\ o.buyFee \in Nat
  BY DEF Positions, Balances, AreOptions
<1>. HIDE DEF e
<1>5. CASE part = <<>>
  BY <1>1, <1>3, <1>4, <1>5 DEF e, part
<1>6. CASE part = <<step>>
  <2>. DEFINE d == Do(worst, state, step)
  <2>0. state.ok /\ e = d
    BY <1>3, <1>6
  <2>1. /\ d \in Positions /\ d.back = state.back
        /\ \A t \in CurrencyTokens :
              /\ d.held[t] = IF t = step.token THEN state.held[t] - step.amount ELSE state.held[t]
              /\ d.fees[t] = IF t = step.token THEN state.fees[t] + step.amount ELSE state.fees[t]
        /\ d.ok <=> \A t \in CurrencyTokens : d.held[t] >= 0
    <3>1. IsFeeStep(step)
      BY <1>2
    <3>. HIDE DEF step
    <3>. QED  BY <3>1, <2>0, FeeIsDone
  <2>2. \A t \in CurrencyTokens : state.held[t] \in Int /\ state.fees[t] \in Int
    BY <1>4
  <2>. HIDE DEF d
  <2>. QED  BY <2>0, <1>2, <1>3, <1>4, <2>1, <2>2 DEF e, part
<1>. QED  BY <1>1, <1>5, <1>6

(* What is bought beyond the best case is taken.                             *)
LEMMA SurplusIsTaken ==
    ASSUME NEW q, IsQuote(q), NEW o, AreOptions(o), NEW worst, NEW state \in Positions,
           Run(worst, state, SurplusSteps(q, o)).ok
    PROVE  LET e == Run(worst, state, SurplusSteps(q, o))
               b == q.info.best.maker
               limit == Larger(b + o.surplusCost, b)
           IN /\ state.ok /\ e \in Positions /\ e.fees = state.fees /\ e.back = state.back /\ limit \in Nat /\ limit >= b
              /\ \A t \in CurrencyTokens :
                     e.held[t] = IF t = OutToken(o) /\ o.surplus THEN Smaller(state.held[t], limit) ELSE state.held[t]
<1>. DEFINE b == q.info.best.maker
            limit == Larger(b + o.surplusCost, b)
            step == TakeSurplus(OutToken(o), limit)
            part == SurplusSteps(q, o)
            e == Run(worst, state, part)
<1>0. limit \in Nat /\ limit >= b
  BY DEF Larger, AreOptions, IsQuote, IsInfo
<1>1. part \in {<<>>, <<step>>} /\ (part = <<>> => ~ o.surplus) /\ (part # <<>> => o.surplus)
  BY DEF SurplusSteps
<1>2. IsSurplusStep(step) /\ step.token = OutToken(o) /\ step.bestCase = limit
  BY PartsAreSteps DEF TakeSurplus
<1>. HIDE DEF step, part, limit
<1>3. state.ok /\ (part = <<>> => e = state) /\ (part = <<step>> => e = Do(worst, state, step))
  <2>1. Run(worst, state, part).ok
    BY DEF part
  <2>2. /\ part \in Seq({step})
        /\ (part = <<>> /\ e = state) \/ (part = <<step>> /\ e = Do(worst, state, step))
    <3>1. part \in {<<>>, <<step>>}
      BY <1>1
    <3>2. Run(worst, state, <<>>) = state /\ Run(worst, state, <<step>>) = Do(worst, state, step)
      BY RunOfOne
    <3>3. <<step>> \in Seq({step}) /\ <<>> \in Seq({step})
      OBVIOUS
    <3>. QED  BY <3>1, <3>2, <3>3
  <2>3. state.ok
    BY <2>1, <2>2, OkBefore
  <2>4. <<step>> # <<>>
    OBVIOUS
  <2>. HIDE DEF e
  <2>. QED  BY <2>2, <2>3, <2>4
<1>. HIDE DEF e
<1>5. CASE part = <<>>
  BY <1>0, <1>1, <1>3, <1>5 DEF e, part, limit
<1>6. CASE part = <<step>>
  <2>. DEFINE d == Do(worst, state, step)
  <2>0. state.ok /\ e = d
    BY <1>3, <1>6
  <2>1. /\ d \in Positions /\ d.fees = state.fees /\ d.back = state.back
        /\ \A t \in CurrencyTokens :
              d.held[t] = IF t = step.token THEN Smaller(state.held[t], step.bestCase) ELSE state.held[t]
        /\ d.ok <=> \A t \in CurrencyTokens : d.held[t] >= 0
    <3>1. IsSurplusStep(step)
      BY <1>2
    <3>. HIDE DEF step
    <3>. QED  BY <3>1, <2>0, SurplusIsDone
  <2>2. o.surplus
    <3>1. <<step>> # <<>>
      OBVIOUS
    <3>. QED  BY <1>1, <1>6, <3>1
  <2>. HIDE DEF d
  <2>. QED  BY <2>0, <1>0, <1>2, <1>3, <2>1, <2>2 DEF e, part, limit
<1>. QED  BY <1>1, <1>5, <1>6

\* Steps that pay nobody.
IsTradeStep(x) == IsFillStep(x) \/ IsConvertStep(x)
SamePayments(state) == {x \in Positions : x.fees = state.fees /\ x.back = state.back}

(* Trading leaves the payments alone.                                        *)
LEMMA TradesPayNobody ==
    ASSUME NEW worst, NEW state \in Positions, NEW S, NEW steps \in Seq(S), \A x \in S : IsTradeStep(x)
    PROVE  /\ Run(worst, state, steps) \in Positions
           /\ Run(worst, state, steps).fees = state.fees /\ Run(worst, state, steps).back = state.back
<1>. DEFINE P == SamePayments(state)
<1>1. state \in P
  BY DEF SamePayments
<1>2. ASSUME NEW x \in P, NEW step \in S PROVE Do(worst, x, step) \in P
  <2>1. x \in Positions /\ x.fees = state.fees /\ x.back = state.back
    BY DEF SamePayments
  <2>2. CASE ~ x.ok
    BY <2>2 DEF Do
  <2>3. CASE x.ok /\ IsFillStep(step)
    <3>1. Do(worst, x, step) \in Positions /\ Do(worst, x, step).fees = x.fees /\ Do(worst, x, step).back = x.back
      BY <2>1, <2>3, FillIsDone
    <3>. QED  BY <2>1, <3>1 DEF SamePayments
  <2>4. CASE x.ok /\ IsConvertStep(step)
    <3>1. Do(worst, x, step) \in Positions /\ Do(worst, x, step).fees = x.fees /\ Do(worst, x, step).back = x.back
      BY <2>1, <2>4, ConvertIsDone
    <3>. QED  BY <2>1, <3>1 DEF SamePayments
  <2>. QED  BY <2>1, <2>2, <2>3, <2>4 DEF IsTradeStep, Positions
<1>. HIDE DEF P
<1>3. Run(worst, state, steps) \in P
  BY <1>1, <1>2, RunKeeps
<1>. QED  BY <1>3 DEF P, SamePayments

(* The two-hops of a transformation trade,                                   *)
LEMMA TwoHopsTrade ==
    ASSUME NEW q, IsQuote(q), NEW o, NEW worst, NEW state \in Positions
    PROVE  LET e == AfterHops(worst, state, q, o, Len(TwoHops(q)))
           IN /\ e.ok => state.ok
              /\ e \in Positions /\ e.fees = state.fees /\ e.back = state.back
              /\ TwoHops(q) = <<>> => e = state
<1>. DEFINE len == Len(TwoHops(q))
            S == HopSteps(q, o)
            steps == HopsUpTo(q, o, len)
            e == Run(worst, state, steps)
<1>1. len \in Nat
  <2>. DEFINE T == TwoHops(q)
  <2>1. AreEncoded(T)
    BY HopsAreEncoded
  <2>. HIDE DEF T
  <2>2. Len(T) \in Nat
    BY <2>1, LenProperties DEF AreEncoded
  <2>. QED  BY <2>2 DEF T
<1>2. steps \in Seq(S)
  <2>1. len \in 0 .. len
    BY <1>1
  <2>. QED  BY <2>1, RunOfHops
<1>3. \A x \in S : IsTradeStep(x)
  BY HopsAreFills DEF HopSteps, IsTradeStep
<1>4. TwoHops(q) = <<>> => e = state
  <2>. SUFFICES ASSUME TwoHops(q) = <<>> PROVE e = state
    OBVIOUS
  <2>1. len = 0
    OBVIOUS
  <2>2. AfterHops(worst, state, q, o, 0) = state
    BY RunOfHops
  <2>. HIDE DEF len
  <2>. QED  BY <2>1, <2>2 DEF AfterHops
<1>. HIDE DEF steps, S, len
<1>5. e.ok => state.ok
  BY <1>2, OkBefore
<1>6. e \in Positions /\ e.fees = state.fees /\ e.back = state.back
  BY <1>2, <1>3, TradesPayNobody
<1>. QED  BY <1>4, <1>5, <1>6 DEF AfterHops, steps, len

(* and so do the other orders, which leave the token in between alone.       *)
LEMMA SinglesTrade ==
    ASSUME NEW q, IsQuote(q), NEW o, AreOptions(o), NEW worst, NEW state \in Positions
    PROVE  LET e == Run(worst, state, createNonTwoHopTransformation(q, o))
               step == Fill("sell", "buy", q.side, IF WholeBalance(q, o) THEN All ELSE getNonTwoHopFillAmount(q), SingleHops(q))
           IN /\ e.ok => state.ok
              /\ e \in Positions /\ e.fees = state.fees /\ e.back = state.back
              /\ e.held["mid"] = state.held["mid"]
              /\ IF SingleHops(q) = <<>> THEN e = state ELSE e = Do(worst, state, step)
<1>. DEFINE step == Fill("sell", "buy", q.side, IF WholeBalance(q, o) THEN All ELSE getNonTwoHopFillAmount(q), SingleHops(q))
            part == createNonTwoHopTransformation(q, o)
            e == Run(worst, state, part)
            d == Do(worst, state, step)
<1>1. part \in {<<>>, <<step>>} /\ (SingleHops(q) = <<>> => part = <<>>) /\ (SingleHops(q) # <<>> => part = <<step>>)
  BY DEF createNonTwoHopTransformation
<1>2. IsFillStep(step) /\ step.from = "sell" /\ step.to = "buy"
  BY PartsAreSteps DEF Fill
<1>. HIDE DEF step, part
<1>3. /\ part \in Seq({step})
      /\ (part = <<>> /\ e = state) \/ (part = <<step>> /\ e = d)
  <2>2. Run(worst, state, <<>>) = state /\ Run(worst, state, <<step>>) = Do(worst, state, step)
    BY RunOfOne
  <2>3. <<step>> \in Seq({step}) /\ <<>> \in Seq({step})
    OBVIOUS
  <2>. QED  BY <1>1, <2>2, <2>3
<1>4. e.ok => state.ok
  BY <1>3, OkBefore
<1>5. e \in Positions /\ e.fees = state.fees /\ e.back = state.back
  <2>1. \A x \in {step} : IsTradeStep(x)
    BY <1>2 DEF IsTradeStep
  <2>. QED  BY <1>3, <2>1, TradesPayNobody
<1>6. d.held["mid"] = state.held["mid"]
  <2>1. CASE ~ state.ok
    BY <2>1 DEF Do
  <2>2. CASE state.ok
    <3>1. \A t \in CurrencyTokens : d.held[t] = FilledHeld(worst, state, step, t)
      <4>1. /\ FillResult(worst, state, step) \in FillStates
            /\ d \in Positions /\ d.fees = state.fees /\ d.back = state.back
            /\ \A t \in CurrencyTokens : d.held[t] = FilledHeld(worst, state, step, t)
            /\ d.ok <=> \A t \in CurrencyTokens : d.held[t] >= 0
        <5>1. IsFillStep(step)
          BY <1>2
        <5>. QED  BY <2>2, <5>1, FillIsDone
      <4>. HIDE DEF d
      <4>. QED  BY <4>1
    <3>2. "mid" \in CurrencyTokens /\ state.held["mid"] \in Int
      BY DEF CurrencyTokens, Positions, Balances
    <3>. HIDE DEF d
    <3>. QED  BY <1>2, <3>1, <3>2 DEF FilledHeld
  <2>. QED  BY <2>1, <2>2
<1>. HIDE DEF e, d
<1>7. SingleHops(q) = <<>> => e = state
  BY <1>1, <1>3
<1>8. SingleHops(q) # <<>> => e = d
  <2>1. <<step>> # <<>>
    OBVIOUS
  <2>. QED  BY <1>1, <1>3, <2>1
<1>. QED  BY <1>4, <1>5, <1>6, <1>7, <1>8 DEF e, d, part, step

(* What a transformation pays, and what it holds at its end.                 *)
LEMMA TransformDelivers ==
    ASSUME NEW q, IsQuote(q), NEW o, AreOptions(o), InToken(o) # OutToken(o), NEW worst, NEW state \in Positions,
           state.fees = Nothing, state.held["mid"] = 0, AfterReturn(worst, state, q, o).ok
    PROVE  LET e == AfterReturn(worst, state, q, o)
           IN /\ e.fees[InToken(o)] = SellFeeAmount(o) /\ e.fees[OutToken(o)] = o.buyFee
              /\ \A t \in CurrencyTokens \ (IF o.toEth THEN {OutToken(o), "eth"} ELSE {OutToken(o)}) : e.held[t] = 0
<1>. DEFINE s1 == AfterSellFee(worst, state, o)
            s2 == AfterWrap(worst, state, q, o)
            s3 == AfterTwoHops(worst, state, q, o)
            s4 == AfterSingles(worst, state, q, o)
            s5 == AfterUnwrap(worst, state, q, o)
            s6 == AfterFee(worst, state, q, o)
            s7 == AfterSurplus(worst, state, q, o)
            x == createPayTakerTransformation(q, o)
            e == AfterReturn(worst, state, q, o)
            n == Len(TwoHops(q))
            in == InToken(o)
            out == OutToken(o)
<1>1. /\ s1 = Run(worst, state, SellFeeSteps(o)) /\ s2 = Run(worst, s1, WrapSteps(q, o))
      /\ s3 = AfterHops(worst, s2, q, o, n) /\ s4 = Run(worst, s3, createNonTwoHopTransformation(q, o))
      /\ s5 = Run(worst, s4, UnwrapSteps(o)) /\ s6 = Run(worst, s5, BuyFeeSteps(o))
      /\ s7 = Run(worst, s6, SurplusSteps(q, o)) /\ e = Do(worst, s7, x)
  BY DEF AfterSellFee, AfterWrap, AfterTwoHops, AfterSingles, AfterUnwrap, AfterFee, AfterSurplus, AfterReturn
<1>1a. e.ok
  OBVIOUS
<1>. HIDE DEF s1, s2, s3, s4, s5, s6, s7, e, n
<1>2. s1.ok /\ s2.ok /\ s3.ok /\ s4.ok /\ s5.ok /\ s6.ok /\ s7.ok
  <2>1. s7.ok
    BY <1>1, <1>1a DEF Do
  <2>2. s6.ok
    BY <1>1, <2>1, PartsAreSequences, OkBefore
  <2>3. s5.ok
    BY <1>1, <2>2, PartsAreSequences, OkBefore
  <2>4. s4.ok
    BY <1>1, <2>3, PartsAreSequences, OkBefore
  <2>5. s3.ok
    BY <1>1, <2>4, PartsAreSequences, OkBefore
  <2>6. s2.ok
    <3>1. HopsUpTo(q, o, n) \in Seq(HopSteps(q, o))
      <4>1. n \in Nat
        <5>. DEFINE T == TwoHops(q)
        <5>1. AreEncoded(T)
          BY HopsAreEncoded
        <5>. HIDE DEF T
        <5>2. Len(T) \in Nat
          BY <5>1, LenProperties DEF AreEncoded
        <5>. QED  BY <5>2 DEF T, n
      <4>2. n \in 0 .. Len(TwoHops(q))
        BY <4>1 DEF n
      <4>. QED  BY <4>2, RunOfHops
    <3>2. s3 = Run(worst, s2, HopsUpTo(q, o, n))
      BY <1>1 DEF AfterHops
    <3>. QED  BY <2>5, <3>1, <3>2, OkBefore
  <2>7. s1.ok
    BY <1>1, <2>6, PartsAreSequences, OkBefore
  <2>. QED  BY <2>1, <2>2, <2>3, <2>4, <2>5, <2>6, <2>7
<1>3. /\ s1 \in Positions
      /\ \A t \in CurrencyTokens : s1.fees[t] = IF t = in THEN SellFeeAmount(o) ELSE 0
      /\ in # "mid" => s1.held["mid"] = 0
  <2>. DEFINE paid(t) == IF t = InToken(o) THEN SellFeeAmount(o) ELSE 0
  <2>1. /\ state.ok /\ s1 \in Positions /\ s1.back = state.back
        /\ \A t \in CurrencyTokens : s1.held[t] = state.held[t] - paid(t) /\ s1.fees[t] = state.fees[t] + paid(t)
    BY <1>1, <1>2, SellFeeIsPaid
  <2>2. \A t \in CurrencyTokens : state.fees[t] = 0
    BY DEF Nothing
  <2>3. SellFeeAmount(o) \in Nat /\ "mid" \in CurrencyTokens
    BY DEF AreOptions, CurrencyTokens
  <2>. QED  BY <2>1, <2>2, <2>3
<1>4. s2 \in Positions /\ s2.fees = s1.fees /\ s2.held["mid"] = s1.held["mid"]
  <2>. DEFINE asked == IF o.entire THEN All ELSE TransformedAmount(q, o)
              moved == IF InToken(o) = "sell" THEN 0 ELSE IF asked = All THEN s1.held["eth"] ELSE asked
  <2>1. /\ s1.ok /\ s2 \in Positions /\ s2.fees = s1.fees /\ s2.back = s1.back /\ moved \in Int
        /\ \A t \in CurrencyTokens :
               s2.held[t] = IF t = "eth" THEN s1.held[t] - moved
                            ELSE IF t = "sell" THEN s1.held[t] + moved ELSE s1.held[t]
    BY <1>1, <1>2, <1>3, EthIsWrapped
  <2>. HIDE DEF moved
  <2>. QED  BY <2>1 DEF CurrencyTokens
<1>5. s3 \in Positions /\ s3.fees = s2.fees /\ (TwoHops(q) = <<>> => s3.held["mid"] = s2.held["mid"])
  <2>1. /\ s3.ok => s2.ok
        /\ s3 \in Positions /\ s3.fees = s2.fees /\ s3.back = s2.back
        /\ TwoHops(q) = <<>> => s3 = s2
    BY <1>1, <1>4, TwoHopsTrade DEF n
  <2>. QED  BY <2>1
<1>6. s4 \in Positions /\ s4.fees = s3.fees /\ s4.held["mid"] = s3.held["mid"]
  BY <1>1, <1>5, SinglesTrade
<1>7. /\ s5 \in Positions /\ s5.fees = s4.fees /\ s5.held["mid"] = s4.held["mid"]
      /\ out # "buy" => s5.held["buy"] = 0
  <2>. DEFINE moved == IF OutToken(o) = "buy" THEN 0 ELSE s4.held["buy"]
  <2>1. /\ s4.ok /\ s5 \in Positions /\ s5.fees = s4.fees /\ s5.back = s4.back
        /\ \A t \in CurrencyTokens :
               s5.held[t] = IF t = "buy" THEN s4.held[t] - moved
                            ELSE IF t = "eth" THEN s4.held[t] + moved ELSE s4.held[t]
    BY <1>1, <1>2, <1>6, WethIsUnwrapped
  <2>2. s4.held["buy"] \in Int
    BY <1>6 DEF Positions, Balances, CurrencyTokens
  <2>. QED  BY <2>1, <2>2 DEF CurrencyTokens
<1>8. /\ s6 \in Positions
      /\ \A t \in CurrencyTokens : /\ s6.fees[t] = s5.fees[t] + (IF t = out THEN o.buyFee ELSE 0)
                                   /\ t # out => s6.held[t] = s5.held[t]
  <2>. DEFINE paid(t) == IF t = OutToken(o) THEN o.buyFee ELSE 0
  <2>1. /\ s5.ok /\ s6 \in Positions /\ s6.back = s5.back
        /\ \A t \in CurrencyTokens : s6.held[t] = s5.held[t] - paid(t) /\ s6.fees[t] = s5.fees[t] + paid(t)
    BY <1>1, <1>2, <1>7, BuyFeeIsPaid
  <2>2. \A t \in CurrencyTokens : s5.held[t] \in Int
    BY <1>7 DEF Positions, Balances
  <2>. QED  BY <2>1, <2>2
<1>9. s7 \in Positions /\ s7.fees = s6.fees /\ \A t \in CurrencyTokens : t # out => s7.held[t] = s6.held[t]
  <2>. DEFINE b == q.info.best.maker
              limit == Larger(b + o.surplusCost, b)
  <2>1. /\ s6.ok /\ s7 \in Positions /\ s7.fees = s6.fees /\ s7.back = s6.back /\ limit \in Nat /\ limit >= b
        /\ \A t \in CurrencyTokens :
               s7.held[t] = IF t = OutToken(o) /\ o.surplus THEN Smaller(s6.held[t], limit) ELSE s6.held[t]
    BY <1>1, <1>2, <1>8, SurplusIsTaken
  <2>. HIDE DEF limit
  <2>. QED  BY <2>1
<1>10. /\ e.fees = s7.fees
       /\ \A t \in CurrencyTokens : e.held[t] = IF t \in x.tokens THEN 0 ELSE s7.held[t]
  <2>. DEFINE d == Do(worst, s7, x)
  <2>1. /\ d \in Positions /\ d.fees = s7.fees
        /\ \A t \in CurrencyTokens :
              /\ d.held[t] = IF t \in x.tokens THEN 0 ELSE s7.held[t]
              /\ d.back[t] = IF t \in x.tokens THEN s7.back[t] + s7.held[t] ELSE s7.back[t]
        /\ d.ok <=> \A t \in CurrencyTokens : d.held[t] >= 0
    <3>1. IsReturnStep(x)
      BY PartsAreSteps
    <3>. HIDE DEF x
    <3>. QED  BY <1>2, <1>9, <3>1, ReturnIsDone
  <2>. HIDE DEF d, x
  <2>2. e = d
    BY <1>1 DEF d
  <2>. QED  BY <2>1, <2>2
<1>11. /\ in \in {"eth", "sell"} /\ out \in {"eth", "buy"} /\ in \in CurrencyTokens /\ out \in CurrencyTokens
       /\ in # "mid" /\ (out = "eth" => o.toEth)
  BY DEF InToken, OutToken, CurrencyTokens
<1>12. x.tokens = {"sell"} \cup (IF TwoHops(q) = <<>> THEN {} ELSE {"mid"}) \cup (IF o.toEth THEN {} ELSE {"eth"})
  BY DEF createPayTakerTransformation, Return
<1>. HIDE DEF x
<1>13. e.fees[in] = SellFeeAmount(o) /\ e.fees[out] = o.buyFee
  <2>1. \A t \in CurrencyTokens : e.fees[t] = s1.fees[t] + (IF t = out THEN o.buyFee ELSE 0)
    BY <1>4, <1>5, <1>6, <1>7, <1>8, <1>9, <1>10
  <2>2. SellFeeAmount(o) \in Nat /\ o.buyFee \in Nat /\ in # out
    BY DEF AreOptions
  <2>. HIDE DEF in, out
  <2>. QED  BY <1>3, <1>11, <2>1, <2>2
<1>14. ASSUME NEW t \in CurrencyTokens \ (IF o.toEth THEN {out, "eth"} ELSE {out}) PROVE e.held[t] = 0
  <2>. HIDE DEF in, out
  <2>1. t \in CurrencyTokens /\ t # out /\ (o.toEth => t # "eth")
    OBVIOUS
  <2>2. t \in x.tokens \/ t = "mid" \/ (t = "buy" /\ out # "buy")
    BY <1>11, <1>12, <2>1 DEF CurrencyTokens
  <2>3. CASE t \in x.tokens
    BY <1>10, <2>1, <2>3
  <2>4. CASE t = "mid"
    <3>1. TwoHops(q) # <<>> => "mid" \in x.tokens
      BY <1>12
    <3>2. TwoHops(q) = <<>> => s7.held["mid"] = 0
      BY <1>3, <1>4, <1>5, <1>6, <1>7, <1>8, <1>9, <1>11, <2>1, <2>4
    <3>. QED  BY <1>10, <2>1, <2>4, <3>1, <3>2
  <2>5. CASE t = "buy" /\ out # "buy"
    BY <1>7, <1>8, <1>9, <1>10, <2>1, <2>5
  <2>. QED  BY <2>2, <2>3, <2>4, <2>5
<1>. QED  BY <1>13, <1>14 DEF e

DirectFeatures == {"uniswapV2", "uniswapV3", "pancake", "curve", "rfq", "otc", "multiplexBatch", "multiplexMultiHop"}

(* A feature that fills the orders itself does nothing else.                 *)
LEMMA DirectStepsFill ==
    ASSUME NEW q, IsQuote(q), NEW o, InToken(o) # OutToken(o), NEW f \in DirectFeatures, Compatible(f, q, o)
    PROVE  LET steps == DirectSteps(q, o, f)
           IN steps \in Seq(Range(steps)) /\ \A i \in DOMAIN steps : IsFillStep(steps[i])
<1>. DEFINE steps == DirectSteps(q, o, f)
            T == TwoHops(q)
            U == SingleHops(q)
<1>1. AreEncoded(T) /\ AreEncoded(U) /\ sellAmount(q) \in Int
  BY HopsAreEncoded DEF sellAmount, Larger, IsQuote, IsInfo
<1>2. /\ InToken(o) \in CurrencyTokens /\ OutToken(o) \in CurrencyTokens /\ "mid" \in CurrencyTokens
      /\ InToken(o) # "mid" /\ OutToken(o) # "mid"
  BY DEF InToken, OutToken, CurrencyTokens
<1>3. /\ \A i \in DOMAIN T : IsEncoded(T[i]) /\ DOMAIN T[i] = {"source", "cap", "sampled", "encoded"}
      /\ \A i \in DOMAIN U : IsEncoded(U[i]) /\ DOMAIN U[i] = {"source", "cap", "sampled", "encoded"}
  BY EncodedFields
<1>4. CASE f \in {"rfq", "multiplexBatch"}
  <2>. DEFINE w(i) == Fill(InToken(o), OutToken(o), "sell", U[i].cap, <<U[i]>>)
              S == {w(i) : i \in DOMAIN U}
  <2>1. steps = [i \in DOMAIN U |-> w(i)]
    BY <1>4 DEF DirectSteps, OrderByOrder
  <2>2. DOMAIN U = 1 .. Len(U) /\ Len(U) \in Nat
    <3>. HIDE DEF U
    <3>. QED  BY <1>1, LenProperties DEF AreEncoded
  <2>3. ASSUME NEW i \in DOMAIN U PROVE IsFillStep(w(i))
    <3>1. IsEncoded(U[i])
      BY <1>3
    <3>2. AreEncoded(<<U[i]>>)
      BY <3>1, OneIsEncoded
    <3>3. U[i].cap \in Int \cup {All}
      BY <3>1 DEF IsEncoded
    <3>. HIDE DEF U
    <3>4. /\ w(i).do = "fill" /\ w(i).from = InToken(o) /\ w(i).to = OutToken(o)
          /\ w(i).amount = U[i].cap /\ w(i).orders = <<U[i]>>
      BY DEF Fill
    <3>. HIDE DEF w
    <3>. QED  BY <1>2, <3>2, <3>3, <3>4 DEF IsFillStep
  <2>. HIDE DEF w, steps, U
  <2>4. steps \in [1 .. Len(U) -> S] /\ DOMAIN steps = DOMAIN U /\ \A i \in DOMAIN U : steps[i] = w(i)
    BY <2>1, <2>2
  <2>. HIDE DEF S
  <2>5. steps \in Seq(S)
    BY <2>2, <2>4, SeqDef
  <2>6. steps \in Seq(Range(steps))
    BY <2>5, IsSeqOfRange
  <2>. QED  BY <2>3, <2>4, <2>6 DEF steps
<1>5. CASE f = "multiplexMultiHop"
  <2>. DEFINE order == T[1]
              x == Fill(InToken(o), "mid", "sell", sellAmount(q), <<Uncapped(FirstHop(order))>>)
              y == Fill("mid", OutToken(o), "sell", All, <<SecondHop(order)>>)
  <2>1. Len(T) = 1
    BY <1>5 DEF Compatible, isMultiplexMultiHopFillCompatible
  <2>2. steps = <<x, y>>
    BY <1>5 DEF DirectSteps
  <2>3. 1 \in DOMAIN T
    <3>. HIDE DEF T
    <3>. QED  BY <1>1, <2>1, LenProperties DEF AreEncoded
  <2>4. IsEncoded(order) /\ DOMAIN order = {"source", "cap", "sampled", "encoded"}
    BY <1>3, <2>3
  <2>. HIDE DEF order
  <2>5. AreEncoded(<<Uncapped(FirstHop(order))>>) /\ AreEncoded(<<SecondHop(order)>>)
    BY <2>4, HopIsEncoded, OneIsEncoded
  <2>. DEFINE a == <<Uncapped(FirstHop(order))>>
              b == <<SecondHop(order)>>
  <2>6. IsFillStep(x) /\ IsFillStep(y)
    <3>. HIDE DEF a, b
    <3>1. IsFillStep(Fill(InToken(o), "mid", "sell", sellAmount(q), a))
      BY <1>1, <1>2, <2>5 DEF a, Fill, IsFillStep
    <3>2. IsFillStep(Fill("mid", OutToken(o), "sell", All, b))
      BY <1>1, <1>2, <2>5 DEF b, Fill, IsFillStep
    <3>. QED  BY <3>1, <3>2 DEF a, b
  <2>. HIDE DEF x, y, steps
  <2>7. <<x, y>> \in Seq({x, y}) /\ DOMAIN <<x, y>> = 1 .. 2 /\ <<x, y>>[1] = x /\ <<x, y>>[2] = y
    OBVIOUS
  <2>8. steps \in Seq(Range(steps))
    BY <2>2, <2>7, IsSeqOfRange
  <2>9. \A i \in DOMAIN steps : IsFillStep(steps[i])
    BY <2>2, <2>6, <2>7
  <2>. QED  BY <2>8, <2>9 DEF steps
<1>6. CASE f \in {"uniswapV2", "uniswapV3", "pancake", "curve", "otc"}
  <2>. DEFINE order == U[1]
              a == <<Uncapped(order)>>
              x == Fill(InToken(o), OutToken(o), "sell", sellAmount(q), a)
  <2>1. Len(U) = 1
    BY <1>6 DEF Compatible, isDirectSwapCompatible
  <2>2. steps = <<x>>
    BY <1>6 DEF DirectSteps
  <2>3. 1 \in DOMAIN U
    <3>. HIDE DEF U
    <3>. QED  BY <1>1, <2>1, LenProperties DEF AreEncoded
  <2>4. IsEncoded(order) /\ DOMAIN order = {"source", "cap", "sampled", "encoded"}
    BY <1>3, <2>3
  <2>. HIDE DEF order
  <2>5. AreEncoded(a)
    BY <2>4, HopIsEncoded, OneIsEncoded
  <2>. HIDE DEF a
  <2>6. IsFillStep(x)
    BY <1>1, <1>2, <2>5 DEF Fill, IsFillStep
  <2>. HIDE DEF x, steps
  <2>7. <<x>> \in Seq({x}) /\ DOMAIN <<x>> = {1} /\ <<x>>[1] = x
    OBVIOUS
  <2>8. steps \in Seq(Range(steps))
    BY <2>2, <2>7, IsSeqOfRange
  <2>9. \A i \in DOMAIN steps : IsFillStep(steps[i])
    BY <2>2, <2>6, <2>7
  <2>. QED  BY <2>8, <2>9 DEF steps
<1>. QED  BY <1>4, <1>5, <1>6 DEF DirectFeatures

(* It pays no fee.                                                           *)
LEMMA DirectPaysNobody ==
    ASSUME NEW q, IsQuote(q), NEW o, InToken(o) # OutToken(o), NEW f \in DirectFeatures, Compatible(f, q, o),
           NEW worst, NEW state \in Positions
    PROVE  Run(worst, state, DirectSteps(q, o, f)) \in Positions /\ Run(worst, state, DirectSteps(q, o, f)).fees = state.fees
<1>. DEFINE steps == DirectSteps(q, o, f)
<1>1. steps \in Seq(Range(steps)) /\ \A i \in DOMAIN steps : IsFillStep(steps[i])
  BY DirectStepsFill
<1>. HIDE DEF steps
<1>2. \A x \in Range(steps) : IsTradeStep(x)
  BY <1>1 DEF Range, IsTradeStep
<1>3. Run(worst, state, steps) \in Positions /\ Run(worst, state, steps).fees = state.fees
  BY <1>1, <1>2, TradesPayNobody
<1>. QED  BY <1>3 DEF steps
=============================================================================
