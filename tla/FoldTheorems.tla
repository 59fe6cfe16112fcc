---------------------------- MODULE FoldTheorems ----------------------------
(***************************************************************************)
(* Folds over finite sets (MapThenFoldSet, and all that is defined by it)  *)
(* are recursive functions, and of those it has to be proved that they     *)
(* exist.  The provers cannot instantiate an operator in a theorem.  They  *)
(* need not: the operator of the fold is a constant of this module, and an *)
(* INSTANCE of the module provides the theorems for a fold.                *)
(***************************************************************************)
EXTENDS Integers, TLAPS

CONSTANTS
    Op(_, _, _),    \* from parameters, an element, and the fold of the others
    Choose(_)       \* the element of a set that is taken off first

AreFolds(g, c, base, S) ==
    g = [s \in SUBSET S |-> IF s = {} THEN base ELSE Op(c, Choose(s), g[s \ {Choose(s)}])]

\* The fold of a set, as MapThenFoldSet defines it.
Fold(c, base, S) == (CHOOSE g : AreFolds(g, c, base, S))[S]

\* What makes it well-defined: S is finite, and its subsets have their elements
\* chosen.  That S is finite is put as the principle that serves for induction.
HasMinima(S) ==
    \A B \in SUBSET (SUBSET S) : B # {} => \E T \in B : \A U \in B : U \subseteq T => U = T
Chooses(S) == \A s \in SUBSET S : s # {} => Choose(s) \in s

-----------------------------------------------------------------------------
(* Both pass on to subsets.                                                    *)
LEMMA SubsetsHaveMinima ==
    ASSUME NEW S, HasMinima(S), Chooses(S), NEW T \in SUBSET S
    PROVE  HasMinima(T) /\ Chooses(T)
<1>1. SUBSET T \subseteq SUBSET S
  OBVIOUS
<1>2. SUBSET (SUBSET T) \subseteq SUBSET (SUBSET S)
  BY <1>1
<1>3. HasMinima(T)
  BY <1>2 DEF HasMinima
<1>4. Chooses(T)
  BY <1>1 DEF Chooses
<1>. QED  BY <1>3, <1>4

(* The recursion has at most one solution,                                     *)
LEMMA FoldsAreUnique ==
    ASSUME NEW c, NEW base, NEW S, HasMinima(S), Chooses(S), NEW g, NEW h,
           AreFolds(g, c, base, S), AreFolds(h, c, base, S)
    PROVE  g = h
<1>. DEFINE B == {T \in SUBSET S : g[T] # h[T]}
<1>1. ASSUME B # {} PROVE FALSE
  <2>1. PICK T \in B : \A U \in B : U \subseteq T => U = T
    <3>1. B \in SUBSET (SUBSET S)
      OBVIOUS
    <3>. HIDE DEF B
    <3>. QED  BY <1>1, <3>1 DEF HasMinima
  <2>. HIDE DEF B
  <2>. DEFINE U == T \ {Choose(T)}
  <2>2. T \in SUBSET S /\ g[T] # h[T]
    BY <2>1 DEF B
  <2>3. T # {}
    BY <2>2 DEF AreFolds
  <2>4. Choose(T) \in T
    BY <2>2, <2>3 DEF Chooses
  <2>5. U \in SUBSET S /\ U # T /\ U \subseteq T
    BY <2>2, <2>4
  <2>6. g[U] = h[U]
    BY <2>1, <2>5 DEF B
  <2>7. g[T] = Op(c, Choose(T), g[U]) /\ h[T] = Op(c, Choose(T), h[U])
    BY <2>2, <2>3 DEF AreFolds
  <2>. QED  BY <2>2, <2>6, <2>7
<1>2. \A T \in SUBSET S : g[T] = h[T]
  BY <1>1
<1>. QED  BY <1>2 DEF AreFolds

(* which for a set includes those for its subsets,                             *)
LEMMA FoldsOfSubset ==
    ASSUME NEW c, NEW base, NEW S, NEW g, AreFolds(g, c, base, S), NEW T \in SUBSET S
    PROVE  AreFolds([s \in SUBSET T |-> g[s]], c, base, T)
<1>. DEFINE h == [s \in SUBSET T |-> g[s]]
<1>1. ASSUME NEW s \in SUBSET T
      PROVE  h[s] = IF s = {} THEN base ELSE Op(c, Choose(s), h[s \ {Choose(s)}])
  BY DEF AreFolds
<1>. HIDE DEF h
<1>2. h = [s \in SUBSET T |-> h[s]]
  BY DEF h
<1>3. AreFolds(h, c, base, T)
  BY <1>1, <1>2 DEF AreFolds
<1>. QED  BY <1>3 DEF h

(* and there is one: a minimal set without could be given one.                 *)
LEMMA FoldsExist ==
    ASSUME NEW c, NEW base, NEW S, HasMinima(S), Chooses(S)
    PROVE  \E g : AreFolds(g, c, base, S)
<1>. DEFINE B == {T \in SUBSET S : ~ \E g : AreFolds(g, c, base, T)}
<1>1. ASSUME B # {} PROVE FALSE
  <2>1. PICK T \in B : \A U \in B : U \subseteq T => U = T
    <3>1. B \in SUBSET (SUBSET S)
      OBVIOUS
    <3>. HIDE DEF B
    <3>. QED  BY <1>1, <3>1 DEF HasMinima
  <2>2. T \in SUBSET S /\ ~ \E g : AreFolds(g, c, base, T)
    BY <2>1
  <2>. DEFINE G(U) == CHOOSE g : AreFolds(g, c, base, U)
              g == [s \in SUBSET T |-> IF s = {} THEN base
                                       ELSE Op(c, Choose(s), G(s \ {Choose(s)})[s \ {Choose(s)}])]
  <2>3. ASSUME NEW U \in SUBSET T, U # T PROVE AreFolds(G(U), c, base, U)
    BY <2>1, <2>2, <2>3
  <2>. HIDE DEF B, G
  <2>4. ASSUME NEW U \in SUBSET T, U # T, NEW W \in SUBSET U
        PROVE  G(U)[W] = G(W)[W]
    <3>1. W \in SUBSET T /\ W # T
      BY <2>4
    <3>2. AreFolds(G(U), c, base, U) /\ AreFolds(G(W), c, base, W)
      BY <2>3, <2>4, <3>1
    <3>3. AreFolds([s \in SUBSET W |-> G(U)[s]], c, base, W)
      BY <3>2, FoldsOfSubset
    <3>4. HasMinima(W) /\ Chooses(W)
      BY <2>2, <3>1, SubsetsHaveMinima
    <3>5. G(W) = [s \in SUBSET W |-> G(U)[s]]
      BY <3>2, <3>3, <3>4, FoldsAreUnique
    <3>. QED  BY <3>5
  <2>5. ASSUME NEW U \in SUBSET T, U # T PROVE g[U] = G(U)[U]
    <3>1. AreFolds(G(U), c, base, U)
      BY <2>3, <2>5
    <3>2. CASE U = {}
      BY <3>1, <3>2 DEF AreFolds
    <3>3. CASE U # {}
      <4>1. G(U)[U] = Op(c, Choose(U), G(U)[U \ {Choose(U)}])
        BY <3>1, <3>3 DEF AreFolds
      <4>2. G(U)[U \ {Choose(U)}] = G(U \ {Choose(U)})[U \ {Choose(U)}]
        BY <2>4, <2>5
      <4>. QED  BY <4>1, <4>2, <3>3
    <3>. QED  BY <3>2, <3>3
  <2>6. ASSUME NEW s \in SUBSET T
        PROVE  g[s] = IF s = {} THEN base ELSE Op(c, Choose(s), g[s \ {Choose(s)}])
    <3>1. CASE s = {}
      BY <3>1
    <3>2. CASE s # {}
      <4>1. Choose(s) \in s
        BY <2>2, <3>2 DEF Chooses
      <4>2. s \ {Choose(s)} \in SUBSET T /\ s \ {Choose(s)} # T
        BY <4>1
      <4>3. g[s \ {Choose(s)}] = G(s \ {Choose(s)})[s \ {Choose(s)}]
        BY <4>2, <2>5
      <4>. QED  BY <4>3, <3>2
    <3>. QED  BY <3>1, <3>2
  <2>7. g = [s \in SUBSET T |-> g[s]]
    OBVIOUS
  <2>8. AreFolds(g, c, base, T)
    <3>. HIDE DEF g
    <3>. QED  BY <2>6, <2>7 DEF AreFolds
  <2>. QED  BY <2>2, <2>8
<1>. QED  BY <1>1

(* A fold is what its recursion says.                                          *)
THEOREM FoldUnfolds ==
    ASSUME NEW c, NEW base, NEW S, HasMinima(S), Chooses(S)
    PROVE  Fold(c, base, S) =
             IF S = {} THEN base ELSE Op(c, Choose(S), Fold(c, base, S \ {Choose(S)}))
<1>. DEFINE G(U) == CHOOSE g : AreFolds(g, c, base, U)
            T == S \ {Choose(S)}
<1>1. AreFolds(G(S), c, base, S)
  BY FoldsExist
<1>2. HasMinima(T) /\ Chooses(T)
  BY SubsetsHaveMinima
<1>3. AreFolds(G(T), c, base, T)
  BY <1>2, FoldsExist
<1>4. Fold(c, base, S) = G(S)[S] /\ Fold(c, base, T) = G(T)[T]
  BY DEF Fold
<1>. HIDE DEF G
<1>5. AreFolds([s \in SUBSET T |-> G(S)[s]], c, base, T)
  BY <1>1, FoldsOfSubset
<1>6. G(T) = [s \in SUBSET T |-> G(S)[s]]
  BY <1>2, <1>3, <1>5, FoldsAreUnique
<1>7. G(T)[T] = G(S)[T]
  BY <1>6
<1>8. G(S)[S] = IF S = {} THEN base ELSE Op(c, Choose(S), G(S)[T])
  BY <1>1 DEF AreFolds
<1>. QED  BY <1>4, <1>7, <1>8

(* A fold is in every set that has the base and that the operator stays in.    *)
THEOREM FoldIsWithin ==
    ASSUME NEW c, NEW base, NEW S, HasMinima(S), Chooses(S),
           NEW N, base \in N, \A x \in S, y \in N : Op(c, x, y) \in N
    PROVE  Fold(c, base, S) \in N
<1>. DEFINE B == {T \in SUBSET S : Fold(c, base, T) \notin N}
<1>1. ASSUME B # {} PROVE FALSE
  <2>1. PICK T \in B : \A U \in B : U \subseteq T => U = T
    <3>1. B \in SUBSET (SUBSET S)
      OBVIOUS
    <3>. HIDE DEF B
    <3>. QED  BY <1>1, <3>1 DEF HasMinima
  <2>2. T \in SUBSET S /\ Fold(c, base, T) \notin N
    BY <2>1
  <2>3. HasMinima(T) /\ Chooses(T)
    BY <2>2, SubsetsHaveMinima
  <2>4. Fold(c, base, T) = IF T = {} THEN base ELSE Op(c, Choose(T), Fold(c, base, T \ {Choose(T)}))
    BY <2>3, FoldUnfolds
  <2>5. T # {}
    BY <2>2, <2>4
  <2>6. Choose(T) \in T
    BY <2>3, <2>5 DEF Chooses
  <2>7. Fold(c, base, T \ {Choose(T)}) \in N
    BY <2>1, <2>2, <2>6
  <2>. QED  BY <2>2, <2>4, <2>5, <2>6, <2>7
<1>. QED  BY <1>1

(* A fold over 1 .. n that takes the last element off first goes through the   *)
(* elements in turn.                                                           *)
THEOREM FoldInTurn ==
    ASSUME NEW c, NEW base, NEW len \in Nat, HasMinima(1 .. len), Chooses(1 .. len),
           \A n \in 1 .. len : Choose(1 .. n) = n
    PROVE  /\ Fold(c, base, 1 .. 0) = base
           /\ \A n \in 1 .. len : Fold(c, base, 1 .. n) = Op(c, n, Fold(c, base, 1 .. (n - 1)))
<1>1. Fold(c, base, 1 .. 0) = base
  <2>1. 1 .. 0 = {}
    OBVIOUS
  <2>2. HasMinima({}) /\ Chooses({})
    BY SubsetsHaveMinima
  <2>3. Fold(c, base, {}) = base
    BY <2>2, FoldUnfolds
  <2>. QED  BY <2>1, <2>3
<1>2. ASSUME NEW n \in 1 .. len
      PROVE  Fold(c, base, 1 .. n) = Op(c, n, Fold(c, base, 1 .. (n - 1)))
  <2>1. 1 .. n \in SUBSET (1 .. len)
    OBVIOUS
  <2>2. HasMinima(1 .. n) /\ Chooses(1 .. n)
    BY <2>1, SubsetsHaveMinima
  <2>3. n \in 1 .. n
    OBVIOUS
  <2>4. (1 .. n) \ {n} = 1 .. (n - 1)
    <3>1. \A m : m \in (1 .. n) \ {n} <=> m \in 1 .. (n - 1)
      OBVIOUS
    <3>. QED  BY <3>1
  <2>5. Choose(1 .. n) = n
    OBVIOUS
  <2>6. Fold(c, base, 1 .. n) = Op(c, Choose(1 .. n), Fold(c, base, (1 .. n) \ {Choose(1 .. n)}))
    <3>. DEFINE S == 1 .. n
    <3>1. S # {}
      BY <2>3
    <3>. HIDE DEF S
    <3>2. HasMinima(S) /\ Chooses(S)
      BY <2>2 DEF S
    <3>3. Fold(c, base, S) = Op(c, Choose(S), Fold(c, base, S \ {Choose(S)}))
      BY <3>1, <3>2, FoldUnfolds
    <3>. QED  BY <3>3 DEF S
  <2>. QED  BY <2>4, <2>5, <2>6
<1>. QED  BY <1>1, <1>2
=============================================================================
