----------------------------- MODULE FoldProofs -----------------------------
(***************************************************************************)
(* Lemmas that several components need, about the operators of the         *)
(* community modules that fold a function over a set or a sequence: sums,  *)
(* XORs and the concatenation of a sequence of sequences; about powers of  *)
(* two, which are numbers of subsets; and about residues.                  *)
(*                                                                         *)
(* They rest on two facts that take the place of induction over a predicate: *)
(* a set of numbers that has 0 and each next number has all of them        *)
(* (NumberInduction), and likewise for the subsets of a finite set         *)
(* (SubsetInduction).                                                      *)
(***************************************************************************)
EXTENDS Integers, SequencesExt, FiniteSetTheorems, NaturalsInduction,
        WellFoundedInduction, SequenceTheorems, TLAPS

-----------------------------------------------------------------------------
(* Induction, over a set of the numbers or subsets that a fact holds for.  *)

\* A nonempty set of natural numbers has a least element.
LEMMA LeastNumber ==
  ASSUME NEW T \in SUBSET Nat, T # {}
  PROVE  \E x \in T : \A y \in T : x <= y
  <1>1. IsWellFoundedOn({ss \in Nat \X Nat : ss[1] < ss[2]}, Nat)
    BY NatLessThanWellFounded DEF OpToRel
  <1>2. PICK R : R = {ss \in Nat \X Nat : ss[1] < ss[2]} /\ IsWellFoundedOn(R, Nat)
    BY <1>1
  <1>3. PICK x \in T : \A y \in T : ~ (<<y, x>> \in R)
    BY <1>2, WFMin
  <1>4. \A y \in Nat : y < x => <<y, x>> \in R
    BY <1>2, <1>3
  <1>5. \A y \in T : x <= y
    <2> SUFFICES ASSUME NEW y \in T PROVE x <= y
      OBVIOUS
    <2>1. x \in Nat /\ y \in Nat
      BY <1>3
    <2>2. ~ (y < x)
      BY <1>3, <1>4, <2>1
    <2> QED
      BY <2>1, <2>2
  <1> QED
    BY <1>3, <1>5

\* Induction over the natural numbers.
LEMMA NumberInduction ==
  ASSUME NEW P, 0 \in P, \A n \in Nat : n \in P => n + 1 \in P
  PROVE  \A n \in Nat : n \in P
  <1> SUFFICES ASSUME NEW m \in Nat, m \notin P
               PROVE  FALSE
    OBVIOUS
  <1>1. PICK T : T = {n \in Nat : n \notin P}
    OBVIOUS
  <1>2. T \in SUBSET Nat /\ T # {}
    BY <1>1
  <1>3. PICK x \in T : \A y \in T : x <= y
    BY <1>2, LeastNumber
  <1>4. x \in Nat /\ x # 0 /\ x \notin P
    BY <1>1, <1>3
  <1>5. x - 1 \in Nat /\ x - 1 \notin T
    BY <1>3, <1>4
  <1>6. x - 1 \in P
    BY <1>1, <1>5
  <1>7. (x - 1) + 1 \in P
    BY <1>5, <1>6
  <1> QED
    BY <1>4, <1>7

\* Induction over the subsets of a finite set.
LEMMA SubsetInduction ==
  ASSUME NEW S, IsFiniteSet(S), NEW P, {} \in P,
         \A s \in SUBSET S : s # {} /\ (\A x \in s : s \ {x} \in P) => s \in P
  PROVE  \A s \in SUBSET S : s \in P
  <1>1. PICK Q : Q = {n \in Nat : \A s \in SUBSET S : Cardinality(s) = n => s \in P}
    OBVIOUS
  <1>2. \A s \in SUBSET S : IsFiniteSet(s) /\ Cardinality(s) \in Nat
    BY FS_Subset, FS_CardinalityType
  <1>3. 0 \in Q
    BY <1>1, <1>2, FS_EmptySet
  <1>4. ASSUME NEW n \in Nat, n \in Q PROVE n + 1 \in Q
    <2> SUFFICES ASSUME NEW s \in SUBSET S, Cardinality(s) = n + 1
                 PROVE  s \in P
      BY <1>1
    <2>1. s # {}
      BY FS_EmptySet
    <2>2. \A x \in s : s \ {x} \in SUBSET S /\ Cardinality(s \ {x}) = n
      BY <1>2, FS_RemoveElement
    <2>3. \A x \in s : s \ {x} \in P
      BY <1>1, <1>4, <2>2
    <2> QED
      BY <2>1, <2>3
  <1>5. \A n \in Nat : n \in Q
    BY <1>3, <1>4, NumberInduction
  <1> QED
    BY <1>1, <1>2, <1>5

-----------------------------------------------------------------------------
(* Folds.  An operator is given as a function on pairs of values V here,   *)
(* so that facts about it are ordinary facts.                              *)

Chosen(s) == CHOOSE x \in s : TRUE

\* The function that the library's folds are defined by: `g' is it.
IsFold(g, op, base, f, S) ==
  g = [s \in SUBSET S |-> IF s = {} THEN base
                          ELSE op[<<f[Chosen(s)], g[s \ {Chosen(s)}]>>]]

\* op is closed, commutative and associative on V, and base is its unit.
Foldable(op, base, V) ==
  /\ base \in V /\ \A a \in V : op[<<base, a>>] = a
  /\ op \in [V \X V -> V]
  /\ \A a, b \in V : op[<<a, b>>] = op[<<b, a>>]
  /\ \A a, b, c \in V : op[<<a, op[<<b, c>>]>>] = op[<<op[<<a, b>>], c>>]

\* A fold over a finite set is defined.
LEMMA FoldDefined ==
  ASSUME NEW S, IsFiniteSet(S), NEW V, NEW op, NEW base, Foldable(op, base, V),
         NEW f, \A x \in S : f[x] \in V
  PROVE  \E g \in [SUBSET S -> V] : IsFold(g, op, base, f, S)
  <1> DEFINE step(g, s) == IF s = {} THEN base ELSE op[<<f[Chosen(s)], g[s \ {Chosen(s)}]>>]
  <1>1. PICK Q : Q = {n \in Nat : \E g \in [SUBSET S -> V] : \A s \in SUBSET S :
                                     Cardinality(s) <= n => g[s] = step(g, s)}
    OBVIOUS
  <1>2. \A s \in SUBSET S : IsFiniteSet(s) /\ Cardinality(s) \in Nat
    BY FS_Subset, FS_CardinalityType
  <1>3. \A s \in SUBSET S : s # {} =>
          /\ Chosen(s) \in s /\ s \ {Chosen(s)} \in SUBSET S
          /\ Cardinality(s \ {Chosen(s)}) = Cardinality(s) - 1
          /\ Cardinality(s) >= 1
    <2> SUFFICES ASSUME NEW s \in SUBSET S, s # {}
                 PROVE /\ Chosen(s) \in s /\ s \ {Chosen(s)} \in SUBSET S
                       /\ Cardinality(s \ {Chosen(s)}) = Cardinality(s) - 1
                       /\ Cardinality(s) >= 1
      OBVIOUS
    <2>1. Chosen(s) \in s
      BY DEF Chosen
    <2>2. Cardinality(s \ {Chosen(s)}) = Cardinality(s) - 1
      BY <1>2, <2>1, FS_RemoveElement
    <2>3. Cardinality(s) # 0
      BY <1>2, FS_EmptySet
    <2> QED
      BY <1>2, <2>1, <2>2, <2>3
  <1>4. \A g \in [SUBSET S -> V] : \A s \in SUBSET S : step(g, s) \in V
    <2> SUFFICES ASSUME NEW g \in [SUBSET S -> V], NEW s \in SUBSET S
                 PROVE step(g, s) \in V
      OBVIOUS
    <2>1. CASE s = {}
      BY <2>1 DEF Foldable
    <2>2. CASE s # {}
      <3>1. Chosen(s) \in S /\ s \ {Chosen(s)} \in SUBSET S
        BY <1>3, <2>2
      <3> QED
        BY <2>2, <3>1 DEF Foldable
    <2> QED
      BY <2>1, <2>2
  <1>5. 0 \in Q
    <2>1. PICK g : g = [s \in SUBSET S |-> base]
      OBVIOUS
    <2>2. g \in [SUBSET S -> V]
      BY <2>1 DEF Foldable
    <2>3. \A s \in SUBSET S : Cardinality(s) <= 0 => s = {}
      BY <1>2, FS_EmptySet
    <2> QED
      BY <1>1, <2>1, <2>2, <2>3
  <1>6. ASSUME NEW n \in Nat, n \in Q PROVE n + 1 \in Q
    <2>1. PICK g \in [SUBSET S -> V] :
            \A s \in SUBSET S : Cardinality(s) <= n => g[s] = step(g, s)
      BY <1>1, <1>6
    <2> HIDE DEF step
    <2>2. PICK h : h = [s \in SUBSET S |-> IF Cardinality(s) = n + 1
                                           THEN step(g, s) ELSE g[s]]
      OBVIOUS
    <2>3. h \in [SUBSET S -> V]
      BY <1>4, <2>1, <2>2
    <2>4. ASSUME NEW s \in SUBSET S, Cardinality(s) <= n + 1
          PROVE  h[s] = step(h, s)
      <3>1. h[s] = step(g, s)
        BY <1>2, <2>1, <2>2, <2>4
      <3>2. CASE s = {}
        BY <3>1, <3>2 DEF step
      <3>3. CASE s # {}
        <4>1. h[s \ {Chosen(s)}] = g[s \ {Chosen(s)}]
          BY <1>2, <1>3, <2>2, <2>4, <3>3
        <4> QED
          BY <3>1, <3>3, <4>1 DEF step
      <3> QED
        BY <3>2, <3>3
    <2> QED
      BY <1>1, <2>3, <2>4
  <1>7. Cardinality(S) \in Q
    <2>1. \A n \in Nat : n \in Q
      BY <1>5, <1>6, NumberInduction
    <2> QED
      BY <1>2, <2>1
  <1>8. PICK g \in [SUBSET S -> V] :
          \A s \in SUBSET S : Cardinality(s) <= Cardinality(S) => g[s] = step(g, s)
    BY <1>1, <1>7
  <1>9. \A s \in SUBSET S : g[s] = step(g, s)
    BY <1>8, FS_Subset
  <1>10. g = [s \in SUBSET S |-> step(g, s)]
    <2> HIDE DEF step
    <2> QED
      BY <1>8, <1>9
  <1> QED
    BY <1>8, <1>10 DEF IsFold

\* One step of a fold.
LEMMA FoldStep ==
  ASSUME NEW S, NEW op, NEW base, NEW f, NEW g, IsFold(g, op, base, f, S),
         NEW s \in SUBSET S, s # {}, NEW x, x = Chosen(s)
  PROVE  x \in s /\ g[s] = op[<<f[x], g[s \ {x}]>>]
  <1>1. g[s] = IF s = {} THEN base
               ELSE op[<<f[Chosen(s)], g[s \ {Chosen(s)}]>>]
    BY DEF IsFold
  <1>2. Chosen(s) \in s
    BY DEF Chosen
  <1> QED
    BY <1>1, <1>2

\* Folds of functions that agree on S agree there.
LEMMA FoldUnique ==
  ASSUME NEW S, IsFiniteSet(S), NEW op, NEW base, NEW f, NEW T, IsFiniteSet(T), NEW h,
         NEW f2,
         \A x \in S \cap T : f[x] = f2[x],
         NEW g, IsFold(g, op, base, f, S), IsFold(h, op, base, f2, T)
  PROVE  \A s \in SUBSET (S \cap T) : g[s] = h[s]
  <1>1. PICK P : P = {s \in SUBSET (S \cap T) : g[s] = h[s]}
    OBVIOUS
  <1>2. {} \in P
    BY <1>1 DEF IsFold
  <1>3. ASSUME NEW s \in SUBSET (S \cap T), s # {}, \A x \in s : s \ {x} \in P
        PROVE  s \in P
    <2>1. PICK x : x = Chosen(s)
      OBVIOUS
    <2>2. x \in s /\ g[s] = op[<<f[x], g[s \ {x}]>>] /\ h[s] = op[<<f2[x], h[s \ {x}]>>]
      <3>1. s \in SUBSET S /\ s \in SUBSET T
        OBVIOUS
      <3>2. x \in s /\ g[s] = op[<<f[x], g[s \ {x}]>>]
        BY <1>3, <2>1, <3>1, FoldStep
      <3>3. h[s] = op[<<f2[x], h[s \ {x}]>>]
        BY <1>3, <2>1, <3>1, FoldStep
      <3> QED
        BY <3>2, <3>3
    <2>3. g[s \ {x}] = h[s \ {x}]
      BY <1>1, <1>3, <2>1, <2>2
    <2> QED
      BY <1>1, <2>1, <2>2, <2>3
  <1>4. IsFiniteSet(S \cap T)
    BY FS_Subset
  <1>5. \A s \in SUBSET (S \cap T) : s \in P
    BY <1>2, <1>3, <1>4, SubsetInduction
  <1> QED
    BY <1>1, <1>5

-----------------------------------------------------------------------------
\* The value of a fold over S.
Folded(op, base, f, S) == (CHOOSE g : IsFold(g, op, base, f, S))[S]

\* `g' holds the folds over all subsets of S.
HoldsFolds(g, op, base, f, S, V) ==
  /\ g \in [SUBSET S -> V]
  /\ IsFold(g, op, base, f, S)
  /\ \A s \in SUBSET S : Folded(op, base, f, s) = g[s]

\* A fold over each subset of S, and the function that the definition chooses for
\* S, are values of one function.
LEMMA FoldedIs ==
  ASSUME NEW S, IsFiniteSet(S), NEW V, NEW op, NEW base, Foldable(op, base, V),
         NEW f, \A x \in S : f[x] \in V
  PROVE  \E g : HoldsFolds(g, op, base, f, S, V)
  <1>1. PICK g \in [SUBSET S -> V] : IsFold(g, op, base, f, S)
    BY FoldDefined
  <1>2. ASSUME NEW s \in SUBSET S PROVE Folded(op, base, f, s) = g[s]
    <2>1. IsFiniteSet(s) /\ \A x \in s : f[x] \in V
      BY FS_Subset
    <2>2. \E h \in [SUBSET s -> V] : IsFold(h, op, base, f, s)
      BY <2>1, FoldDefined
    <2>3. PICK h : h = CHOOSE k : IsFold(k, op, base, f, s)
      OBVIOUS
    <2>4. IsFold(h, op, base, f, s)
      BY <2>2, <2>3
    <2>5. \A t \in SUBSET (S \cap s) : g[t] = h[t]
      BY <1>1, <2>1, <2>4, FoldUnique
    <2> QED
      BY <2>3, <2>5 DEF Folded
  <1> QED
    BY <1>1, <1>2 DEF HoldsFolds

\* A fold takes its values from V.
LEMMA FoldedType ==
  ASSUME NEW S, IsFiniteSet(S), NEW V, NEW op, NEW base, Foldable(op, base, V),
         NEW f, \A x \in S : f[x] \in V
  PROVE  Folded(op, base, f, S) \in V
  <1>1. PICK g : HoldsFolds(g, op, base, f, S, V)
    BY FoldedIs
  <1> QED
    BY <1>1 DEF HoldsFolds

\* A fold over nothing.
LEMMA FoldedEmpty ==
  ASSUME NEW V, NEW op, NEW base, Foldable(op, base, V), NEW f
  PROVE  Folded(op, base, f, {}) = base
  <1>1. IsFiniteSet({}) /\ \A x \in {} : f[x] \in V
    BY FS_EmptySet
  <1>2. PICK g : HoldsFolds(g, op, base, f, {}, V)
    BY <1>1, FoldedIs
  <1> QED
    BY <1>2 DEF HoldsFolds, IsFold

\* A fold depends on the values in S only.
LEMMA FoldedSame ==
  ASSUME NEW S, IsFiniteSet(S), NEW V, NEW op, NEW base, Foldable(op, base, V),
         NEW f, NEW f2, \A x \in S : f[x] = f2[x] /\ f[x] \in V
  PROVE  Folded(op, base, f, S) = Folded(op, base, f2, S)
  <1>1. PICK g : HoldsFolds(g, op, base, f, S, V)
    BY FoldedIs
  <1>2. PICK h : HoldsFolds(h, op, base, f2, S, V)
    <2>1. \A x \in S : f2[x] \in V
      OBVIOUS
    <2> QED
      BY <2>1, FoldedIs
  <1>3. IsFold(g, op, base, f, S) /\ IsFold(h, op, base, f2, S)
    BY <1>1, <1>2 DEF HoldsFolds
  <1>4. PICK T : T = S
    OBVIOUS
  <1>5. IsFiniteSet(T) /\ IsFold(h, op, base, f2, T)
    BY <1>3, <1>4
  <1>6. \A x \in S \cap T : f[x] = f2[x]
    OBVIOUS
  <1>7. \A s \in SUBSET (S \cap T) : g[s] = h[s]
    BY <1>3, <1>5, <1>6, FoldUnique
  <1>8. g[S] = h[S]
    BY <1>4, <1>7
  <1> QED
    BY <1>1, <1>2, <1>8 DEF HoldsFolds

\* Any element of S may be taken first.
LEMMA FoldedRemove ==
  ASSUME NEW S, IsFiniteSet(S), NEW V, NEW op, NEW base, Foldable(op, base, V),
         NEW f, \A x \in S : f[x] \in V, NEW e \in S
  PROVE  Folded(op, base, f, S) = op[<<f[e], Folded(op, base, f, S \ {e})>>]
  <1>1. PICK g : HoldsFolds(g, op, base, f, S, V)
    BY FoldedIs
  <1>2. PICK P : P = {s \in SUBSET S : \A x \in s : g[s] = op[<<f[x], g[s \ {x}]>>]}
    OBVIOUS
  <1>3. {} \in P
    BY <1>2
  <1>4. ASSUME NEW s \in SUBSET S, s # {}, \A x \in s : s \ {x} \in P
        PROVE  s \in P
    <2> SUFFICES ASSUME NEW x \in s PROVE g[s] = op[<<f[x], g[s \ {x}]>>]
      BY <1>2
    <2>1. PICK y : y = Chosen(s)
      OBVIOUS
    <2>2. y \in s /\ g[s] = op[<<f[y], g[s \ {y}]>>]
      BY <1>1, <1>4, <2>1, FoldStep DEF HoldsFolds
    <2>3. CASE x = y
      BY <2>2, <2>3
    <2>4. CASE x # y
      <3>1. PICK r : r = g[(s \ {x}) \ {y}]
        OBVIOUS
      <3>2. (s \ {x}) \ {y} = (s \ {y}) \ {x}
        OBVIOUS
      <3>3. s \ {y} \in P /\ x \in s \ {y} /\ s \ {x} \in P /\ y \in s \ {x}
        BY <1>4, <2>2, <2>4
      <3>4. g[s \ {y}] = op[<<f[x], g[(s \ {y}) \ {x}]>>]
        BY <1>2, <3>3
      <3>5. g[s \ {x}] = op[<<f[y], g[(s \ {x}) \ {y}]>>]
        BY <1>2, <3>3
      <3>6. g[s \ {y}] = op[<<f[x], r>>] /\ g[s \ {x}] = op[<<f[y], r>>]
        BY <3>1, <3>2, <3>4, <3>5
      <3>7. r \in V /\ f[x] \in V /\ f[y] \in V
        <4>1. (s \ {x}) \ {y} \in SUBSET S /\ x \in S /\ y \in S
          BY <2>2
        <4> QED
          BY <1>1, <3>1, <4>1 DEF HoldsFolds
      <3>8. op[<<f[y], op[<<f[x], r>>]>>] = op[<<f[x], op[<<f[y], r>>]>>]
        <4>1. PICK a, b : a = f[x] /\ b = f[y]
          OBVIOUS
        <4>2. op[<<b, op[<<a, r>>]>>] = op[<<op[<<b, a>>], r>>]
          BY <3>7, <4>1 DEF Foldable
        <4>3. op[<<a, op[<<b, r>>]>>] = op[<<op[<<a, b>>], r>>]
          BY <3>7, <4>1 DEF Foldable
        <4>4. op[<<a, b>>] = op[<<b, a>>]
          BY <3>7, <4>1 DEF Foldable
        <4> QED
          BY <4>1, <4>2, <4>3, <4>4
      <3> QED
        BY <2>2, <3>6, <3>8
    <2> QED
      BY <2>3, <2>4
  <1>5. \A s \in SUBSET S : s \in P
    BY <1>3, <1>4, SubsetInduction
  <1>6. g[S] = op[<<f[e], g[S \ {e}]>>]
    BY <1>2, <1>5
  <1> QED
    BY <1>1, <1>6 DEF HoldsFolds

\* A fold over two parts.
LEMMA FoldedUnion ==
  ASSUME NEW S, IsFiniteSet(S), NEW T, IsFiniteSet(T), S \cap T = {},
         NEW V, NEW op, NEW base, Foldable(op, base, V),
         NEW f, \A x \in S \cup T : f[x] \in V
  PROVE  Folded(op, base, f, S \cup T) =
           op[<<Folded(op, base, f, S), Folded(op, base, f, T)>>]
  <1>1. PICK F : F = [s \in SUBSET (S \cup T) |-> Folded(op, base, f, s)]
    OBVIOUS
  <1>2. IsFiniteSet(S \cup T)
    BY FS_Union
  <1>3. \A s \in SUBSET (S \cup T) : F[s] \in V
    <2>1. \A s \in SUBSET (S \cup T) : IsFiniteSet(s) /\ \A x \in s : f[x] \in V
      BY <1>2, FS_Subset
    <2> QED
      BY <1>1, <2>1, FoldedType
  <1>4. \A s \in SUBSET (S \cup T) : \A e \in s : F[s] = op[<<f[e], F[s \ {e}]>>]
    <2> SUFFICES ASSUME NEW s \in SUBSET (S \cup T), NEW e \in s
                 PROVE  F[s] = op[<<f[e], F[s \ {e}]>>]
      OBVIOUS
    <2>1. IsFiniteSet(s) /\ \A x \in s : f[x] \in V
      BY <1>2, FS_Subset
    <2>2. Folded(op, base, f, s) = op[<<f[e], Folded(op, base, f, s \ {e})>>]
      BY <2>1, FoldedRemove
    <2> QED
      BY <1>1, <2>2
  <1>5. F[{}] = base
    BY <1>1, FoldedEmpty
  <1>6. PICK P : P = {s \in SUBSET S : F[s \cup T] = op[<<F[s], F[T]>>]}
    OBVIOUS
  <1>7. {} \in P
    <2>1. {} \cup T = T /\ T \in SUBSET (S \cup T)
      OBVIOUS
    <2> QED
      BY <1>3, <1>5, <1>6, <2>1 DEF Foldable
  <1>8. ASSUME NEW s \in SUBSET S, s # {}, \A x \in s : s \ {x} \in P
        PROVE  s \in P
    <2>1. PICK e \in s : TRUE
      BY <1>8
    <2>2. (s \cup T) \ {e} = (s \ {e}) \cup T
      OBVIOUS
    <2>3. PICK a, b, c : a = f[e] /\ b = F[s \ {e}] /\ c = F[T]
      OBVIOUS
    <2>4. a \in V /\ b \in V /\ c \in V
      BY <1>3, <2>3
    <2>5. F[(s \ {e}) \cup T] = op[<<b, c>>]
      BY <1>6, <1>8, <2>3
    <2>6. F[s \cup T] = op[<<a, op[<<b, c>>]>>]
      <3>1. s \cup T \in SUBSET (S \cup T) /\ e \in s \cup T
        OBVIOUS
      <3> QED
        BY SMTT(30), <1>4, <2>2, <2>3, <2>5, <3>1
    <2>7. F[s] = op[<<a, b>>]
      BY <1>4, <2>3
    <2>8. op[<<a, op[<<b, c>>]>>] = op[<<op[<<a, b>>], c>>]
      BY <2>4 DEF Foldable
    <2> QED
      BY <1>6, <2>3, <2>6, <2>7, <2>8
  <1>9. \A s \in SUBSET S : s \in P
    BY <1>7, <1>8, SubsetInduction
  <1>10. F[S \cup T] = op[<<F[S], F[T]>>]
    BY <1>6, <1>9
  <1> QED
    BY <1>1, <1>10

-----------------------------------------------------------------------------
(* Sums of integers.                                                       *)

AddPair == [p \in Int \X Int |-> p[1] + p[2]]

\* Addition is commutative and associative, and 0 is its unit.
LEMMA AddFoldable == Foldable(AddPair, 0, Int)
  <1>1. \A a, b \in Int : AddPair[<<a, b>>] = a + b
    BY DEF AddPair
  <1>2. AddPair \in [Int \X Int -> Int]
    BY DEF AddPair
  <1>3. \A a, b, c \in Int : AddPair[<<a, AddPair[<<b, c>>]>>] = AddPair[<<AddPair[<<a, b>>], c>>]
    <2> SUFFICES ASSUME NEW a \in Int, NEW b \in Int, NEW c \in Int
                 PROVE  AddPair[<<a, AddPair[<<b, c>>]>>] = AddPair[<<AddPair[<<a, b>>], c>>]
      OBVIOUS
    <2>1. AddPair[<<b, c>>] = b + c /\ AddPair[<<a, b>>] = a + b
      BY <1>1
    <2>2. AddPair[<<a, b + c>>] = a + (b + c) /\ AddPair[<<a + b, c>>] = (a + b) + c
      BY <1>1
    <2> QED
      BY <2>1, <2>2
  <1> QED
    BY <1>1, <1>2, <1>3 DEF Foldable

\* The library's sum is a fold of this kind.
LEMMA SumIsFolded ==
  ASSUME NEW S, IsFiniteSet(S), NEW f, \A x \in S : f[x] \in Int
  PROVE  FoldFunctionOnSet(+, 0, f, S) = Folded(AddPair, 0, f, S)
  <1> DEFINE step(g, s) == IF s = {} THEN 0 ELSE f[Chosen(s)] + g[s \ {Chosen(s)}]
             Fits(g) == g = [s \in SUBSET S |-> step(g, s)]
  <1>1. PICK g : HoldsFolds(g, AddPair, 0, f, S, Int)
    BY AddFoldable, FoldedIs
  <1>2. g \in [SUBSET S -> Int] /\ IsFold(g, AddPair, 0, f, S) /\ Folded(AddPair, 0, f, S) = g[S]
    BY <1>1 DEF HoldsFolds
  <1>3. \A s \in SUBSET S : s # {} => Chosen(s) \in s /\ Chosen(s) \in S /\ s \ {Chosen(s)} \in SUBSET S
    BY DEF Chosen
  <1>4. \A s \in SUBSET S : g[s] = step(g, s)
    <2> SUFFICES ASSUME NEW s \in SUBSET S PROVE g[s] = step(g, s)
      OBVIOUS
    <2>1. CASE s = {}
      BY <1>2, <2>1 DEF IsFold
    <2>2. CASE s # {}
      <3>1. PICK x : x = Chosen(s)
        OBVIOUS
      <3>2. g[s] = AddPair[<<f[x], g[s \ {x}]>>]
        BY <1>2, <2>2, <3>1, FoldStep
      <3>3. f[x] \in Int /\ g[s \ {x}] \in Int
        BY <1>2, <1>3, <2>2, <3>1
      <3> QED
        BY <2>2, <3>1, <3>2, <3>3 DEF AddPair
    <2> QED
      BY <2>1, <2>2
  <1>5. Fits(g)
    <2> HIDE DEF step
    <2> QED
      BY <1>2, <1>4
  <1>6. PICK h : h = CHOOSE k : Fits(k)
    OBVIOUS
  <1>7. Fits(h)
    <2> HIDE DEF Fits
    <2> QED
      BY <1>5, <1>6
  <1>8. \A s \in SUBSET S : h[s] = step(h, s)
    <2> HIDE DEF step
    <2> QED
      BY <1>7
  <1>9. PICK P : P = {s \in SUBSET S : g[s] = h[s]}
    OBVIOUS
  <1>10. {} \in P
    BY <1>4, <1>8, <1>9
  <1>11. ASSUME NEW s \in SUBSET S, s # {}, \A x \in s : s \ {x} \in P
         PROVE  s \in P
    <2>1. Chosen(s) \in s
      BY <1>3, <1>11
    <2>2. g[s \ {Chosen(s)}] = h[s \ {Chosen(s)}]
      BY <1>9, <1>11, <2>1
    <2>3. g[s] = f[Chosen(s)] + g[s \ {Chosen(s)}] /\ h[s] = f[Chosen(s)] + h[s \ {Chosen(s)}]
      BY <1>4, <1>8, <1>11
    <2> QED
      BY <1>9, <2>2, <2>3
  <1>12. \A s \in SUBSET S : s \in P
    BY <1>10, <1>11, SubsetInduction
  <1>13. g[S] = h[S]
    BY <1>9, <1>12
  <1>14. FoldFunctionOnSet(+, 0, f, S) = (CHOOSE k : Fits(k))[S]
    BY DEF FoldFunctionOnSet, MapThenFoldSet, Chosen
  <1> QED
    BY <1>2, <1>6, <1>13, <1>14

\* A sum over nothing.
LEMMA SumEmpty ==
  ASSUME NEW f
  PROVE  FoldFunctionOnSet(+, 0, f, {}) = 0
  <1>1. IsFiniteSet({}) /\ \A x \in {} : f[x] \in Int
    BY FS_EmptySet
  <1>2. FoldFunctionOnSet(+, 0, f, {}) = Folded(AddPair, 0, f, {})
    BY <1>1, SumIsFolded
  <1>3. Folded(AddPair, 0, f, {}) = 0
    BY FoldedEmpty, AddFoldable
  <1> QED
    BY <1>2, <1>3

\* A sum of integers is an integer.
LEMMA SumType ==
  ASSUME NEW S, IsFiniteSet(S), NEW f, \A x \in S : f[x] \in Int
  PROVE  FoldFunctionOnSet(+, 0, f, S) \in Int
  <1>1. Folded(AddPair, 0, f, S) \in Int
    BY FoldedType, AddFoldable
  <1> QED
    BY <1>1, SumIsFolded

\* It depends on the values in S only.
LEMMA SumSame ==
  ASSUME NEW S, IsFiniteSet(S), NEW f, NEW f2, \A x \in S : f[x] = f2[x] /\ f[x] \in Int
  PROVE  FoldFunctionOnSet(+, 0, f, S) = FoldFunctionOnSet(+, 0, f2, S)
  <1>1. \A x \in S : f[x] \in Int /\ f2[x] \in Int
    OBVIOUS
  <1>2. Folded(AddPair, 0, f, S) = Folded(AddPair, 0, f2, S)
    BY FoldedSame, AddFoldable
  <1> QED
    BY <1>1, <1>2, SumIsFolded

\* Any summand may be added last.
LEMMA SumRemove ==
  ASSUME NEW S, IsFiniteSet(S), NEW f, \A x \in S : f[x] \in Int, NEW e \in S
  PROVE  FoldFunctionOnSet(+, 0, f, S) = f[e] + FoldFunctionOnSet(+, 0, f, S \ {e})
  <1>1. IsFiniteSet(S \ {e}) /\ \A x \in S \ {e} : f[x] \in Int
    BY FS_Subset
  <1>2. Folded(AddPair, 0, f, S) = AddPair[<<f[e], Folded(AddPair, 0, f, S \ {e})>>]
    BY FoldedRemove, AddFoldable
  <1>3. Folded(AddPair, 0, f, S \ {e}) \in Int
    BY <1>1, FoldedType, AddFoldable
  <1> QED
    BY <1>1, <1>2, <1>3, SumIsFolded DEF AddPair

\* A sum over two parts.
LEMMA SumUnion ==
  ASSUME NEW S, IsFiniteSet(S), NEW T, IsFiniteSet(T), S \cap T = {},
         NEW f, \A x \in S \cup T : f[x] \in Int
  PROVE  FoldFunctionOnSet(+, 0, f, S \cup T) =
           FoldFunctionOnSet(+, 0, f, S) + FoldFunctionOnSet(+, 0, f, T)
  <1>1. IsFiniteSet(S \cup T)
    BY FS_Union
  <1>2. /\ Folded(AddPair, 0, f, S \cup T) =
             AddPair[<<Folded(AddPair, 0, f, S), Folded(AddPair, 0, f, T)>>]
    BY FoldedUnion, AddFoldable
  <1>3. Folded(AddPair, 0, f, S) \in Int /\ Folded(AddPair, 0, f, T) \in Int
    BY FoldedType, AddFoldable
  <1> QED
    BY <1>1, <1>2, <1>3, SumIsFolded DEF AddPair

\* A sum of natural numbers is one, and none of them is above it.
LEMMA SumNat ==
  ASSUME NEW S, IsFiniteSet(S), NEW f, \A x \in S : f[x] \in Nat
  PROVE  /\ FoldFunctionOnSet(+, 0, f, S) \in Nat
         /\ \A x \in S : f[x] <= FoldFunctionOnSet(+, 0, f, S)
  <1> DEFINE sum(s) == FoldFunctionOnSet(+, 0, f, s)
  <1> HIDE DEF sum
  <1>1. PICK P : P = {s \in SUBSET S : sum(s) \in Nat}
    OBVIOUS
  <1>2. {} \in P
    <2>1. sum({}) = 0
      BY SumEmpty DEF sum
    <2> QED
      BY <1>1, <2>1
  <1>3. ASSUME NEW s \in SUBSET S, s # {} PROVE \A x \in s : sum(s) = f[x] + sum(s \ {x})
    <2>1. IsFiniteSet(s) /\ \A x \in s : f[x] \in Int
      BY FS_Subset
    <2> QED
      BY <2>1, SumRemove DEF sum
  <1>4. ASSUME NEW s \in SUBSET S, s # {}, \A x \in s : s \ {x} \in P
        PROVE  s \in P
    <2>1. PICK x \in s : TRUE
      BY <1>4
    <2>2. sum(s) = f[x] + sum(s \ {x})
      BY <1>3, <1>4
    <2>3. sum(s \ {x}) \in Nat /\ f[x] \in Nat
      BY <1>1, <1>4
    <2> QED
      BY <1>1, <2>2, <2>3
  <1>5. \A s \in SUBSET S : s \in P
    BY <1>2, <1>4, SubsetInduction
  <1>6. \A s \in SUBSET S : sum(s) \in Nat
    BY <1>1, <1>5
  <1>7. \A x \in S : f[x] <= sum(S)
    <2> SUFFICES ASSUME NEW x \in S PROVE f[x] <= sum(S)
      OBVIOUS
    <2>1. sum(S) = f[x] + sum(S \ {x})
      BY <1>3
    <2>2. sum(S \ {x}) \in Nat /\ f[x] \in Nat
      BY <1>6
    <2> QED
      BY <2>1, <2>2
  <1> QED
    BY <1>6, <1>7 DEF sum

-----------------------------------------------------------------------------
(* Sequences of sequences, one after the other.                            *)

\* What FlattenSeq is defined by, on the first n of the sequences ss.
IsFlat(g, ss, n) ==
  g = [i \in 1 .. n |-> IF i = 1 THEN ss[i] ELSE g[i - 1] \o ss[i]]

\* It is defined.
LEMMA FlatDefined ==
  ASSUME NEW U, NEW n \in Nat, NEW ss, \A i \in 1 .. n : ss[i] \in Seq(U)
  PROVE  \E g \in [1 .. n -> Seq(U)] : IsFlat(g, ss, n)
  <1> DEFINE step(g, i) == IF i = 1 THEN ss[i] ELSE g[i - 1] \o ss[i]
  <1>1. PICK Q : Q = {m \in Nat : m <= n => \E g \in [1 .. m -> Seq(U)] :
                                    \A i \in 1 .. m : g[i] = step(g, i)}
    OBVIOUS
  <1>2. 0 \in Q
    <2>1. PICK g : g = [i \in 1 .. 0 |-> <<>>]
      OBVIOUS
    <2>2. g \in [1 .. 0 -> Seq(U)] /\ 1 .. 0 = {}
      BY <2>1
    <2> QED
      BY <1>1, <2>2
  <1>3. ASSUME NEW m \in Nat, m \in Q PROVE m + 1 \in Q
    <2> SUFFICES ASSUME m + 1 <= n
                 PROVE  \E g \in [1 .. m + 1 -> Seq(U)] :
                          \A i \in 1 .. m + 1 : g[i] = step(g, i)
      BY <1>1
    <2>1. PICK g \in [1 .. m -> Seq(U)] : \A i \in 1 .. m : g[i] = step(g, i)
      BY <1>1, <1>3
    <2>2. step(g, m + 1) \in Seq(U)
      <3>1. ss[m + 1] \in Seq(U)
        OBVIOUS
      <3>2. CASE m = 0
        BY <3>1, <3>2
      <3>3. CASE m # 0
        <4>1. (m + 1) - 1 = m /\ m \in 1 .. m
          BY <3>3
        <4>2. g[m] \in Seq(U)
          BY <2>1, <4>1
        <4> QED
          BY <3>1, <4>1, <4>2, ConcatProperties
      <3> QED
        BY <3>2, <3>3
    <2> HIDE DEF step
    <2>3. PICK h : h = [i \in 1 .. m + 1 |-> IF i = m + 1 THEN step(g, m + 1) ELSE g[i]]
      OBVIOUS
    <2>4. h \in [1 .. m + 1 -> Seq(U)]
      BY <2>1, <2>2, <2>3
    <2>5. ASSUME NEW i \in 1 .. m + 1 PROVE h[i] = step(h, i)
      <3>1. h[i] = step(g, i)
        BY <2>1, <2>3
      <3>2. CASE i = 1
        BY <3>1, <3>2 DEF step
      <3>3. CASE i # 1
        <4>1. i - 1 \in 1 .. m
          BY <3>3
        <4>2. h[i - 1] = g[i - 1]
          BY <2>3, <4>1
        <4> QED
          BY <3>1, <3>3, <4>2 DEF step
      <3> QED
        BY <3>2, <3>3
    <2> QED
      BY <2>4, <2>5
  <1>4. n \in Q
    <2>1. \A m \in Nat : m \in Q
      BY <1>2, <1>3, NumberInduction
    <2> QED
      BY <2>1
  <1>5. PICK g \in [1 .. n -> Seq(U)] : \A i \in 1 .. n : g[i] = step(g, i)
    BY <1>1, <1>4
  <1>6. g = [i \in 1 .. n |-> step(g, i)]
    <2> HIDE DEF step
    <2> QED
      BY <1>5
  <1> QED
    BY <1>5, <1>6 DEF IsFlat

SameStart(s, t, k) == \A i \in 1 .. k : s[i] = t[i]

\* It is the same for all sequences with the same beginning.
LEMMA FlatUnique ==
  ASSUME NEW n \in Nat, NEW m \in Nat, NEW k \in Nat, k <= n, k <= m,
         NEW ss, NEW tt, SameStart(ss, tt, k),
         NEW g, NEW h, IsFlat(g, ss, n), IsFlat(h, tt, m)
  PROVE  SameStart(g, h, k)
  <1>1. PICK Q : Q = {i \in Nat : i + 1 \in 1 .. k => g[i + 1] = h[i + 1]}
    OBVIOUS
  <1>2. ASSUME NEW i \in 1 .. k
        PROVE  /\ ss[i] = tt[i]
               /\ g[i] = IF i = 1 THEN ss[i] ELSE g[i - 1] \o ss[i]
               /\ h[i] = IF i = 1 THEN tt[i] ELSE h[i - 1] \o tt[i]
    <2>1. i \in 1 .. n /\ i \in 1 .. m
      OBVIOUS
    <2> QED
      BY <2>1 DEF IsFlat, SameStart
  <1>3. 0 \in Q
    BY <1>1, <1>2
  <1>4. ASSUME NEW i \in Nat, i \in Q PROVE i + 1 \in Q
    <2> SUFFICES ASSUME (i + 1) + 1 \in 1 .. k
                 PROVE  g[(i + 1) + 1] = h[(i + 1) + 1]
      BY <1>1
    <2>1. i + 1 \in 1 .. k /\ (i + 1) + 1 # 1 /\ ((i + 1) + 1) - 1 = i + 1
      OBVIOUS
    <2>2. g[i + 1] = h[i + 1]
      BY <1>1, <1>4, <2>1
    <2>3. /\ g[(i + 1) + 1] = g[i + 1] \o ss[(i + 1) + 1]
          /\ h[(i + 1) + 1] = h[i + 1] \o ss[(i + 1) + 1]
      BY <1>2, <2>1
    <2> QED
      BY <2>2, <2>3
  <1>5. \A i \in Nat : i \in Q
    BY <1>3, <1>4, NumberInduction
  <1>6. ASSUME NEW i \in 1 .. k PROVE g[i] = h[i]
    <2>1. i - 1 \in Nat /\ (i - 1) + 1 = i
      OBVIOUS
    <2> QED
      BY <1>1, <1>5, <2>1
  <1> QED
    BY <1>6 DEF SameStart

\* FlattenSeq in terms of it.
LEMMA FlattenIsFlat ==
  ASSUME NEW U, NEW n \in Nat, NEW ss \in Seq(Seq(U)), n <= Len(ss), n # 0,
         NEW g, IsFlat(g, ss, Len(ss))
  PROVE  FlattenSeq([i \in 1 .. n |-> ss[i]]) = g[n]
  <1>1. PICK tt : tt = [i \in 1 .. n |-> ss[i]]
    OBVIOUS
  <1>2. tt \in Seq(Seq(U)) /\ Len(tt) = n /\ \A i \in 1 .. n : tt[i] = ss[i]
    BY <1>1
  <1>3. \A i \in 1 .. n : tt[i] \in Seq(U)
    BY <1>2
  <1>4. \E h : IsFlat(h, tt, n)
    BY <1>3, FlatDefined
  <1>5. PICK h : h = CHOOSE k : IsFlat(k, tt, n)
    OBVIOUS
  <1>6. IsFlat(h, tt, n)
    BY <1>4, <1>5
  <1>7. FlattenSeq(tt) = h[n]
    BY <1>2, <1>5 DEF FlattenSeq, IsFlat
  <1>8. \A i \in 1 .. n : h[i] = g[i]
    <2>1. PICK m \in Nat, k \in Nat : m = Len(ss) /\ k = n /\ k <= n /\ k <= m
      OBVIOUS
    <2>2. IsFlat(g, ss, m) /\ SameStart(tt, ss, k)
      BY <1>2, <2>1 DEF SameStart
    <2>3. SameStart(h, g, k)
      BY <1>6, <2>1, <2>2, FlatUnique
    <2> QED
      BY <2>1, <2>3 DEF SameStart
  <1> QED
    BY <1>1, <1>7, <1>8

\* No sequence at all.
LEMMA FlattenNothing == FlattenSeq(<<>>) = <<>>
  BY DEF FlattenSeq

\* The first n sequences flattened are the first n - 1 of them, and the next.
LEMMA FlattenNext ==
  ASSUME NEW U, NEW ss \in Seq(Seq(U)), NEW n \in 1 .. Len(ss)
  PROVE  /\ FlattenSeq([i \in 1 .. n |-> ss[i]]) \in Seq(U)
         /\ FlattenSeq([i \in 1 .. n |-> ss[i]]) =
              FlattenSeq([i \in 1 .. n - 1 |-> ss[i]]) \o ss[n]
  <1>1. \A i \in 1 .. Len(ss) : ss[i] \in Seq(U)
    OBVIOUS
  <1>2. PICK g \in [1 .. Len(ss) -> Seq(U)] : IsFlat(g, ss, Len(ss))
    <2>1. PICK m \in Nat : m = Len(ss)
      OBVIOUS
    <2>2. \E g \in [1 .. m -> Seq(U)] : IsFlat(g, ss, m)
      BY <1>1, <2>1, FlatDefined
    <2> QED
      BY <2>1, <2>2
  <1>3. FlattenSeq([i \in 1 .. n |-> ss[i]]) = g[n]
    BY SMTT(30), <1>2, FlattenIsFlat
  <1>4. g[n] = IF n = 1 THEN ss[n] ELSE g[n - 1] \o ss[n]
    BY <1>2 DEF IsFlat
  <1>5. CASE n = 1
    <2>1. [i \in 1 .. n - 1 |-> ss[i]] = <<>>
      BY <1>5
    <2>2. FlattenSeq(<<>>) = <<>>
      BY DEF FlattenSeq
    <2>3. <<>> \o ss[n] = ss[n]
      BY <1>1
    <2> QED
      BY <1>2, <1>3, <1>4, <1>5, <2>1, <2>2, <2>3
  <1>6. CASE n # 1
    <2>1. n - 1 \in Nat /\ n - 1 <= Len(ss) /\ n - 1 # 0
      BY <1>6
    <2>2. FlattenSeq([i \in 1 .. n - 1 |-> ss[i]]) = g[n - 1]
      BY <1>2, <2>1, FlattenIsFlat
    <2> QED
      BY <1>2, <1>3, <1>4, <1>6, <2>2
  <1> QED
    BY <1>5, <1>6

\* Sequence j of ss starts after all those before it, which are r[k] long.
FlattenedAt(flat, ss, r, n) ==
  /\ Len(flat) = FoldFunctionOnSet(+, 0, r, 1 .. n)
  /\ \A j \in 1 .. n : \A l \in 1 .. r[j] :
       LET o == FoldFunctionOnSet(+, 0, r, 1 .. j - 1)
       IN  o \in Nat /\ o + l \in 1 .. Len(flat) /\ flat[o + l] = ss[j][l]

\* Where the elements of each sequence are, when all are put together.
LEMMA FlattenAt ==
  ASSUME NEW U, NEW ss \in Seq(Seq(U)), NEW r,
         \A k \in 1 .. Len(ss) : r[k] = Len(ss[k])
  PROVE  FlattenSeq(ss) \in Seq(U) /\ FlattenedAt(FlattenSeq(ss), ss, r, Len(ss))
  <1> DEFINE F(n) == FlattenSeq([i \in 1 .. n |-> ss[i]])
             O(n) == FoldFunctionOnSet(+, 0, r, 1 .. n)
  <1> HIDE DEF F, O
  <1> DEFINE Here(n) == /\ F(n) \in Seq(U) /\ Len(F(n)) = O(n)
                        /\ \A j \in 1 .. n : \A l \in 1 .. r[j] :
                             O(j - 1) + l \in 1 .. O(n) /\ F(n)[O(j - 1) + l] = ss[j][l]
  <1>0. Len(ss) \in Nat
    OBVIOUS
  <1>1. \A k \in 1 .. Len(ss) : ss[k] \in Seq(U) /\ r[k] \in Nat
    OBVIOUS
  <1>2. \A n \in Nat : n <= Len(ss) => O(n) \in Nat
    <2> SUFFICES ASSUME NEW n \in Nat, n <= Len(ss) PROVE O(n) \in Nat
      OBVIOUS
    <2>1. IsFiniteSet(1 .. n) /\ \A x \in 1 .. n : r[x] \in Nat
      BY <1>1, FS_Interval
    <2> QED
      BY <2>1, SumNat DEF O
  <1>3. ASSUME NEW n \in Nat, n + 1 <= Len(ss) PROVE O(n + 1) = O(n) + r[n + 1]
    <2>1. PICK S : S = 1 .. n + 1
      OBVIOUS
    <2>2. IsFiniteSet(S) /\ n + 1 \in S /\ \A x \in S : r[x] \in Int
      <3>1. n + 1 \in Int /\ n + 1 \in S
        BY <2>1
      <3>2. \A x \in S : x \in 1 .. Len(ss)
        BY <1>0, <1>3, <2>1
      <3>3. \A x \in S : r[x] \in Nat
        BY <1>1, <3>2
      <3>4. IsFiniteSet(S)
        BY <2>1, FS_Interval
      <3> QED
        BY <3>1, <3>3, <3>4
    <2>3. FoldFunctionOnSet(+, 0, r, S) = r[n + 1] + FoldFunctionOnSet(+, 0, r, S \ {n + 1})
      BY <2>2, SumRemove
    <2>4. S \ {n + 1} = 1 .. n
      BY <2>1
    <2>5. O(n) \in Nat /\ n + 1 \in 1 .. Len(ss)
      <3>1. n <= Len(ss) /\ n + 1 \in 1 .. Len(ss)
        BY <1>0, <1>3
      <3> QED
        BY <1>2, <3>1
    <2>6. r[n + 1] \in Nat
      BY <1>1, <2>5
    <2>7. O(n + 1) = r[n + 1] + O(n)
      BY <2>1, <2>3, <2>4 DEF O
    <2> QED
      BY <2>5, <2>6, <2>7
  <1>4. F(0) = <<>> /\ O(0) = 0
    <2>1. [i \in 1 .. 0 |-> ss[i]] = <<>> /\ 1 .. 0 = {}
      OBVIOUS
    <2>2. FlattenSeq(<<>>) = <<>>
      BY DEF FlattenSeq
    <2> QED
      BY <2>1, <2>2, SumEmpty DEF F, O
  <1>5. \A n \in Nat : n + 1 <= Len(ss) => F(n + 1) \in Seq(U) /\ F(n + 1) = F(n) \o ss[n + 1]
    <2> SUFFICES ASSUME NEW n \in Nat, n + 1 <= Len(ss)
                 PROVE  F(n + 1) \in Seq(U) /\ F(n + 1) = F(n) \o ss[n + 1]
      OBVIOUS
    <2>1. PICK m : m = n + 1 /\ m - 1 = n /\ m \in 1 .. Len(ss)
      OBVIOUS
    <2>2. F(m) \in Seq(U) /\ F(m) = F(m - 1) \o ss[m]
      BY <2>1, FlattenNext DEF F
    <2> QED
      BY <2>1, <2>2
  <1>6. PICK Q : Q = {n \in Nat : n <= Len(ss) => Here(n)}
    OBVIOUS
  <1>7. 0 \in Q
    <2>1. 1 .. 0 = {} /\ Len(<<>>) = 0 /\ <<>> \in Seq(U)
      OBVIOUS
    <2>2. Here(0)
      BY <1>4, <2>1
    <2> QED
      BY <1>6, <2>2
  <1>8. ASSUME NEW n \in Nat, n \in Q PROVE n + 1 \in Q
    <2> SUFFICES ASSUME n + 1 <= Len(ss) PROVE Here(n + 1)
      BY <1>6
    <2>1. Here(n)
      BY <1>6, <1>8
    <2>2. PICK a, b, c : a = F(n) /\ b = ss[n + 1] /\ c = F(n + 1)
      OBVIOUS
    <2>3. a \in Seq(U) /\ b \in Seq(U) /\ c \in Seq(U) /\ c = a \o b
      <3>1. n + 1 \in 1 .. Len(ss)
        OBVIOUS
      <3>2. c \in Seq(U) /\ c = a \o b
        BY <1>5, <2>2
      <3> QED
        BY <1>1, <2>1, <2>2, <3>1, <3>2
    <2>4. Len(a) = O(n) /\ Len(b) = r[n + 1] /\ O(n + 1) = O(n) + r[n + 1] /\ r[n + 1] \in Nat /\ O(n) \in Nat
      BY <1>1, <1>2, <1>3, <2>1, <2>2
    <2>5. /\ Len(c) = Len(a) + Len(b)
          /\ \A i \in 1 .. Len(a) : c[i] = a[i]
          /\ \A i \in 1 .. Len(b) : c[Len(a) + i] = b[i]
      BY <2>3, ConcatProperties
    <2>6. ASSUME NEW j \in 1 .. n + 1, NEW l \in 1 .. r[j]
          PROVE  O(j - 1) + l \in 1 .. O(n + 1) /\ c[O(j - 1) + l] = ss[j][l]
      <3>1. CASE j = n + 1
        <4>1. j - 1 = n /\ l \in 1 .. r[n + 1]
          BY <3>1
        <4>2. O(j - 1) = Len(a) /\ l \in 1 .. Len(b)
          BY <2>4, <4>1
        <4>3. c[O(j - 1) + l] = ss[j][l]
          BY <2>2, <2>5, <3>1, <4>2
        <4>4. O(j - 1) + l \in 1 .. O(n + 1)
          BY SMTT(30), <2>4, <4>2
        <4> QED
          BY <4>3, <4>4
      <3>2. CASE j \in 1 .. n
        <4>1. O(j - 1) + l \in 1 .. O(n) /\ a[O(j - 1) + l] = ss[j][l]
          BY <2>1, <2>2, <2>6, <3>2
        <4> QED
          BY SMTT(30), <2>4, <2>5, <4>1
      <3> QED
        BY <3>1, <3>2
    <2> QED
      BY <2>2, <2>3, <2>4, <2>5, <2>6
  <1>9. \A n \in Nat : n \in Q
    BY <1>7, <1>8, NumberInduction
  <1>10. Here(Len(ss))
    BY SMTT(30), <1>6, <1>9
  <1>11. [i \in 1 .. Len(ss) |-> ss[i]] = ss
    OBVIOUS
  <1>12. \A j \in 1 .. Len(ss) : O(j - 1) \in Nat
    BY <1>2
  <1> QED
    BY <1>10, <1>11, <1>12 DEF F, O, FlattenedAt

-----------------------------------------------------------------------------
(* Powers of two, which the provers only know of the number of subsets.    *)

\* Each is twice the one before.
LEMMA TwoToNext ==
  ASSUME NEW n \in Nat
  PROVE  2 ^ n \in Nat /\ 2 ^ (n + 1) = 2 * 2 ^ n
  <1>1. PICK m \in Nat : m = n + 1
    OBVIOUS
  <1>2. PICK A, B, C : /\ A = SUBSET (1 .. n) /\ C = SUBSET (1 .. m)
                       /\ B = {s \cup {m} : s \in A}
    OBVIOUS
  <1>3. /\ IsFiniteSet(1 .. n) /\ Cardinality(1 .. n) = n
        /\ IsFiniteSet(1 .. m) /\ Cardinality(1 .. m) = m
    <2>1. (IF 1 > n THEN 0 ELSE n - 1 + 1) = n /\ (IF 1 > m THEN 0 ELSE m - 1 + 1) = m
      BY <1>1
    <2> QED
      BY <2>1, FS_Interval
  <1>4. IsFiniteSet(A) /\ Cardinality(A) = 2 ^ n /\ IsFiniteSet(C) /\ Cardinality(C) = 2 ^ m
    BY <1>2, <1>3, FS_SUBSET
  <1>5. IsFiniteSet(B) /\ Cardinality(B) = Cardinality(A)
    <2>1. PICK f : f = [s \in A |-> s \cup {m}]
      OBVIOUS
    <2>2. \A s \in A : m \notin s /\ f[s] \ {m} = s
      BY <1>1, <1>2, <2>1
    <2>3. \A s, t \in A : f[s] = f[t] => s = t
      BY <2>2
    <2>4. f \in Bijection(A, B)
      BY <1>2, <2>1, <2>3 DEF Bijection, Injection, Surjection, IsInjective
    <2>5. ExistsBijection(A, B)
      BY <2>4 DEF ExistsBijection
    <2> QED
      BY <1>4, <2>5, FS_Bijection
  <1>6. A \cap B = {}
    BY <1>1, <1>2
  <1>7. C = A \cup B
    <2>1. 1 .. m = (1 .. n) \cup {m}
      BY <1>1
    <2>2. ASSUME NEW s \in C PROVE s \in A \cup B
      <3>1. CASE m \in s
        <4>1. s \ {m} \in A /\ s = (s \ {m}) \cup {m}
          BY <1>2, <2>1, <3>1
        <4> QED
          BY <1>2, <4>1
      <3>2. CASE m \notin s
        BY <1>2, <2>1, <3>2
      <3> QED
        BY <3>1, <3>2
    <2>3. A \cup B \subseteq C
      BY <1>2, <2>1
    <2> QED
      BY <2>2, <2>3
  <1>8. IsFiniteSet({}) /\ Cardinality({}) = 0
    BY FS_EmptySet
  <1>9. Cardinality(A \cup B) = Cardinality(A) + Cardinality(B) - Cardinality(A \cap B)
    BY <1>4, <1>5, FS_Union
  <1>10. Cardinality(A) \in Nat
    BY <1>4, FS_CardinalityType
  <1>11. PICK p, q, c : p = 2 ^ n /\ q = 2 ^ m /\ c = Cardinality(A)
    OBVIOUS
  <1>12. q = c + c /\ p = c /\ c \in Nat
    <2>1. Cardinality(C) = c + c
      BY <1>5, <1>6, <1>7, <1>8, <1>9, <1>10, <1>11
    <2>2. q = Cardinality(C) /\ p = Cardinality(A)
      BY <1>4, <1>11
    <2> QED
      BY <1>10, <1>11, <2>1, <2>2
  <1> QED
    BY <1>1, <1>11, <1>12

\* Powers of two are positive, and above their exponents.
LEMMA TwoToAbove ==
  \A n \in Nat : 2 ^ n \in Nat /\ n + 1 <= 2 ^ n
  <1>1. PICK Q : Q = {n \in Nat : n + 1 <= 2 ^ n}
    OBVIOUS
  <1>2. 0 \in Q
    BY <1>1
  <1>3. ASSUME NEW n \in Nat, n \in Q PROVE n + 1 \in Q
    <2>1. PICK p, q : p = 2 ^ n /\ q = 2 ^ (n + 1)
      OBVIOUS
    <2>2. p \in Nat /\ q = 2 * p
      BY <2>1, TwoToNext
    <2>3. n + 1 <= p
      BY <1>1, <1>3, <2>1
    <2>4. (n + 1) + 1 <= q
      BY <2>2, <2>3
    <2> QED
      BY <1>1, <2>1, <2>4
  <1>4. \A n \in Nat : n \in Q
    BY <1>2, <1>3, NumberInduction
  <1> QED
    BY <1>1, <1>4, TwoToNext

\* The quotient is the number q with b * q <= a < b * (q + 1).
LEMMA Quotient ==
  ASSUME NEW a \in Nat, NEW b \in Nat, b # 0
  PROVE  /\ a \div b \in Nat /\ b * (a \div b) <= a /\ a < b * (a \div b) + b
         /\ \A q \in Nat : b * q <= a /\ a < b * q + b => a \div b = q
  <1>1. PICK d, r : d = a \div b /\ r = a % b
    OBVIOUS
  <1>2. d \in Int /\ r \in Nat /\ r < b /\ a = b * d + r
    BY <1>1
  <1>3. d >= 0
    <2> SUFFICES ASSUME d <= -1 PROVE FALSE
      BY <1>2
    <2>1. b * d <= b * (-1)
      BY <1>2
    <2> QED
      BY <1>2, <2>1
  <1>4. ASSUME NEW q \in Nat, b * q <= a, a < b * q + b PROVE d = q
    <2>1. CASE d <= q - 1
      <3>1. b * d <= b * (q - 1)
        BY <1>2, <2>1
      <3>2. b * (q - 1) = b * q - b
        OBVIOUS
      <3> QED
        BY <1>2, <1>4, <3>1, <3>2
    <2>2. CASE q <= d - 1
      <3>1. b * q <= b * (d - 1)
        BY <1>2, <2>2
      <3>2. b * (d - 1) = b * d - b
        BY <1>2
      <3> QED
        BY <1>2, <1>4, <3>1, <3>2
    <2> QED
      BY <1>2, <2>1, <2>2
  <1>5. d \in Nat /\ b * d <= a /\ a < b * d + b
    BY <1>2, <1>3
  <1> QED
    BY <1>1, <1>4, <1>5

\* Halving h times, and once more, before or after.
LEMMA HalfOfQuotient ==
  ASSUME NEW a \in Nat, NEW h \in Nat
  PROVE  /\ a \div 2 ^ h \in Nat
         /\ a \div 2 ^ (h + 1) = (a \div 2 ^ h) \div 2
         /\ a \div 2 ^ (h + 1) = (a \div 2) \div 2 ^ h
  <1>1. PICK b, c : b = 2 ^ h /\ c = 2 ^ (h + 1)
    OBVIOUS
  <1>2. b \in Nat /\ b # 0 /\ c = 2 * b /\ c \in Nat /\ c # 0
    BY <1>1, TwoToNext, TwoToAbove
  <1>3. PICK d, e, f, g : d = a \div b /\ e = d \div 2 /\ f = a \div 2 /\ g = f \div b
    OBVIOUS
  <1>4. d \in Nat /\ b * d <= a /\ a < b * d + b
    BY <1>2, <1>3, Quotient
  <1>5. f \in Nat /\ 2 * f <= a /\ a < 2 * f + 2
    BY <1>3
  <1>6. e \in Nat /\ 2 * e <= d /\ d <= 2 * e + 1
    BY <1>3, <1>4
  <1>7. g \in Nat /\ b * g <= f /\ f < b * g + b
    BY <1>2, <1>3, <1>5, Quotient
  <1>8. \A q \in Nat : c * q <= a /\ a < c * q + c => a \div c = q
    BY <1>2, Quotient
  <1>9. a \div c = e
    <2>1. b * (2 * e) <= b * d /\ b * d <= b * (2 * e + 1)
      BY <1>2, <1>4, <1>6
    <2>2. b * (2 * e) = c * e /\ b * (2 * e + 1) = c * e + b
      BY <1>2, <1>6
    <2>3. c * e \in Nat /\ b * d \in Nat
      BY <1>2, <1>4, <1>6
    <2> QED
      BY <1>2, <1>4, <1>6, <1>8, <2>1, <2>2, <2>3
  <1>10. a \div c = g
    <2>1. c * g = 2 * (b * g)
      BY <1>2, <1>7
    <2>2. c * g \in Nat /\ b * g \in Nat
      BY <1>2, <1>7
    <2> QED
      BY <1>2, <1>5, <1>7, <1>8, <2>1, <2>2
  <1> QED
    BY <1>1, <1>3, <1>4, <1>9, <1>10

-----------------------------------------------------------------------------
(* Residues.                                                               *)

\* A residue is known by the equation it solves.
LEMMA Residue ==
  ASSUME NEW m \in Nat \ {0}, NEW c \in Int, NEW q \in Int, NEW r \in 0 .. m - 1, c = m * q + r
  PROVE  c % m = r
  <1>1. PICK d, s : d = c \div m /\ s = c % m
    OBVIOUS
  <1>2. d \in Int /\ s \in 0 .. m - 1 /\ c = m * d + s
    BY <1>1
  <1>3. CASE d <= q - 1
    <2>1. m * d <= m * (q - 1)
      BY <1>2, <1>3
    <2>2. m * (q - 1) = m * q - m
      OBVIOUS
    <2> QED
      BY <1>2, <2>1, <2>2
  <1>4. CASE q <= d - 1
    <2>1. m * q <= m * (d - 1)
      BY <1>2, <1>4
    <2>2. m * (d - 1) = m * d - m
      BY <1>2
    <2> QED
      BY <1>2, <2>1, <2>2
  <1>5. CASE d = q
    BY <1>1, <1>2, <1>5
  <1> QED
    BY <1>2, <1>3, <1>4, <1>5

\* A multiple of m does not count.
LEMMA ResidueOfSum ==
  ASSUME NEW m \in Nat \ {0}, NEW a \in Int, NEW b \in Int
  PROVE  (a + m * b) % m = a % m /\ a % m \in 0 .. m - 1
  <1>1. PICK q, r : q = a \div m /\ r = a % m
    OBVIOUS
  <1>2. q \in Int /\ r \in 0 .. m - 1 /\ a = m * q + r
    BY <1>1
  <1>3. PICK c, d : c = a + m * b /\ d = q + b
    OBVIOUS
  <1>4. c \in Int /\ d \in Int /\ c = m * d + r
    <2>1. m * (q + b) = m * q + m * b /\ m * b \in Int
      BY <1>2
    <2> QED
      BY <1>2, <1>3, <2>1
  <1>5. c % m = r
    BY <1>2, <1>4, Residue
  <1> QED
    BY <1>1, <1>2, <1>3, <1>5

-----------------------------------------------------------------------------
(* Sums of sums, of zeros, of congruent numbers and in another order.      *)

\* The sum of the sums of two functions.
LEMMA SumOfTwo ==
  ASSUME NEW S, IsFiniteSet(S), NEW f, NEW g, NEW h,
         \A x \in S : f[x] \in Int /\ g[x] \in Int /\ h[x] = f[x] + g[x]
  PROVE  FoldFunctionOnSet(+, 0, h, S) =
           FoldFunctionOnSet(+, 0, f, S) + FoldFunctionOnSet(+, 0, g, S)
  <1>1. PICK P : P = {s \in SUBSET S : FoldFunctionOnSet(+, 0, h, s) =
                       FoldFunctionOnSet(+, 0, f, s) + FoldFunctionOnSet(+, 0, g, s)}
    OBVIOUS
  <1>2. {} \in P
    <2>1. /\ FoldFunctionOnSet(+, 0, h, {}) = 0 /\ FoldFunctionOnSet(+, 0, f, {}) = 0
          /\ FoldFunctionOnSet(+, 0, g, {}) = 0
      BY SumEmpty
    <2>2. 0 = 0 + 0
      OBVIOUS
    <2>3. FoldFunctionOnSet(+, 0, h, {}) =
            FoldFunctionOnSet(+, 0, f, {}) + FoldFunctionOnSet(+, 0, g, {})
      BY <2>1, <2>2
    <2> QED
      BY <1>1, <2>3
  <1>3. ASSUME NEW s \in SUBSET S, s # {}, \A x \in s : s \ {x} \in P PROVE s \in P
    <2>1. PICK e : e \in s
      BY <1>3
    <2>2. PICK r : r = s \ {e}
      OBVIOUS
    <2>3. IsFiniteSet(s) /\ IsFiniteSet(r)
      BY <2>2, FS_Subset
    <2>4. \A x \in s : f[x] \in Int /\ g[x] \in Int /\ h[x] \in Int
      OBVIOUS
    <2>5. /\ FoldFunctionOnSet(+, 0, h, s) = h[e] + FoldFunctionOnSet(+, 0, h, r)
          /\ FoldFunctionOnSet(+, 0, f, s) = f[e] + FoldFunctionOnSet(+, 0, f, r)
          /\ FoldFunctionOnSet(+, 0, g, s) = g[e] + FoldFunctionOnSet(+, 0, g, r)
      BY <2>1, <2>2, <2>3, <2>4, SumRemove
    <2>6. /\ FoldFunctionOnSet(+, 0, f, r) \in Int /\ FoldFunctionOnSet(+, 0, g, r) \in Int
      BY <2>2, <2>3, <2>4, SumType
    <2>7. FoldFunctionOnSet(+, 0, h, r) =
            FoldFunctionOnSet(+, 0, f, r) + FoldFunctionOnSet(+, 0, g, r)
      BY <1>1, <1>3, <2>1, <2>2
    <2>8. f[e] \in Int /\ g[e] \in Int /\ h[e] = f[e] + g[e]
      BY <2>1
    <2>9. PICK a, b, c, d : /\ a = FoldFunctionOnSet(+, 0, f, r) /\ b = FoldFunctionOnSet(+, 0, g, r)
                            /\ c = f[e] /\ d = g[e]
      OBVIOUS
    <2>10. (c + d) + (a + b) = (c + a) + (d + b)
      <3>1. a \in Int /\ b \in Int /\ c \in Int /\ d \in Int
        BY <2>6, <2>8, <2>9
      <3> QED
        BY <3>1
    <2>11. FoldFunctionOnSet(+, 0, h, s) =
             FoldFunctionOnSet(+, 0, f, s) + FoldFunctionOnSet(+, 0, g, s)
      BY <2>5, <2>7, <2>8, <2>9, <2>10
    <2> QED
      BY <1>1, <2>11
  <1>4. \A s \in SUBSET S : s \in P
    BY <1>2, <1>3, SubsetInduction
  <1> QED
    BY <1>1, <1>4

\* The sum of zeros.
LEMMA SumZero ==
  ASSUME NEW S, IsFiniteSet(S), NEW f, \A x \in S : f[x] = 0
  PROVE  FoldFunctionOnSet(+, 0, f, S) = 0
  <1>1. PICK P : P = {s \in SUBSET S : FoldFunctionOnSet(+, 0, f, s) = 0}
    OBVIOUS
  <1>2. {} \in P
    BY <1>1, SumEmpty
  <1>3. ASSUME NEW s \in SUBSET S, s # {}, \A x \in s : s \ {x} \in P PROVE s \in P
    <2>1. PICK e : e \in s
      BY <1>3
    <2>2. PICK r : r = s \ {e}
      OBVIOUS
    <2>3. IsFiniteSet(s)
      BY FS_Subset
    <2>4. \A x \in s : f[x] \in Int
      OBVIOUS
    <2>5. FoldFunctionOnSet(+, 0, f, s) = f[e] + FoldFunctionOnSet(+, 0, f, r)
      BY <2>1, <2>2, <2>3, <2>4, SumRemove
    <2>6. FoldFunctionOnSet(+, 0, f, r) = 0 /\ f[e] = 0
      BY <1>1, <1>3, <2>1, <2>2
    <2>7. 0 + 0 = 0
      OBVIOUS
    <2>8. FoldFunctionOnSet(+, 0, f, s) = 0
      BY <2>5, <2>6, <2>7
    <2> QED
      BY <1>1, <2>8
  <1>4. \A s \in SUBSET S : s \in P
    BY <1>2, <1>3, SubsetInduction
  <1> QED
    BY <1>1, <1>4

\* Zeros do not count.
LEMMA SumOver ==
  ASSUME NEW S, IsFiniteSet(S), NEW T \in SUBSET S, NEW f,
         \A x \in T : f[x] \in Int, \A x \in S \ T : f[x] = 0
  PROVE  FoldFunctionOnSet(+, 0, f, S) = FoldFunctionOnSet(+, 0, f, T)
  <1>1. PICK R : R = S \ T
    OBVIOUS
  <1>2. IsFiniteSet(T) /\ IsFiniteSet(R) /\ T \cap R = {} /\ T \cup R = S
    BY <1>1, FS_Subset
  <1>3. \A x \in T \cup R : f[x] \in Int
    BY <1>1
  <1>4. FoldFunctionOnSet(+, 0, f, T \cup R) =
          FoldFunctionOnSet(+, 0, f, T) + FoldFunctionOnSet(+, 0, f, R)
    BY <1>2, <1>3, SumUnion
  <1>5. FoldFunctionOnSet(+, 0, f, R) = 0
    BY <1>1, <1>2, SumZero
  <1>6. PICK a : a = FoldFunctionOnSet(+, 0, f, T)
    OBVIOUS
  <1>7. a \in Int
    BY <1>2, <1>6, SumType
  <1>8. a + 0 = a
    BY <1>7
  <1> QED
    BY <1>2, <1>4, <1>5, <1>6, <1>8

\* A sum with one summand.
LEMMA SumOne ==
  ASSUME NEW S, IsFiniteSet(S), NEW e \in S, NEW f, f[e] \in Int, \A x \in S \ {e} : f[x] = 0
  PROVE  FoldFunctionOnSet(+, 0, f, S) = f[e]
  <1>1. PICK R : R = S \ {e}
    OBVIOUS
  <1>2. IsFiniteSet(R)
    BY <1>1, FS_Subset
  <1>3. \A x \in S : f[x] \in Int
    OBVIOUS
  <1>4. FoldFunctionOnSet(+, 0, f, S) = f[e] + FoldFunctionOnSet(+, 0, f, R)
    BY <1>1, <1>3, SumRemove
  <1>5. FoldFunctionOnSet(+, 0, f, R) = 0
    BY <1>1, <1>2, SumZero
  <1>6. f[e] + 0 = f[e]
    OBVIOUS
  <1> QED
    BY <1>4, <1>5, <1>6

\* Numbers that are the same modulo m.
Congruent(m, a, b) == a % m = b % m

\* Sums of congruent numbers.
LEMMA ResidueOfTwo ==
  ASSUME NEW m \in Nat \ {0}, NEW a \in Int, NEW b \in Int, NEW c \in Int, NEW d \in Int,
         Congruent(m, a, c), Congruent(m, b, d)
  PROVE  Congruent(m, a + b, c + d)
  <1> USE DEF Congruent
  <1>1. PICK p, q, r, s : p = a \div m /\ q = b \div m /\ r = c \div m /\ s = d \div m
    OBVIOUS
  <1>2. PICK e, f : e = a % m /\ f = b % m
    OBVIOUS
  <1>3. /\ p \in Int /\ q \in Int /\ r \in Int /\ s \in Int /\ e \in Int /\ f \in Int
        /\ a = m * p + e /\ b = m * q + f /\ c = m * r + e /\ d = m * s + f
    BY <1>1, <1>2
  <1>4. PICK t \in Int, k \in Int : t = e + f /\ k = p + q
    BY <1>3
  <1>5. PICK l \in Int : l = r + s
    BY <1>3
  <1>6. m * (p + q) = m * p + m * q /\ m * (r + s) = m * r + m * s
    BY <1>3
  <1>7. PICK mp \in Int, mq \in Int, mr \in Int, ms \in Int :
          mp = m * p /\ mq = m * q /\ mr = m * r /\ ms = m * s
    BY <1>3
  <1>8. a + b = t + m * k /\ c + d = t + m * l
    BY <1>3, <1>4, <1>5, <1>6, <1>7
  <1>9. (t + m * k) % m = t % m
    BY ResidueOfSum
  <1>10. (t + m * l) % m = t % m
    BY ResidueOfSum
  <1> QED
    BY <1>8, <1>9, <1>10

\* So the sums of two functions with congruent values are congruent.
LEMMA SumCongruent ==
  ASSUME NEW m \in Nat \ {0}, NEW S, IsFiniteSet(S), NEW f, NEW g,
         \A x \in S : f[x] \in Int /\ g[x] \in Int /\ Congruent(m, f[x], g[x])
  PROVE  Congruent(m, FoldFunctionOnSet(+, 0, f, S), FoldFunctionOnSet(+, 0, g, S))
  <1>1. PICK P : P = {s \in SUBSET S : Congruent(m, FoldFunctionOnSet(+, 0, f, s),
                                                 FoldFunctionOnSet(+, 0, g, s))}
    OBVIOUS
  <1>2. {} \in P
    <2>1. FoldFunctionOnSet(+, 0, f, {}) = 0 /\ FoldFunctionOnSet(+, 0, g, {}) = 0
      BY SumEmpty
    <2> QED
      BY <1>1, <2>1 DEF Congruent
  <1>3. ASSUME NEW s \in SUBSET S, s # {}, \A x \in s : s \ {x} \in P PROVE s \in P
    <2>1. PICK e : e \in s
      BY <1>3
    <2>2. PICK r : r = s \ {e}
      OBVIOUS
    <2>3. IsFiniteSet(s) /\ IsFiniteSet(r)
      BY <2>2, FS_Subset
    <2>4. \A x \in s : f[x] \in Int /\ g[x] \in Int
      OBVIOUS
    <2>5. /\ FoldFunctionOnSet(+, 0, f, s) = f[e] + FoldFunctionOnSet(+, 0, f, r)
          /\ FoldFunctionOnSet(+, 0, g, s) = g[e] + FoldFunctionOnSet(+, 0, g, r)
      BY <2>1, <2>2, <2>3, <2>4, SumRemove
    <2>6. FoldFunctionOnSet(+, 0, f, r) \in Int /\ FoldFunctionOnSet(+, 0, g, r) \in Int
      BY <2>2, <2>3, <2>4, SumType
    <2>7. Congruent(m, FoldFunctionOnSet(+, 0, f, r), FoldFunctionOnSet(+, 0, g, r))
      BY <1>1, <1>3, <2>1, <2>2
    <2>8. PICK a, b, c, d : /\ a = f[e] /\ b = FoldFunctionOnSet(+, 0, f, r)
                            /\ c = g[e] /\ d = FoldFunctionOnSet(+, 0, g, r)
      OBVIOUS
    <2>9. a \in Int /\ b \in Int /\ c \in Int /\ d \in Int /\ Congruent(m, a, c) /\ Congruent(m, b, d)
      BY <2>1, <2>6, <2>7, <2>8
    <2>10. Congruent(m, a + b, c + d)
      BY <2>9, ResidueOfTwo
    <2>11. Congruent(m, FoldFunctionOnSet(+, 0, f, s), FoldFunctionOnSet(+, 0, g, s))
      BY <2>5, <2>8, <2>10
    <2> QED
      BY <1>1, <2>11
  <1>4. \A s \in SUBSET S : s \in P
    BY <1>2, <1>3, SubsetInduction
  <1> QED
    BY <1>1, <1>4

\* g at b[x] is f at x, with another argument for each x in S; T has these.
Renames(b, S, T, f, g) ==
  /\ \A x, y \in S : b[x] = b[y] => x = y
  /\ \A x \in S : f[x] \in Int /\ g[b[x]] = f[x]
  /\ T = {b[x] : x \in S}

SameSum(T, g, S, f) == FoldFunctionOnSet(+, 0, g, T) = FoldFunctionOnSet(+, 0, f, S)

\* A sum does not depend on the names of its summands.
LEMMA SumRenamed ==
  ASSUME NEW S, NEW T, NEW f, NEW g, NEW b, IsFiniteSet(S), Renames(b, S, T, f, g)
  PROVE  SameSum(T, g, S, f)
  <1>0. /\ \A x, y \in S : b[x] = b[y] => x = y
        /\ \A x \in S : f[x] \in Int /\ g[b[x]] = f[x]
    BY DEF Renames
  <1>1. PICK P : P = {s \in SUBSET S : FoldFunctionOnSet(+, 0, g, {b[x] : x \in s}) =
                                       FoldFunctionOnSet(+, 0, f, s)}
    OBVIOUS
  <1>2. {} \in P
    <2>1. FoldFunctionOnSet(+, 0, f, {}) = 0 /\ FoldFunctionOnSet(+, 0, g, {}) = 0
      BY SumEmpty
    <2>2. {b[x] : x \in {}} = {}
      OBVIOUS
    <2> QED
      BY <1>1, <2>1, <2>2
  <1>3. ASSUME NEW s \in SUBSET S, s # {}, \A x \in s : s \ {x} \in P PROVE s \in P
    <2>1. PICK e : e \in s
      BY <1>3
    <2>2. PICK r, t, u, c : r = s \ {e} /\ t = {b[x] : x \in s} /\ u = {b[x] : x \in r} /\ c = b[e]
      OBVIOUS
    <2>3. IsFiniteSet(s) /\ IsFiniteSet(t)
      <3>1. IsFiniteSet(s)
        BY FS_Subset
      <3>2. [x \in s |-> b[x]] \in Surjection(s, t)
        BY <2>2 DEF Surjection
      <3> QED
        BY <3>1, <3>2, FS_Surjection
    <2>4. \A x \in s : f[x] \in Int
      BY <1>0
    <2>5. c \in t /\ \A y \in t : g[y] \in Int
      BY <1>0, <2>1, <2>2
    <2>6. u = t \ {c}
      BY <1>0, <2>1, <2>2
    <2>7. FoldFunctionOnSet(+, 0, f, s) = f[e] + FoldFunctionOnSet(+, 0, f, r)
      BY <2>1, <2>2, <2>3, <2>4, SumRemove
    <2>8. FoldFunctionOnSet(+, 0, g, t) = g[c] + FoldFunctionOnSet(+, 0, g, u)
      BY <2>3, <2>5, <2>6, SumRemove
    <2>9. FoldFunctionOnSet(+, 0, g, u) = FoldFunctionOnSet(+, 0, f, r)
      BY <1>1, <1>3, <2>1, <2>2
    <2>10. g[c] = f[e]
      BY <1>0, <2>1, <2>2
    <2>11. FoldFunctionOnSet(+, 0, g, t) = FoldFunctionOnSet(+, 0, f, s)
      BY <2>7, <2>8, <2>9, <2>10
    <2> QED
      BY <1>1, <2>2, <2>11
  <1>4. \A s \in SUBSET S : s \in P
    BY <1>2, <1>3, SubsetInduction
  <1>5. FoldFunctionOnSet(+, 0, g, {b[x] : x \in S}) = FoldFunctionOnSet(+, 0, f, S)
    BY <1>1, <1>4
  <1> QED
    BY <1>5 DEF Renames, SameSum

=============================================================================
