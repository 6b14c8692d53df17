------------------------ MODULE SPFSSKnownIndexProofs ------------------------
(***************************************************************************)
(* The two ends of SPFSSKnownIndex hold trees that differ along one path   *)
(* only, and shares that add up to a point function, for all numbers and   *)
(* sizes of outputs, all indices and shares, any modulus and every         *)
(* schedule, if both ends count the same levels for each of them.          *)
(*                                                                         *)
(* No property of the run is inductive.  IInv is: the inputs are what Init *)
(* allows (Inputs) and the functions of both ends have an entry for each   *)
(* output (Domains); the value provider has trees, keys and results that   *)
(* its own inputs determine, as far as its program counter says            *)
(* (ValueSide); the index provider has rebuilt each tree up to a level     *)
(* (IndexSide); and what is on its way to it is what the value provider    *)
(* has put in (Between).                                                   *)
(*                                                                         *)
(* The index provider rebuilds level by level, so IndexSide compares a     *)
(* whole level of its tree to the value provider's: they are equal but for *)
(* the one block on the path to the index (Rebuilt).  One level is rebuilt *)
(* from the one above by expanding all blocks but that one, and by         *)
(* cancelling all other blocks out of the XOR of its siblings              *)
(* (FirstRebuilt, NextRebuilt).                                            *)
(***************************************************************************)
EXTENDS SPFSSKnownIndex, FoldProofs

-----------------------------------------------------------------------------
(* XORs of blocks.                                                         *)

\* XOR of blocks that are made of terms from W, as a function on pairs.
XorPair(W) == [p \in (SUBSET W) \X (SUBSET W) |-> XOR(p[1], p[2])]

\* XOR is commutative and associative, and Zero is its unit.
LEMMA XorFoldable ==
  ASSUME NEW W
  PROVE  Foldable(XorPair(W), Zero, SUBSET W)
  <1> DEFINE V == SUBSET W
  <1>1. \A a, b \in V : XorPair(W)[<<a, b>>] = XOR(a, b)
    BY DEF XorPair
  <1>2. \A a, b \in V : XOR(a, b) \in V
    BY DEF XOR
  <1>3. XorPair(W) \in [V \X V -> V]
    BY <1>2 DEF XorPair
  <1>4. \A a, b \in V : XOR(a, b) = XOR(b, a) /\ XOR(Zero, b) = b
    BY DEF XOR, Zero
  <1>5. ASSUME NEW a \in V, NEW b \in V, NEW c \in V
        PROVE  XorPair(W)[<<a, XorPair(W)[<<b, c>>]>>] = XorPair(W)[<<XorPair(W)[<<a, b>>], c>>]
    <2>1. XorPair(W)[<<b, c>>] = XOR(b, c) /\ XorPair(W)[<<a, b>>] = XOR(a, b)
      BY <1>1
    <2>2. /\ XorPair(W)[<<a, XOR(b, c)>>] = XOR(a, XOR(b, c))
          /\ XorPair(W)[<<XOR(a, b), c>>] = XOR(XOR(a, b), c)
      BY <1>1, <1>2
    <2>3. XOR(a, XOR(b, c)) = XOR(XOR(a, b), c)
      BY DEF XOR
    <2> QED
      BY <2>1, <2>2, <2>3
  <1>6. Zero \in V
    BY DEF Zero
  <1>7. \A a \in V : XorPair(W)[<<Zero, a>>] = a
    BY <1>1, <1>4, <1>6
  <1>8. ASSUME NEW a \in V, NEW b \in V PROVE XorPair(W)[<<a, b>>] = XorPair(W)[<<b, a>>]
    <2>1. XorPair(W)[<<a, b>>] = XOR(a, b) /\ XorPair(W)[<<b, a>>] = XOR(b, a)
      BY <1>1
    <2> QED
      BY <1>4, <2>1
  <1> HIDE DEF V
  <1>9. Foldable(XorPair(W), Zero, V)
    BY <1>3, <1>5, <1>6, <1>7, <1>8 DEF Foldable
  <1> QED
    BY <1>9 DEF V

\* The XOR that XORBlocks takes is a fold of this kind.
LEMMA XorIsFolded ==
  ASSUME NEW S, IsFiniteSet(S), NEW W, NEW f, \A x \in S : f[x] \in SUBSET W
  PROVE  FoldFunctionOnSet(XOR, Zero, f, S) = Folded(XorPair(W), Zero, f, S)
  <1> DEFINE step(g, s) == IF s = {} THEN Zero ELSE XOR(f[Chosen(s)], g[s \ {Chosen(s)}])
             Fits(g) == g = [s \in SUBSET S |-> step(g, s)]
  <1>1. PICK V : V = SUBSET W
    OBVIOUS
  <1>2. PICK g : HoldsFolds(g, XorPair(W), Zero, f, S, V)
    BY <1>1, XorFoldable, FoldedIs
  <1>3. g \in [SUBSET S -> V] /\ IsFold(g, XorPair(W), Zero, f, S) /\ Folded(XorPair(W), Zero, f, S) = g[S]
    BY <1>2 DEF HoldsFolds
  <1>4. \A s \in SUBSET S : s # {} => Chosen(s) \in s /\ Chosen(s) \in S /\ s \ {Chosen(s)} \in SUBSET S
    BY DEF Chosen
  <1>5. \A s \in SUBSET S : g[s] = step(g, s)
    <2> SUFFICES ASSUME NEW s \in SUBSET S PROVE g[s] = step(g, s)
      OBVIOUS
    <2>1. CASE s = {}
      BY <1>3, <2>1 DEF IsFold
    <2>2. CASE s # {}
      <3>1. PICK x : x = Chosen(s)
        OBVIOUS
      <3>2. g[s] = XorPair(W)[<<f[x], g[s \ {x}]>>]
        BY <1>3, <2>2, <3>1, FoldStep
      <3>3. f[x] \in SUBSET W /\ g[s \ {x}] \in SUBSET W
        BY <1>1, <1>3, <1>4, <2>2, <3>1
      <3>4. XorPair(W)[<<f[x], g[s \ {x}]>>] = XOR(f[x], g[s \ {x}])
        BY <3>3 DEF XorPair
      <3> QED
        BY <2>2, <3>1, <3>2, <3>4
    <2> QED
      BY <2>1, <2>2
  <1>6. Fits(g)
    <2> HIDE DEF step
    <2> QED
      BY <1>3, <1>5
  <1>7. PICK h : h = CHOOSE k : Fits(k)
    OBVIOUS
  <1>8. Fits(h)
    <2> HIDE DEF Fits
    <2> QED
      BY <1>6, <1>7
  <1>9. \A s \in SUBSET S : h[s] = step(h, s)
    <2> HIDE DEF step
    <2> QED
      BY <1>8
  <1>10. PICK P : P = {s \in SUBSET S : g[s] = h[s]}
    OBVIOUS
  <1>11. {} \in P
    BY <1>5, <1>9, <1>10
  <1>12. ASSUME NEW s \in SUBSET S, s # {}, \A x \in s : s \ {x} \in P
         PROVE  s \in P
    <2>1. Chosen(s) \in s
      BY <1>4, <1>12
    <2>2. g[s \ {Chosen(s)}] = h[s \ {Chosen(s)}]
      BY <1>10, <1>12, <2>1
    <2>3. /\ g[s] = XOR(f[Chosen(s)], g[s \ {Chosen(s)}])
          /\ h[s] = XOR(f[Chosen(s)], h[s \ {Chosen(s)}])
      BY <1>5, <1>9, <1>12
    <2> QED
      BY <1>10, <2>2, <2>3
  <1>13. \A s \in SUBSET S : s \in P
    BY <1>11, <1>12, SubsetInduction
  <1>14. g[S] = h[S]
    BY <1>10, <1>13
  <1>15. FoldFunctionOnSet(XOR, Zero, f, S) = (CHOOSE k : Fits(k))[S]
    BY Zenon DEF FoldFunctionOnSet, MapThenFoldSet, Chosen
  <1> QED
    BY <1>3, <1>7, <1>14, <1>15

\* u is f, but empty at e.
EmptyAt(u, f, S, e) == u[e] = Zero /\ \A x \in S \ {e} : u[x] = f[x]

\* The XOR of what is in both is what is missing.
KnownCancel(u, f, S, e) ==
  XOR(FoldFunctionOnSet(XOR, Zero, u, S), FoldFunctionOnSet(XOR, Zero, f, S)) = f[e]

\* The block that is missing from a set of known ones is the XOR of those and of all.
LEMMA MissingXOR ==
  ASSUME NEW S, IsFiniteSet(S), NEW e \in S, NEW f, NEW u, EmptyAt(u, f, S, e)
  PROVE  KnownCancel(u, f, S, e)
  <1>1. PICK W : W = UNION {f[x] : x \in S}
    OBVIOUS
  <1> USE DEF EmptyAt
  <1>2. \A x \in S : f[x] \in SUBSET W /\ u[x] \in SUBSET W
    <2>1. \A x \in S : f[x] \subseteq W
      BY <1>1
    <2>2. \A x \in S : u[x] \subseteq W
      BY <2>1 DEF Zero
    <2> QED
      BY <2>1, <2>2
  <1>3. PICK op, V : op = XorPair(W) /\ V = SUBSET W
    OBVIOUS
  <1>4. Foldable(op, Zero, V)
    BY <1>3, XorFoldable
  <1>5. PICK a, b, c, d : /\ a = Folded(op, Zero, u, S) /\ b = Folded(op, Zero, f, S)
                          /\ c = Folded(op, Zero, u, S \ {e}) /\ d = Folded(op, Zero, f, S \ {e})
    OBVIOUS
  <1>6. /\ FoldFunctionOnSet(XOR, Zero, u, S) = a
        /\ FoldFunctionOnSet(XOR, Zero, f, S) = b
    BY <1>2, <1>3, <1>5, XorIsFolded
  <1>7. a = op[<<u[e], c>>]
    BY <1>2, <1>3, <1>4, <1>5, FoldedRemove
  <1>8. b = op[<<f[e], d>>]
    BY <1>2, <1>3, <1>4, <1>5, FoldedRemove
  <1>9. IsFiniteSet(S \ {e})
    BY FS_Subset
  <1>10. c = d /\ d \in V
    <2>1. PICK T : T = S \ {e}
      OBVIOUS
    <2>2. \A x \in T : u[x] = f[x] /\ u[x] \in V
      BY <1>2, <1>3, <2>1
    <2>3. Folded(op, Zero, u, T) = Folded(op, Zero, f, T)
      BY <1>4, <1>9, <2>1, <2>2, FoldedSame
    <2>4. Folded(op, Zero, u, T) \in V
      BY <1>4, <1>9, <2>1, <2>2, FoldedType
    <2> QED
      BY <1>5, <2>1, <2>3, <2>4
  <1>11. a = XOR(Zero, d) /\ b = XOR(f[e], d)
    <2>1. Zero \in SUBSET W /\ d \in SUBSET W /\ f[e] \in SUBSET W
      BY <1>2, <1>3, <1>10 DEF Zero
    <2>2. op[<<Zero, d>>] = XOR(Zero, d) /\ op[<<f[e], d>>] = XOR(f[e], d)
      BY <1>3, <2>1 DEF XorPair
    <2> QED
      BY <1>7, <1>8, <1>10, <2>2
  <1>12. XOR(XOR(Zero, d), XOR(f[e], d)) = f[e]
    BY DEF XOR, Zero
  <1> QED
    BY <1>6, <1>11, <1>12 DEF KnownCancel

-----------------------------------------------------------------------------
(* Trees.                                                                  *)

\* Ancestors one level up, from below and from above.
LEMMA AncestorLaws ==
  ASSUME NEW i \in Nat \ {0}, NEW h \in Nat
  PROVE  /\ Ancestor(2, i, 0) = i
         /\ Ancestor(2, i, h) \in Nat \ {0}
         /\ Ancestor(2, i, h + 1) = Parent(2, Ancestor(2, i, h))
         /\ Ancestor(2, i, h + 1) = Ancestor(2, Parent(2, i), h)
         /\ Parent(2, i) = ((i - 1) \div 2) + 1
  <1>1. PICK a \in Nat : a = i - 1 /\ i = a + 1
    OBVIOUS
  <1>2. \A k \in Nat : Parent(2, k + 1) = (k \div 2) + 1
    <2> SUFFICES ASSUME NEW k \in Nat PROVE Parent(2, k + 1) = (k \div 2) + 1
      OBVIOUS
    <2>1. 2 ^ 1 = 2 /\ (k + 1) - 1 = k
      OBVIOUS
    <2> QED
      BY <2>1 DEF Parent, Ancestor
  <1>3. Ancestor(2, i, 0) = i
    <2>1. 2 ^ 0 = 1 /\ a \div 1 = a
      OBVIOUS
    <2> QED
      BY <1>1, <2>1 DEF Ancestor
  <1>4. /\ a \div 2 ^ h \in Nat
        /\ a \div 2 ^ (h + 1) = (a \div 2 ^ h) \div 2
        /\ a \div 2 ^ (h + 1) = (a \div 2) \div 2 ^ h
    BY HalfOfQuotient
  <1>5. PICK d, e, f : /\ d = a \div 2 ^ h /\ e = a \div 2 ^ (h + 1) /\ f = a \div 2
    OBVIOUS
  <1>6. d \in Nat /\ f \in Nat /\ e = d \div 2 /\ e = f \div 2 ^ h
    <2>1. f \in Nat
      BY <1>1, <1>5
    <2>2. d \in Nat /\ e = d \div 2
      BY <1>4, <1>5
    <2>3. e = f \div 2 ^ h
      BY <1>4, <1>5
    <2> QED
      BY <2>1, <2>2, <2>3
  <1>7. Ancestor(2, i, h) = d + 1 /\ Ancestor(2, i, h + 1) = e + 1
    BY <1>1, <1>5 DEF Ancestor
  <1>8. Parent(2, i) = f + 1 /\ Parent(2, d + 1) = e + 1
    BY <1>1, <1>2, <1>5, <1>6
  <1>9. Ancestor(2, f + 1, h) = e + 1
    BY <1>6 DEF Ancestor
  <1> QED
    BY <1>1, <1>3, <1>5, <1>6, <1>7, <1>8, <1>9

\* A node is known by its parent and its place below it.
LEMMA OneOfSiblings ==
  ASSUME NEW i \in Nat \ {0}, NEW k \in Nat \ {0}
  PROVE  /\ Sibling(2, i) \in 1 .. 2
         /\ Parent(2, i) = Parent(2, k) /\ Sibling(2, i) = Sibling(2, k) => i = k
  <1>1. 0 \in Nat
    OBVIOUS
  <1>2. /\ Parent(2, i) = ((i - 1) \div 2) + 1 /\ Parent(2, k) = ((k - 1) \div 2) + 1
    BY <1>1, AncestorLaws
  <1>3. Sibling(2, i) = ((i - 1) % 2) + 1 /\ Sibling(2, k) = ((k - 1) % 2) + 1
    BY DEF Sibling
  <1> QED
    BY <1>2, <1>3

\* L levels give room for n leaves.
Room(L, n) == L \in Nat \ {0} /\ n <= 2 ^ (L - 1)

\* The number of levels of an end that adds one for the sizes in A.
Levels(A, n) == NumLevels(2, n, A)

\* They give room for all leaves.
LEMMA LevelsSuffice ==
  ASSUME NEW n \in Nat \ {0}, NEW A
  PROVE  Room(Levels(A, n), n)
  <1>1. PICK T : T = {l \in 1 .. n + 1 : 2 ^ (l - 1) >= n}
    OBVIOUS
  <1>2. T \in SUBSET Nat /\ T # {}
    <2>1. (n + 1) - 1 = n /\ n + 1 \in 1 .. n + 1
      OBVIOUS
    <2>2. 2 ^ n >= n
      <3>1. PICK p : p = 2 ^ n
        OBVIOUS
      <3>2. p \in Nat /\ n + 1 <= p
        BY <3>1, TwoToAbove
      <3>3. p >= n
        BY <3>2
      <3> QED
        BY <3>1, <3>3
    <2>3. n + 1 \in T
      BY <1>1, <2>1, <2>2
    <2> QED
      BY <1>1, <2>3
  <1>3. \E x \in T : \A y \in T : x <= y
    BY <1>2, LeastNumber
  <1>4. PICK L : L = CHOOSE x \in T : \A y \in T : x =< y
    OBVIOUS
  <1>5. L \in T
    BY <1>3, <1>4
  <1>6. Levels(A, n) = L + IF n \in A THEN 1 ELSE 0
    BY <1>1, <1>4 DEF Levels, NumLevels, Min
  <1>7. L \in Nat \ {0} /\ 2 ^ (L - 1) >= n
    BY <1>1, <1>5
  <1>8. PICK p : p = 2 ^ (L - 1)
    OBVIOUS
  <1>9. p \in Nat /\ p >= n
    <2>1. L - 1 \in Nat
      BY <1>7
    <2> QED
      BY <1>7, <1>8, <2>1, TwoToNext
  <1>10. n <= p
    BY <1>9
  <1>11. CASE n \notin A
    BY <1>6, <1>7, <1>8, <1>10, <1>11 DEF Room
  <1>12. CASE n \in A
    <2>1. PICK k \in Nat : k = L - 1
      BY <1>7
    <2>2. Levels(A, n) = L + 1 /\ (L + 1) - 1 = k + 1 /\ L + 1 \in Nat \ {0}
      BY <1>6, <1>7, <1>12, <2>1
    <2>3. 2 ^ (k + 1) = 2 * p
      BY <1>8, <2>1, TwoToNext
    <2>4. n <= 2 * p
      BY <1>9
    <2> QED
      BY <2>2, <2>3, <2>4 DEF Room
  <1> QED
    BY <1>11, <1>12

\* The widths of the L levels above n leaves.
AreWidths(w, n, L) ==
  /\ w \in [1 .. L -> Nat]
  /\ \A l \in 1 .. L : w[l] = IF l = L THEN n ELSE (w[l + 1] + 2 - 1) \div 2

\* They are defined, from the leaves up.
LEMMA WidthsExist ==
  ASSUME NEW n \in Nat, NEW L \in Nat
  PROVE  \E w : AreWidths(w, n, L)
  <1> DEFINE step(w, l) == IF l = L THEN n ELSE (w[l + 1] + 2 - 1) \div 2
             Known(m) == \E w \in [L - m + 1 .. L -> Nat] :
                           \A l \in L - m + 1 .. L : w[l] = step(w, l)
  <1> HIDE DEF Known
  <1>1. PICK Q : Q = {m \in Nat : m <= L => Known(m)}
    OBVIOUS
  <1>2. 0 \in Q
    <2>1. PICK w : w = [l \in L - 0 + 1 .. L |-> 0]
      OBVIOUS
    <2>2. L - 0 + 1 .. L = {} /\ w \in [L - 0 + 1 .. L -> Nat]
      BY <2>1
    <2>3. Known(0)
      BY <2>2 DEF Known
    <2> QED
      BY <1>1, <2>3
  <1>3. ASSUME NEW m \in Nat, m \in Q PROVE m + 1 \in Q
    <2> SUFFICES ASSUME m + 1 <= L PROVE Known(m + 1)
      BY <1>1
    <2>1. PICK k : k = L - m
      OBVIOUS
    <2>2. k \in Nat /\ k >= 1 /\ L - (m + 1) + 1 = k /\ L - m + 1 = k + 1 /\ k <= L
      BY <2>1
    <2>3. PICK w \in [k + 1 .. L -> Nat] : \A l \in k + 1 .. L : w[l] = step(w, l)
      <3>1. Known(m)
        BY <1>1, <1>3
      <3> QED
        BY <2>2, <3>1 DEF Known
    <2>4. step(w, k) \in Nat
      <3>1. CASE k = L
        BY <3>1
      <3>2. CASE k # L
        <4>1. k + 1 \in k + 1 .. L
          BY <2>2, <3>2
        <4>2. PICK a : a = w[k + 1]
          OBVIOUS
        <4>3. a \in Nat
          BY <2>3, <4>1, <4>2
        <4>4. (a + 2 - 1) \div 2 \in Nat
          BY <4>3
        <4> QED
          BY <3>2, <4>2, <4>4
      <3> QED
        BY <3>1, <3>2
    <2> HIDE DEF step
    <2>5. PICK v : v = [l \in k .. L |-> IF l = k THEN step(w, k) ELSE w[l]]
      OBVIOUS
    <2>6. v \in [k .. L -> Nat]
      <3>1. \A l \in k .. L : l = k \/ l \in k + 1 .. L
        BY <2>2
      <3> QED
        BY <2>3, <2>4, <2>5, <3>1
    <2>7. ASSUME NEW l \in k .. L PROVE v[l] = step(v, l)
      <3>1. v[l] = step(w, l)
        <4>1. CASE l = k
          BY <2>5, <4>1
        <4>2. CASE l # k
          <5>1. l \in k + 1 .. L
            BY <2>2, <4>2
          <5> QED
            BY <2>3, <2>5, <4>2, <5>1
        <4> QED
          BY <4>1, <4>2
      <3>2. CASE l = L
        BY <3>1, <3>2 DEF step
      <3>3. CASE l # L
        <4>1. l + 1 \in k .. L /\ l + 1 # k
          BY <2>2, <3>3
        <4>2. v[l + 1] = w[l + 1]
          BY <2>5, <4>1
        <4> QED
          BY <3>1, <3>3, <4>2 DEF step
      <3> QED
        BY <3>2, <3>3
    <2> QED
      BY <2>2, <2>6, <2>7 DEF Known
  <1>4. L \in Q
    <2>1. \A m \in Nat : m \in Q
      BY <1>2, <1>3, NumberInduction
    <2> QED
      BY <2>1
  <1>5. L - L + 1 = 1
    OBVIOUS
  <1>6. \E w \in [1 .. L -> Nat] : \A l \in 1 .. L : w[l] = step(w, l)
    <2> HIDE DEF step
    <2> QED
      BY <1>1, <1>4, <1>5 DEF Known
  <1> QED
    BY <1>6 DEF AreWidths

\* The widths of the L levels that are allocated for n leaves.
Widths(n, L) ==
  LET w[l \in 1 .. L] == IF l = L THEN n ELSE (w[l + 1] + 2 - 1) \div 2
  IN  w

\* Widths are numbers.
LEMMA WidthsOf ==
  ASSUME NEW n \in Nat \ {0}, NEW L \in Nat \ {0}
  PROVE  AreWidths(Widths(n, L), n, L)
  <1> DEFINE Fits(w) == w = [l \in 1 .. L |-> IF l = L THEN n ELSE (w[l + 1] + 2 - 1) \div 2]
  <1>1. L \in Nat
    OBVIOUS
  <1>2. PICK w : AreWidths(w, n, L)
    BY <1>1, WidthsExist
  <1>3. Fits(w)
    BY <1>2 DEF AreWidths
  <1>4. PICK v : v = CHOOSE x : Fits(x)
    OBVIOUS
  <1>5. Fits(v)
    <2> HIDE DEF Fits
    <2> QED
      BY <1>3, <1>4
  <1>6. Widths(n, L) = v
    BY <1>4 DEF Widths
  <1>7. \A l \in 1 .. L : v[l] = IF l = L THEN n ELSE (v[l + 1] + 2 - 1) \div 2
    BY <1>5
  <1>8. PICK Q : Q = {m \in Nat : m < L => v[L - m] \in Nat}
    OBVIOUS
  <1>9. 0 \in Q
    <2> SUFFICES ASSUME 0 < L PROVE v[L - 0] \in Nat
      BY <1>8
    <2>1. L - 0 = L /\ L \in 1 .. L
      BY <1>1
    <2> QED
      BY <1>7, <2>1
  <1>10. ASSUME NEW m \in Nat, m \in Q PROVE m + 1 \in Q
    <2> SUFFICES ASSUME m + 1 < L PROVE v[L - (m + 1)] \in Nat
      BY <1>8
    <2>1. PICK k, a : k = L - (m + 1) /\ a = v[k + 1]
      OBVIOUS
    <2>2. k \in 1 .. L /\ k # L /\ k + 1 = L - m
      BY <1>1, <2>1
    <2>3. a \in Nat
      BY <1>1, <1>8, <1>10, <2>1, <2>2
    <2>4. v[k] = (a + 2 - 1) \div 2
      BY <1>7, <2>1, <2>2
    <2>5. (a + 2 - 1) \div 2 \in Nat
      BY <2>3
    <2> QED
      BY <2>1, <2>4, <2>5
  <1>11. \A m \in Nat : m \in Q
    BY <1>9, <1>10, NumberInduction
  <1>12. ASSUME NEW l \in 1 .. L PROVE v[l] \in Nat
    <2>1. L - l \in Nat /\ L - l < L /\ L - (L - l) = l
      BY <1>1
    <2> QED
      BY <1>8, <1>11, <2>1
  <1>13. v \in [1 .. L -> Nat]
    BY <1>5, <1>12
  <1> QED
    BY <1>6, <1>7, <1>13 DEF AreWidths

\* The tree is allocated with a level for each width (ggm_tree.cpp:38-55).
LEMMA AllocatedLevels ==
  ASSUME NEW n \in Nat \ {0}, NEW A, NEW L, L = Levels(A, n)
  PROVE  AllocateLevels(2, n, A) = [l \in 1 .. L |-> [i \in 1 .. Widths(n, L)[l] |-> Zero]]
  BY DEF AllocateLevels, Levels, Widths

\* All nodes have a parent, and descend from the root.
LEMMA WidthFacts ==
  ASSUME NEW n \in Nat \ {0}, NEW L, Room(L, n), NEW w, w = Widths(n, L)
  PROVE  /\ L \in Nat \ {0} /\ w \in [1 .. L -> Nat] /\ w[L] = n
         /\ \A l \in 1 .. L : l + 1 \in 1 .. L => \A i \in 1 .. w[l + 1] : Parent(2, i) \in 1 .. w[l]
         /\ \A l \in 1 .. L : \A i \in 1 .. w[l] : Ancestor(2, i, l - 1) = 1
  <1>1. L \in Nat \ {0} /\ n <= 2 ^ (L - 1)
    BY DEF Room
  <1>2. AreWidths(w, n, L)
    BY <1>1, WidthsOf
  <1>3. w \in [1 .. L -> Nat] /\ w[L] = n
    BY <1>1, <1>2 DEF AreWidths
  <1>4. ASSUME NEW l \in 1 .. L, l + 1 \in 1 .. L
        PROVE  w[l] = (w[l + 1] + 1) \div 2
    <2>1. w[l] = (w[l + 1] + 2 - 1) \div 2
      BY <1>1, <1>2, <1>4 DEF AreWidths
    <2>2. w[l + 1] + 2 - 1 = w[l + 1] + 1
      BY <1>3, <1>4
    <2> QED
      BY <2>1, <2>2
  <1>5. ASSUME NEW l \in 1 .. L, l + 1 \in 1 .. L, NEW i \in 1 .. w[l + 1]
        PROVE  Parent(2, i) \in 1 .. w[l]
    <2>1. PICK a : a = w[l + 1]
      OBVIOUS
    <2>2. a \in Nat /\ w[l] = (a + 1) \div 2 /\ i \in 1 .. a
      BY <1>3, <1>4, <1>5, <2>1
    <2>3. Parent(2, i) = ((i - 1) \div 2) + 1
      <3>1. i \in Nat \ {0} /\ 0 \in Nat
        BY <2>2
      <3> QED
        BY <3>1, AncestorLaws
    <2> QED
      BY <2>2, <2>3
  <1>6. ASSUME NEW l \in 1 .. L, NEW i \in 1 .. w[l]
        PROVE  Ancestor(2, i, l - 1) = 1
    <2>2. PICK R : R = {m \in Nat : m < L => w[L - m] <= 2 ^ (L - m - 1)}
      OBVIOUS
    <2>3. 0 \in R
      <3>1. L - 0 = L /\ L - 0 - 1 = L - 1
        BY <1>1
      <3> QED
        BY <1>1, <1>3, <2>2, <3>1
    <2>4. ASSUME NEW m \in Nat, m \in R PROVE m + 1 \in R
      <3> SUFFICES ASSUME m + 1 < L PROVE w[L - (m + 1)] <= 2 ^ (L - (m + 1) - 1)
        BY <2>2
      <3>1. PICK k : k = L - (m + 1)
        OBVIOUS
      <3>2. k \in 1 .. L /\ k + 1 \in 1 .. L /\ L - m = k + 1 /\ k - 1 \in Nat /\ L - m - 1 = k
        BY <1>1, <3>1
      <3>3. PICK a, p, q : a = w[k + 1] /\ p = 2 ^ (k - 1) /\ q = 2 ^ k
        OBVIOUS
      <3>4. a <= q /\ a \in Nat
        BY SMTT(30), <1>1, <1>3, <2>2, <2>4, <3>2, <3>3
      <3>5. p \in Nat /\ q = 2 * p
        <4>1. (k - 1) + 1 = k
          BY <3>2
        <4> QED
          BY <3>2, <3>3, <4>1, TwoToNext
      <3>6. w[k] = (a + 1) \div 2
        BY <1>4, <3>2, <3>3
      <3>7. (a + 1) \div 2 <= p
        BY <3>4, <3>5
      <3> QED
        BY <3>1, <3>3, <3>6, <3>7
    <2>5. \A m \in Nat : m \in R
      BY <2>3, <2>4, NumberInduction
    <2>6. PICK p : p = 2 ^ (l - 1)
      OBVIOUS
    <2>7. w[l] <= p
      <3>1. L - l \in Nat /\ L - l < L /\ L - (L - l) = l
        BY <1>1
      <3> QED
        BY <2>2, <2>5, <2>6, <3>1
    <2>8. p \in Nat /\ l - 1 \in Nat /\ p # 0
      <3>1. l - 1 \in Nat
        OBVIOUS
      <3>2. 2 ^ (l - 1) \in Nat /\ (l - 1) + 1 <= 2 ^ (l - 1)
        BY <3>1, TwoToAbove
      <3> QED
        BY <2>6, <3>1, <3>2
    <2>9. i - 1 \in Nat /\ p * 0 <= i - 1 /\ i - 1 < p * 0 + p
      <3>1. i \in Nat /\ i >= 1 /\ i <= w[l] /\ w[l] \in Nat
        BY <1>3
      <3> QED
        BY <2>7, <2>8, <3>1
    <2>10. (i - 1) \div p = 0
      BY <2>8, <2>9, Quotient
    <2> QED
      BY <2>6, <2>10 DEF Ancestor
  <1> QED
    BY <1>1, <1>3, <1>5, <1>6

-----------------------------------------------------------------------------
\* What expanding yields, level by level.
LEMMA Expanded ==
  ASSUME NEW L \in Nat, NEW levels, DOMAIN levels = 1 .. L, NEW start \in Nat \ {0},
         NEW nodes, NEW E, E = ExpandSubtrees(2, levels, start, nodes)
  PROVE  /\ E = [l \in 1 .. L |-> E[l]]
         /\ \A l \in 1 .. L : E[l] =
              [i \in DOMAIN levels[l] |->
                IF l > start /\ Ancestor(2, i, l - start) \in nodes
                THEN ComputePRG(E[l - 1][Parent(2, i)], Sibling(2, i))
                ELSE levels[l][i]]
  <1> DEFINE step(g, l) == [i \in DOMAIN levels[l] |->
                IF l > start /\ Ancestor(2, i, l - start) \in nodes
                THEN ComputePRG(g[l - 1][Parent(2, i)], Sibling(2, i))
                ELSE levels[l][i]]
             Fits(g) == g = [l \in DOMAIN levels |-> step(g, l)]
             Known(m) == \E g : \A l \in 1 .. m : g[l] = step(g, l)
  <1> HIDE DEF Fits, Known
  <1>1. PICK Q : Q = {m \in Nat : Known(m)}
    OBVIOUS
  <1>2. 0 \in Q
    BY <1>1 DEF Known
  <1>3. ASSUME NEW g, NEW h, NEW l \in Nat \ {0}, l = 1 \/ g[l - 1] = h[l - 1]
        PROVE  step(g, l) = step(h, l)
    <2>1. CASE l = 1
      <3>1. ~ (l > start)
        BY <2>1
      <3> QED
        BY <3>1
    <2>2. CASE l # 1
      BY <1>3, <2>2
    <2> QED
      BY <2>1, <2>2
  <1> HIDE DEF step
  <1>4. ASSUME NEW m \in Nat, m \in Q PROVE m + 1 \in Q
    <2>1. PICK g : \A l \in 1 .. m : g[l] = step(g, l)
      BY <1>1, <1>4 DEF Known
    <2>2. PICK h : h = [l \in 1 .. m + 1 |-> IF l = m + 1 THEN step(g, m + 1) ELSE g[l]]
      OBVIOUS
    <2>3. ASSUME NEW l \in 1 .. m + 1 PROVE h[l] = step(h, l)
      <3>1. h[l] = step(g, l)
        BY <2>1, <2>2
      <3>2. l = 1 \/ g[l - 1] = h[l - 1]
        BY <2>2
      <3>3. l \in Nat \ {0}
        OBVIOUS
      <3>4. step(g, l) = step(h, l)
        BY <1>3, <3>2, <3>3
      <3> QED
        BY <3>1, <3>4
    <2> QED
      BY <1>1, <2>3 DEF Known
  <1>5. Known(L)
    <2>1. \A m \in Nat : m \in Q
      BY <1>2, <1>4, NumberInduction
    <2> QED
      BY <1>1, <2>1
  <1>6. PICK g : \A l \in 1 .. L : g[l] = step(g, l)
    BY <1>5 DEF Known
  <1>7. PICK h : h = [l \in 1 .. L |-> g[l]]
    OBVIOUS
  <1>8. ASSUME NEW l \in 1 .. L PROVE h[l] = step(h, l)
    <2>1. h[l] = step(g, l)
      BY <1>6, <1>7
    <2>2. l = 1 \/ g[l - 1] = h[l - 1]
      BY <1>7
    <2>3. l \in Nat \ {0}
      OBVIOUS
    <2>4. step(g, l) = step(h, l)
      BY <1>3, <2>2, <2>3
    <2> QED
      BY <2>1, <2>4
  <1>9. Fits(h)
    BY <1>7, <1>8 DEF Fits
  <1>10. PICK e : e = CHOOSE x : Fits(x)
    OBVIOUS
  <1>11. Fits(e)
    BY <1>9, <1>10
  <1>12. E = [l \in DOMAIN levels |-> e[l]]
    BY <1>10 DEF ExpandSubtrees, Fits, step
  <1>13. \A l \in 1 .. L : e[l] = step(e, l)
    BY <1>11 DEF Fits
  <1>14. e = E
    BY <1>11, <1>12, <1>13 DEF Fits
  <1> QED
    BY <1>12, <1>13, <1>14 DEF step

\* A tree of n leaves, with the L levels that are allocated for it.
HasLevels(T, n, L) ==
  /\ T = [l \in 1 .. L |-> T[l]]
  /\ \A l \in 1 .. L : DOMAIN T[l] = 1 .. Widths(n, L)[l]

IsTree(V, n, L) ==
  /\ HasLevels(V, n, L)
  /\ \A l \in 1 .. L : l + 1 \in 1 .. L =>
       \A i \in 1 .. Widths(n, L)[l + 1] :
         V[l + 1][i] = ComputePRG(V[l][Parent(2, i)], Sibling(2, i))

\* What Create makes of a seed.
LEMMA Created ==
  ASSUME NEW n \in Nat \ {0}, NEW seed, NEW A
  PROVE  IsTree(Create(2, n, seed, A), n, Levels(A, n))
  <1>1. PICK L, w : L = Levels(A, n) /\ w = Widths(n, L)
    OBVIOUS
  <1>2. /\ L \in Nat \ {0} /\ w \in [1 .. L -> Nat]
        /\ \A l \in 1 .. L : l + 1 \in 1 .. L => \A i \in 1 .. w[l + 1] : Parent(2, i) \in 1 .. w[l]
        /\ \A l \in 1 .. L : \A i \in 1 .. w[l] : Ancestor(2, i, l - 1) = 1
    <2>1. Room(L, n)
      BY <1>1, LevelsSuffice
    <2> QED
      BY SMTT(30), <1>1, <2>1, WidthFacts
  <1>3. PICK levels : levels = [AllocateLevels(2, n, A) EXCEPT ![1][1] = seed]
    OBVIOUS
  <1>4. DOMAIN levels = 1 .. L /\ \A l \in 1 .. L : DOMAIN levels[l] = 1 .. w[l]
    <2>1. AllocateLevels(2, n, A) = [l \in 1 .. L |-> [i \in 1 .. w[l] |-> Zero]]
      BY <1>1, AllocatedLevels
    <2> QED
      BY <1>3, <2>1
  <1>5. PICK V : V = ExpandSubtrees(2, levels, 1, {1})
    OBVIOUS
  <1>6. /\ V = [l \in 1 .. L |-> V[l]]
        /\ \A l \in 1 .. L : V[l] =
              [i \in DOMAIN levels[l] |->
                IF l > 1 /\ Ancestor(2, i, l - 1) \in {1}
                THEN ComputePRG(V[l - 1][Parent(2, i)], Sibling(2, i))
                ELSE levels[l][i]]
    <2>1. 1 \in Nat \ {0} /\ L \in Nat
      BY <1>2
    <2> QED
      BY <1>4, <1>5, <2>1, Expanded
  <1>7. \A l \in 1 .. L : DOMAIN V[l] = 1 .. w[l]
    BY <1>4, <1>6
  <1>8. ASSUME NEW l \in 1 .. L, l + 1 \in 1 .. L, NEW i \in 1 .. w[l + 1]
        PROVE  V[l + 1][i] = ComputePRG(V[l][Parent(2, i)], Sibling(2, i))
    <2>1. PICK m : m = l + 1
      OBVIOUS
    <2>2. m \in 1 .. L /\ m > 1 /\ m - 1 = l /\ i \in DOMAIN levels[m]
      <3>1. m \in 1 .. L /\ m > 1 /\ m - 1 = l
        BY <1>2, <1>8, <2>1
      <3> QED
        BY <1>4, <2>1, <3>1
    <2>3. Ancestor(2, i, m - 1) \in {1}
      BY <1>2, <1>8, <2>1, <2>2
    <2>4. V[m] = [x \in DOMAIN levels[m] |->
                   IF m > 1 /\ Ancestor(2, x, m - 1) \in {1}
                   THEN ComputePRG(V[m - 1][Parent(2, x)], Sibling(2, x))
                   ELSE levels[m][x]]
      BY <1>6, <2>2
    <2>5. V[m][i] = ComputePRG(V[m - 1][Parent(2, i)], Sibling(2, i))
      BY <2>2, <2>3, <2>4
    <2> QED
      BY <2>1, <2>2, <2>5
  <1>9. Create(2, n, seed, A) = V
    BY <1>3, <1>5 DEF Create
  <1>10. IsTree(V, n, L)
    BY <1>1, <1>6, <1>7, <1>8 DEF IsTree, HasLevels
  <1> QED
    BY <1>1, <1>9, <1>10

\* U is V, rebuilt down to level k without the leaf `missing': below k, the nodes
\* under the path to that leaf are still empty.
Rebuilt(U, V, n, L, missing, k) ==
  /\ HasLevels(U, n, L)
  /\ \A l \in 1 .. L : \A i \in 1 .. Widths(n, L)[l] :
       U[l][i] = IF Ancestor(2, i, IF l <= k THEN 0 ELSE l - k) =
                      MissingPath(2, L, missing)[IF l <= k THEN l ELSE k]
                 THEN Zero ELSE V[l][i]

\* Rebuilding starts below the root, from nothing.
LEMMA FirstRebuilt ==
  ASSUME NEW n \in Nat \ {0}, NEW V, NEW missing \in 1 .. n, NEW A, NEW L, L = Levels(A, n)
  PROVE  Rebuilt(AllocateLevels(2, n, A), V, n, L, missing, 1)
  <1>1. PICK w, p, U : /\ w = Widths(n, L) /\ p = MissingPath(2, L, missing)
                       /\ U = AllocateLevels(2, n, A)
    OBVIOUS
  <1>2. /\ L \in Nat \ {0} /\ w \in [1 .. L -> Nat] /\ w[L] = n
        /\ \A l \in 1 .. L : \A i \in 1 .. w[l] : Ancestor(2, i, l - 1) = 1
    <2>1. Room(L, n)
      BY LevelsSuffice
    <2> QED
      BY <1>1, <2>1, WidthFacts
  <1>3. U = [l \in 1 .. L |-> [i \in 1 .. w[l] |-> Zero]]
    BY <1>1, AllocatedLevels
  <1>4. p[1] = 1
    <2>1. p[1] = Ancestor(2, missing, L - 1)
      BY <1>1, <1>2 DEF MissingPath
    <2>2. L \in 1 .. L /\ missing \in 1 .. w[L]
      BY <1>2
    <2> QED
      BY <1>2, <2>1, <2>2
  <1>5. ASSUME NEW l \in 1 .. L, NEW i \in 1 .. w[l]
        PROVE  U[l][i] = IF Ancestor(2, i, IF l <= 1 THEN 0 ELSE l - 1) =
                              p[IF l <= 1 THEN l ELSE 1]
                         THEN Zero ELSE V[l][i]
    <2>1. U[l][i] = Zero
      BY <1>3
    <2>2. (IF l <= 1 THEN 0 ELSE l - 1) = l - 1 /\ (IF l <= 1 THEN l ELSE 1) = 1
      BY <1>2
    <2>3. Ancestor(2, i, l - 1) = 1
      BY <1>2
    <2> QED
      BY <1>4, <2>1, <2>2, <2>3
  <1>6. HasLevels(U, n, L)
    <2>1. U = [l \in 1 .. L |-> U[l]] /\ \A l \in 1 .. L : DOMAIN U[l] = 1 .. w[l]
      BY <1>3
    <2> QED
      BY <1>1, <2>1 DEF HasLevels
  <1> QED
    BY <1>1, <1>5, <1>6 DEF Rebuilt

\* The node of the path on a level is a child of the one above.
LEMMA PathGoesDown ==
  ASSUME NEW L \in Nat \ {0}, NEW missing \in Nat \ {0}, NEW l \in 1 .. L, l + 1 \in 1 .. L,
         NEW p, p = MissingPath(2, L, missing)
  PROVE  /\ p[l] \in Nat \ {0} /\ p[l + 1] \in Nat \ {0}
         /\ p[l] = Parent(2, p[l + 1])
  <1>1. PICK h \in Nat : h = L - (l + 1)
    OBVIOUS
  <1>2. L - l = h + 1
    BY <1>1
  <1>3. p[l] = Ancestor(2, missing, h + 1) /\ p[l + 1] = Ancestor(2, missing, h)
    BY <1>1, <1>2 DEF MissingPath
  <1>4. /\ Ancestor(2, missing, h) \in Nat \ {0}
        /\ Ancestor(2, missing, h + 1) = Parent(2, Ancestor(2, missing, h))
    BY AncestorLaws
  <1>5. Ancestor(2, missing, h + 1) \in Nat \ {0}
    <2>1. PICK g \in Nat : g = h + 1
      OBVIOUS
    <2> QED
      BY <2>1, AncestorLaws
  <1> QED
    BY <1>3, <1>4, <1>5

\* Filling one more level: the XOR that has been received is that of the siblings
\* of the missing node.
LEMMA NextRebuilt ==
  ASSUME NEW n \in Nat \ {0}, NEW U, NEW V, NEW missing \in 1 .. n, NEW k \in Nat \ {0},
         NEW L, Room(L, n), k + 1 \in 1 .. L,
         IsTree(V, n, L), Rebuilt(U, V, n, L, missing, k),
         NEW p, p = MissingPath(2, L, missing), NEW xors,
         \A s \in 1 .. 2 : s # Sibling(2, p[k + 1]) =>
           xors[k][s] = XORBlocks(2, V[k + 1])[s]
  PROVE  Rebuilt(FillLevel(U, k + 1, p, xors, 2), V, n, L, missing, k + 1)
  <1>1. PICK w : w = Widths(n, L)
    OBVIOUS
  <1>2. /\ L \in Nat \ {0} /\ w \in [1 .. L -> Nat]
        /\ \A l \in 1 .. L : l + 1 \in 1 .. L => \A i \in 1 .. w[l + 1] : Parent(2, i) \in 1 .. w[l]
    BY <1>1, WidthFacts
  <1>3. PICK m : m = k + 1
    OBVIOUS
  <1>4. m \in 1 .. L /\ m \in Nat \ {0} /\ k \in 1 .. L /\ m - 1 = k /\ k < m
    BY <1>1, <1>2, <1>3
  <1>5. p[k] \in Nat \ {0} /\ p[m] \in Nat \ {0} /\ p[k] = Parent(2, p[m])
    <2>1. missing \in Nat \ {0}
      OBVIOUS
    <2> QED
      BY <1>1, <1>2, <1>3, <1>4, <2>1, PathGoesDown
  <1>6. /\ U = [l \in 1 .. L |-> U[l]] /\ \A l \in 1 .. L : DOMAIN U[l] = 1 .. w[l]
        /\ V = [l \in 1 .. L |-> V[l]] /\ \A l \in 1 .. L : DOMAIN V[l] = 1 .. w[l]
    BY <1>1 DEF Rebuilt, IsTree, HasLevels
  <1>7. \A l \in 1 .. L : l <= k => \A i \in 1 .. w[l] :
          U[l][i] = IF i = p[l] THEN Zero ELSE V[l][i]
    <2> SUFFICES ASSUME NEW l \in 1 .. L, l <= k, NEW i \in 1 .. w[l]
                 PROVE  U[l][i] = IF i = p[l] THEN Zero ELSE V[l][i]
      OBVIOUS
    <2>1. U[l][i] = IF Ancestor(2, i, 0) = p[l] THEN Zero ELSE V[l][i]
      BY <1>1 DEF Rebuilt
    <2>2. i \in Nat \ {0} /\ 0 \in Nat
      BY <1>2
    <2>3. Ancestor(2, i, 0) = i
      BY <2>2, AncestorLaws
    <2> QED
      BY <2>1, <2>3
  <1>8. \A l \in 1 .. L : ~ (l <= k) => \A i \in 1 .. w[l] :
          U[l][i] = IF Ancestor(2, i, l - k) = p[k] THEN Zero ELSE V[l][i]
    BY <1>1 DEF Rebuilt
  <1>9. PICK siblings : siblings = {i \in DOMAIN U[m] : Parent(2, i) = p[m - 1]} \ {p[m]}
    OBVIOUS
  <1>10. ASSUME NEW i \in 1 .. w[m]
         PROVE  /\ i \in Nat \ {0} /\ Ancestor(2, i, m - k) = Parent(2, i)
                /\ i \in siblings <=> Parent(2, i) = p[k] /\ i # p[m]
                /\ i \in siblings => Sibling(2, i) # Sibling(2, p[m])
    <2>1. i \in Nat \ {0}
      BY <1>2
    <2>2. m - k = 1
      BY <1>3
    <2>3. i \in siblings <=> Parent(2, i) = p[k] /\ i # p[m]
      BY <1>4, <1>6, <1>9
    <2>4. Parent(2, i) = p[k] /\ i # p[m] => Sibling(2, i) # Sibling(2, p[m])
      BY <1>5, <2>1, OneOfSiblings
    <2> QED
      BY <2>1, <2>2, <2>3, <2>4 DEF Parent
  <1>11. \A i, j \in siblings : i = j
    <2> SUFFICES ASSUME NEW i \in siblings, NEW j \in siblings PROVE i = j
      OBVIOUS
    <2>1. i \in 1 .. w[m] /\ j \in 1 .. w[m]
      BY <1>4, <1>6, <1>9
    <2>2. /\ i \in Nat \ {0} /\ j \in Nat \ {0} /\ Parent(2, i) = Parent(2, j)
          /\ Sibling(2, i) # Sibling(2, p[m]) /\ Sibling(2, j) # Sibling(2, p[m])
      BY <1>10, <2>1
    <2>3. Sibling(2, i) \in 1 .. 2 /\ Sibling(2, j) \in 1 .. 2 /\ Sibling(2, p[m]) \in 1 .. 2
      BY <1>5, <2>2, OneOfSiblings
    <2>4. Sibling(2, i) = Sibling(2, j)
      BY <2>2, <2>3
    <2> QED
      BY <2>2, <2>4, OneOfSiblings
  <1>12. PICK W : W = [U EXCEPT ![m] = [i \in DOMAIN @ |->
                    IF i \in siblings
                    THEN XOR(XORBlocks(2, U[m])[Sibling(2, i)], xors[m - 1][Sibling(2, i)])
                    ELSE @[i]]]
    OBVIOUS
  <1>13. /\ DOMAIN W = 1 .. L /\ \A l \in 1 .. L : l # m => W[l] = U[l]
         /\ W[m] = [i \in 1 .. w[m] |->
                     IF i \in siblings
                     THEN XOR(XORBlocks(2, U[m])[Sibling(2, i)], xors[k][Sibling(2, i)])
                     ELSE U[m][i]]
    BY <1>4, <1>6, <1>12
  <1>14. \A l \in 1 .. L : DOMAIN W[l] = 1 .. w[l]
    BY <1>6, <1>13
  <1>15. \A i \in 1 .. w[m] : U[m][i] = IF Parent(2, i) = p[k] THEN Zero ELSE V[m][i]
    <2>1. ~ (m <= k)
      BY <1>4
    <2> QED
      BY <1>4, <1>8, <1>10, <2>1
  <1>16. ASSUME NEW i \in siblings PROVE W[m][i] = V[m][i]
    <2>1. i \in 1 .. w[m]
      BY <1>4, <1>6, <1>9
    <2>2. PICK s : s = Sibling(2, i)
      OBVIOUS
    <2>3. PICK S : S = {x \in 1 .. w[m] : Sibling(2, x) = s}
      OBVIOUS
    <2>4. PICK f, u : f = V[m] /\ u = U[m]
      OBVIOUS
    <2>5. i \in S /\ IsFiniteSet(S)
      <3>1. IsFiniteSet(1 .. w[m])
        BY <1>2, <1>4, FS_Interval
      <3> QED
        BY <2>1, <2>2, <2>3, <3>1, FS_Subset
    <2>6. u[i] = Zero
      BY <1>10, <1>15, <1>16, <2>1, <2>4
    <2>7. \A x \in S \ {i} : u[x] = f[x]
      <3> SUFFICES ASSUME NEW x \in S \ {i} PROVE u[x] = f[x]
        OBVIOUS
      <3>1. x \in 1 .. w[m] /\ Sibling(2, x) = s
        BY <2>3
      <3>2. x \notin siblings
        BY <1>11
      <3>3. Sibling(2, i) # Sibling(2, p[m])
        BY <1>10, <1>16, <2>1
      <3>4. x # p[m]
        BY <2>2, <3>1, <3>3
      <3>5. Parent(2, x) # p[k]
        BY <1>10, <3>1, <3>2, <3>4
      <3> QED
        BY <1>15, <2>4, <3>1, <3>5
    <2>8. XOR(FoldFunctionOnSet(XOR, Zero, u, S), FoldFunctionOnSet(XOR, Zero, f, S)) = f[i]
      <3>1. EmptyAt(u, f, S, i)
        BY <2>6, <2>7 DEF EmptyAt
      <3>2. KnownCancel(u, f, S, i)
        BY <2>5, <3>1, MissingXOR
      <3> QED
        BY <3>2 DEF KnownCancel
    <2>9. s \in 1 .. 2 /\ s # Sibling(2, p[m])
      BY <1>10, <1>16, <2>1, <2>2, OneOfSiblings
    <2>10. /\ XORBlocks(2, U[m])[s] = FoldFunctionOnSet(XOR, Zero, u, S)
           /\ XORBlocks(2, V[m])[s] = FoldFunctionOnSet(XOR, Zero, f, S)
      <3>1. DOMAIN u = 1 .. w[m] /\ DOMAIN f = 1 .. w[m]
        BY <1>4, <1>6, <2>4
      <3> QED
        BY Zenon, <2>3, <2>4, <2>9, <3>1 DEF XORBlocks
    <2>11. xors[k][s] = XORBlocks(2, V[m])[s]
      BY <1>3, <2>9
    <2> QED
      <3>1. W[m][i] = XOR(XORBlocks(2, U[m])[s], xors[k][s])
        BY <1>13, <1>16, <2>1, <2>2
      <3> QED
        BY <2>4, <2>8, <2>10, <2>11, <3>1
  <1>17. PICK E : E = ExpandSubtrees(2, W, m, siblings)
    OBVIOUS
  <1>18. /\ E = [l \in 1 .. L |-> E[l]]
         /\ \A l \in 1 .. L : E[l] =
              [i \in DOMAIN W[l] |->
                IF l > m /\ Ancestor(2, i, l - m) \in siblings
                THEN ComputePRG(E[l - 1][Parent(2, i)], Sibling(2, i))
                ELSE W[l][i]]
    <2>1. L \in Nat /\ DOMAIN W = 1 .. L /\ m \in Nat \ {0}
      BY <1>2, <1>4, <1>13
    <2> QED
      BY <1>17, <2>1, Expanded
  <1>19. FillLevel(U, k + 1, p, xors, 2) = E
    BY <1>3, <1>9, <1>12, <1>17 DEF FillLevel
  <1>20. \A l \in 1 .. L : DOMAIN E[l] = 1 .. w[l]
    BY <1>14, <1>18
  <1>21. \A i \in 1 .. w[m] : E[m][i] = IF i = p[m] THEN Zero ELSE V[m][i]
    <2> SUFFICES ASSUME NEW i \in 1 .. w[m]
                 PROVE  E[m][i] = IF i = p[m] THEN Zero ELSE V[m][i]
      OBVIOUS
    <2>1. E[m][i] = W[m][i]
      <3>1. ~ (m > m) /\ i \in DOMAIN W[m]
        <4>1. m \in Nat
          BY <1>4
        <4>2. i \in DOMAIN W[m]
          BY <1>4, <1>14
        <4> QED
          BY <4>1, <4>2
      <3> QED
        BY SMTT(30), <1>4, <1>18, <3>1
    <2>2. CASE i \in siblings
      BY <1>10, <1>16, <2>1, <2>2
    <2>3. CASE i \notin siblings
      BY <1>5, <1>10, <1>13, <1>15, <2>1, <2>3
    <2> QED
      BY <2>2, <2>3
  <1>22. \A l \in 1 .. L : l < m => \A i \in 1 .. w[l] : E[l][i] = U[l][i]
    <2> SUFFICES ASSUME NEW l \in 1 .. L, l < m, NEW i \in 1 .. w[l] PROVE E[l][i] = U[l][i]
      OBVIOUS
    <2>1. ~ (l > m) /\ l # m
      BY <1>4
    <2>2. E[l][i] = W[l][i]
      BY <1>14, <1>18, <2>1
    <2> QED
      BY <1>13, <2>1, <2>2
  <1> DEFINE Below(d) == \A i \in 1 .. w[m + d] :
               /\ Ancestor(2, i, d) \in 1 .. w[m]
               /\ E[m + d][i] = IF Ancestor(2, i, d) = p[m] THEN Zero ELSE V[m + d][i]
  <1> HIDE DEF Below
  <1>23. PICK Q : Q = {d \in Nat : m + d <= L => Below(d)}
    OBVIOUS
  <1>24. 0 \in Q
    <2>1. m + 0 = m /\ \A i \in 1 .. w[m] : Ancestor(2, i, 0) = i
      <3>1. m + 0 = m /\ 0 \in Nat
        BY <1>4
      <3> QED
        BY <1>10, <3>1, AncestorLaws
    <2> QED
      BY <1>21, <1>23, <2>1 DEF Below
  <1>25. ASSUME NEW d \in Nat, d \in Q PROVE d + 1 \in Q
    <2> SUFFICES ASSUME m + (d + 1) <= L PROVE Below(d + 1)
      BY <1>23
    <2>1. PICK g, l : g = m + d /\ l = m + (d + 1)
      OBVIOUS
    <2>2. /\ g \in 1 .. L /\ l \in 1 .. L /\ l = g + 1 /\ l - 1 = g /\ l > m
          /\ l - m = d + 1 /\ l - k = (d + 1) + 1 /\ ~ (l <= k) /\ l # m
      BY <1>2, <1>3, <1>4, <2>1
    <2>3. Below(d)
      BY <1>23, <1>25, <2>1, <2>2
    <2>4. ASSUME NEW i \in 1 .. w[l]
          PROVE  /\ Ancestor(2, i, d + 1) \in 1 .. w[m]
                 /\ E[l][i] = IF Ancestor(2, i, d + 1) = p[m] THEN Zero ELSE V[l][i]
      <3>1. PICK a, b : a = Ancestor(2, i, d + 1) /\ b = Parent(2, i)
        OBVIOUS
      <3>2. b \in 1 .. w[g]
        BY <1>2, <2>2, <3>1
      <3>3. i \in Nat \ {0}
        BY <1>2, <2>2
      <3>4. a = Ancestor(2, b, d)
        BY <3>1, <3>3, AncestorLaws
      <3>5. a \in 1 .. w[m] /\ E[g][b] = IF a = p[m] THEN Zero ELSE V[g][b]
        BY <2>1, <2>3, <3>2, <3>4 DEF Below
      <3>6. Ancestor(2, i, (d + 1) + 1) = Parent(2, a)
        <4>1. d + 1 \in Nat
          OBVIOUS
        <4> QED
          BY <3>1, <3>3, <4>1, AncestorLaws
      <3>7. E[l][i] = IF a \in siblings THEN ComputePRG(E[g][b], Sibling(2, i)) ELSE W[l][i]
        <4>1. i \in DOMAIN W[l]
          BY <1>14, <2>2
        <4>2. E[l] = [x \in DOMAIN W[l] |->
                       IF l > m /\ Ancestor(2, x, l - m) \in siblings
                       THEN ComputePRG(E[l - 1][Parent(2, x)], Sibling(2, x))
                       ELSE W[l][x]]
          BY <1>18, <2>2
        <4>3. E[l][i] = IF l > m /\ Ancestor(2, i, l - m) \in siblings
                       THEN ComputePRG(E[l - 1][Parent(2, i)], Sibling(2, i))
                       ELSE W[l][i]
          BY <4>1, <4>2
        <4> QED
          BY <2>2, <3>1, <4>3
      <3>8. V[l][i] = ComputePRG(V[g][b], Sibling(2, i))
        BY <1>1, <2>2, <3>1 DEF IsTree
      <3>9. W[l][i] = IF Parent(2, a) = p[k] THEN Zero ELSE V[l][i]
        BY <1>8, <1>13, <2>2, <3>6, SMTT(30)
      <3>10. CASE a \in siblings
        BY <1>10, <3>1, <3>5, <3>7, <3>8, <3>10
      <3>11. CASE a \notin siblings
        BY <1>5, <1>10, <3>1, <3>5, <3>7, <3>9, <3>11
      <3> QED
        BY <3>10, <3>11
    <2> QED
      BY <2>1, <2>4 DEF Below
  <1>26. \A d \in Nat : d \in Q
    BY <1>24, <1>25, NumberInduction
  <1>27. ASSUME NEW l \in 1 .. L, NEW i \in 1 .. w[l]
         PROVE  E[l][i] = IF Ancestor(2, i, IF l <= m THEN 0 ELSE l - m) = p[IF l <= m THEN l ELSE m]
                          THEN Zero ELSE V[l][i]
    <2>1. i \in Nat \ {0}
      BY <1>2
    <2>2. Ancestor(2, i, 0) = i
      BY <2>1, AncestorLaws
    <2>3. CASE l < m
      <3>1. l <= k /\ l <= m
        BY <1>3, <1>4, <2>3
      <3> QED
        BY <1>7, <1>22, <2>2, <2>3, <3>1
    <2>4. CASE l = m
      <3>1. l <= m
        BY <1>4, <2>4
      <3> QED
        BY <1>21, <2>2, <2>4, <3>1
    <2>5. CASE l > m
      <3>1. PICK d : d = l - m
        OBVIOUS
      <3>2. d \in Nat /\ l = m + d /\ m + d <= L /\ ~ (l <= m)
        BY <1>2, <1>4, <2>5, <3>1
      <3>3. Below(d)
        BY <1>23, <1>26, <3>2
      <3> QED
        BY <3>1, <3>2, <3>3 DEF Below
    <2> QED
      BY <1>4, <2>3, <2>4, <2>5
  <1>28. Rebuilt(E, V, n, L, missing, m)
    BY <1>1, <1>18, <1>20, <1>27 DEF Rebuilt, HasLevels
  <1> QED
    BY <1>3, <1>19, <1>28

-----------------------------------------------------------------------------
(* The oblivious transfers.  What the two ends hold is a matter of the     *)
(* sizes sz, the indices ix, the shares vs and the trees, and of the sizes *)
(* A that get a level too many.                                            *)

OTsFor(A, n) == IF n = 0 THEN 0 ELSE Levels(A, n) - 1
RoundsOf(A, sz) == [k \in DOMAIN sz |-> OTsFor(A, sz[k])]
OTsBefore(A, sz, j) == FoldFunctionOnSet(+, 0, RoundsOf(A, sz), 1 .. j - 1)
AllOTs(A, sz) == FoldFunctionOnSet(+, 0, RoundsOf(A, sz), 1 .. Len(sz))

TreesMade(A, sz, T) ==
  \A j \in DOMAIN sz :
    IF sz[j] = 0 THEN T[j] = <<>> ELSE IsTree(T[j], sz[j], Levels(A, sz[j]))

\* The value provider's pairs, level after level of tree after tree.
OptsMade(A, sz, T, op) ==
  /\ Len(op) = AllOTs(A, sz)
  /\ \A j \in DOMAIN sz : \A l \in 1 .. OTsFor(A, sz[j]) :
       /\ OTsBefore(A, sz, j) + l \in DOMAIN op
       /\ op[OTsBefore(A, sz, j) + l] = XORBlocks(2, T[j][l + 1])

Valid(sz, ix) == \A j \in DOMAIN sz : ix[j] >= 0 /\ (ix[j] < sz[j] \/ sz[j] = 0)

BitOf(A, sz, ix, j, l) == 1 - ((ix[j] \div (2 ^ (OTsFor(A, sz[j]) - l))) % 2)

\* The index provider's bits, in the same order.
ChoicesMade(A, sz, ix, ch) ==
  /\ ch \in Seq({0, 1}) /\ Len(ch) = AllOTs(A, sz)
  /\ \A j \in DOMAIN sz : \A l \in 1 .. OTsFor(A, sz[j]) :
       /\ OTsBefore(A, sz, j) + l \in 1 .. Len(ch)
       /\ ch[OTsBefore(A, sz, j) + l] = BitOf(A, sz, ix, j, l)

\* It has one of each pair.
Received(op, ch, res) ==
  /\ Len(res) = Len(ch)
  /\ \A k \in 1 .. Len(ch) : res[k] = op[k][ch[k] + 1]

\* The OTs for a tree are one for each level but the root.
LEMMA RoundsType ==
  ASSUME NEW n \in Nat, NEW A
  PROVE  OTsFor(A, n) \in Nat /\ (n # 0 => Levels(A, n) = OTsFor(A, n) + 1)
  <1>1. CASE n = 0
    BY <1>1 DEF OTsFor
  <1>2. CASE n # 0
    <2>1. n \in Nat \ {0}
      BY <1>2
    <2>2. Levels(A, n) \in Nat \ {0}
      BY <2>1, LevelsSuffice DEF Room
    <2> QED
      BY <1>2, <2>2 DEF OTsFor
  <1> QED
    BY <1>1, <1>2

\* The pairs that SendTrees makes of the trees.
LEMMA OptsAreMade ==
  ASSUME NEW A, NEW sz \in Seq(Nat), NEW T, TreesMade(A, sz, T)
  PROVE  OptsMade(A, sz, T, FlattenSeq([j \in DOMAIN sz |-> GetSiblingWiseXOR(2, T[j])]))
  <1>1. PICK ss, r : /\ ss = [j \in DOMAIN sz |-> GetSiblingWiseXOR(2, T[j])]
                     /\ r = RoundsOf(A, sz)
    OBVIOUS
  <1>2. DOMAIN sz = 1 .. Len(sz) /\ Len(sz) \in Nat
    OBVIOUS
  <1>3. ASSUME NEW j \in 1 .. Len(sz)
        PROVE  /\ r[j] = OTsFor(A, sz[j]) /\ r[j] \in Nat
               /\ ss[j] = [l \in 1 .. r[j] |-> XORBlocks(2, T[j][l + 1])]
    <2>1. r[j] = OTsFor(A, sz[j]) /\ sz[j] \in Nat
      BY <1>1, <1>2 DEF RoundsOf
    <2>2. r[j] \in Nat
      BY <2>1, RoundsType
    <2>3. ss[j] = GetSiblingWiseXOR(2, T[j])
      BY <1>1, <1>2
    <2>4. 1 .. Len(T[j]) - 1 = 1 .. r[j]
      <3>1. CASE sz[j] = 0
        <4>1. T[j] = <<>> /\ r[j] = 0
          BY <1>2, <2>1, <3>1 DEF TreesMade, OTsFor
        <4> QED
          BY <4>1
      <3>2. CASE sz[j] # 0
        <4>1. Levels(A, sz[j]) = r[j] + 1
          BY <2>1, <3>2, RoundsType
        <4>2. T[j] = [l \in 1 .. Levels(A, sz[j]) |-> T[j][l]]
          BY <1>2, <3>2 DEF TreesMade, IsTree, HasLevels
        <4>3. PICK m, t : m = r[j] + 1 /\ t = T[j]
          OBVIOUS
        <4>4. m \in Nat /\ t = [l \in 1 .. m |-> t[l]] /\ m - 1 = r[j]
          BY <2>2, <4>1, <4>2, <4>3
        <4>5. Len(t) = m
          BY <4>4
        <4> QED
          BY <4>3, <4>4, <4>5
      <3> QED
        BY <3>1, <3>2
    <2> QED
      BY <2>1, <2>2, <2>3, <2>4 DEF GetSiblingWiseXOR
  <1>4. PICK U : U = UNION {{ss[j][l] : l \in 1 .. r[j]} : j \in 1 .. Len(sz)}
    OBVIOUS
  <1>5. ASSUME NEW j \in 1 .. Len(sz) PROVE ss[j] \in Seq(U) /\ r[j] = Len(ss[j])
    <2>1. PICK m, t : m = r[j] /\ t = ss[j]
      OBVIOUS
    <2>2. m \in Nat /\ t = [l \in 1 .. m |-> t[l]]
      <3>1. m \in Nat /\ t = [l \in 1 .. m |-> XORBlocks(2, T[j][l + 1])]
        BY <1>3, <2>1
      <3> QED
        BY <3>1
    <2>4. \A l \in 1 .. m : t[l] \in U
      BY <1>4, <2>1
    <2>3. t \in Seq(U) /\ Len(t) = m
      BY <2>2, <2>4
    <2> QED
      BY <2>1, <2>3
  <1>6. ss \in Seq(Seq(U)) /\ Len(ss) = Len(sz)
    BY <1>1, <1>2, <1>5
  <1>7. PICK flat : flat = FlattenSeq(ss)
    OBVIOUS
  <1>8. flat \in Seq(U) /\ FlattenedAt(flat, ss, r, Len(sz))
    BY <1>5, <1>6, <1>7, FlattenAt
  <1>9. /\ Len(flat) = AllOTs(A, sz)
        /\ \A j \in 1 .. Len(sz) : \A l \in 1 .. r[j] :
             OTsBefore(A, sz, j) + l \in 1 .. Len(flat) /\ flat[OTsBefore(A, sz, j) + l] = ss[j][l]
    BY <1>1, <1>8 DEF FlattenedAt, AllOTs, OTsBefore
  <1>10. OptsMade(A, sz, T, flat)
    <2>1. ASSUME NEW j \in 1 .. Len(sz), NEW l \in 1 .. OTsFor(A, sz[j])
          PROVE  /\ OTsBefore(A, sz, j) + l \in DOMAIN flat
                 /\ flat[OTsBefore(A, sz, j) + l] = XORBlocks(2, T[j][l + 1])
      <3>1. l \in 1 .. r[j] /\ ss[j] = [x \in 1 .. r[j] |-> XORBlocks(2, T[j][x + 1])]
        BY <1>3
      <3>2. ss[j][l] = XORBlocks(2, T[j][l + 1])
        BY <3>1
      <3>3. DOMAIN flat = 1 .. Len(flat)
        BY <1>8
      <3> QED
        BY <1>9, <3>1, <3>2, <3>3
    <2> QED
      BY <1>2, <1>9, <2>1 DEF OptsMade
  <1> QED
    BY <1>1, <1>7, <1>10

\* The bits that ReceiveTrees makes of the indices.
LEMMA ChoicesAreMade ==
  ASSUME NEW A, NEW sz \in Seq(Nat), NEW ix, \A j \in DOMAIN sz : ix[j] \in Nat
  PROVE  ChoicesMade(A, sz, ix, FlattenSeq(
           [j \in DOMAIN sz |-> [l \in 1 .. OTsFor(A, sz[j]) |-> BitOf(A, sz, ix, j, l)]]))
  <1>1. PICK ss, r : /\ ss = [j \in DOMAIN sz |-> [l \in 1 .. OTsFor(A, sz[j]) |-> BitOf(A, sz, ix, j, l)]]
                     /\ r = RoundsOf(A, sz)
    OBVIOUS
  <1>2. DOMAIN sz = 1 .. Len(sz) /\ Len(sz) \in Nat
    OBVIOUS
  <1>3. ASSUME NEW j \in 1 .. Len(sz)
        PROVE  /\ r[j] = OTsFor(A, sz[j]) /\ r[j] \in Nat
               /\ ss[j] = [l \in 1 .. r[j] |-> BitOf(A, sz, ix, j, l)]
               /\ \A l \in 1 .. r[j] : BitOf(A, sz, ix, j, l) \in {0, 1}
    <2>1. r[j] = OTsFor(A, sz[j]) /\ sz[j] \in Nat
      BY <1>1, <1>2 DEF RoundsOf
    <2>2. r[j] \in Nat
      BY <2>1, RoundsType
    <2>3. ss[j] = [l \in 1 .. r[j] |-> BitOf(A, sz, ix, j, l)]
      BY <1>1, <1>2, <2>1
    <2>4. ASSUME NEW l \in 1 .. r[j] PROVE BitOf(A, sz, ix, j, l) \in {0, 1}
      <3>1. PICK h, a, b : h = OTsFor(A, sz[j]) - l /\ a = ix[j] /\ b = a \div 2 ^ h
        OBVIOUS
      <3>2. h \in Nat /\ a \in Nat
        BY SMTT(30), <1>2, <2>1, <2>2, <3>1
      <3>3. b \in Nat
        BY <3>1, <3>2, HalfOfQuotient
      <3>4. 1 - (b % 2) \in {0, 1}
        BY <3>3
      <3> QED
        BY <3>1, <3>4 DEF BitOf
    <2> QED
      BY <2>1, <2>2, <2>3, <2>4
  <1>4. ASSUME NEW j \in 1 .. Len(sz) PROVE ss[j] \in Seq({0, 1}) /\ r[j] = Len(ss[j])
    <2>1. PICK m, t : m = r[j] /\ t = ss[j]
      OBVIOUS
    <2>2. /\ m \in Nat /\ t = [l \in 1 .. m |-> BitOf(A, sz, ix, j, l)]
          /\ \A l \in 1 .. m : BitOf(A, sz, ix, j, l) \in {0, 1}
      BY <1>3, <2>1
    <2>3. t \in [1 .. m -> {0, 1}]
      BY <2>2
    <2>4. t \in Seq({0, 1}) /\ Len(t) = m
      BY <2>2, <2>3
    <2> QED
      BY <2>1, <2>4
  <1>5. ss \in Seq(Seq({0, 1})) /\ Len(ss) = Len(sz)
    BY <1>1, <1>2, <1>4
  <1>6. PICK flat : flat = FlattenSeq(ss)
    OBVIOUS
  <1>7. flat \in Seq({0, 1}) /\ FlattenedAt(flat, ss, r, Len(sz))
    BY <1>4, <1>5, <1>6, FlattenAt
  <1>8. /\ Len(flat) = AllOTs(A, sz)
        /\ \A j \in 1 .. Len(sz) : \A l \in 1 .. r[j] :
             OTsBefore(A, sz, j) + l \in 1 .. Len(flat) /\ flat[OTsBefore(A, sz, j) + l] = ss[j][l]
    BY <1>1, <1>7 DEF FlattenedAt, AllOTs, OTsBefore
  <1>9. ChoicesMade(A, sz, ix, flat)
    <2>1. ASSUME NEW j \in 1 .. Len(sz), NEW l \in 1 .. OTsFor(A, sz[j])
          PROVE  /\ OTsBefore(A, sz, j) + l \in 1 .. Len(flat)
                 /\ flat[OTsBefore(A, sz, j) + l] = BitOf(A, sz, ix, j, l)
      <3>1. l \in 1 .. r[j] /\ ss[j] = [x \in 1 .. r[j] |-> BitOf(A, sz, ix, j, x)]
        BY <1>3
      <3>2. ss[j][l] = BitOf(A, sz, ix, j, l)
        BY <3>1
      <3> QED
        BY <1>8, <3>1, <3>2
    <2> QED
      BY <1>2, <1>7, <1>8, <2>1 DEF ChoicesMade
  <1> QED
    BY <1>1, <1>6, <1>9

\* Ends that round a size alike count the same levels for it.
LEMMA SameLevels ==
  ASSUME NEW A, NEW B, NEW n, n \in A <=> n \in B
  PROVE  Levels(A, n) = Levels(B, n) /\ OTsFor(A, n) = OTsFor(B, n)
  BY DEF Levels, NumLevels, OTsFor

\* And the same OTs for all outputs of such sizes.
LEMMA SameOTs ==
  ASSUME NEW sz \in Seq(Nat), NEW A, NEW B, NEW n \in 0 .. Len(sz),
         \A k \in 1 .. n : sz[k] \in A <=> sz[k] \in B
  PROVE  FoldFunctionOnSet(+, 0, RoundsOf(A, sz), 1 .. n) =
           FoldFunctionOnSet(+, 0, RoundsOf(B, sz), 1 .. n)
  <1>1. PICK a, b, S : a = RoundsOf(A, sz) /\ b = RoundsOf(B, sz) /\ S = 1 .. n
    OBVIOUS
  <1>2. ASSUME NEW k \in S PROVE a[k] = b[k] /\ a[k] \in Int
    <2>1. k \in DOMAIN sz /\ sz[k] \in Nat
      BY <1>1
    <2>2. a[k] = OTsFor(A, sz[k]) /\ b[k] = OTsFor(B, sz[k])
      BY <1>1, <2>1 DEF RoundsOf
    <2>3. OTsFor(A, sz[k]) = OTsFor(B, sz[k])
      BY <1>1, SameLevels
    <2>4. OTsFor(A, sz[k]) \in Nat
      BY <2>1, RoundsType
    <2> QED
      BY <2>2, <2>3, <2>4
  <1>3. IsFiniteSet(S)
    BY <1>1, FS_Interval
  <1>4. FoldFunctionOnSet(+, 0, a, S) = FoldFunctionOnSet(+, 0, b, S)
    BY <1>2, <1>3, SumSame
  <1> QED
    BY <1>1, <1>4

\* So the trees and pairs of one end are those that the other one counts on, if
\* they round all sizes alike.
LEMMA AlikeMade ==
  ASSUME NEW sz \in Seq(Nat), NEW A, NEW B, NEW T, NEW op,
         \A k \in DOMAIN sz : sz[k] \in A <=> sz[k] \in B
  PROVE  /\ AllOTs(A, sz) = AllOTs(B, sz)
         /\ TreesMade(A, sz, T) => TreesMade(B, sz, T)
         /\ OptsMade(A, sz, T, op) => OptsMade(B, sz, T, op)
  <1>1. DOMAIN sz = 1 .. Len(sz) /\ Len(sz) \in Nat
    OBVIOUS
  <1>2. AllOTs(A, sz) = AllOTs(B, sz)
    <2>1. Len(sz) \in 0 .. Len(sz) /\ \A k \in 1 .. Len(sz) : sz[k] \in A <=> sz[k] \in B
      BY <1>1
    <2> QED
      BY <2>1, SameOTs, ZenonT(30) DEF AllOTs
  <1>3. ASSUME NEW j \in DOMAIN sz
        PROVE  /\ Levels(A, sz[j]) = Levels(B, sz[j]) /\ OTsFor(A, sz[j]) = OTsFor(B, sz[j])
               /\ OTsBefore(A, sz, j) = OTsBefore(B, sz, j)
    <2>1. j - 1 \in 0 .. Len(sz) /\ \A k \in 1 .. j - 1 : sz[k] \in A <=> sz[k] \in B
      BY <1>1
    <2>2. OTsBefore(A, sz, j) = OTsBefore(B, sz, j)
      BY <2>1, SameOTs, ZenonT(30) DEF OTsBefore
    <2>3. Levels(A, sz[j]) = Levels(B, sz[j]) /\ OTsFor(A, sz[j]) = OTsFor(B, sz[j])
      BY SameLevels
    <2> QED
      BY <2>2, <2>3
  <1>4. TreesMade(A, sz, T) => TreesMade(B, sz, T)
    BY <1>3 DEF TreesMade
  <1>5. OptsMade(A, sz, T, op) => OptsMade(B, sz, T, op)
    BY <1>2, <1>3 DEF OptsMade
  <1> QED
    BY <1>2, <1>4, <1>5

\* XORs of the siblings, out of what has been received.
XORsOf(A, sz, ch, res, j) ==
  [l \in 1 .. OTsFor(A, sz[j]) |->
    [s \in 1 .. 2 |-> IF s = ch[OTsBefore(A, sz, j) + l] + 1
                      THEN res[OTsBefore(A, sz, j) + l] ELSE Zero]]

\* Which child of its parent the missing node is, below level k.
MissingChild(A, sz, ix, j, k) ==
  Sibling(2, MissingPath(2, Levels(A, sz[j]), ix[j] + 1)[k + 1])

SiblingsChosen(A, sz, ix, ch) ==
  \A j \in DOMAIN sz : sz[j] # 0 /\ ix[j] \in Nat =>
    \A k \in 1 .. OTsFor(A, sz[j]) :
      /\ OTsBefore(A, sz, j) + k \in 1 .. Len(ch)
      /\ MissingChild(A, sz, ix, j, k) \in {1, 2}
      /\ ch[OTsBefore(A, sz, j) + k] + 1 = 3 - MissingChild(A, sz, ix, j, k)

\* The bit chosen for a level is that of the sibling of the missing node.
LEMMA SiblingChosen ==
  ASSUME NEW A, NEW sz \in Seq(Nat), NEW ix, NEW ch, ChoicesMade(A, sz, ix, ch)
  PROVE  SiblingsChosen(A, sz, ix, ch)
  <1> SUFFICES ASSUME NEW j \in DOMAIN sz, sz[j] # 0, ix[j] \in Nat,
                      NEW k \in 1 .. OTsFor(A, sz[j])
               PROVE  /\ OTsBefore(A, sz, j) + k \in 1 .. Len(ch)
                      /\ MissingChild(A, sz, ix, j, k) \in {1, 2}
                      /\ ch[OTsBefore(A, sz, j) + k] + 1 = 3 - MissingChild(A, sz, ix, j, k)
    BY DEF SiblingsChosen
  <1>0. PICK p : p = MissingPath(2, Levels(A, sz[j]), ix[j] + 1)
    OBVIOUS
  <1>1. PICK R, a, o, b : /\ R = OTsFor(A, sz[j]) /\ a = ix[j] /\ o = OTsBefore(A, sz, j) + k
                          /\ b = (a \div 2 ^ (R - k)) % 2
    OBVIOUS
  <1>2. R \in Nat /\ Levels(A, sz[j]) = R + 1 /\ k \in 1 .. R /\ R - k \in Nat /\ a \in Nat
    <2>1. sz[j] \in Nat
      OBVIOUS
    <2>2. R \in Nat /\ Levels(A, sz[j]) = R + 1
      BY <1>1, <2>1, RoundsType
    <2> QED
      BY SMTT(30), <1>1, <2>2
  <1>3. b \in {0, 1}
    <2>1. a \div 2 ^ (R - k) \in Nat
      BY <1>2, HalfOfQuotient
    <2> QED
      BY <1>1, <2>1
  <1>4. o \in 1 .. Len(ch) /\ ch[o] = 1 - b
    BY <1>1 DEF ChoicesMade, BitOf
  <1>5. Sibling(2, p[k + 1]) = b + 1
    <2>1. k + 1 \in 1 .. R + 1 /\ (R + 1) - (k + 1) = R - k /\ (a + 1) - 1 = a
      BY <1>2
    <2>2. p[k + 1] = Ancestor(2, a + 1, R - k)
      BY <1>0, <1>1, <1>2, <2>1 DEF MissingPath
    <2>3. PICK d : d = a \div 2 ^ (R - k)
      OBVIOUS
    <2>4. d \in Nat /\ p[k + 1] = d + 1 /\ b = d % 2
      BY <1>1, <1>2, <2>1, <2>2, <2>3, HalfOfQuotient DEF Ancestor
    <2> QED
      <3>1. (d + 1) - 1 = d
        BY <2>4
      <3> QED
        BY <2>4, <3>1 DEF Sibling
  <1>6. MissingChild(A, sz, ix, j, k) = b + 1
    BY <1>0, <1>5 DEF MissingChild
  <1> QED
    BY <1>1, <1>3, <1>4, <1>6

SiblingXORs(A, sz, ix, T, ch, res) ==
  \A j \in DOMAIN sz : sz[j] # 0 /\ ix[j] \in Nat =>
    \A k \in 1 .. OTsFor(A, sz[j]) :
      \A s \in 1 .. 2 : s # MissingChild(A, sz, ix, j, k) =>
        XORsOf(A, sz, ch, res, j)[k][s] = XORBlocks(2, T[j][k + 1])[s]

\* So what has been received for that level is the XOR of the siblings.
LEMMA SiblingsReceived ==
  ASSUME NEW A, NEW sz \in Seq(Nat), NEW ix, NEW T, NEW op, NEW ch, NEW res,
         OptsMade(A, sz, T, op), ChoicesMade(A, sz, ix, ch), Received(op, ch, res)
  PROVE  SiblingXORs(A, sz, ix, T, ch, res)
  <1> SUFFICES ASSUME NEW j \in DOMAIN sz, sz[j] # 0, ix[j] \in Nat,
                      NEW k \in 1 .. OTsFor(A, sz[j])
               PROVE  \A s \in 1 .. 2 : s # MissingChild(A, sz, ix, j, k) =>
                        XORsOf(A, sz, ch, res, j)[k][s] = XORBlocks(2, T[j][k + 1])[s]
    BY DEF SiblingXORs
  <1>1. PICK o, b : o = OTsBefore(A, sz, j) + k /\ b = MissingChild(A, sz, ix, j, k)
    OBVIOUS
  <1>2. o \in 1 .. Len(ch) /\ b \in {1, 2} /\ ch[o] + 1 = 3 - b
    <2>1. SiblingsChosen(A, sz, ix, ch)
      BY SiblingChosen
    <2> QED
      BY <1>1, <2>1 DEF SiblingsChosen
  <1>3. res[o] = op[o][ch[o] + 1] /\ op[o] = XORBlocks(2, T[j][k + 1])
    BY <1>1, <1>2 DEF Received, OptsMade
  <1>4. ASSUME NEW s \in 1 .. 2, s # b
        PROVE  XORsOf(A, sz, ch, res, j)[k][s] = XORBlocks(2, T[j][k + 1])[s]
    <2>1. s = ch[o] + 1
      BY <1>2, <1>4
    <2>2. XORsOf(A, sz, ch, res, j)[k][s] = res[o]
      BY <1>1, <2>1 DEF XORsOf
    <2> QED
      BY <1>3, <2>1, <2>2
  <1> QED
    BY <1>1, <1>4

-----------------------------------------------------------------------------
(* The invariant.                                                          *)

SumsOf(sz, vs, T) ==
  [j \in DOMAIN sz |-> (vs["value"][j] + Total(Leaves(T[j], sz[j]))) % modulus]
NegatedOf(sz, T) == [j \in DOMAIN sz |-> Negated(Leaves(T[j], sz[j]))]

\* The index provider's trees.
TreesRebuiltTo(A, sz, ix, TV, TI, fl) ==
  /\ DOMAIN TI = DOMAIN sz /\ DOMAIN fl = DOMAIN sz
  /\ \A j \in DOMAIN sz :
       IF sz[j] = 0 THEN TI[j] = <<>> /\ fl[j] = 0
       ELSE /\ fl[j] \in 1 .. Levels(A, sz[j])
            /\ Rebuilt(TI[j], TV[j], sz[j], Levels(A, sz[j]), ix[j] + 1, fl[j])

AllFilled(A, sz, fl) == \A j \in DOMAIN sz : sz[j] # 0 => fl[j] = Levels(A, sz[j])

ResultOf(sz, ix, vs, TI, sums) ==
  [j \in DOMAIN sz |->
    LET leaves == Leaves(TI[j], sz[j])
    IN  IF sz[j] = 0 THEN <<>>
        ELSE [leaves EXCEPT ![ix[j] + 1] =
                (vs["index"][j] - (Total(leaves) - leaves[ix[j] + 1]) + sums[j]) % modulus]]

Inputs(sz, ix, vs) ==
  /\ sz \in Sizes /\ sz \in Seq(Nat)
  /\ ix \in [DOMAIN sz -> Indices] /\ \A j \in DOMAIN sz : ix[j] \in Int /\ ix[j] <= sz[j]
  /\ vs \in [Roles -> [DOMAIN sz -> ValueShares]]

Domains ==
  /\ above \in Roundings
  /\ DOMAIN pc = Roles /\ DOMAIN trees = Roles /\ DOMAIN outputs = Roles
  /\ pc["value"] \in {"start", "ot", "keys", "done", "failed"}
  /\ pc["index"] \in {"start", "ot", "keys", "rebuild", "sums", "done", "failed"}

ValueSide ==
  /\ pc["value"] \in {"ot", "keys", "done"} =>
       /\ TreesMade(above["value"], sizes, trees["value"])
       /\ OptsMade(above["value"], sizes, trees["value"], opts)
  /\ outputs["value"] = IF pc["value"] = "done" THEN NegatedOf(sizes, trees["value"])
                        ELSE [j \in DOMAIN sizes |-> <<>>]

IndexSide ==
  /\ pc["index"] \in {"start", "failed"} => choices = <<>>
  /\ pc["index"] \in {"start", "ot", "failed"} => ot_results = <<>>
  /\ pc["index"] \notin {"start", "failed"} =>
       Valid(sizes, indices) /\ ChoicesMade(above["index"], sizes, indices, choices)
  /\ Alike /\ pc["index"] \in {"rebuild", "sums", "done"} =>
       TreesRebuiltTo(above["index"], sizes, indices, trees["value"], trees["index"], filled)
  /\ Alike /\ pc["index"] \in {"sums", "done"} => AllFilled(above["index"], sizes, filled)
  /\ outputs["index"] =
       IF pc["index"] = "done"
       THEN ResultOf(sizes, indices, val_shares, trees["index"],
                     SumsOf(sizes, val_shares, trees["value"]))
       ELSE [j \in DOMAIN sizes |-> <<>>]

\* What one end has of the other: it cannot have come before it was sent.
Between ==
  /\ pc["index"] \in {"keys", "rebuild", "sums", "done"} =>
       /\ Received(opts, choices, ot_results)
       /\ choices # <<>> => pc["value"] \in {"keys", "done"}
  /\ emp \in {<<>>, <<"keys">>}
  /\ channel = <<>> \/ channel = <<SumsOf(sizes, val_shares, trees["value"])>>
  /\ emp # <<>> \/ channel # <<>> \/ pc["index"] \in {"rebuild", "sums", "done"} =>
       pc["value"] = "done"

IInv ==
  /\ Inputs(sizes, indices, val_shares) /\ Domains
  /\ ValueSide /\ IndexSide /\ Between

-----------------------------------------------------------------------------
(* It holds at first, and every step preserves it.                         *)

\* Nothing has been made or sent.
LEMMA InitInv == Init => IInv
  <1> SUFFICES ASSUME Init PROVE IInv
    OBVIOUS
  <1> USE DEF Init, Batch
  <1>1. Inputs(sizes, indices, val_shares)
    <2>1. sizes \in Sizes /\ sizes \in Seq(Nat)
      BY SPFSSAssumption
    <2>2. indices \in [DOMAIN sizes -> Indices] /\ \A j \in DOMAIN sizes : indices[j] <= sizes[j]
      OBVIOUS
    <2>3. \A j \in DOMAIN sizes : indices[j] \in Int
      BY <2>2, SPFSSAssumption
    <2> QED
      BY <2>1, <2>2, <2>3 DEF Inputs
  <1>2. Domains
    BY DEF Domains, Roles
  <1>3. ValueSide /\ IndexSide /\ Between
    BY DEF ValueSide, IndexSide, Between, Roles
  <1> QED
    BY <1>1, <1>2, <1>3 DEF IInv

\* An end that refuses its arguments has sent nothing.
LEMMA FailStep ==
  ASSUME IInv, SendTreesFails \/ RejectIndices
  PROVE  IInv'
  <1>1. UNCHANGED <<inputs, trees, filled, opts, choices, ot_results, emp, channel, outputs>>
    BY DEF SendTreesFails, RejectIndices
  <1>2. Inputs(sizes, indices, val_shares)' /\ Domains'
    BY <1>1 DEF IInv, Domains, SendTreesFails, RejectIndices, inputs, Roles
  <1>3. ValueSide'
    BY <1>1 DEF IInv, Domains, ValueSide, SendTreesFails, RejectIndices, inputs, Roles
  <1>4. IndexSide'
    BY <1>1 DEF IInv, Domains, IndexSide, Alike, SameRounding, Batch, SendTreesFails, RejectIndices, inputs, Roles
  <1>5. Between'
    BY <1>1 DEF IInv, Domains, Between, SendTreesFails, RejectIndices, inputs, Roles
  <1> QED
    BY <1>2, <1>3, <1>4, <1>5 DEF IInv

\* The value provider makes its trees and the pairs of blocks of all OTs.
LEMMA SendTreesStep ==
  ASSUME IInv, SendTrees
  PROVE  IInv'
  <1>1. /\ pc["value"] = "start" /\ pc' = [pc EXCEPT !["value"] = IF opts' = <<>> THEN "keys" ELSE "ot"]
        /\ trees' = [trees EXCEPT !["value"] =
             [j \in DOMAIN sizes |-> IF sizes[j] = 0 THEN <<>>
                              ELSE Create(2, sizes[j], RandomSeed(j), above["value"])]]
        /\ opts' = FlattenSeq([j \in DOMAIN sizes |-> GetSiblingWiseXOR(2, trees'["value"][j])])
        /\ UNCHANGED <<sizes, indices, val_shares, above, filled, choices, ot_results, emp, channel, outputs>>
    BY DEF SendTrees, inputs, Batch, arity
  <1>2. sizes \in Seq(Nat) /\ DOMAIN trees = Roles /\ Domains
    BY DEF IInv, Inputs, Domains
  <1>3. Inputs(sizes, indices, val_shares)' /\ Domains'
    BY <1>1, <1>2 DEF IInv, Domains, Roles
  <1>4. trees'["index"] = trees["index"]
    BY <1>1, <1>2 DEF Roles
  <1>5. TreesMade(above["value"], sizes, trees'["value"])
    <2>1. PICK T : T = trees'["value"]
      OBVIOUS
    <2>2. T = [j \in DOMAIN sizes |-> IF sizes[j] = 0 THEN <<>>
                              ELSE Create(2, sizes[j], RandomSeed(j), above["value"])]
      BY <1>1, <1>2, <2>1 DEF Roles
    <2>3. ASSUME NEW j \in DOMAIN sizes, sizes[j] # 0 PROVE IsTree(T[j], sizes[j], Levels(above["value"], sizes[j]))
      <3>1. sizes[j] \in Nat \ {0} /\ T[j] = Create(2, sizes[j], RandomSeed(j), above["value"])
        BY <1>2, <2>2, <2>3
      <3> QED
        BY <3>1, Created
    <2> QED
      BY <2>1, <2>2, <2>3 DEF TreesMade
  <1>6. OptsMade(above["value"], sizes, trees'["value"], opts')
    BY <1>1, <1>2, <1>5, OptsAreMade
  <1>7. ValueSide'
    BY <1>1, <1>2, <1>3, <1>5, <1>6 DEF IInv, ValueSide, Domains, Roles
  <1>8. pc'["index"] = pc["index"] /\ pc'["value"] # "done" /\ pc["value"] # "done"
    BY <1>1, <1>2 DEF Domains, Roles
  <1>9. pc["index"] \notin {"rebuild", "sums", "done"} /\ emp = <<>> /\ channel = <<>>
    BY <1>8 DEF IInv, Between
  <1>10. IndexSide'
    BY <1>1, <1>4, <1>8, <1>9 DEF IInv, IndexSide, Alike, SameRounding, Batch
  <1>11. Between'
    <2>1. pc["index"] = "keys" => choices = <<>> /\ Len(ot_results) = Len(choices)
      BY <1>1 DEF IInv, Between, Received
    <2>2. pc["index"] = "keys" => Received(opts', choices, ot_results)
      BY <2>1 DEF Received
    <2> QED
      BY <1>1, <1>8, <1>9, <2>1, <2>2 DEF Between
  <1> QED
    BY <1>3, <1>7, <1>10, <1>11 DEF IInv

\* The index provider makes its choices for the OTs.
LEMMA ReceiveTreesStep ==
  ASSUME IInv, ReceiveTrees
  PROVE  IInv'
  <1>1. /\ pc["index"] = "start" /\ pc' = [pc EXCEPT !["index"] = IF choices' = <<>> THEN "keys" ELSE "ot"]
        /\ \A j \in DOMAIN sizes : ~ OutOfRange(j)
        /\ choices' = FlattenSeq([j \in DOMAIN sizes |->
                        [l \in 1 .. OTsFor(above["index"], sizes[j]) |-> BitOf(above["index"], sizes, indices, j, l)]])
        /\ UNCHANGED <<sizes, indices, val_shares, above, trees, filled, opts, ot_results, emp, channel, outputs>>
    BY DEF ReceiveTrees, inputs, Batch, ChoiceBit, BitOf, Rounds, OTsFor, Levels, arity
  <1>2. /\ sizes \in Seq(Nat) /\ Domains
        /\ \A j \in DOMAIN sizes : sizes[j] \in Nat /\ indices[j] \in Int
    BY DEF IInv, Inputs
  <1>3. Inputs(sizes, indices, val_shares)' /\ Domains'
    BY <1>1, <1>2 DEF IInv, Domains, Roles
  <1>4. Valid(sizes, indices) /\ \A j \in DOMAIN sizes : indices[j] \in Nat
    BY <1>1, <1>2 DEF OutOfRange, Valid
  <1>5. ChoicesMade(above["index"], sizes, indices, choices')
    BY <1>1, <1>2, <1>4, ChoicesAreMade
  <1>6. pc'["value"] = pc["value"] /\ pc'["index"] = IF choices' = <<>> THEN "keys" ELSE "ot"
    BY <1>1, <1>2 DEF Domains, Roles
  <1>7. ValueSide'
    BY <1>1, <1>6 DEF IInv, ValueSide
  <1>8. ot_results = <<>>
    BY <1>1 DEF IInv, IndexSide
  <1>9. IndexSide'
    BY <1>1, <1>4, <1>5, <1>6, <1>8 DEF IInv, IndexSide, Alike, SameRounding, Batch
  <1>10. choices' = <<>> => Received(opts, choices', ot_results)
    BY <1>8 DEF Received
  <1>11. Between'
    BY <1>1, <1>6, <1>10 DEF IInv, Between
  <1> QED
    BY <1>3, <1>7, <1>9, <1>11 DEF IInv

\* The OT hands out a block of each pair.
LEMMA RunOTStep ==
  ASSUME IInv, RunOT
  PROVE  IInv'
  <1>1. /\ pc["value"] = "ot" /\ pc["index"] = "ot" /\ pc' = [r \in Roles |-> "keys"]
        /\ ot_results' = [k \in DOMAIN choices |-> opts[k][choices[k] + 1]]
        /\ UNCHANGED <<sizes, indices, val_shares, above, trees, filled, opts, choices, emp, channel, outputs>>
    BY DEF RunOT, inputs
  <1>2. pc'["value"] = "keys" /\ pc'["index"] = "keys" /\ Domains
    BY <1>1 DEF IInv, Roles
  <1>3. Inputs(sizes, indices, val_shares)' /\ Domains'
    BY <1>1, <1>2 DEF IInv, Domains, Roles
  <1>4. ValueSide'
    BY <1>1, <1>2 DEF IInv, ValueSide
  <1>5. IndexSide'
    BY <1>1, <1>2 DEF IInv, IndexSide, Alike, SameRounding, Batch
  <1>6. Received(opts, choices, ot_results')
    <2>1. choices \in Seq({0, 1})
      BY <1>1 DEF IInv, IndexSide, ChoicesMade
    <2>2. DOMAIN choices = 1 .. Len(choices) /\ Len(choices) \in Nat
      BY <2>1
    <2>3. Len(ot_results') = Len(choices)
      BY <1>1, <2>2
    <2> QED
      BY <1>1, <2>2, <2>3 DEF Received
  <1>7. Between'
    <2>1. emp = <<>> /\ channel = <<>>
      BY <1>1 DEF IInv, Between
    <2> QED
      BY <1>1, <1>2, <1>6, <2>1 DEF Between
  <1> QED
    BY <1>3, <1>4, <1>5, <1>7 DEF IInv

\* The value provider sends the keys and the sums, and has its result.
LEMMA SendKeysAndSumsStep ==
  ASSUME IInv, SendKeysAndSums
  PROVE  IInv'
  <1>1. /\ pc["value"] = "keys" /\ pc' = [pc EXCEPT !["value"] = "done"]
        /\ channel' = Append(channel, SumsOf(sizes, val_shares, trees["value"]))
        /\ emp' = Append(emp, "keys")
        /\ UNCHANGED <<sizes, indices, val_shares, above, trees, filled, opts, choices, ot_results>>
    BY DEF SendKeysAndSums, inputs, Batch, SumsOf
  <1>2. outputs' = [outputs EXCEPT !["value"] = NegatedOf(sizes, trees["value"])]
    BY DEF SendKeysAndSums, Batch, NegatedOf
  <1>3. Domains /\ pc'["value"] = "done" /\ pc'["index"] = pc["index"]
    BY <1>1 DEF IInv, Domains, Roles
  <1>4. /\ outputs'["value"] = NegatedOf(sizes, trees["value"])
        /\ outputs'["index"] = outputs["index"]
    BY <1>2, <1>3 DEF Domains, Roles
  <1>5. Inputs(sizes, indices, val_shares)' /\ Domains'
    BY <1>1, <1>2, <1>3 DEF IInv, Domains, Roles
  <1>6. ValueSide'
    BY <1>1, <1>3, <1>4 DEF IInv, ValueSide
  <1>7. IndexSide'
    BY <1>1, <1>3, <1>4 DEF IInv, IndexSide, Alike, SameRounding, Batch
  <1>8. Between'
    <2>1. emp = <<>> /\ channel = <<>>
      BY <1>1 DEF IInv, Between
    <2>2. emp' = <<"keys">> /\ channel' = <<SumsOf(sizes, val_shares, trees["value"])>>
      BY <1>1, <2>1
    <2> QED
      BY <1>1, <1>3, <2>2 DEF IInv, Between
  <1> QED
    BY <1>5, <1>6, <1>7, <1>8 DEF IInv

\* Min of two numbers.
LEMMA LesserOfTwo ==
  ASSUME NEW a \in Int, NEW b \in Int
  PROVE  Min({a, b}) = IF a <= b THEN a ELSE b
  <1>1. PICK m : m = CHOOSE x \in {a, b} : \A y \in {a, b} : x =< y
    OBVIOUS
  <1>2. \E x \in {a, b} : \A y \in {a, b} : x =< y
    OBVIOUS
  <1>3. m \in {a, b} /\ \A y \in {a, b} : m =< y
    BY <1>1, <1>2
  <1>4. m = IF a <= b THEN a ELSE b
    BY <1>3
  <1> QED
    BY <1>1, <1>4 DEF Min

\* The index provider allocates its trees, and the root is all that is done.
LEMMA ReceiveKeysStep ==
  ASSUME IInv, ReceiveKeys
  PROVE  IInv'
  <1>1. /\ pc["index"] = "keys" /\ emp # <<>> /\ emp' = Tail(emp)
        /\ trees' = [trees EXCEPT !["index"] =
             [j \in DOMAIN sizes |-> IF sizes[j] = 0 THEN <<>> ELSE AllocateLevels(2, sizes[j], above["index"])]]
        /\ filled' = [j \in DOMAIN sizes |-> FilledAtFirst(j)]
        /\ pc' = [pc EXCEPT !["index"] = "rebuild"]
        /\ UNCHANGED <<sizes, indices, val_shares, above, opts, choices, ot_results, channel, outputs>>
    BY DEF ReceiveKeys, inputs, Batch, arity
  <1>2. Domains /\ pc'["value"] = pc["value"] /\ pc'["index"] = "rebuild" /\ pc["value"] = "done"
    BY <1>1 DEF IInv, Domains, Between, Roles
  <1>3. trees'["value"] = trees["value"] /\ DOMAIN trees' = Roles
    BY <1>1, <1>2 DEF Domains, Roles
  <1>4. Inputs(sizes, indices, val_shares)' /\ Domains'
    BY <1>1, <1>2, <1>3 DEF IInv, Domains, Roles
  <1>5. ValueSide'
    BY <1>1, <1>2, <1>3 DEF IInv, ValueSide
  <1>6. Valid(sizes, indices) /\ ChoicesMade(above["index"], sizes, indices, choices)
    BY <1>1 DEF IInv, IndexSide
  <1>7. TreesRebuiltTo(above["index"], sizes, indices, trees["value"], trees'["index"], filled')
    <2>1. PICK TI, fl : TI = trees'["index"] /\ fl = filled'
      OBVIOUS
    <2>2. /\ TI = [j \in DOMAIN sizes |-> IF sizes[j] = 0 THEN <<>> ELSE AllocateLevels(2, sizes[j], above["index"])]
          /\ fl = [j \in DOMAIN sizes |-> FilledAtFirst(j)]
      BY <1>1, <1>2, <2>1 DEF Domains, Roles
    <2>3. ASSUME NEW j \in DOMAIN sizes
          PROVE  IF sizes[j] = 0 THEN TI[j] = <<>> /\ fl[j] = 0
                 ELSE /\ fl[j] \in 1 .. Levels(above["index"], sizes[j])
                      /\ Rebuilt(TI[j], trees["value"][j], sizes[j], Levels(above["index"], sizes[j]), indices[j] + 1, fl[j])
      <3>1. sizes[j] \in Nat /\ indices[j] \in Int
        BY DEF IInv, Inputs
      <3>2. FilledAtFirst(j) = IF 1 <= sizes[j] THEN 1 ELSE sizes[j]
        BY <3>1, LesserOfTwo DEF FilledAtFirst
      <3>3. CASE sizes[j] = 0
        BY <2>2, <3>1, <3>2, <3>3
      <3>4. CASE sizes[j] # 0
        <4>1. sizes[j] \in Nat \ {0} /\ indices[j] + 1 \in 1 .. sizes[j]
          BY <1>6, <3>1, <3>4 DEF Valid
        <4>2. fl[j] = 1 /\ TI[j] = AllocateLevels(2, sizes[j], above["index"])
          BY <2>2, <3>1, <3>2, <3>4
        <4>3. Levels(above["index"], sizes[j]) \in Nat \ {0}
          BY <4>1, LevelsSuffice DEF Room
        <4>4. Rebuilt(AllocateLevels(2, sizes[j], above["index"]), trees["value"][j], sizes[j],
                      Levels(above["index"], sizes[j]), indices[j] + 1, 1)
          BY <4>1, FirstRebuilt
        <4> QED
          BY <3>4, <4>2, <4>3, <4>4
      <3> QED
        BY <3>3, <3>4
    <2> QED
      BY <2>1, <2>2, <2>3 DEF TreesRebuiltTo
  <1>8. IndexSide'
    <2>1. outputs["index"] = [j \in DOMAIN sizes |-> <<>>]
      BY <1>1 DEF IInv, IndexSide
    <2> QED
      BY <1>1, <1>2, <1>3, <1>6, <1>7, <2>1 DEF IndexSide, Alike, SameRounding, Batch
  <1>9. Between'
    <2>1. emp' = <<>>
      <3>1. emp = <<"keys">>
        BY <1>1 DEF IInv, Between
      <3>2. Tail(<<"keys">>) = <<>>
        OBVIOUS
      <3> QED
        BY <1>1, <3>1, <3>2
    <2>2. Received(opts, choices, ot_results)
      BY <1>1 DEF IInv, Between
    <2>3. channel = <<>> \/ channel = <<SumsOf(sizes, val_shares, trees["value"])>>
      BY DEF IInv, Between
    <2> QED
      BY <1>1, <1>2, <1>3, <2>1, <2>2, <2>3 DEF Between
  <1> QED
    BY <1>4, <1>5, <1>8, <1>9 DEF IInv

\* A tree is rebuilt by one level.
LEMMA RebuildLevel ==
  ASSUME IInv, NEW j \in DOMAIN sizes, Rebuild(j), Alike
  PROVE  TreesRebuiltTo(above["index"], sizes, indices, trees["value"], trees'["index"], filled')
  <1>1. /\ pc["index"] = "rebuild" /\ filled[j] < Len(trees["index"][j])
        /\ trees' = [trees EXCEPT !["index"][j] =
             FillLevel(@, filled[j] + 1, Path(j), ReceivedXORs(j), 2)]
        /\ filled' = [filled EXCEPT ![j] = @ + 1]
    BY DEF Rebuild, arity
  <1>2. /\ Domains /\ pc["value"] = "done" /\ Received(opts, choices, ot_results)
        /\ Valid(sizes, indices) /\ ChoicesMade(above["index"], sizes, indices, choices)
        /\ TreesMade(above["index"], sizes, trees["value"])
        /\ OptsMade(above["index"], sizes, trees["value"], opts)
        /\ TreesRebuiltTo(above["index"], sizes, indices, trees["value"], trees["index"], filled)
    <2>1. /\ Domains /\ pc["value"] = "done" /\ Received(opts, choices, ot_results)
          /\ Valid(sizes, indices) /\ ChoicesMade(above["index"], sizes, indices, choices)
          /\ TreesMade(above["value"], sizes, trees["value"])
          /\ OptsMade(above["value"], sizes, trees["value"], opts)
          /\ TreesRebuiltTo(above["index"], sizes, indices, trees["value"], trees["index"], filled)
      BY <1>1 DEF IInv, Between, IndexSide, ValueSide
    <2>2. sizes \in Seq(Nat)
      BY DEF IInv, Inputs
    <2>3. \A k \in DOMAIN sizes : sizes[k] \in above["value"] <=> sizes[k] \in above["index"]
      BY DEF Alike, SameRounding, Batch
    <2> QED
      BY <2>1, <2>2, <2>3, AlikeMade
  <1>3. sizes \in Seq(Nat) /\ sizes[j] \in Nat /\ indices[j] \in Int
    BY DEF IInv, Inputs
  <1>4. PICK TV, TI, U, k, n, B, L :
               /\ TV = trees["value"] /\ TI = trees["index"] /\ U = TI[j]
               /\ k = filled[j] /\ n = sizes[j] /\ B = above["index"] /\ L = Levels(B, n)
    OBVIOUS
  <1>5. DOMAIN TI = DOMAIN sizes /\ DOMAIN filled = DOMAIN sizes
    BY <1>2, <1>4 DEF TreesRebuiltTo
  <1>6. n # 0
    <2> SUFFICES ASSUME n = 0 PROVE FALSE
      OBVIOUS
    <2>1. TI[j] = <<>> /\ filled[j] = 0
      BY <1>2, <1>4 DEF TreesRebuiltTo
    <2>2. Len(<<>>) = 0
      OBVIOUS
    <2> QED
      BY <1>1, <1>4, <2>1, <2>2
  <1>7. /\ n \in Nat \ {0} /\ indices[j] \in Nat /\ indices[j] + 1 \in 1 .. n
        /\ k \in 1 .. L /\ Rebuilt(U, TV[j], n, L, indices[j] + 1, k) /\ IsTree(TV[j], n, L)
    BY <1>2, <1>3, <1>4, <1>6 DEF Valid, TreesRebuiltTo, TreesMade
  <1>8. L = OTsFor(B, n) + 1 /\ OTsFor(B, n) \in Nat
    BY <1>4, <1>6, <1>7, RoundsType
  <1>9. k \in Nat \ {0} /\ k + 1 \in 1 .. L /\ k \in 1 .. OTsFor(B, n)
    <2>1. L \in Nat
      BY <1>8
    <2>2. U = [l \in 1 .. L |-> U[l]] /\ L \in Nat
      BY <1>7, <2>1 DEF Rebuilt, HasLevels
    <2>3. Len(U) = L
      BY <2>2
    <2> QED
      BY <1>1, <1>4, <1>7, <1>8, <2>1, <2>3
  <1>10. PICK p, xors : p = MissingPath(2, L, indices[j] + 1) /\ xors = XORsOf(above["index"], sizes, choices, ot_results, j)
    OBVIOUS
  <1>11. Path(j) = p
    BY <1>4, <1>8, <1>10 DEF Path, Rounds, OTsFor, Levels, arity
  <1>12. ReceivedXORs(j) = xors
    BY <1>10 DEF ReceivedXORs, XORsOf, Offset, OTsBefore, RoundsOf, Rounds, OTsFor, Levels, Batch, arity
  <1>13. \A s \in 1 .. 2 : s # Sibling(2, p[k + 1]) => xors[k][s] = XORBlocks(2, TV[j][k + 1])[s]
    <2>1. /\ OptsMade(B, sizes, TV, opts) /\ ChoicesMade(B, sizes, indices, choices)
          /\ sizes[j] # 0 /\ indices[j] \in Nat /\ k \in 1 .. OTsFor(B, sizes[j])
          /\ Sibling(2, p[k + 1]) = MissingChild(B, sizes, indices, j, k)
          /\ xors = XORsOf(B, sizes, choices, ot_results, j)
      BY <1>2, <1>4, <1>6, <1>7, <1>9, <1>10 DEF MissingChild
    <2>2. \A s \in 1 .. 2 : s # MissingChild(B, sizes, indices, j, k) =>
            XORsOf(B, sizes, choices, ot_results, j)[k][s] = XORBlocks(2, TV[j][k + 1])[s]
      <3>1. SiblingXORs(B, sizes, indices, TV, choices, ot_results)
        BY <1>2, <1>3, <2>1, SiblingsReceived
      <3> QED
        BY <2>1, <3>1 DEF SiblingXORs
    <2> QED
      BY <2>1, <2>2
  <1>14. PICK U2 : U2 = FillLevel(U, k + 1, p, xors, 2)
    OBVIOUS
  <1>15. Rebuilt(U2, TV[j], n, L, indices[j] + 1, k + 1)
    <2>1. Room(L, n)
      BY <1>4, <1>7, LevelsSuffice
    <2> QED
      BY <1>7, <1>9, <1>10, <1>13, <1>14, <2>1, NextRebuilt
  <1>16. PICK TI2, fl : TI2 = trees'["index"] /\ fl = filled'
    OBVIOUS
  <1>17. /\ trees'["value"] = TV /\ DOMAIN trees' = Roles
         /\ DOMAIN TI2 = DOMAIN sizes /\ DOMAIN fl = DOMAIN sizes
         /\ TI2[j] = U2 /\ fl[j] = k + 1
         /\ \A i \in DOMAIN sizes : i # j => TI2[i] = TI[i] /\ fl[i] = filled[i]
    BY <1>1, <1>2, <1>4, <1>5, <1>11, <1>12, <1>14, <1>16 DEF Domains, Roles
  <1>18. TreesRebuiltTo(B, sizes, indices, TV, TI2, fl)
    <2>1. ASSUME NEW i \in DOMAIN sizes
          PROVE  IF sizes[i] = 0 THEN TI2[i] = <<>> /\ fl[i] = 0
                 ELSE /\ fl[i] \in 1 .. Levels(above["index"], sizes[i])
                      /\ Rebuilt(TI2[i], TV[i], sizes[i], Levels(above["index"], sizes[i]), indices[i] + 1, fl[i])
      <3>1. CASE i = j
        BY <1>4, <1>6, <1>9, <1>15, <1>17, <3>1
      <3>2. CASE i # j
        BY <1>2, <1>4, <1>17, <3>2 DEF TreesRebuiltTo
      <3> QED
        BY <3>1, <3>2
    <2> QED
      BY <1>4, <1>17, <2>1 DEF TreesRebuiltTo
  <1> QED
    BY <1>4, <1>16, <1>18

\* That is all that changes.
LEMMA RebuildStep ==
  ASSUME IInv, NEW j \in DOMAIN sizes, Rebuild(j)
  PROVE  IInv'
  <1>1. /\ pc["index"] = "rebuild"
        /\ trees' = [trees EXCEPT !["index"][j] =
             FillLevel(@, filled[j] + 1, Path(j), ReceivedXORs(j), 2)]
        /\ UNCHANGED <<sizes, indices, val_shares, above, pc, opts, choices, ot_results, emp, channel, outputs>>
    BY DEF Rebuild, inputs, arity
  <1>2. Domains /\ trees'["value"] = trees["value"] /\ DOMAIN trees' = Roles
    BY <1>1 DEF IInv, Domains, Roles
  <1>3. Inputs(sizes, indices, val_shares)' /\ Domains'
    BY <1>1, <1>2 DEF IInv, Domains
  <1>4. ValueSide'
    BY <1>1, <1>2 DEF IInv, ValueSide
  <1>5. Alike => TreesRebuiltTo(above["index"], sizes, indices, trees["value"], trees["index"], filled)'
    BY <1>1, <1>2, RebuildLevel
  <1>6. IndexSide'
    BY <1>1, <1>2, <1>5 DEF IInv, IndexSide, Alike, SameRounding, Batch
  <1>7. Between'
    BY <1>1, <1>2 DEF IInv, Between
  <1> QED
    BY <1>3, <1>4, <1>6, <1>7 DEF IInv

\* All trees have been rebuilt.
LEMMA TreesRebuiltStep ==
  ASSUME IInv, TreesRebuilt
  PROVE  IInv'
  <1>1. /\ pc["index"] = "rebuild" /\ \A j \in DOMAIN sizes : filled[j] = Len(trees["index"][j])
        /\ pc' = [pc EXCEPT !["index"] = "sums"]
        /\ UNCHANGED <<sizes, indices, val_shares, above, trees, filled, opts, choices, ot_results, emp,
                        channel, outputs>>
    BY DEF TreesRebuilt, inputs, Batch
  <1>2. /\ Domains /\ pc'["value"] = pc["value"] /\ pc'["index"] = "sums"
        /\ Alike => TreesRebuiltTo(above["index"], sizes, indices, trees["value"], trees["index"], filled)
    BY <1>1 DEF IInv, Domains, IndexSide, Roles
  <1>3. Alike => AllFilled(above["index"], sizes, filled)
    <2> SUFFICES ASSUME Alike, NEW j \in DOMAIN sizes, sizes[j] # 0
                 PROVE  filled[j] = Levels(above["index"], sizes[j])
      BY DEF AllFilled
    <2>1. sizes[j] \in Nat \ {0}
      BY DEF IInv, Inputs
    <2>2. PICK L, U : L = Levels(above["index"], sizes[j]) /\ U = trees["index"][j]
      OBVIOUS
    <2>3. L \in Nat
      BY <2>1, <2>2, LevelsSuffice DEF Room
    <2>4. U = [l \in 1 .. L |-> U[l]]
      BY <1>2, <2>1, <2>2 DEF TreesRebuiltTo, Rebuilt, HasLevels
    <2>5. Len(U) = L
      BY <2>3, <2>4
    <2> QED
      BY <1>1, <2>2, <2>5
  <1>4. Inputs(sizes, indices, val_shares)' /\ Domains'
    BY <1>1, <1>2 DEF IInv, Domains, Roles
  <1>5. ValueSide'
    BY <1>1, <1>2 DEF IInv, ValueSide
  <1>6. IndexSide'
    BY <1>1, <1>2, <1>3 DEF IInv, IndexSide, Alike, SameRounding, Batch
  <1>7. Between'
    BY <1>1, <1>2 DEF IInv, Between
  <1> QED
    BY <1>4, <1>5, <1>6, <1>7 DEF IInv

\* The index provider has its result.
LEMMA ReceiveSumsStep ==
  ASSUME IInv, ReceiveSums
  PROVE  IInv'
  <1>1. /\ pc["index"] = "sums" /\ channel # <<>> /\ channel' = Tail(channel)
        /\ outputs' = [outputs EXCEPT !["index"] =
             ResultOf(sizes, indices, val_shares, trees["index"], Head(channel))]
        /\ pc' = [pc EXCEPT !["index"] = "done"]
        /\ UNCHANGED <<sizes, indices, val_shares, above, trees, filled, opts, choices, ot_results, emp>>
    BY DEF ReceiveSums, inputs, Batch, ResultOf, LeafAtIndex
  <1>2. Domains /\ pc'["value"] = pc["value"] /\ pc'["index"] = "done"
    BY <1>1 DEF IInv, Domains, Roles
  <1>3. PICK sums : sums = SumsOf(sizes, val_shares, trees["value"])
    OBVIOUS
  <1>4. Head(channel) = sums /\ channel' = <<>>
    <2>1. channel = <<sums>>
      BY <1>1, <1>3 DEF IInv, Between
    <2>2. Head(<<sums>>) = sums /\ Tail(<<sums>>) = <<>>
      OBVIOUS
    <2> QED
      BY <1>1, <2>1, <2>2
  <1>5. /\ outputs'["index"] = ResultOf(sizes, indices, val_shares, trees["index"], sums)
        /\ outputs'["value"] = outputs["value"]
    BY <1>1, <1>2, <1>4 DEF Domains, Roles
  <1>6. Inputs(sizes, indices, val_shares)' /\ Domains'
    BY <1>1, <1>2 DEF IInv, Domains, Roles
  <1>7. ValueSide'
    BY <1>1, <1>2, <1>5 DEF IInv, ValueSide
  <1>8. IndexSide'
    BY <1>1, <1>2, <1>3, <1>5 DEF IInv, IndexSide, Alike, SameRounding, Batch
  <1>9. Between'
    BY <1>1, <1>2, <1>4 DEF IInv, Between
  <1> QED
    BY <1>6, <1>7, <1>8, <1>9 DEF IInv

\* Every step keeps the invariant.
LEMMA StepInv == IInv /\ [Next]_vars => IInv'
  <1> SUFFICES ASSUME IInv, [Next]_vars PROVE IInv'
    OBVIOUS
  <1>1. CASE SendTreesFails \/ RejectIndices
    BY <1>1, FailStep
  <1>2. CASE SendTrees
    BY <1>2, SendTreesStep
  <1>3. CASE SendKeysAndSums
    BY <1>3, SendKeysAndSumsStep
  <1>4. CASE ReceiveTrees
    BY <1>4, ReceiveTreesStep
  <1>5. CASE ReceiveKeys
    BY <1>5, ReceiveKeysStep
  <1>6. CASE \E j \in Batch : Rebuild(j)
    BY <1>6, RebuildStep DEF Batch
  <1>7. CASE TreesRebuilt
    BY <1>7, TreesRebuiltStep
  <1>8. CASE ReceiveSums
    BY <1>8, ReceiveSumsStep
  <1>9. CASE RunOT
    BY <1>9, RunOTStep
  <1>10. CASE UNCHANGED vars
    <2> USE <1>10 DEF vars
    <2>1. Inputs(sizes, indices, val_shares)' /\ Domains'
      BY DEF IInv, Domains
    <2>2. ValueSide' /\ IndexSide' /\ Between'
      BY DEF IInv, ValueSide, IndexSide, Between, Alike, SameRounding, Batch
    <2> QED
      BY <2>1, <2>2 DEF IInv
  <1> QED
    BY <1>1, <1>2, <1>3, <1>4, <1>5, <1>6, <1>7, <1>8, <1>9, <1>10
       DEF Next, ValueProvider, IndexProvider

\* The invariant holds in every state of the protocol.
THEOREM Invariance == Spec => []IInv
  <1> QED
    BY InitInv, StepInv, PTL DEF Spec

-----------------------------------------------------------------------------
(* What follows from it.                                                   *)

\* Up to the first size that the two ends round differently, what the index provider
\* chooses in each OT is the XOR of the nodes beside its path, of the same level of
\* the same tree; and if there is none, no transfer of either end is left over.
THEOREM TransfersMatch == Spec => []OTsAgree
  <1>1. ASSUME IInv PROVE OTsAgree
    <2> SUFFICES ASSUME pc["value"] = "ot", pc["index"] = "ot" PROVE OTsAgree
      BY DEF OTsAgree
    <2>1. PICK A, B, T : A = above["value"] /\ B = above["index"] /\ T = trees["value"]
      OBVIOUS
    <2>2. /\ sizes \in Seq(Nat) /\ \A j \in DOMAIN sizes : sizes[j] \in Nat /\ indices[j] \in Int
          /\ OptsMade(A, sizes, T, opts) /\ Valid(sizes, indices)
          /\ ChoicesMade(B, sizes, indices, choices)
      BY <1>1, <2>1 DEF IInv, Inputs, ValueSide, IndexSide
    <2>3. ASSUME Alike PROVE Len(opts) = Len(choices)
      <3>1. \A k \in DOMAIN sizes : sizes[k] \in A <=> sizes[k] \in B
        BY <2>1, <2>3 DEF Alike, SameRounding, Batch
      <3>2. AllOTs(A, sizes) = AllOTs(B, sizes)
        BY <2>2, <3>1, AlikeMade
      <3> QED
        BY <2>2, <3>2 DEF OptsMade, ChoicesMade
    <2>4. ASSUME NEW j \in Batch, \A k \in 1 .. j : SameRounding(k),
                 NEW l \in 1 .. Rounds("index", sizes[j]),
                 NEW ot, ot = Offset(j) + l, NEW child, child = Sibling(arity, Path(j)[l + 1])
          PROVE  /\ ot \in DOMAIN opts
                 /\ opts[ot][choices[ot] + 1] = XORBlocks(arity, T[j][l + 1])[3 - child]
      <3>1. PICK n, p : n = sizes[j] /\ p = MissingPath(2, Levels(B, n), indices[j] + 1)
        OBVIOUS
      <3>2. /\ j \in DOMAIN sizes /\ j \in 1 .. Len(sizes) /\ Len(sizes) \in Nat
            /\ n \in Nat /\ n # 0 /\ l \in 1 .. OTsFor(B, n)
        <4>1. j \in DOMAIN sizes /\ n \in Nat
          BY <2>2, <3>1 DEF Batch
        <4>2. Rounds("index", n) = OTsFor(B, n)
          BY <2>1 DEF Rounds, OTsFor, Levels, arity
        <4>3. n # 0
          BY <2>4, <3>1, <4>2 DEF OTsFor
        <4>4. DOMAIN sizes = 1 .. Len(sizes) /\ Len(sizes) \in Nat
          BY <2>2
        <4> QED
          BY <2>4, <3>1, <4>1, <4>2, <4>3, <4>4
      <3>3. Path(j) = p
        <4>1. Levels(B, n) = Rounds("index", n) + 1
          <5>1. Rounds("index", n) = OTsFor(B, n)
            BY <2>1 DEF Rounds, OTsFor, Levels, arity
          <5> QED
            BY <3>2, <5>1, RoundsType
        <4> QED
          BY <3>1, <4>1 DEF Path, arity
      <3>4. \A k \in 1 .. j : sizes[k] \in A <=> sizes[k] \in B
        BY <2>1, <2>4 DEF SameRounding
      <3>5. OTsFor(A, n) = OTsFor(B, n)
        <4>1. n \in A <=> n \in B
          BY <3>1, <3>2, <3>4
        <4> QED
          BY <4>1, SameLevels
      <3>6. OTsBefore(A, sizes, j) = OTsBefore(B, sizes, j)
        <4>1. j - 1 \in 0 .. Len(sizes) /\ \A k \in 1 .. j - 1 : sizes[k] \in A <=> sizes[k] \in B
          BY <3>2, <3>4
        <4>2. PICK m : m = j - 1
          OBVIOUS
        <4>3. FoldFunctionOnSet(+, 0, RoundsOf(A, sizes), 1 .. m) =
                FoldFunctionOnSet(+, 0, RoundsOf(B, sizes), 1 .. m)
          <5>1. /\ sizes \in Seq(Nat) /\ m \in 0 .. Len(sizes)
                /\ \A k \in 1 .. m : sizes[k] \in A <=> sizes[k] \in B
            BY <2>2, <4>1, <4>2
          <5> QED
            BY ZenonT(30), <5>1, SameOTs
        <4> QED
          BY <4>2, <4>3 DEF OTsBefore
      <3>7. Offset(j) = OTsBefore(B, sizes, j)
        BY <2>1 DEF Offset, OTsBefore, RoundsOf, Rounds, OTsFor, Levels, Batch, arity
      <3>8. ot \in DOMAIN opts /\ opts[ot] = XORBlocks(2, T[j][l + 1])
        <4>1. ot = OTsBefore(A, sizes, j) + l /\ l \in 1 .. OTsFor(A, sizes[j])
          BY <2>4, <3>1, <3>2, <3>5, <3>6, <3>7
        <4> QED
          BY <2>2, <3>2, <4>1 DEF OptsMade
      <3>9. choices[ot] + 1 = 3 - Sibling(2, p[l + 1])
        <4>1. indices[j] \in Nat
          BY <2>2, <3>1, <3>2 DEF Valid
        <4> QED
          <5>1. /\ l \in 1 .. OTsFor(B, sizes[j]) /\ sizes[j] # 0
                /\ Sibling(2, p[l + 1]) = MissingChild(B, sizes, indices, j, l)
                /\ ot = OTsBefore(B, sizes, j) + l
            BY <2>4, <3>1, <3>2, <3>7 DEF MissingChild
          <5>2. choices[OTsBefore(B, sizes, j) + l] + 1 = 3 - MissingChild(B, sizes, indices, j, l)
            <6>1. SiblingsChosen(B, sizes, indices, choices)
              BY <2>2, SiblingChosen
            <6> QED
              BY <3>2, <4>1, <5>1, <6>1 DEF SiblingsChosen
          <5> QED
            BY <5>1, <5>2
      <3> QED
        BY <2>4, <3>3, <3>8, <3>9 DEF arity
    <2> QED
      BY <2>1, <2>3, <2>4 DEF OTsAgree
  <1> QED
    BY <1>1, Invariance, PTL

\* The index provider's trees are the value provider's off the path to its index.
THEOREM TreesMatch == Spec => []TreesAgree
  <1>1. IInv => TreesAgree
    <2> SUFFICES ASSUME IInv, Alike, pc["index"] \in {"rebuild", "sums"},
                        NEW j \in DOMAIN sizes, NEW l \in DOMAIN trees["index"][j],
                        NEW i \in DOMAIN trees["index"][j][l]
                 PROVE  trees["index"][j][l][i] =
                          IF Ancestor(2, i, l - Min({l, filled[j]})) = Path(j)[Min({l, filled[j]})]
                          THEN Zero ELSE trees["value"][j][l][i]
      BY DEF TreesAgree, Batch, arity
    <2>1. /\ TreesRebuiltTo(above["index"], sizes, indices, trees["value"], trees["index"], filled)
          /\ sizes[j] \in Nat
      BY DEF IInv, IndexSide, Inputs
    <2>2. PICK TV, TI, U, k, n, B, L :
                 /\ TV = trees["value"] /\ TI = trees["index"] /\ U = TI[j]
                 /\ k = filled[j] /\ n = sizes[j] /\ B = above["index"] /\ L = Levels(B, n)
      OBVIOUS
    <2>3. n # 0
      <3>1. CASE n = 0
        <4>1. U = <<>>
          BY <2>1, <2>2, <3>1 DEF TreesRebuiltTo
        <4>2. DOMAIN <<>> = {}
          OBVIOUS
        <4> QED
          BY <2>2, <4>1, <4>2
      <3> QED
        BY <3>1
    <2>4. n \in Nat \ {0} /\ Rebuilt(U, TV[j], n, L, indices[j] + 1, k) /\ k \in 1 .. L
      BY <2>1, <2>2, <2>3 DEF TreesRebuiltTo
    <2>5. L = OTsFor(B, n) + 1 /\ L \in Nat
      BY <2>2, <2>3, <2>4, RoundsType
    <2>6. PICK p : p = MissingPath(2, L, indices[j] + 1)
      OBVIOUS
    <2>7. l \in 1 .. L /\ i \in 1 .. Widths(n, L)[l]
      <3>1. U = [x \in 1 .. L |-> U[x]] /\ \A x \in 1 .. L : DOMAIN U[x] = 1 .. Widths(n, L)[x]
        BY <2>4 DEF Rebuilt, HasLevels
      <3>2. l \in DOMAIN U /\ i \in DOMAIN U[l]
        BY <2>2
      <3>3. DOMAIN U = 1 .. L
        BY <3>1
      <3> QED
        BY <3>1, <3>2, <3>3
    <2>8. Path(j) = p
      BY <2>2, <2>5, <2>6 DEF Path, Rounds, OTsFor, Levels, arity
    <2>9. U[l][i] = IF Ancestor(2, i, IF l <= k THEN 0 ELSE l - k) = p[IF l <= k THEN l ELSE k]
                    THEN Zero ELSE TV[j][l][i]
      BY <2>4, <2>6, <2>7 DEF Rebuilt
    <2>10. l \in Int /\ k \in Int
      BY <2>4, <2>5, <2>7
    <2>11. Min({l, k}) = IF l <= k THEN l ELSE k
      BY <2>10, LesserOfTwo
    <2>12. l - Min({l, k}) = IF l <= k THEN 0 ELSE l - k
      BY <2>10, <2>11
    <2> QED
      BY <2>2, <2>8, <2>9, <2>11, <2>12
  <1> QED
    BY <1>1, Invariance, PTL

\* The leaves, as scalars.
LEMMA LeavesType ==
  ASSUME \A block : FromUint128(block) \in Nat, NEW n \in Nat, NEW T
  PROVE  /\ Leaves(T, n) \in [1 .. n -> Element] /\ Leaves(T, n) \in Seq(Element)
         /\ Total(Leaves(T, n)) = FoldFunctionOnSet(+, 0, Leaves(T, n), 1 .. n)
         /\ Total(Leaves(T, n)) \in Nat
         /\ Negated(Leaves(T, n)) \in [1 .. n -> Element] /\ Negated(Leaves(T, n)) \in Seq(Element)
         /\ \A i \in 1 .. n : Negated(Leaves(T, n))[i] = (modulus - Leaves(T, n)[i]) % modulus
  <1>1. PICK m \in Nat \ {0} : m = modulus
    BY SPFSSAssumption
  <1>2. \A a \in Int : (a % m) \in 0 .. m - 1
    OBVIOUS
  <1>3. PICK y : y = Leaves(T, n)
    OBVIOUS
  <1>4. y = [i \in 1 .. n |-> FromUint128(T[Len(T)][i]) % m]
    BY <1>1, <1>3 DEF Leaves
  <1>5. \A i \in 1 .. n : y[i] \in 0 .. m - 1
    <2> SUFFICES ASSUME NEW i \in 1 .. n PROVE y[i] \in 0 .. m - 1
      OBVIOUS
    <2>1. PICK a \in Nat : a = FromUint128(T[Len(T)][i])
      OBVIOUS
    <2>2. y[i] = a % m
      BY <1>4, <2>1
    <2>3. a % m \in 0 .. m - 1
      BY <2>1, <1>1
    <2> QED
      BY <2>2, <2>3
  <1>6. y \in [1 .. n -> 0 .. m - 1] /\ y \in Seq(0 .. m - 1)
    BY <1>4, <1>5
  <1>7. Total(y) = FoldFunctionOnSet(+, 0, y, 1 .. n)
    <2>1. DOMAIN y = 1 .. n
      BY <1>4
    <2> QED
      BY <2>1 DEF Total, FoldFunction
  <1>8. Total(y) \in Nat
    <2>1. IsFiniteSet(1 .. n) /\ \A i \in 1 .. n : y[i] \in Nat
      BY <1>5, FS_Interval
    <2> QED
      BY <1>7, <2>1, SumNat
  <1>9. Negated(y) = [i \in 1 .. n |-> (m - y[i]) % m]
    BY <1>1, <1>4 DEF Negated
  <1>10. \A i \in 1 .. n : ((m - y[i]) % m) \in 0 .. m - 1
    BY <1>2, <1>5
  <1>11. Negated(y) \in [1 .. n -> 0 .. m - 1] /\ Negated(y) \in Seq(0 .. m - 1)
    BY <1>9, <1>10
  <1> QED
    BY <1>1, <1>3, <1>6, <1>7, <1>8, <1>9, <1>11 DEF Element

\* A value share is a number.
LEMMA SharesType ==
  ASSUME NEW sz, NEW ix, NEW vs, Inputs(sz, ix, vs), NEW role \in Roles, NEW j \in DOMAIN sz
  PROVE  vs[role][j] \in Int
  <1>1. vs[role] \in [DOMAIN sz -> ValueShares]
    BY DEF Inputs
  <1>2. PICK a : a = vs[role][j]
    OBVIOUS
  <1>3. a \in ValueShares
    BY <1>1, <1>2
  <1>4. modulus \in Nat /\ ValueShares \subseteq 0 .. modulus - 1
    BY SPFSSAssumption
  <1>5. a \in 0 .. modulus - 1
    BY <1>3, <1>4
  <1> QED
    BY <1>2, <1>4, <1>5

\* So is what the value provider sends for an output, below the modulus.
LEMMA SumsType ==
  ASSUME \A block : FromUint128(block) \in Nat, NEW sz, NEW ix, NEW vs, Inputs(sz, ix, vs), NEW T
  PROVE  SumsOf(sz, vs, T) \in [DOMAIN sz -> Element]
  <1>1. PICK m \in Nat \ {0} : m = modulus
    BY SPFSSAssumption
  <1>2. ASSUME NEW j \in DOMAIN sz
        PROVE  ((vs["value"][j] + Total(Leaves(T[j], sz[j]))) % modulus) \in Element
    <2>1. PICK a, b : a = vs["value"][j] /\ b = Total(Leaves(T[j], sz[j]))
      OBVIOUS
    <2>2. a \in Int
      <3>1. "value" \in Roles
        BY DEF Roles
      <3> QED
        BY <2>1, <3>1, SharesType
    <2>3. b \in Nat
      <3>1. sz[j] \in Nat
        BY DEF Inputs
      <3> QED
        BY <2>1, <3>1, LeavesType
    <2>4. PICK c \in Int : c = a + b
      BY <2>2, <2>3
    <2>5. c % m \in 0 .. m - 1
      BY <1>1, <2>4
    <2> QED
      BY <1>1, <2>1, <2>4, <2>5 DEF Element
  <1> QED
    BY <1>2 DEF SumsOf

\* Types, for scalars that blocks are reduced to by way of natural numbers.
THEOREM TypeCorrect ==
  ASSUME \A block : FromUint128(block) \in Nat
  PROVE  Spec => []TypeOK
  <1>1. ASSUME IInv PROVE TypeOK
    <2>1. Inputs(sizes, indices, val_shares) /\ Domains /\ ValueSide /\ IndexSide /\ Between
      BY <1>1 DEF IInv
    <2>2. \A j \in DOMAIN sizes : sizes[j] \in Nat
      BY <2>1 DEF Inputs
    <2>3. choices \in Seq({0, 1}) /\ Len(ot_results) <= Len(choices)
      <3>1. CASE pc["index"] \in {"start", "failed"}
        <4>1. choices = <<>> /\ ot_results = <<>>
          BY <2>1, <3>1 DEF IndexSide
        <4> QED
          BY <4>1
      <3>2. CASE pc["index"] = "ot"
        <4>1. choices \in Seq({0, 1}) /\ ot_results = <<>>
          BY <2>1, <3>2 DEF IndexSide, ChoicesMade
        <4>2. Len(<<>>) = 0 /\ Len(choices) \in Nat
          BY <4>1
        <4> QED
          BY <4>1, <4>2
      <3>3. CASE pc["index"] \in {"keys", "rebuild", "sums", "done"}
        <4>1. choices \in Seq({0, 1}) /\ Len(ot_results) = Len(choices)
          BY <2>1, <3>3 DEF IndexSide, ChoicesMade, Between, Received
        <4>2. Len(choices) \in Nat
          BY <4>1
        <4> QED
          BY <4>1, <4>2
      <3> QED
        BY <2>1, <3>1, <3>2, <3>3 DEF Domains
    <2>4. emp \in Seq({"keys"})
      <3>1. emp = <<>> \/ emp = <<"keys">>
        BY <2>1 DEF Between
      <3>2. <<>> \in Seq({"keys"}) /\ <<"keys">> \in Seq({"keys"})
        OBVIOUS
      <3> QED
        BY <3>1, <3>2
    <2>5. channel \in Seq([DOMAIN sizes -> Element])
      <3>1. PICK sums : sums = SumsOf(sizes, val_shares, trees["value"])
        OBVIOUS
      <3>2. sums \in [DOMAIN sizes -> Element]
        BY <2>1, <3>1, SumsType
      <3>3. channel = <<>> \/ channel = <<sums>>
        BY <2>1, <3>1 DEF Between
      <3>4. PICK S : S = [DOMAIN sizes -> Element]
        OBVIOUS
      <3>5. sums \in S
        BY <3>2, <3>4
      <3>6. <<>> \in Seq(S) /\ <<sums>> \in Seq(S)
        BY <3>5
      <3> QED
        BY <3>3, <3>4, <3>6
    <2>6. ASSUME NEW j \in DOMAIN sizes PROVE outputs["value"][j] \in Seq(Element)
      <3>1. Negated(Leaves(trees["value"][j], sizes[j])) \in Seq(Element)
        BY <2>2, LeavesType
      <3>2. <<>> \in Seq(Element)
        OBVIOUS
      <3> QED
        BY <2>1, <3>1, <3>2 DEF ValueSide, NegatedOf
    <2>7. ASSUME NEW j \in DOMAIN sizes PROVE outputs["index"][j] \in Seq(Element)
      <3>1. CASE pc["index"] # "done"
        <4>1. outputs["index"] = [k \in DOMAIN sizes |-> <<>>]
          BY <2>1, <3>1 DEF IndexSide
        <4> QED
          BY <4>1
      <3>2. CASE pc["index"] = "done"
        <4>1. PICK sums, e, leaves : /\ sums = SumsOf(sizes, val_shares, trees["value"])
                                     /\ leaves = Leaves(trees["index"][j], sizes[j])
                                     /\ e = indices[j] + 1
          OBVIOUS
        <4>2. outputs["index"] = ResultOf(sizes, indices, val_shares, trees["index"], sums)
          BY <2>1, <3>2, <4>1 DEF IndexSide
        <4>3. CASE sizes[j] = 0
          <5>1. outputs["index"][j] = <<>>
            BY <4>2, <4>3 DEF ResultOf
          <5> QED
            BY <5>1
        <4>4. CASE sizes[j] # 0
          <5>1. PICK n \in Nat : n = sizes[j]
            BY <2>2
          <5>2. leaves \in [1 .. n -> Element] /\ Total(leaves) \in Nat
            BY <4>1, <5>1, LeavesType
          <5>3. PICK x : x = (val_shares["index"][j] - (Total(leaves) - leaves[e]) + sums[j]) % modulus
            OBVIOUS
          <5>4. outputs["index"][j] = [leaves EXCEPT ![e] = x]
            BY <4>1, <4>2, <4>4, <5>3 DEF ResultOf
          <5>5. e \in 1 .. n
            <6>1. Valid(sizes, indices)
              BY <2>1, <3>2 DEF IndexSide
            <6> QED
              BY <2>1, <4>1, <4>4, <5>1, <6>1 DEF Valid, Inputs
          <5>6. x \in Element
            <6>1. PICK m \in Nat \ {0} : m = modulus
              BY SPFSSAssumption
            <6>2. val_shares["index"][j] \in Int
              <7>1. "index" \in Roles
                BY DEF Roles
              <7> QED
                BY <2>1, <7>1, SharesType
            <6>3. sums[j] \in Int /\ leaves[e] \in Int
              <7>1. sums[j] \in Element /\ leaves[e] \in Element
                BY <2>1, <4>1, <5>2, <5>5, SumsType
              <7> QED
                BY <6>1, <7>1 DEF Element
            <6>4. PICK c \in Int : c = val_shares["index"][j] - (Total(leaves) - leaves[e]) + sums[j]
              BY <5>2, <6>2, <6>3
            <6>5. c % m \in 0 .. m - 1
              BY <6>1, <6>4
            <6> QED
              BY <5>3, <6>1, <6>4, <6>5 DEF Element
          <5>7. [leaves EXCEPT ![e] = x] \in [1 .. n -> Element]
            BY <5>2, <5>6
          <5>8. PICK z : z = outputs["index"][j]
            OBVIOUS
          <5>9. z \in [1 .. n -> Element]
            BY <5>4, <5>7, <5>8
          <5>10. z \in Seq(Element)
            BY <5>1, <5>9
          <5> QED
            BY <5>8, <5>10
        <4> QED
          BY <4>3, <4>4
      <3> QED
        BY <3>1, <3>2
    <2>8. /\ sizes \in Sizes /\ indices \in [DOMAIN sizes -> Indices]
          /\ val_shares \in [Roles -> [DOMAIN sizes -> ValueShares]]
      BY <2>1 DEF Inputs
    <2> QED
      BY <2>1, <2>3, <2>4, <2>5, <2>6, <2>7, <2>8 DEF TypeOK, Domains, Batch, Roles
  <1> QED
    BY <1>1, Invariance, PTL

\* Adding up what the two ends hold for a leaf, a number x, a share u of one end
\* and one v of the other; t is the sum of the other leaves.
Cancelled(m, x, t, u, v) ==
  /\ (((m - x) % m) + ((u - t + ((v + (t + x)) % m)) % m)) % m = (v + u) % m
  /\ (((m - x) % m) + x) % m = 0

\* So they do, whatever the numbers.
LEMMA SharesCancel ==
  ASSUME NEW m \in Nat \ {0}, NEW x \in Int, NEW t \in Int, NEW u \in Int, NEW v \in Int
  PROVE  Cancelled(m, x, t, u, v)
  <1>1. PICK a, p, d : a = m - x /\ p = a % m /\ d = a \div m
    OBVIOUS
  <1>2. a \in Int /\ p \in Int /\ d \in Int /\ a = m * d + p
    BY <1>1
  <1>3. PICK b, q, e : b = v + (t + x) /\ q = b % m /\ e = b \div m
    OBVIOUS
  <1>4. b \in Int /\ q \in Int /\ e \in Int /\ b = m * e + q
    BY <1>3
  <1>5. PICK c, r, f : c = u - t + q /\ r = c % m /\ f = c \div m
    OBVIOUS
  <1>6. c \in Int /\ r \in Int /\ f \in Int /\ c = m * f + r
    BY <1>4, <1>5
  <1>7. PICK g \in Int, h \in Int : g = 1 - d - e - f /\ h = 1 - d
    BY <1>2, <1>4, <1>6
  <1>8. PICK md \in Int, me \in Int, mf \in Int : md = m * d /\ me = m * e /\ mf = m * f
    BY <1>2, <1>4, <1>6
  <1>9. m * g = m - md - me - mf /\ m * h = m - md
    <2>1. m * (1 - d - e - f) = m - m * d - m * e - m * f /\ m * (1 - d) = m - m * d
      BY <1>2, <1>4, <1>6
    <2> QED
      BY <1>7, <1>8, <2>1
  <1>10. p + r = (v + u) + m * g /\ p + x = 0 + m * h
    BY <1>1, <1>2, <1>3, <1>4, <1>5, <1>6, <1>8, <1>9
  <1>11. (p + r) % m = (v + u) % m
    <2>1. PICK w \in Int : w = v + u
      OBVIOUS
    <2>2. (w + m * g) % m = w % m
      BY <1>7, ResidueOfSum
    <2> QED
      BY <1>10, <2>1, <2>2
  <1>12. (p + x) % m = 0
    <2>1. PICK z \in Int : z = 0
      OBVIOUS
    <2>2. (z + m * h) % m = z % m
      BY <1>7, ResidueOfSum
    <2>3. 0 % m = 0
      OBVIOUS
    <2> QED
      BY <1>10, <2>1, <2>2, <2>3
  <1> QED
    BY <1>1, <1>3, <1>5, <1>11, <1>12 DEF Cancelled

\* The leaves of a tree that has been rebuilt to the end: those of the other tree,
\* but for one.
LEMMA LeavesRebuilt ==
  ASSUME NEW n \in Nat \ {0}, NEW U, NEW V, NEW e \in 1 .. n,
         NEW L, Room(L, n), IsTree(V, n, L), Rebuilt(U, V, n, L, e, L)
  PROVE  \A i \in 1 .. n : i # e => Leaves(U, n)[i] = Leaves(V, n)[i]
  <1>1. L \in Nat \ {0}
    BY DEF Room
  <1>2. Widths(n, L)[L] = n /\ L \in 1 .. L
    BY <1>1, WidthFacts
  <1>3. Len(U) = L /\ Len(V) = L
    <2>1. U = [l \in 1 .. L |-> U[l]] /\ V = [l \in 1 .. L |-> V[l]]
      BY <1>1 DEF Rebuilt, IsTree, HasLevels
    <2>2. Len(U) = L
      BY <1>1, <2>1
    <2>3. Len(V) = L
      BY <1>1, <2>1
    <2> QED
      BY <2>2, <2>3
  <1>4. MissingPath(2, L, e)[L] = e
    <2>1. Ancestor(2, e, 0) = e
      <3>1. e \in Nat \ {0} /\ 0 \in Nat
        OBVIOUS
      <3> QED
        BY <3>1, AncestorLaws
    <2>2. L - L = 0
      BY <1>1
    <2> QED
      BY <1>2, <2>1, <2>2 DEF MissingPath
  <1>5. ASSUME NEW i \in 1 .. n, i # e PROVE U[L][i] = V[L][i]
    <2>1. L <= L
      BY <1>1
    <2>2. U[L][i] = IF Ancestor(2, i, 0) = MissingPath(2, L, e)[L] THEN Zero ELSE V[L][i]
      BY <1>1, <1>2, <2>1 DEF Rebuilt
    <2>3. Ancestor(2, i, 0) = i
      <3>1. i \in Nat \ {0} /\ 0 \in Nat
        OBVIOUS
      <3> QED
        BY <3>1, AncestorLaws
    <2> QED
      BY <1>4, <1>5, <2>2, <2>3
  <1> QED
    BY <1>3, <1>5 DEF Leaves

\* The shares of the two ends add up to a point function.
THEOREM SharesArePoint ==
  ASSUME \A block : FromUint128(block) \in Nat
  PROVE  Spec => []SharesPoint
  <1>1. ASSUME IInv PROVE SharesPoint
    <2> SUFFICES ASSUME Alike, pc = [r \in Roles |-> "done"],
                        NEW j \in DOMAIN sizes, NEW i \in 1 .. sizes[j]
                 PROVE  (outputs["value"][j][i] + outputs["index"][j][i]) % modulus =
                          IF i = indices[j] + 1
                          THEN (val_shares["value"][j] + val_shares["index"][j]) % modulus
                          ELSE 0
      BY DEF SharesPoint, Batch
    <2>1. pc["value"] = "done" /\ pc["index"] = "done"
      BY DEF Roles
    <2>2. /\ Inputs(sizes, indices, val_shares) /\ Valid(sizes, indices)
          /\ TreesMade(above["index"], sizes, trees["value"])
          /\ TreesRebuiltTo(above["index"], sizes, indices, trees["value"], trees["index"], filled)
          /\ AllFilled(above["index"], sizes, filled)
      <3>1. /\ Inputs(sizes, indices, val_shares) /\ Valid(sizes, indices)
            /\ TreesMade(above["value"], sizes, trees["value"])
            /\ TreesRebuiltTo(above["index"], sizes, indices, trees["value"], trees["index"], filled)
            /\ AllFilled(above["index"], sizes, filled)
        BY <1>1, <2>1 DEF IInv, ValueSide, IndexSide
      <3>2. sizes \in Seq(Nat)
        BY <3>1 DEF Inputs
      <3>3. \A k \in DOMAIN sizes : sizes[k] \in above["value"] <=> sizes[k] \in above["index"]
        BY DEF Alike, SameRounding, Batch
      <3> QED
        BY <3>1, <3>2, <3>3, AlikeMade
    <2>3. PICK n, L, e, U, V, x, y, sums :
             /\ n = sizes[j] /\ L = Levels(above["index"], n)
             /\ e = indices[j] + 1 /\ U = trees["index"][j] /\ V = trees["value"][j]
             /\ x = Leaves(V, n) /\ y = Leaves(U, n)
             /\ sums = SumsOf(sizes, val_shares, trees["value"])
      OBVIOUS
    <2>4. n \in Nat \ {0} /\ e \in 1 .. n /\ i \in 1 .. n
      <3>1. sizes[j] \in Nat /\ indices[j] \in Int
        BY <2>2 DEF Inputs
      <3>2. sizes[j] # 0
        BY <3>1
      <3> QED
        BY <2>2, <2>3, <3>1, <3>2 DEF Valid
    <2>5. Room(L, n) /\ IsTree(V, n, L) /\ Rebuilt(U, V, n, L, e, L)
      BY <2>2, <2>3, <2>4, LevelsSuffice DEF TreesMade, TreesRebuiltTo, AllFilled
    <2>6. \A k \in 1 .. n : k # e => y[k] = x[k]
      BY <2>3, <2>4, <2>5, LeavesRebuilt
    <2>7. PICK m \in Nat \ {0} : m = modulus
      BY SPFSSAssumption
    <2>8. /\ x \in [1 .. n -> Element] /\ y \in [1 .. n -> Element]
          /\ Total(x) = FoldFunctionOnSet(+, 0, x, 1 .. n) /\ Total(y) = FoldFunctionOnSet(+, 0, y, 1 .. n)
          /\ Negated(x)[i] = (m - x[i]) % m
      <3>1. n \in Nat
        BY <2>4
      <3>2. /\ x \in [1 .. n -> Element] /\ Total(x) = FoldFunctionOnSet(+, 0, x, 1 .. n)
        BY <2>3, <3>1, LeavesType
      <3>4. Negated(x)[i] = (m - x[i]) % m
        <4>1. DOMAIN x = 1 .. n
          BY <3>2
        <4>2. Negated(x) = [k \in 1 .. n |-> (modulus - x[k]) % modulus]
          BY <4>1 DEF Negated
        <4> QED
          BY <2>4, <2>7, <4>2
      <3>3. /\ y \in [1 .. n -> Element] /\ Total(y) = FoldFunctionOnSet(+, 0, y, 1 .. n)
        BY <2>3, <3>1, LeavesType
      <3> QED
        BY <3>2, <3>3, <3>4
    <2>9. \A k \in 1 .. n : x[k] \in Int /\ y[k] \in Int
      <3> SUFFICES ASSUME NEW k \in 1 .. n PROVE x[k] \in Int /\ y[k] \in Int
        OBVIOUS
      <3>1. x[k] \in 0 .. m - 1 /\ y[k] \in 0 .. m - 1
        BY <2>7, <2>8 DEF Element
      <3> QED
        BY <3>1
    <2>10. PICK t \in Int : Total(x) = x[e] + t /\ Total(y) = y[e] + t
      <3>1. PICK S : S = 1 .. n
        OBVIOUS
      <3>2. IsFiniteSet(S) /\ e \in S /\ IsFiniteSet(S \ {e})
        BY <2>4, <3>1, FS_Interval, FS_Subset
      <3>3. \A k \in S : x[k] \in Int /\ y[k] \in Int
        BY <2>9, <3>1
      <3>4. FoldFunctionOnSet(+, 0, x, S) = x[e] + FoldFunctionOnSet(+, 0, x, S \ {e})
        BY <3>2, <3>3, SumRemove
      <3>5. FoldFunctionOnSet(+, 0, y, S) = y[e] + FoldFunctionOnSet(+, 0, y, S \ {e})
        BY <3>2, <3>3, SumRemove
      <3>6. PICK T : T = S \ {e}
        OBVIOUS
      <3>7. \A k \in T : x[k] = y[k] /\ x[k] \in Int
        BY <2>6, <3>1, <3>3, <3>6
      <3>8. FoldFunctionOnSet(+, 0, x, T) = FoldFunctionOnSet(+, 0, y, T)
        BY <3>2, <3>6, <3>7, SumSame
      <3>9. FoldFunctionOnSet(+, 0, x, T) \in Int
        BY <3>2, <3>6, <3>7, SumType
      <3> QED
        BY <2>8, <3>1, <3>4, <3>5, <3>6, <3>8, <3>9
    <2>11. outputs["value"][j][i] = (m - x[i]) % m
      <3>1. outputs["value"] = NegatedOf(sizes, trees["value"])
        BY <1>1, <2>1 DEF IInv, ValueSide
      <3>2. outputs["value"][j] = Negated(x)
        BY <2>3, <3>1 DEF NegatedOf
      <3> QED
        BY <2>8, <3>2
    <2>12. PICK u \in Int, v \in Int : u = val_shares["index"][j] /\ v = val_shares["value"][j]
      <3>1. "value" \in Roles /\ "index" \in Roles
        BY DEF Roles
      <3> QED
        BY <2>2, <3>1, SharesType
    <2>13. outputs["index"][j] = [y EXCEPT ![e] = (u - (Total(y) - y[e]) + sums[j]) % m]
      <3>1. outputs["index"] = ResultOf(sizes, indices, val_shares, trees["index"], sums)
        BY <1>1, <2>1, <2>3 DEF IInv, IndexSide
      <3>2. sizes[j] # 0
        BY <2>3, <2>4
      <3> QED
        BY <2>3, <2>7, <2>12, <3>1, <3>2 DEF ResultOf
    <2>14. sums[j] = (v + Total(x)) % m
      BY <2>3, <2>7, <2>12 DEF SumsOf
    <2>15. CASE i = e
      <3>1. outputs["index"][j][i] = (u - (Total(y) - y[e]) + sums[j]) % m
        BY <2>4, <2>8, <2>13, <2>15
      <3>2. PICK a \in Int, b \in Int : a = x[e] /\ b = y[e]
        BY <2>4, <2>9
      <3>3. u - (Total(y) - y[e]) = u - t /\ v + Total(x) = v + (t + a)
        BY <2>10, <2>12, <3>2
      <3>4. outputs["index"][j][i] = (u - t + ((v + (t + a)) % m)) % m
        BY <2>14, <3>1, <3>3
      <3>5. outputs["value"][j][i] = (m - a) % m
        BY <2>11, <2>15, <3>2
      <3>6. (((m - a) % m) + ((u - t + ((v + (t + a)) % m)) % m)) % m = (v + u) % m
        <4>1. m \in Nat \ {0} /\ a \in Int /\ t \in Int /\ u \in Int /\ v \in Int
          BY <2>7, <2>10, <2>12, <3>2
        <4>2. Cancelled(m, a, t, u, v)
          BY <4>1, SharesCancel
        <4> QED
          BY <4>2 DEF Cancelled
      <3> QED
        BY <2>3, <2>7, <2>12, <2>15, <3>4, <3>5, <3>6
    <2>16. CASE i # e
      <3>1. PICK a \in Int : a = x[i]
        BY <2>4, <2>9
      <3>2. outputs["index"][j][i] = a
        BY <2>4, <2>6, <2>8, <2>13, <2>16, <3>1
      <3>3. (((m - a) % m) + a) % m = 0
        <4>1. Cancelled(m, a, t, u, v)
          BY <2>7, <2>10, <2>12, <3>1, SharesCancel
        <4> QED
          BY <4>1 DEF Cancelled
      <3> QED
        BY <2>3, <2>7, <2>11, <2>16, <3>1, <3>2, <3>3
    <2> QED
      BY <2>15, <2>16
  <1> QED
    BY <1>1, Invariance, PTL
====
