------------------ MODULE ScalarVectorGilboaProductProofs ------------------
(***************************************************************************)
(* Proofs about ScalarVectorGilboaProduct: for every type, vector and      *)
(* scalar, and whatever the blocks of the transfers are, the outputs are   *)
(* shares of the product; and blocks that are used as they come hide the   *)
(* elements well enough.  At the end, the two builds of the field multiply *)
(* alike, and in a field without divisors of zero inverse() inverts.       *)
(***************************************************************************)
EXTENDS ScalarVectorGilboaProduct, FoldProofs

-----------------------------------------------------------------------------
(* Numbers and their bits.                                                 *)

\* A power of two grows with its exponent.
LEMMA TwoToMonotone ==
  ASSUME NEW a \in Nat
  PROVE  \A d \in Nat : 2 ^ a <= 2 ^ (a + d)
  <1>1. PICK Q : Q = {d \in Nat : 2 ^ a <= 2 ^ (a + d)}
    OBVIOUS
  <1>2. 0 \in Q
    <2>1. PICK p : p = 2 ^ a
      OBVIOUS
    <2>2. p \in Nat /\ a + 0 = a
      BY <2>1, TwoToAbove
    <2> QED
      BY <1>1, <2>1, <2>2
  <1>3. ASSUME NEW d \in Nat, d \in Q PROVE d + 1 \in Q
    <2>1. PICK c \in Nat : c = a + d
      OBVIOUS
    <2>2. PICK p, q, r : p = 2 ^ a /\ q = 2 ^ c /\ r = 2 ^ (c + 1)
      OBVIOUS
    <2>3. p \in Nat /\ q \in Nat /\ r = 2 * q /\ p <= q
      BY <1>1, <1>3, <2>1, <2>2, TwoToNext, TwoToAbove
    <2>4. c + 1 = a + (d + 1) /\ p <= r
      BY <2>1, <2>3
    <2> QED
      BY <1>1, <2>2, <2>4
  <1>4. \A d \in Nat : d \in Q
    BY <1>2, <1>3, NumberInduction
  <1> QED
    BY <1>1, <1>4

\* The registers have an even number of bits.
LEMMA NumBitsRange == num_bits \in Nat \ {0} /\ half \in Nat \ {0} /\ num_bits = 2 * half
  <1>1. PICK i \in 1 .. 7 : num_bits = 2 ^ i
    BY FieldAssumption
  <1>2. PICK j \in Nat : i = j + 1
    <2>1. i - 1 \in Nat /\ i = (i - 1) + 1
      OBVIOUS
    <2> QED
      BY <2>1
  <1>3. PICK p : p = 2 ^ j
    OBVIOUS
  <1>4. p \in Nat /\ j + 1 <= p /\ num_bits = 2 * p
    BY <1>1, <1>2, <1>3, TwoToNext, TwoToAbove
  <1>5. half = p
    BY <1>4 DEF half
  <1> QED
    BY <1>4, <1>5

\* NumBits is the number of bits.
LEMMA NumBitsIs ==
  ASSUME NEW n \in Nat
  PROVE  NumBits(n) \in Nat /\ n < 2 ^ NumBits(n) /\ \A c \in 0 .. NumBits(n) - 1 : 2 ^ c <= n
  <1>1. PICK S : S = {b \in Nat : 2 ^ b > n}
    OBVIOUS
  <1>2. n \in S
    BY <1>1, TwoToAbove
  <1>3. PICK b \in S : \A c \in S : b <= c
    BY <1>1, <1>2, LeastNumber
  <1>4. b \in 0 .. n /\ 2 ^ b > n
    BY <1>1, <1>2, <1>3
  <1>5. ASSUME NEW c \in 0 .. b - 1 PROVE 2 ^ c <= n
    <2>1. c \in Nat /\ c \notin S
      BY <1>1, <1>3
    <2>2. 2 ^ c \in Nat /\ ~ (2 ^ c > n)
      BY <1>1, <2>1, TwoToAbove
    <2> QED
      BY <2>2
  <1>6. \E d \in 0 .. n : 2 ^ d > n /\ \A c \in 0 .. d - 1 : 2 ^ c <= n
    BY <1>4, <1>5
  <1>7. PICK d : d = NumBits(n)
    OBVIOUS
  <1>8. d \in 0 .. n /\ 2 ^ d > n /\ \A c \in 0 .. d - 1 : 2 ^ c <= n
    BY <1>6, <1>7 DEF NumBits
  <1>9. 2 ^ d \in Nat
    BY <1>8, TwoToAbove
  <1> QED
    BY <1>7, <1>8, <1>9

\* The largest number with b bits has b bits.
LEMMA NumBitsOfLargest ==
  ASSUME NEW b \in Nat
  PROVE  NumBits(2 ^ b - 1) = b
  <1>1. PICK p \in Nat, n \in Nat : p = 2 ^ b /\ n = p - 1
    BY TwoToAbove
  <1>2. PICK d \in Nat : d = NumBits(n)
    BY NumBitsIs
  <1>3. n < 2 ^ d /\ \A c \in 0 .. d - 1 : 2 ^ c <= n
    BY <1>2, NumBitsIs
  <1>4. ~ (b < d)
    BY <1>1, <1>3
  <1>5. ASSUME d < b PROVE FALSE
    <2>1. PICK e \in Nat : b = (d + 1) + e
      <3>1. b - (d + 1) \in Nat /\ b = (d + 1) + (b - (d + 1))
        BY <1>5
      <3> QED
        BY <3>1
    <2>2. PICK f \in Nat : f = d + 1
      OBVIOUS
    <2>3. 2 ^ f <= 2 ^ (f + e)
      BY TwoToMonotone
    <2>4. PICK q, r : q = 2 ^ d /\ r = 2 ^ f
      OBVIOUS
    <2>5. q \in Nat /\ r = 2 * q /\ 1 <= q
      BY <2>2, <2>4, TwoToNext, TwoToAbove
    <2>6. r <= p
      BY <1>1, <2>1, <2>2, <2>3, <2>4
    <2>7. n < q
      BY <1>3, <2>4
    <2> QED
      BY <1>1, <2>5, <2>6, <2>7
  <1> QED
    BY <1>1, <1>2, <1>4, <1>5

\* The next bit of a number.
BitAt(v, k) == (v \div (2 ^ k)) % 2

\* The next bit extends the remainder by a power of two or by nothing.
LEMMA NextBit ==
  ASSUME NEW v \in Int, NEW w \in Nat
  PROVE  /\ BitAt(v, w) \in 0 .. 1
         /\ v % (2 ^ (w + 1)) = (v % (2 ^ w)) + (2 ^ w) * BitAt(v, w)
  <1>1. PICK m \in Nat \ {0}, n \in Nat \ {0} : m = 2 ^ w /\ n = 2 ^ (w + 1) /\ n = 2 * m
    <2>1. PICK m, n : m = 2 ^ w /\ n = 2 ^ (w + 1)
      OBVIOUS
    <2>2. m \in Nat /\ w + 1 <= m /\ n = 2 * m
      BY <2>1, TwoToNext, TwoToAbove
    <2> QED
      BY <2>1, <2>2
  <1>2. PICK q, r : q = v \div m /\ r = v % m
    OBVIOUS
  <1>3. q \in Int /\ r \in 0 .. m - 1 /\ v = m * q + r
    BY <1>2
  <1>4. PICK h, b : h = q \div 2 /\ b = q % 2
    OBVIOUS
  <1>5. h \in Int /\ b \in 0 .. 1 /\ q = 2 * h + b
    BY <1>3, <1>4
  <1>6. PICK s : s = m * b + r
    OBVIOUS
  <1>7. s \in 0 .. n - 1
    <2>1. CASE b = 0
      BY <1>1, <1>3, <1>6, <2>1
    <2>2. CASE b = 1
      BY <1>1, <1>3, <1>6, <2>2
    <2> QED
      BY <1>5, <2>1, <2>2
  <1>8. v = n * h + s
    <2>1. m * (2 * h + b) = m * (2 * h) + m * b
      BY <1>5
    <2>2. m * (2 * h) = (2 * m) * h
      BY <1>5
    <2>3. PICK a \in Int, c \in Int : a = (2 * m) * h /\ c = m * b
      BY <1>5
    <2>4. v = (a + c) + r
      BY <1>3, <1>5, <2>1, <2>2, <2>3
    <2>5. n * h = a /\ s = c + r
      BY <1>1, <1>6, <2>3
    <2> QED
      BY <1>3, <2>3, <2>4, <2>5
  <1>9. v % n = s
    BY <1>5, <1>7, <1>8, Residue
  <1>10. b = BitAt(v, w)
    BY <1>1, <1>2, <1>4 DEF BitAt
  <1>11. m * b \in Int /\ r \in Int /\ s = r + m * b
    BY <1>3, <1>5, <1>6
  <1> QED
    BY <1>1, <1>2, <1>5, <1>6, <1>9, <1>10, <1>11

\* What a number's lowest w bits make.
BitsBelow(v, w) == {k \in 0 .. w - 1 : BitAt(v, k) = 1}

\* The lowest w bits of v make v modulo 2^w: by induction on w.
LEMMA NumberOfBits ==
  ASSUME NEW v \in Int
  PROVE  \A w \in Nat : w <= num_bits => Number(BitsBelow(v, w)) = v % (2 ^ w)
  <1>1. PICK Q : Q = {w \in Nat : w <= num_bits => Number(BitsBelow(v, w)) = v % (2 ^ w)}
    OBVIOUS
  <1>2. PICK f : f = [k \in Bits |-> 2 ^ k]
    OBVIOUS
  <1>3. \A b : Number(b) = FoldFunctionOnSet(+, 0, f, b)
    BY <1>2 DEF Number
  <1>4. 0 \in Q
    <2>1. BitsBelow(v, 0) = {}
      BY DEF BitsBelow
    <2>2. Number({}) = 0
      BY <1>3, SumEmpty
    <2>3. PICK p : p = 2 ^ 0
      OBVIOUS
    <2>4. p = 1 /\ v % p = 0
      BY <2>3
    <2> QED
      BY <1>1, <2>1, <2>2, <2>3, <2>4
  <1>5. ASSUME NEW w \in Nat, w \in Q PROVE w + 1 \in Q
    <2> SUFFICES ASSUME w + 1 <= num_bits
                 PROVE  Number(BitsBelow(v, w + 1)) = v % (2 ^ (w + 1))
      BY <1>1
    <2>0. num_bits \in Int /\ w <= num_bits /\ w < num_bits
      BY NumBitsRange
    <2>1. PICK A, B : A = BitsBelow(v, w) /\ B = BitsBelow(v, w + 1)
      OBVIOUS
    <2>2. Number(A) = v % (2 ^ w)
      BY <1>1, <1>5, <2>0, <2>1
    <2>3. /\ IsFiniteSet(A) /\ IsFiniteSet(B)
          /\ \A k \in A \cup B : k \in Bits /\ f[k] = 2 ^ k /\ f[k] \in Int
      <3>1. A \subseteq 0 .. w - 1 /\ B \subseteq 0 .. w /\ 0 .. w - 1 \subseteq 0 .. w
        BY <2>1 DEF BitsBelow
      <3>2. IsFiniteSet(0 .. w)
        BY FS_Interval
      <3>3. A \cup B \subseteq 0 .. w
        BY <3>1
      <3>4. \A k \in A \cup B : k \in Nat /\ k \in Bits
        BY <2>0, <3>3 DEF Bits
      <3> QED
        <4>1. IsFiniteSet(A) /\ IsFiniteSet(B)
          BY <3>1, <3>2, FS_Subset
        <4>2. \A k \in A \cup B : f[k] = 2 ^ k
          BY <1>2, <3>4
        <4>3. \A k \in A \cup B : 2 ^ k \in Nat
          BY <3>4, TwoToAbove
        <4> QED
          BY <3>4, <4>1, <4>2, <4>3
    <2>4. PICK r : r = BitAt(v, w)
      OBVIOUS
    <2>5. r \in 0 .. 1 /\ v % (2 ^ (w + 1)) = (v % (2 ^ w)) + (2 ^ w) * r
      BY <2>4, NextBit
    <2>6. PICK p \in Nat, a \in Int : p = 2 ^ w /\ a = v % p
      <3>1. PICK p : p = 2 ^ w
        OBVIOUS
      <3>2. p \in Nat /\ w + 1 <= p
        BY <3>1, TwoToAbove
      <3>3. v % p \in Int
        BY <3>2
      <3> QED
        BY <3>1, <3>2, <3>3
    <2>7. CASE r = 1
      <3>1. w \in B /\ B \ {w} = A
        <4>1. \A k \in 0 .. w : k = w \/ k \in 0 .. w - 1
          OBVIOUS
        <4>2. (w + 1) - 1 = w /\ 0 .. w - 1 \subseteq 0 .. w /\ w \in 0 .. w /\ w \notin 0 .. w - 1
          OBVIOUS
        <4> QED
          BY <2>1, <2>4, <2>7, <4>1, <4>2 DEF BitsBelow
      <3>2. FoldFunctionOnSet(+, 0, f, B) = f[w] + FoldFunctionOnSet(+, 0, f, B \ {w})
        BY <2>3, <3>1, SumRemove
      <3>3. Number(B) = f[w] + Number(A) /\ f[w] = 2 ^ w
        BY <1>3, <2>3, <3>1, <3>2
      <3>4. p + a = a + p * 1
        BY <2>6
      <3> QED
        BY <2>1, <2>2, <2>5, <2>6, <2>7, <3>3, <3>4
    <2>8. CASE r = 0
      <3>1. B = A
        <4>1. \A k \in 0 .. w : k = w \/ k \in 0 .. w - 1
          OBVIOUS
        <4>2. (w + 1) - 1 = w /\ 0 .. w - 1 \subseteq 0 .. w
          OBVIOUS
        <4> QED
          <5>1. BitAt(v, w) # 1
            BY <2>4, <2>8
          <5> QED
            BY <2>1, <4>1, <4>2, <5>1 DEF BitsBelow
      <3>2. a = a + p * 0
        BY <2>6
      <3> QED
        BY <2>1, <2>2, <2>5, <2>6, <2>8, <3>1, <3>2
    <2> QED
      BY <2>5, <2>7, <2>8
  <1>6. \A w \in Nat : w \in Q
    BY <1>4, <1>5, NumberInduction
  <1> QED
    BY <1>1, <1>6

-----------------------------------------------------------------------------
(* Types, and numbers reduced to them.                                     *)

WidthOf(t) == t.SizeOf * ByteBits

\* What is known of a type: an integer's values are all numbers of its width, and
\* a residue fits into its width.
TypeFacts(t) ==
  /\ t.SizeOf \in Nat \ {0} /\ t.modulus \in Nat \ {0, 1}
  /\ t.kind \in {"unsigned", "signed", "modular", "gf128"}
  /\ WidthOf(t) \in Nat \ {0}
  /\ t.kind \in {"unsigned", "signed"} => t.modulus = 2 ^ WidthOf(t)
  /\ t.kind = "modular" => t.modulus <= 2 ^ WidthOf(t)
  /\ t.kind = "gf128" => WidthOf(t) = num_bits

\* A block is a whole number of bytes: ScalarsAssumption.
LEMMA BytesAre ==
  /\ ByteBits \in Nat \ {0} /\ BlockBytes \in Nat \ {0} /\ num_bits = ByteBits * BlockBytes
  <1>1. ByteBits \in Nat \ {0} /\ ByteBits <= num_bits /\ num_bits % ByteBits = 0
    BY ByteAssumption, NumBitsRange
  <1>2. PICK q : q = num_bits \div ByteBits
    OBVIOUS
  <1>3. q \in Int /\ num_bits = ByteBits * q
    BY <1>1, <1>2, NumBitsRange
  <1>4. q >= 1
    <2> SUFFICES ASSUME q <= 0 PROVE FALSE
      BY <1>3
    <2>1. ByteBits * q <= ByteBits * 0
      BY <1>1, <1>3
    <2> QED
      BY <1>1, <1>3, <2>1, NumBitsRange
  <1>5. q \in Nat \ {0}
    BY <1>3, <1>4
  <1> QED
    BY <1>1, <1>2, <1>3, <1>5 DEF BlockBytes

\* The bytes that hold b bits.
LEMMA RoundedUp ==
  ASSUME NEW b \in Nat, NEW s, s = (b + ByteBits - 1) \div ByteBits
  PROVE  s \in Nat /\ b <= s * ByteBits
  <1>1. ByteBits \in Nat \ {0}
    BY BytesAre
  <1>2. PICK a \in Nat : a = b + ByteBits - 1
    BY <1>1
  <1>3. s \in Nat /\ a < ByteBits * s + ByteBits
    BY <1>1, <1>2, Quotient
  <1>4. ByteBits * s = s * ByteBits /\ ByteBits * s \in Nat
    BY <1>1, <1>3
  <1> QED
    BY <1>1, <1>2, <1>3, <1>4

\* The facts of a type follow from the way in which a type is built.
LEMMA TypesAre ==
  ASSUME NEW t, IsScalarType(t)
  PROVE  TypeFacts(t)
  <1>1. t.SizeOf \in Nat \ {0} /\ t.modulus \in Nat \ {0, 1}
    BY DEF IsScalarType
  <1>2. WidthOf(t) \in Nat \ {0} /\ WidthOf(t) = ByteBits * t.SizeOf
    BY <1>1, BytesAre DEF WidthOf
  <1>3. ASSUME t = unsigned(t.SizeOf) \/ t = signed(t.SizeOf)
        PROVE  t.kind \in {"unsigned", "signed"} /\ t.modulus = 2 ^ WidthOf(t)
    <2>1. /\ t = unsigned(t.SizeOf) => t.kind = "unsigned" /\ t.modulus = 2 ^ (ByteBits * t.SizeOf)
          /\ t = signed(t.SizeOf) => t.kind = "signed" /\ t.modulus = 2 ^ (ByteBits * t.SizeOf)
      BY DEF unsigned, signed, Type
    <2> QED
      BY <1>2, <1>3, <2>1
  <1>4. ASSUME t = modular(t.modulus)
        PROVE  t.kind = "modular" /\ t.modulus <= 2 ^ WidthOf(t)
    <2>1. PICK n \in Nat : n = t.modulus - 1
      BY <1>1
    <2>2. t.kind = "modular" /\ t.SizeOf = (NumBits(n) + ByteBits - 1) \div ByteBits
      BY <1>4, <2>1 DEF modular, Type
    <2>3. PICK b \in Nat : b = NumBits(n)
      BY NumBitsIs
    <2>4. n < 2 ^ b
      BY <2>3, NumBitsIs
    <2>5. b <= WidthOf(t)
      BY <2>2, <2>3, RoundedUp DEF WidthOf
    <2>6. PICK d \in Nat : WidthOf(t) = b + d
      <3>1. WidthOf(t) - b \in Nat /\ WidthOf(t) = b + (WidthOf(t) - b)
        BY <1>2, <2>5
      <3> QED
        BY <3>1
    <2>7. PICK p, q : p = 2 ^ b /\ q = 2 ^ (b + d)
      OBVIOUS
    <2>8. p \in Nat /\ q \in Nat /\ p <= q
      BY <2>7, TwoToMonotone, TwoToAbove
    <2>9. t.modulus <= q
      BY <1>1, <2>1, <2>4, <2>7, <2>8
    <2> QED
      BY <2>2, <2>6, <2>7, <2>9
  <1>5. ASSUME t = gf128
        PROVE  t.kind = "gf128" /\ WidthOf(t) = num_bits
    <2>1. t.kind = "gf128" /\ t.SizeOf = (NumBits(2 ^ num_bits - 1) + ByteBits - 1) \div ByteBits
      BY <1>5 DEF gf128, Type
    <2>2. NumBits(2 ^ num_bits - 1) = num_bits
      BY NumBitsOfLargest, NumBitsRange
    <2>3. PICK a \in Nat : a = num_bits + ByteBits - 1
      BY NumBitsRange, BytesAre
    <2>4. ByteBits * BlockBytes <= a /\ a < ByteBits * BlockBytes + ByteBits
      BY <2>3, BytesAre, NumBitsRange
    <2>5. a \div ByteBits = BlockBytes
      BY <2>4, BytesAre, Quotient
    <2>6. t.SizeOf = BlockBytes
      BY <2>1, <2>2, <2>3, <2>5
    <2> QED
      BY <1>2, <2>1, <2>6, BytesAre
  <1>6. t \in {unsigned(t.SizeOf), signed(t.SizeOf), modular(t.modulus), gf128}
    BY DEF IsScalarType
  <1>7. CASE t = unsigned(t.SizeOf) \/ t = signed(t.SizeOf)
    BY <1>1, <1>2, <1>3, <1>7 DEF TypeFacts
  <1>8. CASE t = modular(t.modulus)
    BY <1>1, <1>2, <1>4, <1>8 DEF TypeFacts
  <1>9. CASE t = gf128
    BY <1>1, <1>2, <1>5, <1>9 DEF TypeFacts
  <1> QED
    BY <1>6, <1>7, <1>8, <1>9

\* Half of the modulus of a signed type.
LEMMA SignedHalf ==
  ASSUME NEW t, TypeFacts(t), t.kind = "signed"
  PROVE  t.modulus \div 2 \in Nat /\ t.modulus = 2 * (t.modulus \div 2)
  <1>1. PICK w \in Nat : WidthOf(t) = w + 1
    <2>1. WidthOf(t) - 1 \in Nat /\ WidthOf(t) = (WidthOf(t) - 1) + 1
      BY DEF TypeFacts
    <2> QED
      BY <2>1
  <1>2. PICK p : p = 2 ^ w
    OBVIOUS
  <1>3. p \in Nat /\ t.modulus = 2 * p
    BY <1>1, <1>2, TwoToNext DEF TypeFacts
  <1>4. t.modulus \div 2 = p
    BY <1>3
  <1> QED
    BY <1>3, <1>4

\* Reducing a number gives a value of the type that is congruent to it.
LEMMA WrapIs ==
  ASSUME NEW t, TypeFacts(t), t.kind # "gf128", NEW n \in Int
  PROVE  /\ Wrap(t, n) \in Scalar(t) /\ Wrap(t, n) \in Int
         /\ Congruent(t.modulus, Wrap(t, n), n)
  <1>1. PICK m \in Nat \ {0, 1} : m = t.modulus
    BY DEF TypeFacts
  <1>2. PICK r : r = n % m
    OBVIOUS
  <1>3. r \in 0 .. m - 1 /\ r % m = r
    BY <1>1, <1>2
  <1>4. CASE t.kind # "signed"
    <2>1. Wrap(t, n) = r
      BY <1>1, <1>2, <1>4 DEF Wrap
    <2>2. Scalar(t) = 0 .. m - 1
      BY <1>1, <1>4 DEF Scalar
    <2> QED
      BY <1>1, <1>2, <1>3, <2>1, <2>2 DEF Congruent
  <1>5. CASE t.kind = "signed"
    <2>1. PICK h \in Nat : h = m \div 2 /\ m = 2 * h
      BY <1>1, <1>5, SignedHalf
    <2>2. Scalar(t) = -h .. h - 1
      BY <1>1, <1>5, <2>1 DEF Scalar
    <2>3. CASE 2 * r >= m
      <3>1. Wrap(t, n) = r - m
        BY <1>1, <1>2, <1>5, <2>3 DEF Wrap
      <3>2. r - m \in -h .. h - 1
        BY <1>3, <2>1, <2>3
      <3>3. PICK c \in Int : c = r - m
        BY <1>3
      <3>4. c = m * (-1) + r
        BY <1>3, <3>3
      <3>5. c % m = r
        BY <1>3, <3>4, Residue
      <3> QED
        BY <1>1, <1>2, <2>2, <3>1, <3>2, <3>3, <3>5 DEF Congruent
    <2>4. CASE ~ (2 * r >= m)
      <3>1. Wrap(t, n) = r
        BY <1>1, <1>2, <1>5, <2>4 DEF Wrap
      <3>2. r \in -h .. h - 1
        BY <1>3, <2>1, <2>4
      <3> QED
        BY <1>1, <1>2, <1>3, <2>2, <3>1, <3>2 DEF Congruent
    <2> QED
      BY <2>3, <2>4
  <1> QED
    BY <1>4, <1>5

\* Numbers that are congruent reduce to the same value (Wrap of Scalars).
LEMMA WrapCongruent ==
  ASSUME NEW t, NEW a, NEW b, Congruent(t.modulus, a, b)
  PROVE  Wrap(t, a) = Wrap(t, b)
  BY DEF Wrap, Congruent

\* The values of a type are left as they are.
LEMMA WrapScalar ==
  ASSUME NEW t, TypeFacts(t), t.kind # "gf128", NEW v \in Scalar(t)
  PROVE  v \in Int /\ Wrap(t, v) = v
  <1>1. PICK m \in Nat \ {0, 1} : m = t.modulus
    BY DEF TypeFacts
  <1>2. CASE t.kind # "signed"
    <2>1. v \in 0 .. m - 1
      BY <1>1, <1>2 DEF Scalar
    <2>2. v % m = v
      BY <1>1, <2>1
    <2> QED
      BY <1>1, <1>2, <2>1, <2>2 DEF Wrap
  <1>3. CASE t.kind = "signed"
    <2>1. PICK h \in Nat : h = m \div 2 /\ m = 2 * h
      BY <1>1, <1>3, SignedHalf
    <2>2. v \in -h .. h - 1
      BY <1>1, <1>3, <2>1 DEF Scalar
    <2>3. CASE v >= 0
      <3>1. v % m = v /\ ~ (2 * v >= m)
        BY <2>1, <2>2, <2>3
      <3> QED
        BY <1>1, <1>3, <2>2, <3>1 DEF Wrap
    <2>4. CASE v < 0
      <3>1. PICK r \in 0 .. m - 1 : r = v + m
        BY <2>1, <2>2, <2>4
      <3>2. v = m * (-1) + r /\ v \in Int
        BY <2>2, <3>1
      <3>3. v % m = r
        BY <3>2, Residue
      <3>4. 2 * r >= m /\ r - m = v
        BY <2>1, <2>2, <3>1
      <3> QED
        BY <1>1, <1>3, <3>2, <3>3, <3>4 DEF Wrap
    <2> QED
      BY <2>2, <2>3, <2>4
  <1> QED
    BY <1>2, <1>3

\* The lowest bits of a value, as many as its type has, are enough.
LEMMA LowestBits ==
  ASSUME NEW t, TypeFacts(t), t.kind # "gf128", NEW v \in Scalar(t)
  PROVE  /\ v % (2 ^ WidthOf(t)) \in Nat
         /\ Congruent(t.modulus, v % (2 ^ WidthOf(t)), v)
  <1>1. PICK m \in Nat \ {0, 1} : m = t.modulus
    BY DEF TypeFacts
  <1>2. PICK p : p = 2 ^ WidthOf(t)
    OBVIOUS
  <1>3. p \in Nat /\ p # 0
    <2>1. WidthOf(t) \in Nat
      BY DEF TypeFacts
    <2>2. WidthOf(t) + 1 <= p /\ p \in Nat
      BY <1>2, <2>1, TwoToAbove
    <2> QED
      BY <2>1, <2>2
  <1>4. v \in Int
    BY WrapScalar
  <1>5. v % p \in Nat
    BY <1>3, <1>4
  <1>6. CASE t.kind \in {"unsigned", "signed"}
    <2>1. m = p
      BY <1>1, <1>2, <1>6 DEF TypeFacts
    <2>2. (v % m) % m = v % m
      BY <1>1, <1>4
    <2> QED
      BY <1>1, <1>2, <1>5, <2>1, <2>2 DEF Congruent
  <1>7. CASE t.kind = "modular"
    <2>1. v \in 0 .. m - 1 /\ m <= p
      BY <1>1, <1>2, <1>7 DEF Scalar, TypeFacts
    <2>2. v % p = v
      BY <1>1, <1>3, <2>1
    <2> QED
      BY <1>1, <1>2, <1>5, <2>2 DEF Congruent
  <1> QED
    BY <1>6, <1>7 DEF TypeFacts

\* A value comes back from the bits of its width.
LEMMA RoundTrip ==
  ASSUME NEW t, TypeFacts(t), t.kind # "gf128", WidthOf(t) <= num_bits, NEW v \in Scalar(t)
  PROVE  FromUint128(t, {k \in 0 .. WidthOf(t) - 1 : k \in ToUint128(t, v)}) = v
  <1>1. PICK w \in Nat : w = WidthOf(t)
    BY DEF TypeFacts
  <1>2. v \in Int /\ Wrap(t, v) = v
    BY WrapScalar
  <1>3. {k \in 0 .. w - 1 : k \in ToUint128(t, v)} = BitsBelow(v, w)
    <2>1. 0 .. w - 1 \subseteq Bits
      BY <1>1, NumBitsRange DEF Bits
    <2> QED
      BY <2>1 DEF ToUint128, BitsBelow, BitAt
  <1>4. Number(BitsBelow(v, w)) = v % (2 ^ w)
    BY <1>1, <1>2, NumberOfBits
  <1>5. Wrap(t, v % (2 ^ w)) = Wrap(t, v)
    BY <1>1, LowestBits, WrapCongruent
  <1> QED
    BY <1>1, <1>2, <1>3, <1>4, <1>5 DEF FromUint128

-----------------------------------------------------------------------------
(* Parity, and the product of the field.                                   *)

Odd(S) == Cardinality(S) % 2 = 1

\* A difference of sets has an odd number of elements if just one of them has.
LEMMA OddDiff ==
  ASSUME NEW A, NEW B, IsFiniteSet(A), IsFiniteSet(B)
  PROVE  Odd(SymDiff(A, B)) <=> ~ (Odd(A) <=> Odd(B))
  <1>1. PICK C, D : C = A \ B /\ D = B \ A
    OBVIOUS
  <1>2. /\ IsFiniteSet(C) /\ IsFiniteSet(D) /\ IsFiniteSet(A \cap B)
        /\ C \cap D = {} /\ SymDiff(A, B) = C \cup D /\ A \cap B = B \cap A
    BY <1>1, FS_Subset DEF SymDiff
  <1>3. PICK a, b, c, d, e, s : /\ a = Cardinality(A) /\ b = Cardinality(B) /\ c = Cardinality(C)
                                /\ d = Cardinality(D) /\ e = Cardinality(A \cap B)
                                /\ s = Cardinality(C \cup D)
    OBVIOUS
  <1>4. a \in Nat /\ b \in Nat /\ c \in Nat /\ d \in Nat /\ e \in Nat
    BY <1>2, <1>3, FS_CardinalityType
  <1>5. c = a - e
    BY <1>1, <1>3, FS_Difference
  <1>6. d = b - e
    <2>1. Cardinality(B \ A) = Cardinality(B) - Cardinality(B \cap A)
      BY FS_Difference
    <2> QED
      BY <1>1, <1>2, <1>3, <2>1
  <1>7. s = c + d - 0
    BY <1>2, <1>3, FS_Union, FS_EmptySet
  <1>8. s = a + b - 2 * e
    BY <1>4, <1>5, <1>6, <1>7
  <1>9. (s % 2 = 1) <=> ~ ((a % 2 = 1) <=> (b % 2 = 1))
    BY <1>4, <1>8
  <1> QED
    BY <1>2, <1>3, <1>9 DEF Odd

\* Adding the same twice changes nothing, and the order does not matter.
LEMMA AddFour ==
  ASSUME NEW a, NEW b, NEW c, NEW d
  PROVE  Add(Add(a, b), Add(c, d)) = Add(Add(a, c), Add(b, d))
  BY DEF Add, SymDiff

\* The sum of two blocks is that of the field: each block is its own negative.
LEMMA AddLaws ==
  ASSUME NEW a, NEW b
  PROVE  Add(a, b) = Add(b, a) /\ Add(a, a) = {} /\ Add(a, {}) = a /\ Add({}, a) = a
  BY DEF Add, SymDiff

\* A sum of blocks is a block.
LEMMA AddType ==
  ASSUME NEW a \in Block, NEW b \in Block
  PROVE  Add(a, b) \in Block
  BY DEF Add, SymDiff, Block

\* A block is a finite set of numbers, so that parities are defined.
LEMMA BlockFinite ==
  ASSUME NEW a \in Block
  PROVE  IsFiniteSet(a) /\ \A k \in a : k \in Int
  <1>1. IsFiniteSet(Bits) /\ a \subseteq Bits /\ \A k \in Bits : k \in Int
    BY FS_Interval, NumBitsRange DEF Bits, Block
  <1> QED
    BY <1>1, FS_Subset

\* The pairs of exponents that add up to n.
Pairs(a, b, n) == {i \in a : n - i \in b}

\* A carry-less product has the exponents with an odd number of pairs.
LEMMA CarrylessIs ==
  ASSUME NEW a, NEW b
  PROVE  /\ Carryless(a, b) = {n \in 0 .. num_bits - 2 : Odd(Pairs(a, b, n))}
         /\ Carryless(a, b) \in Block
  <1>1. Carryless(a, b) = {n \in 0 .. num_bits - 2 : Odd(Pairs(a, b, n))}
    BY DEF Carryless, Odd, Pairs
  <1>2. 0 .. num_bits - 2 \subseteq Bits
    BY NumBitsRange DEF Bits
  <1> QED
    BY <1>1, <1>2 DEF Block

\* The carry-less product distributes over sums: parities of pairs add up.
LEMMA CarrylessAdd ==
  ASSUME NEW a \in Block, NEW b \in Block, NEW c
  PROVE  Carryless(Add(a, b), c) = Add(Carryless(a, c), Carryless(b, c))
  <1>1. ASSUME NEW n \in 0 .. num_bits - 2
        PROVE  Odd(Pairs(Add(a, b), c, n)) <=> ~ (Odd(Pairs(a, c, n)) <=> Odd(Pairs(b, c, n)))
    <2>1. Pairs(Add(a, b), c, n) = SymDiff(Pairs(a, c, n), Pairs(b, c, n))
      BY DEF Pairs, Add, SymDiff
    <2>2. Pairs(a, c, n) \subseteq a /\ Pairs(b, c, n) \subseteq b
      BY DEF Pairs
    <2>3. IsFiniteSet(Pairs(a, c, n)) /\ IsFiniteSet(Pairs(b, c, n))
      BY <2>2, BlockFinite, FS_Subset
    <2> QED
      BY <2>1, <2>3, OddDiff
  <1>2. PICK P, Q, R : P = Carryless(Add(a, b), c) /\ Q = Carryless(a, c) /\ R = Carryless(b, c)
    OBVIOUS
  <1>3. /\ P = {n \in 0 .. num_bits - 2 : Odd(Pairs(Add(a, b), c, n))}
        /\ Q = {n \in 0 .. num_bits - 2 : Odd(Pairs(a, c, n))}
        /\ R = {n \in 0 .. num_bits - 2 : Odd(Pairs(b, c, n))}
    BY <1>2, CarrylessIs
  <1>4. \A n : n \in P <=> ~ (n \in Q <=> n \in R)
    BY <1>1, <1>3
  <1>5. P = Add(Q, R)
    BY <1>4 DEF Add, SymDiff
  <1> QED
    BY <1>2, <1>5

\* The carry-less product commutes: the pairs of both orders correspond.
LEMMA CarrylessCommute ==
  ASSUME NEW a \in Block, NEW b \in Block
  PROVE  Carryless(a, b) = Carryless(b, a)
  <1>1. ASSUME NEW n \in 0 .. num_bits - 2
        PROVE  Odd(Pairs(a, b, n)) <=> Odd(Pairs(b, a, n))
    <2>1. PICK A, B : A = Pairs(a, b, n) /\ B = Pairs(b, a, n)
      OBVIOUS
    <2>2. n \in Int /\ \A i \in a \cup b : i \in Int /\ n - i \in Int /\ n - (n - i) = i
      BY NumBitsRange, BlockFinite
    <2>3. /\ \A i \in A : i \in a /\ n - i \in b /\ n - i \in B
          /\ \A i \in B : i \in b /\ n - i \in a /\ n - i \in A
      BY <2>1, <2>2 DEF Pairs
    <2>4. PICK f : f = [i \in A |-> n - i]
      OBVIOUS
    <2>5. f \in [A -> B]
      BY <2>3, <2>4
    <2>6. \A i, j \in A : f[i] = f[j] => i = j
      BY <2>2, <2>3, <2>4
    <2>7. \A i \in B : \E j \in A : f[j] = i
      BY <2>2, <2>3, <2>4
    <2>8. f \in Bijection(A, B)
      BY <2>5, <2>6, <2>7 DEF Bijection, Injection, Surjection, IsInjective
    <2>9. IsFiniteSet(A)
      BY <2>1, BlockFinite, FS_Subset DEF Pairs
    <2>10. Cardinality(A) = Cardinality(B)
      <3>1. ExistsBijection(A, B)
        BY <2>8 DEF ExistsBijection
      <3> QED
        BY <2>9, <3>1, FS_Bijection
    <2> QED
      BY <2>1, <2>10 DEF Odd
  <1> QED
    BY <1>1, CarrylessIs

\* Halves of blocks and what is shifted into a half are blocks.
LEMMA HalvesType ==
  ASSUME NEW a \in Block
  PROVE  Low(a) \in Block /\ High(a) \in Block /\ ToHigh(a) \in Block
  BY NumBitsRange DEF Low, High, ToHigh, Block, Bits

\* Taking a half distributes over sums.
LEMMA HalvesAdd ==
  ASSUME NEW a \in Block, NEW b \in Block
  PROVE  /\ Low(Add(a, b)) = Add(Low(a), Low(b))
         /\ High(Add(a, b)) = Add(High(a), High(b))
         /\ ToHigh(Add(a, b)) = Add(ToHigh(a), ToHigh(b))
  <1>1. half \in Int /\ \A k \in a \cup b : k \in Int
    BY NumBitsRange, BlockFinite
  <1>2. Low(Add(a, b)) = Add(Low(a), Low(b))
    BY DEF Low, Add, SymDiff
  <1>3. High(Add(a, b)) = Add(High(a), High(b))
    <2>1. \A i, j \in a \cup b : i - half = j - half => i = j
      BY <1>1
    <2> QED
      BY <2>1 DEF High, Add, SymDiff
  <1>4. ToHigh(Add(a, b)) = Add(ToHigh(a), ToHigh(b))
    <2>1. \A k \in Low(a) \cup Low(b) : k \in Int
      BY <1>1 DEF Low
    <2>2. ASSUME NEW i \in Low(a) \cup Low(b), NEW j \in Low(a) \cup Low(b), i + half = j + half
          PROVE  i = j
      <3>1. i \in Int /\ j \in Int
        BY <2>1
      <3> QED
        BY <1>1, <2>2, <3>1
    <2> QED
      BY <1>2, <2>2 DEF ToHigh, Add, SymDiff
  <1> QED
    BY <1>2, <1>3, <1>4

Middle(a, b) == Add(Carryless(Low(a), High(b)), Carryless(High(a), Low(b)))

\* The product of 256 bits in gf128.h is made of four carry-less products.
LEMMA MulWideIs ==
  ASSUME NEW a \in Block, NEW b \in Block
  PROVE  /\ Middle(a, b) \in Block
         /\ MulWide(a, b).high = Add(Carryless(High(a), High(b)), High(Middle(a, b)))
         /\ MulWide(a, b).low = Add(Carryless(Low(a), Low(b)), ToHigh(Middle(a, b)))
         /\ MulWide(a, b).high \in Block /\ MulWide(a, b).low \in Block
  <1>1. Middle(a, b) \in Block
    BY CarrylessIs, AddType DEF Middle
  <1>2. /\ MulWide(a, b).high = Add(Carryless(High(a), High(b)), High(Middle(a, b)))
        /\ MulWide(a, b).low = Add(Carryless(Low(a), Low(b)), ToHigh(Middle(a, b)))
    BY DEF MulWide, Middle
  <1> QED
    BY <1>1, <1>2, CarrylessIs, HalvesType, AddType

\* The product of 256 bits commutes.
LEMMA MulWideCommute ==
  ASSUME NEW a \in Block, NEW b \in Block
  PROVE  MulWide(a, b).high = MulWide(b, a).high /\ MulWide(a, b).low = MulWide(b, a).low
  <1>1. PICK la \in Block, ha \in Block, lb \in Block, hb \in Block :
          la = Low(a) /\ ha = High(a) /\ lb = Low(b) /\ hb = High(b)
    BY HalvesType
  <1>2. PICK mid, mid2 : mid = Middle(a, b) /\ mid2 = Middle(b, a)
    OBVIOUS
  <1>3. /\ Carryless(la, hb) = Carryless(hb, la) /\ Carryless(ha, lb) = Carryless(lb, ha)
        /\ Carryless(ha, hb) = Carryless(hb, ha) /\ Carryless(la, lb) = Carryless(lb, la)
    BY CarrylessCommute
  <1>4. mid = mid2
    BY <1>1, <1>2, <1>3, AddLaws DEF Middle
  <1>5. /\ MulWide(a, b).high = Add(Carryless(ha, hb), High(mid))
        /\ MulWide(a, b).low = Add(Carryless(la, lb), ToHigh(mid))
    BY <1>1, <1>2, MulWideIs
  <1>6. /\ MulWide(b, a).high = Add(Carryless(hb, ha), High(mid2))
        /\ MulWide(b, a).low = Add(Carryless(lb, la), ToHigh(mid2))
    BY <1>1, <1>2, MulWideIs
  <1> QED
    BY <1>3, <1>4, <1>5, <1>6

\* The product of 256 bits distributes over sums.
LEMMA MulWideAdd ==
  ASSUME NEW a \in Block, NEW b \in Block, NEW c \in Block
  PROVE  /\ MulWide(Add(a, b), c).high = Add(MulWide(a, c).high, MulWide(b, c).high)
         /\ MulWide(Add(a, b), c).low = Add(MulWide(a, c).low, MulWide(b, c).low)
  <1>1. PICK d \in Block : d = Add(a, b)
    BY AddType
  <1>2. PICK la \in Block, ha \in Block, lb \in Block, hb \in Block, lc \in Block, hc \in Block :
          /\ la = Low(a) /\ ha = High(a) /\ lb = Low(b) /\ hb = High(b)
          /\ lc = Low(c) /\ hc = High(c)
    BY HalvesType
  <1>3. Low(d) = Add(la, lb) /\ High(d) = Add(ha, hb)
    BY <1>1, <1>2, HalvesAdd
  <1>4. PICK ma, mb, md : ma = Middle(a, c) /\ mb = Middle(b, c) /\ md = Middle(d, c)
    OBVIOUS
  <1>5. /\ ma \in Block /\ mb \in Block
        /\ MulWide(a, c).high = Add(Carryless(ha, hc), High(ma))
        /\ MulWide(a, c).low = Add(Carryless(la, lc), ToHigh(ma))
        /\ MulWide(b, c).high = Add(Carryless(hb, hc), High(mb))
        /\ MulWide(b, c).low = Add(Carryless(lb, lc), ToHigh(mb))
    <2>1. /\ ma \in Block
          /\ MulWide(a, c).high = Add(Carryless(ha, hc), High(ma))
          /\ MulWide(a, c).low = Add(Carryless(la, lc), ToHigh(ma))
      <3>1. /\ Middle(a, c) \in Block
            /\ MulWide(a, c).high = Add(Carryless(High(a), High(c)), High(Middle(a, c)))
            /\ MulWide(a, c).low = Add(Carryless(Low(a), Low(c)), ToHigh(Middle(a, c)))
        BY MulWideIs
      <3> QED
        BY <1>2, <1>4, <3>1
    <2>2. /\ mb \in Block
          /\ MulWide(b, c).high = Add(Carryless(hb, hc), High(mb))
          /\ MulWide(b, c).low = Add(Carryless(lb, lc), ToHigh(mb))
      <3>1. /\ Middle(b, c) \in Block
            /\ MulWide(b, c).high = Add(Carryless(High(b), High(c)), High(Middle(b, c)))
            /\ MulWide(b, c).low = Add(Carryless(Low(b), Low(c)), ToHigh(Middle(b, c)))
        BY MulWideIs
      <3> QED
        BY <1>2, <1>4, <3>1
    <2> QED
      BY <2>1, <2>2
  <1>6. /\ MulWide(d, c).high = Add(Carryless(High(d), hc), High(md))
        /\ MulWide(d, c).low = Add(Carryless(Low(d), lc), ToHigh(md))
    BY <1>2, <1>4, MulWideIs
  <1>7. /\ Carryless(High(d), hc) = Add(Carryless(ha, hc), Carryless(hb, hc))
        /\ Carryless(Low(d), lc) = Add(Carryless(la, lc), Carryless(lb, lc))
        /\ Carryless(Low(d), hc) = Add(Carryless(la, hc), Carryless(lb, hc))
        /\ Carryless(High(d), lc) = Add(Carryless(ha, lc), Carryless(hb, lc))
    BY <1>3, CarrylessAdd
  <1>8. md = Add(ma, mb)
    BY <1>2, <1>4, <1>7, AddFour DEF Middle
  <1>9. High(md) = Add(High(ma), High(mb)) /\ ToHigh(md) = Add(ToHigh(ma), ToHigh(mb))
    BY <1>5, <1>8, HalvesAdd
  <1>10. MulWide(d, c).high = Add(MulWide(a, c).high, MulWide(b, c).high)
    BY <1>5, <1>6, <1>7, <1>9, AddFour
  <1>11. MulWide(d, c).low = Add(MulWide(a, c).low, MulWide(b, c).low)
    BY <1>5, <1>6, <1>7, <1>9, AddFour
  <1> QED
    BY <1>1, <1>10, <1>11

\* What the reduction of gf128.h computes, its intermediate results named.
LEMMA ReduceIs ==
  ASSUME NEW p, NEW tmp, NEW high, tmp = Carryless(High(p.high), modulus_),
         high = Add(p.high, High(tmp))
  PROVE  Reduce(p) = Add(Add(p.low, ToHigh(tmp)), Carryless(Low(high), modulus_))
  BY DEF Reduce

\* The reduction distributes over sums, and its result is a block.
LEMMA ReduceAdd ==
  ASSUME NEW p, NEW q, NEW r,
         p.high \in Block, p.low \in Block, q.high \in Block, q.low \in Block,
         r.high = Add(p.high, q.high), r.low = Add(p.low, q.low)
  PROVE  Reduce(r) = Add(Reduce(p), Reduce(q)) /\ Reduce(p) \in Block
  <1>1. PICK tp, tq, tr : /\ tp = Carryless(High(p.high), modulus_)
                          /\ tq = Carryless(High(q.high), modulus_)
                          /\ tr = Carryless(High(r.high), modulus_)
    OBVIOUS
  <1>2. PICK hp, hq, hr : /\ hp = Add(p.high, High(tp)) /\ hq = Add(q.high, High(tq))
                          /\ hr = Add(r.high, High(tr))
    OBVIOUS
  <1>3. tp \in Block /\ tq \in Block /\ hp \in Block /\ hq \in Block
    BY <1>1, <1>2, CarrylessIs, HalvesType, AddType
  <1>4. tr = Add(tp, tq)
    <2>1. High(r.high) = Add(High(p.high), High(q.high))
      BY HalvesAdd
    <2> QED
      BY <1>1, <2>1, HalvesType, CarrylessAdd
  <1>5. High(tr) = Add(High(tp), High(tq)) /\ ToHigh(tr) = Add(ToHigh(tp), ToHigh(tq))
    BY <1>3, <1>4, HalvesAdd
  <1>6. hr = Add(hp, hq)
    BY <1>2, <1>5, AddFour
  <1>7. PICK cp, cq, cr : /\ cp = Carryless(Low(hp), modulus_) /\ cq = Carryless(Low(hq), modulus_)
                          /\ cr = Carryless(Low(hr), modulus_)
    OBVIOUS
  <1>8. cp \in Block /\ cr = Add(cp, cq)
    <2>1. Low(hr) = Add(Low(hp), Low(hq))
      BY <1>3, <1>6, HalvesAdd
    <2> QED
      BY <1>3, <1>7, <2>1, HalvesType, CarrylessAdd, CarrylessIs
  <1>9. /\ Reduce(p) = Add(Add(p.low, ToHigh(tp)), cp)
        /\ Reduce(q) = Add(Add(q.low, ToHigh(tq)), cq)
        /\ Reduce(r) = Add(Add(r.low, ToHigh(tr)), cr)
    BY <1>1, <1>2, <1>7, ReduceIs
  <1>10. Add(r.low, ToHigh(tr)) = Add(Add(p.low, ToHigh(tp)), Add(q.low, ToHigh(tq)))
    BY <1>5, AddFour
  <1>11. Reduce(r) = Add(Reduce(p), Reduce(q))
    BY <1>8, <1>9, <1>10, AddFour
  <1>12. Reduce(p) \in Block
    BY <1>3, <1>8, <1>9, HalvesType, AddType
  <1> QED
    BY <1>11, <1>12

\* The multiplication of gf128.h is the reduction of the wide product.
LEMMA MulIs ==
  ASSUME NEW a, NEW b
  PROVE  Mul(a, b) = Reduce(MulWide(a, b))
  <1>1. PICK p : p = MulWide(a, b)
    OBVIOUS
  <1>2. Mul(a, b) = CHOOSE r \in {Reduce(u) : u \in {p}} : TRUE
    BY <1>1 DEF Mul, Strictly
  <1>3. {Reduce(u) : u \in {p}} = {Reduce(p)}
    OBVIOUS
  <1>4. (CHOOSE r \in {Reduce(p)} : TRUE) = Reduce(p)
    OBVIOUS
  <1> QED
    BY <1>1, <1>2, <1>3, <1>4

\* The product of the field is commutative, and distributes over its sum.
LEMMA MulLaws ==
  ASSUME NEW a \in Block, NEW b \in Block, NEW c \in Block
  PROVE  /\ Mul(a, b) \in Block /\ Mul(a, b) = Mul(b, a) /\ Mul(a, {}) = {}
         /\ Mul(a, Add(b, c)) = Add(Mul(a, b), Mul(a, c))
  <1>1. ASSUME NEW d \in Block, NEW e \in Block
        PROVE  Mul(d, e) \in Block /\ Mul(d, e) = Mul(e, d)
    <2>1. PICK p, q, r : p = MulWide(d, e) /\ q = MulWide(e, d) /\ r = MulWide(Add(d, d), e)
      OBVIOUS
    <2>2. p.high \in Block /\ p.low \in Block
      BY <2>1, MulWideIs
    <2>3. p.high = q.high /\ p.low = q.low
      BY <2>1, MulWideCommute
    <2>4. r.high = Add(p.high, p.high) /\ r.low = Add(p.low, p.low)
      BY <2>1, MulWideAdd
    <2>5. Reduce(p) \in Block
      BY <2>2, <2>4, ReduceAdd
    <2>6. Reduce(p) = Reduce(q)
      BY <2>3 DEF Reduce
    <2> QED
      BY <2>1, <2>5, <2>6, MulIs
  <1>2. ASSUME NEW d \in Block, NEW e \in Block
        PROVE  Mul(a, Add(d, e)) = Add(Mul(a, d), Mul(a, e))
    <2>1. PICK p, q, r : p = MulWide(d, a) /\ q = MulWide(e, a) /\ r = MulWide(Add(d, e), a)
      OBVIOUS
    <2>2. p.high \in Block /\ p.low \in Block /\ q.high \in Block /\ q.low \in Block
      BY <2>1, MulWideIs
    <2>3. r.high = Add(p.high, q.high) /\ r.low = Add(p.low, q.low)
      BY <2>1, MulWideAdd
    <2>4. Reduce(r) = Add(Reduce(p), Reduce(q))
      BY <2>2, <2>3, ReduceAdd
    <2>5. Mul(Add(d, e), a) = Add(Mul(d, a), Mul(e, a))
      BY <2>1, <2>4, MulIs
    <2> QED
      BY <1>1, <2>5, AddType
  <1>3. Mul(a, {}) = {}
    <2>1. Mul(a, Add(b, b)) = Add(Mul(a, b), Mul(a, b))
      BY <1>2
    <2> QED
      BY <2>1, AddLaws
  <1> QED
    BY <1>1, <1>2, <1>3

-----------------------------------------------------------------------------
(* Elements in a block.                                                    *)

Supports == TypeFacts(T) /\ ~TooLong

\* As many elements as are packed fit into a block.
LEMMA Widths ==
  ASSUME Supports
  PROVE  /\ bit_width = WidthOf(T) /\ bit_width \in Nat \ {0} /\ bit_width <= num_bits
         /\ stride \in Nat \ {0} /\ stride * bit_width <= num_bits
         /\ T.kind = "gf128" => bit_width = num_bits /\ stride = 1
  <1>1. PICK s \in Nat \ {0}, c \in Nat \ {0}, d \in Nat \ {0} :
          s = T.SizeOf /\ c = BlockBytes /\ d = ByteBits
    BY BytesAre DEF Supports, TypeFacts
  <1>2. s <= c
    BY <1>1 DEF Supports, TooLong
  <1>3. PICK w \in Nat \ {0} : w = s * d
    BY <1>1
  <1>4. bit_width = w /\ bit_width = WidthOf(T)
    BY <1>1, <1>3 DEF bit_width, WidthOf
  <1>5. PICK q \in Nat : q = stride /\ s * q <= c /\ c < s * q + s
    <2>1. c \div s \in Nat /\ s * (c \div s) <= c /\ c < s * (c \div s) + s
      BY <1>1, Quotient
    <2> QED
      BY <1>1, <2>1 DEF stride
  <1>6. q # 0
    <2> SUFFICES ASSUME q = 0 PROVE FALSE
      OBVIOUS
    <2>1. s * q = 0
      BY <1>1
    <2> QED
      BY <1>1, <1>2, <1>5, <2>1
  <1>7. PICK n \in Nat : n = num_bits /\ n = d * c /\ n # 0
    BY <1>1, BytesAre, NumBitsRange
  <1>8. q * w <= n
    <2>1. PICK z \in Nat : z = s * q
      BY <1>1, <1>5
    <2>2. d * z <= d * c
      BY <1>1, <1>5, <2>1
    <2>3. d * z = q * w
      <3>1. d * (s * q) = q * (s * d)
        BY <1>1, <1>5
      <3> QED
        BY <1>3, <2>1, <3>1
    <2> QED
      BY <1>7, <2>2, <2>3
  <1>9. w <= n
    <2>1. d * s <= d * c
      BY <1>1, <1>2
    <2>2. d * s = w
      BY <1>1, <1>3
    <2> QED
      BY <1>7, <2>1, <2>2
  <1>10. ASSUME w = n PROVE q = 1
    <2> SUFFICES ASSUME q >= 2 PROVE FALSE
      BY <1>5, <1>6
    <2>1. 2 * w <= q * w
      BY <1>3, <1>5
    <2> QED
      BY <1>3, <1>8, <1>10, <2>1
  <1>11. T.kind = "gf128" => WidthOf(T) = num_bits
    BY DEF Supports, TypeFacts
  <1> QED
    BY <1>3, <1>4, <1>5, <1>6, <1>7, <1>8, <1>9, <1>10, <1>11

\* Operations on values of a type give values of it.
LEMMA ScalarType ==
  ASSUME TypeFacts(T), NEW a \in Scalar(T), NEW b \in Scalar(T)
  PROVE  /\ Plus(T, a, b) \in Scalar(T) /\ Minus(T, a, b) \in Scalar(T)
         /\ Times(T, a, b) \in Scalar(T) /\ ZeroOf(T) \in Scalar(T)
  <1>1. CASE T.kind = "gf128"
    <2>1. Scalar(T) = Block /\ {} \in Block
      BY <1>1 DEF Scalar, Block
    <2>2. Add(a, b) \in Block /\ Mul(a, b) \in Block
      BY <2>1, AddType, MulLaws
    <2> QED
      BY <1>1, <2>1, <2>2 DEF Plus, Minus, Times, ZeroOf, Zero
  <1>2. CASE T.kind # "gf128"
    <2>1. a \in Int /\ b \in Int
      BY <1>2, WrapScalar
    <2>2. a + b \in Int /\ a - b \in Int /\ a * b \in Int /\ 0 \in Int
      BY <2>1
    <2>3. Wrap(T, a + b) \in Scalar(T) /\ Wrap(T, a - b) \in Scalar(T) /\ Wrap(T, a * b) \in Scalar(T)
      BY <1>2, <2>2, WrapIs
    <2>4. 0 \in Scalar(T)
      <3>1. Wrap(T, 0) \in Scalar(T)
        BY <1>2, <2>2, WrapIs
      <3>2. PICK m \in Nat \ {0, 1} : m = T.modulus
        BY DEF TypeFacts
      <3>3. 0 % m = 0
        BY <3>2
      <3>4. 2 * 0 = 0 /\ ~ (0 >= m)
        BY <3>2
      <3>5. Wrap(T, 0) = 0
        BY <3>2, <3>3, <3>4 DEF Wrap
      <3> QED
        BY <3>1, <3>5
    <2> QED
      BY <1>2, <2>3, <2>4 DEF Plus, Minus, Times, ZeroOf
  <1> QED
    BY <1>1, <1>2

\* An element with one bit set is an element, for every bit of the type.
LEMMA SetBitType ==
  ASSUME Supports, NEW k \in 0 .. bit_width - 1
  PROVE  SetBit(T, k) \in Scalar(T)
  <1>1. CASE T.kind = "gf128"
    <2>1. k \in Bits
      BY <1>1, Widths, NumBitsRange DEF Bits
    <2> QED
      BY <1>1, <2>1 DEF SetBit, Scalar, Block
  <1>2. CASE T.kind # "gf128"
    <2>1. k \in Nat
      BY Widths
    <2>2. 2 ^ k \in Int
      BY <2>1, TwoToAbove
    <2>3. Wrap(T, 2 ^ k) \in Scalar(T)
      BY <1>2, <2>2, WrapIs DEF Supports
    <2> QED
      BY <1>2, <2>3 DEF SetBit
  <1> QED
    BY <1>1, <1>2

\* An element that is read from a block is one of the type, whatever the block.
LEMMA ElementType ==
  ASSUME Supports, NEW b, NEW k
  PROVE  Element(b, k) \in Scalar(T)
  <1>1. PICK c : c = Chunk(b, k - 1)
    OBVIOUS
  <1>2. c \subseteq Bits
    BY <1>1, Widths, NumBitsRange DEF Chunk, Bits
  <1>3. CASE T.kind = "gf128"
    BY <1>1, <1>2, <1>3 DEF Element, FromUint128, Scalar, Block
  <1>4. CASE T.kind # "gf128"
    <2>1. PICK f : f = [i \in Bits |-> 2 ^ i]
      OBVIOUS
    <2>2. \A i \in Bits : i \in Nat
      BY DEF Bits
    <2>3. \A i \in c : f[i] \in Int
      BY <1>2, <2>1, <2>2, TwoToAbove
    <2>4. IsFiniteSet(c)
      BY <1>2, BlockFinite DEF Block
    <2>5. Number(c) \in Int
      BY <2>1, <2>3, <2>4, SumType DEF Number
    <2>6. Wrap(T, Number(c)) \in Scalar(T)
      BY <1>4, <2>5, WrapIs DEF Supports
    <2> QED
      BY <1>1, <1>4, <2>6 DEF Element, FromUint128
  <1> QED
    BY <1>3, <1>4

\* A number has no bits above its width.
LEMMA NoHighBits ==
  ASSUME NEW p \in Nat, NEW w \in Nat, p < 2 ^ w, NEW k \in Nat, w <= k
  PROVE  BitAt(p, k) = 0
  <1>1. PICK d \in Nat : k = w + d
    <2>1. k - w \in Nat /\ k = w + (k - w)
      OBVIOUS
    <2> QED
      BY <2>1
  <1>2. PICK a, b : a = 2 ^ w /\ b = 2 ^ (w + d)
    OBVIOUS
  <1>3. a \in Nat /\ b \in Nat /\ a <= b
    BY <1>2, TwoToMonotone, TwoToAbove
  <1>4. p < b /\ b \in Nat /\ b # 0
    BY <1>2, <1>3
  <1>5. b * 0 <= p /\ p < b * 0 + b
    BY <1>4
  <1>6. p \div b = 0
    BY <1>4, <1>5, Quotient
  <1>7. p \div (2 ^ k) = 0
    BY <1>1, <1>2, <1>6
  <1>8. 0 % 2 = 0
    OBVIOUS
  <1> QED
    BY <1>7, <1>8 DEF BitAt

\* Two bits at the same place are the same bit of the same element.
LEMMA SameSlot ==
  ASSUME NEW w \in Nat, NEW i \in 0 .. w - 1, NEW c \in 0 .. w - 1,
         NEW j \in Nat, NEW k \in Nat, c + (j - 1) * w = i + (k - 1) * w
  PROVE  j = k /\ c = i
  <1>1. (j - 1) * w = j * w - w /\ (k - 1) * w = k * w - w
    OBVIOUS
  <1>2. ~ (j + 1 <= k)
    <2> SUFFICES ASSUME j + 1 <= k PROVE FALSE
      OBVIOUS
    <2>1. (j + 1) * w <= k * w /\ (j + 1) * w = j * w + w
      OBVIOUS
    <2> QED
      BY <1>1, <2>1
  <1>3. ~ (k + 1 <= j)
    <2> SUFFICES ASSUME k + 1 <= j PROVE FALSE
      OBVIOUS
    <2>1. (k + 1) * w <= j * w /\ (k + 1) * w = k * w + w
      OBVIOUS
    <2> QED
      BY <1>1, <2>1
  <1>4. j = k
    BY <1>2, <1>3
  <1>5. PICK z \in Int : z = (k - 1) * w
    OBVIOUS
  <1> QED
    BY <1>4, <1>5

\* What is packed are blocks, and they fit into their places.
LEMMA PackedBits ==
  ASSUME Supports, Packable, NEW v \in Seq(Scalar(T)), Len(v) <= stride,
         NEW mult \in Scalar(T), NEW f, f = [j \in 1 .. Len(v) |-> ToUint128(T, Times(T, v[j], mult))]
  PROVE  \A j \in 1 .. Len(v) : /\ v[j] \in Scalar(T) /\ Times(T, v[j], mult) \in Scalar(T)
                                /\ f[j] \in Block
                                /\ stride = 1 \/ f[j] \subseteq 0 .. bit_width - 1
  <1> SUFFICES ASSUME NEW j \in 1 .. Len(v)
               PROVE  /\ v[j] \in Scalar(T) /\ Times(T, v[j], mult) \in Scalar(T)
                      /\ f[j] \in Block
                      /\ stride = 1 \/ f[j] \subseteq 0 .. bit_width - 1
    OBVIOUS
  <1>1. PICK p : p = Times(T, v[j], mult)
    OBVIOUS
  <1>2. v[j] \in Scalar(T) /\ p \in Scalar(T)
    BY <1>1, ScalarType DEF Supports
  <1>3. f[j] = ToUint128(T, p)
    BY <1>1
  <1>4. CASE T.kind = "gf128"
    BY <1>1, <1>2, <1>3, <1>4, Widths DEF ToUint128, Scalar
  <1>5. CASE T.kind # "gf128"
    <2>1. f[j] = {k \in Bits : BitAt(p, k) = 1}
      BY <1>3, <1>5 DEF ToUint128, BitAt
    <2>2. ASSUME stride # 1, NEW k \in f[j] PROVE k \in 0 .. bit_width - 1
      <3>1. PICK w \in Nat, m \in Nat : w = WidthOf(T) /\ w = bit_width /\ m = T.modulus
        BY Widths DEF Supports, TypeFacts
      <3>2. T.kind \in {"unsigned", "modular"} /\ m <= 2 ^ w
        <4>1. T.kind \in {"unsigned", "modular"}
          BY <1>5, <2>2 DEF Packable, Supports, TypeFacts
        <4>2. 2 ^ w \in Nat
          BY TwoToAbove
        <4> QED
          BY <3>1, <4>1, <4>2 DEF Supports, TypeFacts
      <3>3. p \in 0 .. m - 1
        BY <1>2, <3>1, <3>2 DEF Scalar
      <3>4. k \in Nat /\ BitAt(p, k) = 1
        BY <2>1, <2>2 DEF Bits
      <3>5. PICK q \in Nat : q = 2 ^ w
        BY TwoToAbove
      <3>6. p \in Nat /\ p < 2 ^ w
        BY <3>2, <3>3, <3>5
      <3>7. ~ (w <= k)
        <4> SUFFICES ASSUME w <= k PROVE FALSE
          OBVIOUS
        <4>1. BitAt(p, k) = 0
          BY <3>4, <3>6, NoHighBits
        <4> QED
          BY <3>4, <4>1
      <3> QED
        BY <3>1, <3>4, <3>7
    <2> QED
      BY <1>1, <1>2, <2>1, <2>2 DEF Block
  <1> QED
    BY <1>4, <1>5

\* What is packed is found in its place.
LEMMA InPlace ==
  ASSUME Supports, Packable, NEW v \in Seq(Scalar(T)), Len(v) <= stride,
         NEW mult \in Scalar(T), NEW k \in 1 .. Len(v)
  PROVE  Element(SpanToEMPBlock(v, mult), k) = Times(T, v[k], mult)
  <1>1. PICK f : f = [j \in 1 .. Len(v) |-> ToUint128(T, Times(T, v[j], mult))]
    OBVIOUS
  <1>2. \A j \in 1 .. Len(v) : /\ v[j] \in Scalar(T) /\ Times(T, v[j], mult) \in Scalar(T)
                               /\ f[j] \in Block
                               /\ stride = 1 \/ f[j] \subseteq 0 .. bit_width - 1
    BY <1>1, PackedBits
  <1>3. PICK w \in Nat \ {0}, n \in Nat, s \in Nat \ {0} :
          w = bit_width /\ n = num_bits /\ s = stride /\ s * w <= n /\ w <= n
    BY Widths, NumBitsRange
  <1>4. PICK b : b = SpanToEMPBlock(v, mult)
    OBVIOUS
  <1>5. b = UNION {ShiftLeft(f[j], (j - 1) * w) : j \in 1 .. Len(v)}
    <2>1. DOMAIN v = 1 .. Len(v)
      OBVIOUS
    <2>2. \A j \in 1 .. Len(v) : f[j] = ToUint128(T, Times(T, v[j], mult))
      BY <1>1
    <2> QED
      BY <1>3, <1>4, <2>1, <2>2 DEF SpanToEMPBlock
  <1>6. Len(v) \in Nat /\ k \in Nat /\ k >= 1 /\ k <= s
    BY <1>3
  <1>7. ASSUME NEW i \in 0 .. w - 1, i \in f[k]
        PROVE  i + (k - 1) * w \in b
    <2>1. PICK z \in Int : z = (k - 1) * w
      BY <1>6
    <2>2. 0 <= z /\ z + w <= n
      <3>1. (k - 1) * w >= 0 * w
        BY <1>6
      <3>2. (k - 1) * w + w = k * w /\ k * w <= s * w
        BY <1>6
      <3> QED
        BY <1>3, <2>1, <3>1, <3>2
    <2>3. i + z \in Bits
      BY <1>3, <2>1, <2>2 DEF Bits
    <2>4. i + z \in ShiftLeft(f[k], z)
      BY <1>7, <2>3 DEF ShiftLeft
    <2> QED
      BY <1>5, <2>1, <2>4
  <1>8. ASSUME NEW i \in 0 .. w - 1, i + (k - 1) * w \in b
        PROVE  i \in f[k]
    <2>1. PICK j \in 1 .. Len(v) : i + (k - 1) * w \in ShiftLeft(f[j], (j - 1) * w)
      BY <1>5, <1>8
    <2>2. PICK c \in f[j] : i + (k - 1) * w = c + (j - 1) * w
      BY <2>1 DEF ShiftLeft
    <2>3. c \in Int /\ j \in Nat
      BY <1>2, <1>6, BlockFinite
    <2>4. CASE s = 1
      <3>1. j = 1 /\ k = 1
        BY <1>3, <1>6, <2>3, <2>4
      <3>2. (1 - 1) * w = 0
        OBVIOUS
      <3> QED
        BY <2>2, <2>3, <3>1, <3>2
    <2>5. CASE s # 1
      <3>1. c \in 0 .. w - 1
        BY <1>2, <1>3, <2>5
      <3>2. j = k /\ c = i
        BY <1>6, <2>2, <2>3, <3>1, SameSlot
      <3> QED
        BY <3>2
    <2> QED
      BY <2>4, <2>5
  <1>9. Chunk(b, k - 1) = {i \in 0 .. w - 1 : i \in f[k]}
    BY <1>3, <1>7, <1>8 DEF Chunk
  <1>10. PICK p : p = Times(T, v[k], mult) /\ p \in Scalar(T) /\ f[k] = ToUint128(T, p)
    BY <1>1, <1>2
  <1>11. Element(b, k) = FromUint128(T, {i \in 0 .. w - 1 : i \in f[k]})
    BY <1>9 DEF Element
  <1>12. CASE T.kind = "gf128"
    <2>1. w = num_bits
      BY <1>3, <1>12, Widths
    <2>2. f[k] \subseteq 0 .. w - 1
      BY <1>2, <2>1 DEF Block, Bits
    <2>3. {i \in 0 .. w - 1 : i \in f[k]} = f[k]
      BY <2>2
    <2> QED
      BY <1>4, <1>10, <1>11, <1>12, <2>3 DEF FromUint128, ToUint128
  <1>13. CASE T.kind # "gf128"
    BY <1>3, <1>4, <1>10, <1>11, <1>13, Widths, RoundTrip DEF Supports
  <1> QED
    BY <1>12, <1>13

\* Congruent numbers have congruent multiples.
LEMMA ProductCongruent ==
  ASSUME NEW m \in Nat \ {0}, NEW a \in Int, NEW b \in Int, NEW c \in Int, Congruent(m, a, b)
  PROVE  Congruent(m, c * a, c * b)
  <1>1. PICK p, q, r : p = a \div m /\ q = b \div m /\ r = a % m
    OBVIOUS
  <1>2. p \in Int /\ q \in Int /\ r \in Int /\ a = m * p + r /\ b = m * q + r
    BY <1>1 DEF Congruent
  <1>3. c * (m * p + r) = c * r + m * (c * p)
    BY <1>2
  <1>4. c * (m * q + r) = c * r + m * (c * q)
    BY <1>2
  <1>5. PICK e \in Int, f \in Int, g \in Int : e = c * r /\ f = c * p /\ g = c * q
    BY <1>2
  <1>6. (e + m * f) % m = e % m
    BY ResidueOfSum
  <1>7. (e + m * g) % m = e % m
    BY ResidueOfSum
  <1>8. c * a = e + m * f /\ c * b = e + m * g
    BY <1>2, <1>3, <1>4, <1>5
  <1> QED
    BY <1>6, <1>7, <1>8 DEF Congruent

\* The carry-less product with zero and with one.
LEMMA CarrylessWithOne ==
  ASSUME NEW a \in Block
  PROVE  /\ Carryless(a, {}) = {} /\ Carryless({}, a) = {}
         /\ a \subseteq 0 .. half - 1 => Carryless(a, {0}) = a
  <1>1. ~Odd({}) /\ \A i : Odd({i})
    <2>1. Cardinality({}) = 0 /\ 0 % 2 = 0 /\ 1 % 2 = 1
      BY FS_EmptySet
    <2>2. \A i : Cardinality({i}) = 1
      BY FS_Singleton
    <2>3. ~Odd({})
      BY <2>1 DEF Odd
    <2>4. \A i : Odd({i})
      BY <2>1, <2>2 DEF Odd
    <2> QED
      BY <2>3, <2>4
  <1>2. \A n : Pairs(a, {}, n) = {} /\ Pairs({}, a, n) = {}
    BY DEF Pairs
  <1>3. Carryless(a, {}) = {} /\ Carryless({}, a) = {}
    <2>1. /\ Carryless(a, {}) = {n \in 0 .. num_bits - 2 : Odd(Pairs(a, {}, n))}
          /\ Carryless({}, a) = {n \in 0 .. num_bits - 2 : Odd(Pairs({}, a, n))}
      BY CarrylessIs
    <2> QED
      BY <1>1, <1>2, <2>1
  <1>4. ASSUME a \subseteq 0 .. half - 1
        PROVE  Carryless(a, {0}) = a
    <2>1. ASSUME NEW n \in 0 .. num_bits - 2
          PROVE  Odd(Pairs(a, {0}, n)) <=> n \in a
      <3>1. n \in Int /\ \A i \in a : i \in Int
        BY NumBitsRange, BlockFinite
      <3>2. \A i \in a : n - i = 0 <=> i = n
        BY <3>1
      <3>3. Pairs(a, {0}, n) = IF n \in a THEN {n} ELSE {}
        BY <3>2 DEF Pairs
      <3> QED
        BY <1>1, <3>3
    <2>2. a \subseteq 0 .. num_bits - 2
      BY <1>4, NumBitsRange
    <2> QED
      BY <2>1, <2>2, CarrylessIs
  <1> QED
    BY <1>3, <1>4

\* The block with bit 0 is the one of the field: so the wide product of gf128.h
\* by it is not reduced.
LEMMA MulOne ==
  ASSUME NEW a \in Block
  PROVE  Mul(a, {0}) = a
  <1>1. PICK la \in Block, ha \in Block : la = Low(a) /\ ha = High(a)
    BY HalvesType
  <1>2. la \subseteq 0 .. half - 1 /\ ha \subseteq 0 .. half - 1
    BY <1>1, NumBitsRange DEF Low, High, Block, Bits
  <1>3. {0} \in Block /\ {} \in Block /\ Low({0}) = {0} /\ High({0}) = {}
    BY NumBitsRange DEF Low, High, Block, Bits
  <1>11. /\ Carryless(la, {}) = {} /\ Carryless(ha, {}) = {}
         /\ Carryless(la, {0}) = la /\ Carryless(ha, {0}) = ha
    BY <1>2, CarrylessWithOne
  <1>4. Middle(a, {0}) = ha
    <2>1. Middle(a, {0}) = Add(Carryless(la, {}), Carryless(ha, {0}))
      BY <1>1, <1>3 DEF Middle
    <2> QED
      BY <1>11, <2>1, AddLaws
  <1>5. Low({}) = {} /\ High({}) = {} /\ ToHigh({}) = {} /\ High(ha) = {}
    BY <1>2 DEF Low, High, ToHigh
  <1>6. MulWide(a, {0}).high = {}
    <2>1. MulWide(a, {0}).high = Add(Carryless(High(a), High({0})), High(Middle(a, {0})))
      BY <1>3, MulWideIs
    <2>2. MulWide(a, {0}).high = Add({}, {})
      BY <1>1, <1>3, <1>4, <1>5, <1>11, <2>1
    <2> QED
      BY <2>2, AddLaws
  <1>7. MulWide(a, {0}).low = Add(la, ToHigh(ha))
    <2>1. MulWide(a, {0}).low = Add(Carryless(Low(a), Low({0})), ToHigh(Middle(a, {0})))
      BY <1>3, MulWideIs
    <2> QED
      BY <1>1, <1>3, <1>4, <1>11, <2>1
  <1>8. Add(la, ToHigh(ha)) = a
    <2>1. half \in Int /\ \A i \in a : i \in Int /\ i >= 0 /\ i < num_bits
      BY NumBitsRange DEF Block, Bits
    <2>2. Low(ha) = ha
      BY <1>2 DEF Low
    <2>3. \A i \in a : (i - half) + half = i
      BY <2>1
    <2>4. ToHigh(ha) = a \ (0 .. half - 1)
      <3>1. ha = {i - half : i \in a \ (0 .. half - 1)}
        BY <1>1 DEF High
      <3>2. ToHigh(ha) = {j + half : j \in ha}
        BY <2>2 DEF ToHigh
      <3> QED
        BY <2>3, <3>1, <3>2
    <2> QED
      BY <1>1, <2>4 DEF Add, SymDiff, Low
  <1>9. PICK p : p = MulWide(a, {0}) /\ p.high = {} /\ p.low = a
    BY <1>6, <1>7, <1>8
  <1>10. Reduce(p) = a
    <2>1. modulus_ \in Block
      BY FieldAssumption, NumBitsRange DEF Block, Bits, half
    <2>2. Carryless({}, modulus_) = {}
      BY <2>1, CarrylessWithOne
    <2> QED
      BY <1>5, <1>9, <2>2, AddLaws DEF Reduce
  <1> QED
    BY <1>9, <1>10, MulIs

\* SetBit(0) is the one of every type that elements are packed of.
LEMMA TimesOne ==
  ASSUME Supports, NEW v \in Scalar(T)
  PROVE  SetBit(T, 0) \in Scalar(T) /\ Times(T, v, SetBit(T, 0)) = v
  <1>1. SetBit(T, 0) \in Scalar(T)
    BY SetBitType, Widths
  <1>2. CASE T.kind = "gf128"
    <2>1. v \in Block
      BY <1>2 DEF Scalar
    <2>2. SetBit(T, 0) = {0} /\ Times(T, v, SetBit(T, 0)) = Mul(v, SetBit(T, 0))
      BY <1>2 DEF SetBit, Times
    <2>3. Mul(v, {0}) = v
      BY <2>1, MulOne
    <2> QED
      BY <1>1, <2>2, <2>3
  <1>3. CASE T.kind # "gf128"
    <2>1. PICK u \in Int : u = Wrap(T, 1) /\ Congruent(T.modulus, u, 1)
      BY <1>3, WrapIs DEF Supports
    <2>2. SetBit(T, 0) = u
      BY <1>3, <2>1 DEF SetBit
    <2>3. v \in Int /\ Wrap(T, v) = v
      BY <1>3, WrapScalar DEF Supports
    <2>4. T.modulus \in Nat \ {0}
      BY DEF Supports, TypeFacts
    <2>5. Congruent(T.modulus, v * u, v * 1)
      <3>1. PICK m \in Nat \ {0}, c \in Int, e \in Int : m = T.modulus /\ c = v /\ e = 1
        BY <2>3, <2>4
      <3>2. Congruent(m, u, e)
        BY <2>1, <3>1
      <3>3. Congruent(m, c * u, c * e)
        BY <3>2, ProductCongruent
      <3> QED
        BY <3>1, <3>3
    <2>6. v * 1 = v
      BY <2>3
    <2>7. Wrap(T, v * u) = Wrap(T, v)
      BY <2>5, <2>6, WrapCongruent
    <2> QED
      BY <1>1, <1>3, <2>2, <2>3, <2>7 DEF Times
  <1> QED
    BY <1>2, <1>3

\* Whatever is packed is a block: the shift drops what is beyond it.
LEMMA PackedType ==
  ASSUME NEW v, NEW mult
  PROVE  SpanToEMPBlock(v, mult) \in Block
  BY DEF SpanToEMPBlock, ShiftLeft, Block

\* The second message of a transfer holds the sums of the elements.
LEMMA CorrelatedElements ==
  ASSUME Supports, Packable, NEW d, NEW m0, NEW k \in 1 .. stride
  PROVE  Element(Correlated(d, m0), k) = Plus(T, Element(d, k), Element(m0, k))
  <1>1. PICK v : v = [j \in 1 .. stride |-> Plus(T, Element(d, j), Element(m0, j))]
    OBVIOUS
  <1>2. \A j : Plus(T, Element(d, j), Element(m0, j)) \in Scalar(T)
    BY ElementType, ScalarType DEF Supports
  <1>3. stride \in Nat
    BY Widths
  <1>4. v \in Seq(Scalar(T)) /\ Len(v) = stride
    BY <1>1, <1>2, <1>3
  <1>5. v[k] \in Scalar(T) /\ v[k] = Plus(T, Element(d, k), Element(m0, k))
    BY <1>1, <1>2
  <1>6. SetBit(T, 0) \in Scalar(T) /\ Times(T, v[k], SetBit(T, 0)) = v[k]
    BY <1>5, TimesOne
  <1>7. Element(SpanToEMPBlock(v, SetBit(T, 0)), k) = Times(T, v[k], SetBit(T, 0))
    BY <1>3, <1>4, <1>6, InPlace
  <1>8. Correlated(d, m0) = SpanToEMPBlock(v, SetBit(T, 0))
    BY <1>1 DEF Correlated
  <1> QED
    BY <1>5, <1>6, <1>7, <1>8

-----------------------------------------------------------------------------
(* What the shares of a product add up to.                                 *)

SumOn(f, S) == FoldFunctionOnSet(+, 0, f, S)
OddAt(f, S) == {k \in Bits : Odd({i \in S : k \in f[i]})}

\* The sum of elements: a parity for each bit, or a reduced sum of numbers.
LEMMA SumIs ==
  ASSUME NEW S, NEW V, NEW f \in [S -> V]
  PROVE  Sum(T, f) = IF T.kind = "gf128" THEN OddAt(f, S) ELSE Wrap(T, SumOn(f, S))
  <1>1. DOMAIN f = S
    OBVIOUS
  <1> QED
    BY <1>1 DEF Sum, OddAt, Odd, SumOn, FoldFunction

\* A sum of elements is an element.
LEMMA SumScalar ==
  ASSUME Supports, NEW S, IsFiniteSet(S), NEW f \in [S -> Scalar(T)]
  PROVE  Sum(T, f) \in Scalar(T)
  <1>1. CASE T.kind = "gf128"
    <2>1. Sum(T, f) = OddAt(f, S)
      BY <1>1, SumIs
    <2> QED
      BY <1>1, <2>1 DEF OddAt, Scalar, Block
  <1>2. CASE T.kind # "gf128"
    <2>1. \A j \in S : f[j] \in Int
      BY <1>2, WrapScalar DEF Supports
    <2>2. SumOn(f, S) \in Int
      BY <2>1, SumType DEF SumOn
    <2>3. Sum(T, f) = Wrap(T, SumOn(f, S))
      BY <1>2, SumIs
    <2> QED
      BY <1>2, <2>2, <2>3, WrapIs DEF Supports
  <1> QED
    BY <1>1, <1>2

\* Signs and differences of congruent numbers.
LEMMA DifferenceCongruent ==
  ASSUME NEW m \in Nat \ {0}, NEW a \in Int, NEW b \in Int, NEW c \in Int, NEW d \in Int,
         Congruent(m, a, c), Congruent(m, b, d)
  PROVE  Congruent(m, a - b, c - d)
  <1>1. PICK n \in Int : n = -1
    OBVIOUS
  <1>2. Congruent(m, n * b, n * d)
    BY ProductCongruent
  <1>3. PICK e \in Int, f \in Int : e = -b /\ f = -d
    OBVIOUS
  <1>4. n * b = e /\ n * d = f
    BY <1>1, <1>3
  <1>5. Congruent(m, e, f)
    BY <1>2, <1>4
  <1>6. Congruent(m, a + e, c + f)
    BY <1>5, ResidueOfTwo
  <1>7. a + e = a - b /\ c + f = c - d
    BY <1>3
  <1> QED
    BY <1>6, <1>7

\* The difference of the sums of two functions, as numbers ...
LEMMA NumberShares ==
  ASSUME Supports, T.kind # "gf128", NEW S, IsFiniteSet(S), NEW f \in [S -> Scalar(T)],
         NEW g \in [S -> Scalar(T)], NEW h \in [S -> Scalar(T)],
         \A j \in S : f[j] = Plus(T, h[j], g[j])
  PROVE  Plus(T, Minus(T, ZeroOf(T), Sum(T, g)), Plus(T, ZeroOf(T), Sum(T, f))) = Sum(T, h)
  <1>1. PICK m \in Nat \ {0} : m = T.modulus
    BY DEF Supports, TypeFacts
  <1>2. PICK s : s = [j \in S |-> h[j] + g[j]]
    OBVIOUS
  <1>3. \A j \in S : /\ f[j] \in Int /\ g[j] \in Int /\ h[j] \in Int
                     /\ s[j] \in Int /\ s[j] = h[j] + g[j]
    <2>1. \A j \in S : f[j] \in Int /\ g[j] \in Int /\ h[j] \in Int
      BY WrapScalar DEF Supports
    <2> QED
      BY <1>2, <2>1
  <1>4. \A j \in S : Congruent(m, f[j], s[j])
    <2> SUFFICES ASSUME NEW j \in S PROVE Congruent(m, f[j], s[j])
      OBVIOUS
    <2>1. f[j] = Wrap(T, s[j])
      BY <1>3 DEF Plus
    <2> QED
      BY <1>1, <1>3, <2>1, WrapIs DEF Supports
  <1>5. PICK A \in Int, B \in Int, C \in Int, D \in Int :
          A = SumOn(f, S) /\ B = SumOn(g, S) /\ C = SumOn(h, S) /\ D = SumOn(s, S)
    <2>1. SumOn(f, S) \in Int
      BY <1>3, SumType DEF SumOn
    <2>2. SumOn(g, S) \in Int
      BY <1>3, SumType DEF SumOn
    <2>3. SumOn(h, S) \in Int
      BY <1>3, SumType DEF SumOn
    <2>4. SumOn(s, S) \in Int
      BY <1>3, SumType DEF SumOn
    <2> QED
      BY <2>1, <2>2, <2>3, <2>4
  <1>6. Congruent(m, A, D)
    <2>1. Congruent(m, FoldFunctionOnSet(+, 0, f, S), FoldFunctionOnSet(+, 0, s, S))
      BY <1>3, <1>4, SumCongruent
    <2> QED
      BY <1>5, <2>1 DEF SumOn
  <1>7. D = C + B
    <2>1. FoldFunctionOnSet(+, 0, s, S) =
            FoldFunctionOnSet(+, 0, h, S) + FoldFunctionOnSet(+, 0, g, S)
      <3>1. \A x1 \in S : h[x1] \in Int /\ g[x1] \in Int /\ s[x1] = h[x1] + g[x1]
        BY <1>3
      <3> QED
        BY <3>1, SumOfTwo
    <2> QED
      BY <1>5, <2>1 DEF SumOn
  <1>8. PICK a \in Int, b \in Int : /\ a = Wrap(T, A) /\ Congruent(m, a, A)
                                    /\ b = Wrap(T, B) /\ Congruent(m, b, B)
    BY <1>1, WrapIs DEF Supports
  <1>9. PICK p \in Int, q \in Int : /\ p = Wrap(T, 0 - b) /\ Congruent(m, p, 0 - b)
                                    /\ q = Wrap(T, 0 + a) /\ Congruent(m, q, 0 + a)
    <2>1. 0 - b \in Int /\ 0 + a \in Int
      OBVIOUS
    <2> QED
      BY <1>1, <2>1, WrapIs DEF Supports
  <1>10. Congruent(m, p + q, C)
    <2>1. PICK e \in Int, k \in Int : e = 0 - b /\ k = 0 + a /\ Congruent(m, p, e) /\ Congruent(m, q, k)
      BY <1>9
    <2>2. Congruent(m, p + q, e + k)
      BY <2>1, ResidueOfTwo
    <2>3. e + k = a - b
      BY <2>1
    <2>4. Congruent(m, a, D)
      BY <1>6, <1>8 DEF Congruent
    <2>5. Congruent(m, a - b, D - B)
      BY <1>8, <2>4, DifferenceCongruent
    <2>6. D - B = C
      BY <1>7
    <2> QED
      BY <2>2, <2>3, <2>5, <2>6 DEF Congruent
  <1>11. Sum(T, f) = a /\ Sum(T, g) = b /\ Sum(T, h) = Wrap(T, C)
    BY <1>5, <1>8, SumIs
  <1>12. /\ Minus(T, ZeroOf(T), Sum(T, g)) = p
         /\ Plus(T, ZeroOf(T), Sum(T, f)) = q
    BY <1>9, <1>11 DEF Minus, Plus, ZeroOf
  <1>13. Plus(T, p, q) = Wrap(T, p + q)
    BY DEF Plus
  <1>14. Wrap(T, p + q) = Wrap(T, C)
    BY <1>1, <1>10, WrapCongruent
  <1> QED
    BY <1>11, <1>12, <1>13, <1>14

\* ... and as elements of the field.
LEMMA OddAtAdd ==
  ASSUME NEW S, IsFiniteSet(S), NEW f, NEW g, NEW h, \A j \in S : f[j] = Add(h[j], g[j])
  PROVE  OddAt(f, S) = Add(OddAt(h, S), OddAt(g, S))
  <1>1. ASSUME NEW k \in Bits
        PROVE  Odd({i \in S : k \in f[i]}) <=>
                 ~ (Odd({i \in S : k \in h[i]}) <=> Odd({i \in S : k \in g[i]}))
    <2>1. PICK A, B, C : /\ A = {i \in S : k \in h[i]} /\ B = {i \in S : k \in g[i]}
                         /\ C = {i \in S : k \in f[i]}
      OBVIOUS
    <2>2. C = SymDiff(A, B)
      BY <2>1 DEF Add, SymDiff
    <2>3. IsFiniteSet(A) /\ IsFiniteSet(B)
      BY <2>1, FS_Subset
    <2> QED
      <3>1. Odd(SymDiff(A, B)) <=> ~ (Odd(A) <=> Odd(B))
        BY <2>3, OddDiff
      <3>2. Odd(C) <=> ~ (Odd(A) <=> Odd(B))
        BY <2>2, <3>1
      <3> QED
        BY <2>1, <3>2
  <1> QED
    BY <1>1 DEF OddAt, Add, SymDiff

\* In the field the shares add up: the parity of a sum is the sum of parities.
LEMMA FieldShares ==
  ASSUME Supports, T.kind = "gf128", NEW S, IsFiniteSet(S), NEW f \in [S -> Scalar(T)],
         NEW g \in [S -> Scalar(T)], NEW h \in [S -> Scalar(T)],
         \A j \in S : f[j] = Plus(T, h[j], g[j])
  PROVE  Plus(T, Minus(T, ZeroOf(T), Sum(T, g)), Plus(T, ZeroOf(T), Sum(T, f))) = Sum(T, h)
  <1>1. PICK A, B, C : A = OddAt(f, S) /\ B = OddAt(g, S) /\ C = OddAt(h, S)
    OBVIOUS
  <1>2. A = Add(C, B)
    <2>1. \A j \in S : f[j] = Add(h[j], g[j])
      BY DEF Plus
    <2> QED
      BY <1>1, <2>1, OddAtAdd
  <1>3. Sum(T, f) = A /\ Sum(T, g) = B /\ Sum(T, h) = C
    BY <1>1, SumIs
  <1>4. Plus(T, Minus(T, ZeroOf(T), B), Plus(T, ZeroOf(T), A)) = Add(Add({}, B), Add({}, A))
    BY DEF Plus, Minus, ZeroOf, Zero
  <1>5. Add(Add({}, B), Add({}, A)) = Add(B, A)
    BY AddLaws
  <1>6. Add(B, Add(C, B)) = C
    BY DEF Add, SymDiff
  <1> QED
    BY <1>2, <1>3, <1>4, <1>5, <1>6

\* The f of each j in S is the h of j and the g of j.
HaveSummands(S, f, g, h) ==
  /\ IsFiniteSet(S) /\ f \in [S -> Scalar(T)]
  /\ g \in [S -> Scalar(T)] /\ h \in [S -> Scalar(T)]
  /\ \A j \in S : f[j] = Plus(T, h[j], g[j])

SharesSum(f, g, h) ==
  Plus(T, Minus(T, ZeroOf(T), Sum(T, g)), Plus(T, ZeroOf(T), Sum(T, f))) = Sum(T, h)

\* Additive shares: the vector provider's is minus the sum of its elements, the
\* value provider's the sum of its own.
LEMMA SharesAdd ==
  ASSUME Supports, NEW S, NEW f, NEW g, NEW h, HaveSummands(S, f, g, h)
  PROVE  SharesSum(f, g, h)
  <1>1. /\ IsFiniteSet(S) /\ f \in [S -> Scalar(T)]
        /\ g \in [S -> Scalar(T)] /\ h \in [S -> Scalar(T)]
        /\ \A j \in S : f[j] = Plus(T, h[j], g[j])
    BY DEF HaveSummands
  <1>2. CASE T.kind = "gf128"
    BY <1>1, <1>2, FieldShares DEF SharesSum
  <1>3. CASE T.kind # "gf128"
    BY <1>1, <1>3, NumberShares DEF SharesSum
  <1> QED
    BY <1>2, <1>3

\* What the transfers for the bits of u add up to.
Products(h, u, v) ==
  h = [j \in 1 .. bit_width |->
         IF GetBit(T, u, j - 1) THEN Times(T, v, SetBit(T, j - 1)) ELSE ZeroOf(T)]

\* The products with the powers of two are elements.
LEMMA ProductsType ==
  ASSUME Supports, NEW u, NEW v \in Scalar(T), NEW h, Products(h, u, v)
  PROVE  h \in [1 .. bit_width -> Scalar(T)]
  <1>1. ASSUME NEW j \in 1 .. bit_width
        PROVE  (IF GetBit(T, u, j - 1) THEN Times(T, v, SetBit(T, j - 1)) ELSE ZeroOf(T)) \in Scalar(T)
    <2>1. j - 1 \in 0 .. bit_width - 1
      BY Widths
    <2>2. SetBit(T, j - 1) \in Scalar(T)
      BY <2>1, SetBitType
    <2>3. Times(T, v, SetBit(T, j - 1)) \in Scalar(T) /\ ZeroOf(T) \in Scalar(T)
      BY <2>2, ScalarType DEF Supports
    <2> QED
      BY <2>3
  <1> QED
    BY <1>1 DEF Products

\* One of them, as a number: the product of v and the bit in its place.
LEMMA NumberProduct ==
  ASSUME Supports, T.kind # "gf128", NEW u \in Scalar(T), NEW v \in Scalar(T),
         NEW h, Products(h, u, v), NEW w \in 0 .. bit_width - 1, NEW m \in Nat \ {0}, m = T.modulus
  PROVE  h[w + 1] \in Int /\ v \in Int /\ Congruent(m, h[w + 1], v * ((2 ^ w) * BitAt(u, w)))
  <1>1. w \in Nat /\ w \in Bits /\ w + 1 \in 1 .. bit_width /\ (w + 1) - 1 = w
    BY Widths, NumBitsRange DEF Bits
  <1>2. v \in Int /\ u \in Int
    BY WrapScalar DEF Supports
  <1>3. h[w + 1] = IF GetBit(T, u, w) THEN Times(T, v, SetBit(T, w)) ELSE ZeroOf(T)
    BY <1>1 DEF Products
  <1>4. GetBit(T, u, w) <=> BitAt(u, w) = 1
    BY <1>1 DEF GetBit, ToUint128, BitAt
  <1>5. PICK p \in Int : p = 2 ^ w
    BY <1>1, TwoToAbove
  <1>6. CASE BitAt(u, w) = 1
    <2>1. PICK q \in Int : q = Wrap(T, p) /\ Congruent(m, q, p)
      BY <1>5, WrapIs DEF Supports
    <2>2. PICK r \in Int : r = v * q
      BY <1>2
    <2>3. Wrap(T, r) \in Int /\ Congruent(m, Wrap(T, r), r)
      BY <2>2, WrapIs DEF Supports
    <2>4. h[w + 1] = Wrap(T, r)
      <3>1. SetBit(T, w) = q
        BY <1>5, <2>1 DEF SetBit
      <3> QED
        BY <1>3, <1>4, <1>6, <2>2, <3>1 DEF Times
    <2>5. Congruent(m, v * q, v * p)
      BY <1>2, <2>1, ProductCongruent
    <2>6. p * 1 = p
      OBVIOUS
    <2>7. Congruent(m, h[w + 1], v * p)
      BY <2>2, <2>3, <2>4, <2>5 DEF Congruent
    <2> QED
      BY <1>2, <1>5, <1>6, <2>3, <2>4, <2>6, <2>7
  <1>7. CASE BitAt(u, w) = 0
    <2>1. h[w + 1] = 0
      BY <1>3, <1>4, <1>7 DEF ZeroOf
    <2>2. p * 0 = 0 /\ v * 0 = 0
      BY <1>2
    <2> QED
      BY <1>2, <1>5, <1>7, <2>1, <2>2 DEF Congruent
  <1>8. BitAt(u, w) \in 0 .. 1
    BY <1>1, <1>2, NextBit
  <1> QED
    BY <1>6, <1>7, <1>8

\* For numbers: x is the sum of its bits' powers of two, modulo the type's size.
LEMMA NumberProducts ==
  ASSUME Supports, T.kind # "gf128", NEW u \in Scalar(T), NEW v \in Scalar(T),
         NEW h, Products(h, u, v)
  PROVE  Sum(T, h) = Times(T, u, v)
  <1>1. PICK m \in Nat \ {0} : m = T.modulus
    BY DEF Supports, TypeFacts
  <1>2. PICK n \in Nat : n = bit_width /\ n = WidthOf(T)
    BY Widths
  <1>3. u \in Int /\ v \in Int
    BY WrapScalar DEF Supports
  <1>4. h \in [1 .. n -> Scalar(T)] /\ \A j \in 1 .. n : h[j] \in Int
    <2>1. h \in [1 .. n -> Scalar(T)]
      BY <1>2, ProductsType
    <2> QED
      BY <2>1, WrapScalar DEF Supports
  <1>5. PICK Q : Q = {w \in Nat : w <= n => Congruent(m, SumOn(h, 1 .. w), v * (u % (2 ^ w)))}
    OBVIOUS
  <1>6. 0 \in Q
    <2>1. SumOn(h, 1 .. 0) = 0
      <3>1. 1 .. 0 = {}
        OBVIOUS
      <3> QED
        BY <3>1, SumEmpty DEF SumOn
    <2>2. PICK p : p = 2 ^ 0
      OBVIOUS
    <2>3. p = 1 /\ u % p = 0 /\ v * 0 = 0
      BY <1>3, <2>2
    <2> QED
      BY <1>5, <2>1, <2>2, <2>3 DEF Congruent
  <1>7. ASSUME NEW w \in Nat, w \in Q PROVE w + 1 \in Q
    <2> SUFFICES ASSUME w + 1 <= n
                 PROVE  Congruent(m, SumOn(h, 1 .. w + 1), v * (u % (2 ^ (w + 1))))
      BY <1>5
    <2>1. w <= n /\ w \in 0 .. bit_width - 1 /\ w + 1 \in 1 .. n /\ 1 .. w + 1 \subseteq 1 .. n
      BY <1>2
    <2>2. Congruent(m, SumOn(h, 1 .. w), v * (u % (2 ^ w)))
      BY <1>5, <1>7, <2>1
    <2>3. PICK k \in Int : k = h[w + 1] /\ Congruent(m, k, v * ((2 ^ w) * BitAt(u, w)))
      BY <1>1, <2>1, NumberProduct
    <2>4. SumOn(h, 1 .. w + 1) = k + SumOn(h, 1 .. w) /\ SumOn(h, 1 .. w) \in Int
      <3>1. IsFiniteSet(1 .. w + 1) /\ IsFiniteSet(1 .. w) /\ \A j \in 1 .. w + 1 : h[j] \in Int
        <4>1. IsFiniteSet(1 .. w + 1) /\ IsFiniteSet(1 .. w)
          BY FS_Interval
        <4>2. \A j \in 1 .. w + 1 : h[j] \in Int
          BY <1>4, <2>1
        <4> QED
          BY <4>1, <4>2
      <3>2. w + 1 \in 1 .. w + 1 /\ (1 .. w + 1) \ {w + 1} = 1 .. w
        OBVIOUS
      <3>3. FoldFunctionOnSet(+, 0, h, 1 .. w + 1) =
              h[w + 1] + FoldFunctionOnSet(+, 0, h, (1 .. w + 1) \ {w + 1})
        BY <3>1, <3>2, SumRemove
      <3>4. FoldFunctionOnSet(+, 0, h, 1 .. w) \in Int
        <4>1. \A j \in 1 .. w : h[j] \in Int
          BY <3>1
        <4> QED
          BY <3>1, <4>1, SumType
      <3> QED
        BY <2>3, <3>2, <3>3, <3>4 DEF SumOn
    <2>5. PICK s \in Int, a \in Int, b \in Int, c \in Int :
            /\ s = SumOn(h, 1 .. w) /\ a = u % (2 ^ w) /\ b = (2 ^ w) * BitAt(u, w)
            /\ c = u % (2 ^ (w + 1)) /\ c = a + b
      <3>1. PICK p \in Nat \ {0} : p = 2 ^ w
        <4>1. PICK p : p = 2 ^ w
          OBVIOUS
        <4>2. p \in Nat /\ w + 1 <= p
          BY <4>1, TwoToAbove
        <4> QED
          BY <4>1, <4>2
      <3>2. PICK t : t = BitAt(u, w)
        OBVIOUS
      <3>3. t \in Int /\ u % (2 ^ (w + 1)) = (u % p) + p * t
        BY <1>3, <3>1, <3>2, NextBit
      <3>4. u % p \in Int /\ p * t \in Int
        BY <1>3, <3>1, <3>3
      <3> QED
        BY <2>4, <3>1, <3>2, <3>3, <3>4
    <2>6. PICK e \in Int, f \in Int : e = v * a /\ f = v * b /\ v * c = e + f
      <3>1. v \in Int /\ a \in Int /\ b \in Int /\ c = a + b
        BY <1>3, <2>5
      <3>2. v * (a + b) = v * a + v * b
        BY <3>1
      <3>3. v * a \in Int /\ v * b \in Int
        BY <3>1
      <3> QED
        BY <3>1, <3>2, <3>3
    <2>7. Congruent(m, s, e) /\ Congruent(m, k, f)
      BY <2>2, <2>3, <2>5, <2>6
    <2>8. Congruent(m, k + s, f + e)
      BY <2>7, ResidueOfTwo
    <2>9. f + e = e + f
      OBVIOUS
    <2> QED
      BY <2>4, <2>5, <2>6, <2>8, <2>9
  <1>8. \A w \in Nat : w \in Q
    BY <1>6, <1>7, NumberInduction
  <1>9. Congruent(m, SumOn(h, 1 .. n), v * (u % (2 ^ n)))
    BY <1>5, <1>8
  <1>10. PICK a \in Int : a = u % (2 ^ n) /\ Congruent(m, a, u)
    BY <1>1, <1>2, LowestBits DEF Supports
  <1>11. Congruent(m, v * a, v * u)
    BY <1>3, <1>10, ProductCongruent
  <1>12. Wrap(T, SumOn(h, 1 .. n)) = Wrap(T, v * u)
    BY <1>1, <1>9, <1>10, <1>11, WrapCongruent DEF Congruent
  <1>13. v * u = u * v
    BY <1>3
  <1>14. Sum(T, h) = Wrap(T, SumOn(h, 1 .. n))
    BY <1>4, SumIs
  <1> QED
    BY <1>12, <1>13, <1>14 DEF Times

\* The same for elements of the field.
LEMMA OddAtNext ==
  ASSUME NEW w \in Nat, NEW h, h[w + 1] \in Block
  PROVE  OddAt(h, 1 .. w + 1) = Add(OddAt(h, 1 .. w), h[w + 1])
  <1>1. ASSUME NEW k \in Bits
        PROVE  Odd({i \in 1 .. w + 1 : k \in h[i]}) <=>
                 ~ (Odd({i \in 1 .. w : k \in h[i]}) <=> k \in h[w + 1])
    <2>1. PICK A, B, C : /\ A = {i \in 1 .. w : k \in h[i]} /\ C = {i \in 1 .. w + 1 : k \in h[i]}
                         /\ B = IF k \in h[w + 1] THEN {w + 1} ELSE {}
      OBVIOUS
    <2>2. C = SymDiff(A, B)
      <3>1. \A i \in 1 .. w + 1 : i = w + 1 \/ i \in 1 .. w
        OBVIOUS
      <3>2. 1 .. w \subseteq 1 .. w + 1 /\ w + 1 \in 1 .. w + 1 /\ w + 1 \notin 1 .. w
        OBVIOUS
      <3> QED
        BY <2>1, <3>1, <3>2 DEF SymDiff
    <2>3. IsFiniteSet(A)
      BY <2>1, FS_Interval, FS_Subset
    <2>4. IsFiniteSet(B) /\ (Odd(B) <=> k \in h[w + 1])
      <3>1. Cardinality({}) = 0 /\ 0 % 2 = 0 /\ 1 % 2 = 1 /\ IsFiniteSet({})
        BY FS_EmptySet
      <3>2. Cardinality({w + 1}) = 1 /\ IsFiniteSet({w + 1})
        BY FS_Singleton
      <3> QED
        BY <2>1, <3>1, <3>2 DEF Odd
    <2>5. Odd(SymDiff(A, B)) <=> ~ (Odd(A) <=> Odd(B))
      BY <2>3, <2>4, OddDiff
    <2> QED
      BY <2>1, <2>2, <2>4, <2>5
  <1>2. h[w + 1] \subseteq Bits
    BY DEF Block
  <1> QED
    BY <1>1, <1>2 DEF OddAt, Add, SymDiff

\* For the field: x is the sum of its bits, and Mul distributes over sums.
LEMMA FieldProducts ==
  ASSUME Supports, T.kind = "gf128", NEW u \in Scalar(T), NEW v \in Scalar(T),
         NEW h, Products(h, u, v)
  PROVE  Sum(T, h) = Times(T, u, v)
  <1>1. PICK n \in Nat : n = bit_width /\ n = num_bits
    BY Widths
  <1>2. u \in Block /\ v \in Block /\ h \in [1 .. n -> Block]
    BY <1>1, ProductsType DEF Scalar
  <1>3. PICK Q : Q = {w \in Nat : w <= n => Mul(v, u \cap (0 .. w - 1)) = OddAt(h, 1 .. w)}
    OBVIOUS
  <1>4. 0 \in Q
    <2>1. 1 .. 0 = {} /\ u \cap (0 .. 0 - 1) = {}
      OBVIOUS
    <2>2. OddAt(h, {}) = {}
      <3>1. Cardinality({}) = 0 /\ 0 % 2 = 0
        BY FS_EmptySet
      <3>2. \A k : {i \in {} : k \in h[i]} = {}
        OBVIOUS
      <3> QED
        BY <3>1, <3>2 DEF OddAt, Odd
    <2>3. Mul(v, {}) = {}
      BY <1>2, MulLaws
    <2> QED
      BY <1>3, <2>1, <2>2, <2>3
  <1>5. ASSUME NEW w \in Nat, w \in Q PROVE w + 1 \in Q
    <2> SUFFICES ASSUME w + 1 <= n
                 PROVE  Mul(v, u \cap (0 .. (w + 1) - 1)) = OddAt(h, 1 .. w + 1)
      BY <1>3
    <2>1. w <= n /\ w + 1 \in 1 .. n /\ (w + 1) - 1 = w
      BY <1>1
    <2>2. PICK A, B, C : /\ A = u \cap (0 .. w - 1) /\ B = u \cap {w} /\ C = u \cap (0 .. w)
      OBVIOUS
    <2>3. A \in Block /\ B \in Block /\ C = Add(A, B)
      <3>1. \A i \in 0 .. w : i = w \/ i \in 0 .. w - 1
        OBVIOUS
      <3>2. 0 .. w - 1 \subseteq 0 .. w /\ w \in 0 .. w /\ w \notin 0 .. w - 1
        OBVIOUS
      <3> QED
        BY <1>2, <2>2, <3>1, <3>2 DEF Add, SymDiff, Block
    <2>4. Mul(v, C) = Add(Mul(v, A), Mul(v, B))
      BY <1>2, <2>3, MulLaws
    <2>5. Mul(v, A) = OddAt(h, 1 .. w)
      BY <1>3, <1>5, <2>1, <2>2
    <2>6. h[w + 1] = Mul(v, B) /\ h[w + 1] \in Block
      <3>1. h[w + 1] = IF w \in u THEN Mul(v, {w}) ELSE {}
        BY <1>1, <2>1 DEF Products, GetBit, ToUint128, Times, SetBit, ZeroOf, Zero
      <3>2. B = IF w \in u THEN {w} ELSE {}
        BY <2>2
      <3>3. Mul(v, {}) = {}
        BY <1>2, MulLaws
      <3> QED
        BY <1>2, <2>1, <3>1, <3>2, <3>3
    <2>7. OddAt(h, 1 .. w + 1) = Add(OddAt(h, 1 .. w), h[w + 1])
      BY <2>6, OddAtNext
    <2> QED
      BY <2>1, <2>2, <2>4, <2>5, <2>6, <2>7
  <1>6. \A w \in Nat : w \in Q
    BY <1>4, <1>5, NumberInduction
  <1>7. Mul(v, u \cap (0 .. n - 1)) = OddAt(h, 1 .. n)
    BY <1>3, <1>6
  <1>8. u \cap (0 .. n - 1) = u
    BY <1>1, <1>2 DEF Block, Bits
  <1>9. Sum(T, h) = OddAt(h, 1 .. n)
    BY <1>2, SumIs
  <1>10. Mul(v, u) = Mul(u, v)
    BY <1>2, MulLaws
  <1> QED
    BY <1>7, <1>8, <1>9, <1>10 DEF Times

\* The products of v and the bits of u add up to the product of u and v.
LEMMA SumOfProducts ==
  ASSUME Supports, NEW u \in Scalar(T), NEW v \in Scalar(T), NEW h, Products(h, u, v)
  PROVE  Sum(T, h) = Times(T, u, v)
  <1>1. CASE T.kind = "gf128"
    BY <1>1, FieldProducts
  <1>2. CASE T.kind # "gf128"
    BY <1>2, NumberProducts
  <1> QED
    BY <1>1, <1>2

-----------------------------------------------------------------------------
(* The inductive invariant: what each variable holds at each point.        *)

AllDeltas ==
  [i \in 1 .. NumOTs |-> SpanToEMPBlock(Group(GroupOf(i)), SetBit(T, BitOf(i)))]
AllChoices == [i \in 1 .. NumOTs |-> GetBit(T, x, BitOf(i))]
Zeros == [i \in 1 .. y_len |-> ZeroOf(T)]

Second(i, message) == IF AllChoices[i] THEN Correlated(AllDeltas[i], message) ELSE message
Transferred(random) ==
  [vector |-> [i \in 1 .. NumOTs |-> FirstMessage(random[i])],
   value |-> [i \in 1 .. NumOTs |-> Second(i, FirstMessage(random[i]))]]

Share(e, i) ==
  IF e = "vector" THEN Minus(T, ZeroOf(T), Total(e, i)) ELSE Plus(T, ZeroOf(T), Total(e, i))
Shares(e) == [i \in 1 .. y_len |-> Share(e, i)]

Prepared == {"ot", "sum", "done"}
After == {"sum", "done"}

InputsInv == \E input \in Inputs : T = input.T /\ y = input.y /\ x = input.x

ControlInv ==
  /\ pc \in [Ends -> {"start", "refused", "crashed", "ot", "sum", "done"}]
  /\ pc["vector"] \in Prepared \/ pc["value"] \in Prepared => ~TooLong
  /\ pc["vector"] \in After <=> pc["value"] \in After

PreparedInv ==
  /\ deltas = IF pc["vector"] \in Prepared THEN AllDeltas ELSE <<>>
  /\ choices = IF pc["value"] \in Prepared THEN AllChoices ELSE <<>>

TransfersInv ==
  IF pc["vector"] \in After THEN \E random \in Randomness : ot = Transferred(random)
  ELSE ot = [e \in Ends |-> <<>>]

OutputInv ==
  /\ DOMAIN output = Ends
  /\ \A e \in Ends : output[e] = CASE pc[e] \in {"ot", "sum"} -> Zeros
                                   [] pc[e] = "done" -> Shares(e)
                                   [] OTHER -> <<>>

Inv == InputsInv /\ ControlInv /\ PreparedInv /\ TransfersInv /\ OutputInv

\* What is known of the inputs.
LEMMA InputsAre ==
  ASSUME InputsInv
  PROVE  /\ TypeFacts(T) /\ x \in Scalar(T) /\ y \in Seq(Scalar(T)) /\ y_len \in Nat
         /\ \A random \in Randomness :
              \A i \in 1 .. WidthOf(T) * y_len : random[i] \in Block
  <1>1. PICK input \in Inputs : T = input.T /\ y = input.y /\ x = input.x
    BY DEF InputsInv
  <1>2. /\ IsScalarType(T) /\ x \in Scalar(T) /\ y \in Seq(Scalar(T))
        /\ \A random \in Randomness :
             \A i \in 1 .. T.SizeOf * ByteBits * Len(y) : random[i] \in Block
    BY <1>1, GilboaAssumption
  <1>3. TypeFacts(T)
    BY <1>2, TypesAre
  <1>4. y_len \in Nat /\ y_len = Len(y)
    BY <1>2 DEF y_len
  <1> QED
    BY <1>2, <1>3, <1>4 DEF WidthOf

\* The inputs stay the same, and so does what is computed from them.
LEMMA Frame ==
  ASSUME UNCHANGED <<T, y, x>>
  PROVE  /\ TooLong' = TooLong /\ AllDeltas' = AllDeltas /\ AllChoices' = AllChoices
         /\ Zeros' = Zeros /\ InputsInv' = InputsInv /\ NumOTs' = NumOTs /\ y_len' = y_len
         /\ \A random : Transferred(random)' = Transferred(random)
  <1>1. T' = T /\ y' = y /\ x' = x
    OBVIOUS
  <1>2. bit_width' = bit_width /\ stride' = stride /\ y_len' = y_len /\ TooLong' = TooLong
    BY <1>1 DEF bit_width, stride, y_len, TooLong
  <1>3. Groups' = Groups
    BY <1>2 DEF Groups
  <1>4. NumOTs' = NumOTs
    BY <1>2, <1>3 DEF NumOTs
  <1>5. \A i : GroupOf(i)' = GroupOf(i) /\ BitOf(i)' = BitOf(i) /\ Group(i)' = Group(i)
    BY <1>1, <1>2 DEF GroupOf, BitOf, Group
  <1>6. \A v, m : SpanToEMPBlock(v, m)' = SpanToEMPBlock(v, m)
    BY <1>1, <1>2 DEF SpanToEMPBlock
  <1>7. \A b, k : Element(b, k)' = Element(b, k)
    BY <1>1, <1>2 DEF Element, Chunk
  <1>8. AllDeltas' = AllDeltas
    BY <1>1, <1>4, <1>5, <1>6 DEF AllDeltas
  <1>9. AllChoices' = AllChoices
    BY <1>1, <1>4, <1>5 DEF AllChoices
  <1>10. \A d, m : Correlated(d, m)' = Correlated(d, m)
    BY <1>1, <1>2, <1>6, <1>7 DEF Correlated
  <1>11. \A b : FirstMessage(b)' = FirstMessage(b)
    <2>1. UseCorrelatedOT(y_len)' = UseCorrelatedOT(y_len)
      BY <1>1, <1>2 DEF UseCorrelatedOT
    <2>2. \A b : EMPBlockToSpan(b)' = EMPBlockToSpan(b)
      BY <1>2, <1>7 DEF EMPBlockToSpan
    <2> QED
      BY <1>1, <1>6, <2>1, <2>2 DEF FirstMessage
  <1>12. \A i, m : Second(i, m)' = Second(i, m)
    BY <1>8, <1>9, <1>10 DEF Second
  <1>13. \A random : Transferred(random)' = Transferred(random)
    BY <1>4, <1>11, <1>12 DEF Transferred
  <1>14. Zeros' = Zeros /\ InputsInv' = InputsInv
    BY <1>1, <1>2 DEF Zeros, InputsInv
  <1> QED
    BY <1>2, <1>4, <1>8, <1>9, <1>13, <1>14

\* The shares only depend on the inputs and on the blocks.
LEMMA FrameShares ==
  ASSUME UNCHANGED <<T, y, x, ot>>
  PROVE  \A e, i : Shares(e)' = Shares(e) /\ Total(e, i)' = Total(e, i)
  <1>1. T' = T /\ y' = y /\ ot' = ot
    OBVIOUS
  <1>2. bit_width' = bit_width /\ stride' = stride /\ y_len' = y_len
    BY <1>1 DEF bit_width, stride, y_len
  <1>3. \A b, k : Element(b, k)' = Element(b, k)
    BY <1>1, <1>2 DEF Element, Chunk
  <1>4. \A e, i : Total(e, i)' = Total(e, i)
    BY <1>1, <1>2, <1>3 DEF Total
  <1>5. \A e, i : Share(e, i)' = Share(e, i)
    BY <1>1, <1>4 DEF Share
  <1> QED
    BY <1>2, <1>4, <1>5 DEF Shares

\* A step of one end that changes neither the inputs nor the transfers, in parts.
LEMMA InvKept ==
  ASSUME Inv, UNCHANGED <<T, y, x, ot>>, ControlInv', pc'["vector"] \in After <=> pc["vector"] \in After,
         deltas' = IF pc'["vector"] \in Prepared THEN AllDeltas ELSE <<>>,
         choices' = IF pc'["value"] \in Prepared THEN AllChoices ELSE <<>>,
         DOMAIN output' = Ends,
         \A e \in Ends : output'[e] = CASE pc'[e] \in {"ot", "sum"} -> Zeros
                                        [] pc'[e] = "done" -> Shares(e)
                                        [] OTHER -> <<>>
  PROVE  Inv'
  <1>1. /\ AllDeltas' = AllDeltas /\ AllChoices' = AllChoices /\ Zeros' = Zeros
        /\ InputsInv' = InputsInv /\ \A random : Transferred(random)' = Transferred(random)
    BY Frame
  <1>2. \A e : Shares(e)' = Shares(e)
    BY FrameShares
  <1>3. InputsInv'
    BY <1>1 DEF Inv
  <1>4. PreparedInv'
    BY <1>1 DEF PreparedInv
  <1>5. TransfersInv'
    BY <1>1 DEF Inv, TransfersInv
  <1>6. OutputInv'
    BY <1>1, <1>2 DEF OutputInv
  <1> QED
    BY <1>3, <1>4, <1>5, <1>6 DEF Inv

\* Refuse keeps the invariant.
LEMMA RefuseInv ==
  ASSUME Inv, NEW e \in Ends, Refuse(e)
  PROVE  Inv'
  <1>1. /\ pc[e] = "start" /\ TooLong /\ pc' = [pc EXCEPT ![e] = "refused"]
        /\ UNCHANGED <<T, y, x, deltas, choices, ot, output>>
    BY DEF Refuse, Goto
  <1>2. ControlInv /\ PreparedInv /\ OutputInv /\ TooLong' = TooLong
    BY <1>1, Frame DEF Inv
  <1>3. /\ pc' \in [Ends -> {"start", "refused", "crashed", "ot", "sum", "done"}]
        /\ pc'[e] = "refused" /\ \A d \in Ends : d # e => pc'[d] = pc[d]
    BY <1>1, <1>2 DEF ControlInv
  <1>4. \A d \in Ends : (pc'[d] \in Prepared <=> pc[d] \in Prepared)
                        /\ (pc'[d] \in After <=> pc[d] \in After)
    BY <1>1, <1>3 DEF Prepared, After
  <1>5. ControlInv'
    BY <1>2, <1>3, <1>4 DEF ControlInv, Ends
  <1>6. /\ deltas' = IF pc'["vector"] \in Prepared THEN AllDeltas ELSE <<>>
        /\ choices' = IF pc'["value"] \in Prepared THEN AllChoices ELSE <<>>
    BY <1>1, <1>2, <1>4 DEF PreparedInv, Ends
  <1>7. /\ DOMAIN output' = Ends
        /\ \A d \in Ends : output'[d] = CASE pc'[d] \in {"ot", "sum"} -> Zeros
                                          [] pc'[d] = "done" -> Shares(d)
                                          [] OTHER -> <<>>
    BY <1>1, <1>2, <1>3 DEF OutputInv
  <1> QED
    BY <1>1, <1>4, <1>5, <1>6, <1>7, InvKept DEF Ends

\* PrepareDeltas keeps the invariant: the deltas are all computed at once.
LEMMA PrepareDeltasInv ==
  ASSUME Inv, PrepareDeltas
  PROVE  Inv'
  <1>1. /\ pc["vector"] = "start" /\ ~TooLong /\ pc' = [pc EXCEPT !["vector"] = "ot"]
        /\ deltas' = AllDeltas /\ output' = [output EXCEPT !["vector"] = Zeros]
        /\ UNCHANGED <<T, y, x, choices, ot>>
    BY DEF PrepareDeltas, Goto, AllDeltas, Zeros
  <1>2. ControlInv /\ PreparedInv /\ OutputInv /\ TooLong' = TooLong
    BY <1>1, Frame DEF Inv
  <1>3. /\ pc' \in [Ends -> {"start", "refused", "crashed", "ot", "sum", "done"}]
        /\ pc'["vector"] = "ot" /\ pc'["value"] = pc["value"]
    BY <1>1, <1>2 DEF ControlInv, Ends
  <1>4. ControlInv'
    BY <1>1, <1>2, <1>3 DEF ControlInv, Prepared, After
  <1>5. /\ deltas' = IF pc'["vector"] \in Prepared THEN AllDeltas ELSE <<>>
        /\ choices' = IF pc'["value"] \in Prepared THEN AllChoices ELSE <<>>
    BY <1>1, <1>2, <1>3 DEF PreparedInv, Prepared
  <1>6. /\ DOMAIN output' = Ends
        /\ \A d \in Ends : output'[d] = CASE pc'[d] \in {"ot", "sum"} -> Zeros
                                          [] pc'[d] = "done" -> Shares(d)
                                          [] OTHER -> <<>>
    BY <1>1, <1>2, <1>3 DEF OutputInv, Ends
  <1>7. pc'["vector"] \in After <=> pc["vector"] \in After
    BY <1>1, <1>3 DEF After
  <1> QED
    BY <1>1, <1>4, <1>5, <1>6, <1>7, InvKept

\* PrepareChoices keeps the invariant.
LEMMA PrepareChoicesInv ==
  ASSUME Inv, PrepareChoices
  PROVE  Inv'
  <1>1. /\ pc["value"] = "start" /\ ~TooLong /\ pc' = [pc EXCEPT !["value"] = "ot"]
        /\ choices' = AllChoices /\ output' = [output EXCEPT !["value"] = Zeros]
        /\ UNCHANGED <<T, y, x, deltas, ot>>
    BY DEF PrepareChoices, Goto, AllChoices, Zeros
  <1>2. ControlInv /\ PreparedInv /\ OutputInv /\ TooLong' = TooLong
    BY <1>1, Frame DEF Inv
  <1>3. /\ pc' \in [Ends -> {"start", "refused", "crashed", "ot", "sum", "done"}]
        /\ pc'["value"] = "ot" /\ pc'["vector"] = pc["vector"]
    BY <1>1, <1>2 DEF ControlInv, Ends
  <1>4. ControlInv'
    BY <1>1, <1>2, <1>3 DEF ControlInv, Prepared, After
  <1>5. /\ deltas' = IF pc'["vector"] \in Prepared THEN AllDeltas ELSE <<>>
        /\ choices' = IF pc'["value"] \in Prepared THEN AllChoices ELSE <<>>
    BY <1>1, <1>2, <1>3 DEF PreparedInv, Prepared
  <1>6. /\ DOMAIN output' = Ends
        /\ \A d \in Ends : output'[d] = CASE pc'[d] \in {"ot", "sum"} -> Zeros
                                          [] pc'[d] = "done" -> Shares(d)
                                          [] OTHER -> <<>>
    BY <1>1, <1>2, <1>3 DEF OutputInv, Ends
  <1> QED
    BY <1>1, <1>3, <1>4, <1>5, <1>6, InvKept

\* OverflowCount keeps the invariant: a crashed end never reaches the transfers.
LEMMA OverflowCountInv ==
  ASSUME Inv, OverflowCount
  PROVE  Inv'
  <1>1. /\ pc["value"] = "start" /\ pc' = [pc EXCEPT !["value"] = "crashed"]
        /\ UNCHANGED <<T, y, x, deltas, choices, ot, output>>
    BY DEF OverflowCount, Goto
  <1>2. ControlInv /\ PreparedInv /\ OutputInv /\ TooLong' = TooLong
    BY <1>1, Frame DEF Inv
  <1>3. /\ pc' \in [Ends -> {"start", "refused", "crashed", "ot", "sum", "done"}]
        /\ pc'["value"] = "crashed" /\ pc'["vector"] = pc["vector"]
    BY <1>1, <1>2 DEF ControlInv, Ends
  <1>4. ControlInv'
    BY <1>1, <1>2, <1>3 DEF ControlInv, Prepared, After
  <1>5. /\ deltas' = IF pc'["vector"] \in Prepared THEN AllDeltas ELSE <<>>
        /\ choices' = IF pc'["value"] \in Prepared THEN AllChoices ELSE <<>>
    BY <1>1, <1>2, <1>3 DEF PreparedInv, Prepared
  <1>6. /\ DOMAIN output' = Ends
        /\ \A d \in Ends : output'[d] = CASE pc'[d] \in {"ot", "sum"} -> Zeros
                                          [] pc'[d] = "done" -> Shares(d)
                                          [] OTHER -> <<>>
    BY <1>1, <1>2, <1>3 DEF OutputInv, Ends
  <1> QED
    BY <1>1, <1>3, <1>4, <1>5, <1>6, InvKept

\* RunOT keeps the invariant: both ends have prepared for as many transfers.
LEMMA RunOTInv ==
  ASSUME Inv, RunOT
  PROVE  Inv'
  <1>1. /\ pc["vector"] = "ot" /\ pc["value"] = "ot" /\ pc' = [e \in Ends |-> "sum"]
        /\ UNCHANGED <<T, y, x, deltas, choices, output>>
    BY DEF RunOT
  <1>2. /\ InputsInv /\ ControlInv /\ PreparedInv /\ OutputInv
        /\ AllDeltas' = AllDeltas /\ AllChoices' = AllChoices /\ Zeros' = Zeros
        /\ InputsInv' = InputsInv /\ TooLong' = TooLong
        /\ \A random : Transferred(random)' = Transferred(random)
    BY <1>1, Frame DEF Inv
  <1>3. deltas = AllDeltas /\ choices = AllChoices
    BY <1>1, <1>2 DEF PreparedInv, Prepared
  <1>4. DOMAIN deltas = 1 .. NumOTs /\ DOMAIN choices = 1 .. NumOTs
    BY <1>3 DEF AllDeltas, AllChoices
  <1>5. PICK random \in Randomness :
          ot' = [vector |-> [i \in DOMAIN deltas |-> FirstMessage(random[i])],
                 value |-> [i \in DOMAIN choices |->
                    IF choices[i] THEN Correlated(deltas[i], FirstMessage(random[i]))
                    ELSE FirstMessage(random[i])]]
    BY DEF RunOT
  <1>6. ot' = Transferred(random)
    BY <1>3, <1>4, <1>5 DEF Transferred, Second
  <1>7. /\ pc' \in [Ends -> {"start", "refused", "crashed", "ot", "sum", "done"}]
        /\ pc'["vector"] = "sum" /\ pc'["value"] = "sum"
    BY <1>1 DEF Ends
  <1>8. ControlInv'
    BY <1>1, <1>2, <1>7 DEF ControlInv, Prepared, After
  <1>9. PreparedInv'
    BY <1>1, <1>2, <1>3, <1>7 DEF PreparedInv, Prepared
  <1>10. TransfersInv'
    BY <1>2, <1>6, <1>7 DEF TransfersInv, After
  <1>11. OutputInv'
    BY <1>1, <1>2, <1>7 DEF OutputInv, Ends
  <1> QED
    BY <1>2, <1>8, <1>9, <1>10, <1>11 DEF Inv

\* AddUp keeps the invariant: the output becomes the shares of the blocks.
LEMMA AddUpInv ==
  ASSUME Inv, NEW e \in Ends, AddUp(e)
  PROVE  Inv'
  <1>1. /\ pc[e] = "sum" /\ pc' = [pc EXCEPT ![e] = "done"]
        /\ UNCHANGED <<T, y, x, deltas, choices, ot>>
    BY DEF AddUp, Goto
  <1>2. ControlInv /\ PreparedInv /\ OutputInv /\ TooLong' = TooLong
    BY <1>1, Frame DEF Inv
  <1>3. /\ pc' \in [Ends -> {"start", "refused", "crashed", "ot", "sum", "done"}]
        /\ pc'[e] = "done" /\ \A d \in Ends : d # e => pc'[d] = pc[d]
    BY <1>1, <1>2 DEF ControlInv
  <1>4. \A d \in Ends : (pc'[d] \in Prepared <=> pc[d] \in Prepared)
                        /\ (pc'[d] \in After <=> pc[d] \in After)
    BY <1>1, <1>3 DEF Prepared, After
  <1>5. ControlInv'
    BY <1>2, <1>3, <1>4 DEF ControlInv, Ends
  <1>6. /\ deltas' = IF pc'["vector"] \in Prepared THEN AllDeltas ELSE <<>>
        /\ choices' = IF pc'["value"] \in Prepared THEN AllChoices ELSE <<>>
    BY <1>1, <1>2, <1>4 DEF PreparedInv, Ends
  <1>7. output[e] = Zeros /\ DOMAIN output = Ends
    BY <1>1, <1>2 DEF OutputInv
  <1>8. output' = [output EXCEPT ![e] = Shares(e)]
    <2>1. output' = [output EXCEPT ![e] =
                       [i \in DOMAIN output[e] |->
                          IF e = "vector" THEN Minus(T, output[e][i], Total(e, i))
                          ELSE Plus(T, output[e][i], Total(e, i))]]
      BY DEF AddUp
    <2>2. DOMAIN Zeros = 1 .. y_len /\ \A i \in 1 .. y_len : Zeros[i] = ZeroOf(T)
      BY DEF Zeros
    <2>3. [i \in DOMAIN output[e] |->
             IF e = "vector" THEN Minus(T, output[e][i], Total(e, i))
             ELSE Plus(T, output[e][i], Total(e, i))] = Shares(e)
      BY <1>7, <2>2 DEF Shares, Share
    <2> QED
      BY <2>1, <2>3
  <1>9. /\ DOMAIN output' = Ends
        /\ \A d \in Ends : output'[d] = CASE pc'[d] \in {"ot", "sum"} -> Zeros
                                          [] pc'[d] = "done" -> Shares(d)
                                          [] OTHER -> <<>>
    BY <1>2, <1>3, <1>7, <1>8 DEF OutputInv
  <1> QED
    BY <1>1, <1>4, <1>5, <1>6, <1>9, InvKept DEF Ends

\* The initial states satisfy the invariant.
LEMMA InitInv == Init => Inv
  <1> SUFFICES ASSUME Init PROVE Inv
    OBVIOUS
  <1> USE DEF Init
  <1>1. InputsInv
    BY DEF InputsInv
  <1>2. \A e \in Ends : pc[e] = "start"
    OBVIOUS
  <1>3. pc["vector"] = "start" /\ pc["value"] = "start"
    BY <1>2 DEF Ends
  <1>4. ControlInv
    BY <1>3 DEF ControlInv, Prepared, After
  <1>5. PreparedInv
    BY <1>3 DEF PreparedInv, Prepared
  <1>6. TransfersInv
    BY <1>3 DEF TransfersInv, After
  <1>7. OutputInv
    BY <1>2 DEF OutputInv
  <1> QED
    BY <1>1, <1>4, <1>5, <1>6, <1>7 DEF Inv

\* A step that changes nothing keeps the invariant.
LEMMA StutterInv ==
  ASSUME Inv, UNCHANGED vars
  PROVE  Inv'
  <1>1. UNCHANGED <<T, y, x, ot>> /\ pc' = pc /\ deltas' = deltas /\ choices' = choices /\ output' = output
    BY DEF vars
  <1>2. TooLong' = TooLong
    BY <1>1, Frame
  <1>3. ControlInv'
    BY <1>1, <1>2 DEF Inv, ControlInv
  <1> QED
    BY <1>1, <1>3, InvKept DEF Inv, PreparedInv, OutputInv

\* The invariant holds in each state.
THEOREM Invariance == Spec => []Inv
  <1>1. ASSUME Inv, Next PROVE Inv'
    BY <1>1, RefuseInv, PrepareDeltasInv, PrepareChoicesInv, OverflowCountInv, RunOTInv, AddUpInv
    DEF Next
  <1>2. Inv /\ [Next]_vars => Inv'
    BY <1>1, StutterInv
  <1> QED
    BY <1>2, InitInv, PTL DEF Spec

-----------------------------------------------------------------------------
(* Types.                                                                  *)

\* A block holds an element at least.
LEMMA Counts ==
  ASSUME Supports, y_len \in Nat
  PROVE  /\ Groups \in Nat /\ Groups <= y_len /\ NumOTs \in Nat
         /\ stride * Groups <= y_len + stride - 1 /\ y_len + stride - 1 < stride * Groups + stride
         /\ NumOTs <= WidthOf(T) * y_len
  <1>1. PICK s \in Nat \ {0}, n \in Nat, w \in Nat \ {0} :
          s = stride /\ n = y_len /\ w = bit_width /\ w = WidthOf(T)
    BY Widths
  <1>2. PICK a \in Nat : a = n + s - 1
    BY <1>1
  <1>3. PICK q \in Nat : q = Groups /\ s * q <= a /\ a < s * q + s
    <2>1. a \div s \in Nat /\ s * (a \div s) <= a /\ a < s * (a \div s) + s
      BY Quotient
    <2> QED
      BY <1>1, <1>2, <2>1 DEF Groups
  <1>4. q <= n
    <2> SUFFICES ASSUME q >= n + 1 PROVE FALSE
      OBVIOUS
    <2>1. s * (n + 1) <= s * q /\ s * (n + 1) = s * n + s
      BY <1>1
    <2>2. 1 * n <= s * n
      BY <1>1
    <2>3. s * n \in Int /\ 1 * n = n
      BY <1>1
    <2> QED
      BY <1>1, <1>2, <1>3, <2>1, <2>2, <2>3
  <1>5. w * q \in Nat /\ w * q <= w * n
    BY <1>1, <1>4
  <1> QED
    BY <1>1, <1>2, <1>3, <1>4, <1>5 DEF NumOTs

\* A total is an element of the type.
LEMMA TotalType ==
  ASSUME Supports, NEW e, NEW i
  PROVE  Total(e, i) \in Scalar(T)
  <1>1. PICK f : f = [j \in 1 .. bit_width |->
          Element(ot[e][((i - 1) \div stride) * bit_width + j], ((i - 1) % stride) + 1)]
    OBVIOUS
  <1>2. f \in [1 .. bit_width -> Scalar(T)]
    BY <1>1, ElementType
  <1>3. IsFiniteSet(1 .. bit_width)
    BY Widths, FS_Interval
  <1>4. Sum(T, f) \in Scalar(T)
    BY <1>2, <1>3, SumScalar
  <1> QED
    BY <1>1, <1>4 DEF Total

\* The invariant implies the type invariant.
LEMMA InvType == Inv => TypeOK
  <1> SUFFICES ASSUME Inv PROVE TypeOK
    OBVIOUS
  <1>1. /\ TypeFacts(T) /\ x \in Scalar(T) /\ y \in Seq(Scalar(T)) /\ y_len \in Nat
        /\ \A random \in Randomness :
             \A i \in 1 .. WidthOf(T) * y_len : random[i] \in Block
    BY InputsAre DEF Inv
  <1>2. /\ T.kind \in {"unsigned", "signed", "modular", "gf128"}
        /\ \A i \in DOMAIN y : y[i] \in Scalar(T)
    BY <1>1 DEF TypeFacts
  <1>3. /\ pc \in [Ends -> {"start", "refused", "crashed", "ot", "sum", "done"}]
        /\ pc["vector"] \in Prepared \/ pc["value"] \in Prepared => Supports /\ NumOTs \in Nat
        /\ pc["vector"] \in After <=> pc["value"] \in After
    BY <1>1, Counts DEF Inv, ControlInv, Supports
  <1>4. deltas \in Seq(Block)
    <2>1. CASE pc["vector"] \in Prepared
      <3>1. \A i \in 1 .. NumOTs : SpanToEMPBlock(Group(GroupOf(i)), SetBit(T, BitOf(i))) \in Block
        BY PackedType
      <3>2. AllDeltas \in Seq(Block)
        BY <1>3, <2>1, <3>1 DEF AllDeltas
      <3> QED
        BY <2>1, <3>2 DEF Inv, PreparedInv
    <2>2. CASE pc["vector"] \notin Prepared
      BY <2>2 DEF Inv, PreparedInv
    <2> QED
      BY <2>1, <2>2
  <1>5. choices \in Seq(BOOLEAN)
    <2>1. CASE pc["value"] \in Prepared
      <3>1. \A i \in 1 .. NumOTs : GetBit(T, x, BitOf(i)) \in BOOLEAN
        BY DEF GetBit
      <3>2. AllChoices \in Seq(BOOLEAN)
        BY <1>3, <2>1, <3>1 DEF AllChoices
      <3> QED
        BY <2>1, <3>2 DEF Inv, PreparedInv
    <2>2. CASE pc["value"] \notin Prepared
      BY <2>2 DEF Inv, PreparedInv
    <2> QED
      BY <2>1, <2>2
  <1>6. \A e \in Ends : ot[e] \in Seq(Block)
    <2>1. CASE pc["vector"] \in After
      <3>1. Supports /\ NumOTs \in Nat /\ NumOTs <= WidthOf(T) * y_len
        BY <1>1, <1>3, <2>1, Counts DEF Prepared, After
      <3>2. PICK random \in Randomness : ot = Transferred(random)
        BY <2>1 DEF Inv, TransfersInv
      <3>3. \A i \in 1 .. NumOTs : random[i] \in Block
        <4>1. PICK n \in Nat, m \in Nat : n = NumOTs /\ m = WidthOf(T) * y_len /\ n <= m
          <5>1. WidthOf(T) * y_len \in Nat
            BY <1>1 DEF TypeFacts
          <5> QED
            BY <3>1, <5>1
        <4>2. 1 .. n \subseteq 1 .. m
          BY <4>1
        <4> QED
          BY <1>1, <4>1, <4>2
      <3>4. \A i \in 1 .. NumOTs : FirstMessage(random[i]) \in Block
        BY <3>3, PackedType DEF FirstMessage
      <3>5. \A i \in 1 .. NumOTs : Second(i, FirstMessage(random[i])) \in Block
        BY <3>4, PackedType DEF Second, Correlated
      <3>6. /\ ot["vector"] = [i \in 1 .. NumOTs |-> FirstMessage(random[i])]
            /\ ot["value"] = [i \in 1 .. NumOTs |-> Second(i, FirstMessage(random[i]))]
        BY <3>2 DEF Transferred
      <3>7. ot["vector"] \in Seq(Block)
        BY <3>1, <3>4, <3>6
      <3>8. ot["value"] \in Seq(Block)
        BY <3>1, <3>5, <3>6
      <3> QED
        BY <3>7, <3>8 DEF Ends
    <2>2. CASE pc["vector"] \notin After
      <3>1. ot = [e \in Ends |-> <<>>]
        BY <2>2 DEF Inv, TransfersInv
      <3>2. \A e \in Ends : ot[e] = <<>>
        BY <3>1
      <3>3. <<>> \in Seq(Block)
        OBVIOUS
      <3> QED
        BY <3>2, <3>3
    <2> QED
      BY <2>1, <2>2
  <1>7. ASSUME NEW e \in Ends, NEW i \in DOMAIN output[e]
        PROVE  output[e][i] \in Scalar(T)
    <2>1. output[e] = CASE pc[e] \in {"ot", "sum"} -> Zeros
                        [] pc[e] = "done" -> Shares(e)
                        [] OTHER -> <<>>
      BY DEF Inv, OutputInv
    <2>2. CASE pc[e] \in {"ot", "sum"}
      <3>1. output[e] = Zeros
        BY <2>1, <2>2
      <3>2. ZeroOf(T) \in Scalar(T)
        BY <1>1, ScalarType
      <3> QED
        BY <1>7, <3>1, <3>2 DEF Zeros
    <2>3. CASE pc[e] = "done"
      <3>1. output[e] = Shares(e)
        BY <2>1, <2>3
      <3>2. Supports
        BY <1>3, <2>3 DEF Prepared, Ends
      <3>3. ZeroOf(T) \in Scalar(T) /\ Total(e, i) \in Scalar(T)
        BY <1>1, <3>2, ScalarType, TotalType
      <3>4. Share(e, i) \in Scalar(T)
        BY <1>1, <3>3, ScalarType DEF Share
      <3> QED
        BY <1>7, <3>1, <3>4 DEF Shares
    <2>4. CASE pc[e] \notin {"ot", "sum", "done"}
      <3>1. output[e] = <<>>
        BY <2>1, <2>4
      <3> QED
        BY <1>7, <3>1
    <2> QED
      BY <2>2, <2>3, <2>4
  <1> QED
    BY <1>1, <1>2, <1>3, <1>4, <1>5, <1>6, <1>7 DEF TypeOK

\* Blocks are blocks, and shares are values of the type.
THEOREM TypeCorrect == Spec => []TypeOK
  BY Invariance, InvType, PTL

-----------------------------------------------------------------------------
(* The shares.                                                             *)

\* The loops start from zero, which adds nothing.
LEMMA PlusZero ==
  ASSUME TypeFacts(T), NEW v \in Scalar(T)
  PROVE  Plus(T, ZeroOf(T), v) = v
  <1>1. CASE T.kind = "gf128"
    BY <1>1, AddLaws DEF Plus, ZeroOf, Zero
  <1>2. CASE T.kind # "gf128"
    <2>1. v \in Int /\ Wrap(T, v) = v
      BY <1>2, WrapScalar
    <2>2. 0 + v = v
      BY <2>1
    <2> QED
      BY <1>2, <2>1, <2>2 DEF Plus, ZeroOf
  <1> QED
    BY <1>1, <1>2

Placed(i, j, g, k, t) ==
  /\ t \in 1 .. NumOTs /\ GroupOf(t) = g /\ BitOf(t) = j - 1
  /\ k \in 1 .. stride /\ k \in 1 .. Len(Group(g)) /\ Len(Group(g)) <= stride
  /\ Group(g) \in Seq(Scalar(T)) /\ Group(g)[k] = y[i]

\* Where element i and bit j are: in group g at place k, in transfer g * w + j.
LEMMA Place ==
  ASSUME Supports, y \in Seq(Scalar(T)), NEW i \in 1 .. y_len, NEW j \in 1 .. bit_width,
         NEW g, NEW k, NEW t, g = (i - 1) \div stride, k = ((i - 1) % stride) + 1,
         t = g * bit_width + j
  PROVE  Placed(i, j, g, k, t)
  <1>1. y_len \in Nat /\ y_len = Len(y)
    BY DEF y_len
  <1>2. PICK s \in Nat \ {0}, w \in Nat \ {0}, n \in Nat, q \in Nat :
          /\ s = stride /\ w = bit_width /\ n = y_len /\ q = Groups
          /\ s * q <= n + s - 1 /\ n + s - 1 < s * q + s
    BY <1>1, Widths, Counts
  <1>3. PICK a \in Nat : a = i - 1 /\ a < n
    BY <1>2
  <1>4. g \in Nat /\ k \in 1 .. s /\ a = s * g + (k - 1)
    <2>1. PICK d, r : d = a \div s /\ r = a % s
      OBVIOUS
    <2>2. d \in Int /\ r \in 0 .. s - 1 /\ a = s * d + r
      BY <2>1
    <2>3. d \in Nat
      BY <2>1, Quotient
    <2>4. g = d /\ k = r + 1
      BY <1>2, <1>3, <2>1
    <2> QED
      BY <2>2, <2>3, <2>4
  <1>5. g + 1 <= q
    <2> SUFFICES ASSUME q <= g PROVE FALSE
      BY <1>4
    <2>1. s * q <= s * g
      BY <1>2, <1>4
    <2>2. PICK u \in Int, v \in Int : u = s * q /\ v = s * g /\ u <= v
      BY <1>2, <1>4, <2>1
    <2>3. /\ u <= n + s - 1 /\ n + s - 1 < u + s
          /\ a = v + (k - 1)
      BY <1>2, <1>4, <2>2
    <2> QED
      BY <1>2, <1>3, <1>4, <2>2, <2>3
  <1>6. PICK z \in Nat : z = g * w /\ z + w <= w * q /\ w * q \in Nat
    <2>1. w * (g + 1) <= w * q /\ w * (g + 1) = w * g + w
      BY <1>2, <1>4, <1>5
    <2>2. w * g = g * w /\ g * w \in Nat /\ w * q \in Nat
      BY <1>2, <1>4
    <2> QED
      BY <2>1, <2>2
  <1>7. t = z + j /\ t \in 1 .. NumOTs
    <2>1. t = z + j
      BY <1>2, <1>6
    <2>2. PICK v \in Nat : v = w * q /\ z + w <= v
      BY <1>6
    <2>3. NumOTs = v
      BY <1>2, <2>2 DEF NumOTs
    <2>4. j \in 1 .. w
      BY <1>2
    <2>5. z + j \in 1 .. v
      BY <1>2, <1>6, <2>2, <2>4
    <2> QED
      BY <2>1, <2>3, <2>5
  <1>8. PICK c \in Nat, b \in 0 .. w - 1 : c = t - 1 /\ b = j - 1 /\ c = w * g + b
    <2>1. w * g = z
      BY <1>2, <1>4, <1>6
    <2>2. PICK c \in Nat, b \in 0 .. w - 1 : c = t - 1 /\ b = j - 1 /\ c = z + b
      <3>1. j \in 1 .. w /\ t = z + j /\ z \in Nat
        BY <1>2, <1>6, <1>7
      <3>2. t - 1 \in Nat /\ j - 1 \in 0 .. w - 1 /\ t - 1 = z + (j - 1)
        BY <1>2, <3>1
      <3> QED
        BY <3>2
    <2> QED
      BY <2>1, <2>2
  <1>9. c % w = b
    <2>1. w \in Nat \ {0} /\ c \in Int /\ g \in Int /\ b \in 0 .. w - 1 /\ c = w * g + b
      BY <1>2, <1>4, <1>8
    <2> QED
      BY <2>1, Residue
  <1>10. c \div w = g
    <2>1. w * g <= c /\ c < w * g + w
      <3>1. PICK v \in Int : v = w * g
        BY <1>2, <1>4
      <3>2. c = v + b /\ b \in Int /\ 0 <= b /\ b < w
        BY <1>2, <1>8, <3>1
      <3> QED
        BY <1>2, <1>8, <3>1, <3>2
    <2> QED
      BY <1>2, <1>4, <1>8, <2>1, Quotient
  <1>11. GroupOf(t) = g /\ BitOf(t) = j - 1
    BY <1>2, <1>8, <1>9, <1>10 DEF GroupOf, BitOf
  <1>12. PICK o \in Nat : o = g * s /\ o + k = i /\ o < n
    <2>1. s * g = g * s /\ g * s \in Nat
      BY <1>2, <1>4
    <2>2. PICK v \in Nat : v = g * s /\ a = v + (k - 1)
      BY <1>4, <2>1
    <2>3. v + k = i /\ v < n
      BY <1>2, <1>3, <1>4, <2>2
    <2> QED
      BY <2>2, <2>3
  <1>13. PICK l \in Nat : l = Min({s, n - o}) /\ l <= s /\ l <= n - o /\ (l = s \/ l = n - o)
    <2>1. PICK d \in Nat : d = n - o
      BY <1>12
    <2>2. PICK m : m = Min({s, d})
      OBVIOUS
    <2>3. \E m1 \in {s, d} : \A y1 \in {s, d} : m1 <= y1
      BY <2>1
    <2>4. m \in {s, d} /\ m <= s /\ m <= d
      BY <2>2, <2>3 DEF Min
    <2> QED
      BY <2>1, <2>2, <2>4
  <1>14. k <= l
    BY <1>2, <1>4, <1>12, <1>13
  <1>15. Group(g) = [p \in 1 .. l |-> y[o + p]]
    BY <1>2, <1>12, <1>13 DEF Group
  <1>16. \A p \in 1 .. l : y[o + p] \in Scalar(T)
    <2>1. \A p \in 1 .. l : o + p \in 1 .. Len(y)
      BY <1>1, <1>2, <1>12, <1>13
    <2>2. \A p \in 1 .. Len(y) : y[p] \in Scalar(T)
      OBVIOUS
    <2> QED
      BY <2>1, <2>2
  <1>17. Group(g) \in Seq(Scalar(T)) /\ Len(Group(g)) = l /\ Group(g)[k] = y[i]
    <2>1. Group(g) \in Seq(Scalar(T)) /\ Len(Group(g)) = l
      <3>1. PICK h, V : h = Group(g) /\ V = Scalar(T)
        OBVIOUS
      <3>2. h = [p \in 1 .. l |-> y[o + p]]
        BY <1>15, <3>1
      <3>3. \A p \in 1 .. l : h[p] \in V
        BY <1>16, <3>1, <3>2
      <3>4. l \in Nat /\ h \in [1 .. l -> V]
        BY <1>13, <3>2, <3>3
      <3>5. h \in Seq(V) /\ Len(h) = l
        BY <3>4
      <3> QED
        BY <3>1, <3>5
    <2>2. k \in 1 .. l
      BY <1>2, <1>4, <1>13, <1>14
    <2>3. Group(g)[k] = y[o + k]
      BY <1>15, <2>2
    <2> QED
      BY <1>12, <2>1, <2>3
  <1> QED
    BY <1>2, <1>4, <1>7, <1>11, <1>13, <1>14, <1>17 DEF Placed

\* The invariant implies that the outputs add up to the products.
LEMMA InvShares == Inv => SharesProduct
  <1> SUFFICES ASSUME Inv, \A e \in Ends : pc[e] = "done", Packable, NEW i \in DOMAIN y
               PROVE  Plus(T, output["vector"][i], output["value"][i]) = Times(T, x, y[i])
    BY DEF SharesProduct
  <1>1. /\ TypeFacts(T) /\ x \in Scalar(T) /\ y \in Seq(Scalar(T)) /\ y_len \in Nat
    BY InputsAre DEF Inv
  <1>2. pc["vector"] = "done" /\ pc["value"] = "done"
    BY DEF Ends
  <1>3. Supports
    BY <1>1, <1>2 DEF Supports, Inv, ControlInv, Prepared
  <1>4. i \in 1 .. y_len /\ y[i] \in Scalar(T)
    BY <1>1 DEF y_len
  <1>5. PICK random : ot = Transferred(random)
    BY <1>2 DEF Inv, TransfersInv, After
  <1>6. PICK g, k : g = (i - 1) \div stride /\ k = ((i - 1) % stride) + 1
    OBVIOUS
  <1>7. PICK fv, gv, hv : /\ fv = [j \in 1 .. bit_width |-> Element(ot["value"][g * bit_width + j], k)]
                          /\ gv = [j \in 1 .. bit_width |-> Element(ot["vector"][g * bit_width + j], k)]
                          /\ Products(hv, x, y[i])
    BY DEF Products
  <1>8. /\ fv \in [1 .. bit_width -> Scalar(T)] /\ gv \in [1 .. bit_width -> Scalar(T)]
        /\ hv \in [1 .. bit_width -> Scalar(T)]
    BY <1>3, <1>4, <1>7, ElementType, ProductsType
  <1>9. ASSUME NEW j \in 1 .. bit_width
        PROVE  fv[j] = Plus(T, hv[j], gv[j])
    <2>1. PICK t : t = g * bit_width + j
      OBVIOUS
    <2>2. /\ t \in 1 .. NumOTs /\ GroupOf(t) = g /\ BitOf(t) = j - 1
          /\ k \in 1 .. stride /\ k \in 1 .. Len(Group(g)) /\ Len(Group(g)) <= stride
          /\ Group(g) \in Seq(Scalar(T)) /\ Group(g)[k] = y[i]
      <3>1. Placed(i, j, g, k, t)
        BY <1>1, <1>3, <1>4, <1>6, <2>1, Place
      <3> QED
        BY <3>1 DEF Placed
    <2>3. PICK m0 : m0 = FirstMessage(random[t])
      OBVIOUS
    <2>4. ot["vector"][t] = m0 /\ ot["value"][t] = Second(t, m0)
      BY <1>5, <2>2, <2>3 DEF Transferred
    <2>5. fv[j] = Element(Second(t, m0), k) /\ gv[j] = Element(m0, k)
      BY <1>7, <2>1, <2>4
    <2>6. AllChoices[t] = GetBit(T, x, j - 1)
      BY <2>2 DEF AllChoices
    <2>7. hv[j] = IF GetBit(T, x, j - 1) THEN Times(T, y[i], SetBit(T, j - 1)) ELSE ZeroOf(T)
      BY <1>7 DEF Products
    <2>8. CASE GetBit(T, x, j - 1)
      <3>1. fv[j] = Plus(T, Element(AllDeltas[t], k), Element(m0, k))
        BY <1>3, <2>2, <2>5, <2>6, <2>8, CorrelatedElements DEF Second
      <3>2. AllDeltas[t] = SpanToEMPBlock(Group(g), SetBit(T, j - 1))
        BY <2>2 DEF AllDeltas
      <3>3. SetBit(T, j - 1) \in Scalar(T)
        <4>1. j - 1 \in 0 .. bit_width - 1
          BY <1>3, Widths
        <4> QED
          BY <1>3, <4>1, SetBitType
      <3>4. Element(AllDeltas[t], k) = Times(T, y[i], SetBit(T, j - 1))
        BY <1>3, <2>2, <3>2, <3>3, InPlace
      <3> QED
        BY <2>5, <2>7, <2>8, <3>1, <3>4
    <2>9. CASE ~GetBit(T, x, j - 1)
      <3>1. fv[j] = gv[j] /\ hv[j] = ZeroOf(T)
        BY <2>5, <2>6, <2>7, <2>9 DEF Second
      <3> QED
        BY <1>1, <1>8, <3>1, PlusZero
    <2> QED
      BY <2>8, <2>9
  <1>10. Total("vector", i) = Sum(T, gv) /\ Total("value", i) = Sum(T, fv)
    BY <1>6, <1>7 DEF Total
  <1>11. PICK S : S = 1 .. bit_width /\ IsFiniteSet(S)
    BY <1>3, Widths, FS_Interval
  <1>12. Plus(T, Minus(T, ZeroOf(T), Sum(T, gv)), Plus(T, ZeroOf(T), Sum(T, fv))) = Sum(T, hv)
    <2>1. fv \in [S -> Scalar(T)] /\ gv \in [S -> Scalar(T)] /\ hv \in [S -> Scalar(T)]
      BY <1>8, <1>11
    <2>2. \A j \in S : fv[j] = Plus(T, hv[j], gv[j])
      BY <1>9, <1>11
    <2>3. HaveSummands(S, fv, gv, hv)
      BY <1>11, <2>1, <2>2 DEF HaveSummands
    <2>4. SharesSum(fv, gv, hv)
      BY <1>3, <2>3, SharesAdd
    <2> QED
      BY <2>4 DEF SharesSum
  <1>13. Sum(T, hv) = Times(T, x, y[i])
    BY <1>1, <1>3, <1>4, <1>7, SumOfProducts
  <1>14. output["vector"] = Shares("vector") /\ output["value"] = Shares("value")
    BY <1>2 DEF Inv, OutputInv, Ends
  <1>15. /\ output["vector"][i] = Minus(T, ZeroOf(T), Total("vector", i))
         /\ output["value"][i] = Plus(T, ZeroOf(T), Total("value", i))
    BY <1>4, <1>14 DEF Shares, Share
  <1> QED
    BY <1>10, <1>12, <1>13, <1>15

\* For each of the types, whatever the vector and the scalar are and whatever the
\* blocks of the transfers are, the outputs of RunVectorProvider and
\* RunValueProvider add up to the products.
THEOREM SharesAreProduct == Spec => []SharesProduct
  BY Invariance, InvShares, PTL

-----------------------------------------------------------------------------
(* Masks.  The check of CanBeHashedInto is about the remainder of another  *)
(* number than that of the hash values; at the widths of WidthJudged it is *)
(* the same number, or the check fails where it matters.                   *)

\* The product of two powers of two.
LEMMA TwoToSum ==
  ASSUME NEW m \in Nat, NEW n \in Nat
  PROVE  2 ^ (m + n) = 2 ^ m * 2 ^ n
  <1>1. PICK P : P = {k \in Nat : 2 ^ (m + k) = 2 ^ m * 2 ^ k}
    OBVIOUS
  <1>2. 0 \in P
    <2>1. PICK p \in Nat : p = 2 ^ m
      BY TwoToNext
    <2>2. 2 ^ 0 = 1 /\ m + 0 = m /\ p * 1 = p
      OBVIOUS
    <2> QED
      BY <1>1, <2>1, <2>2
  <1>3. ASSUME NEW k \in Nat, k \in P PROVE k + 1 \in P
    <2>1. PICK p \in Nat, q \in Nat, r \in Nat : p = 2 ^ m /\ q = 2 ^ k /\ r = 2 ^ (m + k)
      BY TwoToNext
    <2>2. 2 ^ (k + 1) = 2 * q
      BY <2>1, TwoToNext
    <2>3. 2 ^ ((m + k) + 1) = 2 * r /\ (m + k) + 1 = m + (k + 1)
      <3>1. PICK j \in Nat : j = m + k
        OBVIOUS
      <3>2. 2 ^ (j + 1) = 2 * 2 ^ j
        BY TwoToNext
      <3> QED
        BY <2>1, <3>1, <3>2
    <2>4. r = p * q
      BY <1>1, <1>3, <2>1
    <2>5. 2 * (p * q) = p * (2 * q)
      OBVIOUS
    <2>6. 2 ^ (m + (k + 1)) = 2 ^ m * 2 ^ (k + 1)
      BY <2>1, <2>2, <2>3, <2>4, <2>5
    <2> QED
      BY <1>1, <2>6
  <1>4. n \in P
    BY <1>2, <1>3, NumberInduction
  <1> QED
    BY <1>1, <1>4

\* Powers of two grow with the exponent.
LEMMA TwoToGrows ==
  ASSUME NEW a \in Nat, NEW b \in Nat, a <= b
  PROVE  2 ^ a \in Nat /\ 2 ^ b \in Nat /\ 2 ^ a <= 2 ^ b
  <1>1. PICK d \in Nat : b = a + d
    <2>1. b - a \in Nat /\ b = a + (b - a)
      OBVIOUS
    <2> QED
      BY <2>1
  <1>2. 2 ^ a <= 2 ^ (a + d)
    BY TwoToMonotone
  <1> QED
    BY <1>1, <1>2, TwoToAbove

\* A number is even or odd.
LEMMA EvenOrOdd ==
  ASSUME NEW e \in Nat
  PROVE  \E g \in Nat : e = 2 * g \/ e = 2 * g + 1
  <1>1. PICK q, r : q = e \div 2 /\ r = e % 2
    OBVIOUS
  <1>2. q \in Nat /\ r \in 0 .. 1 /\ e = 2 * q + r
    BY <1>1
  <1> QED
    BY <1>2

Divides(m, a) == \E f \in Nat : m * f = a
OddNumber(m) == \E h \in Nat : m = 2 * h + 1

\* An odd number that divides an even one divides half of it.
LEMMA OddFactor ==
  ASSUME NEW m \in Nat, OddNumber(m), NEW p \in Nat, Divides(m, 2 * p)
  PROVE  Divides(m, p)
  <1>1. PICK e \in Nat : m * e = 2 * p
    BY DEF Divides
  <1>2. PICK h \in Nat : m = 2 * h + 1
    BY DEF OddNumber
  <1>3. PICK g \in Nat : e = 2 * g \/ e = 2 * g + 1
    BY EvenOrOdd
  <1>4. CASE e = 2 * g
    <2>1. m * (2 * g) = 2 * (m * g)
      OBVIOUS
    <2>2. PICK z \in Nat : z = m * g
      OBVIOUS
    <2>3. 2 * z = 2 * p
      BY <1>1, <1>4, <2>1, <2>2
    <2>4. m * g = p
      BY <2>2, <2>3
    <2> QED
      BY <2>4 DEF Divides
  <1>5. CASE e = 2 * g + 1
    <2>1. m * (2 * g + 1) = 2 * (2 * (h * g) + h + g) + 1
      BY <1>2
    <2>2. PICK z \in Nat : z = 2 * (h * g) + h + g
      OBVIOUS
    <2>3. 2 * z + 1 = 2 * p
      BY <1>1, <1>5, <2>1, <2>2
    <2> QED
      BY <2>3
  <1> QED
    BY <1>3, <1>4, <1>5

\* Half of an even divisor of an even number divides half of it, and conversely.
LEMMA EvenFactor ==
  ASSUME NEW h \in Nat, NEW p \in Nat
  PROVE  Divides(2 * h, 2 * p) <=> Divides(h, p)
  <1>1. ASSUME NEW e \in Nat PROVE (2 * h) * e = 2 * p <=> h * e = p
    <2>1. PICK z \in Nat : z = h * e
      OBVIOUS
    <2>2. (2 * h) * e = 2 * (h * e)
      OBVIOUS
    <2> QED
      BY <2>1, <2>2
  <1> QED
    BY <1>1 DEF Divides

\* A divisor of a power of two divides every smaller power that is not below it.
LEMMA DivisorOfPower ==
  \A k \in Nat : \A m \in Nat \ {0}, b \in Nat :
    Divides(m, 2 ^ k) /\ m <= 2 ^ b /\ b <= k => Divides(m, 2 ^ b)
  <1>1. PICK Q : Q = {k \in Nat : \A m \in Nat \ {0}, b \in Nat :
                        Divides(m, 2 ^ k) /\ m <= 2 ^ b /\ b <= k => Divides(m, 2 ^ b)}
    OBVIOUS
  <1>2. 0 \in Q
    <2>1. ASSUME NEW m \in Nat \ {0}, NEW b \in Nat, Divides(m, 2 ^ 0), b <= 0
          PROVE  Divides(m, 2 ^ b)
      <3>1. b = 0
        BY <2>1
      <3> QED
        BY <2>1, <3>1
    <2> QED
      BY <1>1, <2>1
  <1>3. ASSUME NEW k \in Nat, k \in Q PROVE k + 1 \in Q
    <2>1. \A m \in Nat \ {0}, b \in Nat :
            Divides(m, 2 ^ k) /\ m <= 2 ^ b /\ b <= k => Divides(m, 2 ^ b)
      BY <1>1, <1>3
    <2>2. PICK p \in Nat : p = 2 ^ k /\ 2 ^ (k + 1) = 2 * p
      BY TwoToNext
    <2>3. ASSUME NEW m \in Nat \ {0}, NEW b \in Nat,
                 Divides(m, 2 ^ (k + 1)), m <= 2 ^ b, b <= k + 1
          PROVE  Divides(m, 2 ^ b)
      <3>1. CASE b = k + 1
        BY <2>3, <3>1
      <3>2. CASE b <= k
        <4>1. PICK h \in Nat : m = 2 * h \/ m = 2 * h + 1
          BY EvenOrOdd
        <4>2. CASE m = 2 * h
          <5>1. h \in Nat \ {0} /\ m > 1
            BY <4>2
          <5>2. Divides(h, p)
            <6>1. Divides(2 * h, 2 * p)
              BY <2>2, <2>3, <4>2
            <6> QED
              BY <6>1, EvenFactor
          <5>3. b # 0
            <6>1. PICK u : u = 2 ^ 0
              OBVIOUS
            <6>2. u = 1
              BY <6>1
            <6>3. ASSUME b = 0 PROVE m <= u
              BY <2>3, <6>1, <6>3
            <6> QED
              BY <5>1, <6>2, <6>3
          <5>4. PICK c \in Nat : b = c + 1
            <6>1. b - 1 \in Nat /\ b = (b - 1) + 1
              BY <5>3
            <6> QED
              BY <6>1
          <5>5. PICK v \in Nat : v = 2 ^ c /\ 2 ^ b = 2 * v
            BY <5>4, TwoToNext
          <5>6. h <= v /\ c <= k
            BY <2>3, <3>2, <4>2, <5>4, <5>5
          <5>7. Divides(h, v)
            BY <2>1, <2>2, <5>1, <5>2, <5>5, <5>6
          <5>8. Divides(2 * h, 2 * v)
            BY <5>7, EvenFactor
          <5> QED
            BY <4>2, <5>5, <5>8
        <4>3. CASE m = 2 * h + 1
          <5>1. OddNumber(m) /\ Divides(m, 2 * p)
            BY <2>2, <2>3, <4>3 DEF OddNumber
          <5>2. Divides(m, p)
            BY <5>1, OddFactor
          <5> QED
            BY <2>1, <2>2, <2>3, <3>2, <5>2
        <4> QED
          BY <4>1, <4>2, <4>3
      <3> QED
        BY <2>3, <3>1, <3>2
    <2> QED
      BY <1>1, <2>3
  <1>4. \A k \in Nat : k \in Q
    BY <1>2, <1>3, NumberInduction
  <1> QED
    BY <1>1, <1>4

\* A modulus has more than the bits that fit into one byte less than its width.
LEMMA ModulusAbove ==
  ASSUME NEW t, IsScalarType(t), t.kind = "modular",
         NEW b \in Nat, b + ByteBits <= WidthOf(t)
  PROVE  2 ^ b < t.modulus
  <1>1. PICK n \in Nat : n = t.modulus - 1 /\ t.modulus \in Nat
    BY DEF IsScalarType
  <1>2. t.SizeOf = (NumBits(n) + ByteBits - 1) \div ByteBits
    BY <1>1 DEF IsScalarType, unsigned, signed, modular, gf128, Type
  <1>3. PICK k \in Nat, s \in Nat \ {0}, d \in Nat \ {0} :
          k = NumBits(n) /\ s = t.SizeOf /\ d = ByteBits
    BY <1>1, NumBitsIs, BytesAre DEF IsScalarType
  <1>4. PICK a \in Nat : a = k + d - 1
    BY <1>3
  <1>5. d * s <= a
    BY <1>2, <1>3, <1>4, Quotient
  <1>6. WidthOf(t) = d * s
    BY <1>3 DEF WidthOf
  <1>7. b \in 0 .. k - 1
    BY <1>3, <1>4, <1>5, <1>6
  <1>8. 2 ^ b <= n /\ 2 ^ b \in Nat
    BY <1>1, <1>3, <1>7, NumBitsIs, TwoToAbove
  <1> QED
    BY <1>1, <1>8

\* What the check takes for the number of hash values.
Taken(w) == IF w < num_bits THEN num_bits - w ELSE num_bits

\* The remainder of the check is that of a power of two.
LEMMA RemainderIs ==
  ASSUME NEW t, t.modulus \in Nat \ {0, 1}, NEW w \in Nat \ {0}, w <= num_bits
  PROVE  /\ Taken(w) \in Nat /\ 2 ^ Taken(w) \in Nat
         /\ Remainder(t, w) = (2 ^ Taken(w)) % t.modulus
  <1>1. PICK m \in Nat \ {0, 1} : m = t.modulus
    OBVIOUS
  <1>2. PICK z \in Nat : z = Taken(w)
    <2>1. PICK n \in Nat : n = num_bits
      BY NumBitsRange
    <2>2. n - w \in Nat
      BY <2>1
    <2>3. Taken(w) \in Nat
      BY <2>1, <2>2 DEF Taken
    <2> QED
      BY <2>3
  <1>3. PICK p \in Nat : p = 2 ^ z /\ p >= 1
    <2>1. 2 ^ z \in Nat /\ z + 1 <= 2 ^ z
      BY <1>2, TwoToAbove
    <2> QED
      BY <1>2, <2>1
  <1>4. max_value(w) = p - 1
    BY <1>2, <1>3 DEF max_value, Taken
  <1>5. PICK v \in Nat : v = p - 1
    BY <1>3
  <1>6. PICK a, e : a = v % m /\ e = v \div m
    OBVIOUS
  <1>7. a \in 0 .. m - 1 /\ e \in Int /\ v = m * e + a
    BY <1>6
  <1>8. PICK b \in Int : b = a + 1
    BY <1>7
  <1>9. (b + m * e) % m = b % m
    BY <1>7, ResidueOfSum
  <1>10. b + m * e = p
    BY <1>5, <1>7, <1>8
  <1>11. Remainder(t, w) = p % m
    BY <1>1, <1>4, <1>5, <1>6, <1>8, <1>9, <1>10 DEF Remainder
  <1> QED
    BY <1>1, <1>2, <1>3, <1>11

\* For residues wider than half a block and narrower than one, CanBeHashedInto looks
\* at the width, the number of elements and the security only: every modulus leaves
\* the same remainder of 2^(num_bits - width), which is below each of them
\* (internal/scalar_helpers.h:134).
THEOREM CheckIgnoresModulus ==
  ASSUME NEW t, IsScalarType(t), t.kind = "modular",
         NEW width, width = t.SizeOf * ByteBits, half < width, width < num_bits,
         NEW draws \in Nat, NEW security \in Nat
  PROVE  CanBeHashedInto(t, draws, security, width) <=>
           2 ^ width > 2 ^ (num_bits - width) * draws * 2 ^ security
  <1>1. TypeFacts(t)
    BY TypesAre
  <1>2. PICK m \in Nat \ {0, 1}, s \in Nat \ {0}, d \in Nat \ {0}, c \in Nat \ {0}, h \in Nat, n \in Nat :
          /\ m = t.modulus /\ s = t.SizeOf /\ d = ByteBits /\ c = BlockBytes
          /\ h = half /\ n = num_bits /\ n = 2 * h /\ n = d * c
    BY <1>1, BytesAre, NumBitsRange DEF TypeFacts
  <1>3. PICK w \in Nat \ {0} : w = width /\ w = s * d /\ WidthOf(t) = w /\ h < w /\ w < n
    BY <1>2 DEF WidthOf
  <1>4. n - w \in Nat /\ (n - w) + d <= w
    <2>1. c < 2 * s
      <3> SUFFICES ASSUME 2 * s <= c PROVE FALSE
        BY <1>2
      <3>1. d * (2 * s) <= d * c
        BY <1>2
      <3>2. d * (2 * s) = 2 * (s * d)
        BY <1>2
      <3> QED
        BY <1>2, <1>3, <3>1, <3>2
    <2>2. c + 1 <= 2 * s
      BY <1>2, <2>1
    <2>3. d * (c + 1) <= d * (2 * s)
      BY <1>2, <2>2
    <2>4. d * (c + 1) = n + d /\ d * (2 * s) = 2 * w
      <3>1. d * (c + 1) = d * c + d /\ d * (2 * s) = 2 * (s * d)
        BY <1>2
      <3> QED
        BY <1>2, <1>3, <3>1
    <2> QED
      BY <1>2, <1>3, <2>3, <2>4
  <1>5. PICK k \in Nat, p \in Nat, q \in Nat : k = n - w /\ p = 2 ^ k /\ q = 2 ^ n
    BY <1>2, <1>4, TwoToAbove
  <1>6. p < m
    BY <1>1, <1>2, <1>3, <1>4, <1>5, ModulusAbove
  <1>7. Remainder(t, w) = p
    <2>1. Remainder(t, w) = (2 ^ Taken(w)) % m
      BY <1>2, <1>3, RemainderIs
    <2>2. Taken(w) = k
      BY <1>2, <1>3, <1>5 DEF Taken
    <2>3. p % m = p
      BY <1>2, <1>5, <1>6
    <2> QED
      BY <1>5, <2>1, <2>2, <2>3
  <1>8. m % q # 0
    <2>1. PICK u \in Nat : u = 2 ^ w /\ m <= u
      BY <1>1, <1>2, <1>3, TwoToAbove DEF TypeFacts
    <2>2. u < q
      <3>1. PICK v \in Nat : v = 2 ^ (w + 1) /\ v = 2 * u
        BY <1>3, <2>1, TwoToNext
      <3>2. v <= q
        <4>1. w + 1 \in Nat /\ w + 1 <= n
          BY <1>2, <1>3
        <4> QED
          BY <1>2, <1>5, <3>1, <4>1, TwoToGrows
      <3>3. u # 0
        BY <1>2, <2>1
      <3> QED
        BY <1>5, <2>1, <3>1, <3>2, <3>3
    <2>3. m % q = m
      BY <1>2, <1>5, <2>1, <2>2
    <2> QED
      BY <1>2, <2>3
  <1>9. CanBeHashedInto(t, draws, security, w) <=> 2 ^ w > p * draws * 2 ^ security
    BY <1>2, <1>5, <1>7, <1>8 DEF CanBeHashedInto
  <1> QED
    BY <1>2, <1>3, <1>5, <1>9

\* A small surplus, or none, makes no set of residues much more likely.
LEMMA SmallSurplus ==
  ASSUME NEW m \in Nat \ {0}, NEW r \in 0 .. m - 1, NEW k \in Nat, NEW c \in Nat, NEW p \in Nat,
         r = 0 \/ k = 0 \/ r * k * c < p
  PROVE  k * r * (m - r) * c <= m * p
  <1>1. PICK z \in Nat : z = r * k * c
    <2>1. r * k \in Nat
      OBVIOUS
    <2>2. r * k * c \in Nat
      BY <2>1
    <2> QED
      BY <2>2
  <1>2. z <= p
    <2>1. CASE r = 0 \/ k = 0
      <3>1. r * k = 0
        BY <2>1
      <3>2. 0 * c = 0
        OBVIOUS
      <3> QED
        BY <1>1, <3>1, <3>2
    <2>2. CASE r * k * c < p
      BY <1>1, <2>2
    <2> QED
      BY <2>1, <2>2
  <1>3. PICK d \in Nat : d = m - r /\ d <= m
    OBVIOUS
  <1>4. k * r * d * c = z * d
    <2>1. k * r = r * k
      OBVIOUS
    <2>2. PICK e \in Nat : e = r * k
      OBVIOUS
    <2>3. (e * d) * c = (e * c) * d
      BY <1>3, <2>2
    <2> QED
      BY <1>1, <2>1, <2>2, <2>3
  <1>5. z * d <= p * d
    BY <1>1, <1>2, <1>3
  <1>6. p * d <= p * m
    BY <1>3
  <1>7. z * d \in Nat /\ p * d \in Nat /\ p * m \in Nat /\ p * m = m * p
    BY <1>1, <1>3
  <1> QED
    BY <1>3, <1>4, <1>5, <1>6, <1>7

\* The invariant implies that the blocks are uniform enough to mask elements.
LEMMA InvMasks == Inv => MasksUniform
  <1> SUFFICES ASSUME Inv, HashedMasks, WidthJudged
               PROVE  NearlyUniform
    BY DEF MasksUniform
  <1>1. /\ TypeFacts(T) /\ y_len \in Nat /\ IsScalarType(T)
        /\ T.kind = "modular" /\ UseCorrelatedOT(y_len)
    <2>1. TypeFacts(T) /\ y_len \in Nat
      BY InputsAre DEF Inv
    <2>2. IsScalarType(T)
      BY GilboaAssumption DEF Inv, InputsInv
    <2> QED
      BY <2>1, <2>2 DEF HashedMasks
  <1>2. Supports
    BY <1>1 DEF Supports, Inv, ControlInv, Prepared, Ends, HashedMasks
  <1>3. PICK m \in Nat \ {0, 1}, w \in Nat \ {0}, n \in Nat, h \in Nat, s \in Nat, k \in Nat :
          /\ m = T.modulus /\ w = bit_width /\ n = num_bits /\ h = half /\ n = 2 * h /\ h # 0
          /\ s = statistical_security_ /\ k = y_len /\ w <= n
    BY <1>1, <1>2, Widths, NumBitsRange, GilboaAssumption DEF TypeFacts
  <1>4. PICK p \in Nat, q \in Nat, c \in Nat : p = 2 ^ w /\ q = 2 ^ n /\ c = 2 ^ s
    BY <1>3, TwoToAbove
  <1>5. m <= p /\ p <= q
    <2>1. m <= p
      BY <1>1, <1>2, <1>3, <1>4, Widths DEF TypeFacts
    <2>2. p <= q
      BY <1>3, <1>4, TwoToGrows
    <2> QED
      BY <2>1, <2>2
  <1>6. PICK r \in 0 .. m - 1 : r = p % m
    BY <1>3, <1>4
  <1>7. PICK z \in Nat, N \in Nat : z = Taken(w) /\ N = 2 ^ z /\ Remainder(T, w) = N % m
    BY <1>3, RemainderIs
  <1>8. PICK R \in 0 .. m - 1 : R = N % m
    BY <1>3, <1>7
  <1>9. m % q = 0 \/ p > R * k * c
    BY <1>1, <1>3, <1>4, <1>7, <1>8 DEF UseCorrelatedOT, CanBeHashedInto
  <1>10. R * k * c \in Nat
    <2>1. R * k \in Nat
      BY <1>3, <1>8
    <2> QED
      BY <1>4, <2>1
  <1>11. r = 0 \/ k = 0 \/ r * k * c < p
    <2>1. CASE m % q = 0
      <3>1. m >= q
        <4> SUFFICES ASSUME m < q PROVE FALSE
          BY <1>3, <1>4
        <4>1. m % q = m
          BY <1>3, <1>4
        <4> QED
          BY <1>3, <2>1, <4>1
      <3>2. m = p
        BY <1>3, <1>4, <1>5, <3>1
      <3> QED
        BY <1>3, <1>6, <3>2
    <2>2. CASE p > R * k * c /\ w \in {h, n}
      <3>1. z = w
        <4>1. Taken(w) = IF w < n THEN n - w ELSE n
          BY <1>3 DEF Taken
        <4> QED
          BY <1>3, <1>7, <2>2, <4>1
      <3>2. R = r
        BY <1>4, <1>6, <1>7, <1>8, <3>1
      <3> QED
        BY <2>2, <3>2
    <2>3. CASE p > R * k * c /\ w < h /\ w <= s
      <3>1. p <= c
        BY <1>3, <1>4, <2>3, TwoToGrows
      <3>2. R = 0 \/ k = 0
        <4> SUFFICES ASSUME R # 0, k # 0 PROVE FALSE
          OBVIOUS
        <4>1. PICK e \in Nat \ {0} : e = R * k
          <5>1. R >= 1 /\ k >= 1
            BY <1>3, <1>8
          <5>2. R * k >= 1 * k
            BY <1>3, <1>8, <5>1
          <5> QED
            BY <1>3, <1>8, <5>1, <5>2
        <4>2. e * c >= 1 * c
          BY <1>4, <4>1
        <4> QED
          BY <1>4, <1>10, <2>3, <3>1, <4>1, <4>2
      <3>3. ASSUME R = 0 PROVE r = 0
        <4>1. Divides(m, N)
          <5>1. PICK f : f = N \div m
            OBVIOUS
          <5>2. f \in Nat /\ N = m * f + R
            BY <1>3, <1>7, <1>8, <5>1
          <5>3. m * f = N
            BY <1>3, <3>3, <5>2
          <5> QED
            BY <5>2, <5>3 DEF Divides
        <4>2. z \in Nat /\ w <= z
          <5>1. Taken(w) = IF w < n THEN n - w ELSE n
            BY <1>3 DEF Taken
          <5> QED
            BY <1>3, <1>7, <2>3, <5>1
        <4>3. PICK f \in Nat : m * f = p
          <5>1. m \in Nat \ {0} /\ w \in Nat /\ Divides(m, 2 ^ z) /\ m <= 2 ^ w
            BY <1>3, <1>4, <1>5, <1>7, <4>1
          <5>2. Divides(m, 2 ^ w)
            BY <4>2, <5>1, DivisorOfPower
          <5> QED
            BY <1>4, <5>2 DEF Divides
        <4>4. p = m * f + 0 /\ 0 \in 0 .. m - 1
          BY <1>3, <1>4, <4>3
        <4>5. p % m = 0
          BY <1>3, <1>4, <4>4, Residue
        <4> QED
          BY <1>6, <4>5
      <3> QED
        BY <3>2, <3>3
    <2>4. CASE w > h /\ w < n /\ 2 * w <= n + s
      <3>1. PICK l \in Nat, g \in Nat : l = n - w /\ g = 2 ^ l
        <4>1. n - w \in Nat
          BY <1>3, <2>4
        <4> QED
          BY <4>1, TwoToAbove
      <3>2. w = T.SizeOf * ByteBits
        BY <1>3 DEF bit_width
      <3>3. CanBeHashedInto(T, k, s, w)
        BY <1>1, <1>3 DEF UseCorrelatedOT
      <3>4. p > g * k * c
        BY <1>1, <1>3, <1>4, <2>4, <3>1, <3>2, <3>3, CheckIgnoresModulus
      <3>5. p <= g * c
        <4>1. 2 ^ (l + s) = g * c
          BY <1>3, <1>4, <3>1, TwoToSum
        <4>2. l + s \in Nat /\ w <= l + s
          BY <1>3, <2>4, <3>1
        <4> QED
          BY <1>3, <1>4, <4>1, <4>2, TwoToGrows
      <3>6. k = 0
        <4> SUFFICES ASSUME k >= 1 PROVE FALSE
          BY <1>3
        <4>1. PICK e \in Nat : e = g * c
          BY <1>4, <3>1
        <4>2. e * k >= e * 1
          BY <1>3, <4>1
        <4>3. (g * k) * c = e * k
          BY <1>3, <1>4, <3>1, <4>1
        <4> QED
          BY <1>4, <3>4, <3>5, <4>1, <4>2, <4>3
      <3> QED
        BY <3>6
    <2>5. \/ w \in {h, n} \/ (w < h /\ w <= s)
          \/ (w > h /\ w < n /\ 2 * w <= n + s)
      BY <1>3 DEF WidthJudged
    <2> QED
      BY <1>9, <2>1, <2>2, <2>3, <2>4, <2>5
  <1>12. k * r * (m - r) * c <= m * p
    BY <1>3, <1>4, <1>6, <1>11, SmallSurplus
  <1> QED
    BY <1>3, <1>4, <1>6, <1>12 DEF NearlyUniform

\* Where the code uses hash values as masks, no set of masks over all elements of the
\* vector is more than 2^-statistical_security_ more likely than with uniform ones,
\* for every length, security and modulus of the widths of WidthJudged.
THEOREM MasksAreUniform == Spec => []MasksUniform
  BY Invariance, InvMasks, PTL

-----------------------------------------------------------------------------
(* The two builds of the field: operator*= with USE_ASM reduces a product  *)
(* of 256 bits, the other one shifts one factor and reduces each time.     *)

\* A polynomial times x.
Up(S) == {i + 1 : i \in S}

\* The members of what shifts and halves make.
LEMMA Members ==
  ASSUME NEW a \in SUBSET Int, NEW n \in Int
  PROVE  /\ n \in Up(a) <=> n - 1 \in a
         /\ n \in Low(a) <=> n \in a /\ 0 <= n /\ n < half
         /\ a \in Block => (n \in High(a) <=> 0 <= n /\ n + half \in a)
         /\ a \in Block => (n \in ToHigh(a) <=> half <= n /\ n < num_bits /\ n - half \in a)
  <1>1. PICK h \in Nat, m \in Nat : h = half /\ m = num_bits /\ m = 2 * h
    BY NumBitsRange
  <1>2. n \in Up(a) <=> n - 1 \in a
    <2>1. ASSUME n \in Up(a) PROVE n - 1 \in a
      <3>1. PICK i \in a : n = i + 1
        BY <2>1 DEF Up
      <3> QED
        BY <3>1
    <2>2. ASSUME n - 1 \in a PROVE n \in Up(a)
      <3>1. n = (n - 1) + 1
        OBVIOUS
      <3> QED
        BY <2>2, <3>1 DEF Up
    <2> QED
      BY <2>1, <2>2
  <1>3. n \in Low(a) <=> n \in a /\ 0 <= n /\ n < half
    BY <1>1 DEF Low
  <1>4. ASSUME a \in Block PROVE n \in High(a) <=> 0 <= n /\ n + half \in a
    <2>1. \A i \in a : 0 <= i /\ i < m
      BY <1>1, <1>4 DEF Block, Bits
    <2>2. ASSUME n \in High(a) PROVE 0 <= n /\ n + half \in a
      <3>1. PICK i \in a : i \notin 0 .. half - 1 /\ n = i - half
        BY <2>2 DEF High
      <3>2. h <= i /\ n + h = i
        BY <1>1, <2>1, <3>1
      <3> QED
        BY <1>1, <3>1, <3>2
    <2>3. ASSUME 0 <= n, n + half \in a PROVE n \in High(a)
      <3>1. n + h \notin 0 .. h - 1 /\ n = (n + h) - h
        BY <1>1, <2>3
      <3> QED
        BY <1>1, <2>3, <3>1 DEF High
    <2> QED
      BY <2>2, <2>3
  <1>5. ASSUME a \in Block PROVE n \in ToHigh(a) <=> half <= n /\ n < num_bits /\ n - half \in a
    <2>1. \A i \in a : 0 <= i /\ i < m
      BY <1>1, <1>5 DEF Block, Bits
    <2>2. ASSUME n \in ToHigh(a) PROVE half <= n /\ n < num_bits /\ n - half \in a
      <3>1. PICK i \in a : i \in 0 .. half - 1 /\ n = i + half
        BY <2>2 DEF ToHigh, Low
      <3>2. 0 <= i /\ i < h /\ n - h = i
        BY <1>1, <3>1
      <3> QED
        BY <1>1, <3>1, <3>2
    <2>3. ASSUME half <= n, n < num_bits, n - half \in a PROVE n \in ToHigh(a)
      <3>1. n - h \in 0 .. h - 1 /\ n = (n - h) + h
        BY <1>1, <2>3
      <3> QED
        BY <1>1, <2>3, <3>1 DEF ToHigh, Low
    <2> QED
      BY <2>2, <2>3
  <1> QED
    BY <1>2, <1>3, <1>4, <1>5

\* The members of a sum.
LEMMA AddMembers ==
  ASSUME NEW a, NEW b, NEW n
  PROVE  n \in Add(a, b) <=> ~ (n \in a <=> n \in b)
  BY DEF Add, SymDiff

\* The carry-less product with one power of x shifts.
LEMMA CarrylessPower ==
  ASSUME NEW a \in SUBSET (0 .. half - 1), NEW k \in 0 .. half - 1
  PROVE  \A n \in Int : n \in Carryless(a, {k}) <=> n - k \in a
  <1>1. PICK h \in Nat, m \in Nat : h = half /\ m = num_bits /\ m = 2 * h
    BY NumBitsRange
  <1>2. ~Odd({}) /\ \A i : Odd({i})
    <2>1. Cardinality({}) = 0 /\ 0 % 2 = 0 /\ 1 % 2 = 1
      BY FS_EmptySet
    <2>2. \A i : Cardinality({i}) = 1
      BY FS_Singleton
    <2>3. ~Odd({})
      BY <2>1 DEF Odd
    <2>4. \A i : Odd({i})
      BY <2>1, <2>2 DEF Odd
    <2> QED
      BY <2>3, <2>4
  <1>3. ASSUME NEW n \in 0 .. num_bits - 2
        PROVE  Odd(Pairs(a, {k}, n)) <=> n - k \in a
    <2>1. n \in Int /\ k \in Int /\ \A i \in a : i \in Int
      BY <1>1
    <2>2. \A i \in a : n - i = k <=> i = n - k
      BY <2>1
    <2>3. CASE n - k \in a
      <3>1. Pairs(a, {k}, n) = {n - k}
        BY <2>2, <2>3 DEF Pairs
      <3> QED
        BY <1>2, <2>3, <3>1
    <2>4. CASE n - k \notin a
      <3>1. Pairs(a, {k}, n) = {}
        BY <2>2, <2>4 DEF Pairs
      <3> QED
        BY <1>2, <2>4, <3>1
    <2> QED
      BY <2>3, <2>4
  <1>4. \A n \in Int : n - k \in a => n \in 0 .. num_bits - 2
    BY <1>1
  <1> QED
    BY <1>3, <1>4, CarrylessIs

\* The carry-less product is shifted with its first factor.
LEMMA CarrylessUp ==
  ASSUME NEW a \in SUBSET (0 .. half - 2), NEW b \in SUBSET (0 .. half - 1)
  PROVE  /\ \A n \in Int : n \in Carryless(Up(a), b) <=> n - 1 \in Carryless(a, b)
         /\ Carryless(Up(a), b) = Up(Carryless(a, b))
         /\ num_bits - 2 \notin Carryless(a, b) /\ num_bits - 1 \notin Carryless(a, b)
  <1>1. PICK h \in Nat, m \in Nat : h = half /\ m = num_bits /\ m = 2 * h
    BY NumBitsRange
  <1>2. \A i \in a : i \in Int /\ 0 <= i /\ i <= h - 2
    BY <1>1
  <1>3. \A i \in b : i \in Int /\ 0 <= i /\ i <= h - 1
    BY <1>1
  <1>4. ~Odd({})
    <2>1. Cardinality({}) = 0 /\ 0 % 2 = 0
      BY FS_EmptySet
    <2> QED
      BY <2>1 DEF Odd
  <1>5. ASSUME NEW n \in Int
        PROVE  Odd(Pairs(Up(a), b, n)) <=> Odd(Pairs(a, b, n - 1))
    <2>1. PICK A, B : A = Pairs(a, b, n - 1) /\ B = Pairs(Up(a), b, n)
      OBVIOUS
    <2>2. \A i \in A : i \in a /\ i + 1 \in B
      <3>1. \A i \in A : i \in a /\ (n - 1) - i \in b /\ n - (i + 1) = (n - 1) - i
        BY <1>2, <2>1 DEF Pairs
      <3>2. \A i \in A : i + 1 \in Up(a)
        BY <3>1 DEF Up
      <3> QED
        BY <2>1, <3>1, <3>2 DEF Pairs
    <2>3. \A j \in B : \E i \in A : i + 1 = j
      <3> SUFFICES ASSUME NEW j \in B PROVE \E i \in A : i + 1 = j
        OBVIOUS
      <3>1. PICK i \in a : j = i + 1 /\ n - j \in b
        BY <2>1 DEF Pairs, Up
      <3>2. (n - 1) - i = n - j
        BY <1>2, <3>1
      <3> QED
        BY <2>1, <3>1, <3>2 DEF Pairs
    <2>4. PICK f : f = [i \in A |-> i + 1]
      OBVIOUS
    <2>5. f \in [A -> B]
      BY <2>2, <2>4
    <2>6. ASSUME NEW i \in A, NEW j \in A, f[i] = f[j] PROVE i = j
      <3>1. i \in Int /\ j \in Int
        BY <1>2, <2>2
      <3>2. i + 1 = j + 1
        BY <2>4, <2>6
      <3> QED
        BY <3>1, <3>2
    <2>7. \A j \in B : \E i \in A : f[i] = j
      BY <2>3, <2>4
    <2>8. f \in Bijection(A, B)
      BY <2>5, <2>6, <2>7 DEF Bijection, Injection, Surjection, IsInjective
    <2>9. IsFiniteSet(A)
      <3>1. A \subseteq 0 .. half - 2
        BY <2>2
      <3>2. IsFiniteSet(0 .. half - 2)
        BY <1>1, FS_Interval
      <3> QED
        BY <3>1, <3>2, FS_Subset
    <2>10. Cardinality(A) = Cardinality(B)
      <3>1. ExistsBijection(A, B)
        BY <2>8 DEF ExistsBijection
      <3> QED
        BY <2>9, <3>1, FS_Bijection
    <2> QED
      BY <2>1, <2>10 DEF Odd
  <1>6. /\ \A n : n \in Carryless(a, b) <=> n \in 0 .. num_bits - 2 /\ Odd(Pairs(a, b, n))
        /\ \A n : n \in Carryless(Up(a), b) <=> n \in 0 .. num_bits - 2 /\ Odd(Pairs(Up(a), b, n))
    BY CarrylessIs
  <1>7. \A n \in Int : n < 0 => ~Odd(Pairs(a, b, n))
    <2>1. ASSUME NEW n \in Int, n < 0 PROVE Pairs(a, b, n) = {}
      <3>1. \A i \in a : n - i \notin b
        BY <1>2, <1>3, <2>1
      <3> QED
        BY <3>1 DEF Pairs
    <2> QED
      BY <1>4, <2>1
  <1>8. ~Odd(Pairs(a, b, m - 2))
    <2>1. \A i \in a : (m - 2) - i \notin b
      BY <1>1, <1>2, <1>3
    <2>2. Pairs(a, b, m - 2) = {}
      BY <2>1 DEF Pairs
    <2> QED
      BY <1>4, <2>2
  <1>9. \A n \in Int : n \in Carryless(Up(a), b) <=> n - 1 \in Carryless(a, b)
    <2> SUFFICES ASSUME NEW n \in Int
                 PROVE  n \in Carryless(Up(a), b) <=> n - 1 \in Carryless(a, b)
      OBVIOUS
    <2>1. ASSUME n \in Carryless(Up(a), b) PROVE n - 1 \in Carryless(a, b)
      <3>1. n \in 0 .. m - 2 /\ Odd(Pairs(a, b, n - 1))
        BY <1>1, <1>5, <1>6, <2>1
      <3>2. n - 1 \in 0 .. m - 2
        BY <1>1, <1>7, <3>1
      <3> QED
        BY <1>1, <1>6, <3>1, <3>2
    <2>2. ASSUME n - 1 \in Carryless(a, b) PROVE n \in Carryless(Up(a), b)
      <3>1. n - 1 \in 0 .. m - 2 /\ Odd(Pairs(a, b, n - 1)) /\ Odd(Pairs(Up(a), b, n))
        BY <1>1, <1>5, <1>6, <2>2
      <3>2. n - 1 # m - 2
        BY <1>8, <3>1
      <3>3. n \in 0 .. m - 2
        BY <1>1, <3>1, <3>2
      <3> QED
        BY <1>1, <1>6, <3>1, <3>3
    <2> QED
      BY <2>1, <2>2
  <1>10. Carryless(Up(a), b) = Up(Carryless(a, b))
    <2>1. PICK S, Q : S = Carryless(Up(a), b) /\ Q = Carryless(a, b)
      OBVIOUS
    <2>2. S \in SUBSET Int /\ Q \in SUBSET Int /\ \A n \in Int : n \in S <=> n - 1 \in Q
      BY <1>1, <1>6, <1>9, <2>1
    <2>3. \A n \in Int : n \in S <=> n \in Up(Q)
      BY <2>2, Members
    <2>4. Up(Q) \in SUBSET Int
      BY <2>2 DEF Up
    <2> QED
      BY <2>1, <2>2, <2>3, <2>4
  <1>11. num_bits - 2 \notin Carryless(a, b) /\ num_bits - 1 \notin Carryless(a, b)
    BY <1>1, <1>6, <1>8
  <1> QED
    BY <1>9, <1>10, <1>11

\* Shifting distributes over sums.
LEMMA UpAdd ==
  ASSUME NEW a \in SUBSET Int, NEW b \in SUBSET Int
  PROVE  Up(Add(a, b)) = Add(Up(a), Up(b))
  <1>1. PICK c : c = Add(a, b) /\ c \in SUBSET Int
    BY DEF Add, SymDiff
  <1>2. \A n \in Int : n \in Up(c) <=> n \in Add(Up(a), Up(b))
    BY <1>1, Members, AddMembers
  <1>3. Up(a) \in SUBSET Int /\ Up(b) \in SUBSET Int /\ Up(c) \in SUBSET Int
    BY <1>1 DEF Up
  <1>4. Add(Up(a), Up(b)) \in SUBSET Int
    BY <1>3 DEF Add, SymDiff
  <1> QED
    BY <1>1, <1>2, <1>3, <1>4

\* The leading term that a doubling reduces.
Carried(p) == IF num_bits - 1 \in p THEN modulus_ ELSE {}

\* What a doubling is: a polynomial times x, reduced.
LEMMA DoubledIs ==
  ASSUME NEW p \in Block
  PROVE  /\ Doubled(p) = Add(Up(p \ {num_bits - 1}), Carried(p))
         /\ num_bits - 1 \notin p => Doubled(p) = Up(p)
         /\ Doubled(p) \in Block
  <1>1. PICK h \in Nat, m \in Nat : h = half /\ m = num_bits /\ m = 2 * h /\ h # 0
    BY NumBitsRange
  <1>2. Doubled(p) = Add(Up(p \ {num_bits - 1}), Carried(p))
    BY DEF Doubled, Up, Carried
  <1>3. num_bits - 1 \notin p => Doubled(p) = Up(p)
    <2> SUFFICES ASSUME num_bits - 1 \notin p PROVE Doubled(p) = Up(p)
      OBVIOUS
    <2>1. p \ {num_bits - 1} = p /\ Carried(p) = {}
      BY DEF Carried
    <2> QED
      BY <1>2, <2>1, AddLaws
  <1>4. Up(p \ {num_bits - 1}) \in Block
    BY <1>1 DEF Up, Block, Bits
  <1>5. Carried(p) \in Block
    <2>1. modulus_ \in Block
      BY <1>1, FieldAssumption DEF Block, Bits
    <2> QED
      BY <2>1 DEF Carried, Block
  <1> QED
    BY <1>2, <1>3, <1>4, <1>5, AddType

\* Doubling distributes over sums.
LEMMA DoubledAdd ==
  ASSUME NEW p \in Block, NEW q \in Block
  PROVE  Doubled(Add(p, q)) = Add(Doubled(p), Doubled(q))
  <1>1. PICK m \in Int : m = num_bits - 1
    BY NumBitsRange
  <1>2. PICK r \in Block : r = Add(p, q)
    BY AddType
  <1>3. Carried(r) = Add(Carried(p), Carried(q))
    BY <1>2 DEF Carried, Add, SymDiff
  <1>4. PICK a, b, c : a = p \ {m} /\ b = q \ {m} /\ c = r \ {m}
    OBVIOUS
  <1>5. a \in SUBSET Int /\ b \in SUBSET Int /\ c \in SUBSET Int /\ c = Add(a, b)
    <2>1. p \in SUBSET Int /\ q \in SUBSET Int /\ r \in SUBSET Int
      BY BlockFinite
    <2> QED
      BY <1>2, <1>4, <2>1 DEF Add, SymDiff
  <1>6. Up(c) = Add(Up(a), Up(b))
    BY <1>5, UpAdd
  <1>7. /\ Doubled(p) = Add(Up(a), Carried(p)) /\ Doubled(q) = Add(Up(b), Carried(q))
        /\ Doubled(r) = Add(Up(c), Carried(r))
    BY <1>1, <1>4, DoubledIs
  <1> QED
    BY <1>2, <1>3, <1>6, <1>7, AddFour

\* Nothing, or a power of x.
Power(k, yes) == IF yes THEN {k} ELSE {}

\* What is in the low half has no high half.
LEMMA LowOnly ==
  ASSUME NEW a \in SUBSET (0 .. half - 1)
  PROVE  a \in Block /\ Low(a) = a /\ High(a) = {}
  <1>1. PICK h \in Nat, m \in Nat : h = half /\ m = num_bits /\ m = 2 * h
    BY NumBitsRange
  <1>2. a \in Block
    BY <1>1 DEF Block, Bits
  <1>3. Low(a) = a
    BY DEF Low
  <1>4. a \ (0 .. half - 1) = {}
    OBVIOUS
  <1>5. High(a) = {}
    BY <1>4 DEF High
  <1> QED
    BY <1>2, <1>3, <1>5

\* The halves of what is shifted: a bit may cross the border between them, or
\* leave the block.
LEMMA HighUp ==
  ASSUME NEW a \in SUBSET (0 .. num_bits - 2)
  PROVE  /\ a \in Block /\ Up(a) \in Block
         /\ High(Up(a)) = Add(Up(High(a)), Power(0, half - 1 \in a))
  <1>1. PICK h \in Nat, m \in Nat : h = half /\ m = num_bits /\ m = 2 * h /\ h # 0
    BY NumBitsRange
  <1>2. \A n \in a : n \in Int /\ 0 <= n /\ n < m - 1 /\ n + 1 \in 0 .. m - 1
    BY <1>1
  <1>3. a \in Block /\ Up(a) \in Block
    BY <1>1, <1>2 DEF Up, Block, Bits
  <1>4. PICK b, ha, e : b = Up(a) /\ ha = High(a) /\ e = Power(0, half - 1 \in a)
    OBVIOUS
  <1>5. b \in Block /\ ha \in Block
    BY <1>3, <1>4, HalvesType
  <1>6. a \in SUBSET Int /\ b \in SUBSET Int /\ ha \in SUBSET Int /\ e \in SUBSET Int
    <2>1. a \in SUBSET Int /\ b \in SUBSET Int /\ ha \in SUBSET Int
      BY <1>3, <1>4, <1>5, BlockFinite
    <2>2. e \in SUBSET {0}
      BY <1>4 DEF Power
    <2> QED
      BY <2>1, <2>2
  <1>7. ASSUME NEW n \in Int
        PROVE  n \in High(b) <=> n \in Add(Up(ha), e)
    <2>1. n \in High(b) <=> 0 <= n /\ n + h \in b
      BY <1>1, <1>5, <1>6, Members
    <2>2. n + h \in b <=> (n + h) - 1 \in a
      <3>1. n + h \in Int
        BY <1>1
      <3> QED
        BY <1>4, <1>6, <3>1, Members
    <2>3. n \in Up(ha) <=> 0 <= n - 1 /\ (n - 1) + h \in a
      <3>1. n \in Up(ha) <=> n - 1 \in ha
        BY <1>6, Members
      <3>2. n - 1 \in Int
        OBVIOUS
      <3> QED
        BY <1>1, <1>3, <1>4, <1>6, <3>1, <3>2, Members
    <2>4. n \in e <=> n = 0 /\ h - 1 \in a
      BY <1>1, <1>4 DEF Power
    <2>5. n \in Add(Up(ha), e) <=> ~ (n \in Up(ha) <=> n \in e)
      BY AddMembers
    <2>6. (n + h) - 1 = (n - 1) + h
      BY <1>1
    <2>7. CASE n = 0
      <3>1. (n + h) - 1 = h - 1 /\ ~ (0 <= n - 1) /\ 0 <= n
        BY <1>1, <2>7
      <3> QED
        BY <2>1, <2>2, <2>3, <2>4, <2>5, <2>7, <3>1
    <2>8. CASE n # 0
      <3>1. 0 <= n <=> 0 <= n - 1
        BY <2>8
      <3> QED
        BY <2>1, <2>2, <2>3, <2>4, <2>5, <2>6, <2>8, <3>1
    <2> QED
      BY <2>7, <2>8
  <1>8. High(b) \in SUBSET Int
    BY <1>5, HalvesType, BlockFinite
  <1>9. Add(Up(ha), e) \in SUBSET Int
    <2>1. Up(ha) \in SUBSET Int
      BY <1>6 DEF Up
    <2> QED
      BY <1>6, <2>1 DEF Add, SymDiff
  <1> QED
    BY <1>3, <1>4, <1>7, <1>8, <1>9

\* The low half of a polynomial times x: its highest term leaves the half.
LEMMA LowUp ==
  ASSUME NEW a \in SUBSET (0 .. num_bits - 2)
  PROVE  /\ Low(Up(a)) = Up(Low(a) \ {half - 1})
         /\ ToHigh(Up(a)) = Up(ToHigh(a) \ {num_bits - 1})
  <1>1. PICK h \in Nat, m \in Nat : h = half /\ m = num_bits /\ m = 2 * h /\ h # 0
    BY NumBitsRange
  <1>2. \A n \in a : n \in Int /\ 0 <= n /\ n < m - 1
    BY <1>1
  <1>3. PICK b : b = Up(a) /\ a \in Block /\ b \in Block
    BY HighUp
  <1>4. a \in SUBSET Int /\ b \in SUBSET Int
    BY <1>3, BlockFinite
  <1>5. PICK la, ta : la = Low(a) \ {h - 1} /\ ta = ToHigh(a) \ {m - 1}
    OBVIOUS
  <1>6. /\ la \in SUBSET Int /\ ta \in SUBSET Int /\ Low(b) \in SUBSET Int /\ ToHigh(b) \in SUBSET Int
        /\ Up(la) \in SUBSET Int /\ Up(ta) \in SUBSET Int
    <2>1. /\ la \in SUBSET Int /\ ta \in SUBSET Int /\ Low(b) \in SUBSET Int /\ ToHigh(b) \in SUBSET Int
      BY <1>3, <1>5, HalvesType, BlockFinite
    <2> QED
      BY <2>1 DEF Up
  <1>7. ASSUME NEW n \in Int
        PROVE  (n \in Low(b) <=> n \in Up(la)) /\ (n \in ToHigh(b) <=> n \in Up(ta))
    <2>1. n - 1 \in Int /\ n - h \in Int /\ (n - h) - 1 = (n - 1) - h
      BY <1>1
    <2>2. n \in Low(b) <=> n - 1 \in a /\ 0 <= n /\ n < h
      BY <1>1, <1>3, <1>4, Members
    <2>3. n \in Up(la) <=> n - 1 \in a /\ 0 <= n - 1 /\ n - 1 < h /\ n - 1 # h - 1
      BY <1>1, <1>4, <1>5, <1>6, <2>1, Members
    <2>4. n \in ToHigh(b) <=> h <= n /\ n < m /\ (n - 1) - h \in a
      <3>1. n \in ToHigh(b) <=> h <= n /\ n < m /\ n - h \in b
        BY <1>1, <1>3, <1>4, Members
      <3>2. n - h \in b <=> (n - h) - 1 \in a
        BY <1>3, <1>4, <2>1, Members
      <3> QED
        BY <2>1, <3>1, <3>2
    <2>5. n \in Up(ta) <=> h <= n - 1 /\ n - 1 < m /\ (n - 1) - h \in a /\ n - 1 # m - 1
      <3>1. n \in Up(ta) <=> n - 1 \in ta
        BY <1>6, Members
      <3>2. n - 1 \in ToHigh(a) <=> h <= n - 1 /\ n - 1 < m /\ (n - 1) - h \in a
        BY <1>1, <1>3, <1>4, <2>1, Members
      <3> QED
        BY <1>5, <3>1, <3>2
    <2>6. (n - 1 \in a => 0 <= n - 1) /\ ((n - 1) - h \in a => 0 <= (n - 1) - h)
      BY <1>2
    <2> QED
      BY <1>1, <2>2, <2>3, <2>4, <2>5, <2>6
  <1>8. Low(b) = Up(la)
    BY <1>6, <1>7
  <1>9. ToHigh(b) = Up(ta)
    BY <1>6, <1>7
  <1> QED
    BY <1>1, <1>3, <1>5, <1>8, <1>9

\* The wide product q is the wide product p times x.
NextWide(p, q) ==
  /\ p.low \in Block /\ p.high \in SUBSET (0 .. num_bits - 2)
  /\ q.low = Up(p.low \ {num_bits - 1})
  /\ q.high = Add(Up(p.high), Power(0, num_bits - 1 \in p.low))

\* The first step of the reduction: what the highest quarter adds.
LEMMA NextHighest ==
  ASSUME NEW p, NEW q, NextWide(p, q), NEW tp, NEW tq,
         tp = Carryless(High(p.high), modulus_), tq = Carryless(High(q.high), modulus_)
  PROVE  /\ tp \in SUBSET (0 .. num_bits - 3)
         /\ tq = Add(Up(tp), IF half - 1 \in p.high THEN modulus_ ELSE {})
  <1>1. PICK h \in Nat, m \in Nat : h = half /\ m = num_bits /\ m = 2 * h /\ h # 0
    BY NumBitsRange
  <1>2. PICK a, b, z : a = p.high /\ b = q.high /\ z = Power(0, num_bits - 1 \in p.low)
    OBVIOUS
  <1>3. a \in Block /\ z \in SUBSET {0} /\ b = Add(Up(a), z) /\ \A n \in a : n \in Int /\ 0 <= n /\ n < m - 1
    BY <1>1, <1>2 DEF NextWide, Power, Block, Bits
  <1>4. b \in Block /\ Up(a) \in SUBSET Int
    <2>1. \A n \in a : n + 1 \in 0 .. m - 1
      BY <1>1, <1>3
    <2>2. Up(a) \in Block
      BY <1>1, <2>1 DEF Up, Block, Bits
    <2>3. z \in Block
      BY <1>1, <1>3 DEF Block, Bits
    <2> QED
      BY <1>3, <2>2, <2>3, AddType, BlockFinite
  <1>5. PICK ha, e : ha = High(a) /\ e = Power(0, h - 1 \in a)
    OBVIOUS
  <1>6. ha \in SUBSET (0 .. half - 2)
    <2>1. ha \in SUBSET Int
      BY <1>3, <1>5, HalvesType, BlockFinite
    <2>2. ASSUME NEW n \in ha PROVE 0 <= n /\ n <= h - 2
      <3>1. n \in Int /\ 0 <= n /\ n + h \in a
        BY <1>1, <1>3, <1>5, <2>1, BlockFinite, Members
      <3>2. n + h < m - 1
        BY <1>3, <3>1
      <3> QED
        BY <1>1, <3>1, <3>2
    <2> QED
      BY <1>1, <2>1, <2>2
  <1>7. High(b) = Add(Up(ha), e)
    <2>1. High(Up(a)) = Add(Up(ha), e) /\ Up(a) \in Block
      BY <1>1, <1>2, <1>5, HighUp DEF NextWide
    <2>2. z \in SUBSET (0 .. half - 1)
      BY <1>1, <1>3
    <2>3. High(z) = {} /\ z \in Block
      BY <2>2, LowOnly
    <2>4. High(b) = Add(High(Up(a)), High(z))
      BY <1>3, <2>1, <2>3, HalvesAdd
    <2> QED
      BY <2>1, <2>3, <2>4, AddLaws
  <1>8. modulus_ \in SUBSET (0 .. half - 1)
    BY FieldAssumption, NumBitsRange
  <1>9. /\ tp = Carryless(ha, modulus_) /\ Carryless(Up(ha), modulus_) = Up(tp)
        /\ m - 2 \notin tp /\ m - 1 \notin tp
    BY <1>1, <1>2, <1>5, <1>6, <1>8, CarrylessUp
  <1>10. tp \in SUBSET (0 .. num_bits - 3)
    <2>1. tp \in SUBSET (0 .. m - 1)
      BY <1>1, <1>9, CarrylessIs DEF Block, Bits
    <2> QED
      BY <1>1, <1>9, <2>1
  <1>11. Carryless(e, modulus_) = IF half - 1 \in p.high THEN modulus_ ELSE {}
    <2>1. modulus_ \in Block
      BY <1>1, <1>8 DEF Block, Bits
    <2>2. Carryless({0}, modulus_) = modulus_ /\ Carryless({}, modulus_) = {}
      <3>1. {0} \in Block
        BY <1>1 DEF Block, Bits
      <3> QED
        BY <1>8, <2>1, <3>1, CarrylessWithOne, CarrylessCommute
    <2> QED
      BY <1>1, <1>2, <1>5, <2>2 DEF Power
  <1>12. tq = Add(Up(tp), Carryless(e, modulus_))
    <2>1. Up(ha) \in Block /\ e \in Block
      <3>1. Up(ha) \in Block
        BY <1>1, <1>6 DEF Up, Block, Bits
      <3>2. e \in Block
        BY <1>1, <1>5 DEF Power, Block, Bits
      <3> QED
        BY <3>1, <3>2
    <2> QED
      BY <1>2, <1>7, <1>9, <2>1, CarrylessAdd
  <1> QED
    BY <1>10, <1>11, <1>12

\* modulus_ or nothing.
Term(yes) == IF yes THEN modulus_ ELSE {}

\* The product of modulus_ with a power of x, or with nothing.
LEMMA TermIs ==
  ASSUME NEW yes \in BOOLEAN
  PROVE  /\ Term(yes) \in SUBSET (0 .. half - 1) /\ Power(0, yes) \in SUBSET (0 .. half - 1)
         /\ Power(half - 1, yes) \in SUBSET (0 .. half - 1)
         /\ Carryless(Power(0, yes), modulus_) = Term(yes)
         /\ Doubled(Carryless(Power(half - 1, yes), modulus_)) = ToHigh(Term(yes))
  <1>1. PICK h \in Nat, m \in Nat : h = half /\ m = num_bits /\ m = 2 * h /\ h # 0
    BY NumBitsRange
  <1>2. modulus_ \in SUBSET (0 .. half - 1)
    BY FieldAssumption, NumBitsRange
  <1>3. modulus_ \in Block /\ {0} \in Block /\ {h - 1} \in Block /\ {} \in Block
    BY <1>1, <1>2 DEF Block, Bits
  <1>4. /\ Term(yes) \in SUBSET (0 .. half - 1) /\ Power(0, yes) \in SUBSET (0 .. half - 1)
        /\ Power(half - 1, yes) \in SUBSET (0 .. half - 1)
    BY <1>1, <1>2 DEF Term, Power
  <1>5. Carryless({0}, modulus_) = modulus_ /\ Carryless({}, modulus_) = {}
    BY <1>2, <1>3, CarrylessWithOne, CarrylessCommute
  <1>6. Carryless(Power(0, yes), modulus_) = Term(yes)
    BY <1>5 DEF Term, Power
  <1>7. CASE yes
    <2>1. PICK c : c = Carryless(modulus_, {h - 1})
      OBVIOUS
    <2>2. c \in Block /\ \A n \in Int : n \in c <=> n - (h - 1) \in modulus_
      <3>1. h - 1 \in 0 .. half - 1
        BY <1>1
      <3> QED
        BY <1>2, <2>1, <3>1, CarrylessPower, CarrylessIs
    <2>3. m - 1 \notin c
      <3>1. (m - 1) - (h - 1) = h /\ m - 1 \in Int
        BY <1>1
      <3>2. h \notin modulus_
        BY <1>1, <1>2
      <3> QED
        BY <2>2, <3>1, <3>2
    <2>4. Doubled(c) = Up(c)
      BY <1>1, <2>2, <2>3, DoubledIs
    <2>5. Up(c) \in SUBSET Int /\ c \in SUBSET Int /\ modulus_ \in SUBSET Int /\ ToHigh(modulus_) \in SUBSET Int
      <3>1. c \in SUBSET Int /\ modulus_ \in SUBSET Int /\ ToHigh(modulus_) \in SUBSET Int
        BY <1>3, <2>2, HalvesType, BlockFinite
      <3> QED
        BY <3>1 DEF Up
    <2>6. ASSUME NEW n \in Int PROVE n \in Up(c) <=> n \in ToHigh(modulus_)
      <3>1. n - 1 \in Int /\ (n - 1) - (h - 1) = n - h
        BY <1>1
      <3>2. n \in Up(c) <=> n - h \in modulus_
        BY <2>2, <2>5, <3>1, Members
      <3>3. n \in ToHigh(modulus_) <=> h <= n /\ n < m /\ n - h \in modulus_
        BY <1>1, <1>3, <2>5, Members
      <3>4. n - h \in modulus_ => h <= n /\ n < m
        <4>1. n - h \in modulus_ => 0 <= n - h /\ n - h <= h - 1
          BY <1>1, <1>2
        <4> QED
          BY <1>1, <4>1
      <3> QED
        BY <3>2, <3>3, <3>4
    <2>7. Up(c) = ToHigh(modulus_)
      BY <2>5, <2>6
    <2>8. Power(half - 1, yes) = {h - 1} /\ Term(yes) = modulus_
      BY <1>1, <1>7 DEF Power, Term
    <2>9. Carryless({h - 1}, modulus_) = c
      BY <1>3, <2>1, CarrylessCommute
    <2> QED
      BY <1>4, <1>6, <2>4, <2>7, <2>8, <2>9
  <1>8. CASE ~yes
    <2>1. Power(half - 1, yes) = {} /\ Term(yes) = {}
      BY <1>8 DEF Power, Term
    <2>2. Doubled({}) = {}
      BY <1>1 DEF Doubled, Add, SymDiff
    <2>3. ToHigh({}) = {}
      BY DEF ToHigh, Low
    <2> QED
      BY <1>4, <1>5, <1>6, <2>1, <2>2, <2>3
  <1> QED
    BY <1>7, <1>8

\* Sums of six may be regrouped.
LEMMA AddSix ==
  ASSUME NEW a, NEW b, NEW c, NEW d, NEW e, NEW f
  PROVE  Add(Add(a, Add(b, e)), Add(c, Add(d, f))) = Add(Add(Add(a, d), Add(b, f)), Add(c, e))
  <1>1. Add(c, Add(d, f)) = Add(Add(c, {}), Add(d, f))
    BY AddLaws
  <1>2. \A n : n \in Add(Add(a, Add(b, e)), Add(c, Add(d, f)))
                 <=> n \in Add(Add(Add(a, d), Add(b, f)), Add(c, e))
    BY AddMembers
  <1>3. PICK u, v : u = Add(Add(a, Add(b, e)), Add(c, Add(d, f)))
                    /\ v = Add(Add(Add(a, d), Add(b, f)), Add(c, e))
    OBVIOUS
  <1>4. u = v
    BY <1>2, <1>3
  <1> QED
    BY <1>3, <1>4

\* Reducing a wide product times x is doubling the reduced product: whatever the
\* reduction of gf128.h carries from its first step into its second.
LEMMA ReduceNext ==
  ASSUME NEW p, NEW q, NextWide(p, q)
  PROVE  Reduce(q) = Doubled(Reduce(p))
  <1>1. PICK h \in Nat, m \in Nat : h = half /\ m = num_bits /\ m = 2 * h /\ h # 0
    BY NumBitsRange
  <1>2. PICK l \in Block, a \in SUBSET (0 .. num_bits - 2) :
          /\ l = p.low /\ a = p.high
          /\ q.low = Up(l \ {m - 1}) /\ q.high = Add(Up(a), Power(0, m - 1 \in l))
    BY <1>1 DEF NextWide
  <1>3. PICK tp, tq : tp = Carryless(High(a), modulus_) /\ tq = Carryless(High(q.high), modulus_)
    OBVIOUS
  <1>4. PICK yes \in BOOLEAN, g \in BOOLEAN, e \in BOOLEAN :
          (yes <=> h - 1 \in tp) /\ (g <=> m - 1 \in l) /\ (e <=> h - 1 \in a)
    <2>1. \A n, S : \E b \in BOOLEAN : b <=> n \in S
      OBVIOUS
    <2> QED
      BY <2>1
  <1>5. tp \in SUBSET (0 .. num_bits - 3) /\ tq = Add(Up(tp), Term(e))
    BY <1>1, <1>2, <1>3, <1>4, NextHighest DEF Term
  <1>6. tp \in SUBSET (0 .. num_bits - 2) /\ tp \in Block /\ a \in Block
    BY <1>1, <1>2, <1>5 DEF Block, Bits
  <1>7. Term(e) \in Block /\ High(Term(e)) = {} /\ Up(tp) \in Block
    BY <1>6, TermIs, LowOnly, HighUp
  <1>8. High(tq) = Add(Up(High(tp)), Power(0, yes))
    <2>1. High(tq) = Add(High(Up(tp)), High(Term(e)))
      BY <1>5, <1>7, HalvesAdd
    <2> QED
      BY <1>1, <1>4, <1>6, <1>7, <2>1, HighUp, AddLaws
  <1>9. ToHigh(tq) = Add(Up(ToHigh(tp) \ {m - 1}), ToHigh(Term(e)))
    <2>1. ToHigh(tq) = Add(ToHigh(Up(tp)), ToHigh(Term(e)))
      BY <1>5, <1>7, HalvesAdd
    <2> QED
      BY <1>1, <1>6, <2>1, LowUp
  <1>10. PICK hp, hq : hp = Add(a, High(tp)) /\ hq = Add(q.high, High(tq))
    OBVIOUS
  <1>11. PICK ht : ht = High(tp) /\ ht \in Block /\ ht \in SUBSET (0 .. h - 2) /\ hp \in SUBSET (0 .. num_bits - 2)
    <2>1. PICK ht \in Block : ht = High(tp)
      BY <1>6, HalvesType
    <2>2. ht \in SUBSET Int /\ tp \in SUBSET Int
      BY <1>6, <2>1, BlockFinite
    <2>3. ASSUME NEW n \in ht PROVE 0 <= n /\ n <= h - 2
      <3>1. n \in Int /\ 0 <= n /\ n + h \in tp
        BY <1>1, <1>6, <2>1, <2>2, Members
      <3>2. n + h <= m - 3
        BY <1>1, <1>5, <3>1
      <3> QED
        BY <1>1, <3>1, <3>2
    <2>4. ht \in SUBSET (0 .. h - 2)
      BY <1>1, <2>2, <2>3
    <2>5. hp \in SUBSET (a \cup ht)
      BY <1>10, <2>1 DEF Add, SymDiff
    <2> QED
      BY <1>1, <1>2, <2>1, <2>4, <2>5
  <1>12. PICK z : z = Add(Power(0, g), Power(0, yes)) /\ z \in SUBSET (0 .. half - 1)
    BY TermIs DEF Add, SymDiff
  <1>13. hq = Add(Up(hp), z)
    <2>1. a \in SUBSET Int /\ ht \in SUBSET Int
      BY <1>6, <1>11, BlockFinite
    <2>2. Up(hp) = Add(Up(a), Up(ht))
      BY <1>10, <1>11, <2>1, UpAdd
    <2>3. Power(0, m - 1 \in l) = Power(0, g)
      BY <1>4 DEF Power
    <2>4. hq = Add(Add(Up(a), Power(0, g)), Add(Up(ht), Power(0, yes)))
      BY <1>2, <1>8, <1>10, <1>11, <2>3
    <2> QED
      BY <1>12, <2>2, <2>4, AddFour
  <1>14. PICK v : v = Low(hp) \ {h - 1} /\ v \in SUBSET (0 .. half - 2) /\ v \in Block /\ Up(v) \in Block
    <2>1. PICK v : v = Low(hp) \ {h - 1}
      OBVIOUS
    <2>2. v \in SUBSET (0 .. half - 2)
      BY <1>1, <2>1 DEF Low
    <2>3. v \in SUBSET (0 .. num_bits - 2)
      BY <1>1, <2>2
    <2> QED
      BY <2>1, <2>2, <2>3, HighUp
  <1>15. Low(hq) = Add(Up(v), z)
    <2>1. Up(hp) \in Block /\ z \in Block /\ Low(z) = z
      BY <1>11, <1>12, HighUp, LowOnly
    <2>2. Low(hq) = Add(Low(Up(hp)), Low(z))
      BY <1>13, <2>1, HalvesAdd
    <2>3. Low(Up(hp)) = Up(v)
      BY <1>1, <1>11, <1>14, LowUp
    <2> QED
      BY <2>1, <2>2, <2>3
  <1>16. PICK cx : /\ cx = Carryless(v, modulus_) /\ cx \in Block /\ m - 1 \notin cx
                   /\ Carryless(Up(v), modulus_) = Up(cx)
    <2>1. modulus_ \in SUBSET (0 .. half - 1)
      BY FieldAssumption, NumBitsRange
    <2> QED
      BY <1>1, <1>14, <2>1, CarrylessUp, CarrylessIs
  <1>17. Carryless(Low(hq), modulus_) = Add(Up(cx), Add(Term(g), Term(yes)))
    <2>1. Power(0, g) \in Block /\ Power(0, yes) \in Block /\ z \in Block
      BY <1>12, TermIs, LowOnly
    <2>2. Carryless(z, modulus_) = Add(Term(g), Term(yes))
      BY <1>12, <2>1, CarrylessAdd, TermIs
    <2> QED
      BY <1>14, <1>15, <1>16, <2>1, <2>2, CarrylessAdd
  <1>18. PICK ce : ce = Carryless(Power(h - 1, e), modulus_) /\ ce \in Block
    BY CarrylessIs
  <1>19. Carryless(Low(hp), modulus_) = Add(cx, ce)
    <2>1. Low(hp) = Add(v, Power(h - 1, e))
      <3>1. h - 1 \in hp <=> e
        <4>1. h - 1 \notin ht
          BY <1>1, <1>11
        <4> QED
          <5>1. h - 1 \in hp <=> ~ (h - 1 \in a <=> h - 1 \in ht)
            BY <1>10, <1>11, AddMembers
          <5> QED
            BY <1>4, <4>1, <5>1
      <3>2. h - 1 \in Low(hp) <=> h - 1 \in hp
        BY <1>1 DEF Low
      <3>3. Power(h - 1, e) = IF h - 1 \in Low(hp) THEN {h - 1} ELSE {}
        BY <3>1, <3>2 DEF Power
      <3> QED
        BY <1>14, <3>3 DEF Add, SymDiff
    <2>2. Power(h - 1, e) \in Block
      BY <1>1, TermIs, LowOnly
    <2> QED
      BY <1>14, <1>16, <1>18, <2>1, <2>2, CarrylessAdd
  <1>20. Doubled(ce) = ToHigh(Term(e))
    BY <1>1, <1>18, TermIs
  <1>21. PICK tt : tt = ToHigh(tp) /\ tt \in Block
    BY <1>6, HalvesType
  <1>22. /\ Reduce(p) = Add(Add(l, tt), Add(cx, ce))
         /\ Reduce(q) = Add(Add(Up(l \ {m - 1}), Add(Up(tt \ {m - 1}), ToHigh(Term(e)))),
                            Add(Up(cx), Add(Term(g), Term(yes))))
    <2>1. Reduce(p) = Add(Add(l, tt), Carryless(Low(hp), modulus_))
      BY <1>2, <1>3, <1>10, <1>21, ReduceIs
    <2>2. Reduce(q) = Add(Add(q.low, ToHigh(tq)), Carryless(Low(hq), modulus_))
      BY <1>3, <1>10, ReduceIs
    <2> QED
      BY <1>2, <1>9, <1>17, <1>19, <1>21, <2>1, <2>2
  <1>23. /\ Doubled(l) = Add(Up(l \ {m - 1}), Term(g))
         /\ Doubled(tt) = Add(Up(tt \ {m - 1}), Term(yes))
         /\ Doubled(cx) = Up(cx)
    <2>1. Doubled(l) = Add(Up(l \ {m - 1}), Term(g))
      BY <1>1, <1>2, <1>4, DoubledIs DEF Carried, Term
    <2>2. m - 1 \in tt <=> h - 1 \in tp
      <3>1. m - 1 \in Int /\ h <= m - 1 /\ m - 1 < m /\ (m - 1) - h = h - 1
        BY <1>1
      <3>2. tp \in SUBSET Int
        BY <1>6, BlockFinite
      <3> QED
        BY <1>1, <1>6, <1>21, <3>1, <3>2, Members
    <2>3. Doubled(tt) = Add(Up(tt \ {m - 1}), Term(yes))
      BY <1>1, <1>4, <1>21, <2>2, DoubledIs DEF Carried, Term
    <2>4. Doubled(cx) = Up(cx)
      BY <1>1, <1>16, DoubledIs
    <2> QED
      BY <2>1, <2>3, <2>4
  <1>24. Doubled(Reduce(p)) = Add(Add(Doubled(l), Doubled(tt)), Add(Doubled(cx), Doubled(ce)))
    <2>1. PICK u \in Block, w \in Block : u = Add(l, tt) /\ w = Add(cx, ce)
      BY <1>16, <1>18, <1>21, AddType
    <2>2. Doubled(Add(u, w)) = Add(Doubled(u), Doubled(w))
      BY DoubledAdd
    <2>3. Doubled(u) = Add(Doubled(l), Doubled(tt))
      BY <1>21, <2>1, DoubledAdd
    <2>4. Doubled(w) = Add(Doubled(cx), Doubled(ce))
      BY <1>16, <1>18, <2>1, DoubledAdd
    <2> QED
      BY <1>22, <2>1, <2>2, <2>3, <2>4
  <1>25. PICK x1, x2, x3, x4, x5, x6 :
           /\ x1 = Up(l \ {m - 1}) /\ x2 = Up(tt \ {m - 1}) /\ x3 = Up(cx)
           /\ x4 = Term(g) /\ x5 = ToHigh(Term(e)) /\ x6 = Term(yes)
    OBVIOUS
  <1>26. Reduce(q) = Add(Add(x1, Add(x2, x5)), Add(x3, Add(x4, x6)))
    BY <1>22, <1>25
  <1>27. Doubled(Reduce(p)) = Add(Add(Add(x1, x4), Add(x2, x6)), Add(x3, x5))
    BY <1>20, <1>23, <1>24, <1>25
  <1> QED
    BY <1>26, <1>27, AddSix

\* The wide product with a power of x is shifted.
LEMMA WidePower ==
  ASSUME NEW a \in Block, NEW k \in Bits, NEW p, p = MulWide(a, {k})
  PROVE  /\ p.low \in Block /\ p.high \in Block
         /\ \A n \in Int : /\ n \in p.low <=> 0 <= n /\ n < num_bits /\ n - k \in a
                           /\ n \in p.high <=> 0 <= n /\ (n + num_bits) - k \in a
  <1>1. PICK h \in Nat, m \in Nat : h = half /\ m = num_bits /\ m = 2 * h /\ h # 0
    BY NumBitsRange
  <1>2. PICK la \in Block, ha \in Block : la = Low(a) /\ ha = High(a)
    BY HalvesType
  <1>3. k \in Int /\ 0 <= k /\ k < m /\ {k} \in Block
    BY <1>1 DEF Bits, Block
  <1>4. a \in SUBSET Int /\ la \in SUBSET Int /\ ha \in SUBSET Int
    BY <1>2, BlockFinite
  <1>5. la \in SUBSET (0 .. half - 1) /\ ha \in SUBSET (0 .. half - 1)
    <2>1. la \in SUBSET (0 .. half - 1)
      BY <1>2 DEF Low
    <2>2. ASSUME NEW n \in ha PROVE n \in 0 .. h - 1
      <3>1. n \in Int /\ 0 <= n /\ n + h \in a
        BY <1>1, <1>2, <1>4, Members
      <3>2. n + h <= m - 1
        BY <1>1, <3>1 DEF Block, Bits
      <3> QED
        BY <1>1, <3>1, <3>2
    <2> QED
      BY <1>1, <2>1, <2>2
  <1>6. \A n \in a : 0 <= n /\ n < m
    BY <1>1 DEF Block, Bits
  <1>7. /\ \A n \in Int : n \in la <=> n \in a /\ 0 <= n /\ n < h
        /\ \A n \in Int : n \in ha <=> 0 <= n /\ n + h \in a
    BY <1>1, <1>2, <1>4, Members
  <1>8. PICK mid : mid = Middle(a, {k})
    OBVIOUS
  <1>9. /\ mid \in Block /\ p.low \in Block /\ p.high \in Block
        /\ p.high = Add(Carryless(ha, High({k})), High(mid))
        /\ p.low = Add(Carryless(la, Low({k})), ToHigh(mid))
    BY <1>2, <1>3, <1>8, MulWideIs
  <1>10. mid = Add(Carryless(la, High({k})), Carryless(ha, Low({k})))
    BY <1>2, <1>8 DEF Middle
  <1>11. /\ \A n \in Int : n \in High(mid) <=> 0 <= n /\ n + h \in mid
         /\ \A n \in Int : n \in ToHigh(mid) <=> h <= n /\ n < m /\ n - h \in mid
    BY <1>1, <1>9, BlockFinite, Members
  <1>12. Carryless(la, {}) = {} /\ Carryless(ha, {}) = {}
    BY CarrylessWithOne
  <1>13. ASSUME NEW n \in Int
         PROVE  /\ n \in p.low <=> 0 <= n /\ n < m /\ n - k \in a
                /\ n \in p.high <=> 0 <= n /\ (n + m) - k \in a
    <2>1. CASE k < h
      <3>1. Low({k}) = {k} /\ High({k}) = {}
        <4>1. {k} \in SUBSET (0 .. half - 1)
          BY <1>1, <1>3, <2>1
        <4> QED
          BY <4>1, LowOnly
      <3>2. mid = Carryless(ha, {k}) /\ p.high = High(mid) /\ p.low = Add(Carryless(la, {k}), ToHigh(mid))
        BY <1>9, <1>10, <1>12, <3>1, AddLaws
      <3>3. k \in 0 .. half - 1
        BY <1>1, <1>3, <2>1
      <3>4. \A i \in Int : i \in mid <=> 0 <= i - k /\ (i - k) + h \in a
        <4>1. \A i \in Int : i \in mid <=> i - k \in ha
          BY <1>5, <3>2, <3>3, CarrylessPower
        <4>2. \A i \in Int : i - k \in Int
          BY <1>3
        <4> QED
          BY <1>7, <4>1, <4>2
      <3>5. n \in Carryless(la, {k}) <=> n - k \in a /\ 0 <= n - k /\ n - k < h
        <4>1. n \in Carryless(la, {k}) <=> n - k \in la
          BY <1>5, <3>3, CarrylessPower
        <4>2. n - k \in Int
          BY <1>3
        <4> QED
          BY <1>7, <4>1, <4>2
      <3>6. n \in ToHigh(mid) <=> h <= n /\ n < m /\ 0 <= (n - h) - k /\ n - k \in a
        <4>1. n - h \in Int /\ ((n - h) - k) + h = n - k
          BY <1>1, <1>3
        <4> QED
          BY <1>11, <3>4, <4>1
      <3>7. n \in p.low <=> ~ (n \in Carryless(la, {k}) <=> n \in ToHigh(mid))
        BY <3>2, AddMembers
      <3>8. n \in p.low <=> 0 <= n /\ n < m /\ n - k \in a
        BY <1>1, <1>3, <1>6, <2>1, <3>5, <3>6, <3>7
      <3>9. n \in p.high <=> 0 <= n /\ 0 <= (n + h) - k /\ (n + m) - k \in a
        <4>1. n + h \in Int /\ ((n + h) - k) + h = (n + m) - k
          BY <1>1, <1>3
        <4> QED
          BY <1>11, <3>2, <3>4, <4>1
      <3> QED
        BY <1>1, <1>3, <2>1, <3>8, <3>9
    <2>2. CASE h <= k
      <3>1. PICK j \in 0 .. half - 1 : j = k - h
        BY <1>1, <1>3, <2>2
      <3>2. Low({k}) = {} /\ High({k}) = {j}
        <4>1. k \notin 0 .. half - 1
          BY <1>1, <1>3, <2>2
        <4> QED
          BY <1>1, <3>1, <4>1 DEF Low, High
      <3>3. mid = Carryless(la, {j}) /\ p.low = ToHigh(mid) /\ p.high = Add(Carryless(ha, {j}), High(mid))
        BY <1>9, <1>10, <1>12, <3>2, AddLaws
      <3>4. \A i \in Int : i \in mid <=> i - j \in a /\ 0 <= i - j /\ i - j < h
        <4>1. \A i \in Int : i \in mid <=> i - j \in la
          BY <1>5, <3>1, <3>3, CarrylessPower
        <4>2. \A i \in Int : i - j \in Int
          BY <1>1, <3>1
        <4> QED
          BY <1>7, <4>1, <4>2
      <3>5. n \in p.low <=> h <= n /\ n < m /\ n - k \in a /\ 0 <= n - k /\ n - k < h
        <4>1. n - h \in Int /\ (n - h) - j = n - k
          BY <1>1, <1>3, <3>1
        <4> QED
          BY <1>11, <3>3, <3>4, <4>1
      <3>6. n \in p.low <=> 0 <= n /\ n < m /\ n - k \in a
        BY <1>1, <1>3, <1>6, <2>2, <3>5
      <3>7. n \in Carryless(ha, {j}) <=> 0 <= n - j /\ (n + m) - k \in a
        <4>1. n \in Carryless(ha, {j}) <=> n - j \in ha
          BY <1>5, <3>1, CarrylessPower
        <4>2. n - j \in Int /\ (n - j) + h = (n + m) - k
          BY <1>1, <1>3, <3>1
        <4> QED
          BY <1>7, <4>1, <4>2
      <3>8. n \in High(mid) <=> 0 <= n /\ (n + m) - k \in a /\ 0 <= (n + m) - k /\ (n + m) - k < h
        <4>1. n + h \in Int /\ (n + h) - j = (n + m) - k
          BY <1>1, <1>3, <3>1
        <4> QED
          BY <1>11, <3>4, <4>1
      <3>9. n \in p.high <=> ~ (n \in Carryless(ha, {j}) <=> n \in High(mid))
        BY <3>3, AddMembers
      <3>10. n \in p.high <=> 0 <= n /\ (n + m) - k \in a
        BY <1>1, <1>3, <1>6, <2>2, <3>1, <3>7, <3>8, <3>9
      <3> QED
        BY <3>6, <3>10
    <2> QED
      BY <1>1, <1>3, <2>1, <2>2
  <1> QED
    BY <1>1, <1>9, <1>13

\* The product of gf128.h with the next power of x is the doubled product.
LEMMA NextPower ==
  ASSUME NEW a \in Block, NEW k \in Bits, k + 1 \in Bits
  PROVE  Mul(a, {k + 1}) = Doubled(Mul(a, {k}))
  <1>1. PICK h \in Nat, m \in Nat : h = half /\ m = num_bits /\ m = 2 * h /\ h # 0
    BY NumBitsRange
  <1>2. PICK j \in Bits : j = k + 1 /\ k \in Int /\ 0 <= k /\ j < m
    BY <1>1 DEF Bits
  <1>3. PICK p, q : p = MulWide(a, {k}) /\ q = MulWide(a, {j})
    OBVIOUS
  <1>4. /\ p.low \in Block /\ p.high \in Block
        /\ \A n \in Int : n \in p.low <=> 0 <= n /\ n < m /\ n - k \in a
        /\ \A n \in Int : n \in p.high <=> 0 <= n /\ (n + m) - k \in a
    <2>1. /\ p.low \in Block /\ p.high \in Block
          /\ \A n \in Int : /\ n \in p.low <=> 0 <= n /\ n < num_bits /\ n - k \in a
                            /\ n \in p.high <=> 0 <= n /\ (n + num_bits) - k \in a
      BY <1>3, WidePower
    <2>2. ASSUME NEW n \in Int
          PROVE  /\ n \in p.low <=> 0 <= n /\ n < m /\ n - k \in a
                 /\ n \in p.high <=> 0 <= n /\ (n + m) - k \in a
      BY <1>1, <2>1
    <2> QED
      BY <2>1, <2>2
  <1>5. /\ q.low \in Block /\ q.high \in Block
        /\ \A n \in Int : n \in q.low <=> 0 <= n /\ n < m /\ n - j \in a
        /\ \A n \in Int : n \in q.high <=> 0 <= n /\ (n + m) - j \in a
    <2>1. /\ q.low \in Block /\ q.high \in Block
          /\ \A n \in Int : /\ n \in q.low <=> 0 <= n /\ n < num_bits /\ n - j \in a
                            /\ n \in q.high <=> 0 <= n /\ (n + num_bits) - j \in a
      BY <1>2, <1>3, WidePower
    <2>2. ASSUME NEW n \in Int
          PROVE  /\ n \in q.low <=> 0 <= n /\ n < m /\ n - j \in a
                 /\ n \in q.high <=> 0 <= n /\ (n + m) - j \in a
      BY <1>1, <2>1
    <2> QED
      BY <2>1, <2>2
  <1>6. \A n \in a : 0 <= n /\ n < m
    BY <1>1 DEF Block, Bits
  <1>7. PICK d, g : d = p.low \ {m - 1} /\ g = Power(0, m - 1 \in p.low)
    OBVIOUS
  <1>8. /\ p.low \in SUBSET Int /\ p.high \in SUBSET Int /\ q.low \in SUBSET Int
        /\ q.high \in SUBSET Int /\ d \in SUBSET Int
    BY <1>4, <1>5, <1>7, BlockFinite
  <1>9. Up(d) \in SUBSET Int /\ Up(p.high) \in SUBSET Int
    BY <1>8 DEF Up
  <1>10. p.high \in SUBSET (0 .. num_bits - 2)
    <2>1. ASSUME NEW n \in p.high PROVE n \in 0 .. m - 2
      <3>1. n \in Int /\ 0 <= n /\ (n + m) - k \in a
        BY <1>4, <1>8
      <3>2. (n + m) - k < m
        BY <1>6, <3>1
      <3> QED
        BY <1>1, <1>2, <3>1, <3>2
    <2> QED
      BY <1>1, <2>1
  <1>11. q.low = Up(d)
    <2>1. ASSUME NEW n \in Int PROVE n \in q.low <=> n \in Up(d)
      <3>1. n - 1 \in Int /\ (n - 1) - k = n - j
        BY <1>2
      <3>2. n \in Up(d) <=> 0 <= n - 1 /\ n - 1 < m /\ n - j \in a /\ n - 1 # m - 1
        <4>1. n \in Up(d) <=> n - 1 \in d
          BY <1>8, Members
        <4>2. n - 1 \in p.low <=> 0 <= n - 1 /\ n - 1 < m /\ n - j \in a
          BY <1>4, <3>1
        <4> QED
          BY <1>7, <4>1, <4>2
      <3>3. n - j \in a => 0 <= n - j
        BY <1>6
      <3> QED
        BY <1>1, <1>2, <1>5, <3>2, <3>3
    <2> QED
      BY <1>8, <1>9, <2>1
  <1>12. q.high = Add(Up(p.high), g)
    <2>1. ASSUME NEW n \in Int PROVE n \in q.high <=> n \in Add(Up(p.high), g)
      <3>1. n - 1 \in Int /\ ((n - 1) + m) - k = (n + m) - j
        BY <1>1, <1>2
      <3>2. n \in Up(p.high) <=> 0 <= n - 1 /\ (n + m) - j \in a
        <4>1. n \in Up(p.high) <=> n - 1 \in p.high
          BY <1>8, Members
        <4> QED
          BY <1>4, <3>1, <4>1
      <3>3. n \in g <=> n = 0 /\ m - j \in a
        <4>1. m - 1 \in p.low <=> (m - 1) - k \in a
          <5>1. m - 1 \in Int /\ 0 <= m - 1 /\ m - 1 < m
            BY <1>1
          <5> QED
            BY <1>4, <5>1
        <4>2. (m - 1) - k = m - j
          BY <1>1, <1>2
        <4> QED
          BY <1>7, <4>1, <4>2 DEF Power
      <3>4. n \in Add(Up(p.high), g) <=> ~ (n \in Up(p.high) <=> n \in g)
        BY AddMembers
      <3>5. CASE n = 0
        <4>1. (n + m) - j = m - j /\ ~ (0 <= n - 1) /\ 0 <= n
          BY <1>1, <1>2, <3>5
        <4> QED
          BY <1>5, <3>2, <3>3, <3>4, <3>5, <4>1
      <3>6. CASE n # 0
        <4>1. 0 <= n <=> 0 <= n - 1
          BY <3>6
        <4> QED
          BY <1>5, <3>2, <3>3, <3>4, <3>6, <4>1
      <3> QED
        BY <3>5, <3>6
    <2>2. Add(Up(p.high), g) \in SUBSET Int
      <3>1. g \in SUBSET Int
        BY <1>7 DEF Power
      <3>2. PICK u \in SUBSET Int : u = Up(p.high)
        BY <1>9
      <3>3. Add(u, g) \in SUBSET Int
        BY <3>1 DEF Add, SymDiff
      <3> QED
        BY <3>2, <3>3
    <2> QED
      BY <1>8, <2>1, <2>2
  <1>13. NextWide(p, q)
    BY <1>1, <1>4, <1>7, <1>10, <1>11, <1>12 DEF NextWide
  <1>14. Reduce(q) = Doubled(Reduce(p))
    BY <1>13, ReduceNext
  <1> QED
    BY <1>2, <1>3, <1>14, MulIs


\* MulSlow's powers: a multiplied by each power of x.
LEMMA ShiftedIs ==
  ASSUME NEW a \in Block, NEW F, F = [i \in Bits |-> IF i = 0 THEN a ELSE Doubled(F[i - 1])]
  PROVE  \A k \in Bits : F[k] = Mul(a, {k})
  <1>1. 0 \in Bits /\ \A k \in Bits : k \in Nat
    BY NumBitsRange DEF Bits
  <1>2. F[0] = Mul(a, {0})
    BY <1>1, MulOne
  <1>3. PICK P : P = {n \in Nat : n \in Bits => F[n] = Mul(a, {n})}
    OBVIOUS
  <1>4. 0 \in P
    BY <1>2, <1>3
  <1>5. ASSUME NEW n \in Nat, n \in P PROVE n + 1 \in P
    <2>1. SUFFICES ASSUME n + 1 \in Bits PROVE F[n + 1] = Mul(a, {n + 1})
      BY <1>3
    <2>2. n \in Bits
      BY <2>1, NumBitsRange DEF Bits
    <2>3. F[n + 1] = Doubled(F[n])
      <3>1. n + 1 # 0 /\ (n + 1) - 1 = n
        OBVIOUS
      <3> QED
        BY <2>1, <3>1
    <2>4. F[n] = Mul(a, {n})
      BY <1>3, <1>5, <2>2
    <2>5. Mul(a, {n + 1}) = Doubled(Mul(a, {n}))
      BY <2>1, <2>2, NextPower
    <2> QED
      BY <2>3, <2>4, <2>5
  <1>6. \A n \in Nat : n \in P
    BY <1>4, <1>5, NumberInduction
  <1> QED
    BY <1>1, <1>3, <1>6

\* The powers that MulSlow adds up: the CHOOSE of its local function has a witness.
LEMMA Shifted ==
  ASSUME NEW a \in Block
  PROVE  \E F : /\ \A b : MulSlow(a, b) = FoldFunctionOnSet(Add, Zero, F, b)
                /\ \A k \in Bits : F[k] = Mul(a, {k})
  <1> DEFINE Next1(F, i) == IF i = 0 THEN a ELSE Doubled(F[i - 1])
             Fits(F) == F = [i \in Bits |-> Next1(F, i)]
  <1>1. PICK G : G = [k \in Bits |-> Mul(a, {k})]
    OBVIOUS
  <1>2. \A k \in Bits : G[k] = Next1(G, k)
    <2> SUFFICES ASSUME NEW k \in Bits PROVE G[k] = Next1(G, k)
      OBVIOUS
    <2>1. CASE k = 0
      BY <1>1, <2>1, MulOne
    <2>2. CASE k # 0
      <3>1. k - 1 \in Bits /\ (k - 1) + 1 = k
        BY <2>2, NumBitsRange DEF Bits
      <3>2. PICK j \in Bits : j = k - 1 /\ j + 1 = k
        BY <3>1
      <3>3. Mul(a, {j + 1}) = Doubled(Mul(a, {j}))
        BY <3>2, NextPower
      <3>4. G[k] = Doubled(G[j])
        BY <1>1, <3>2, <3>3
      <3> QED
        BY <2>2, <3>2, <3>4
    <2> QED
      BY <2>1, <2>2
  <1>3. Fits(G)
    <2> HIDE DEF Next1
    <2> QED
      BY <1>1, <1>2
  <1>4. PICK F : F = CHOOSE H : Fits(H)
    OBVIOUS
  <1>5. Fits(F)
    <2> HIDE DEF Fits
    <2> QED
      BY <1>3, <1>4
  <1>6. \A k \in Bits : F[k] = Mul(a, {k})
    BY <1>5, ShiftedIs
  <1>7. \A b : MulSlow(a, b) = FoldFunctionOnSet(Add, Zero, CHOOSE H : Fits(H), b)
    BY DEF MulSlow
  <1> QED
    BY <1>4, <1>6, <1>7

\* Adding up the powers of x in b multiplies by b.
LEMMA SumOfPowers ==
  ASSUME NEW a \in Block, NEW b \in Block, NEW F, \A k \in Bits : F[k] = Mul(a, {k})
  PROVE  FoldFunctionOnSet(Add, Zero, F, b) = Mul(a, b)
  <1> DEFINE step(g, s) == IF s = {} THEN Zero ELSE Add(F[Chosen(s)], g[s \ {Chosen(s)}])
             Fits(g) == g = [s \in SUBSET b |-> step(g, s)]
  <1>1. PICK g : g = [s \in SUBSET b |-> Mul(a, s)]
    OBVIOUS
  <1>2. \A s \in SUBSET b : s # {} => /\ Chosen(s) \in s /\ Chosen(s) \in Bits
                                      /\ s \ {Chosen(s)} \in SUBSET b
    BY DEF Chosen, Block
  <1>3. \A s \in SUBSET b : g[s] = step(g, s)
    <2> SUFFICES ASSUME NEW s \in SUBSET b PROVE g[s] = step(g, s)
      OBVIOUS
    <2>1. CASE s = {}
      BY <1>1, <2>1, MulLaws DEF Zero
    <2>2. CASE s # {}
      <3>1. PICK top, r : top = Chosen(s) /\ r = s \ {top} /\ top \in s /\ top \in Bits /\ r \in SUBSET b
        BY <1>2, <2>2
      <3>2. {top} \in Block /\ r \in Block
        BY <3>1 DEF Block
      <3>3. Mul(a, Add({top}, r)) = Add(Mul(a, {top}), Mul(a, r))
        BY <3>2, MulLaws
      <3>4. Add({top}, r) = s
        BY <3>1 DEF Add, SymDiff
      <3>5. F[top] = Mul(a, {top}) /\ g[s] = Mul(a, s) /\ g[r] = Mul(a, r)
        BY <1>1, <3>1
      <3>6. g[s] = Add(F[top], g[r])
        BY <3>3, <3>4, <3>5
      <3> QED
        BY <2>2, <3>1, <3>6
    <2> QED
      BY <2>1, <2>2
  <1>4. Fits(g)
    <2> HIDE DEF step
    <2> QED
      BY <1>1, <1>3
  <1>5. PICK h : h = CHOOSE k : Fits(k)
    OBVIOUS
  <1>6. Fits(h)
    <2> HIDE DEF Fits
    <2> QED
      BY <1>4, <1>5
  <1>7. \A s \in SUBSET b : h[s] = step(h, s)
    <2> HIDE DEF step
    <2> QED
      BY <1>6
  <1>8. PICK P : P = {s \in SUBSET b : g[s] = h[s]}
    OBVIOUS
  <1>9. {} \in P
    BY <1>3, <1>7, <1>8
  <1>10. ASSUME NEW s \in SUBSET b, s # {}, \A bit \in s : s \ {bit} \in P
         PROVE  s \in P
    <2>1. Chosen(s) \in s
      BY <1>2, <1>10
    <2>2. g[s \ {Chosen(s)}] = h[s \ {Chosen(s)}]
      BY <1>8, <1>10, <2>1
    <2>3. /\ g[s] = Add(F[Chosen(s)], g[s \ {Chosen(s)}])
          /\ h[s] = Add(F[Chosen(s)], h[s \ {Chosen(s)}])
      BY <1>3, <1>7, <1>10
    <2> QED
      BY <1>8, <2>2, <2>3
  <1>11. \A s \in SUBSET b : s \in P
    <2>1. IsFiniteSet(b)
      BY BlockFinite
    <2> QED
      BY <1>9, <1>10, <2>1, SubsetInduction
  <1>12. g[b] = h[b]
    BY <1>8, <1>11
  <1>13. FoldFunctionOnSet(Add, Zero, F, b) = (CHOOSE k : Fits(k))[b]
    BY DEF FoldFunctionOnSet, MapThenFoldSet, Chosen
  <1>14. g[b] = Mul(a, b)
    BY <1>1
  <1> QED
    BY <1>5, <1>12, <1>13, <1>14

\* The library's two builds multiply alike: the operator*= of gf128.cpp that is
\* built from carry-less products of 64-bit halves and a reduction in two steps
\* gives what the "slow, but straight-forward" one gives bit by bit, for every
\* width and for every polynomial of the field that fits into a half.
THEOREM BuildsMultiplyAlike ==
  ASSUME NEW a \in Block, NEW b \in Block
  PROVE  Mul(a, b) = MulSlow(a, b)
  <1>1. PICK F : /\ \A c : MulSlow(a, c) = FoldFunctionOnSet(Add, Zero, F, c)
                 /\ \A k \in Bits : F[k] = Mul(a, {k})
    BY Shifted
  <1>2. FoldFunctionOnSet(Add, Zero, F, b) = Mul(a, b)
    BY <1>1, SumOfPowers
  <1>3. MulSlow(a, b) = FoldFunctionOnSet(Add, Zero, F, b)
    BY <1>1
  <1> QED
    BY <1>2, <1>3

-----------------------------------------------------------------------------
(* The product of the field is associative.                                *)

Additive(F) ==
  /\ F \in [Block -> Block]
  /\ \A b, c \in Block : F[Add(b, c)] = Add(F[b], F[c])

\* Two sums of powers of x are mapped alike if the powers are.
LEMMA AdditiveSame ==
  ASSUME NEW F, NEW G, Additive(F), Additive(G), \A k \in Bits : F[{k}] = G[{k}]
  PROVE  \A b \in Block : F[b] = G[b]
  <1> SUFFICES ASSUME NEW b \in Block PROVE F[b] = G[b]
    OBVIOUS
  <1>1. PICK P : P = {s \in SUBSET b : F[s] = G[s]}
    OBVIOUS
  <1>2. {} \in P
    <2>1. {} \in Block /\ Add({}, {}) = {}
      BY AddLaws DEF Block
    <2>2. F[{}] = Add(F[{}], F[{}]) /\ G[{}] = Add(G[{}], G[{}])
      BY <2>1 DEF Additive
    <2>3. Add(F[{}], F[{}]) = {} /\ Add(G[{}], G[{}]) = {}
      BY AddLaws
    <2> QED
      BY <1>1, <2>2, <2>3
  <1>3. ASSUME NEW s \in SUBSET b, s # {}, \A k \in s : s \ {k} \in P PROVE s \in P
    <2>1. PICK k \in s : TRUE
      BY <1>3
    <2>2. PICK r : r = s \ {k}
      OBVIOUS
    <2>3. r \in Block /\ {k} \in Block /\ k \in Bits
      BY <2>2 DEF Block
    <2>4. s = Add({k}, r)
      BY <2>2 DEF Add, SymDiff
    <2>5. F[r] = G[r]
      BY <1>1, <1>3, <2>2
    <2>6. F[s] = Add(F[{k}], F[r]) /\ G[s] = Add(G[{k}], G[r])
      BY <2>3, <2>4 DEF Additive
    <2>7. F[s] = G[s]
      BY <2>3, <2>5, <2>6
    <2> QED
      BY <1>1, <2>7
  <1>4. IsFiniteSet(b)
    BY BlockFinite
  <1>5. \A s \in SUBSET b : s \in P
    BY <1>2, <1>3, <1>4, SubsetInduction
  <1> QED
    BY <1>1, <1>5

\* A factor may be doubled before or after a product with a power of x ...
LEMMA MulDoubledPower ==
  ASSUME NEW b \in Block, NEW k \in Bits
  PROVE  Mul(Doubled(b), {k}) = Doubled(Mul(b, {k}))
  <1>1. PICK P : P = {n \in Nat : n \in Bits => Mul(Doubled(b), {n}) = Doubled(Mul(b, {n}))}
    OBVIOUS
  <1>2. Doubled(b) \in Block
    BY DoubledIs
  <1>3. 0 \in P
    <2>1. Mul(Doubled(b), {0}) = Doubled(b) /\ Mul(b, {0}) = b
      BY <1>2, MulOne
    <2> QED
      BY <1>1, <2>1
  <1>4. ASSUME NEW n \in Nat, n \in P PROVE n + 1 \in P
    <2>1. SUFFICES ASSUME n + 1 \in Bits
                   PROVE  Mul(Doubled(b), {n + 1}) = Doubled(Mul(b, {n + 1}))
      BY <1>1
    <2>2. n \in Bits
      BY <2>1, NumBitsRange DEF Bits
    <2>3. Mul(Doubled(b), {n + 1}) = Doubled(Mul(Doubled(b), {n}))
      BY <1>2, <2>1, <2>2, NextPower
    <2>4. Mul(b, {n + 1}) = Doubled(Mul(b, {n}))
      BY <2>1, <2>2, NextPower
    <2>5. Mul(Doubled(b), {n}) = Doubled(Mul(b, {n}))
      BY <1>1, <1>4, <2>2
    <2> QED
      BY <2>3, <2>4, <2>5
  <1>5. \A n \in Nat : n \in P
    BY <1>3, <1>4, NumberInduction
  <1>6. k \in Nat
    BY NumBitsRange DEF Bits
  <1> QED
    BY <1>1, <1>5, <1>6

\* ... or with any element.
LEMMA MulDoubled ==
  ASSUME NEW a \in Block, NEW b \in Block
  PROVE  Mul(a, Doubled(b)) = Doubled(Mul(a, b))
  <1>1. PICK F, G : /\ F = [c \in Block |-> Mul(Doubled(b), c)]
                    /\ G = [c \in Block |-> Doubled(Mul(b, c))]
    OBVIOUS
  <1>2. Doubled(b) \in Block
    BY DoubledIs
  <1>3. Additive(F)
    <2>1. \A c \in Block : Mul(Doubled(b), c) \in Block
      BY <1>2, MulLaws
    <2>2. \A c, d \in Block :
            Mul(Doubled(b), Add(c, d)) = Add(Mul(Doubled(b), c), Mul(Doubled(b), d))
      BY <1>2, MulLaws
    <2> QED
      BY <1>1, <2>1, <2>2, AddType DEF Additive
  <1>4. Additive(G)
    <2>1. ASSUME NEW c \in Block, NEW d \in Block
          PROVE  /\ Doubled(Mul(b, c)) \in Block
                 /\ Doubled(Mul(b, Add(c, d))) = Add(Doubled(Mul(b, c)), Doubled(Mul(b, d)))
      <3>1. /\ Mul(b, c) \in Block /\ Mul(b, d) \in Block
            /\ Mul(b, Add(c, d)) = Add(Mul(b, c), Mul(b, d))
        BY MulLaws
      <3>2. Doubled(Mul(b, c)) \in Block
        BY <3>1, DoubledIs
      <3>3. Doubled(Add(Mul(b, c), Mul(b, d))) = Add(Doubled(Mul(b, c)), Doubled(Mul(b, d)))
        BY <3>1, DoubledAdd
      <3> QED
        BY <3>1, <3>2, <3>3
    <2> QED
      BY <1>1, <2>1, AddType DEF Additive
  <1>5. \A k \in Bits : F[{k}] = G[{k}]
    <2>1. \A k \in Bits : {k} \in Block
      BY DEF Block
    <2> QED
      BY <1>1, <2>1, MulDoubledPower
  <1>6. F[a] = G[a]
    BY <1>3, <1>4, <1>5, AdditiveSame
  <1>7. Mul(Doubled(b), a) = Mul(a, Doubled(b)) /\ Mul(b, a) = Mul(a, b)
    BY <1>2, MulLaws
  <1> QED
    BY <1>1, <1>6, <1>7

\* The product is associative if the last factor is a power of x ...
LEMMA MulAssociatesPower ==
  ASSUME NEW a \in Block, NEW b \in Block, NEW k \in Bits
  PROVE  Mul(a, Mul(b, {k})) = Mul(Mul(a, b), {k})
  <1>1. PICK P : P = {n \in Nat : n \in Bits => Mul(a, Mul(b, {n})) = Mul(Mul(a, b), {n})}
    OBVIOUS
  <1>2. Mul(a, b) \in Block
    BY MulLaws
  <1>3. 0 \in P
    <2>1. Mul(b, {0}) = b /\ Mul(Mul(a, b), {0}) = Mul(a, b)
      BY <1>2, MulOne
    <2> QED
      BY <1>1, <2>1
  <1>4. ASSUME NEW n \in Nat, n \in P PROVE n + 1 \in P
    <2>1. SUFFICES ASSUME n + 1 \in Bits
                   PROVE  Mul(a, Mul(b, {n + 1})) = Mul(Mul(a, b), {n + 1})
      BY <1>1
    <2>2. n \in Bits
      BY <2>1, NumBitsRange DEF Bits
    <2>3. Mul(b, {n + 1}) = Doubled(Mul(b, {n}))
      BY <2>1, <2>2, NextPower
    <2>4. Mul(Mul(a, b), {n + 1}) = Doubled(Mul(Mul(a, b), {n}))
      BY <1>2, <2>1, <2>2, NextPower
    <2>5. Mul(b, {n}) \in Block
      <3>1. {n} \in Block
        BY <2>2 DEF Block
      <3> QED
        BY <3>1, MulLaws
    <2>6. Mul(a, Doubled(Mul(b, {n}))) = Doubled(Mul(a, Mul(b, {n})))
      BY <2>5, MulDoubled
    <2>7. Mul(a, Mul(b, {n})) = Mul(Mul(a, b), {n})
      BY <1>1, <1>4, <2>2
    <2> QED
      BY <2>3, <2>4, <2>6, <2>7
  <1>5. \A n \in Nat : n \in P
    BY <1>3, <1>4, NumberInduction
  <1>6. k \in Nat
    BY NumBitsRange DEF Bits
  <1> QED
    BY <1>1, <1>5, <1>6

\* ... and therefore for all factors.
LEMMA MulAssociates ==
  ASSUME NEW a \in Block, NEW b \in Block, NEW c \in Block
  PROVE  Mul(a, Mul(b, c)) = Mul(Mul(a, b), c)
  <1>1. PICK F, G : /\ F = [d \in Block |-> Mul(a, Mul(b, d))]
                    /\ G = [d \in Block |-> Mul(Mul(a, b), d)]
    OBVIOUS
  <1>2. Mul(a, b) \in Block
    BY MulLaws
  <1>3. Additive(F)
    <2>1. ASSUME NEW d \in Block, NEW e \in Block
          PROVE  /\ Mul(a, Mul(b, d)) \in Block
                 /\ Mul(a, Mul(b, Add(d, e))) = Add(Mul(a, Mul(b, d)), Mul(a, Mul(b, e)))
      <3>1. /\ Mul(b, d) \in Block /\ Mul(b, e) \in Block
            /\ Mul(b, Add(d, e)) = Add(Mul(b, d), Mul(b, e))
        BY MulLaws
      <3> QED
        BY <3>1, MulLaws
    <2> QED
      BY <1>1, <2>1, AddType DEF Additive
  <1>4. Additive(G)
    <2>1. \A d, e \in Block :
            /\ Mul(Mul(a, b), d) \in Block
            /\ Mul(Mul(a, b), Add(d, e)) = Add(Mul(Mul(a, b), d), Mul(Mul(a, b), e))
      BY <1>2, MulLaws
    <2> QED
      BY <1>1, <2>1, AddType DEF Additive
  <1>5. \A k \in Bits : F[{k}] = G[{k}]
    <2>1. \A k \in Bits : {k} \in Block
      BY DEF Block
    <2> QED
      BY <1>1, <2>1, MulAssociatesPower
  <1>6. F[c] = G[c]
    BY <1>3, <1>4, <1>5, AdditiveSame
  <1> QED
    BY <1>1, <1>6

-----------------------------------------------------------------------------
(* Products of several elements.                                           *)

MulPair == [p \in Block \X Block |-> Mul(p[1], p[2])]

\* The product of the field can be folded.
LEMMA MulFoldable == Foldable(MulPair, One, Block)
  <1>1. \A a, b \in Block : MulPair[<<a, b>>] = Mul(a, b) /\ Mul(a, b) \in Block
    BY MulLaws DEF MulPair
  <1>2. MulPair \in [Block \X Block -> Block]
    BY MulLaws DEF MulPair
  <1>3. One \in Block /\ One = {0}
    BY NumBitsRange DEF One, Block, Bits
  <1>4. ASSUME NEW a \in Block PROVE MulPair[<<One, a>>] = a
    <2>1. Mul(One, a) = Mul(a, One)
      BY <1>3, MulLaws
    <2>2. Mul(a, One) = a
      BY <1>3, MulOne
    <2> QED
      BY <1>1, <1>3, <2>1, <2>2
  <1>5. ASSUME NEW a \in Block, NEW b \in Block PROVE MulPair[<<a, b>>] = MulPair[<<b, a>>]
    <2>1. Mul(a, b) = Mul(b, a)
      BY MulLaws
    <2> QED
      BY <1>1, <2>1
  <1>6. \A a, b, c \in Block : MulPair[<<a, MulPair[<<b, c>>]>>] = MulPair[<<MulPair[<<a, b>>], c>>]
    <2> SUFFICES ASSUME NEW a \in Block, NEW b \in Block, NEW c \in Block
                 PROVE  MulPair[<<a, MulPair[<<b, c>>]>>] = MulPair[<<MulPair[<<a, b>>], c>>]
      OBVIOUS
    <2>1. MulPair[<<a, MulPair[<<b, c>>]>>] = Mul(a, Mul(b, c))
      BY <1>1
    <2>2. MulPair[<<MulPair[<<a, b>>], c>>] = Mul(Mul(a, b), c)
      BY <1>1
    <2> QED
      BY <2>1, <2>2, MulAssociates
  <1> QED
    BY <1>2, <1>3, <1>4, <1>5, <1>6 DEF Foldable

\* A product of products is a product of two folds.
LEMMA FoldedPointwise ==
  ASSUME NEW S, IsFiniteSet(S), NEW V, NEW op, NEW base, Foldable(op, base, V),
         NEW f, NEW g, NEW h,
         \A i \in S : f[i] \in V /\ g[i] \in V /\ h[i] = op[<<f[i], g[i]>>]
  PROVE  Folded(op, base, h, S) = op[<<Folded(op, base, f, S), Folded(op, base, g, S)>>]
  <1> DEFINE F(s) == Folded(op, base, f, s)
             G(s) == Folded(op, base, g, s)
             H(s) == Folded(op, base, h, s)
  <1>1. PICK P : P = {s \in SUBSET S : H(s) = op[<<F(s), G(s)>>]}
    OBVIOUS
  <1>2. /\ base \in V /\ \A a \in V : op[<<base, a>>] = a
        /\ \A a, b \in V : op[<<a, b>>] \in V /\ op[<<a, b>>] = op[<<b, a>>]
        /\ \A a, b, c \in V : op[<<a, op[<<b, c>>]>>] = op[<<op[<<a, b>>], c>>]
    BY DEF Foldable
  <1>3. \A i \in S : f[i] \in V /\ g[i] \in V /\ h[i] \in V
    BY <1>2
  <1>4. {} \in P
    <2>1. F({}) = base /\ G({}) = base /\ H({}) = base
      BY FoldedEmpty
    <2> HIDE DEF F, G, H
    <2> QED
      BY <1>1, <1>2, <2>1
  <1>5. ASSUME NEW s \in SUBSET S, s # {}, \A i \in s : s \ {i} \in P PROVE s \in P
    <2>1. PICK i \in s : TRUE
      BY <1>5
    <2>2. PICK r \in SUBSET S : r = s \ {i}
      OBVIOUS
    <2>3. IsFiniteSet(s) /\ IsFiniteSet(r)
      BY FS_Subset
    <2>4. F(r) \in V /\ G(r) \in V
      BY <2>3, FoldedType
    <2>5. F(s) = op[<<f[i], F(r)>>]
      <3>1. \A k \in s : f[k] \in V
        BY <1>3
      <3> QED
        BY <2>2, <2>3, <3>1, FoldedRemove
    <2>6. G(s) = op[<<g[i], G(r)>>]
      <3>1. \A k \in s : g[k] \in V
        BY <1>3
      <3> QED
        BY <2>2, <2>3, <3>1, FoldedRemove
    <2>7. H(s) = op[<<h[i], H(r)>>]
      <3>1. \A k \in s : h[k] \in V
        BY <1>3
      <3> QED
        BY <2>2, <2>3, <3>1, FoldedRemove
    <2>8. H(r) = op[<<F(r), G(r)>>]
      BY <1>1, <1>5, <2>2
    <2> HIDE DEF F, G, H
    <2>9. PICK a, b, c, d : a = f[i] /\ b = g[i] /\ c = F(r) /\ d = G(r)
      OBVIOUS
    <2>10. a \in V /\ b \in V /\ c \in V /\ d \in V
      BY <1>3, <2>4, <2>9
    <2>11. H(s) = op[<<op[<<a, b>>], op[<<c, d>>]>>]
      BY <2>7, <2>8, <2>9
    <2>12. op[<<op[<<a, b>>], op[<<c, d>>]>>] = op[<<op[<<op[<<a, b>>], c>>], d>>]
      <3>1. PICK e \in V : e = op[<<a, b>>]
        BY <1>2, <2>10
      <3>2. op[<<e, op[<<c, d>>]>>] = op[<<op[<<e, c>>], d>>]
        BY <1>2, <2>10
      <3> QED
        BY <3>1, <3>2
    <2>13. op[<<op[<<a, b>>], c>>] = op[<<op[<<a, c>>], b>>]
      <3>1. op[<<op[<<a, b>>], c>>] = op[<<a, op[<<b, c>>]>>] /\ op[<<b, c>>] = op[<<c, b>>]
        BY <1>2, <2>10
      <3>2. op[<<op[<<a, c>>], b>>] = op[<<a, op[<<c, b>>]>>]
        BY <1>2, <2>10
      <3> QED
        BY <3>1, <3>2
    <2>14. op[<<op[<<a, c>>], op[<<b, d>>]>>] = op[<<op[<<op[<<a, c>>], b>>], d>>]
      <3>1. PICK e \in V : e = op[<<a, c>>]
        BY <1>2, <2>10
      <3>2. op[<<e, op[<<b, d>>]>>] = op[<<op[<<e, b>>], d>>]
        BY <1>2, <2>10
      <3> QED
        BY <3>1, <3>2
    <2>15. H(s) = op[<<F(s), G(s)>>]
      BY <2>5, <2>6, <2>9, <2>11, <2>12, <2>13, <2>14
    <2> QED
      BY <1>1, <2>15
  <1>6. \A s \in SUBSET S : s \in P
    BY <1>4, <1>5, SubsetInduction
  <1>7. S \in P
    BY <1>6
  <1> QED
    BY <1>1, <1>7

\* A fold does not depend on the names of what is folded.
LEMMA FoldedRenamed ==
  ASSUME NEW S, IsFiniteSet(S), NEW V, NEW op, NEW base, Foldable(op, base, V),
         NEW b, \A i, j \in S : b[i] = b[j] => i = j,
         NEW f, NEW g, \A i \in S : b[i] \in S /\ f[b[i]] \in V /\ g[i] = f[b[i]]
  PROVE  Folded(op, base, g, S) = Folded(op, base, f, S)
  <1> DEFINE Image(s) == {b[i] : i \in s}
  <1>1. \A i \in S : g[i] \in V /\ g[i] = f[b[i]]
    OBVIOUS
  <1>2. PICK P : P = {s \in SUBSET S : Folded(op, base, g, s) = Folded(op, base, f, Image(s))}
    OBVIOUS
  <1>3. {} \in P
    <2>1. Image({}) = {}
      OBVIOUS
    <2>2. Folded(op, base, g, {}) = base /\ Folded(op, base, f, {}) = base
      BY FoldedEmpty
    <2> QED
      BY <1>2, <2>1, <2>2
  <1>4. ASSUME NEW s \in SUBSET S, s # {}, \A i \in s : s \ {i} \in P PROVE s \in P
    <2>1. PICK i \in s : TRUE
      BY <1>4
    <2>2. PICK r \in SUBSET S : r = s \ {i}
      OBVIOUS
    <2>3. PICK p, q : p = Image(s) /\ q = Image(r)
      OBVIOUS
    <2>4. q = p \ {b[i]} /\ b[i] \in p /\ p \in SUBSET S
      BY <2>2, <2>3
    <2>5. IsFiniteSet(s) /\ IsFiniteSet(p)
      BY <2>4, FS_Subset
    <2>6. \A j \in p : f[j] \in V
      BY <2>3
    <2>7. Folded(op, base, g, s) = op[<<g[i], Folded(op, base, g, r)>>]
      BY <1>1, <2>2, <2>5, FoldedRemove
    <2>8. Folded(op, base, f, p) = op[<<f[b[i]], Folded(op, base, f, q)>>]
      BY <2>4, <2>5, <2>6, FoldedRemove
    <2>9. Folded(op, base, g, r) = Folded(op, base, f, q)
      BY <1>2, <1>4, <2>2, <2>3
    <2>10. Folded(op, base, g, s) = Folded(op, base, f, p)
      BY <1>1, <2>7, <2>8, <2>9
    <2> QED
      BY <1>2, <2>3, <2>10
  <1>5. \A s \in SUBSET S : s \in P
    BY <1>3, <1>4, SubsetInduction
  <1>6. Folded(op, base, g, S) = Folded(op, base, f, Image(S))
    BY <1>2, <1>5
  <1>7. Image(S) = S
    <2>1. PICK c : c = [i \in S |-> b[i]]
      OBVIOUS
    <2>2. c \in Injection(S, S)
      BY <2>1 DEF Injection, IsInjective
    <2>3. c \in Surjection(S, S)
      BY <2>2, FS_Injection
    <2> QED
      BY <2>1, <2>3 DEF Surjection
  <1> QED
    BY <1>6, <1>7

-----------------------------------------------------------------------------
(* Powers of an element.                                                   *)

ToThe(el, n) == Folded(MulPair, One, [i \in 1 .. n |-> el], 1 .. n)

\* One factor of a product.
LEMMA ProductRemove ==
  ASSUME NEW S, IsFiniteSet(S), NEW f, \A i \in S : f[i] \in Block, NEW e \in S
  PROVE  Folded(MulPair, One, f, S) = MulPair[<<f[e], Folded(MulPair, One, f, S \ {e})>>]
  BY MulFoldable, FoldedRemove

\* The product of equal factors is a power.
LEMMA EqualFactors ==
  ASSUME NEW el \in Block, NEW S, IsFiniteSet(S), NEW f, \A i \in S : f[i] = el
  PROVE  Folded(MulPair, One, f, S) = ToThe(el, Cardinality(S))
  <1>1. PICK n \in Nat : n = Cardinality(S)
    BY FS_CardinalityType
  <1>2. IsFiniteSet(1 .. n) /\ Cardinality(1 .. n) = n
    <2>1. (IF 1 > n THEN 0 ELSE n - 1 + 1) = n
      OBVIOUS
    <2> QED
      BY <2>1, FS_Interval
  <1>3. PICK g : g = [i \in 1 .. n |-> el]
    OBVIOUS
  <1>4. PICK P : P = {s \in SUBSET S : \A t \in SUBSET (1 .. n) :
                        Cardinality(s) = Cardinality(t) =>
                          Folded(MulPair, One, f, s) = Folded(MulPair, One, g, t)}
    OBVIOUS
  <1>5. {} \in P
    <2> SUFFICES ASSUME NEW t \in SUBSET (1 .. n), Cardinality({}) = Cardinality(t)
                 PROVE  Folded(MulPair, One, f, {}) = Folded(MulPair, One, g, t)
      BY <1>4
    <2>1. t = {}
      <3>1. IsFiniteSet(t)
        BY <1>2, FS_Subset
      <3> QED
        BY <3>1, FS_EmptySet
    <2> QED
      BY <2>1, MulFoldable, FoldedEmpty
  <1>6. ASSUME NEW s \in SUBSET S, s # {}, \A i \in s : s \ {i} \in P PROVE s \in P
    <2> SUFFICES ASSUME NEW t \in SUBSET (1 .. n), Cardinality(s) = Cardinality(t)
                 PROVE  Folded(MulPair, One, f, s) = Folded(MulPair, One, g, t)
      BY <1>4
    <2>1. IsFiniteSet(s) /\ IsFiniteSet(t)
      BY <1>2, FS_Subset
    <2>2. t # {}
      BY <1>6, <2>1, FS_EmptySet
    <2>3. PICK i \in s : \E j \in t : TRUE
      BY <1>6, <2>2
    <2> PICK j \in t : TRUE
      BY <2>3
    <2>4. PICK r \in SUBSET S, q \in SUBSET (1 .. n) : r = s \ {i} /\ q = t \ {j}
      OBVIOUS
    <2>5. Cardinality(r) = Cardinality(q)
      <3>1. Cardinality(s \ {i}) = Cardinality(s) - 1
        BY <2>1, FS_RemoveElement
      <3>2. Cardinality(t \ {j}) = Cardinality(t) - 1
        BY <2>1, FS_RemoveElement
      <3> QED
        BY <2>4, <3>1, <3>2
    <2>6. Folded(MulPair, One, f, r) = Folded(MulPair, One, g, q)
      BY <1>4, <1>6, <2>3, <2>4, <2>5
    <2>7. Folded(MulPair, One, f, s) = MulPair[<<f[i], Folded(MulPair, One, f, r)>>]
      BY <2>1, <2>3, <2>4, ProductRemove
    <2>8. Folded(MulPair, One, g, t) = MulPair[<<g[j], Folded(MulPair, One, g, q)>>]
      <3>1. \A k \in t : g[k] \in Block
        BY <1>3
      <3>2. Folded(MulPair, One, g, t) = MulPair[<<g[j], Folded(MulPair, One, g, t \ {j})>>]
        BY <2>1, <3>1, ProductRemove
      <3> QED
        BY <2>4, <3>2
    <2>9. f[i] = el /\ g[j] = el
      BY <1>3, <2>3
    <2> QED
      BY <2>6, <2>7, <2>8, <2>9
  <1>7. \A s \in SUBSET S : s \in P
    BY <1>5, <1>6, SubsetInduction
  <1> QED
    BY <1>1, <1>2, <1>3, <1>4, <1>7 DEF ToThe

\* Powers are defined by their recursion.
LEMMA ToTheNext ==
  ASSUME NEW el \in Block
  PROVE  /\ ToThe(el, 0) = One
         /\ \A n \in Nat : ToThe(el, n) \in Block /\ ToThe(el, n + 1) = Mul(el, ToThe(el, n))
  <1>1. ToThe(el, 0) = One
    <2>1. 1 .. 0 = {}
      OBVIOUS
    <2> QED
      BY <2>1, MulFoldable, FoldedEmpty DEF ToThe
  <1>2. ASSUME NEW n \in Nat PROVE ToThe(el, n) \in Block
    <2>1. IsFiniteSet(1 .. n)
      BY FS_Interval
    <2> QED
      BY <2>1, MulFoldable, FoldedType DEF ToThe
  <1>3. ASSUME NEW n \in Nat PROVE ToThe(el, n + 1) = Mul(el, ToThe(el, n))
    <2>1. PICK m \in Nat : m = n + 1
      OBVIOUS
    <2>2. PICK f, g : f = [i \in 1 .. m |-> el] /\ g = [i \in 1 .. n |-> el]
      OBVIOUS
    <2>3. IsFiniteSet(1 .. m) /\ IsFiniteSet(1 .. n) /\ m \in 1 .. m /\ (1 .. m) \ {m} = 1 .. n
      BY <2>1, FS_Interval
    <2>4. \A i \in 1 .. m : f[i] \in Block
      BY <2>2
    <2>5. Folded(MulPair, One, f, 1 .. m) = MulPair[<<f[m], Folded(MulPair, One, f, 1 .. n)>>]
      <3>1. PICK I : I = 1 .. m
        OBVIOUS
      <3>2. Folded(MulPair, One, f, I) = MulPair[<<f[m], Folded(MulPair, One, f, I \ {m})>>]
        BY <2>3, <2>4, <3>1, ProductRemove
      <3> QED
        BY <2>3, <3>1, <3>2
    <2>6. Folded(MulPair, One, f, 1 .. n) = Folded(MulPair, One, g, 1 .. n)
      <3>1. \A i \in 1 .. n : f[i] = g[i] /\ f[i] \in Block
        BY <2>1, <2>2
      <3> QED
        BY <2>3, <3>1, MulFoldable, FoldedSame
    <2>7. Folded(MulPair, One, g, 1 .. n) = ToThe(el, n) /\ Folded(MulPair, One, f, 1 .. m) = ToThe(el, m)
      BY <2>2 DEF ToThe
    <2>8. ToThe(el, m) = MulPair[<<el, ToThe(el, n)>>]
      BY <2>1, <2>2, <2>3, <2>5, <2>6, <2>7
    <2> QED
      BY <1>2, <2>1, <2>8 DEF MulPair
  <1> QED
    BY <1>1, <1>2, <1>3

\* Exponents add up.
LEMMA ToTheSum ==
  ASSUME NEW el \in Block, NEW m \in Nat, NEW n \in Nat
  PROVE  Mul(ToThe(el, m), ToThe(el, n)) = ToThe(el, m + n)
  <1>1. PICK P : P = {k \in Nat : Mul(ToThe(el, m), ToThe(el, k)) = ToThe(el, m + k)}
    OBVIOUS
  <1>2. \A k \in Nat : ToThe(el, k) \in Block
    BY ToTheNext
  <1>3. 0 \in P
    <2>1. ToThe(el, 0) = {0} /\ m + 0 = m
      BY ToTheNext DEF One
    <2> QED
      BY <1>1, <1>2, <2>1, MulOne
  <1>4. ASSUME NEW k \in Nat, k \in P PROVE k + 1 \in P
    <2>1. PICK a \in Block, b \in Block : a = ToThe(el, m) /\ b = ToThe(el, k)
      BY <1>2
    <2>2. ToThe(el, k + 1) = Mul(el, b)
      BY <2>1, ToTheNext
    <2>3. Mul(a, Mul(el, b)) = Mul(Mul(a, el), b) /\ Mul(Mul(el, a), b) = Mul(el, Mul(a, b))
      BY MulAssociates
    <2>4. Mul(a, el) = Mul(el, a)
      BY MulLaws
    <2>5. Mul(a, b) = ToThe(el, m + k)
      BY <1>1, <1>4, <2>1
    <2>6. ToThe(el, (m + k) + 1) = Mul(el, ToThe(el, m + k)) /\ (m + k) + 1 = m + (k + 1)
      BY ToTheNext
    <2>7. Mul(a, ToThe(el, k + 1)) = ToThe(el, m + (k + 1))
      BY <2>2, <2>3, <2>4, <2>5, <2>6
    <2> QED
      BY <1>1, <2>1, <2>7
  <1>5. n \in P
    BY <1>3, <1>4, NumberInduction
  <1> QED
    BY <1>1, <1>5

\* Squaring a power t times.
LEMMA SquaredIs ==
  ASSUME NEW el \in Block, NEW m \in Nat, NEW times \in Nat
  PROVE  Squared(ToThe(el, m), times) = ToThe(el, m * 2 ^ times)
  <1> DEFINE step(b, j) == IF j = 0 THEN ToThe(el, m) ELSE square(b[j - 1])
             Fits(b) == b = [j \in 0 .. times |-> step(b, j)]
  <1>1. \A k \in Nat : ToThe(el, k) \in Block
    BY ToTheNext
  <1>2. ASSUME NEW u \in Block PROVE square(u) = Mul(u, u)
    <2>1. {Mul(w, w) : w \in {u}} = {Mul(u, u)}
      OBVIOUS
    <2>2. (CHOOSE r \in {Mul(u, u)} : TRUE) = Mul(u, u)
      OBVIOUS
    <2> QED
      BY <2>1, <2>2 DEF square, Strictly
  <1>3. ASSUME NEW k \in Nat
        PROVE  square(ToThe(el, m * 2 ^ k)) = ToThe(el, m * 2 ^ (k + 1)) /\ m * 2 ^ k \in Nat
    <2>1. PICK p \in Nat : p = 2 ^ k /\ 2 ^ (k + 1) = 2 * p
      BY TwoToNext
    <2>2. PICK e \in Nat : e = m * p
      OBVIOUS
    <2>3. m * (2 * p) = e + e
      BY <2>2
    <2>4. Mul(ToThe(el, e), ToThe(el, e)) = ToThe(el, e + e)
      BY ToTheSum
    <2> QED
      BY <1>1, <1>2, <2>1, <2>2, <2>3, <2>4
  <1>4. m * 2 ^ 0 = m
    OBVIOUS
  <1>5. PICK g : g = [j \in 0 .. times |-> ToThe(el, m * 2 ^ j)]
    OBVIOUS
  <1>6. ASSUME NEW j \in 0 .. times PROVE g[j] = step(g, j)
    <2>1. CASE j = 0
      BY <1>4, <1>5, <2>1
    <2>2. CASE j # 0
      <3>1. PICK k \in Nat : k = j - 1 /\ k + 1 = j /\ k \in 0 .. times
        BY <2>2
      <3>2. g[j] = ToThe(el, m * 2 ^ (k + 1)) /\ g[k] = ToThe(el, m * 2 ^ k)
        BY <1>5, <3>1
      <3>3. g[j] = square(g[k])
        BY <1>3, <3>2
      <3> QED
        BY <2>2, <3>1, <3>3
    <2> QED
      BY <2>1, <2>2
  <1>7. Fits(g)
    <2> HIDE DEF step
    <2> QED
      BY <1>5, <1>6
  <1>8. PICK h : h = CHOOSE b : Fits(b)
    OBVIOUS
  <1>9. Fits(h)
    <2> HIDE DEF Fits
    <2> QED
      BY <1>7, <1>8
  <1>10. \A j \in 0 .. times : h[j] = step(h, j)
    <2> HIDE DEF step
    <2> QED
      BY <1>9
  <1>11. PICK P : P = {j \in Nat : j \in 0 .. times => h[j] = g[j]}
    OBVIOUS
  <1>12. 0 \in P
    BY <1>6, <1>10, <1>11
  <1>13. ASSUME NEW j \in Nat, j \in P PROVE j + 1 \in P
    <2>1. SUFFICES ASSUME j + 1 \in 0 .. times PROVE h[j + 1] = g[j + 1]
      BY <1>11
    <2>2. j \in 0 .. times /\ j + 1 # 0 /\ (j + 1) - 1 = j
      BY <2>1
    <2>3. h[j] = g[j]
      BY <1>11, <1>13, <2>2
    <2>4. h[j + 1] = square(h[j]) /\ g[j + 1] = square(g[j])
      BY <1>6, <1>10, <2>1, <2>2
    <2> QED
      BY <2>3, <2>4
  <1>14. times \in P
    BY <1>12, <1>13, NumberInduction
  <1>15. h[times] = g[times]
    BY <1>11, <1>14
  <1>16. Squared(ToThe(el, m), times) = (CHOOSE b : Fits(b))[times]
    BY DEF Squared
  <1> QED
    BY <1>5, <1>8, <1>15, <1>16

-----------------------------------------------------------------------------
(* Nonzero elements are invertible, if none of them divides zero.          *)

\* The polynomial of the field is irreducible: no product of nonzero elements is
\* zero.  The code takes polynomials of which this is known.
NoZeroDivisors == \A a, b \in Block : Mul(a, b) = Zero => a = Zero \/ b = Zero
Nonzero == Block \ {Zero}

\* A factor other than zero can be cancelled.
LEMMA Cancel ==
  ASSUME NoZeroDivisors, NEW a \in Nonzero, NEW b \in Block, NEW c \in Block,
         Mul(a, b) = Mul(a, c)
  PROVE  b = c
  <1>1. Mul(a, Add(b, c)) = Add(Mul(a, b), Mul(a, c)) /\ a \in Block /\ a # Zero
    BY MulLaws DEF Nonzero
  <1>2. Add(Mul(a, b), Mul(a, c)) = Zero
    BY AddLaws DEF Zero
  <1>3. Add(b, c) \in Block
    BY AddType
  <1>4. Add(b, c) = Zero
    BY <1>1, <1>2, <1>3 DEF NoZeroDivisors
  <1> QED
    BY <1>4 DEF Zero, Add, SymDiff

\* There are 2^num_bits - 1 nonzero elements.
LEMMA NumberOfNonzero ==
  IsFiniteSet(Nonzero) /\ Cardinality(Nonzero) = 2 ^ num_bits - 1
  <1>1. IsFiniteSet(Bits) /\ Cardinality(Bits) = num_bits
    <2>1. (IF 0 > num_bits - 1 THEN 0 ELSE (num_bits - 1) - 0 + 1) = num_bits
      BY NumBitsRange
    <2>2. num_bits - 1 \in Int
      BY NumBitsRange
    <2> QED
      BY <2>1, <2>2, FS_Interval DEF Bits
  <1>2. IsFiniteSet(Block) /\ Cardinality(Block) = 2 ^ num_bits
    BY <1>1, FS_SUBSET DEF Block
  <1>3. Zero \in Block
    BY DEF Zero, Block
  <1>4. IsFiniteSet(Block \ {Zero}) /\ Cardinality(Block \ {Zero}) = Cardinality(Block) - 1
    BY <1>2, <1>3, FS_RemoveElement
  <1> QED
    BY <1>2, <1>4 DEF Nonzero

\* A product of nonzero elements is not zero.
LEMMA ProductOfNonzero ==
  ASSUME NoZeroDivisors, NEW f, \A a \in Nonzero : f[a] \in Nonzero
  PROVE  Folded(MulPair, One, f, Nonzero) \in Nonzero
  <1>1. PICK P : P = {s \in SUBSET Nonzero : Folded(MulPair, One, f, s) \in Nonzero}
    OBVIOUS
  <1>2. {} \in P
    <2>1. Folded(MulPair, One, f, {}) = One
      BY MulFoldable, FoldedEmpty
    <2>2. One \in Nonzero
      BY NumBitsRange DEF One, Nonzero, Zero, Block, Bits
    <2> QED
      BY <1>1, <2>1, <2>2
  <1>3. ASSUME NEW s \in SUBSET Nonzero, s # {}, \A a \in s : s \ {a} \in P PROVE s \in P
    <2>1. PICK a \in s : TRUE
      BY <1>3
    <2>2. PICK c : c = Folded(MulPair, One, f, s \ {a})
      OBVIOUS
    <2>3. c \in Nonzero /\ f[a] \in Nonzero
      BY <1>1, <1>3, <2>2
    <2>4. IsFiniteSet(s) /\ \A b \in s : f[b] \in Block
      BY NumberOfNonzero, FS_Subset DEF Nonzero
    <2>5. Folded(MulPair, One, f, s) = MulPair[<<f[a], c>>]
      BY <2>2, <2>4, ProductRemove
    <2>6. MulPair[<<f[a], c>>] = Mul(f[a], c)
      BY <2>3 DEF MulPair, Nonzero
    <2>7. Mul(f[a], c) \in Block
      BY <2>3, MulLaws DEF Nonzero
    <2>8. Mul(f[a], c) \in Nonzero
      BY <2>3, <2>7 DEF NoZeroDivisors, Nonzero
    <2> QED
      BY <1>1, <2>5, <2>6, <2>8
  <1>4. \A s \in SUBSET Nonzero : s \in P
    BY <1>2, <1>3, NumberOfNonzero, SubsetInduction
  <1> QED
    BY <1>1, <1>4

\* Fermat's theorem: the power that is one.  Multiplying by an element permutes
\* the nonzero elements, so their product is also that of their multiples.
LEMMA Fermat ==
  ASSUME NoZeroDivisors, NEW el \in Nonzero
  PROVE  ToThe(el, 2 ^ num_bits - 1) = One
  <1>1. PICK f, g, b : /\ f = [a \in Nonzero |-> a] /\ g = [a \in Nonzero |-> el]
                       /\ b = [a \in Nonzero |-> Mul(el, a)]
    OBVIOUS
  <1>2. el \in Block /\ el # Zero /\ \A a \in Nonzero : a \in Block /\ a # Zero
    BY DEF Nonzero
  <1>3. \A a \in Nonzero : b[a] \in Nonzero
    <2> SUFFICES ASSUME NEW a \in Nonzero PROVE b[a] \in Nonzero
      OBVIOUS
    <2>1. Mul(el, a) \in Block
      BY <1>2, MulLaws
    <2>2. Mul(el, a) # Zero
      BY <1>2 DEF NoZeroDivisors
    <2> QED
      BY <1>1, <2>1, <2>2 DEF Nonzero
  <1>4. \A a, c \in Nonzero : b[a] = b[c] => a = c
    BY <1>1, <1>2, Cancel
  <1>5. PICK p : p = Folded(MulPair, One, f, Nonzero)
    OBVIOUS
  <1>6. p \in Nonzero
    BY <1>1, <1>5, ProductOfNonzero
  <1>7. Folded(MulPair, One, b, Nonzero) = p
    <2>1. \A a \in Nonzero : b[a] \in Nonzero /\ f[b[a]] \in Block /\ b[a] = f[b[a]]
      BY <1>1, <1>2, <1>3
    <2>2. PICK S : S = Nonzero /\ IsFiniteSet(S)
      BY NumberOfNonzero
    <2>3. Folded(MulPair, One, b, S) = Folded(MulPair, One, f, S)
      <3>1. Foldable(MulPair, One, Block) /\ \A a, c \in S : b[a] = b[c] => a = c
        BY <1>4, <2>2, MulFoldable
      <3>2. \A a \in S : b[a] \in S /\ f[b[a]] \in Block /\ b[a] = f[b[a]]
        BY <2>1, <2>2
      <3> QED
        BY <2>2, <3>1, <3>2, FoldedRenamed
    <2> QED
      BY <1>5, <2>2, <2>3
  <1>8. Folded(MulPair, One, b, Nonzero) =
          MulPair[<<Folded(MulPair, One, g, Nonzero), p>>]
    <2>1. ASSUME NEW a \in Nonzero
          PROVE  g[a] \in Block /\ f[a] \in Block /\ b[a] = MulPair[<<g[a], f[a]>>]
      BY <1>1, <1>2, <1>3 DEF MulPair
    <2>2. Folded(MulPair, One, b, Nonzero) =
            MulPair[<<Folded(MulPair, One, g, Nonzero), Folded(MulPair, One, f, Nonzero)>>]
      <3>1. Foldable(MulPair, One, Block) /\ IsFiniteSet(Nonzero)
        BY NumberOfNonzero, MulFoldable
      <3>2. \A a \in Nonzero : g[a] \in Block /\ f[a] \in Block /\ b[a] = MulPair[<<g[a], f[a]>>]
        BY <2>1
      <3> QED
        BY <3>1, <3>2, FoldedPointwise
    <2> QED
      BY <1>5, <2>2
  <1>9. PICK q : q = ToThe(el, 2 ^ num_bits - 1)
    OBVIOUS
  <1>10. Folded(MulPair, One, g, Nonzero) = q
    <2>1. \A a \in Nonzero : g[a] = el
      BY <1>1
    <2> QED
      BY <1>2, <1>9, <2>1, NumberOfNonzero, EqualFactors
  <1>11. q \in Block /\ One \in Block /\ p \in Block
    <2>1. 2 ^ num_bits - 1 \in Nat
      BY NumBitsRange, TwoToAbove
    <2> QED
      BY <1>2, <1>6, <1>9, <2>1, ToTheNext, MulFoldable DEF Foldable
  <1>12. Mul(q, p) = p
    BY <1>7, <1>8, <1>10, <1>11 DEF MulPair
  <1>13. Mul(p, q) = p /\ Mul(p, One) = p
    <2>1. Mul(p, q) = Mul(q, p)
      BY <1>11, MulLaws
    <2> QED
      BY <1>11, <1>12, <2>1, MulOne DEF One
  <1>14. q = One
    BY <1>6, <1>11, <1>13, Cancel
  <1> QED
    BY <1>9, <1>14

\* The exponents that inverse() goes through.
Tower(i) == 2 ^ (2 ^ i)

\* Each is the square of the one before.
LEMMA TowerNext ==
  /\ Tower(0) = 2
  /\ \A i \in Nat : Tower(i) \in Nat /\ Tower(i) >= 2 /\ Tower(i + 1) = Tower(i) * Tower(i)
  <1>1. Tower(0) = 2
    BY DEF Tower
  <1>2. ASSUME NEW i \in Nat
        PROVE  Tower(i) \in Nat /\ Tower(i) >= 2 /\ Tower(i + 1) = Tower(i) * Tower(i)
    <2>1. PICK e \in Nat : e = 2 ^ i /\ e >= 1
      BY TwoToAbove
    <2>2. 2 ^ (i + 1) = e + e
      BY <2>1, TwoToNext
    <2>3. PICK p \in Nat : p = 2 ^ e /\ e + 1 <= p
      BY TwoToAbove
    <2>4. 2 ^ (e + e) = p * p
      BY <2>3, TwoToSum
    <2>5. Tower(i) = p /\ Tower(i + 1) = p * p
      BY <2>1, <2>2, <2>3, <2>4 DEF Tower
    <2> QED
      BY <2>1, <2>3, <2>5
  <1> QED
    BY <1>1, <1>2

\* 2^Iterations is the number of bits.
LEMMA IterationsAre ==
  Iterations \in Nat /\ 2 ^ Iterations = num_bits
  <1>1. \E n \in 1 .. 7 : 2 ^ n = num_bits
    BY FieldAssumption
  <1> QED
    BY <1>1 DEF Iterations

\* One iteration takes each power to the next, and multiplies the result by ...
LEMMA PowersNext ==
  ASSUME NEW el \in Block, NEW i \in Nat
  PROVE  LET u == ToThe(el, Tower(i) - 1)
         IN  /\ Squared(u, 2 ^ i) = ToThe(el, (Tower(i) - 1) * Tower(i))
             /\ (Tower(i) - 1) * Tower(i) \in Nat
             /\ Mul(u, Squared(u, 2 ^ i)) = ToThe(el, Tower(i + 1) - 1)
  <1>1. PICK t \in Nat : t = Tower(i) /\ t >= 2 /\ Tower(i + 1) = t * t
    BY TowerNext
  <1>2. PICK m \in Nat, e \in Nat : m = t - 1 /\ e = m * t
    <2>1. t - 1 \in Nat
      BY <1>1
    <2> QED
      BY <2>1
  <1>3. m + e = t * t - 1
    BY <1>2
  <1>4. PICK times \in Nat : times = 2 ^ i
    BY TwoToNext
  <1>5. 2 ^ times = t
    BY <1>1, <1>4 DEF Tower
  <1>6. Squared(ToThe(el, m), times) = ToThe(el, e)
    BY <1>2, <1>5, SquaredIs
  <1>7. Mul(ToThe(el, m), ToThe(el, e)) = ToThe(el, m + e)
    BY ToTheSum
  <1> QED
    BY <1>1, <1>2, <1>3, <1>4, <1>6, <1>7

\* ... what makes it el^(2^(2^m) - 2) after m iterations.
LEMMA InversePower ==
  ASSUME NEW el \in Block, NEW f, NEW n \in Nat,
         \A i \in 0 .. n - 1 : f[i] = ToThe(el, (Tower(i) - 1) * Tower(i))
  PROVE  Folded(MulPair, One, f, 0 .. n - 1) = ToThe(el, Tower(n) - 2)
  <1>1. PICK P : P = {k \in Nat : k <= n =>
                        Folded(MulPair, One, f, 0 .. k - 1) = ToThe(el, Tower(k) - 2)}
    OBVIOUS
  <1>2. 0 \in P
    <2>1. 0 .. 0 - 1 = {} /\ Tower(0) - 2 = 0
      BY TowerNext
    <2>2. Folded(MulPair, One, f, {}) = One /\ ToThe(el, 0) = One
      BY MulFoldable, FoldedEmpty, ToTheNext
    <2> QED
      BY <1>1, <2>1, <2>2
  <1>3. ASSUME NEW k \in Nat, k \in P PROVE k + 1 \in P
    <2>1. SUFFICES ASSUME k + 1 <= n
                   PROVE  Folded(MulPair, One, f, 0 .. k) = ToThe(el, Tower(k + 1) - 2)
      <3>1. (k + 1) - 1 = k
        OBVIOUS
      <3> QED
        BY <1>1, <3>1
    <2>2. PICK S : S = 0 .. k
      OBVIOUS
    <2>3. IsFiniteSet(S) /\ S \ {k} = 0 .. k - 1 /\ k \in S
      <3>1. IsFiniteSet(0 .. k)
        BY FS_Interval
      <3>2. (0 .. k) \ {k} = 0 .. k - 1 /\ k \in 0 .. k
        OBVIOUS
      <3> QED
        BY <2>2, <3>1, <3>2
    <2>4. ASSUME NEW i \in S PROVE f[i] \in Block
      <3>1. i \in Nat /\ f[i] = ToThe(el, (Tower(i) - 1) * Tower(i))
        BY <2>1, <2>2
      <3>2. (Tower(i) - 1) * Tower(i) \in Nat
        BY <3>1, PowersNext
      <3> QED
        BY <3>1, <3>2, ToTheNext
    <2>5. Folded(MulPair, One, f, S) = MulPair[<<f[k], Folded(MulPair, One, f, S \ {k})>>]
      BY <2>3, <2>4, ProductRemove
    <2>6. PICK t \in Nat : t = Tower(k) /\ t >= 2 /\ Tower(k + 1) = t * t
      BY TowerNext
    <2>7. PICK m \in Nat, e \in Nat : m = t - 2 /\ e = (t - 1) * t
      <3>1. t - 2 \in Nat /\ t - 1 \in Nat
        BY <2>6
      <3>2. (t - 1) * t \in Nat
        BY <3>1
      <3> QED
        BY <3>1, <3>2
    <2>8. e + m = t * t - 2
      BY <2>7
    <2>9. Folded(MulPair, One, f, S \ {k}) = ToThe(el, m)
      <3>1. Folded(MulPair, One, f, 0 .. k - 1) = ToThe(el, Tower(k) - 2)
        BY <1>1, <1>3, <2>1
      <3>2. Tower(k) - 2 = m
        BY <2>6, <2>7
      <3> QED
        BY <2>3, <3>1, <3>2
    <2>10. f[k] = ToThe(el, e)
      BY <2>1, <2>6, <2>7
    <2>11. ToThe(el, e) \in Block /\ ToThe(el, m) \in Block
      BY ToTheNext
    <2>12. Mul(ToThe(el, e), ToThe(el, m)) = ToThe(el, e + m)
      BY ToTheSum
    <2> QED
      BY <2>2, <2>5, <2>6, <2>8, <2>9, <2>10, <2>11, <2>12 DEF MulPair
  <1>4. n \in P
    BY <1>2, <1>3, NumberInduction
  <1> QED
    BY <1>1, <1>4

\* The powers are those of the local function of inverse().
LEMMA PowersAre ==
  ASSUME NEW el \in Block, NEW F,
         F = [i \in 0 .. Iterations |->
                IF i = 0 THEN el ELSE Mul(F[i - 1], Squared(F[i - 1], 2 ^ (i - 1)))]
  PROVE  \A i \in 0 .. Iterations : F[i] = ToThe(el, Tower(i) - 1)
  <1>1. PICK n \in Nat : n = Iterations
    BY IterationsAre
  <1>2. PICK P : P = {i \in Nat : i <= n => F[i] = ToThe(el, Tower(i) - 1)}
    OBVIOUS
  <1>3. ToThe(el, Tower(0) - 1) = el
    <2>1. ToThe(el, 0 + 1) = Mul(el, ToThe(el, 0)) /\ ToThe(el, 0) = One
      BY ToTheNext
    <2>2. Mul(el, One) = el
      BY MulOne DEF One
    <2>3. Tower(0) - 1 = 0 + 1
      BY TowerNext
    <2> QED
      BY <2>1, <2>2, <2>3
  <1>4. 0 \in P
    <2>1. F[0] = el
      BY <1>1
    <2> QED
      BY <1>2, <1>3, <2>1
  <1>5. ASSUME NEW i \in Nat, i \in P PROVE i + 1 \in P
    <2>1. SUFFICES ASSUME i + 1 <= n PROVE F[i + 1] = ToThe(el, Tower(i + 1) - 1)
      BY <1>2
    <2>2. PICK j \in 0 .. n : j = i + 1 /\ j # 0 /\ j - 1 = i
      BY <2>1
    <2>3. F[j] = Mul(F[j - 1], Squared(F[j - 1], 2 ^ (j - 1)))
      BY <1>1, <2>2
    <2>4. F[i] = ToThe(el, Tower(i) - 1)
      BY <1>2, <1>5, <2>1
    <2>5. F[j] = Mul(ToThe(el, Tower(i) - 1), Squared(ToThe(el, Tower(i) - 1), 2 ^ i))
      BY <2>2, <2>3, <2>4
    <2> QED
      BY <2>2, <2>5, PowersNext
  <1>6. \A i \in Nat : i \in P
    BY <1>4, <1>5, NumberInduction
  <1>7. \A i \in 0 .. n : i \in Nat /\ i <= n
    OBVIOUS
  <1>8. \A i \in 0 .. n : F[i] = ToThe(el, Tower(i) - 1)
    BY <1>2, <1>6, <1>7
  <1> QED
    BY <1>1, <1>8

\* The product of the loop is a fold of the kind above.
LEMMA LoopIs ==
  ASSUME NEW S, IsFiniteSet(S), NEW F, NEW f,
         \A i \in S : f[i] = Squared(F[i], 2 ^ i) /\ f[i] \in Block
  PROVE  FoldSet(LAMBDA i, result : Mul(result, Squared(F[i], 2 ^ i)), One, S) =
           Folded(MulPair, One, f, S)
  <1> DEFINE step(g, s) == IF s = {} THEN One
                           ELSE Mul(g[s \ {Chosen(s)}], Squared(F[Chosen(s)], 2 ^ Chosen(s)))
             Fits(g) == g = [s \in SUBSET S |-> step(g, s)]
  <1>1. PICK g : HoldsFolds(g, MulPair, One, f, S, Block)
    BY MulFoldable, FoldedIs
  <1>2. /\ g \in [SUBSET S -> Block] /\ IsFold(g, MulPair, One, f, S)
        /\ Folded(MulPair, One, f, S) = g[S]
    BY <1>1 DEF HoldsFolds
  <1>3. \A s \in SUBSET S : s # {} => Chosen(s) \in s /\ Chosen(s) \in S /\ s \ {Chosen(s)} \in SUBSET S
    BY DEF Chosen
  <1>4. \A s \in SUBSET S : g[s] = step(g, s)
    <2> SUFFICES ASSUME NEW s \in SUBSET S PROVE g[s] = step(g, s)
      OBVIOUS
    <2>1. CASE s = {}
      BY <1>2, <2>1 DEF IsFold
    <2>2. CASE s # {}
      <3>1. PICK top : top = Chosen(s)
        OBVIOUS
      <3>2. g[s] = MulPair[<<f[top], g[s \ {top}]>>]
        BY <1>2, <2>2, <3>1, FoldStep
      <3>3. f[top] \in Block /\ g[s \ {top}] \in Block /\ f[top] = Squared(F[top], 2 ^ top)
        BY <1>2, <1>3, <2>2, <3>1
      <3>4. g[s] = Mul(f[top], g[s \ {top}])
        BY <3>2, <3>3 DEF MulPair
      <3>5. Mul(f[top], g[s \ {top}]) = Mul(g[s \ {top}], f[top])
        BY <3>3, MulLaws
      <3> QED
        BY <2>2, <3>1, <3>3, <3>4, <3>5
    <2> QED
      BY <2>1, <2>2
  <1>5. Fits(g)
    <2> HIDE DEF step
    <2> QED
      BY <1>2, <1>4
  <1>6. PICK h : h = CHOOSE k : Fits(k)
    OBVIOUS
  <1>7. Fits(h)
    <2> HIDE DEF Fits
    <2> QED
      BY <1>5, <1>6
  <1>8. \A s \in SUBSET S : h[s] = step(h, s)
    <2> HIDE DEF step
    <2> QED
      BY <1>7
  <1>9. PICK P : P = {s \in SUBSET S : g[s] = h[s]}
    OBVIOUS
  <1>10. {} \in P
    BY <1>4, <1>8, <1>9
  <1>11. ASSUME NEW s \in SUBSET S, s # {}, \A i \in s : s \ {i} \in P
         PROVE  s \in P
    <2>1. Chosen(s) \in s
      BY <1>3, <1>11
    <2>2. g[s \ {Chosen(s)}] = h[s \ {Chosen(s)}]
      BY <1>9, <1>11, <2>1
    <2>3. /\ g[s] = Mul(g[s \ {Chosen(s)}], Squared(F[Chosen(s)], 2 ^ Chosen(s)))
          /\ h[s] = Mul(h[s \ {Chosen(s)}], Squared(F[Chosen(s)], 2 ^ Chosen(s)))
      BY <1>4, <1>8, <1>11
    <2> QED
      BY <1>9, <2>2, <2>3
  <1>12. \A s \in SUBSET S : s \in P
    BY <1>10, <1>11, SubsetInduction
  <1>13. g[S] = h[S]
    BY <1>9, <1>12
  <1>14. FoldSet(LAMBDA i, result : Mul(result, Squared(F[i], 2 ^ i)), One, S) =
           (CHOOSE k : Fits(k))[S]
    BY DEF FoldSet, MapThenFoldSet, Chosen
  <1> QED
    BY <1>2, <1>6, <1>13, <1>14

\* inverse() computes one power.
LEMMA InverseIs ==
  ASSUME NEW el \in Block
  PROVE  inverse(el) = ToThe(el, Tower(Iterations) - 2)
  <1> DEFINE Next1(F, i) == IF i = 0 THEN el
                            ELSE Strictly(LAMBDA u : Mul(u, Squared(u, 2 ^ (i - 1))), F[i - 1])
             Fits(F) == F = [i \in 0 .. Iterations |-> Next1(F, i)]
             Product(F) == FoldSet(LAMBDA i, result : Mul(result, Squared(F[i], 2 ^ i)), One,
                                   0 .. Iterations - 1)
  <1>1. PICK n \in Nat : n = Iterations
    BY IterationsAre
  <1>2. \A F, i : Next1(F, i) = IF i = 0 THEN el ELSE Mul(F[i - 1], Squared(F[i - 1], 2 ^ (i - 1)))
    <2>1. \A v, i : Strictly(LAMBDA u : Mul(u, Squared(u, 2 ^ (i - 1))), v) =
                      Mul(v, Squared(v, 2 ^ (i - 1)))
      <3> SUFFICES ASSUME NEW v, NEW i
                   PROVE  Strictly(LAMBDA u : Mul(u, Squared(u, 2 ^ (i - 1))), v) =
                            Mul(v, Squared(v, 2 ^ (i - 1)))
        OBVIOUS
      <3>1. {Mul(u, Squared(u, 2 ^ (i - 1))) : u \in {v}} = {Mul(v, Squared(v, 2 ^ (i - 1)))}
        OBVIOUS
      <3>2. \A r : (CHOOSE q \in {r} : TRUE) = r
        OBVIOUS
      <3> QED
        BY <3>1, <3>2 DEF Strictly
    <2> QED
      BY <2>1
  <1>3. PICK G : G = [i \in 0 .. Iterations |-> ToThe(el, Tower(i) - 1)]
    OBVIOUS
  <1>4. ASSUME NEW i \in 0 .. Iterations PROVE G[i] = Next1(G, i)
    <2>1. CASE i = 0
      <3>1. ToThe(el, 0 + 1) = Mul(el, ToThe(el, 0)) /\ ToThe(el, 0) = One
        BY ToTheNext
      <3>2. Mul(el, One) = el
        BY MulOne DEF One
      <3>3. Tower(0) - 1 = 0 + 1
        BY TowerNext
      <3> QED
        BY <1>3, <2>1, <3>1, <3>2, <3>3
    <2>2. CASE i # 0
      <3>1. PICK j \in Nat : j = i - 1 /\ j + 1 = i /\ j \in 0 .. Iterations
        BY <1>1, <2>2
      <3>2. G[i] = ToThe(el, Tower(j + 1) - 1) /\ G[j] = ToThe(el, Tower(j) - 1)
        BY <1>3, <3>1
      <3>3. G[i] = Mul(G[j], Squared(G[j], 2 ^ j))
        BY <3>2, PowersNext
      <3> HIDE DEF Next1
      <3> QED
        BY <1>2, <2>2, <3>1, <3>3
    <2> QED
      BY <2>1, <2>2
  <1> HIDE DEF Next1
  <1>5. Fits(G)
    BY <1>3, <1>4
  <1>6. PICK F : F = CHOOSE H : Fits(H)
    OBVIOUS
  <1>7. Fits(F)
    <2> HIDE DEF Fits
    <2> QED
      BY <1>5, <1>6
  <1>8. F = [i \in 0 .. Iterations |->
               IF i = 0 THEN el ELSE Mul(F[i - 1], Squared(F[i - 1], 2 ^ (i - 1)))]
    BY <1>2, <1>7
  <1>9. \A i \in 0 .. Iterations : F[i] = ToThe(el, Tower(i) - 1)
    BY <1>8, PowersAre
  <1>10. PICK f : f = [i \in 0 .. n - 1 |-> Squared(F[i], 2 ^ i)]
    OBVIOUS
  <1>11. ASSUME NEW i \in 0 .. n - 1
         PROVE  /\ f[i] = Squared(F[i], 2 ^ i) /\ f[i] \in Block
                /\ f[i] = ToThe(el, (Tower(i) - 1) * Tower(i))
    <2>1. i \in Nat /\ i \in 0 .. Iterations
      BY <1>1
    <2>2. F[i] = ToThe(el, Tower(i) - 1)
      BY <1>9, <2>1
    <2>3. /\ Squared(ToThe(el, Tower(i) - 1), 2 ^ i) = ToThe(el, (Tower(i) - 1) * Tower(i))
          /\ (Tower(i) - 1) * Tower(i) \in Nat
      BY <2>1, PowersNext
    <2>4. f[i] = Squared(F[i], 2 ^ i)
      BY <1>10
    <2> QED
      BY <2>2, <2>3, <2>4, ToTheNext
  <1>12. Product(F) = Folded(MulPair, One, f, 0 .. n - 1)
    <2>1. IsFiniteSet(0 .. n - 1)
      BY FS_Interval
    <2> QED
      BY <1>1, <1>11, <2>1, LoopIs
  <1>13. Folded(MulPair, One, f, 0 .. n - 1) = ToThe(el, Tower(n) - 2)
    BY <1>11, InversePower
  <1>14. inverse(el) = Product(CHOOSE H : Fits(H))
    BY DEF inverse, Next1
  <1> HIDE DEF Product
  <1> QED
    BY <1>1, <1>6, <1>12, <1>13, <1>14

\* gf128's inverse() gives the inverse of every element but zero, for every width
\* of the field whose product has no zero divisors: every field, that is, and only
\* fields.
THEOREM InversesInvert ==
  ASSUME NoZeroDivisors, NEW el \in Block, el # Zero
  PROVE  Mul(el, inverse(el)) = One
  <1>1. PICK t \in Nat : t = Tower(Iterations) /\ t >= 2 /\ t = 2 ^ num_bits
    BY IterationsAre, TowerNext DEF Tower
  <1>2. PICK m \in Nat : m = t - 2 /\ m + 1 = t - 1
    <2>1. t - 2 \in Nat /\ (t - 2) + 1 = t - 1
      BY <1>1
    <2> QED
      BY <2>1
  <1>3. inverse(el) = ToThe(el, m)
    BY <1>1, <1>2, InverseIs
  <1>4. ToThe(el, m + 1) = Mul(el, ToThe(el, m))
    BY ToTheNext
  <1>5. ToThe(el, m + 1) = One
    BY <1>1, <1>2, Fermat DEF Nonzero
  <1> QED
    BY <1>3, <1>4, <1>5

\* In every state of a product of vectors over a field, the two builds multiply
\* the elements alike and inverse() inverts the scalar.
THEOREM FieldLawsHold ==
  ASSUME NoZeroDivisors
  PROVE  Spec => []FieldLaws
  <1>1. ASSUME Inv PROVE FieldLaws
    <2> SUFFICES ASSUME T.kind = "gf128"
                 PROVE  /\ \A i \in DOMAIN y : Mul(x, y[i]) = MulSlow(x, y[i])
                        /\ x # Zero => Mul(x, inverse(x)) = One
      BY DEF FieldLaws
    <2>1. x \in Scalar(T) /\ y \in Seq(Scalar(T))
      BY <1>1, InputsAre DEF Inv
    <2>2. Scalar(T) = Block
      BY DEF Scalar
    <2>3. x \in Block /\ \A i \in DOMAIN y : y[i] \in Block
      BY <2>1, <2>2
    <2> QED
      BY <2>3, BuildsMultiplyAlike, InversesInvert
  <1> QED
    BY <1>1, Invariance, PTL

=============================================================================
