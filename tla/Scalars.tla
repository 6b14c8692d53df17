------------------------------- MODULE Scalars -------------------------------
(***************************************************************************)
(* The types T that the protocols compute with, as ScalarHelper<T> sees    *)
(* them (src/distributed_vector_ole/internal/scalar_helpers.h).  An        *)
(* absl::uint128, and a block of an oblivious transfer, is the set of its  *)
(* bits that are 1; an integer or a residue is a number; an element of the *)
(* field is as in GF128.                                                   *)
(***************************************************************************)
EXTENDS GF128

CONSTANT ByteBits  \* 8 in the code

ASSUME ByteAssumption == ByteBits \in 1 .. num_bits /\ num_bits % ByteBits = 0

BlockBytes == num_bits \div ByteBits  \* 16
Block == SUBSET Bits

\* A type is a record: what it is, how many values it has, and SizeOf(), the bytes
\* of a T or those that the largest residue needs.
NumBits(n) == CHOOSE b \in 0 .. n : 2 ^ b > n /\ \A c \in 0 .. b - 1 : 2 ^ c <= n
Type(kind, n) ==
  [kind |-> kind, modulus |-> n,
   SizeOf |-> (NumBits(n - 1) + ByteBits - 1) \div ByteBits]

unsigned(bytes) == Type("unsigned", 2 ^ (ByteBits * bytes))
signed(bytes) == Type("signed", 2 ^ (ByteBits * bytes))
modular(n) == Type("modular", n)  \* NTL::ZZ_p, NTL::zz_p
gf128 == Type("gf128", 2 ^ num_bits)

\* A C++ type or a prime field with two elements at least: only their kind and
\* their size may be chosen.
IsScalarType(T) ==
  /\ T.SizeOf \in Nat \ {0} /\ T.modulus \in Nat \ {0, 1}
  /\ T \in {unsigned(T.SizeOf), signed(T.SizeOf), modular(T.modulus), gf128}

Scalar(T) ==
  CASE T.kind = "gf128" -> Block
    [] T.kind = "signed" -> -(T.modulus \div 2) .. (T.modulus \div 2) - 1
    [] OTHER -> 0 .. T.modulus - 1

\* A number reduced or truncated to a T.
Wrap(T, n) ==
  LET r == n % T.modulus
  IN  IF T.kind = "signed" /\ 2 * r >= T.modulus THEN r - T.modulus ELSE r

Plus(T, a, b) == IF T.kind = "gf128" THEN Add(a, b) ELSE Wrap(T, a + b)
MutMinus(T, a, b) == IF T.kind = "gf128" THEN Add(a, b) ELSE a - b  \* mutant: may be negative
Minus(T, a, b) == IF T.kind = "gf128" THEN Add(a, b) ELSE Wrap(T, a - b)
Times(T, a, b) == IF T.kind = "gf128" THEN Mul(a, b) ELSE Wrap(T, a * b)
\* What repeated += makes of the values of a function.
Sum(T, f) ==
  IF T.kind = "gf128"
    THEN {k \in Bits : Cardinality({i \in DOMAIN f : k \in f[i]}) % 2 = 1}
    ELSE Wrap(T, FoldFunction(+, 0, f))
ZeroOf(T) == IF T.kind = "gf128" THEN Zero ELSE 0

\* A negative number is extended with its sign.
ToUint128(T, x) ==
  IF T.kind = "gf128" THEN x ELSE {k \in Bits : (x \div (2 ^ k)) % 2 = 1}
Number(b) == FoldFunctionOnSet(+, 0, [k \in Bits |-> 2 ^ k], b)
FromUint128(T, b) == IF T.kind = "gf128" THEN b ELSE Wrap(T, Number(b))

GetBit(T, x, k) == k \in ToUint128(T, x)
SetBit(T, k) == IF T.kind = "gf128" THEN {k} ELSE Wrap(T, 2 ^ k)

-----------------------------------------------------------------------------
\* CanBeHashedInto: "true if hash values of size hash_bits can be directly mapped
\* to instances of T with probability at least 1 - 2^-statistical_security", for
\* a security of log2(draws) + security bits, and without the logarithms.  The
\* largest hash value is taken to be UInt128Max / 2^hash_bits.
max_value(hash_bits) ==
  2 ^ (IF hash_bits < num_bits THEN num_bits - hash_bits ELSE num_bits) - 1

Remainder(T, hash_bits) == ((max_value(hash_bits) % T.modulus) + 1) % T.modulus

MutOneDraw(T, draws, security, hash_bits) ==  \* mutant: security of one draw only
  IF T.kind # "modular" THEN hash_bits >= T.SizeOf * ByteBits
  ELSE 2 ^ hash_bits > Remainder(T, hash_bits) * 2 ^ security
CanBeHashedInto(T, draws, security, hash_bits) ==
  IF T.kind # "modular" THEN hash_bits >= T.SizeOf * ByteBits
  ELSE \/ T.modulus % (2 ^ num_bits) = 0
       \/ 2 ^ hash_bits > Remainder(T, hash_bits) * draws * 2 ^ security

=============================================================================
