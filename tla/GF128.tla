-------------------------------- MODULE GF128 --------------------------------
(***************************************************************************)
(* The field GF(2^128) of src/distributed_vector_ole/gf128.cpp.  An        *)
(* element is a polynomial over GF(2), given as the set of the exponents   *)
(* whose coefficient is 1: bit i of value_ stands for exponent i, and XOR  *)
(* is the symmetric difference.  The size of the field is a parameter.     *)
(***************************************************************************)
EXTENDS Integers, SequencesExt

CONSTANTS
  num_bits,  \* 128 in the code
  modulus_   \* the field's polynomial without its leading term

\* The code's registers have halves of 64 bits; modulus_ is loaded into one.
ASSUME FieldAssumption ==
  /\ num_bits \in {2 ^ i : i \in 1 .. 7}
  /\ modulus_ \subseteq 0 .. (num_bits \div 2) - 1

half == num_bits \div 2
Bits == 0 .. num_bits - 1
Zero == {}
One == {0}

\* operator+= and operator-=.
Add(a, b) == SymDiff(a, b)

-----------------------------------------------------------------------------
(* operator*= as the library is built, with USE_ASM.                       *)

Low(p) == p \cap (0 .. half - 1)
High(p) == {i - half : i \in p \ (0 .. half - 1)}
ToHigh(p) == {i + half : i \in Low(p)}  \* _mm_slli_si128(p, 8)

\* _mm_clmulepi64_si128.
Carryless(a, b) ==
  {n \in 0 .. num_bits - 2 : Cardinality({i \in a : n - i \in b}) % 2 = 1}

MulWide(a, b) ==
  LET mid == Add(Carryless(Low(a), High(b)), Carryless(High(a), Low(b)))
  IN  [high |-> Add(Carryless(High(a), High(b)), High(mid)),
       low |-> Add(Carryless(Low(a), Low(b)), ToHigh(mid))]

\* "reduce w.r.t. high half of mul256_high", then w.r.t. its low half.
MutReduceOnce(p) ==  \* mutant: what the first step carries over is lost
  LET tmp == Carryless(High(p.high), modulus_)
  IN  Add(Add(p.low, ToHigh(tmp)), Carryless(Low(p.high), modulus_))
Reduce(p) ==
  LET tmp == Carryless(High(p.high), modulus_)
      high == Add(p.high, High(tmp))
  IN  Add(Add(p.low, ToHigh(tmp)), Carryless(Low(high), modulus_))

\* op(v), where v is computed first and only once.
Strictly(op(_), v) == CHOOSE r \in {op(u) : u \in {v}} : TRUE

Mul(a, b) == Strictly(Reduce, MulWide(a, b))

\* operator*= without USE_ASM: "slow, but straight-forward".
Doubled(p) ==
  Add({i + 1 : i \in p \ {num_bits - 1}}, IF num_bits - 1 \in p THEN modulus_ ELSE {})
MulSlow(a, b) ==
  LET shifted[i \in Bits] == IF i = 0 THEN a ELSE Doubled(shifted[i - 1])
  IN  FoldFunctionOnSet(Add, Zero, shifted, b)

-----------------------------------------------------------------------------
(* inverse(): entering iteration i of its loop, a = el^(2^(2^i) - 1).      *)

square(p) == Strictly(LAMBDA u : Mul(u, u), p)
Squared(el, times) ==
  LET b[j \in 0 .. times] == IF j = 0 THEN el ELSE square(b[j - 1])
  IN  b[times]

\* 7 in the code: i <= 6.
Iterations == CHOOSE n \in 1 .. 7 : 2 ^ n = num_bits

inverse(el) ==
  LET a[i \in 0 .. Iterations] ==
        IF i = 0 THEN el
        ELSE Strictly(LAMBDA u : Mul(u, Squared(u, 2 ^ (i - 1))), a[i - 1])
  IN  FoldSet(LAMBDA i, result : Mul(result, Squared(a[i], 2 ^ i)), One,
              0 .. Iterations - 1)

=============================================================================
