---------------------- MODULE ScalarVectorGilboaProduct ----------------------
(***************************************************************************)
(* The product of a vector and a scalar in additive shares, by oblivious   *)
(* transfer (src/distributed_vector_ole/scalar_vector_gilboa_product.h and *)
(* internal/gilboa_internal.h).  For each bit of x and each packed group   *)
(* of elements there is one transfer of a block.  The transfers of emp-ot  *)
(* are one joint step of both ends.                                        *)
(***************************************************************************)
EXTENDS Scalars

CONSTANTS
  Inputs,                \* records [T, y, x]: a type, a vector and a scalar
  Randomness,            \* what the blocks of the transfers may be: Nat -> Block
  IntMax,                \* the largest int
  statistical_security_

ASSUME GilboaAssumption ==
  /\ statistical_security_ \in Nat
  /\ \A input \in Inputs :
       /\ IsScalarType(input.T)
       /\ input.x \in Scalar(input.T) /\ input.y \in Seq(Scalar(input.T))
       /\ \A random \in Randomness :
            \A i \in 1 .. input.T.SizeOf * ByteBits * Len(input.y) : random[i] \in Block

VARIABLES
  T, y, x,
  pc,       \* of each end, "vector" and "value"
  deltas,   \* the blocks that the vector provider prepares
  choices,  \* the bits that the value provider prepares
  ot,       \* the blocks that each end has after the transfers
  output    \* of each end

vars == <<T, y, x, pc, deltas, choices, ot, output>>
Ends == {"vector", "value"}

y_len == Len(y)
bit_width == T.SizeOf * ByteBits
stride == BlockBytes \div T.SizeOf

Groups == (y_len + stride - 1) \div stride

NumOTs == bit_width * Groups

\* The elements in group g, which counts from 0, and where transfer i belongs.
Group(g) ==
  [k \in 1 .. Min({stride, y_len - g * stride}) |-> y[g * stride + k]]
GroupOf(i) == (i - 1) \div bit_width
BitOf(i) == (i - 1) % bit_width

-----------------------------------------------------------------------------
(* Packing of elements into a block.                                       *)

ShiftLeft(b, n) == {k + n : k \in b} \cap Bits

\* The loop runs from the last element to the first and shifts by a constant,
\* so element k ends up n times k bits to the left.
SpanToEMPBlock(v, multiplier) ==
  UNION {ShiftLeft(ToUint128(T, Times(T, v[k], multiplier)), (k - 1) * bit_width)
           : k \in DOMAIN v}

MutWideChunk(b, k) ==  \* mutant: what is above the element is not cut off
  {i \in Bits : i + k * bit_width \in b}
Chunk(b, k) == {i \in 0 .. bit_width - 1 : i + k * bit_width \in b}

Element(b, k) == FromUint128(T, Chunk(b, k - 1))
EMPBlockToSpan(b) == [k \in 1 .. stride |-> Element(b, k)]

\* The correlation: the second message of a transfer whose first one is m0.
Correlated(delta, m0) ==
  SpanToEMPBlock([k \in 1 .. stride |-> Plus(T, Element(delta, k), Element(m0, k))],
                 SetBit(T, 0))

-----------------------------------------------------------------------------
Init ==
  /\ \E input \in Inputs : T = input.T /\ y = input.y /\ x = input.x
  /\ pc = [e \in Ends |-> "start"]
  /\ deltas = <<>> /\ choices = <<>>
  /\ ot = [e \in Ends |-> <<>>]
  /\ output = [e \in Ends |-> <<>>]

Goto(e, label) == pc' = [pc EXCEPT ![e] = label]

MutTooLong == T.SizeOf >= BlockBytes  \* mutant: types of 128 bits are refused
TooLong == T.SizeOf > BlockBytes

\* "Integers may be at most 16 bytes long".
Refuse(e) ==
  /\ pc[e] = "start" /\ TooLong
  /\ Goto(e, "refused")
  /\ UNCHANGED <<T, y, x, deltas, choices, ot, output>>

PrepareDeltas ==
  /\ pc["vector"] = "start" /\ ~TooLong
  /\ deltas' = [i \in 1 .. NumOTs |->
                  SpanToEMPBlock(Group(GroupOf(i)), SetBit(T, BitOf(i)))]
  /\ output' = [output EXCEPT !["vector"] = [i \in 1 .. y_len |-> ZeroOf(T)]]
  /\ Goto("vector", "ot")
  /\ UNCHANGED <<T, y, x, choices, ot>>

\* The value provider counts the transfers in an int.
PrepareChoices ==
  /\ pc["value"] = "start" /\ ~TooLong /\ NumOTs <= IntMax
  /\ choices' = [i \in 1 .. NumOTs |-> GetBit(T, x, BitOf(i))]
  /\ output' = [output EXCEPT !["value"] = [i \in 1 .. y_len |-> ZeroOf(T)]]
  /\ Goto("value", "ot")
  /\ UNCHANGED <<T, y, x, deltas, ot>>

\* Beyond IntMax the product is undefined; whatever it is, the call does not
\* reach the transfers that its peer waits in.
OverflowCount ==
  /\ pc["value"] = "start" /\ ~TooLong /\ NumOTs > IntMax
  /\ Goto("value", "crashed")
  /\ UNCHANGED <<T, y, x, deltas, choices, ot, output>>

UseCorrelatedOT(size) ==
  CanBeHashedInto(T, size, statistical_security_, bit_width)

\* A first message: a block from a hash function, or random elements packed.
FirstMessage(block) ==
  IF UseCorrelatedOT(y_len) THEN block
  ELSE SpanToEMPBlock(EMPBlockToSpan(block), SetBit(T, 0))

RunOT ==
  /\ pc["vector"] = "ot" /\ pc["value"] = "ot"
  /\ Len(deltas) = Len(choices)
  /\ \E random \in Randomness :
       ot' = [vector |-> [i \in DOMAIN deltas |-> FirstMessage(random[i])],
              value |-> [i \in DOMAIN choices |->
                 IF choices[i] THEN Correlated(deltas[i], FirstMessage(random[i]))
                 ELSE FirstMessage(random[i])]]
  /\ pc' = [e \in Ends |-> "sum"]
  /\ UNCHANGED <<T, y, x, deltas, choices, output>>

\* What the loops over groups, bits and elements add up for element i.
Total(e, i) ==
  Sum(T, [j \in 1 .. bit_width |->
            Element(ot[e][((i - 1) \div stride) * bit_width + j], ((i - 1) % stride) + 1)])

AddUp(e) ==
  /\ pc[e] = "sum"
  /\ output' = [output EXCEPT ![e] =
                  [i \in DOMAIN @ |-> IF e = "vector" THEN Minus(T, @[i], Total(e, i))
                                      ELSE Plus(T, @[i], Total(e, i))]]
  /\ Goto(e, "done")
  /\ UNCHANGED <<T, y, x, deltas, choices, ot>>

Next ==
  \/ \E e \in Ends : Refuse(e) \/ AddUp(e)
  \/ PrepareDeltas
  \/ PrepareChoices
  \/ OverflowCount
  \/ RunOT

Spec == Init /\ [][Next]_vars /\ WF_vars(Next)

-----------------------------------------------------------------------------
TypeOK ==
  /\ T.kind \in {"unsigned", "signed", "modular", "gf128"}
  /\ ~TooLong => (\A i \in DOMAIN y : y[i] \in Scalar(T)) /\ x \in Scalar(T)
  /\ pc \in [Ends -> {"start", "refused", "crashed", "ot", "sum", "done"}]
  /\ deltas \in Seq(Block) /\ choices \in Seq(BOOLEAN)
  /\ \A e \in Ends : ot[e] \in Seq(Block) /\ \A i \in DOMAIN output[e] : output[e][i] \in Scalar(T)

\* Elements that share a block do not reach into each other, unless T is signed.
Packable == T.kind # "signed" \/ stride = 1

\* "The output of the protocol is an additive share of `xy`", for every element of
\* every group, whatever the blocks are.
SharesProduct ==
  (\A e \in Ends : pc[e] = "done") /\ Packable =>
    \A i \in DOMAIN y :
      Plus(T, output["vector"][i], output["value"][i]) = Times(T, x, y[i])

\* Residues that are about to be masked by hash values, used as they are.
HashedMasks ==
  (\E e \in Ends : pc[e] = "ot") /\ UseCorrelatedOT(y_len) /\ T.kind = "modular"

\* The first residues come from one hash value more than the others.  That makes a
\* set of residues at most surplus * (modulus - surplus) / (modulus * 2^bit_width)
\* more likely, and over all elements at most y_len times as much.
NearlyUniform ==
  LET surplus == (2 ^ bit_width) % T.modulus
  IN  y_len * surplus * (T.modulus - surplus) * 2 ^ statistical_security_
        <= T.modulus * 2 ^ bit_width

\* CanBeHashedInto takes 2^(num_bits - bit_width) for the number of hash values.  It
\* is that for two widths; narrow residues never pass, but for the powers of two,
\* nor do those just over half a block.
WidthJudged ==
  \/ bit_width \in {half, num_bits}
  \/ bit_width <= statistical_security_
  \/ bit_width > half /\ 2 * bit_width <= num_bits + statistical_security_

\* "The probability for any set of results is at most 2^-statistical_security higher
\* than in a uniform distribution" (internal/scalar_helpers.h:123-125), over all
\* elements of the vector, at the widths for which CanBeHashedInto judges rightly.
\* At the others it is false.
MasksUniform == HashedMasks /\ WidthJudged => NearlyUniform

\* gf128: the product built from 64-bit halves is the one that is built bit by bit,
\* and inverse() inverts.
FieldLaws ==
  T.kind = "gf128" /\ pc["vector"] = "start" =>
    /\ \A i \in DOMAIN y : Mul(x, y[i]) = MulSlow(x, y[i])
    /\ x # Zero => Mul(x, inverse(x)) = One

\* Unless the type is too long for a block or the count for an int, both ends
\* finish.
Supported == T.SizeOf <= BlockBytes /\ NumOTs <= IntMax
BothFinish == Supported ~> \A e \in Ends : pc[e] = "done"

=============================================================================
