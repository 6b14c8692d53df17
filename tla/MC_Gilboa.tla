------------------------------ MODULE MC_Gilboa ------------------------------
(***************************************************************************)
(* Inputs for ScalarVectorGilboaProduct.  A byte has 2 bits and a block 8  *)
(* bytes, so a block holds 8 elements of a byte, 4 of two, 2 of three (and *)
(* some bits that stay free) or of four, and one of more.                  *)
(***************************************************************************)
EXTENDS ScalarVectorGilboaProduct

Vectors(type, values) ==
  [T : {type}, x : values,
   y : {<<>>} \cup {<<v>> : v \in values} \cup {<<v, w, v>> : v, w \in values}]

MCInputs ==
  UNION {Vectors(unsigned(1), {0, 3}), Vectors(unsigned(2), {1, 13}),
         Vectors(unsigned(3), {1, 62}), Vectors(unsigned(8), {5, 40000}),
         Vectors(signed(1), {-1, 1}), Vectors(signed(8), {-30000, 7}),
         Vectors(modular(3), {1, 2}), Vectors(modular(13), {6, 12}),
         Vectors(modular(43), {1, 42}), Vectors(modular(245), {5, 244}),
         Vectors(modular(255), {5, 254}), Vectors(modular(2 ^ 8), {5, 254}),
         Vectors(modular(2 ^ 4), {9}), Vectors(modular(1000), {5, 999}),
         Vectors(modular(3000), {5, 2999}), Vectors(modular(2 ^ 17), {1}),
         Vectors(gf128, {{}, {0, 15}, {1, 4, 7, 9, 14}})}
    \cup {[T |-> unsigned(1), y |-> [i \in 1 .. n |-> i % 4], x |-> 3] : n \in 7 .. 17}

\* Blocks without a bit, with all bits, and with a pattern that differs between
\* the transfers.
MCRandomness ==
  {[i \in 1 .. 64 |-> {}], [i \in 1 .. 64 |-> Bits],
   [i \in 1 .. 64 |-> {k \in Bits : (k * k + i * k + i) % 3 = 0}]}

=============================================================================
