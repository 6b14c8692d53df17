--------------------------- MODULE MC_CodeGenerator ---------------------------
(***************************************************************************)
(* Words of 2 bits and elements of up to 4.  Two entries for each column.  *)
(***************************************************************************)
EXTENDS CodeGenerator

MCInputs ==
  [T : {modular(3), unsigned(2)}, output_size : {1}, vole_seed_size : {2, 3}, num_noise : {1}]
    \cup [T : {modular(3), modular(13), gf128}, output_size : {3}, vole_seed_size : {3},
          num_noise : {2, 3}]

MCSeeds == {[key |-> 1, nonce |-> 0], [key |-> 2, nonce |-> 14]}

\* Two keys; all words occur, and some come several times.
Bits2(n) == {k \in {0, 1} : (n \div (2 ^ k)) % 2 = 1}
MCEncrypted ==
  [key \in 1 .. 2 |-> [n \in 0 .. NumNonces - 1 |->
     <<Bits2((n * key + n \div 3) % 4), Bits2((n * n + key) % 4)>>]]

=============================================================================
