------------------------------ MODULE MC_SPFSS ------------------------------
(***************************************************************************)
(* Batches for SPFSSKnownIndex, and scalars for its blocks: a number that  *)
(* differs between the blocks of the trees that occur.                     *)
(***************************************************************************)
EXTENDS SPFSSKnownIndex

\* Two outputs of 0 to 5 elements, full and incomplete trees, or a single one of
\* up to 9.
MCSizes == [1 .. 2 -> 0 .. 5] \cup {<<n>> : n \in 6 .. 9} \cup {<<>>}

MCIndices == -1 .. 9

\* The powers that are rounded up are much smaller here than with 64-bit IEEE
\* arithmetic (2^29, 2^31, 2^39, ...): at both ends, at one of them, at none, or
\* different ones at the two ends.
MCRoundings ==
  [Roles -> {{}, {4, 8}}] \cup {[r \in Roles |-> IF r = "value" THEN {2} ELSE {4}]}

MCFromUint128(block) ==
  LET RECURSIVE Number(_)
      Number(b) == MapThenSumSet(LAMBDA t : (Number(t[1]) + 3) ^ 2 + 7 * t[2], b) % 997
  IN  Number(block)

=============================================================================
