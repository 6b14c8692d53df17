------------------------------ MODULE MC_MPFSS ------------------------------
(***************************************************************************)
(* Hash tables and indices for MPFSSKnownIndices.  The tables have indices *)
(* that two hash functions take to one bucket, buckets without an index,   *)
(* and two indices that share all buckets.                                 *)
(***************************************************************************)
EXTENDS MPFSSKnownIndices

MCNumBuckets == [n \in 0 .. 2 |-> n + 1]

Table(a, b, c) ==
  [num_buckets \in 1 .. 3 |-> [i \in -1 .. 3 |->
     [f \in 1 .. 3 |-> ((a * i + b * f * i + c * f + 4) % num_buckets) + 1]]]

Skewed == [num_buckets \in 1 .. 3 |-> [i \in -1 .. 3 |->
            [f \in 1 .. 3 |-> IF i < 2 THEN 1 ELSE num_buckets]]]

MCHashes == {Skewed, Table(1, 0, 1), Table(1, 0, 0), Table(0, 1, 1), Table(2, 1, 0)}

\* None, one or two distinct indices; those that are not below an output size
\* of 2 are refused, at once or later.
MCIndexLists ==
  {<<>>} \cup {<<i>> : i \in 0 .. 3} \cup
    {s \in {<<i, j>> : i, j \in 0 .. 2} : IsInjective(s)}

OneIndex == {<<i>> : i \in 0 .. 3}

=============================================================================
