------------------------------- MODULE Hasher -------------------------------
(***************************************************************************)
(* What the two ways of hashing of a CuckooHasher share                    *)
(* (src/distributed_vector_ole/cuckoo_hasher.h): the hash functions, and   *)
(* what Hash() has returned for the inputs.  The values are arbitrary.     *)
(* Buckets are numbered from 1, hash functions from 0.                     *)
(***************************************************************************)
EXTENDS Integers, FiniteSets, SequencesExt

CONSTANTS
  BucketCount,
  num_hash_functions

ASSUME HasherAssumption ==
  BucketCount \in Nat \ {0} /\ num_hash_functions \in Nat \ {0}

Buckets == 1 .. BucketCount
Functions == 0 .. num_hash_functions - 1

VARIABLE hashes  \* hashes[i][f]: bucket that function f gives input i

=============================================================================
