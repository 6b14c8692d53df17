---------------------------- MODULE CuckooHasher ----------------------------
(***************************************************************************)
(* CuckooHasher::HashCuckoo (src/distributed_vector_ole/cuckoo_hasher.h):  *)
(* each of `num_inputs' inputs gets a bucket of its own, among those that  *)
(* its hash functions name, by evicting earlier inputs.                    *)
(*                                                                         *)
(* One step is one try of the inner loop.  Inputs are numbered from 1,     *)
(* and 0 stands for the -1 of an empty bucket.                             *)
(***************************************************************************)
EXTENDS Hasher

CONSTANT InputCounts  \* the numbers of inputs considered

ASSUME InputCountsAssumption == InputCounts \subseteq Nat

VARIABLES
  num_inputs,             \* inputs.size()
  buckets,                \* the input in each bucket, or 0
  next_hash_function,     \* by bucket, for the input that is in it
  current_element,        \* the input to be placed
  current_hash_function,  \* the function to place it with
  inserted,               \* the loop variable i: inputs below it are placed
  tries,                  \* tries made for input i
  status                  \* "called", "running", or what HashCuckoo returns

hash_cuckoo_vars == <<num_inputs, hashes, buckets, next_hash_function, current_element,
          current_hash_function, inserted, tries, status>>

Inputs == 1 .. num_inputs
num_tries == num_inputs

HashCuckooInit ==
  /\ num_inputs \in InputCounts
  /\ hashes = <<>>
  /\ buckets = [b \in Buckets |-> 0]
  /\ next_hash_function = [b \in Buckets |-> 0]
  /\ current_element = 1
  /\ current_hash_function = 0
  /\ inserted = 0
  /\ tries = 0
  /\ status = "called"

SizesAccepted == num_hash_functions > 1 /\ num_inputs <= BucketCount

\* The checks on the sizes, before anything is hashed.
RejectSizes ==
  /\ status = "called" /\ ~SizesAccepted
  /\ status' = "invalid argument"
  /\ UNCHANGED <<num_inputs, hashes, buckets, next_hash_function,
                 current_element, current_hash_function, inserted, tries>>

Hash ==
  /\ status = "called" /\ SizesAccepted
  /\ hashes' \in [Inputs -> [Functions -> Buckets]]
  /\ status' = "running"
  /\ UNCHANGED <<num_inputs, buckets, next_hash_function, current_element,
                 current_hash_function, inserted, tries>>

Inserting == status = "running" /\ inserted < num_inputs

\* The bucket that the current input goes to.
MutIndexOfInput ==  \* mutant: the hash value of input i, not of the evicted one
  hashes[inserted + 1][current_hash_function]
index == hashes[current_element][current_hash_function]

\* Bucket empty: insert, and go on to the next input.
InsertIntoEmpty ==
  /\ Inserting /\ tries < num_tries
  /\ buckets[index] = 0
  /\ buckets' = [buckets EXCEPT ![index] = current_element]
  /\ inserted' = inserted + 1
  /\ current_element' = inserted + 2
  /\ current_hash_function' = 0
  /\ tries' = 0
  /\ UNCHANGED <<num_inputs, hashes, next_hash_function, status>>

\* Bucket full: swap with the input in it, which continues with the hash
\* function noted for the bucket; the note becomes the function after the one
\* that brought the new input here.
MutForgetEvicted == current_element  \* mutant: the evicted input is dropped
Evicted == buckets[index]

MutNoWrap == current_hash_function + 1  \* mutant: the counter is not reduced
NextFunction == (current_hash_function + 1) % num_hash_functions

MutCountNothing == tries  \* mutant: tries are not counted
NextTry == tries + 1

Evict ==
  /\ Inserting /\ tries < num_tries
  /\ buckets[index] # 0
  /\ buckets' = [buckets EXCEPT ![index] = current_element]
  /\ current_element' = Evicted
  /\ current_hash_function' = next_hash_function[index]
  /\ next_hash_function' = [next_hash_function EXCEPT ![index] = NextFunction]
  /\ tries' = NextTry
  /\ UNCHANGED <<num_inputs, hashes, inserted, status>>

\* "Failed to insert element, maximum number of tries exhausted".
GiveUp ==
  /\ Inserting /\ tries = num_tries
  /\ status' = "internal error"
  /\ UNCHANGED <<num_inputs, hashes, buckets, next_hash_function,
                 current_element, current_hash_function, inserted, tries>>

\* All inputs have a bucket.
Finish ==
  /\ status = "running" /\ inserted = num_inputs
  /\ status' = "ok"
  /\ UNCHANGED <<num_inputs, hashes, buckets, next_hash_function,
                 current_element, current_hash_function, inserted, tries>>

HashCuckooNext == RejectSizes \/ Hash \/ InsertIntoEmpty \/ Evict \/ GiveUp \/ Finish

HashCuckooSpec == HashCuckooInit /\ [][HashCuckooNext]_hash_cuckoo_vars

\* A single thread that runs until it returns.
FairHashCuckoo == HashCuckooSpec /\ WF_hash_cuckoo_vars(HashCuckooNext)

-----------------------------------------------------------------------------
HashCuckooTypeOK ==
  /\ num_inputs \in InputCounts
  /\ status \in {"called", "running", "ok", "invalid argument", "internal error"}
  /\ status \in {"running", "ok", "internal error"} =>
       hashes \in [Inputs -> [Functions -> Buckets]]
  /\ status \in {"called", "invalid argument"} => inserted = 0 /\ tries = 0
  /\ buckets \in [Buckets -> 0 .. num_inputs]
  /\ next_hash_function \in [Buckets -> Functions]
  /\ inserted \in 0 .. num_inputs
  /\ inserted < num_inputs => current_element \in Inputs
  /\ current_hash_function \in Functions
  /\ tries \in 0 .. num_tries

\* The inputs taken up so far: those placed, and the one being placed.
TakenUp == 1 .. inserted + 1

\* No input is lost or duplicated while inputs evict each other: at any moment
\* the current input and the buckets hold each input taken up exactly once.
NothingLost ==
  inserted < num_inputs =>
    /\ \A b \in Buckets : buckets[b] # current_element
    /\ \A e \in TakenUp \ {current_element} : \E b \in Buckets : buckets[b] = e
    /\ \A b \in Buckets : buckets[b] # 0 => buckets[b] \in TakenUp
    /\ \A b, c \in Buckets : buckets[b] = buckets[c] /\ buckets[b] # 0 => b = c

\* MPFSSKnownIndices looks an index up in the bucket that HashCuckoo gave it, so
\* HashSimple must have put it there (mpfss_known_indices.h:249-257): a bucket
\* holds only inputs that one of the hash functions maps to it.
PlacedByHash ==
  \A b \in Buckets : buckets[b] # 0 =>
    \E f \in Functions : hashes[buckets[b]][f] = b

\* "Returns a vector of indices into `inputs`" (cuckoo_hasher.h:73): the result
\* has every input in exactly one bucket.
ResultComplete ==
  status = "ok" =>
    \A e \in Inputs : \E b \in Buckets :
      /\ buckets[b] = e
      /\ \A c \in Buckets : buckets[c] = e => c = b

\* HashCuckoo returns: evictions do not go round forever.
Terminates == <>(status \notin {"called", "running"})

=============================================================================
