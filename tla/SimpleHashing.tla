---------------------------- MODULE SimpleHashing ----------------------------
(***************************************************************************)
(* CuckooHasher::HashSimple (src/distributed_vector_ole/cuckoo_hasher.h):  *)
(* every input goes to the bucket of each of its hash functions.  The      *)
(* threads of an OpenMP team each hash one chunk of the inputs into        *)
(* buckets of their own (thread_result) and then append them to `result'   *)
(* one thread after the other.                                             *)
(*                                                                         *)
(* Both ends of the protocol call this with the same inputs and hashes but *)
(* on machines of their own, so the result may depend neither on the size  *)
(* of the team nor on the schedule; and MPFSSKnownIndices finds an index   *)
(* in its bucket by binary search.                                         *)
(***************************************************************************)
EXTENDS Hasher

CONSTANTS
  NumInputs,   \* inputs.size()
  MaxThreads   \* bound: size of the OpenMP team

ASSUME TeamAssumption == NumInputs \in Nat /\ MaxThreads \in Nat \ {0}

AllInputs == 1 .. NumInputs

VARIABLES
  num_threads,    \* omp_get_num_threads()
  next,           \* next[t]: the next input that thread t hashes
  thread_result,  \* thread_result[t][b]
  turn,           \* the iteration of the ordered loop that may run
  bucket,         \* the bucket that this iteration appends next
  result          \* result[b]

hash_simple_vars == <<hashes, num_threads, next, thread_result, turn, bucket, result>>

Threads == 1 .. num_threads

\* schedule(static): contiguous chunks of even size, in the order of the threads.
MutStart(t) == ((t - 1) * NumInputs) \div num_threads  \* mutant: one too low
Start(t) == ((t - 1) * NumInputs) \div num_threads + 1
End(t) == (t * NumInputs) \div num_threads

NoBuckets == [b \in Buckets |-> <<>>]

HashSimpleInit ==
  /\ hashes \in [AllInputs -> [Functions -> Buckets]]
  /\ num_threads \in 1 .. MaxThreads
  /\ next = [t \in Threads |-> Start(t)]
  /\ thread_result = [t \in Threads |-> NoBuckets]
  /\ turn = 1
  /\ bucket = 1
  /\ result = NoBuckets

\* thread_result[hashes[i][j]].push_back(i), for each hash function j.
PushedBack(i, b) == [j \in 1 .. Cardinality({f \in Functions : hashes[i][f] = b}) |-> i]

HashInput(t) ==
  /\ next[t] <= End(t)
  /\ thread_result' = [thread_result EXCEPT ![t] =
       [b \in Buckets |-> @[b] \o PushedBack(next[t], b)]]
  /\ next' = [next EXCEPT ![t] = @ + 1]
  /\ UNCHANGED <<hashes, num_threads, turn, bucket, result>>

\* A thread gets to the second loop without waiting for the others (nowait), but
\* its iteration of that loop runs in order.
MutUnordered(t) == next[t] > End(t) /\ turn <= num_threads  \* mutant: no `ordered'
MutNeverFirst(t) == next[t] > End(t) /\ turn = t - 1  \* mutant: waits for itself
MayAppend(t) == next[t] > End(t) /\ turn = t

\* result[b].insert(result[b].end(), ...), one bucket after the other.
AppendBucket(t) ==
  /\ MayAppend(t)
  /\ result' = [result EXCEPT ![bucket] = @ \o thread_result[t][bucket]]
  /\ \/ bucket < BucketCount /\ bucket' = bucket + 1 /\ UNCHANGED turn
     \/ bucket = BucketCount /\ bucket' = 1 /\ turn' = turn + 1
  /\ UNCHANGED <<hashes, num_threads, next, thread_result>>

HashSimpleNext == \E t \in Threads : HashInput(t) \/ AppendBucket(t)

HashSimpleSpec == HashSimpleInit /\ [][HashSimpleNext]_hash_simple_vars

\* Every thread of the team runs.
FairHashSimple ==
  HashSimpleSpec /\ \A t \in 1 .. MaxThreads :
    WF_hash_simple_vars(t \in Threads /\ (HashInput(t) \/ AppendBucket(t)))

Finished == turn > num_threads

-----------------------------------------------------------------------------
HashSimpleTypeOK ==
  /\ hashes \in [AllInputs -> [Functions -> Buckets]]
  /\ num_threads \in 1 .. MaxThreads
  /\ next \in [Threads -> 1 .. NumInputs + 1]
  /\ thread_result \in [Threads -> [Buckets -> Seq(AllInputs)]]
  /\ turn \in 1 .. num_threads + 1
  /\ bucket \in Buckets
  /\ result \in [Buckets -> Seq(AllInputs)]

\* What one thread alone would make of all inputs.
Sequential(b) == FlattenSeq([i \in AllInputs |-> PushedBack(i, b)])

\* The two ends compute the same buckets, whatever their teams and schedules
\* (cuckoo_hasher.h:150-162), and these are in ascending order, as the binary
\* search at mpfss_known_indices.h:251-256 assumes.
Deterministic == Finished => \A b \in Buckets : result[b] = Sequential(b)

\* The team finishes: no thread waits for its turn for ever.
TeamFinishes == <>Finished

=============================================================================
