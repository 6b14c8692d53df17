-------------------------- MODULE MPFSSKnownIndices --------------------------
(***************************************************************************)
(* The Vector-OLE variant of multi-point function secret sharing           *)
(* (src/distributed_vector_ole/mpfss_known_indices.h, .cpp).  The value    *)
(* provider has x and w, the index provider y, indices, u and v with       *)
(* w = u*x + v; they obtain vectors that add up to x*y[k] at indices[k].   *)
(*                                                                         *)
(* What the parts below promise is taken from their own modules: HashSimple *)
(* from SimpleHashing (Deterministic), HashCuckoo from CuckooHasher        *)
(* (ResultComplete, PlacedByHash), and the single-point sharings from      *)
(* SPFSSKnownIndex (SharesPoint), which are one step of both ends.         *)
(*                                                                         *)
(* Buckets and positions are numbered from 1, indices from 0 as in C++.    *)
(***************************************************************************)
EXTENDS Integers, FiniteSets, SequencesExt

CONSTANTS
  Hashes,       \* hash tables: hash[num_buckets][index], the buckets of an index
  NumBuckets,   \* GetOptimalNumberOfBuckets, by number of indices
  OutputSizes,  \* output.size()
  IndexLists,   \* the sequences of indices asked for
  Scalars,      \* the values of x and of the entries of y
  modulus,      \* of the scalars T
  MaxCalls      \* bound: calls of Run*VectorOLE

ASSUME MPFSSAssumption ==
  /\ OutputSizes \subseteq Nat \ {0} /\ modulus \in Nat \ {0} /\ MaxCalls \in Nat
  /\ IndexLists \subseteq Seq(Int) /\ Scalars \subseteq 0 .. modulus - 1
  /\ \A indices \in IndexLists :
       NumBuckets[Len(indices)] \in Nat /\ Len(indices) <= NumBuckets[Len(indices)]
  /\ \A h \in Hashes, indices \in IndexLists, size \in OutputSizes :
       \A i \in 0 .. size - 1 : IsFiniteSet(DOMAIN h[NumBuckets[Len(indices)]][i])

Roles == {"value", "index"}

VARIABLES
  hash,     \* of the hasher_, which the two ends have seeded alike
  calls,    \* calls made
  args,     \* the arguments of the current call, of both ends
  pc,       \* pc[role]
  cache,    \* cache[role]: buckets_, cached_output_size_, cached_num_indices_
  placed,   \* hashed_inputs: the number of the index in each bucket, or 0
  channel,  \* masked values, to the value provider
  shares,   \* shares[role]: val_share (resp. v), one for each bucket
  output    \* output[role]

vars == <<hash, calls, args, pc, cache, placed, channel, shares, output>>

NoArguments == [size |-> 1, indices |-> <<>>, x |-> 0, y |-> <<>>]
EmptyCache == [size |-> 0, num |-> 0, buckets |-> <<>>]

Init ==
  /\ hash \in Hashes
  /\ calls = 0
  /\ args = NoArguments
  /\ pc = [r \in Roles |-> "idle"]
  /\ cache = [r \in Roles |-> EmptyCache]
  /\ placed = <<>> /\ channel = <<>>
  /\ shares = [r \in Roles |-> <<>>]
  /\ output = [r \in Roles |-> <<>>]

-----------------------------------------------------------------------------
y_len == Len(args.indices)

\* HashSimple of 0 .. size - 1: ascending, an index once for each hash function
\* that leads to the bucket.
Copies(i, bucket, num_buckets) ==
  LET to == {f \in DOMAIN hash[num_buckets][i] : hash[num_buckets][i][f] = bucket}
  IN  [k \in 1 .. Cardinality(to) |-> i]

MutOneBased(size, num_buckets) ==  \* mutant: hashes 1 .. size
  [b \in 1 .. num_buckets |->
    FlattenSeq([i \in 1 .. size |-> Copies(i, b, num_buckets)])]
HashSimple(size, num_buckets) ==
  [b \in 1 .. num_buckets |->
    FlattenSeq([i \in 1 .. size |-> Copies(i - 1, b, num_buckets)])]

MutOnlyNum(r, size, num) == cache[r].num # num  \* mutant: output_size forgotten
NeedsUpdate(r, size, num) == cache[r].size # size \/ cache[r].num # num

UpdateBuckets(r, size, num) ==
  cache' = [cache EXCEPT ![r] =
    IF NeedsUpdate(r, size, num)
    THEN [size |-> size, num |-> num, buckets |-> HashSimple(size, NumBuckets[num])]
    ELSE @]

\* The vectors of the correlation, one entry for each bucket.
u == [b \in 1 .. NumBuckets[y_len] |-> (b + 1) % modulus]
v == [b \in 1 .. NumBuckets[y_len] |-> (2 * b) % modulus]
w == [b \in 1 .. NumBuckets[y_len] |-> (u[b] * args.x + v[b]) % modulus]

\* Both applications make the next call.
Call ==
  /\ \A r \in Roles : pc[r] = "idle"
  /\ calls < MaxCalls
  /\ calls' = calls + 1
  /\ \E size \in OutputSizes, indices \in IndexLists, x \in Scalars :
       \E y \in [DOMAIN indices -> Scalars] :
         args' = [size |-> size, indices |-> indices, x |-> x, y |-> y]
  /\ pc' = [r \in Roles |-> "begin"]
  /\ UNCHANGED <<hash, cache, placed, channel, shares, output>>

\* They have taken the results.
Return ==
  /\ pc = [r \in Roles |-> "done"]
  /\ pc' = [r \in Roles |-> "idle"]
  /\ args' = NoArguments /\ placed' = <<>>
  /\ shares' = [r \in Roles |-> <<>>]
  /\ output' = [r \in Roles |-> <<>>]
  /\ UNCHANGED <<hash, calls, cache, channel>>

\* UpdateBuckets called by one application for a later call.
Prepare(r) ==
  /\ pc[r] = "idle"
  /\ \E size \in OutputSizes, indices \in IndexLists :
       UpdateBuckets(r, size, Len(indices))
  /\ UNCHANGED <<hash, calls, args, pc, placed, channel, shares, output>>

Fail(r) == pc' = [pc EXCEPT ![r] = "failed"]

\* "`y_len` must be positive"; "`y` and `indices` must not be empty"
RefuseEmpty(r) ==
  /\ pc[r] = "begin" /\ y_len < 1
  /\ Fail(r)
  /\ UNCHANGED <<hash, calls, args, cache, placed, channel, shares, output>>

-----------------------------------------------------------------------------
(* The value provider.                                                     *)

StartValueProvider ==
  /\ pc["value"] = "begin" /\ y_len >= 1
  /\ UpdateBuckets("value", args.size, y_len)
  /\ pc' = [pc EXCEPT !["value"] = "masked"]
  /\ UNCHANGED <<hash, calls, args, placed, channel, shares, output>>

\* Its share of x*y is (y + u) * x - w.
ValueShare(y_masked, b) == (y_masked[b] * args.x - w[b]) % modulus

ReceiveMasked ==
  /\ pc["value"] = "masked" /\ channel # <<>>
  /\ channel' = Tail(channel)
  /\ shares' = [shares EXCEPT !["value"] =
       [b \in DOMAIN Head(channel) |-> ValueShare(Head(channel), b)]]
  /\ pc' = [pc EXCEPT !["value"] = "spfss"]
  /\ UNCHANGED <<hash, calls, args, cache, placed, output>>

-----------------------------------------------------------------------------
(* The index provider.                                                     *)

\* "`output` must be at least as long as `indices`", "`indices[i]` out of range"
BadIndices ==
  args.size < y_len \/ \E k \in 1 .. y_len : args.indices[k] > args.size

RefuseIndices ==
  /\ pc["index"] = "begin" /\ y_len >= 1 /\ BadIndices
  /\ Fail("index")
  /\ UNCHANGED <<hash, calls, args, cache, placed, channel, shares, output>>

\* HashCuckoo finds no placement, or all of the tries end in another one.
CuckooFails ==
  /\ pc["index"] = "begin" /\ y_len >= 1 /\ ~BadIndices
  /\ UpdateBuckets("index", args.size, y_len)
  /\ Fail("index")
  /\ UNCHANGED <<hash, calls, args, placed, channel, shares, output>>

\* What HashCuckoo may return.
Placements(num_buckets) ==
  {h \in [1 .. num_buckets -> 0 .. y_len] :
     /\ \A k \in 1 .. y_len : Cardinality({b \in DOMAIN h : h[b] = k}) = 1
     /\ \A b \in DOMAIN h : h[b] # 0 =>
          \E f \in DOMAIN hash[num_buckets][args.indices[h[b]]] :
            hash[num_buckets][args.indices[h[b]]][f] = b}

\* Hash the indices, permute y accordingly, mask it with u and send it.
Masked(h, b) == ((IF h[b] = 0 THEN 0 ELSE args.y[h[b]]) + u[b]) % modulus

SendMasked ==
  /\ pc["index"] = "begin" /\ y_len >= 1 /\ ~BadIndices
  /\ UpdateBuckets("index", args.size, y_len)
  /\ LET num_buckets == Len(cache'["index"].buckets)
     IN  \E h \in Placements(num_buckets) :
           /\ placed' = h
           /\ channel' = Append(channel, [b \in 1 .. num_buckets |-> Masked(h, b)])
  /\ shares' = [shares EXCEPT !["index"] = v]
  /\ pc' = [pc EXCEPT !["index"] = "spfss"]
  /\ UNCHANGED <<hash, calls, args, output>>

\* std::lower_bound in a bucket: the position of the first entry not below the
\* index, which is behind the last one for an index above all.
MutUpperBound(bucket, i) ==  \* mutant: the first entry above it
  Min({j \in 1 .. Len(bucket) + 1 : j \in DOMAIN bucket => bucket[j] > i})
LowerBound(bucket, i) ==
  Min({j \in 1 .. Len(bucket) + 1 : j \in DOMAIN bucket => bucket[j] >= i})

\* index_in_bucket
PositionInBucket(b) ==
  LET bucket == cache["index"].buckets[b]
  IN  IF bucket = <<>> \/ placed[b] = 0 THEN 1
      ELSE LowerBound(bucket, args.indices[placed[b]])

PositionsFit ==
  \A b \in DOMAIN placed :
    LET len == Len(cache["index"].buckets[b])
    IN  len > 0 => PositionInBucket(b) <= len

\* The single-point protocol refuses a position, after y has been sent.
RefusePosition ==
  /\ pc["index"] = "spfss" /\ ~PositionsFit
  /\ Fail("index")
  /\ UNCHANGED <<hash, calls, args, cache, placed, channel, shares, output>>

-----------------------------------------------------------------------------
\* The single-point sharings of all buckets, with some random leaves, and their
\* sums at the indices that are in the buckets.
Leaf(mask, b, j) == (mask + 3 * b + j) % modulus

Share(r, mask, b, j) ==
  IF r = "value" THEN -Leaf(mask, b, j)
  ELSE Leaf(mask, b, j) + (IF j = PositionInBucket(b)
                           THEN shares["value"][b] + shares["index"][b] ELSE 0)

\* The sum of the values of a function.
Total(f) == FoldFunction(+, 0, f)

SumAt(r, mask, i) ==
  LET buckets == cache[r].buckets
  IN  Total([b \in DOMAIN buckets |->
        Total([j \in {k \in DOMAIN buckets[b] : buckets[b][k] = i} |->
          Share(r, mask, b, j)])]) % modulus

RunSPFSS ==
  /\ pc["value"] = "spfss" /\ pc["index"] = "spfss" /\ PositionsFit
  /\ \E mask \in Scalars :
       output' = [r \in Roles |-> [i \in 1 .. args.size |-> SumAt(r, mask, i - 1)]]
  /\ pc' = [r \in Roles |-> "done"]
  /\ UNCHANGED <<hash, calls, args, cache, placed, channel, shares>>

Next ==
  \/ Call \/ \E r \in Roles : Prepare(r) \/ RefuseEmpty(r)
  \/ StartValueProvider \/ ReceiveMasked
  \/ RefuseIndices \/ CuckooFails \/ SendMasked \/ RefusePosition
  \/ RunSPFSS \/ Return

Spec == Init /\ [][Next]_vars

-----------------------------------------------------------------------------
TypeOK ==
  /\ hash \in Hashes /\ calls \in 0 .. MaxCalls
  /\ pc \in [Roles -> {"idle", "begin", "masked", "spfss", "done", "failed"}]
  /\ \A r \in Roles :
       /\ ToSet(shares[r]) \subseteq 0 .. modulus - 1
       /\ ToSet(output[r]) \subseteq 0 .. modulus - 1
       /\ \A b \in DOMAIN cache[r].buckets :
            ToSet(cache[r].buckets[b]) \subseteq 0 .. cache[r].size - 1

\* The two ends enter the single-point sharings with the same sizes, whatever
\* each of them has cached before; the sizes of these are not sent.
SizesAgree ==
  pc = [r \in Roles |-> "spfss"] =>
    /\ cache["value"].buckets = cache["index"].buckets
    /\ \A r \in Roles : Len(shares[r]) = Len(cache[r].buckets)

\* "Additive shares of `x y`" (mpfss_known_indices.h:91-96), with y[k] at
\* indices[k].
SharesProduct ==
  pc = [r \in Roles |-> "done"] =>
    \A i \in 1 .. args.size :
      (output["value"][i] + output["index"][i]) % modulus =
        Total([k \in {l \in 1 .. y_len : args.indices[l] = i - 1} |->
          args.x * args.y[k]]) % modulus

\* "`indices[i]` out of range" (mpfss_known_indices.h:192-197; "between 0 and
\* output.size() - 1", 81-82): no call with such an index succeeds.
OutOfRangeRefused ==
  pc["index"] = "done" =>
    \A k \in 1 .. y_len : args.indices[k] \in 0 .. args.size - 1

=============================================================================
