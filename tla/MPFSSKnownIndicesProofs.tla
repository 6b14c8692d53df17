----------------------- MODULE MPFSSKnownIndicesProofs -----------------------
(***************************************************************************)
(* The two ends of MPFSSKnownIndices enter the single-point sharings with  *)
(* the same sizes, and their results are additive shares of the product:   *)
(* for all hash values, output sizes and lists of indices, any numbers of  *)
(* buckets, any modulus, and whatever calls and updates came before.       *)
(*                                                                         *)
(* SizesAgree is not inductive: it speaks of the moment when both ends     *)
(* have their buckets.  Inv says what a cache may hold at any time, that   *)
(* an end past its update has the cache of the current call, and how long  *)
(* the masked vector is while it is on its way.  Extra says what this      *)
(* vector and the shares are: the values in the buckets that the indices   *)
(* were placed in, masked, and the two ends' shares of their products.     *)
(*                                                                         *)
(* SharesProduct then follows for the step that runs the single-point      *)
(* sharings.  In each bucket all but one of the leaves cancel              *)
(* (BucketTotals), and the one that does not is at the position of the     *)
(* placed index, as a bucket is ascending and holds every input that       *)
(* hashes to it (LowerBoundFinds, BucketOf); over all buckets the values   *)
(* in them are those of y, as each is placed once (SameSummands).          *)
(***************************************************************************)
EXTENDS MPFSSKnownIndices, CuckooHasher, SimpleHashing, FoldProofs

Labels == {"idle", "begin", "masked", "spfss", "done", "failed"}

\* A cache that UpdateBuckets has filled, for an output size and a number of
\* indices; the number of buckets in the current call.
CacheFor(size, num) ==
  [size |-> size, num |-> num, buckets |-> HashSimple(size, NumBuckets[num])]
Caches == {CacheFor(size, Len(indices)) : size \in OutputSizes, indices \in IndexLists}
num_buckets == NumBuckets[y_len]
CurrentCache == CacheFor(args.size, y_len)

Shaped ==
  /\ pc \in [Roles -> Labels]
  /\ cache \in [Roles -> {EmptyCache} \cup Caches]
  /\ shares = [r \in Roles |-> shares[r]]

\* The ends start and finish calls together, with arguments that are allowed,
\* and the value provider goes on only when the index provider has sent.
Together ==
  /\ pc["value"] = "idle" <=> pc["index"] = "idle"
  /\ pc["value"] = "done" <=> pc["index"] = "done"
  /\ pc["value"] = "spfss" => pc["index"] \in {"spfss", "failed"}
  /\ pc["value"] # "idle" => args.size \in OutputSizes /\ args.indices \in IndexLists

Updated ==
  /\ pc["value"] \in {"masked", "spfss"} => cache["value"] = CurrentCache
  /\ pc["index"] = "spfss" => cache["index"] = CurrentCache

\* One masked vector at most is on its way, and has an entry for each bucket.
Masks ==
  channel # <<>> =>
    /\ pc["index"] \in {"spfss", "failed"}
    /\ pc["value"] \in {"begin", "masked", "failed"}
    /\ channel = <<Head(channel)>>
    /\ DOMAIN Head(channel) = 1 .. num_buckets

SharesFit ==
  /\ pc["value"] = "spfss" => /\ DOMAIN shares["value"] = 1 .. num_buckets
                              /\ shares["value"] = [b \in 1 .. num_buckets |-> shares["value"][b]]
  /\ pc["index"] = "spfss" => /\ DOMAIN shares["index"] = 1 .. num_buckets
                              /\ shares["index"] = [b \in 1 .. num_buckets |-> shares["index"][b]]

Inv == Shaped /\ Together /\ Updated /\ Masks /\ SharesFit

-----------------------------------------------------------------------------
\* A vector with an entry for each of 1 .. n has length n.
LEMMA VectorLength ==
  ASSUME NEW n \in Nat, NEW f, f = [b \in 1 .. n |-> f[b]]
  PROVE  Len(f) = n
  <1> DEFINE S == {f[b] : b \in 1 .. n}
  <1>1. f \in Seq(S)
    <2>1. f \in [1 .. n -> S]
      OBVIOUS
    <2> QED
      BY <2>1, IsASeq
  <1>2. Len(f) \in Nat /\ DOMAIN f = 1 .. Len(f)
    BY <1>1, LenProperties
  <1>3. DOMAIN f = 1 .. n
    OBVIOUS
  <1> QED
    BY <1>2, <1>3

\* The only message in a channel is its first, and after it there is none.
LEMMA OneMessage ==
  ASSUME NEW e
  PROVE  Head(<<e>>) = e /\ Tail(<<e>>) = <<>> /\ Append(<<>>, e) = <<e>> /\ <<e>> # <<>>
  <1>1. <<e>> \in Seq({e}) /\ Len(<<e>>) = 1
    OBVIOUS
  <1>2. Tail(<<e>>) \in Seq({e}) /\ Len(Tail(<<e>>)) = 0
    BY <1>1, HeadTailProperties
  <1>3. Tail(<<e>>) = <<>>
    BY <1>2, EmptySeq
  <1> QED
    BY <1>3

\* After UpdateBuckets an end has the cache that it has asked for, filled now or
\* earlier, and the other end's is as it was (mpfss_known_indices.cpp:68-85).
LEMMA UpdateCaches ==
  ASSUME Shaped, NEW r \in Roles, NEW size \in OutputSizes, NEW indices \in IndexLists,
         UpdateBuckets(r, size, Len(indices))
  PROVE  /\ cache' \in [Roles -> {EmptyCache} \cup Caches]
         /\ cache'[r] = CacheFor(size, Len(indices))
         /\ \A q \in Roles \ {r} : cache'[q] = cache[q]
  <1>1. CacheFor(size, Len(indices)) \in Caches
    BY DEF Caches
  <1>2. CASE NeedsUpdate(r, size, Len(indices))
    <2>1. cache' = [cache EXCEPT ![r] = CacheFor(size, Len(indices))]
      BY <1>2 DEF UpdateBuckets, CacheFor
    <2> QED
      BY <1>1, <2>1 DEF Shaped
  <1>3. CASE ~NeedsUpdate(r, size, Len(indices))
    <2>1. cache[r].size = size /\ cache[r].num = Len(indices)
      BY <1>3 DEF NeedsUpdate
    <2>2. cache[r] # EmptyCache
      BY <2>1, MPFSSAssumption DEF EmptyCache
    <2>3. PICK s \in OutputSizes, list \in IndexLists : cache[r] = CacheFor(s, Len(list))
      BY <2>2 DEF Shaped, Caches
    <2>4. cache[r] = CacheFor(size, Len(indices))
      BY <2>1, <2>3 DEF CacheFor
    <2>5. cache' = cache
      BY <1>3 DEF UpdateBuckets, Shaped
    <2> QED
      BY <2>4, <2>5 DEF Shaped
  <1> QED
    BY <1>2, <1>3

\* The buckets of a filled cache are as many as were asked for.
LEMMA CacheLength ==
  ASSUME NEW size, NEW num, NumBuckets[num] \in Nat
  PROVE  Len(CacheFor(size, num).buckets) = NumBuckets[num]
  <1>1. CacheFor(size, num).buckets =
          [b \in 1 .. NumBuckets[num] |-> CacheFor(size, num).buckets[b]]
    BY DEF CacheFor, HashSimple
  <1> QED
    BY <1>1, VectorLength

\* The hash values never change, nor do the arguments within a call.
LEMMA SameHash ==
  ASSUME UNCHANGED hash
  PROVE  Caches' = Caches
  BY DEF Caches, CacheFor, HashSimple, Copies

\* Within a call, the cache that fits its arguments stays the same.
LEMMA SameCall ==
  ASSUME UNCHANGED <<hash, args>>
  PROVE  CurrentCache' = CurrentCache /\ num_buckets' = num_buckets
  BY DEF CurrentCache, num_buckets, y_len, CacheFor, HashSimple, Copies

\* Two objects without a cache and without a call.
LEMMA InitInv == Init => Inv
  BY DEF Init, Inv, Shaped, Together, Updated, Masks, SharesFit, Roles, Labels

\* Steps that change no cache, channel or share, and in which an end only fails.
LEMMA FailInv ==
  ASSUME Inv, NEW r \in Roles, pc[r] \in {"begin", "spfss"}, Fail(r),
         UNCHANGED <<hash, args, cache, channel, shares>>
  PROVE  Inv'
  <1>1. pc' = [pc EXCEPT ![r] = "failed"]
    BY DEF Fail
  <1>2. Shaped' /\ Together'
    BY SameHash, <1>1 DEF Inv, Shaped, Together, Roles, Labels
  <1>3. Updated' /\ SharesFit'
    BY SameCall, <1>1 DEF Inv, Shaped, Updated, SharesFit, Roles
  <1>4. Masks'
    BY SameCall, <1>1 DEF Inv, Shaped, Masks, Roles
  <1> QED
    BY <1>2, <1>3, <1>4 DEF Inv

\* Between calls no message is on its way, so a new call finds none.
LEMMA CallInv ==
  ASSUME Inv, Call PROVE Inv'
  <1>1. PICK size \in OutputSizes, indices \in IndexLists, x \in Scalars :
          \E y \in [DOMAIN indices -> Scalars] :
            args' = [size |-> size, indices |-> indices, x |-> x, y |-> y]
    BY DEF Call
  <1>2. args'.size = size /\ args'.indices = indices
    BY <1>1
  <1>3. channel = <<>>
    BY DEF Inv, Masks, Call, Roles
  <1>4. Shaped' /\ Together'
    BY SameHash, <1>2 DEF Inv, Shaped, Together, Call, Roles, Labels
  <1>5. Updated' /\ Masks' /\ SharesFit'
    BY <1>3 DEF Updated, Masks, SharesFit, Call, Roles
  <1> QED
    BY <1>4, <1>5 DEF Inv

\* The end of a call leaves the caches.
LEMMA ReturnInv ==
  ASSUME Inv, Return PROVE Inv'
  <1>1. channel = <<>>
    BY DEF Inv, Masks, Return, Roles
  <1>2. Shaped' /\ Together'
    BY SameHash DEF Inv, Shaped, Together, Return, Roles, Labels
  <1>3. Updated' /\ Masks' /\ SharesFit'
    BY <1>1 DEF Updated, Masks, SharesFit, Return, Roles
  <1> QED
    BY <1>2, <1>3 DEF Inv

\* An application may update the buckets for a later call only between calls.
LEMMA PrepareInv ==
  ASSUME Inv, NEW r \in Roles, Prepare(r) PROVE Inv'
  <1>1. PICK size \in OutputSizes, indices \in IndexLists :
          UpdateBuckets(r, size, Len(indices))
    BY DEF Prepare
  <1>2. cache' \in [Roles -> {EmptyCache} \cup Caches]
    BY <1>1, UpdateCaches DEF Inv
  <1>3. Shaped' /\ Together'
    BY SameHash, <1>2 DEF Inv, Shaped, Together, Prepare
  <1>4. pc["value"] = "idle" /\ pc["index"] = "idle"
    BY DEF Prepare, Inv, Together, Roles
  <1>5. Updated' /\ Masks' /\ SharesFit'
    BY <1>4 DEF Inv, Updated, Masks, SharesFit, Prepare
  <1> QED
    BY <1>3, <1>5 DEF Inv

\* The value provider enters a call, with whatever cache it has.
LEMMA StartValueProviderInv ==
  ASSUME Inv, StartValueProvider PROVE Inv'
  <1>1. args.size \in OutputSizes /\ args.indices \in IndexLists
    BY DEF Inv, Together, StartValueProvider
  <1>2. /\ cache' \in [Roles -> {EmptyCache} \cup Caches]
        /\ cache'["value"] = CurrentCache
        /\ cache'["index"] = cache["index"]
    BY <1>1, UpdateCaches DEF Inv, StartValueProvider, Roles, y_len, CurrentCache
  <1>3. Shaped' /\ Together'
    BY SameHash, <1>2 DEF Inv, Shaped, Together, StartValueProvider, Roles, Labels
  <1>4. Updated'
    BY SameCall, <1>2 DEF Inv, Shaped, Updated, StartValueProvider, Roles, y_len
  <1>5. Masks' /\ SharesFit'
    BY SameCall DEF Inv, Shaped, Masks, SharesFit, StartValueProvider, Roles
  <1> QED
    BY <1>3, <1>4, <1>5 DEF Inv

\* The shares are as many as the masked values, and the channel is empty again.
LEMMA ReceiveMaskedInv ==
  ASSUME Inv, ReceiveMasked PROVE Inv'
  <1> DEFINE share == [b \in DOMAIN Head(channel) |-> ValueShare(Head(channel), b)]
  <1>1. channel = <<Head(channel)>> /\ DOMAIN Head(channel) = 1 .. num_buckets
    BY DEF Inv, Masks, ReceiveMasked
  <1>2. channel' = <<>>
    <2>1. Tail(<<Head(channel)>>) = <<>>
      BY OneMessage
    <2> QED
      BY <1>1, <2>1 DEF ReceiveMasked
  <1>3. shares' = [shares EXCEPT !["value"] = share]
    BY DEF ReceiveMasked
  <1>4. shares'["value"] = share /\ shares'["index"] = shares["index"]
    BY <1>3 DEF Inv, Shaped, Roles
  <1>5. Shaped' /\ Together'
    <2>1. pc["index"] \in {"spfss", "failed"}
      BY DEF Inv, Masks, ReceiveMasked
    <2>2. Shaped'
      BY SameHash, <1>3 DEF Inv, Shaped, ReceiveMasked, Roles, Labels
    <2>3. Together'
      BY <2>1 DEF Inv, Shaped, Together, ReceiveMasked, Roles, Labels
    <2> QED
      BY <2>2, <2>3
  <1>6. Updated' /\ Masks'
    BY SameCall, <1>2 DEF Inv, Shaped, Updated, Masks, ReceiveMasked, Roles, y_len
  <1>7. num_buckets' = num_buckets
    BY DEF ReceiveMasked, num_buckets, y_len
  <1>8. SharesFit'
    BY SameCall, <1>1, <1>4, <1>7 DEF Inv, Shaped, SharesFit, ReceiveMasked, Roles
  <1> QED
    BY <1>5, <1>6, <1>8 DEF Inv

\* The index provider has the buckets of this call when it sends, and masks as
\* many values as there are buckets.
LEMMA SendMaskedInv ==
  ASSUME Inv, SendMasked PROVE Inv'
  <1>1. args.size \in OutputSizes /\ args.indices \in IndexLists
    BY DEF Inv, Together, SendMasked
  <1>2. /\ cache' \in [Roles -> {EmptyCache} \cup Caches]
        /\ cache'["index"] = CurrentCache
        /\ cache'["value"] = cache["value"]
    BY <1>1, UpdateCaches DEF Inv, SendMasked, Roles, y_len, CurrentCache
  <1>3. num_buckets \in Nat /\ num_buckets' = num_buckets
    BY <1>1, MPFSSAssumption DEF num_buckets, y_len, SendMasked
  <1>4. Len(cache'["index"].buckets) = num_buckets
    BY <1>2, <1>3, CacheLength DEF num_buckets, CurrentCache
  <1>5. channel = <<>>
    BY DEF Inv, Masks, SendMasked
  <1>6. PICK h \in Placements(num_buckets) :
          channel' = Append(channel, [b \in 1 .. num_buckets |-> Masked(h, b)])
    BY <1>4 DEF SendMasked
  <1> DEFINE masked == [b \in 1 .. num_buckets |-> Masked(h, b)]
  <1>7. channel' = <<masked>> /\ Head(channel') = masked
    BY <1>5, <1>6, OneMessage
  <1>8. shares' = [shares EXCEPT !["index"] = v]
    BY DEF SendMasked
  <1>9. Shaped' /\ Together'
    BY SameHash, <1>2, <1>8 DEF Inv, Shaped, Together, SendMasked, Roles, Labels
  <1>10. Updated'
    BY SameCall, <1>2 DEF Inv, Shaped, Updated, SendMasked, Roles, y_len
  <1>11. Masks'
    <2>1. pc'["index"] = "spfss" /\ pc'["value"] \in {"begin", "masked", "failed"}
      BY DEF Inv, Shaped, Together, SendMasked, Roles, Labels
    <2>2. channel' = <<Head(channel')>> /\ DOMAIN Head(channel') = 1 .. num_buckets'
      BY <1>3, <1>7
    <2> QED
      BY <2>1, <2>2 DEF Masks
  <1>12. SharesFit'
    BY SameCall, <1>3, <1>8 DEF Inv, Shaped, SharesFit, SendMasked, Roles, v, num_buckets
  <1> QED
    BY <1>9, <1>10, <1>11, <1>12 DEF Inv

\* A failure of HashCuckoo ends the call of the index provider alone.
LEMMA CuckooFailsInv ==
  ASSUME Inv, CuckooFails PROVE Inv'
  <1>1. args.size \in OutputSizes /\ args.indices \in IndexLists
    BY DEF Inv, Together, CuckooFails
  <1>2. /\ cache' \in [Roles -> {EmptyCache} \cup Caches]
        /\ cache'["value"] = cache["value"]
    BY <1>1, UpdateCaches DEF Inv, CuckooFails, Roles, y_len
  <1>3. Shaped' /\ Together'
    BY SameHash, <1>2 DEF Inv, Shaped, Together, CuckooFails, Fail, Roles, Labels
  <1>4. Updated'
    BY SameCall, <1>2 DEF Inv, Shaped, Updated, CuckooFails, Fail, Roles, y_len
  <1>5. Masks' /\ SharesFit'
    BY SameCall DEF Inv, Shaped, Masks, SharesFit, CuckooFails, Fail, Roles
  <1> QED
    BY <1>3, <1>4, <1>5 DEF Inv

\* The single-point sharings, in which both ends have what they need.
LEMMA RunSPFSSInv ==
  ASSUME Inv, RunSPFSS PROVE Inv'
  <1>1. channel = <<>>
    BY DEF Inv, Masks, RunSPFSS
  <1>2. Shaped' /\ Together'
    BY SameHash DEF Inv, Shaped, Together, RunSPFSS, Roles, Labels
  <1>3. Updated' /\ Masks' /\ SharesFit'
    BY <1>1 DEF Updated, Masks, SharesFit, RunSPFSS, Roles
  <1> QED
    BY <1>2, <1>3 DEF Inv

-----------------------------------------------------------------------------
\* Every reachable state satisfies Inv.
THEOREM Invariance == Spec => []Inv
  <1>1. Inv /\ [Next]_vars => Inv'
    <2> SUFFICES ASSUME Inv, [Next]_vars PROVE Inv'
      OBVIOUS
    <2>1. CASE Call
      BY <2>1, CallInv
    <2>2. CASE \E r \in Roles : Prepare(r)
      BY <2>2, PrepareInv
    <2>3. ASSUME NEW r \in Roles, RefuseEmpty(r) PROVE Inv'
      BY <2>3, FailInv DEF RefuseEmpty
    <2>4. CASE StartValueProvider
      BY <2>4, StartValueProviderInv
    <2>5. CASE ReceiveMasked
      BY <2>5, ReceiveMaskedInv
    <2>6. CASE RefuseIndices \/ RefusePosition
      BY <2>6, FailInv DEF RefuseIndices, RefusePosition, Roles
    <2>7. CASE CuckooFails
      BY <2>7, CuckooFailsInv
    <2>8. CASE SendMasked
      BY <2>8, SendMaskedInv
    <2>9. CASE RunSPFSS
      BY <2>9, RunSPFSSInv
    <2>10. CASE Return
      BY <2>10, ReturnInv
    <2>11. CASE UNCHANGED vars
      BY <2>11, SameHash, SameCall DEF vars, Inv, Shaped, Together, Updated, Masks, SharesFit
    <2> QED
      BY <2>1, <2>2, <2>3, <2>4, <2>5, <2>6, <2>7, <2>8, <2>9, <2>10, <2>11 DEF Next
  <1> QED
    BY InitInv, <1>1, PTL DEF Spec

\* The sizes of the single-point sharings, which are not sent, agree: both ends
\* have the same buckets and a share for each (mpfss_known_indices.h:140-174, 198-267).
THEOREM SizesAlwaysAgree == Spec => []SizesAgree
  <1>1. Inv => SizesAgree
    <2> SUFFICES ASSUME Inv, pc = [r \in Roles |-> "spfss"] PROVE
          /\ cache["value"].buckets = cache["index"].buckets
          /\ \A r \in Roles : Len(shares[r]) = Len(cache[r].buckets)
      BY DEF SizesAgree
    <2>1. pc["value"] = "spfss" /\ pc["index"] = "spfss"
      BY DEF Roles
    <2>2. \A r \in Roles : cache[r] = CurrentCache
      BY <2>1 DEF Inv, Updated, Roles
    <2>3. num_buckets \in Nat
      BY <2>1, MPFSSAssumption DEF Inv, Together, num_buckets, y_len
    <2>4. \A r \in Roles : Len(cache[r].buckets) = num_buckets
      BY <2>2, <2>3, CacheLength DEF num_buckets, CurrentCache
    <2>5. \A r \in Roles : Len(shares[r]) = num_buckets
      BY <2>1, <2>3, VectorLength DEF Inv, SharesFit, Roles
    <2> QED
      BY <2>2, <2>4, <2>5 DEF Roles
  <1> QED
    BY Invariance, <1>1, PTL

-----------------------------------------------------------------------------
(* Buckets.                                                                *)

Ascending(s) == \A p, q \in DOMAIN s : p <= q => s[p] <= s[q]

\* `s' has c[i] copies of each i - 1 in ascending order, for i up to k.
HasCopies(s, c, k) ==
  /\ s \in Seq(Nat) /\ Ascending(s)
  /\ \A p \in DOMAIN s : s[p] < k
  /\ \A i \in 1 .. k : c[i] # 0 => \E p \in DOMAIN s : s[p] = i - 1

\* One number more.
LEMMA MoreCopies ==
  ASSUME NEW k \in Nat, NEW c, NEW s, HasCopies(s, c, k), NEW n \in Nat, n = c[k + 1],
         NEW t, t = [j \in 1 .. n |-> k]
  PROVE  HasCopies(s \o t, c, k + 1)
  <1>1. t \in [1 .. n -> Nat]
    OBVIOUS
  <1>2. t \in Seq(Nat) /\ Len(t) = n
    BY <1>1
  <1>3. PICK l, r : l = Len(s) /\ r = s \o t
    OBVIOUS
  <1>4. l \in Nat /\ DOMAIN s = 1 .. l /\ s \in Seq(Nat)
    BY <1>3 DEF HasCopies
  <1>5. r \in Seq(Nat) /\ DOMAIN r = 1 .. l + n
    BY <1>2, <1>3, <1>4
  <1>6. /\ \A p \in 1 .. l : r[p] = s[p] /\ s[p] \in Nat /\ s[p] < k
        /\ \A p \in 1 .. l + n : p > l => r[p] = k
    <2>1. \A p \in 1 .. l : r[p] = s[p] /\ s[p] \in Nat
      BY <1>2, <1>3, <1>4
    <2>2. ASSUME NEW p \in 1 .. l + n, p > l PROVE r[p] = k
      <3>1. p - l \in 1 .. n
        BY <1>4, <2>2
      <3>2. r[p] = t[p - l]
        BY <1>2, <1>3, <1>4, <2>2
      <3> QED
        BY <3>1, <3>2
    <2>3. \A p \in 1 .. l : s[p] < k
      BY <1>4 DEF HasCopies
    <2> QED
      BY <2>1, <2>2, <2>3
  <1>7. Ascending(r)
    <2> SUFFICES ASSUME NEW p \in 1 .. l + n, NEW q \in 1 .. l + n, p <= q PROVE r[p] <= r[q]
      BY <1>5 DEF Ascending
    <2>1. CASE q <= l
      <3>1. p \in 1 .. l /\ q \in 1 .. l
        BY <1>4, <2>1
      <3>2. s[p] <= s[q]
        BY <1>4, <3>1 DEF HasCopies, Ascending
      <3> QED
        BY <1>6, <3>1, <3>2
    <2>2. CASE q > l /\ p <= l
      <3>1. p \in 1 .. l
        BY <1>4, <2>2
      <3> QED
        BY <1>6, <2>2, <3>1
    <2>3. CASE p > l
      <3>1. q > l
        BY <1>4, <2>3
      <3> QED
        BY <1>6, <2>3, <3>1
    <2> QED
      BY <1>4, <2>1, <2>2, <2>3
  <1>8. ASSUME NEW p \in DOMAIN r PROVE r[p] < k + 1
    <2>1. p \in 1 .. l + n
      BY <1>5
    <2>2. CASE p <= l
      <3>1. p \in 1 .. l
        BY <1>4, <2>1, <2>2
      <3> QED
        BY <1>6, <3>1
    <2>3. CASE p > l
      <3>1. r[p] = k
        BY <1>6, <2>1, <2>3
      <3> QED
        BY <3>1
    <2> QED
      BY <1>4, <2>1, <2>2, <2>3
  <1>9. ASSUME NEW i \in 1 .. k + 1, c[i] # 0 PROVE \E p \in DOMAIN r : r[p] = i - 1
    <2>1. CASE i \in 1 .. k
      <3>1. PICK p \in DOMAIN s : s[p] = i - 1
        BY <1>9, <2>1 DEF HasCopies
      <3>2. p \in 1 .. l /\ p \in DOMAIN r
        BY <1>4, <1>5, <3>1
      <3> QED
        BY <1>6, <3>1, <3>2
    <2>2. CASE i = k + 1
      <3>1. l + 1 \in 1 .. l + n /\ l + 1 > l /\ i - 1 = k
        BY <1>4, <1>9, <2>2
      <3> QED
        BY <1>5, <1>6, <3>1
    <2> QED
      BY <2>1, <2>2
  <1> QED
    BY <1>3, <1>5, <1>7, <1>8, <1>9 DEF HasCopies

CopiesOf(c, n) == [i \in 1 .. n |-> [j \in 1 .. c[i] |-> i - 1]]

\* Copies of each number, one after the other.
LEMMA AllCopies ==
  ASSUME NEW n \in Nat, NEW c, NEW ss, \A i \in 1 .. n : c[i] \in Nat, ss = CopiesOf(c, n)
  PROVE  HasCopies(FlattenSeq(ss), c, n)
  <1>1. ss \in Seq(Seq(Nat)) /\ Len(ss) = n
    <2>1. ASSUME NEW i \in 1 .. n PROVE ss[i] \in Seq(Nat)
      <3>1. PICK d \in Nat, e \in Nat : d = c[i] /\ e = i - 1
        OBVIOUS
      <3>2. ss[i] = [j \in 1 .. d |-> e]
        BY <3>1 DEF CopiesOf
      <3>3. ss[i] \in [1 .. d -> Nat]
        BY <3>2
      <3> QED
        BY <3>3
    <2>2. ss \in [1 .. n -> Seq(Nat)]
      BY <2>1 DEF CopiesOf
    <2> QED
      BY <2>2
  <1> DEFINE F(k) == FlattenSeq([i \in 1 .. k |-> ss[i]])
  <1> HIDE DEF F
  <1>2. PICK P : P = {k \in Nat : k <= n => HasCopies(F(k), c, k)}
    OBVIOUS
  <1>3. 0 \in P
    <2>1. [i \in 1 .. 0 |-> ss[i]] = <<>>
      OBVIOUS
    <2>2. F(0) = <<>>
      BY <2>1, FlattenNothing DEF F
    <2>3. HasCopies(<<>>, c, 0)
      BY DEF HasCopies, Ascending
    <2> QED
      BY <1>2, <2>2, <2>3
  <1>4. ASSUME NEW k \in Nat, k \in P PROVE k + 1 \in P
    <2> SUFFICES ASSUME k + 1 <= n PROVE HasCopies(F(k + 1), c, k + 1)
      BY <1>2
    <2>1. HasCopies(F(k), c, k)
      BY <1>2, <1>4
    <2>2. PICK m : m = k + 1
      OBVIOUS
    <2>3. m \in 1 .. Len(ss) /\ m - 1 = k /\ m \in 1 .. n
      BY <1>1, <2>2
    <2>4. F(m) = F(k) \o ss[m]
      <3>3. /\ FlattenSeq([i \in 1 .. m |-> ss[i]]) \in Seq(Nat)
            /\ FlattenSeq([i \in 1 .. m |-> ss[i]]) = FlattenSeq([i \in 1 .. m - 1 |-> ss[i]]) \o ss[m]
        BY <1>1, <2>3, FlattenNext
      <3>4. F(m - 1) = F(k)
        BY <2>3
      <3> QED
        BY <3>3, <3>4 DEF F
    <2>5. PICK d \in Nat : d = c[m]
      BY <2>3
    <2>6. ss[m] = [j \in 1 .. d |-> k]
      BY <2>3, <2>5 DEF CopiesOf
    <2>7. HasCopies(F(k) \o ss[m], c, k + 1)
      BY <2>1, <2>2, <2>5, <2>6, MoreCopies
    <2> QED
      BY <2>2, <2>4, <2>7
  <1>5. \A k \in Nat : k \in P
    BY <1>3, <1>4, NumberInduction
  <1>6. HasCopies(F(n), c, n)
    BY <1>2, <1>5
  <1>7. [i \in 1 .. n |-> ss[i]] = ss
    BY DEF CopiesOf
  <1> QED
    BY <1>6, <1>7 DEF F

\* How often an input comes in bucket b, and what a bucket with these copies is.
CopyNumbers(nb, b, size) ==
  [i \in 1 .. size |-> Cardinality({f \in DOMAIN hash[nb][i - 1] : hash[nb][i - 1][f] = b})]

HasInputs(s, nb, b, c, size) ==
  /\ HasCopies(s, c, size)
  /\ \A i \in 0 .. size - 1 : \A f \in DOMAIN hash[nb][i] :
       hash[nb][i][f] = b => c[i + 1] # 0

\* A bucket of HashSimple: in ascending order, with inputs in range only and with
\* each that has a hash function which leads to it (cuckoo_hasher.h:55-66).
LEMMA BucketOf ==
  ASSUME hash \in Hashes, NEW size \in OutputSizes, NEW indices \in IndexLists, NEW nb,
         nb = NumBuckets[Len(indices)], NEW b \in 1 .. nb
  PROVE  HasInputs(HashSimple(size, nb)[b], nb, b, CopyNumbers(nb, b, size), size)
  <1>0. PICK c : c = CopyNumbers(nb, b, size)
    OBVIOUS
  <1>1. size \in Nat
    BY MPFSSAssumption
  <1>2. ASSUME NEW i \in 0 .. size - 1, NEW S, S = {f \in DOMAIN hash[nb][i] : hash[nb][i][f] = b}
        PROVE  IsFiniteSet(S)
    <2>1. IsFiniteSet(DOMAIN hash[nb][i])
      BY MPFSSAssumption
    <2> QED
      BY <1>2, <2>1, FS_Subset
  <1>3. ASSUME NEW i \in 1 .. size PROVE c[i] \in Nat
    <2>1. PICK S : S = {f \in DOMAIN hash[nb][i - 1] : hash[nb][i - 1][f] = b}
      OBVIOUS
    <2>2. i - 1 \in 0 .. size - 1
      BY <1>1
    <2>3. IsFiniteSet(S)
      BY <1>2, <2>1, <2>2
    <2> QED
      BY <1>0, <2>1, <2>3, FS_CardinalityType DEF CopyNumbers
  <1>4. PICK ss : ss = [i \in 1 .. size |-> Copies(i - 1, b, nb)]
    OBVIOUS
  <1>5. ss = CopiesOf(c, size)
    BY <1>0, <1>4 DEF Copies, CopiesOf, CopyNumbers
  <1>6. HasCopies(FlattenSeq(ss), c, size)
    BY <1>1, <1>3, <1>5, AllCopies
  <1>7. HashSimple(size, nb)[b] = FlattenSeq(ss)
    BY <1>4 DEF HashSimple
  <1>8. ASSUME NEW i \in 0 .. size - 1, NEW f \in DOMAIN hash[nb][i], hash[nb][i][f] = b
        PROVE  c[i + 1] # 0
    <2>1. PICK S : S = {g \in DOMAIN hash[nb][i] : hash[nb][i][g] = b}
      OBVIOUS
    <2>2. IsFiniteSet(S) /\ S # {}
      BY <1>2, <1>8, <2>1
    <2>3. i + 1 \in 1 .. size /\ (i + 1) - 1 = i
      BY <1>1
    <2>4. c[i + 1] = Cardinality(S)
      BY <1>0, <2>1, <2>3 DEF CopyNumbers
    <2> QED
      BY <2>2, <2>4, FS_EmptySet
  <1> QED
    BY <1>0, <1>6, <1>7, <1>8 DEF HasInputs

AllBelow(s, t) == \A p \in DOMAIN s : s[p] < t

IsLowerBound(l, s, t) ==
  /\ l \in 1 .. Len(s) + 1
  /\ \A p \in DOMAIN s : s[p] = t => l \in DOMAIN s /\ s[l] = t
  /\ AllBelow(s, t) => l = Len(s) + 1

\* What std::lower_bound finds in ascending numbers (mpfss_known_indices.h:250-256).
LEMMA LowerBoundFinds ==
  ASSUME NEW s \in Seq(Nat), Ascending(s), NEW t \in Int, NEW l, l = LowerBound(s, t)
  PROVE  IsLowerBound(l, s, t)
  <1>1. PICK n : n = Len(s)
    OBVIOUS
  <1>2. n \in Nat /\ DOMAIN s = 1 .. n /\ \A p \in 1 .. n : s[p] \in Nat
    BY <1>1
  <1>3. PICK S : S = {j \in 1 .. n + 1 : j \in DOMAIN s => s[j] >= t}
    OBVIOUS
  <1>4. n + 1 \in S /\ S \in SUBSET Nat
    BY <1>2, <1>3
  <1>5. PICK k \in S : \A j \in S : k <= j
    BY <1>4, LeastNumber
  <1>6. l = CHOOSE x \in S : \A y \in S : x =< y
    BY <1>1, <1>3 DEF LowerBound, Min
  <1>7. l \in S /\ \A j \in S : l <= j
    BY <1>5, <1>6
  <1>8. ASSUME NEW p \in DOMAIN s, s[p] = t PROVE l \in DOMAIN s /\ s[l] = t
    <2>1. p \in S
      BY <1>2, <1>3, <1>8
    <2>2. l <= p /\ l \in 1 .. n + 1 /\ p \in 1 .. n
      BY <1>2, <1>3, <1>7, <2>1
    <2>3. l \in DOMAIN s
      BY <1>2, <2>2
    <2>4. s[l] >= t /\ s[l] <= s[p]
      BY <1>3, <1>7, <2>2, <2>3 DEF Ascending
    <2> QED
      BY <1>2, <1>8, <2>3, <2>4
  <1>9. ASSUME AllBelow(s, t) PROVE l = n + 1
    <2>1. l \notin DOMAIN s
      <3> SUFFICES ASSUME l \in DOMAIN s PROVE FALSE
        OBVIOUS
      <3>1. s[l] < t /\ s[l] >= t /\ s[l] \in Nat
        BY <1>2, <1>3, <1>7, <1>9 DEF AllBelow
      <3> QED
        BY <3>1
    <2> QED
      BY <1>2, <1>3, <1>7, <2>1
  <1> QED
    BY <1>1, <1>3, <1>7, <1>8, <1>9 DEF IsLowerBound

-----------------------------------------------------------------------------
(* What is sent and shared.                                                *)

\* The masked vector of the index provider, and what the value provider makes of it.
Sent == [b \in 1 .. num_buckets |-> Masked(placed, b)]
SharesOfSent == [b \in 1 .. num_buckets |-> ValueShare(Sent, b)]

\* A call has arguments that are allowed.
Called ==
  /\ hash \in Hashes /\ calls \in 0 .. MaxCalls
  /\ pc["value"] # "idle" => args.x \in Scalars /\ args.y \in [DOMAIN args.indices -> Scalars]

\* The index provider has placed its indices, and both ends have shares of the
\* values that it has placed.
Placed ==
  /\ pc["index"] = "spfss" =>
       placed \in Placements(num_buckets) /\ ~BadIndices /\ shares["index"] = v
  /\ channel # <<>> => placed \in Placements(num_buckets) /\ Head(channel) = Sent
  /\ pc["value"] = "spfss" => shares["value"] = SharesOfSent

Reduced(sh) == \A r \in Roles : ToSet(sh[r]) \subseteq 0 .. modulus - 1

Extra == Called /\ Placed /\ Reduced(shares) /\ Reduced(output)

\* All this stays as it is while the arguments and the placement do.
LEMMA SamePlacement ==
  ASSUME UNCHANGED <<hash, args, placed>>
  PROVE  /\ Sent' = Sent /\ SharesOfSent' = SharesOfSent
         /\ Placements(num_buckets)' = Placements(num_buckets)
         /\ BadIndices' = BadIndices /\ v' = v
  BY DEF Sent, SharesOfSent, Masked, ValueShare, Placements, BadIndices, num_buckets, y_len, u, v, w

\* Nothing is there before the first call.
LEMMA InitExtra == Init => Extra
  <1> SUFFICES ASSUME Init PROVE Extra
    OBVIOUS
  <1>1. Called /\ Placed
    BY MPFSSAssumption DEF Init, Called, Placed, Roles
  <1>2. ToSet(<<>>) = {}
    BY DEF ToSet
  <1>3. Reduced(shares) /\ Reduced(output)
    BY <1>2 DEF Init, Reduced
  <1> QED
    BY <1>1, <1>3 DEF Extra

\* Steps in which an end fails or a cache changes, if anything.
LEMMA OtherExtra ==
  ASSUME Inv, Extra, NEW r \in Roles, UNCHANGED pc \/ (pc[r] # "idle" /\ Fail(r)),
         UNCHANGED <<hash, calls, args, placed, channel, shares, output>>
  PROVE  Extra'
  <1>1. \A q \in Roles : pc'[q] = pc[q] \/ (pc'[q] = "failed" /\ pc[q] # "idle")
    BY DEF Inv, Shaped, Fail
  <1>2. pc["value"] = "idle" => pc'["value"] = "idle"
    BY <1>1 DEF Inv, Together, Roles
  <1>3. Called'
    BY <1>1, <1>2 DEF Extra, Called, Roles
  <1>4. Placed'
    BY SamePlacement, <1>1 DEF Extra, Placed, Roles
  <1>5. Reduced(shares)' /\ Reduced(output)'
    BY DEF Extra, Reduced
  <1> QED
    BY <1>3, <1>4, <1>5 DEF Extra

\* A call begins.
LEMMA CallExtra ==
  ASSUME Inv, Extra, Call PROVE Extra'
  <1>1. channel = <<>>
    BY DEF Inv, Masks, Call, Roles
  <1>2. PICK size \in OutputSizes, indices \in IndexLists, x \in Scalars :
          \E y \in [DOMAIN indices -> Scalars] :
            args' = [size |-> size, indices |-> indices, x |-> x, y |-> y]
    BY DEF Call
  <1>3. args'.x \in Scalars /\ args'.y \in [DOMAIN args'.indices -> Scalars]
    BY <1>2
  <1>4. Called'
    <2>1. calls' \in 0 .. MaxCalls
      BY MPFSSAssumption DEF Extra, Called, Call
    <2> QED
      BY <1>3, <2>1 DEF Extra, Called, Call
  <1>5. Placed'
    BY <1>1 DEF Placed, Call, Roles
  <1>6. Reduced(shares)' /\ Reduced(output)'
    BY DEF Extra, Reduced, Call
  <1> QED
    BY <1>4, <1>5, <1>6 DEF Extra

\* It ends.
LEMMA ReturnExtra ==
  ASSUME Inv, Extra, Return PROVE Extra'
  <1>1. channel = <<>>
    BY DEF Inv, Masks, Return, Roles
  <1>2. ToSet(<<>>) = {}
    BY DEF ToSet
  <1>3. Called' /\ Placed'
    BY <1>1 DEF Extra, Called, Placed, Return, Roles
  <1>4. Reduced(shares)' /\ Reduced(output)'
    BY <1>2 DEF Reduced, Return
  <1> QED
    BY <1>3, <1>4 DEF Extra

\* The value provider enters the call.
LEMMA StartExtra ==
  ASSUME Inv, Extra, StartValueProvider PROVE Extra'
  <1>1. Called'
    BY DEF Inv, Shaped, Extra, Called, StartValueProvider, Roles
  <1>2. Placed'
    BY SamePlacement DEF Inv, Shaped, Extra, Placed, StartValueProvider, Roles
  <1>3. Reduced(shares)' /\ Reduced(output)'
    BY DEF Extra, Reduced, StartValueProvider
  <1> QED
    BY <1>1, <1>2, <1>3 DEF Extra

\* A vector of residues.
LEMMA ResiduesReduced ==
  ASSUME NEW S, NEW f, f = [b \in S |-> f[b]], NEW g, \A b \in S : g[b] \in Int /\ f[b] = g[b] % modulus
  PROVE  ToSet(f) \subseteq 0 .. modulus - 1
  <1>1. PICK m \in Nat \ {0} : m = modulus
    BY MPFSSAssumption
  <1>2. ASSUME NEW b \in S PROVE f[b] \in 0 .. m - 1
    <2>1. PICK a \in Int : a = g[b]
      OBVIOUS
    <2>2. a % m \in 0 .. m - 1
      OBVIOUS
    <2> QED
      BY <1>1, <2>1, <2>2
  <1> QED
    BY <1>1, <1>2 DEF ToSet

\* The numbers of a call.
LEMMA CallNumbers ==
  ASSUME Inv, Called, pc["value"] # "idle"
  PROVE  /\ num_buckets \in Nat /\ y_len \in Nat /\ args.x \in Int /\ DOMAIN args.indices = 1 .. y_len
         /\ \A k \in 1 .. y_len : args.y[k] \in Int /\ args.indices[k] \in Int
         /\ \A b \in 1 .. num_buckets :
              /\ u[b] \in Int /\ v[b] \in Int /\ w[b] \in Int
              /\ w[b] = (u[b] * args.x + v[b]) % modulus
  <1>1. args.indices \in IndexLists /\ args.indices \in Seq(Int)
    BY MPFSSAssumption DEF Inv, Together
  <1>2. num_buckets \in Nat /\ y_len \in Nat /\ DOMAIN args.indices = 1 .. y_len
    BY <1>1, MPFSSAssumption DEF num_buckets, y_len
  <1>3. Scalars \subseteq Int
    BY MPFSSAssumption
  <1>4. \A k \in 1 .. y_len : args.y[k] \in Int /\ args.indices[k] \in Int
    <2> SUFFICES ASSUME NEW k \in 1 .. y_len PROVE args.y[k] \in Int /\ args.indices[k] \in Int
      OBVIOUS
    <2>1. args.y[k] \in Int
      BY <1>2, <1>3 DEF Called
    <2>2. args.indices[k] \in Int
      BY <1>1, <1>2
    <2> QED
      BY <2>1, <2>2
  <1>5. args.x \in Int
    BY <1>3 DEF Called
  <1>6. PICK m \in Nat \ {0} : m = modulus
    BY MPFSSAssumption
  <1>7. ASSUME NEW b \in 1 .. num_buckets
        PROVE  /\ u[b] \in Int /\ v[b] \in Int /\ w[b] \in Int
               /\ w[b] = (u[b] * args.x + v[b]) % modulus
    <2>1. u[b] = (b + 1) % m /\ v[b] = (2 * b) % m /\ w[b] = (u[b] * args.x + v[b]) % modulus
      BY <1>6 DEF u, v, w, num_buckets
    <2>2. b \in Nat
      OBVIOUS
    <2>3. PICK c \in Int, d \in Int : c = u[b] /\ d = v[b]
      BY <1>6, <2>1, <2>2
    <2>4. PICK x \in Int : x = args.x
      BY <1>5
    <2>5. (c * x + d) % m \in Int
      BY <1>6
    <2> QED
      BY <1>6, <2>1, <2>3, <2>4, <2>5
  <1> QED
    BY <1>2, <1>4, <1>5, <1>7

\* The value that a bucket stands for.
ValueAt(b) == IF placed[b] = 0 THEN 0 ELSE args.y[placed[b]]

\* It is masked with a number of the correlation.
LEMMA SentNumbers ==
  ASSUME Inv, Called, pc["value"] # "idle", placed \in Placements(num_buckets),
         NEW b \in 1 .. num_buckets
  PROVE  ValueAt(b) \in Int /\ Sent[b] \in Int /\ Sent[b] = (ValueAt(b) + u[b]) % modulus
  <1>1. placed[b] \in 0 .. y_len
    BY DEF Placements
  <1>2. ValueAt(b) \in Int
    BY <1>1, CallNumbers DEF ValueAt
  <1>3. Sent[b] = (ValueAt(b) + u[b]) % modulus
    BY DEF Sent, Masked, ValueAt
  <1>4. PICK m \in Nat \ {0} : m = modulus
    BY MPFSSAssumption
  <1>5. PICK c \in Int : c = ValueAt(b) + u[b]
    BY <1>2, CallNumbers
  <1>6. c % m \in Int
    OBVIOUS
  <1> QED
    BY <1>2, <1>3, <1>4, <1>5, <1>6

\* What the value provider makes of it is reduced.
LEMMA SharesOfSentNumbers ==
  ASSUME Inv, Called, pc["value"] # "idle", placed \in Placements(num_buckets)
  PROVE  ToSet(SharesOfSent) \subseteq 0 .. modulus - 1
  <1>1. PICK g : g = [b \in 1 .. num_buckets |-> Sent[b] * args.x - w[b]]
    OBVIOUS
  <1>2. ASSUME NEW b \in 1 .. num_buckets
        PROVE  g[b] \in Int /\ SharesOfSent[b] = g[b] % modulus
    <2>1. PICK c \in Int, d \in Int, x \in Int : c = Sent[b] /\ d = w[b] /\ x = args.x
      BY SentNumbers, CallNumbers
    <2>2. c * x - d \in Int
      OBVIOUS
    <2> QED
      BY <1>1, <2>1, <2>2 DEF SharesOfSent, ValueShare
  <1>3. SharesOfSent = [b \in 1 .. num_buckets |-> SharesOfSent[b]]
    BY DEF SharesOfSent
  <1> QED
    BY <1>2, <1>3, ResiduesReduced

\* The masked vector arrives.
LEMMA ReceiveExtra ==
  ASSUME Inv, Extra, ReceiveMasked PROVE Extra'
  <1>1. /\ channel # <<>> /\ Head(channel) = Sent /\ placed \in Placements(num_buckets)
        /\ DOMAIN Head(channel) = 1 .. num_buckets /\ pc["value"] # "idle"
    BY DEF Inv, Masks, Extra, Placed, ReceiveMasked
  <1>2. [b \in DOMAIN Head(channel) |-> ValueShare(Head(channel), b)] = SharesOfSent
    BY <1>1 DEF SharesOfSent
  <1>3. shares' = [shares EXCEPT !["value"] = SharesOfSent]
    BY <1>2 DEF ReceiveMasked
  <1>4. shares'["value"] = SharesOfSent /\ shares'["index"] = shares["index"]
    BY <1>3 DEF Inv, Shaped, Roles
  <1>5. channel' = <<>>
    <2>1. channel = <<Head(channel)>>
      BY <1>1 DEF Inv, Masks
    <2>2. Tail(<<Head(channel)>>) = <<>>
      BY OneMessage
    <2> QED
      BY <2>1, <2>2 DEF ReceiveMasked
  <1>6. Called'
    BY <1>1 DEF Inv, Shaped, Extra, Called, ReceiveMasked, Roles
  <1>7. Placed'
    <2>1. UNCHANGED <<hash, args, placed>>
      BY DEF ReceiveMasked
    <2>2. pc'["index"] = pc["index"]
      BY DEF Inv, Shaped, ReceiveMasked, Roles
    <2> QED
      BY SamePlacement, <1>4, <1>5, <2>1, <2>2 DEF Extra, Placed
  <1>8. ToSet(SharesOfSent) \subseteq 0 .. modulus - 1
    BY <1>1, SharesOfSentNumbers DEF Extra
  <1>9. Reduced(shares)' /\ Reduced(output)'
    BY <1>4, <1>8 DEF Extra, Reduced, Roles, ReceiveMasked
  <1> QED
    BY <1>6, <1>7, <1>9 DEF Extra

\* The index provider places its indices and sends.
LEMMA SendExtra ==
  ASSUME Inv, Extra, SendMasked PROVE Extra'
  <1>1. args.size \in OutputSizes /\ args.indices \in IndexLists /\ pc["value"] # "idle"
    BY DEF Inv, Together, SendMasked
  <1>2. cache'["index"] = CurrentCache
    BY <1>1, UpdateCaches DEF Inv, SendMasked, Roles, y_len, CurrentCache
  <1>3. num_buckets \in Nat
    BY <1>1, MPFSSAssumption DEF num_buckets, y_len
  <1>4. Len(cache'["index"].buckets) = num_buckets
    BY <1>2, <1>3, CacheLength DEF num_buckets, CurrentCache
  <1>5. PICK h \in Placements(num_buckets) :
          /\ placed' = h
          /\ channel' = Append(channel, [b \in 1 .. num_buckets |-> Masked(h, b)])
    BY <1>4 DEF SendMasked
  <1>6. channel = <<>>
    BY DEF Inv, Masks, SendMasked
  <1>7. Head(channel') = [b \in 1 .. num_buckets |-> Masked(h, b)]
    <2>1. PICK masked : masked = [b \in 1 .. num_buckets |-> Masked(h, b)]
      OBVIOUS
    <2>2. channel' = <<masked>>
      BY <1>5, <1>6, <2>1, OneMessage
    <2> QED
      BY <2>1, <2>2, OneMessage
  <1>8. UNCHANGED <<hash, calls, args, output>>
    BY DEF SendMasked
  <1>9. Sent' = [b \in 1 .. num_buckets |-> Masked(h, b)]
    BY <1>5, <1>8 DEF Sent, Masked, num_buckets, y_len, u
  <1>10. /\ Placements(num_buckets)' = Placements(num_buckets) /\ BadIndices' = BadIndices
         /\ v' = v
    BY <1>8 DEF Placements, BadIndices, v, num_buckets, y_len
  <1>11. shares' = [shares EXCEPT !["index"] = v]
    BY DEF SendMasked
  <1>12. shares'["index"] = v /\ shares'["value"] = shares["value"]
    BY <1>11 DEF Inv, Shaped, Roles
  <1>13. pc["value"] # "spfss" /\ pc'["value"] = pc["value"] /\ pc'["index"] = "spfss" /\ ~BadIndices
    BY DEF Inv, Shaped, Together, SendMasked, Roles
  <1>14. Called'
    BY <1>8, <1>13 DEF Extra, Called
  <1>15. Placed'
    BY <1>5, <1>7, <1>9, <1>10, <1>12, <1>13 DEF Placed
  <1>16. ToSet(v) \subseteq 0 .. modulus - 1
    <2>1. PICK g : g = [b \in 1 .. num_buckets |-> 2 * b]
      OBVIOUS
    <2>2. \A b \in 1 .. num_buckets : g[b] \in Int /\ v[b] = g[b] % modulus
      BY <2>1 DEF v, num_buckets
    <2>3. v = [b \in 1 .. num_buckets |-> v[b]]
      BY DEF v, num_buckets
    <2> QED
      BY <2>2, <2>3, ResiduesReduced
  <1>17. Reduced(shares)' /\ Reduced(output)'
    BY <1>8, <1>12, <1>16 DEF Extra, Reduced, Roles
  <1> QED
    BY <1>14, <1>15, <1>17 DEF Extra

-----------------------------------------------------------------------------
(* What the single-point sharings add up to.                               *)

\* The two shares of a value y times x, masked with a, where b and the residue of
\* -(a*x + b) are shares of -a*x.
Unmasked(m, x, y, a, b) ==
  Congruent(m, ((((y + a) % m) * x - ((a * x + b) % m)) % m) + b, x * y)

\* They add up to x*y (mpfss_known_indices.h:149-154, 225-227).
LEMMA Unmasking ==
  ASSUME NEW m \in Nat \ {0}, NEW x \in Int, NEW y \in Int, NEW a \in Int, NEW b \in Int
  PROVE  Unmasked(m, x, y, a, b)
  <1>1. PICK c, p, d : c = y + a /\ p = c % m /\ d = c \div m
    OBVIOUS
  <1>2. c \in Int /\ p \in Int /\ d \in Int /\ c = m * d + p
    BY <1>1
  <1>3. PICK e, q, f : e = a * x + b /\ q = e % m /\ f = e \div m
    OBVIOUS
  <1>4. e \in Int /\ q \in Int /\ f \in Int /\ e = m * f + q
    BY <1>3
  <1>5. PICK g, r, h : g = p * x - q /\ r = g % m /\ h = g \div m
    OBVIOUS
  <1>6. g \in Int /\ r \in Int /\ h \in Int /\ g = m * h + r
    BY <1>2, <1>4, <1>5
  <1>7. PICK n \in Int : n = f - d * x - h
    BY <1>2, <1>4, <1>6
  <1>8. r + b = x * y + m * n
    <2>1. p = c - m * d /\ q = e - m * f /\ r = g - m * h
      BY <1>2, <1>4, <1>6
    <2>2. (c - m * d) * x = c * x - m * (d * x)
      BY <1>2
    <2>3. c * x = x * y + a * x
      BY <1>1
    <2>4. m * (f - d * x - h) = m * f - m * (d * x) - m * h
      BY <1>2, <1>4, <1>6
    <2>5. PICK xy, ax, md, mf, mh : /\ xy = x * y /\ ax = a * x /\ md = m * (d * x)
                                    /\ mf = m * f /\ mh = m * h
      OBVIOUS
    <2>6. xy \in Int /\ ax \in Int /\ md \in Int /\ mf \in Int /\ mh \in Int
      BY <1>2, <1>4, <1>6, <2>5
    <2>7. p * x = (xy + ax) - md
      BY <2>1, <2>2, <2>3, <2>5
    <2>8. r = (((xy + ax) - md) - ((ax + b) - mf)) - mh
      BY <1>3, <1>5, <2>1, <2>5, <2>7
    <2>9. m * n = mf - md - mh
      BY <1>7, <2>4, <2>5
    <2>10. r + b = xy + (mf - md - mh)
      BY <2>6, <2>8
    <2> QED
      BY <2>5, <2>9, <2>10
  <1>9. PICK z \in Int : z = x * y
    OBVIOUS
  <1>10. (z + m * n) % m = z % m
    BY ResidueOfSum
  <1>11. Congruent(m, r + b, x * y)
    BY <1>8, <1>9, <1>10 DEF Congruent
  <1> QED
    BY <1>1, <1>3, <1>5, <1>11 DEF Unmasked

\* Both ends are ready for the single-point sharings.
Ready ==
  /\ Inv /\ Extra
  /\ pc["value"] = "spfss" /\ pc["index"] = "spfss"

ShareSum(b) == shares["value"][b] + shares["index"][b]

\* The ends share x times the value in each bucket.
LEMMA SharesAddUp ==
  ASSUME Ready, NEW b \in 1 .. num_buckets
  PROVE  /\ ShareSum(b) \in Int /\ ValueAt(b) \in Int
         /\ Congruent(modulus, ShareSum(b), args.x * ValueAt(b))
  <1>1. PICK m \in Nat \ {0} : m = modulus
    BY MPFSSAssumption
  <1>2. /\ Inv /\ Called /\ pc["value"] # "idle" /\ placed \in Placements(num_buckets)
        /\ shares["value"] = SharesOfSent /\ shares["index"] = v
    BY DEF Ready, Extra, Placed
  <1>3. ValueAt(b) \in Int /\ Sent[b] = (ValueAt(b) + u[b]) % m
    BY <1>1, <1>2, SentNumbers
  <1>4. PICK x \in Int, y \in Int, c \in Int, d \in Int :
          x = args.x /\ y = ValueAt(b) /\ c = u[b] /\ d = v[b]
    BY <1>2, <1>3, CallNumbers
  <1>5. w[b] = (c * x + d) % m
    BY <1>1, <1>2, <1>4, CallNumbers
  <1>6. shares["value"][b] = (((y + c) % m) * x - ((c * x + d) % m)) % m
    <2>1. SharesOfSent[b] = (Sent[b] * args.x - w[b]) % m
      BY <1>1 DEF SharesOfSent, ValueShare
    <2> QED
      BY <1>2, <1>3, <1>4, <1>5, <2>1
  <1>7. ShareSum(b) = ((((y + c) % m) * x - ((c * x + d) % m)) % m) + d
    BY <1>2, <1>4, <1>6 DEF ShareSum
  <1>8. Unmasked(m, x, y, c, d)
    BY Unmasking
  <1>9. Congruent(m, ShareSum(b), x * y)
    BY <1>7, <1>8 DEF Unmasked
  <1>10. ShareSum(b) \in Int
    <2>1. PICK e \in Int : e = (y + c) % m
      OBVIOUS
    <2>2. PICK f \in Int : f = (c * x + d) % m
      OBVIOUS
    <2>3. PICK g \in Int : g = e * x - f
      OBVIOUS
    <2>4. g % m \in Int
      OBVIOUS
    <2> QED
      BY <1>7, <2>1, <2>2, <2>3, <2>4
  <1> QED
    BY <1>1, <1>3, <1>4, <1>9, <1>10

\* A bucket with a value has its index at the position that the index provider
\* takes, and no index if it is not in range.
LEMMA PositionFound ==
  ASSUME Ready, NEW b \in 1 .. num_buckets, placed[b] # 0,
         \A indices \in IndexLists : indices \in Seq(Nat),
         NEW held, held = cache["index"].buckets[b],
         NEW i \in 0 .. args.size - 1
  PROVE  PositionInBucket(b) \in {k \in DOMAIN held : held[k] = i} <=>
           args.indices[placed[b]] = i
  <1>1. /\ Inv /\ Called /\ pc["value"] # "idle" /\ placed \in Placements(num_buckets)
        /\ ~BadIndices /\ cache["index"] = CurrentCache
        /\ args.indices \in IndexLists /\ args.size \in OutputSizes
    BY DEF Ready, Extra, Placed, Inv, Updated, Together
  <1>2. args.size \in Nat
    BY <1>1, MPFSSAssumption
  <1>3. PICK k, t : k = placed[b] /\ t = args.indices[k]
    OBVIOUS
  <1>4. k \in 1 .. y_len /\ y_len \in Nat
    <2>1. k \in 0 .. y_len
      BY <1>1, <1>3 DEF Placements
    <2>2. y_len \in Nat
      BY <1>1, CallNumbers
    <2> QED
      BY <1>3, <2>1, <2>2
  <1>5. t \in Nat /\ t <= args.size
    <2>1. args.indices \in Seq(Nat) /\ y_len = Len(args.indices)
      BY <1>1 DEF y_len
    <2>2. t \in Nat
      BY <1>3, <1>4, <2>1
    <2>3. ~(t > args.size)
      BY <1>1, <1>3, <1>4 DEF BadIndices
    <2> QED
      BY <1>2, <2>2, <2>3
  <1>6. PICK c : c = CopyNumbers(num_buckets, b, args.size)
    OBVIOUS
  <1>7. held = HashSimple(args.size, num_buckets)[b]
    BY <1>1 DEF CurrentCache, CacheFor, num_buckets
  <1>8. /\ HasCopies(held, c, args.size)
        /\ \A j \in 0 .. args.size - 1 : \A f \in DOMAIN hash[num_buckets][j] :
             hash[num_buckets][j][f] = b => c[j + 1] # 0
    <2>1. hash \in Hashes /\ num_buckets = NumBuckets[Len(args.indices)]
      BY <1>1 DEF Called, num_buckets, y_len
    <2>2. HasInputs(held, num_buckets, b, c, args.size)
      BY <1>1, <1>6, <1>7, <2>1, BucketOf
    <2> QED
      BY <2>2 DEF HasInputs
  <1>9. /\ held \in Seq(Nat) /\ Ascending(held) /\ \A p \in DOMAIN held : held[p] < args.size
        /\ \A j \in 1 .. args.size : c[j] # 0 => \E p \in DOMAIN held : held[p] = j - 1
    BY <1>8 DEF HasCopies
  <1>10. PositionInBucket(b) = IF held = <<>> THEN 1 ELSE LowerBound(held, t)
    BY <1>3 DEF PositionInBucket
  <1>11. CASE t < args.size
    <2>1. \E f \in DOMAIN hash[num_buckets][t] : hash[num_buckets][t][f] = b
      BY <1>1, <1>3 DEF Placements
    <2>2. t \in 0 .. args.size - 1 /\ t + 1 \in 1 .. args.size /\ (t + 1) - 1 = t
      BY <1>2, <1>5, <1>11
    <2>3. PICK p \in DOMAIN held : held[p] = t
      BY <1>8, <1>9, <2>1, <2>2
    <2>4. held # <<>>
      BY <2>3
    <2>5. PICK l : l = LowerBound(held, t)
      OBVIOUS
    <2>6. l \in DOMAIN held /\ held[l] = t
      <3>1. IsLowerBound(l, held, t)
        BY <1>5, <1>9, <2>5, LowerBoundFinds
      <3> QED
        BY <2>3, <3>1 DEF IsLowerBound
    <2>7. PositionInBucket(b) = l
      BY <1>10, <2>4, <2>5
    <2> QED
      BY <1>3, <2>6, <2>7
  <1>12. CASE t = args.size
    <2>1. PositionInBucket(b) \notin DOMAIN held
      <3>1. CASE held = <<>>
        BY <3>1
      <3>2. CASE held # <<>>
        <4>1. PICK l : l = LowerBound(held, t)
          OBVIOUS
        <4>2. AllBelow(held, t)
          BY <1>9, <1>12 DEF AllBelow
        <4>3. l = Len(held) + 1
          <5>1. IsLowerBound(l, held, t)
            BY <1>5, <1>9, <4>1, LowerBoundFinds
          <5> QED
            BY <4>2, <5>1 DEF IsLowerBound
        <4>4. PICK n \in Nat : n = Len(held) /\ DOMAIN held = 1 .. n
          BY <1>9
        <4>5. PositionInBucket(b) = n + 1
          BY <1>10, <3>2, <4>1, <4>3, <4>4
        <4>6. n + 1 \notin 1 .. n
          OBVIOUS
        <4> QED
          BY <4>4, <4>5, <4>6
      <3> QED
        BY <3>1, <3>2
    <2>2. t # i
      BY <1>2, <1>12
    <2> QED
      BY <1>3, <2>1, <2>2
  <1> QED
    BY <1>2, <1>5, <1>11, <1>12

\* A sum is that of the values at all arguments.
LEMMA TotalIs ==
  ASSUME NEW S, NEW f, DOMAIN f = S
  PROVE  Total(f) = FoldFunctionOnSet(+, 0, f, S)
  BY DEF Total, FoldFunction

\* The shares of an input in a bucket, over all its entries.
EntriesOf(held, i) == {k \in DOMAIN held : held[k] = i}
BucketTotal(r, mask, b, i) ==
  Total([j \in EntriesOf(cache[r].buckets[b], i) |-> Share(r, mask, b, j)])

\* The leaves cancel, and the shares of the bucket stay, if they are there.
LEMMA BucketTotals ==
  ASSUME Ready, NEW mask \in Scalars, NEW b \in 1 .. num_buckets, NEW i \in 0 .. args.size - 1,
         NEW E, E = EntriesOf(cache["index"].buckets[b], i), NEW e, e = PositionInBucket(b)
  PROVE  /\ BucketTotal("value", mask, b, i) \in Int /\ BucketTotal("index", mask, b, i) \in Int
         /\ BucketTotal("value", mask, b, i) + BucketTotal("index", mask, b, i) =
              IF e \in E THEN ShareSum(b) ELSE 0
  <1>1. PICK held : held = cache["index"].buckets[b]
    OBVIOUS
  <1>2. cache["value"].buckets[b] = held
    BY <1>1 DEF Ready, Inv, Updated
  <1>3. IsFiniteSet(E) /\ E \in SUBSET Nat
    <2>1. /\ hash \in Hashes /\ args.size \in OutputSizes /\ args.indices \in IndexLists
          /\ num_buckets = NumBuckets[Len(args.indices)]
      BY DEF Ready, Inv, Extra, Called, Together, num_buckets, y_len
    <2>2. held = HashSimple(args.size, num_buckets)[b]
      BY <1>1 DEF Ready, Inv, Updated, CurrentCache, CacheFor, num_buckets
    <2>3. HasInputs(held, num_buckets, b, CopyNumbers(num_buckets, b, args.size), args.size)
      BY <2>1, <2>2, BucketOf
    <2>4. held \in Seq(Nat)
      BY <2>3 DEF HasInputs, HasCopies
    <2>5. PICK n \in Nat : DOMAIN held = 1 .. n
      BY <2>4
    <2>6. IsFiniteSet(1 .. n)
      BY FS_Interval
    <2>7. E \in SUBSET (1 .. n)
      BY <1>1, <2>5 DEF EntriesOf
    <2> QED
      BY <2>6, <2>7, FS_Subset
  <1>4. PICK s \in Int : s = ShareSum(b)
    BY SharesAddUp
  <1>5. ASSUME NEW j \in E PROVE Leaf(mask, b, j) \in Int
    <2>1. PICK m \in Nat \ {0} : m = modulus
      BY MPFSSAssumption
    <2>2. mask \in Int /\ b \in Int /\ j \in Int
      BY <1>3, MPFSSAssumption
    <2>3. PICK c \in Int : c = mask + 3 * b + j
      BY <2>2
    <2>4. c % m \in Int
      OBVIOUS
    <2> QED
      BY <2>1, <2>3, <2>4 DEF Leaf
  <1>6. PICK f, g, h : /\ f = [j \in E |-> Share("value", mask, b, j)]
                       /\ g = [j \in E |-> Share("index", mask, b, j)]
                       /\ h = [j \in E |-> IF j = e THEN s ELSE 0]
    OBVIOUS
  <1>7. ASSUME NEW j \in E
        PROVE  f[j] \in Int /\ g[j] \in Int /\ h[j] = f[j] + g[j] /\ h[j] \in Int
    <2>1. PICK l \in Int : l = Leaf(mask, b, j)
      BY <1>5
    <2>2. f[j] = -l
      BY <1>6, <2>1 DEF Share
    <2>3. g[j] = l + (IF j = e THEN s ELSE 0)
      BY <1>4, <1>6, <2>1 DEF Share, ShareSum
    <2>4. h[j] = IF j = e THEN s ELSE 0
      BY <1>6
    <2>5. CASE j = e
      BY <2>2, <2>3, <2>4, <2>5
    <2>6. CASE j # e
      BY <2>2, <2>3, <2>4, <2>6
    <2> QED
      BY <2>5, <2>6
  <1>8. /\ BucketTotal("value", mask, b, i) = FoldFunctionOnSet(+, 0, f, E)
        /\ BucketTotal("index", mask, b, i) = FoldFunctionOnSet(+, 0, g, E)
    <2>1. DOMAIN f = E /\ DOMAIN g = E
      BY <1>6
    <2>2. Total(f) = FoldFunctionOnSet(+, 0, f, E) /\ Total(g) = FoldFunctionOnSet(+, 0, g, E)
      BY <2>1, TotalIs
    <2> QED
      BY <1>1, <1>2, <1>6, <2>2 DEF BucketTotal
  <1>9. FoldFunctionOnSet(+, 0, f, E) \in Int /\ FoldFunctionOnSet(+, 0, g, E) \in Int
    BY <1>3, <1>7, SumType
  <1>10. FoldFunctionOnSet(+, 0, h, E) =
           FoldFunctionOnSet(+, 0, f, E) + FoldFunctionOnSet(+, 0, g, E)
    BY <1>3, <1>7, SumOfTwo
  <1>11. FoldFunctionOnSet(+, 0, h, E) = IF e \in E THEN s ELSE 0
    <2>1. CASE e \in E
      <3>1. h[e] = s /\ \A x \in E \ {e} : h[x] = 0
        BY <1>6, <2>1
      <3>2. h[e] \in Int
        BY <1>4, <3>1
      <3>3. FoldFunctionOnSet(+, 0, h, E) = h[e]
        BY <1>3, <2>1, <3>1, <3>2, SumOne
      <3> QED
        BY <2>1, <3>1, <3>3
    <2>2. CASE e \notin E
      <3>1. \A x \in E : h[x] = 0
        BY <1>6, <2>2
      <3>2. FoldFunctionOnSet(+, 0, h, E) = 0
        BY <1>3, <3>1, SumZero
      <3> QED
        BY <2>2, <3>2
    <2> QED
      BY <2>1, <2>2
  <1> QED
    BY <1>4, <1>8, <1>9, <1>10, <1>11

\* The bucket of each value (its number in y).
BucketFor(h, nb, n) == [k \in 1 .. n |-> CHOOSE b \in 1 .. nb : h[b] = k]

\* Every value is in one bucket.
LEMMA OneBucket ==
  ASSUME NEW h \in Placements(num_buckets), num_buckets \in Nat, NEW k \in 1 .. y_len
  PROVE  /\ BucketFor(h, num_buckets, y_len)[k] \in 1 .. num_buckets
         /\ h[BucketFor(h, num_buckets, y_len)[k]] = k
         /\ \A b \in 1 .. num_buckets : h[b] = k => b = BucketFor(h, num_buckets, y_len)[k]
  <1>1. PICK S : S = {b \in DOMAIN h : h[b] = k}
    OBVIOUS
  <1>2. DOMAIN h = 1 .. num_buckets /\ Cardinality(S) = 1
    BY <1>1 DEF Placements
  <1>3. IsFiniteSet(S)
    BY <1>1, <1>2, FS_Interval, FS_Subset
  <1>4. PICK x : S = {x}
    BY <1>2, <1>3, FS_Singleton
  <1>5. x \in 1 .. num_buckets /\ h[x] = k /\ \A b \in 1 .. num_buckets : h[b] = k => b = x
    BY <1>1, <1>2, <1>4
  <1>6. BucketFor(h, num_buckets, y_len)[k] = CHOOSE b \in 1 .. num_buckets : h[b] = k
    BY DEF BucketFor
  <1>7. PICK c : c = CHOOSE b \in 1 .. num_buckets : h[b] = k
    OBVIOUS
  <1>8. c \in 1 .. num_buckets /\ h[c] = k
    BY <1>5, <1>7
  <1> QED
    BY <1>5, <1>6, <1>7, <1>8

\* The shares of an input in all buckets of an end.
TotalsOf(r, mask, i) == [b \in 1 .. num_buckets |-> BucketTotal(r, mask, b, i)]

SummedUp(r, mask, i) ==
  /\ \A b \in 1 .. num_buckets : TotalsOf(r, mask, i)[b] \in Int
  /\ SumAt(r, mask, i) =
       FoldFunctionOnSet(+, 0, TotalsOf(r, mask, i), 1 .. num_buckets) % modulus

\* Each end adds the shares of an input up over its buckets.
LEMMA EndsSumUp ==
  ASSUME Ready, NEW mask \in Scalars, NEW i \in 0 .. args.size - 1
  PROVE  SummedUp("value", mask, i) /\ SummedUp("index", mask, i)
  <1>1. PICK D, f, g : D = 1 .. num_buckets /\ f = TotalsOf("value", mask, i) /\ g = TotalsOf("index", mask, i)
    OBVIOUS
  <1>2. cache["value"] = CurrentCache /\ cache["index"] = CurrentCache
    BY DEF Ready, Inv, Updated
  <1>3. DOMAIN CurrentCache.buckets = D
    BY <1>1 DEF CurrentCache, CacheFor, HashSimple, num_buckets
  <1>4. \A b \in D : f[b] \in Int /\ g[b] \in Int
    <2> SUFFICES ASSUME NEW b \in D PROVE f[b] \in Int /\ g[b] \in Int
      OBVIOUS
    <2>1. PICK E, e : E = EntriesOf(cache["index"].buckets[b], i) /\ e = PositionInBucket(b)
      OBVIOUS
    <2>2. BucketTotal("value", mask, b, i) \in Int /\ BucketTotal("index", mask, b, i) \in Int
      BY <1>1, <2>1, BucketTotals
    <2> QED
      BY <1>1, <2>2 DEF TotalsOf
  <1>5. DOMAIN f = D /\ DOMAIN g = D
    BY <1>1 DEF TotalsOf
  <1>6. Total(f) = FoldFunctionOnSet(+, 0, f, D) /\ Total(g) = FoldFunctionOnSet(+, 0, g, D)
    BY <1>5, TotalIs
  <1>7. SumAt("value", mask, i) = Total(f) % modulus /\ SumAt("index", mask, i) = Total(g) % modulus
    BY <1>1, <1>2, <1>3 DEF SumAt, BucketTotal, EntriesOf, TotalsOf
  <1> QED
    BY <1>1, <1>4, <1>6, <1>7 DEF SummedUp

\* The summands of an input: the values in the buckets, and the values of y.
InBuckets(i) ==
  [b \in 1 .. num_buckets |->
    IF placed[b] # 0 /\ args.indices[placed[b]] = i THEN args.x * ValueAt(b) ELSE 0]
With(i) == {l \in 1 .. y_len : args.indices[l] = i}
Products(i) == [k \in With(i) |-> args.x * args.y[k]]

\* They are the same, as the values are in one bucket each.
LEMMA SameSummands ==
  ASSUME Ready, NEW i
  PROVE  FoldFunctionOnSet(+, 0, InBuckets(i), 1 .. num_buckets) = Total(Products(i))
  <1>1. /\ Inv /\ Called /\ pc["value"] # "idle" /\ placed \in Placements(num_buckets)
    BY DEF Ready, Extra, Placed
  <1>2. num_buckets \in Nat /\ y_len \in Nat
    BY <1>1, CallNumbers
  <1>3. PICK B, D, G, K, F : /\ B = BucketFor(placed, num_buckets, y_len) /\ D = 1 .. num_buckets
                             /\ G = InBuckets(i) /\ K = With(i) /\ F = Products(i)
    OBVIOUS
  <1>4. \A k \in 1 .. y_len : B[k] \in D /\ placed[B[k]] = k /\ \A b \in D : placed[b] = k => b = B[k]
    BY <1>1, <1>2, <1>3, OneBucket
  <1>5. \A b \in D : placed[b] \in 0 .. y_len
    BY <1>1, <1>3 DEF Placements
  <1>6. ASSUME NEW k \in K PROVE F[k] \in Int /\ G[B[k]] = F[k]
    <2>1. k \in 1 .. y_len /\ k # 0 /\ args.indices[k] = i
      BY <1>2, <1>3 DEF With
    <2>2. B[k] \in D /\ placed[B[k]] = k
      BY <1>4, <2>1
    <2>3. G[B[k]] = args.x * ValueAt(B[k])
      BY <1>3, <2>1, <2>2 DEF InBuckets
    <2>4. ValueAt(B[k]) = args.y[k]
      BY <2>1, <2>2 DEF ValueAt
    <2>5. PICK x \in Int, y \in Int : x = args.x /\ y = args.y[k]
      BY <1>1, <2>1, CallNumbers
    <2>6. x * y \in Int
      OBVIOUS
    <2>7. F[k] = args.x * args.y[k]
      BY <1>3 DEF Products
    <2> QED
      BY <2>3, <2>4, <2>5, <2>6, <2>7
  <1>7. IsFiniteSet(K) /\ IsFiniteSet(D)
    <2>1. PICK n \in Nat : n = y_len
      BY <1>2
    <2>2. IsFiniteSet(1 .. n) /\ K \in SUBSET (1 .. n)
      BY <1>3, <2>1, FS_Interval DEF With
    <2>3. IsFiniteSet(D)
      BY <1>2, <1>3, FS_Interval
    <2> QED
      BY <2>2, <2>3, FS_Subset
  <1>8. \A k, l \in K : B[k] = B[l] => k = l
    BY <1>3, <1>4 DEF With
  <1>9. PICK S : S = {B[k] : k \in K}
    OBVIOUS
  <1>10. FoldFunctionOnSet(+, 0, G, S) = FoldFunctionOnSet(+, 0, F, K)
    <2>1. Renames(B, K, S, F, G)
      BY <1>6, <1>8, <1>9 DEF Renames
    <2>2. SameSum(S, G, K, F)
      BY <1>7, <2>1, SumRenamed
    <2> QED
      BY <2>2 DEF SameSum
  <1>11. S \in SUBSET D
    BY <1>3, <1>4, <1>9 DEF With
  <1>12. \A b \in S : G[b] \in Int
    BY <1>6, <1>9
  <1>13. ASSUME NEW b \in D \ S PROVE G[b] = 0
    <2> SUFFICES ASSUME placed[b] # 0, args.indices[placed[b]] = i PROVE FALSE
      BY <1>3 DEF InBuckets
    <2>1. placed[b] \in K /\ placed[b] \in 1 .. y_len
      BY <1>2, <1>3, <1>5 DEF With
    <2>2. b = B[placed[b]]
      BY <1>4, <2>1
    <2> QED
      BY <1>9, <1>13, <2>1, <2>2
  <1>14. FoldFunctionOnSet(+, 0, G, D) = FoldFunctionOnSet(+, 0, G, S)
    BY <1>7, <1>11, <1>12, <1>13, SumOver
  <1>15. DOMAIN F = K
    BY <1>3 DEF Products
  <1>16. Total(F) = FoldFunctionOnSet(+, 0, F, K)
    BY <1>15, TotalIs
  <1> QED
    BY <1>3, <1>10, <1>14, <1>16

\* The sums of both ends for an input add up to what SharesProduct says.
LEMMA SumsShareProduct ==
  ASSUME Ready, NEW mask \in Scalars, NEW i \in 0 .. args.size - 1,
         \A indices \in IndexLists : indices \in Seq(Nat)
  PROVE  (SumAt("value", mask, i) + SumAt("index", mask, i)) % modulus =
           Total(Products(i)) % modulus
  <1>1. PICK m \in Nat \ {0} : m = modulus
    BY MPFSSAssumption
  <1>2. PICK D, f, g, G : /\ D = 1 .. num_buckets /\ f = TotalsOf("value", mask, i)
                          /\ g = TotalsOf("index", mask, i) /\ G = InBuckets(i)
    OBVIOUS
  <1>3. /\ IsFiniteSet(D) /\ \A b \in D : f[b] \in Int /\ g[b] \in Int
        /\ SumAt("value", mask, i) = FoldFunctionOnSet(+, 0, f, D) % m
        /\ SumAt("index", mask, i) = FoldFunctionOnSet(+, 0, g, D) % m
    <2>1. num_buckets \in Nat
      BY CallNumbers DEF Ready, Extra
    <2>2. SummedUp("value", mask, i) /\ SummedUp("index", mask, i)
      BY EndsSumUp
    <2>3. IsFiniteSet(D)
      BY <1>2, <2>1, FS_Interval
    <2>4. \A b \in D : f[b] \in Int /\ g[b] \in Int
      BY <1>2, <2>2 DEF SummedUp
    <2>5. /\ SumAt("value", mask, i) = FoldFunctionOnSet(+, 0, f, D) % m
          /\ SumAt("index", mask, i) = FoldFunctionOnSet(+, 0, g, D) % m
      BY <1>1, <1>2, <2>2 DEF SummedUp
    <2> QED
      BY <2>3, <2>4, <2>5
  <1>4. PICK h : h = [b \in D |-> f[b] + g[b]]
    OBVIOUS
  <1>5. ASSUME NEW b \in D PROVE h[b] \in Int /\ G[b] \in Int /\ Congruent(m, h[b], G[b])
    <2>1. PICK E, e, held : /\ held = cache["index"].buckets[b]
                              /\ E = EntriesOf(held, i) /\ e = PositionInBucket(b)
      OBVIOUS
    <2>2. h[b] = IF e \in E THEN ShareSum(b) ELSE 0
      BY <1>2, <1>4, <2>1, BucketTotals DEF TotalsOf
    <2>7. G[b] = IF placed[b] # 0 /\ args.indices[placed[b]] = i THEN args.x * ValueAt(b) ELSE 0
      BY <1>2 DEF InBuckets
    <2>3. PICK s \in Int, x \in Int, y \in Int :
            /\ s = ShareSum(b) /\ x = args.x /\ y = ValueAt(b) /\ Congruent(m, s, x * y)
      <3>1. ShareSum(b) \in Int /\ ValueAt(b) \in Int
        BY <1>2, SharesAddUp
      <3>2. Congruent(m, ShareSum(b), args.x * ValueAt(b))
        BY <1>1, <1>2, SharesAddUp
      <3>3. args.x \in Int
        BY CallNumbers DEF Ready, Extra
      <3> QED
        BY <3>1, <3>2, <3>3
    <2>4. x * y \in Int /\ x * 0 = 0
      OBVIOUS
    <2>5. CASE placed[b] = 0
      <3>1. G[b] = 0 /\ y = 0
        BY <2>5, <2>3, <2>7 DEF ValueAt
      <3>2. Congruent(m, s, 0) /\ Congruent(m, 0, 0)
        BY <2>3, <2>4, <3>1 DEF Congruent
      <3> QED
        BY <2>2, <2>3, <3>1, <3>2
    <2>6. CASE placed[b] # 0
      <3>1. e \in E <=> args.indices[placed[b]] = i
        BY <1>2, <2>1, <2>6, PositionFound DEF EntriesOf
      <3>2. CASE e \in E
        BY <2>2, <2>3, <2>4, <2>6, <2>7, <3>1, <3>2
      <3>3. CASE e \notin E
        <4>1. h[b] = 0 /\ G[b] = 0
          BY <2>2, <2>7, <3>1, <3>3
        <4> QED
          BY <4>1 DEF Congruent
      <3> QED
        BY <3>2, <3>3
    <2> QED
      BY <2>5, <2>6
  <1>6. PICK a, b, c, d : /\ a = FoldFunctionOnSet(+, 0, f, D) /\ b = FoldFunctionOnSet(+, 0, g, D)
                          /\ c = FoldFunctionOnSet(+, 0, h, D) /\ d = FoldFunctionOnSet(+, 0, G, D)
    OBVIOUS
  <1>7. a \in Int /\ b \in Int /\ c = a + b
    <2>1. a \in Int /\ b \in Int
      BY <1>3, <1>6, SumType
    <2>2. c = a + b
      BY <1>3, <1>4, <1>6, SumOfTwo
    <2> QED
      BY <2>1, <2>2
  <1>8. Congruent(m, c, d)
    BY <1>3, <1>5, <1>6, SumCongruent
  <1>9. d = Total(Products(i))
    BY <1>2, <1>6, SameSummands
  <1>10. Congruent(m, (a % m) + (b % m), a + b)
    <2>1. PICK p \in Int, q \in Int : p = a % m /\ q = b % m
      BY <1>7
    <2>2. Congruent(m, p, a) /\ Congruent(m, q, b)
      <3>1. p % m = p /\ q % m = q
        BY <1>7, <2>1
      <3> QED
        BY <2>1, <3>1 DEF Congruent
    <2>3. Congruent(m, p + q, a + b)
      BY <1>7, <2>2, ResidueOfTwo
    <2> QED
      BY <2>1, <2>3
  <1>11. ((a % m) + (b % m)) % m = d % m
    BY <1>7, <1>8, <1>10 DEF Congruent
  <1> QED
    BY <1>1, <1>3, <1>6, <1>9, <1>11

\* Both ends have reached the single-point sharings when these are run.
LEMMA RunReady ==
  ASSUME Inv, Extra, RunSPFSS PROVE Ready /\ args.size \in Nat /\ channel = <<>>
  <1>1. Ready
    BY DEF Ready, RunSPFSS
  <1>2. args.size \in OutputSizes /\ channel = <<>>
    BY <1>1 DEF Ready, Inv, Together, Masks
  <1> QED
    BY <1>1, <1>2, MPFSSAssumption

SumsAreOutput(mask) ==
  \A r \in Roles : output'[r] = [i \in 1 .. args.size |-> SumAt(r, mask, i - 1)]

\* The sums at the inputs are the outputs.
LEMMA RunOutput ==
  ASSUME RunSPFSS PROVE \E mask \in Scalars : SumsAreOutput(mask)
  <1>1. PICK mask \in Scalars :
          output' = [r \in Roles |-> [i \in 1 .. args.size |-> SumAt(r, mask, i - 1)]]
    BY DEF RunSPFSS
  <1> QED
    BY <1>1 DEF SumsAreOutput

\* The sums are reduced.
LEMMA SumsReduced ==
  ASSUME Ready, args.size \in Nat, NEW mask \in Scalars, NEW r \in Roles,
         NEW f, f = [i \in 1 .. args.size |-> SumAt(r, mask, i - 1)]
  PROVE  ToSet(f) \subseteq 0 .. modulus - 1
  <1>1. PICK D : D = 1 .. num_buckets
    OBVIOUS
  <1>2. IsFiniteSet(D)
    <2>1. num_buckets \in Nat
      BY CallNumbers DEF Ready, Extra
    <2> QED
      BY <1>1, <2>1, FS_Interval
  <1>3. PICK g : g = [i \in 1 .. args.size |-> FoldFunctionOnSet(+, 0, TotalsOf(r, mask, i - 1), D)]
    OBVIOUS
  <1>4. ASSUME NEW i \in 1 .. args.size PROVE g[i] \in Int /\ f[i] = g[i] % modulus
    <2>1. PICK j \in 0 .. args.size - 1 : j = i - 1
      OBVIOUS
    <2>2. SummedUp(r, mask, j)
      BY EndsSumUp DEF Roles
    <2>3. PICK h : h = TotalsOf(r, mask, j)
      OBVIOUS
    <2>4. \A b \in D : h[b] \in Int
      BY <1>1, <2>2, <2>3 DEF SummedUp
    <2>5. FoldFunctionOnSet(+, 0, h, D) \in Int
      BY <1>2, <2>4, SumType
    <2>6. g[i] = FoldFunctionOnSet(+, 0, h, D)
      BY <1>3, <2>1, <2>3
    <2>7. f[i] = SumAt(r, mask, j)
      BY <2>1
    <2>8. SumAt(r, mask, j) = FoldFunctionOnSet(+, 0, h, D) % modulus
      BY <1>1, <2>2, <2>3 DEF SummedUp
    <2> QED
      BY <2>5, <2>6, <2>7, <2>8
  <1> QED
    BY <1>4, ResiduesReduced

\* The single-point sharings leave everything but the output.
LEMMA RunExtra ==
  ASSUME Inv, Extra, RunSPFSS PROVE Extra'
  <1>1. Ready /\ args.size \in Nat /\ channel = <<>>
    BY RunReady
  <1>2. PICK mask \in Scalars : SumsAreOutput(mask)
    BY RunOutput
  <1>3. Called' /\ Placed'
    BY <1>1 DEF Ready, Extra, Called, Placed, RunSPFSS, Roles
  <1>4. Reduced(output)'
    <2>1. ASSUME NEW r \in Roles PROVE ToSet(output'[r]) \subseteq 0 .. modulus - 1
      <3>1. PICK f : f = [i \in 1 .. args.size |-> SumAt(r, mask, i - 1)]
        OBVIOUS
      <3>2. ToSet(f) \subseteq 0 .. modulus - 1
        BY <1>1, <3>1, SumsReduced
      <3> QED
        BY <1>2, <3>1, <3>2 DEF SumsAreOutput
    <2> QED
      BY <2>1 DEF Reduced
  <1>5. Reduced(shares)'
    BY DEF Extra, Reduced, RunSPFSS
  <1> QED
    BY <1>3, <1>4, <1>5 DEF Extra

-----------------------------------------------------------------------------
(* The theorems.                                                           *)

\* What each step does with arguments, placements, shares and results.
LEMMA NextExtra ==
  ASSUME Inv, Extra, [Next]_vars PROVE Extra'
  <1>1. CASE Call
    BY <1>1, CallExtra
  <1>2. ASSUME NEW r \in Roles, Prepare(r) \/ RefuseEmpty(r) PROVE Extra'
    BY <1>2, OtherExtra DEF Prepare, RefuseEmpty
  <1>3. CASE StartValueProvider
    BY <1>3, StartExtra
  <1>4. CASE ReceiveMasked
    BY <1>4, ReceiveExtra
  <1>5. CASE RefuseIndices \/ CuckooFails \/ RefusePosition
    BY <1>5, OtherExtra DEF RefuseIndices, CuckooFails, RefusePosition, Roles
  <1>6. CASE SendMasked
    BY <1>6, SendExtra
  <1>7. CASE RunSPFSS
    BY <1>7, RunExtra
  <1>8. CASE Return
    BY <1>8, ReturnExtra
  <1>9. CASE UNCHANGED vars
    BY <1>9, OtherExtra DEF vars, Roles
  <1> QED
    BY <1>1, <1>2, <1>3, <1>4, <1>5, <1>6, <1>7, <1>8, <1>9 DEF Next

\* Every reachable state satisfies Inv and Extra.
THEOREM ExtraInvariance == Spec => [](Inv /\ Extra)
  <1>1. Init => Extra
    BY InitExtra
  <1>2. Inv /\ Extra /\ [Next]_vars => Extra'
    BY NextExtra
  <1> QED
    BY Invariance, <1>1, <1>2, PTL DEF Spec

\* A filled cache has buckets of inputs in range.
LEMMA CacheInRange ==
  ASSUME Inv, Extra, NEW r \in Roles, NEW b \in DOMAIN cache[r].buckets
  PROVE  ToSet(cache[r].buckets[b]) \subseteq 0 .. cache[r].size - 1
  <1>1. cache[r] \in {EmptyCache} \cup Caches /\ hash \in Hashes
    BY DEF Inv, Shaped, Extra, Called
  <1>2. cache[r] # EmptyCache
    BY DEF EmptyCache
  <1>3. PICK size \in OutputSizes, indices \in IndexLists : cache[r] = CacheFor(size, Len(indices))
    BY <1>1, <1>2 DEF Caches
  <1>4. PICK nb : nb = NumBuckets[Len(indices)]
    OBVIOUS
  <1>5. /\ cache[r].size = size /\ b \in 1 .. nb
        /\ cache[r].buckets[b] = HashSimple(size, nb)[b]
    BY <1>3, <1>4 DEF CacheFor, HashSimple
  <1>6. PICK s, c : s = HashSimple(size, nb)[b] /\ c = CopyNumbers(nb, b, size)
    OBVIOUS
  <1>7. HasInputs(s, nb, b, c, size)
    BY <1>1, <1>4, <1>5, <1>6, BucketOf
  <1>8. s \in Seq(Nat) /\ \A p \in DOMAIN s : s[p] < size
    BY <1>7 DEF HasInputs, HasCopies
  <1>9. size \in Nat
    BY MPFSSAssumption
  <1>10. \A p \in DOMAIN s : s[p] \in 0 .. size - 1
    BY <1>8, <1>9
  <1> QED
    BY <1>5, <1>6, <1>10 DEF ToSet

\* The variables have their types; shares and results are reduced, and buckets
\* have inputs of the output's size only, whatever calls and updates came before.
THEOREM TypeCorrect == Spec => []TypeOK
  <1>1. Inv /\ Extra => TypeOK
    BY CacheInRange DEF Inv, Shaped, Labels, Extra, Called, Reduced, TypeOK
  <1> QED
    BY ExtraInvariance, <1>1, PTL

\* The results of the single-point sharings are additive shares of the product.
LEMMA RunShares ==
  ASSUME Inv, Extra, RunSPFSS, \A indices \in IndexLists : indices \in Seq(Nat)
  PROVE  SharesProduct'
  <1>1. Ready /\ args.size \in Nat /\ args' = args
    BY RunReady DEF RunSPFSS
  <1>2. PICK mask \in Scalars : SumsAreOutput(mask)
    BY RunOutput
  <1>3. ASSUME NEW i \in 1 .. args.size
        PROVE  (output'["value"][i] + output'["index"][i]) % modulus =
                 Total(Products(i - 1)) % modulus
    <2>1. PICK j \in 0 .. args.size - 1 : j = i - 1
      BY <1>1
    <2>2. output'["value"][i] = SumAt("value", mask, j) /\ output'["index"][i] = SumAt("index", mask, j)
      BY <1>2, <2>1 DEF SumsAreOutput, Roles
    <2>3. (SumAt("value", mask, j) + SumAt("index", mask, j)) % modulus = Total(Products(j)) % modulus
      BY <1>1, SumsShareProduct
    <2> QED
      BY <2>1, <2>2, <2>3
  <1>4. y_len' = y_len
    BY <1>1 DEF y_len
  <1> QED
    BY <1>1, <1>3, <1>4 DEF SharesProduct, Products, With

\* No other step brings both ends to the end of a call.
LEMMA OtherShares ==
  ASSUME Inv, SharesProduct, [Next]_vars, ~RunSPFSS
  PROVE  SharesProduct'
  <1>1. CASE UNCHANGED <<pc, args, output>>
    BY <1>1 DEF SharesProduct, y_len
  <1>2. CASE \E r \in Roles : pc'[r] # "done"
    <2>1. pc' # [r \in Roles |-> "done"]
      BY <1>2
    <2> QED
      BY <2>1 DEF SharesProduct
  <1>3. Call \/ Return => \E r \in Roles : pc'[r] # "done"
    BY DEF Call, Return, Roles
  <1>4. StartValueProvider \/ ReceiveMasked \/ SendMasked => \E r \in Roles : pc'[r] # "done"
    BY DEF StartValueProvider, ReceiveMasked, SendMasked, Inv, Shaped, Roles
  <1>5. ASSUME NEW r \in Roles, Fail(r) PROVE pc'[r] # "done"
    BY <1>5 DEF Fail, Inv, Shaped
  <1>6. RefuseIndices \/ CuckooFails \/ RefusePosition \/ (\E r \in Roles : RefuseEmpty(r))
          => \E r \in Roles : pc'[r] # "done"
    BY <1>5 DEF RefuseIndices, CuckooFails, RefusePosition, RefuseEmpty, Roles
  <1>7. (\E r \in Roles : Prepare(r)) \/ UNCHANGED vars => UNCHANGED <<pc, args, output>>
    BY DEF Prepare, vars
  <1> QED
    BY <1>1, <1>2, <1>3, <1>4, <1>6, <1>7 DEF Next

\* The two results of every call are additive shares of x*y at the indices, if
\* these are not negative, as mpfss_known_indices.h:81-82 asks for and the code
\* does not check: for all hash values and placements, numbers of buckets, and
\* sequences of calls and updates, and any modulus (mpfss_known_indices.h:91-96).
THEOREM SharesAreProduct ==
  ASSUME \A indices \in IndexLists : indices \in Seq(Nat)
  PROVE  Spec => []SharesProduct
  <1>1. Init => SharesProduct
    BY DEF Init, SharesProduct, Roles
  <1>2. Inv /\ Extra /\ SharesProduct /\ [Next]_vars => SharesProduct'
    BY RunShares, OtherShares
  <1> QED
    BY ExtraInvariance, <1>1, <1>2, PTL DEF Spec

-----------------------------------------------------------------------------
(***************************************************************************)
(* The hashing below the protocol: HashCuckoo and HashSimple are correct   *)
(* for every number of inputs, buckets and hash functions, and all hash    *)
(* values.                                                                 *)
(*                                                                         *)
(* First HashCuckoo.                                                       *)
(* NothingLost is not inductive: it says nothing once the last input has   *)
(* been placed, where ResultComplete needs it, and an input about to be    *)
(* taken up must not be in a bucket already.  HashCuckooInv adds what is   *)
(* missing.                                                                *)
(***************************************************************************)

Untouched ==
  status \in {"called", "invalid argument"} =>
    /\ \A b \in Buckets : buckets[b] = 0
    /\ current_element = 1 /\ inserted = 0

\* Each input is in at most one bucket, ...
NoneTwice ==
  \A b, c \in Buckets : buckets[b] = buckets[c] /\ buckets[b] # 0 => b = c

\* ... only inputs taken up are, among them the current one ...
OnlyTakenUp ==
  /\ \A b \in Buckets : buckets[b] # 0 => buckets[b] \in TakenUp
  /\ inserted < num_inputs => current_element \in TakenUp

\* ... and all but the current one are in some bucket.
InSomeBucket ==
  /\ inserted < num_inputs =>
       /\ \A b \in Buckets : buckets[b] # current_element
       /\ \A e \in TakenUp \ {current_element} : \E b \in Buckets : buckets[b] = e
  /\ inserted = num_inputs =>
       \A e \in Inputs : \E b \in Buckets : buckets[b] = e

HashCuckooInv ==
  /\ HashCuckooTypeOK /\ Untouched /\ NoneTwice /\ OnlyTakenUp /\ InSomeBucket
  /\ PlacedByHash
  /\ status = "ok" => inserted = num_inputs

-----------------------------------------------------------------------------
\* A hash function counter stays below the number of hash functions.
LEMMA NextFunctionType ==
  ASSUME current_hash_function \in Functions
  PROVE  NextFunction \in Functions
  BY HasherAssumption, InputCountsAssumption DEF NextFunction, Functions

\* While inputs are inserted, the current one hashes to a bucket.
LEMMA IndexType ==
  ASSUME HashCuckooTypeOK, Inserting
  PROVE  index \in Buckets
  BY DEF HashCuckooTypeOK, Inserting, index

\* Before the call the buckets are empty.
LEMMA HashCuckooInitInv == HashCuckooInit => HashCuckooInv
  <1> SUFFICES ASSUME HashCuckooInit PROVE HashCuckooInv
    OBVIOUS
  <1> USE HasherAssumption, InputCountsAssumption
  <1>1. HashCuckooTypeOK
    BY DEF HashCuckooInit, HashCuckooTypeOK, Inputs, num_tries, Functions
  <1>2. Untouched /\ NoneTwice /\ OnlyTakenUp /\ PlacedByHash
    BY DEF HashCuckooInit, Untouched, NoneTwice, OnlyTakenUp, PlacedByHash, TakenUp
  <1>3. InSomeBucket
    BY DEF HashCuckooInit, InSomeBucket, TakenUp, Inputs
  <1> QED
    BY <1>1, <1>2, <1>3 DEF HashCuckooInit, HashCuckooInv

\* Steps that leave the buckets alone.
LEMMA StatusInv ==
  ASSUME HashCuckooInv, RejectSizes \/ Hash \/ GiveUp \/ Finish
  PROVE  HashCuckooInv'
  <1> USE HasherAssumption, InputCountsAssumption DEF HashCuckooInv
  <1>1. CASE RejectSizes
    BY <1>1 DEF RejectSizes, HashCuckooTypeOK, Untouched, NoneTwice, OnlyTakenUp,
                InSomeBucket, PlacedByHash, TakenUp, Inputs, num_tries
  <1>2. CASE Hash
    <2>1. HashCuckooTypeOK'
      BY <1>2 DEF Hash, HashCuckooTypeOK, Inputs, num_tries
    <2>2. PlacedByHash'
      BY <1>2 DEF Hash, Untouched, PlacedByHash
    <2> QED
      BY <1>2, <2>1, <2>2 DEF Hash, Untouched, NoneTwice, OnlyTakenUp,
                              InSomeBucket, TakenUp, Inputs
  <1>3. CASE GiveUp \/ Finish
    BY <1>3 DEF GiveUp, Finish, HashCuckooTypeOK, Untouched, NoneTwice, OnlyTakenUp,
                InSomeBucket, PlacedByHash, TakenUp, Inputs, num_tries, Inserting
  <1> QED
    BY <1>1, <1>2, <1>3

\* An input put into an empty bucket is placed, and the next one is in no bucket.
LEMMA InsertInv ==
  ASSUME HashCuckooInv, InsertIntoEmpty
  PROVE  HashCuckooInv'
  <1> USE HasherAssumption, InputCountsAssumption DEF HashCuckooInv, InsertIntoEmpty, Inserting
  <1>1. index \in Buckets
    BY IndexType
  <1>2. /\ current_element \in Inputs
        /\ buckets \in [Buckets -> 0 .. num_inputs]
        /\ inserted \in Nat /\ num_inputs \in Nat /\ status = "running"
    BY DEF HashCuckooTypeOK, Inputs
  <1>3. HashCuckooTypeOK'
    <2>1. buckets' \in [Buckets -> 0 .. num_inputs']
      BY <1>1, <1>2 DEF Inputs
    <2>2. inserted' \in 0 .. num_inputs' /\ tries' \in 0 .. num_tries'
      BY <1>2 DEF num_tries
    <2>3. inserted' < num_inputs' => current_element' \in Inputs'
      BY <1>2 DEF Inputs
    <2>4. current_hash_function' \in Functions
      BY DEF Functions
    <2> QED
      BY <1>2, <2>1, <2>2, <2>3, <2>4 DEF HashCuckooTypeOK, Inputs
  <1>4. \A b \in Buckets : buckets'[b] = IF b = index THEN current_element ELSE buckets[b]
    BY <1>1, <1>2
  <1>5. NoneTwice'
    BY <1>1, <1>4 DEF NoneTwice, InSomeBucket
  <1>6. OnlyTakenUp'
    BY <1>2, <1>4 DEF OnlyTakenUp, TakenUp
  <1>7. ASSUME NEW e \in TakenUp PROVE \E b \in Buckets : buckets'[b] = e
    <2>1. CASE e = current_element
      BY <1>1, <1>4, <2>1
    <2>2. CASE e # current_element
      <3>1. PICK b \in Buckets : buckets[b] = e
        BY <2>2 DEF InSomeBucket
      <3>2. b # index
        BY <3>1, <1>2 DEF TakenUp
      <3> QED
        BY <1>4, <3>1, <3>2
    <2> QED
      BY <2>1, <2>2
  <1>8. InSomeBucket'
    <2>1. \A b \in Buckets : buckets'[b] # inserted + 2
      BY <1>2, <1>4 DEF OnlyTakenUp, TakenUp
    <2>2. TakenUp' \ {current_element'} = TakenUp
      BY <1>2 DEF TakenUp
    <2>3. inserted' = num_inputs' => Inputs' = TakenUp
      BY <1>2 DEF TakenUp, Inputs
    <2> QED
      BY <1>7, <2>1, <2>2, <2>3 DEF InSomeBucket
  <1>9. PlacedByHash'
    BY <1>1, <1>4, <1>2 DEF PlacedByHash, index, HashCuckooTypeOK
  <1> QED
    BY <1>2, <1>3, <1>5, <1>6, <1>8, <1>9 DEF Untouched

\* An eviction swaps: the new input takes the bucket, the old one is current.
LEMMA EvictInv ==
  ASSUME HashCuckooInv, Evict
  PROVE  HashCuckooInv'
  <1> USE HasherAssumption, InputCountsAssumption DEF HashCuckooInv, Evict, Inserting, Evicted
  <1>1. index \in Buckets
    BY IndexType
  <1>2. /\ current_element \in Inputs
        /\ buckets \in [Buckets -> 0 .. num_inputs]
        /\ inserted \in Nat /\ num_inputs \in Nat /\ status = "running"
    BY DEF HashCuckooTypeOK, Inputs
  <1>3. HashCuckooTypeOK'
    <2>1. buckets' \in [Buckets -> 0 .. num_inputs']
      BY <1>1, <1>2 DEF Inputs
    <2>2. next_hash_function' \in [Buckets -> Functions]
      BY <1>1, NextFunctionType DEF HashCuckooTypeOK
    <2>3. current_element' \in Inputs' /\ current_hash_function' \in Functions
      BY <1>1, <1>2 DEF HashCuckooTypeOK, Inputs
    <2>4. tries' \in 0 .. num_tries'
      BY <1>2 DEF HashCuckooTypeOK, num_tries, NextTry
    <2> QED
      BY <1>2, <2>1, <2>2, <2>3, <2>4 DEF HashCuckooTypeOK, Inputs
  <1>4. \A b \in Buckets : buckets'[b] = IF b = index THEN current_element ELSE buckets[b]
    BY <1>1, <1>2
  <1>5. NoneTwice'
    BY <1>1, <1>4 DEF NoneTwice, InSomeBucket
  <1>6. OnlyTakenUp'
    BY <1>1, <1>2, <1>4 DEF OnlyTakenUp, TakenUp
  <1>7. InSomeBucket'
    <2>1. \A b \in Buckets : buckets'[b] # buckets[index]
      BY <1>1, <1>4 DEF NoneTwice, InSomeBucket
    <2>2. ASSUME NEW e \in TakenUp, e # buckets[index]
          PROVE  \E b \in Buckets : buckets'[b] = e
      BY <1>1, <1>4, <2>2 DEF InSomeBucket
    <2> QED
      BY <1>2, <2>1, <2>2 DEF InSomeBucket, TakenUp
  <1>8. PlacedByHash'
    BY <1>1, <1>4, <1>2 DEF PlacedByHash, index, HashCuckooTypeOK
  <1> QED
    BY <1>2, <1>3, <1>5, <1>6, <1>7, <1>8 DEF Untouched

\* HashCuckooInv holds in every state of every run of HashCuckoo (cuckoo_hasher.h:175-231).
THEOREM HashCuckooInvariance == HashCuckooSpec => []HashCuckooInv
  <1>1. HashCuckooInv /\ [HashCuckooNext]_hash_cuckoo_vars => HashCuckooInv'
    <2> SUFFICES ASSUME HashCuckooInv, [HashCuckooNext]_hash_cuckoo_vars PROVE HashCuckooInv'
      OBVIOUS
    <2>1. CASE HashCuckooNext
      BY <2>1, StatusInv, InsertInv, EvictInv DEF HashCuckooNext
    <2>2. CASE UNCHANGED hash_cuckoo_vars
      BY <2>2 DEF hash_cuckoo_vars, HashCuckooInv, HashCuckooTypeOK, Untouched, NoneTwice, OnlyTakenUp,
                  InSomeBucket, PlacedByHash, TakenUp, Inputs, num_tries
    <2> QED
      BY <2>1, <2>2
  <1> QED
    BY HashCuckooInitInv, <1>1, PTL DEF HashCuckooSpec

-----------------------------------------------------------------------------
\* Nothing that HashCuckoo reads or writes leaves its type, so no access to
\* `hashes', `buckets' or `next_hash_function' is out of bounds.
THEOREM HashCuckooTypeCorrect == HashCuckooSpec => []HashCuckooTypeOK
  <1>1. HashCuckooInv => HashCuckooTypeOK
    BY DEF HashCuckooInv
  <1> QED
    BY HashCuckooInvariance, <1>1, PTL

\* Evictions neither lose nor duplicate an input.
THEOREM NothingIsLost == HashCuckooSpec => []NothingLost
  <1>1. HashCuckooInv => NothingLost
    BY DEF HashCuckooInv, NothingLost, InSomeBucket, OnlyTakenUp, NoneTwice
  <1> QED
    BY HashCuckooInvariance, <1>1, PTL

\* Every input is in a bucket that one of its hash functions names.
THEOREM HashesPlace == HashCuckooSpec => []PlacedByHash
  <1>1. HashCuckooInv => PlacedByHash
    BY DEF HashCuckooInv
  <1> QED
    BY HashCuckooInvariance, <1>1, PTL

\* What HashCuckoo returns has every input in exactly one bucket.
THEOREM ResultIsComplete == HashCuckooSpec => []ResultComplete
  <1>1. HashCuckooInv => ResultComplete
    <2> SUFFICES ASSUME HashCuckooInv, status = "ok", NEW e \in Inputs
                 PROVE  \E b \in Buckets :
                          /\ buckets[b] = e
                          /\ \A c \in Buckets : buckets[c] = e => c = b
      BY DEF ResultComplete
    <2>1. e # 0
      BY HasherAssumption, InputCountsAssumption DEF HashCuckooInv, HashCuckooTypeOK, Inputs
    <2>2. PICK b \in Buckets : buckets[b] = e
      BY DEF HashCuckooInv, InSomeBucket
    <2> QED
      BY <2>1, <2>2 DEF HashCuckooInv, NoneTwice
  <1> QED
    BY HashCuckooInvariance, <1>1, PTL

-----------------------------------------------------------------------------
(***************************************************************************)
(* HashSimple: it yields the buckets that one thread alone would yield,    *)
(* with teams of any size and in every schedule.                           *)
(*                                                                         *)
(* Prefix(b, n) is what one thread has in bucket b after the first n       *)
(* inputs.  The chunks of the threads follow each other, so the buckets of *)
(* thread t are what leads from the prefix at the beginning of its chunk   *)
(* to the one at the input that it hashes next (Hashed), and the result is *)
(* a prefix up to the end of a chunk, a longer one in the buckets before   *)
(* `bucket' (Merged).                                                      *)
(***************************************************************************)

Prefix(b, n) == FlattenSeq([i \in 1 .. n |-> PushedBack(i, b)])

Hashed ==
  \A t \in Threads : \A b \in Buckets :
    Prefix(b, End(t - 1)) \o thread_result[t][b] = Prefix(b, next[t] - 1)

\* A thread stays in its chunk, and has finished it when it appends.
InChunk ==
  \A t \in Threads :
    /\ next[t] \in Start(t) .. End(t) + 1
    /\ t < turn \/ (t = turn /\ bucket > 1) => next[t] > End(t)

Merged ==
  /\ turn > num_threads => bucket = 1
  /\ \A b \in Buckets :
       result[b] = Prefix(b, IF b < bucket THEN End(turn) ELSE End(turn - 1))

HashSimpleInv == HashSimpleTypeOK /\ Hashed /\ InChunk /\ Merged

-----------------------------------------------------------------------------
(* Chunks and prefixes.                                                    *)

\* The chunks are parts of the inputs, one after the other, and cover them.
LEMMA Chunks ==
  ASSUME num_threads \in Nat \ {0}
  PROVE  /\ End(0) = 0 /\ End(num_threads) = NumInputs
         /\ \A t \in Threads : /\ t - 1 \in 0 .. num_threads
                               /\ End(t) \in 0 .. NumInputs /\ End(t - 1) \in 0 .. NumInputs
                               /\ Start(t) = End(t - 1) + 1 /\ End(t - 1) <= End(t)
  <1>1. PICK n, k : n = NumInputs /\ k = num_threads
    OBVIOUS
  <1>2. n \in Nat /\ k \in Nat \ {0}
    BY <1>1, HasherAssumption, TeamAssumption
  <1>3. \A x, y \in Nat : x <= y => x \div k <= y \div k /\ x \div k \in Nat
    BY <1>2
  <1>4. 0 * n = 0 /\ 0 \div k = 0
    BY <1>2
  <1>5. (k * n) \div k = n
    BY <1>2
  <1>6. \A t \in 1 .. k : t - 1 \in Nat /\ (t - 1) * n \in Nat /\ (t - 1) * n <= t * n
                          /\ t * n \in Nat /\ t * n <= k * n
    BY <1>2
  <1>7. k * n \in Nat
    BY <1>2
  <1>8. \A t \in 1 .. k : /\ (t * n) \div k \in 0 .. n /\ ((t - 1) * n) \div k \in 0 .. n
                          /\ ((t - 1) * n) \div k <= (t * n) \div k
    <2> SUFFICES ASSUME NEW t \in 1 .. k
                 PROVE  /\ (t * n) \div k \in 0 .. n /\ ((t - 1) * n) \div k \in 0 .. n
                        /\ ((t - 1) * n) \div k <= (t * n) \div k
      OBVIOUS
    <2>1. PICK a, b, c : a = (t - 1) * n /\ b = t * n /\ c = k * n
      OBVIOUS
    <2>2. a \in Nat /\ b \in Nat /\ c \in Nat /\ a <= b /\ b <= c
      BY <1>6, <1>7, <2>1
    <2>3. a \div k <= b \div k /\ b \div k <= c \div k /\ a \div k \in Nat /\ b \div k \in Nat
      BY <1>3, <2>2
    <2>4. c \div k = n
      BY <1>5, <2>1
    <2> QED
      BY <1>2, <2>1, <2>3, <2>4
  <1> QED
    BY <1>1, <1>2, <1>4, <1>5, <1>8 DEF End, Start, Threads

\* The copies of an input are a sequence of inputs.
LEMMA CopiesType ==
  ASSUME NEW i \in AllInputs, NEW b
  PROVE  PushedBack(i, b) \in Seq(AllInputs)
  <1>1. IsFiniteSet({f \in Functions : hashes[i][f] = b})
    <2>1. IsFiniteSet(Functions)
      BY HasherAssumption, TeamAssumption, FS_Interval DEF Functions
    <2> QED
      BY <2>1, FS_Subset
  <1>2. Cardinality({f \in Functions : hashes[i][f] = b}) \in Nat
    BY <1>1, FS_CardinalityType
  <1> QED
    BY <1>2 DEF PushedBack

\* One input more in the prefix of a bucket.
LEMMA PrefixNext ==
  ASSUME NEW b, NEW i \in AllInputs
  PROVE  Prefix(b, i) \in Seq(AllInputs) /\ Prefix(b, i) = Prefix(b, i - 1) \o PushedBack(i, b)
  <1>1. PICK ss : ss = [k \in AllInputs |-> PushedBack(k, b)]
    OBVIOUS
  <1>2. NumInputs \in Nat /\ AllInputs = 1 .. NumInputs
    BY HasherAssumption, TeamAssumption DEF AllInputs
  <1>3. ss \in Seq(Seq(AllInputs)) /\ Len(ss) = NumInputs
    BY <1>1, <1>2, CopiesType
  <1>4. i \in 1 .. Len(ss)
    BY <1>2, <1>3
  <1>5. /\ FlattenSeq([k \in 1 .. i |-> ss[k]]) \in Seq(AllInputs)
        /\ FlattenSeq([k \in 1 .. i |-> ss[k]]) =
             FlattenSeq([k \in 1 .. i - 1 |-> ss[k]]) \o ss[i]
    BY <1>3, <1>4, FlattenNext
  <1>6. /\ [k \in 1 .. i |-> ss[k]] = [k \in 1 .. i |-> PushedBack(k, b)]
        /\ [k \in 1 .. i - 1 |-> ss[k]] = [k \in 1 .. i - 1 |-> PushedBack(k, b)]
        /\ ss[i] = PushedBack(i, b)
    BY <1>1, <1>2
  <1> QED
    BY <1>5, <1>6 DEF Prefix

\* No inputs, nothing in the bucket.
LEMMA PrefixZero ==
  ASSUME NEW b
  PROVE  Prefix(b, 0) = <<>>
  <1>1. [i \in 1 .. 0 |-> PushedBack(i, b)] = <<>>
    OBVIOUS
  <1>2. FlattenSeq(<<>>) = <<>>
    BY DEF FlattenSeq
  <1> QED
    BY <1>1, <1>2 DEF Prefix

\* A prefix is a sequence of inputs.
LEMMA PrefixType ==
  ASSUME NEW b, NEW n \in 0 .. NumInputs
  PROVE  Prefix(b, n) \in Seq(AllInputs)
  <1>1. CASE n = 0
    <2>1. <<>> \in Seq(AllInputs)
      OBVIOUS
    <2> QED
      BY <1>1, <2>1, PrefixZero
  <1>2. CASE n # 0
    BY <1>2, PrefixNext, HasherAssumption, TeamAssumption DEF AllInputs
  <1> QED
    BY <1>1, <1>2

-----------------------------------------------------------------------------
(* The invariant.                                                          *)

\* Before the first step all is at the beginning.
LEMMA HashSimpleInitInv == HashSimpleInit => HashSimpleInv
  <1> SUFFICES ASSUME HashSimpleInit PROVE HashSimpleInv
    OBVIOUS
  <1>1. num_threads \in Nat \ {0} /\ NumInputs \in Nat /\ BucketCount \in Nat \ {0}
    BY HasherAssumption, TeamAssumption DEF HashSimpleInit
  <1>2. \A t \in Threads : /\ End(t) \in 0 .. NumInputs /\ End(t - 1) \in 0 .. NumInputs
                           /\ Start(t) = End(t - 1) + 1 /\ End(t - 1) <= End(t)
    BY <1>1, Chunks
  <1>3. HashSimpleTypeOK
    <2>1. next \in [Threads -> 1 .. NumInputs + 1]
      BY <1>1, <1>2 DEF HashSimpleInit
    <2>2. NoBuckets \in [Buckets -> Seq(AllInputs)]
      BY DEF NoBuckets
    <2>3. turn \in 1 .. num_threads + 1 /\ bucket \in Buckets
      BY <1>1 DEF HashSimpleInit, Buckets
    <2> QED
      BY <2>1, <2>2, <2>3 DEF HashSimpleInit, HashSimpleTypeOK
  <1>4. Hashed
    <2> SUFFICES ASSUME NEW t \in Threads, NEW b \in Buckets
                 PROVE  Prefix(b, End(t - 1)) \o thread_result[t][b] = Prefix(b, next[t] - 1)
      BY DEF Hashed
    <2>1. thread_result[t][b] = <<>> /\ next[t] = End(t - 1) + 1
      BY <1>2 DEF HashSimpleInit, NoBuckets
    <2>2. PICK n : n = End(t - 1)
      OBVIOUS
    <2>3. n \in 0 .. NumInputs /\ (n + 1) - 1 = n
      BY <1>1, <1>2, <2>2
    <2>4. Prefix(b, n) \in Seq(AllInputs)
      BY <2>3, PrefixType
    <2> QED
      BY <2>1, <2>2, <2>3, <2>4
  <1>5. InChunk
    <2> SUFFICES ASSUME NEW t \in Threads
                 PROVE  next[t] \in Start(t) .. End(t) + 1 /\ ~(t < turn)
                        /\ ~(t = turn /\ bucket > 1)
      BY DEF InChunk
    <2>1. t \in Int /\ t >= 1
      BY <1>1 DEF Threads
    <2> QED
      BY <1>1, <1>2, <2>1 DEF HashSimpleInit
  <1>6. Merged
    <2>1. turn = 1 /\ bucket = 1 /\ result = NoBuckets
      BY DEF HashSimpleInit
    <2>2. \A b \in Buckets : result[b] = <<>> /\ ~(b < bucket)
      BY <1>1, <2>1 DEF NoBuckets, Buckets
    <2>3. End(turn - 1) = 0
      BY <1>1, <2>1, Chunks
    <2> QED
      BY <2>1, <2>2, <2>3, PrefixZero DEF Merged
  <1> QED
    BY <1>3, <1>4, <1>5, <1>6 DEF HashSimpleInv

\* The team and the hashes stay, and with them the chunks and prefixes.
LEMMA SameTeam ==
  ASSUME UNCHANGED <<hashes, num_threads>>
  PROVE  /\ Threads' = Threads
         /\ \A t : Start(t)' = Start(t) /\ End(t)' = End(t)
         /\ \A i, b : PushedBack(i, b)' = PushedBack(i, b)
         /\ \A b, n : Prefix(b, n)' = Prefix(b, n)
  BY DEF Threads, Start, End, PushedBack, Prefix

\* One input more.
LEMMA HashInputInv ==
  ASSUME HashSimpleInv, NEW t \in Threads, HashInput(t)
  PROVE  HashSimpleInv'
  <1>1. UNCHANGED <<hashes, num_threads, turn, bucket, result>>
    BY DEF HashInput
  <1>2. num_threads \in Nat \ {0} /\ NumInputs \in Nat /\ HashSimpleTypeOK
    BY HasherAssumption, TeamAssumption DEF HashSimpleInv, HashSimpleTypeOK
  <1>3. PICK n : n = next[t]
    OBVIOUS
  <1>4. /\ n \in AllInputs /\ n + 1 \in 1 .. NumInputs + 1 /\ n + 1 \in Start(t) .. End(t) + 1
        /\ n <= End(t) /\ n \in Nat
    <2>1. End(t) \in 0 .. NumInputs /\ Start(t) \in Int
      BY <1>2, Chunks
    <2> QED
      BY <1>2, <1>3, <2>1 DEF HashSimpleInv, HashSimpleTypeOK, InChunk, HashInput, AllInputs
  <1>5. PICK added : added = [b \in Buckets |-> thread_result[t][b] \o PushedBack(n, b)]
    OBVIOUS
  <1>6. /\ thread_result' = [thread_result EXCEPT ![t] = added]
        /\ next' = [next EXCEPT ![t] = n + 1]
    BY <1>2, <1>3, <1>5 DEF HashInput, HashSimpleTypeOK
  <1>7. /\ thread_result'[t] = added /\ next'[t] = n + 1
        /\ \A s \in Threads : s # t =>
             thread_result'[s] = thread_result[s] /\ next'[s] = next[s]
    BY <1>2, <1>6 DEF HashSimpleTypeOK
  <1>8. \A b \in Buckets : thread_result[t][b] \in Seq(AllInputs) /\ PushedBack(n, b) \in Seq(AllInputs)
    BY <1>2, <1>4, CopiesType DEF HashSimpleTypeOK
  <1>9. HashSimpleTypeOK'
    <2>1. added \in [Buckets -> Seq(AllInputs)]
      BY <1>5, <1>8, ConcatProperties
    <2> QED
      BY <1>1, <1>2, <1>4, <1>6, <2>1, SameTeam DEF HashSimpleTypeOK
  <1>10. Hashed'
    <2> SUFFICES ASSUME NEW s \in Threads, NEW b \in Buckets
                 PROVE  Prefix(b, End(s - 1)) \o thread_result'[s][b] = Prefix(b, next'[s] - 1)
      BY <1>1, SameTeam DEF Hashed
    <2>1. CASE s # t
      BY <1>7, <2>1 DEF HashSimpleInv, Hashed
    <2>2. CASE s = t
      <3>1. PICK x, y, z : /\ x = Prefix(b, End(t - 1)) /\ y = thread_result[t][b]
                           /\ z = PushedBack(n, b)
        OBVIOUS
      <3>2. x \in Seq(AllInputs) /\ y \in Seq(AllInputs) /\ z \in Seq(AllInputs)
        <4>1. End(t - 1) \in 0 .. NumInputs
          BY <1>2, Chunks
        <4> QED
          BY <1>8, <3>1, <4>1, PrefixType
      <3>3. x \o y = Prefix(b, n - 1)
        BY <1>3, <3>1 DEF HashSimpleInv, Hashed
      <3>4. Prefix(b, n) = (x \o y) \o z
        BY <1>4, <3>1, <3>3, PrefixNext
      <3>5. (x \o y) \o z = x \o (y \o z)
        BY <3>2, ConcatAssociative
      <3>6. thread_result'[t][b] = y \o z /\ (n + 1) - 1 = n
        BY <1>4, <1>5, <1>7, <3>1
      <3> QED
        BY <1>7, <2>2, <3>1, <3>4, <3>5, <3>6
    <2> QED
      BY <2>1, <2>2
  <1>11. InChunk'
    <2> SUFFICES ASSUME NEW s \in Threads
                 PROVE  /\ next'[s] \in Start(s) .. End(s) + 1
                        /\ s < turn \/ (s = turn /\ bucket > 1) => next'[s] > End(s)
      BY <1>1, SameTeam DEF InChunk
    <2>1. CASE s # t
      BY <1>7, <2>1 DEF HashSimpleInv, InChunk
    <2>2. CASE s = t
      <3>1. ~(n > End(t))
        <4>1. End(t) \in Int
          BY <1>2, Chunks
        <4> QED
          BY <1>4, <4>1
      <3>2. ~(t < turn \/ (t = turn /\ bucket > 1))
        BY <1>3, <3>1 DEF HashSimpleInv, InChunk
      <3> QED
        BY <1>4, <1>7, <2>2, <3>2
    <2> QED
      BY <2>1, <2>2
  <1>12. Merged'
    BY <1>1, SameTeam DEF HashSimpleInv, Merged
  <1> QED
    BY <1>9, <1>10, <1>11, <1>12 DEF HashSimpleInv

\* One bucket more in its turn.
LEMMA AppendBucketInv ==
  ASSUME HashSimpleInv, NEW t \in Threads, AppendBucket(t)
  PROVE  HashSimpleInv'
  <1>1. UNCHANGED <<hashes, num_threads, next, thread_result>>
    BY DEF AppendBucket
  <1>2. num_threads \in Nat \ {0} /\ NumInputs \in Nat /\ BucketCount \in Nat \ {0} /\ HashSimpleTypeOK
    BY HasherAssumption, TeamAssumption DEF HashSimpleInv, HashSimpleTypeOK
  <1>3. /\ t = turn /\ next[t] > End(t) /\ bucket \in Buckets
        /\ result' = [result EXCEPT ![bucket] = @ \o thread_result[t][bucket]]
    BY <1>2 DEF AppendBucket, MayAppend, HashSimpleTypeOK
  <1>4. /\ t \in Nat /\ t - 1 \in Nat /\ t <= num_threads
        /\ End(t) \in 0 .. NumInputs /\ End(t - 1) \in 0 .. NumInputs
    BY <1>2, Chunks DEF Threads
  <1>5. next[t] - 1 = End(t)
    BY <1>2, <1>3, <1>4 DEF HashSimpleInv, InChunk, HashSimpleTypeOK
  <1>6. result'[bucket] = Prefix(bucket, End(t))
    <2>1. result[bucket] = Prefix(bucket, End(t - 1))
      <3>1. ~(bucket < bucket)
        BY <1>2, <1>3 DEF Buckets
      <3> QED
        BY <1>3, <3>1 DEF HashSimpleInv, Merged
    <2>2. Prefix(bucket, End(t - 1)) \o thread_result[t][bucket] = Prefix(bucket, next[t] - 1)
      BY <1>3 DEF HashSimpleInv, Hashed
    <2> QED
      BY <1>2, <1>3, <1>5, <2>1, <2>2 DEF HashSimpleTypeOK
  <1>7. \A b \in Buckets : b # bucket => result'[b] = result[b]
    BY <1>2, <1>3 DEF HashSimpleTypeOK
  <1>8. \/ bucket < BucketCount /\ bucket' = bucket + 1 /\ turn' = turn
        \/ bucket = BucketCount /\ bucket' = 1 /\ turn' = turn + 1
    BY DEF AppendBucket
  <1>9. HashSimpleTypeOK'
    <2>1. result' \in [Buckets -> Seq(AllInputs)]
      BY <1>2, <1>3, <1>4, <1>6, PrefixType DEF HashSimpleTypeOK
    <2>2. bucket' \in Buckets /\ turn' \in 1 .. num_threads + 1
      BY <1>2, <1>3, <1>4, <1>8 DEF Buckets
    <2> QED
      BY <1>1, <1>2, <2>1, <2>2, SameTeam DEF HashSimpleTypeOK
  <1>10. Hashed'
    BY <1>1, SameTeam DEF HashSimpleInv, Hashed
  <1>11. InChunk'
    <2> SUFFICES ASSUME NEW s \in Threads
                 PROVE  /\ next[s] \in Start(s) .. End(s) + 1
                        /\ s < turn' \/ (s = turn' /\ bucket' > 1) => next[s] > End(s)
      BY <1>1, SameTeam DEF InChunk
    <2>1. s < turn' \/ (s = turn' /\ bucket' > 1) => s < turn \/ s = turn
      BY <1>2, <1>3, <1>4, <1>8 DEF Threads, Buckets
    <2> QED
      BY <1>3, <2>1 DEF HashSimpleInv, InChunk
  <1>12. Merged'
    <2>1. turn' > num_threads => bucket' = 1
      BY <1>2, <1>3, <1>4, <1>8
    <2>2. ASSUME NEW b \in Buckets
          PROVE  result'[b] = Prefix(b, IF b < bucket' THEN End(turn') ELSE End(turn' - 1))
      <3>1. b \in Nat /\ bucket \in Nat /\ b <= BucketCount
        BY <1>2, <1>3 DEF Buckets
      <3>2. result[b] = Prefix(b, IF b < bucket THEN End(t) ELSE End(t - 1))
        BY <1>3 DEF HashSimpleInv, Merged
      <3>3. CASE bucket < BucketCount /\ bucket' = bucket + 1 /\ turn' = turn
        <4>1. b < bucket' <=> b < bucket \/ b = bucket
          BY <3>1, <3>3
        <4>2. CASE b = bucket
          BY <1>3, <1>6, <3>3, <4>1, <4>2
        <4>3. CASE b # bucket
          BY <1>3, <1>7, <3>2, <3>3, <4>1, <4>3
        <4> QED
          BY <4>2, <4>3
      <3>4. CASE bucket = BucketCount /\ bucket' = 1 /\ turn' = turn + 1
        <4>1. turn' - 1 = t /\ ~(b < bucket')
          BY <1>2, <1>3, <1>4, <3>4 DEF Buckets
        <4>2. result'[b] = Prefix(b, End(t))
          BY <1>6, <1>7, <3>1, <3>2, <3>4
        <4> QED
          BY <4>1, <4>2
      <3> QED
        BY <1>8, <3>3, <3>4
    <2> QED
      BY <1>1, <2>1, <2>2, SameTeam DEF Merged
  <1> QED
    BY <1>9, <1>10, <1>11, <1>12 DEF HashSimpleInv

\* A step that changes nothing.
LEMMA HashSimpleStutterInv ==
  ASSUME HashSimpleInv, UNCHANGED hash_simple_vars
  PROVE  HashSimpleInv'
  <1>1. UNCHANGED <<hashes, num_threads, next, thread_result, turn, bucket, result>>
    BY DEF hash_simple_vars
  <1>2. HashSimpleTypeOK'
    BY <1>1, SameTeam DEF HashSimpleInv, HashSimpleTypeOK
  <1>3. Hashed' /\ InChunk'
    BY <1>1, SameTeam DEF HashSimpleInv, Hashed, InChunk
  <1>4. Merged'
    BY <1>1, SameTeam DEF HashSimpleInv, Merged
  <1> QED
    BY <1>2, <1>3, <1>4 DEF HashSimpleInv

\* HashSimpleInv is invariant: of HashSimple, for all teams and schedules.
THEOREM HashSimpleInvariance == HashSimpleSpec => []HashSimpleInv
  <1>1. ASSUME HashSimpleInv, [HashSimpleNext]_hash_simple_vars PROVE HashSimpleInv'
    <2>1. CASE \E t \in Threads : HashInput(t)
      BY <1>1, <2>1, HashInputInv
    <2>2. CASE \E t \in Threads : AppendBucket(t)
      BY <1>1, <2>2, AppendBucketInv
    <2>3. CASE UNCHANGED hash_simple_vars
      BY <1>1, <2>3, HashSimpleStutterInv
    <2> QED
      BY <1>1, <2>1, <2>2, <2>3 DEF HashSimpleNext
  <1> QED
    BY <1>1, HashSimpleInitInv, PTL DEF HashSimpleSpec

\* The threads of HashSimple stay within the arrays.
THEOREM HashSimpleTypeCorrect == HashSimpleSpec => []HashSimpleTypeOK
  <1>1. HashSimpleInv => HashSimpleTypeOK
    BY DEF HashSimpleInv
  <1> QED
    BY <1>1, HashSimpleInvariance, PTL

\* The result of HashSimple is the one of a single thread, for every size of the
\* team and every schedule, so both ends have the same buckets.
THEOREM ResultIsSequential == HashSimpleSpec => []Deterministic
  <1>1. HashSimpleInv => Deterministic
    <2> SUFFICES ASSUME HashSimpleInv, Finished, NEW b \in Buckets
                 PROVE  result[b] = Sequential(b)
      BY DEF Deterministic
    <2>1. num_threads \in Nat \ {0} /\ turn = num_threads + 1 /\ bucket = 1 /\ NumInputs \in Nat
      BY HasherAssumption, TeamAssumption DEF HashSimpleInv, HashSimpleTypeOK, Finished, Merged
    <2>2. ~(b < bucket) /\ End(turn - 1) = NumInputs
      BY <2>1, Chunks DEF Buckets
    <2>3. result[b] = Prefix(b, NumInputs)
      BY <2>2 DEF HashSimpleInv, Merged
    <2> QED
      BY <2>3 DEF Prefix, Sequential, AllInputs
  <1> QED
    BY <1>1, HashSimpleInvariance, PTL

=============================================================================
