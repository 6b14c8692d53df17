---------------------------- MODULE OLEProperties ----------------------------
(***************************************************************************)
(* What is checked of DistributedVectorOLE: safety of each object and of   *)
(* the two ends together, progress, and the refinement of VectorOLE.       *)
(***************************************************************************)
EXTENDS DistributedVectorOLE

-----------------------------------------------------------------------------
(* Safety.                                                                 *)

\* RunSender and RunReceiver return vectors of the length asked for, with
\* u*delta + v = w for the delta that the Receiver's result carries
\* (distributed_vector_ole.h:84-92).
Correlated ==
  \A k \in 1 .. Min({Len(results[Lo]), Len(results[Hi])}) :
    LET r == results[Lo][k]
        s == results[Hi][k]
        delta == IF r.role = "receiver" THEN r.delta ELSE s.delta
    IN  r.ok /\ s.ok /\ r.op = "Run" =>
          /\ Len(r.elements) = script[k].size
          /\ r.elements = s.elements
          /\ \A e \in ToSet(r.elements) : e[1] = delta

\* Elements that have a counterpart at the peer.
Shared(vec) == {e \in ToSet(vec) : e[2] # 0}
NoRepeats(vec) ==
  \A i, j \in DOMAIN vec : vec[i] = vec[j] /\ vec[i][2] # 0 => i = j

\* Every vector of an end, in both of its roles: what it has returned, has copied
\* for the current call, has cached, and keeps back as seeds.
Holdings(p) ==
  [k \in DOMAIN results[p] |-> results[p][k].elements]
    \o <<loc[p].copied, snd[p].cached, snd[p].vole_seed, snd[p].mpfss_seed,
         rcv[p].cached, rcv[p].vole_seed, rcv[p].mpfss_seed>>

\* An element is in one place only: returned to the application once, or still
\* in the cache, or kept back as part of one seed.
NoReuse ==
  \A p \in Parties :
    LET held == Holdings(p)
    IN  \A a \in DOMAIN held :
          /\ NoRepeats(held[a])
          /\ \A b \in DOMAIN held \ {a} : Shared(held[a]) \cap Shared(held[b]) = {}

\* What an expansion has used as its seeds is never an output (the masked
\* values sent to the peer are as good as public once u is known).
SeedsNotReturned ==
  \A p \in Parties : \A k \in DOMAIN results[p] :
    results[p][k].role = "sender" =>
      ToSet(results[p][k].elements) \cap spent[p] = {}

\* A seed masks the values of one expansion: whenever an expansion starts to send
\* (distributed_vector_ole.h:447), no element of its two seeds is one that an
\* earlier expansion of that end has used, after any failure and any repeated call.
SeedsSpentOnce ==
  [][\A p \in Parties : pc[p] = "expand" /\ pc'[p] = "sums" =>
       (ToSet(snd[p].vole_seed) \cup ToSet(snd[p].mpfss_seed)) \cap spent[p] = {}]_vars

\* While no call of p has failed and its object has had one role only, "Code
\* generator has the wrong dimensions" is not the outcome of a call
\* (distributed_vector_ole.h:427-432): the sizes kept by the last expansion or
\* precomputation are those that the next expansion finds.
Undisturbed(p) ==
  /\ \A k \in DOMAIN results[p] : results[p][k].ok
  /\ \A j, k \in 1 .. Min({NextCall(p), Len(script)}) : script[j].sender = script[k].sender

DimensionsAgree ==
  \A p \in Parties : pc[p] = "expand" /\ Undisturbed(p) => DimensionsMatch(p)

\* Every expansion that gets past the dimension check has the seeds of one level
\* with its number of noise indices, and is no longer than that level supports
\* ("Maximum VOLE size", "at most output_size[i]", distributed_vector_ole.h:37-42,
\* and the comments at 267 and 287).  MPFSS reads as many elements of its seed as
\* it has buckets, unchecked (mpfss_known_indices.h:95, 102-103).
ExpansionFits ==
  \A p \in Parties : pc[p] = "expand" /\ DimensionsMatch(p) =>
    \E i \in Levels : /\ num_noise_indices[i] = params[p].num_noise
                      /\ Len(VoleSeed(p)) = seed_size[i]
                      /\ Len(MpfssSeed(p)) = NumBuckets[num_noise_indices[i]]
                      /\ loc[p].output <= output_size[i]

\* The Sender's "two pseudorandom vectors" (distributed_vector_ole.h:84) are
\* expanded with a code generator that has been filled.
GeneratorFilled ==
  \A p \in Parties : pc[p] \in {"masked", "sums"} => params[p].generator.id # 0

-----------------------------------------------------------------------------
(* The two ends together.                                                  *)

\* The kind of message that p is blocked on.
Awaited(p) ==
  CASE pc[p] = "gilboa" -> IF IsSender(p) THEN {"choices"} ELSE {"w"}
    [] pc[p] = "seed" -> IF p = Hi THEN {"seed"} ELSE {}
    [] pc[p] \in {"masked", "sums"} -> {pc[p]}
    [] OTHER -> {}

\* recv does not look at what it receives: the message at the head of the
\* channel is always of the kind that the receiving code expects.
ProtocolOrder ==
  \A p \in Parties : channel[p] # <<>> =>
    \A kind \in Awaited(p) : Head(channel[p]).kind = kind

Waits(p) == Awaited(p) # {} /\ channel[p] = <<>>

CanMove(p) == \/ pc[p] \in Working /\ ~Waits(p)
              \/ pc[p] = "idle" /\ NextCall(p) <= Len(script)

\* A blocked receive is never the end: the peer has work to do, unless the call
\* of the peer has failed without a word to this end.
NoStall ==
  \A p \in Parties : Waits(p) => CanMove(Peer(p)) \/ pc[Peer(p)] = "failed"

\* Both ends finish every call that one of them makes, unless the call of an end
\* has failed inside a protocol: only then may the other one be left waiting.
CallsFinishOrFail ==
  \A p \in Parties, k \in 1 .. MaxCalls :
    k <= Len(script) ~> \/ Len(results[p]) >= k
                        \/ pc[p] = "failed" \/ pc[Peer(p)] = "failed"

\* The two objects are a source of correlated randomness.
Ideal == INSTANCE VectorOLE WITH Ends <- Parties
IdealSpec == Ideal!Spec

=============================================================================
