------------------------ MODULE DistributedVectorOLE ------------------------
(***************************************************************************)
(* Two DistributedVectorOLE<T> objects at the two ends of a comm_channel   *)
(* (src/distributed_vector_ole/distributed_vector_ole.h).  The             *)
(* applications at the two ends agree on a sequence of calls (`script');   *)
(* for each call one end is the Sender, which obtains vectors u and v, and *)
(* the other the Receiver, which obtains w and delta with u*delta + v = w. *)
(*                                                                         *)
(* A vector is a sequence of elements.  The value of an element is         *)
(* abstracted to where it comes from: <<delta, run, position>>, where      *)
(* `run' numbers the random experiment (the Gilboa product or one          *)
(* expansion) that made it.  The Sender's u_i, v_i and the Receiver's w_i  *)
(* satisfy the equation exactly if they are the same element, so "the      *)
(* outputs are correlated" becomes an equality of sequences.               *)
(*                                                                         *)
(* Between two blocking receives a party runs alone, so an action is the   *)
(* code from one receive to the next, cut where the control flow of the    *)
(* C++ functions joins (the heads of their loops).  Every send of the code *)
(* is flushed before the sender can block: Send does both.                 *)
(***************************************************************************)
EXTENDS Integers, SequencesExt

CONSTANTS
  Lo, Hi,             \* the two ends, by channel ID: get_id() of Lo is lower
  seed_size,          \* VOLEParameters::seed_size, one entry per level
  output_size,        \* VOLEParameters::output_size
  num_noise_indices,  \* VOLEParameters::num_noise_indices
  NumBuckets,         \* MPFSSKnownIndices::NumBuckets, by number of indices
  BatchSizes,         \* the sizes Precompute{Sender,Receiver} is called with
  RunSizes,           \* the sizes Run{Sender,Receiver} is called with
  MaxCalls,           \* bound: calls the applications make
  MaxGenerator,       \* the longest generator T has enough bits for
  MaxTrees,           \* the longest output SendTrees<T> has enough bits for
  MixedRoles,         \* may an object be Sender in one call, Receiver in another?
  MaxCuckooFailures,  \* bound: how often HashCuckoo finds no placement
  Retries             \* the ends whose application repeats a failed call

Levels == 1 .. Len(seed_size)
Parties == {Lo, Hi}
Peer(p) == IF p = Lo THEN Hi ELSE Lo

ASSUME PartiesAssumption == Lo # Hi
ASSUME ParametersAssumption ==
  /\ seed_size \in Seq(Nat \ {0}) /\ Len(seed_size) > 0
  /\ output_size \in Seq(Nat \ {0}) /\ Len(output_size) = Len(seed_size)
  /\ num_noise_indices \in Seq(Nat \ {0})
  /\ Len(num_noise_indices) = Len(seed_size)
  /\ NumBuckets \in [ToSet(num_noise_indices) -> Nat \ {0}]
ASSUME CallsAssumption ==
  BatchSizes \subseteq Int /\ RunSizes \subseteq Nat /\ MaxCalls \in Nat
ASSUME LimitsAssumption ==
  /\ MaxGenerator \in Nat /\ MaxTrees \in Nat /\ MaxCuckooFailures \in Nat
  /\ MixedRoles \in BOOLEAN /\ Retries \subseteq Parties

\* The last level still leaves room for one output element: batch_size_, capped
\* to what that level supports, stays positive.
ASSUME RoomAssumption ==
  \A i \in Levels :
     seed_size[i] + NumBuckets[num_noise_indices[i]]
       < output_size[Len(output_size)]

\* Levels have different sizes, and the output of a level has room for the seeds
\* of the next one (distributed_vector_ole.cpp).
ASSUME LevelsAssumption ==
  /\ \A i, j \in Levels : seed_size[i] = seed_size[j] => i = j
  /\ \A i \in Levels : i + 1 \in Levels =>
       seed_size[i + 1] + NumBuckets[num_noise_indices[i + 1]] <= output_size[i]

VARIABLES
  script,    \* the calls the applications have agreed on
  results,   \* results[p]: what the finished calls returned to p
  pc,        \* pc[p]: where p is between two actions
  loc,       \* loc[p]: arguments and locals of p's current call
  params,    \* params[p]: the members that both roles of an object share
  snd,       \* snd[p]: the sender_* members
  rcv,       \* rcv[p]: the receiver_* members
  channel,   \* channel[p]: messages sent to p and not yet received
  serial,    \* random experiments made so far (names the next one)
  spent,     \* spent[p]: history: seed elements the Sender p has used
  failures   \* how often HashCuckoo has failed

app == <<script, results>>
objects == <<params, snd, rcv>>
ghosts == <<serial, spent, failures>>
vars == <<app, pc, loc, objects, channel, ghosts>>

-----------------------------------------------------------------------------
(* Vectors.                                                                *)

Element == Nat \X Nat \X Nat

\* An element that has no counterpart at the peer: a freshly resized vector.
Unshared(len) == [i \in 1 .. len |-> <<0, 0, 0>>]

\* The vector made by random experiment `run' under `delta'.
Fresh(delta, run, len) == [i \in 1 .. len |-> <<delta, run, i>>]

\* vec.tail(n), and what conservativeResize(size - n) leaves.
TailOf(vec, n) == SubSeq(vec, Len(vec) - n + 1, Len(vec))
MutKeepTail(vec, n) == vec  \* mutant: the cache is not shortened
WithoutTail(vec, n) == SubSeq(vec, 1, Len(vec) - n)

(* Calls, and the state of an object that has made none.                   *)

Call == [op : {"Precompute"}, sender : Parties, size : BatchSizes]
          \cup [op : {"Run"}, sender : Parties, size : RunSizes]

NoCall == [op |-> "none", role |-> "none", size |-> 0, i |-> 1,
           final |-> FALSE, output |-> 0, new_vole |-> 0, new_mpfss |-> 0,
           run |-> 0, copied |-> <<>>]

Construct ==
  [batch_size |-> 0, vole_seed_size |-> 0, mpfss_seed_size |-> 0,
   num_noise |-> 0, generator |-> [rows |-> 0, cols |-> 0, id |-> 0],
   buckets |-> [size |-> 0, num |-> 0]]

NoSender == [cached |-> <<>>, vole_seed |-> <<>>, mpfss_seed |-> <<>>,
             done |-> FALSE]

NoReceiver == [cached |-> <<>>, delta |-> 0, vole_seed |-> <<>>,
               mpfss_seed |-> <<>>, mpfss_delta |-> 0, done |-> FALSE]

Init ==
  /\ script = <<>>
  /\ results = [p \in Parties |-> <<>>]
  /\ pc = [p \in Parties |-> "idle"]
  /\ loc = [p \in Parties |-> NoCall]
  /\ params = [p \in Parties |-> Construct]
  /\ snd = [p \in Parties |-> NoSender]
  /\ rcv = [p \in Parties |-> NoReceiver]
  /\ channel = [p \in Parties |-> <<>>]
  /\ serial = 0
  /\ spent = [p \in Parties |-> {}]
  /\ failures = 0

-----------------------------------------------------------------------------
(* Helpers of the actions.                                                 *)

\* comm_channel: ordered and reliable.
Send(p, msg) == channel' = [channel EXCEPT ![Peer(p)] = Append(@, msg)]

Arrived(p, kind) == channel[p] # <<>> /\ Head(channel[p]).kind = kind

\* Receive a message and send another (recv, compute, send, flush).
Reply(p, msg) ==
  channel' = [channel EXCEPT ![p] = Tail(@), ![Peer(p)] = Append(@, msg)]

Receive(p) == channel' = [channel EXCEPT ![p] = Tail(@)]

Goto(p, to) == pc' = [pc EXCEPT ![p] = to]

\* The call of p returns to the application.
Return(p, ok, elements) ==
  /\ results' = [results EXCEPT ![p] = Append(@,
                   [op |-> loc[p].op, role |-> loc[p].role, ok |-> ok,
                    elements |-> elements,
                    delta |-> IF loc[p].role = "receiver"
                              THEN rcv[p].delta ELSE 0])]
  /\ Goto(p, "idle")
  /\ loc' = [loc EXCEPT ![p] = NoCall]

\* A Status that is not OK: no vector, and the application carries on.
ReturnError(p) == Return(p, FALSE, <<>>)

IsSender(p) == loc[p].role = "sender"
Cached(p) == IF IsSender(p) THEN snd[p].cached ELSE rcv[p].cached

VoleSeed(p) == IF IsSender(p) THEN snd[p].vole_seed ELSE rcv[p].vole_seed
MpfssSeed(p) == IF IsSender(p) THEN snd[p].mpfss_seed ELSE rcv[p].mpfss_seed

\* Does the code generator of p have the shape that ExpandX expects?
DimensionsMatch(p) ==
  /\ params[p].generator.rows = Len(VoleSeed(p))
  /\ params[p].generator.cols = loc[p].output

UpdateBuckets(p, size) == [size |-> size, num |-> params[p].num_noise]

-----------------------------------------------------------------------------
(* The applications.                                                       *)

NextCall(p) == Len(results[p]) + 1

\* The next call of p: the one agreed on, or one that p is first to make.
Invoke(p, c) ==
  /\ pc[p] = "idle"
  /\ \/ /\ NextCall(p) <= Len(script)
        /\ c = script[NextCall(p)]
        /\ UNCHANGED script
     \/ /\ NextCall(p) > Len(script)
        /\ Len(script) < MaxCalls
        /\ MixedRoles \/ \A k \in 1 .. Len(script) : script[k].sender = c.sender
        /\ script' = Append(script, c)
  /\ loc' = [loc EXCEPT ![p] =
       [NoCall EXCEPT !.op = c.op, !.size = c.size,
                      !.role = IF c.sender = p THEN "sender" ELSE "receiver"]]
  /\ Goto(p, "begin")
  /\ UNCHANGED <<results, objects, channel, ghosts>>

\* An application that repeats the call that failed.
Retry(p) ==
  /\ pc[p] = "failed" /\ p \in Retries
  /\ Goto(p, "begin")
  /\ loc' = [loc EXCEPT ![p] = [NoCall EXCEPT !.op = loc[p].op,
                                  !.size = loc[p].size, !.role = loc[p].role]]
  /\ UNCHANGED <<app, objects, channel, ghosts>>

-----------------------------------------------------------------------------
(* Precomputation: Gilboa products make the first seeds, expansions the    *)
(* longer ones.                                                            *)

Done(p) == IF IsSender(p) THEN snd[p].done ELSE rcv[p].done

NeedsPrecompute(p) == loc[p].op = "Precompute" \/ ~Done(p)

\* "`batch_size` must be positive": nothing has changed yet.
MutAnyBatchSize(p) == FALSE  \* mutant: no check
BadBatchSize(p) == loc[p].size < 1

RejectBatchSize(p) ==
  /\ pc[p] = "begin" /\ NeedsPrecompute(p)
  /\ BadBatchSize(p)
  /\ ReturnError(p)
  /\ UNCHANGED <<script, objects, channel, ghosts>>

FirstSeeds(p) ==
  [params[p] EXCEPT !.batch_size = 0,
                    !.num_noise = num_noise_indices[1],
                    !.vole_seed_size = seed_size[1],
                    !.mpfss_seed_size = NumBuckets[num_noise_indices[1]]]

\* The sender's u and v are random; nothing at the peer matches them yet.
PrecomputeSender(p) ==
  /\ pc[p] = "begin" /\ IsSender(p) /\ NeedsPrecompute(p)
  /\ ~BadBatchSize(p)
  /\ LET pr == FirstSeeds(p)
     IN  /\ params' = [params EXCEPT ![p] = pr]
         /\ snd' = [snd EXCEPT ![p].cached =
                      Unshared(pr.vole_seed_size + pr.mpfss_seed_size)]
  /\ Goto(p, "gilboa")
  /\ UNCHANGED <<app, loc, rcv, channel, ghosts>>

\* delta enters the oblivious transfers, which the receiver of the bits opens.
PrecomputeReceiver(p) ==
  /\ pc[p] = "begin" /\ ~IsSender(p) /\ NeedsPrecompute(p)
  /\ ~BadBatchSize(p)
  /\ LET pr == FirstSeeds(p)
     IN  /\ params' = [params EXCEPT ![p] = pr]
         /\ rcv' = [rcv EXCEPT
              ![p].cached = Unshared(pr.vole_seed_size + pr.mpfss_seed_size),
              ![p].delta = serial + 1]
  /\ serial' = serial + 1
  /\ Send(p, [kind |-> "choices", delta |-> serial + 1])
  /\ Goto(p, "gilboa")
  /\ UNCHANGED <<app, loc, snd, spent, failures>>

\* GetSenderCached twice: the new VOLE seed from the end of the cache, then the
\* new MPFSS seed from the end of what is left.
MutKeepSeeds(s, cached, vole, mpfss) ==  \* mutant: seeds of these sizes are kept
  IF Len(s.vole_seed) = vole /\ Len(s.mpfss_seed) = mpfss
  THEN [s EXCEPT !.cached = cached]
  ELSE LET rest == WithoutTail(cached, vole)
       IN  [s EXCEPT !.vole_seed = TailOf(cached, vole),
                     !.mpfss_seed = TailOf(rest, mpfss),
                     !.cached = WithoutTail(rest, mpfss)]
SenderSeeds(s, cached, vole, mpfss) ==
  LET rest == WithoutTail(cached, vole)
  IN  [s EXCEPT !.vole_seed = TailOf(cached, vole),
                !.mpfss_seed = TailOf(rest, mpfss),
                !.cached = WithoutTail(rest, mpfss)]

MutSeedOrder(r, cached, vole, mpfss) ==  \* mutant: the MPFSS seed comes first
  LET rest == WithoutTail(cached, mpfss)
  IN  [r EXCEPT !.mpfss_seed = TailOf(cached, mpfss), !.mpfss_delta = r.delta,
                !.vole_seed = TailOf(rest, vole),
                !.cached = WithoutTail(rest, vole)]
ReceiverSeeds(r, cached, vole, mpfss) ==
  LET rest == WithoutTail(cached, vole)
  IN  [r EXCEPT !.vole_seed = TailOf(cached, vole),
                !.mpfss_seed = TailOf(rest, mpfss),
                !.mpfss_delta = r.delta,
                !.cached = WithoutTail(rest, mpfss)]

\* RunVectorProvider has the choices of the peer; u, v and the peer's w become
\* correlated under the delta behind them, and w is sent.
GilboaSender(p) ==
  /\ pc[p] = "gilboa" /\ IsSender(p) /\ Arrived(p, "choices")
  /\ LET delta == Head(channel[p]).delta
         vec == Fresh(delta, serial + 1, Len(snd[p].cached))
     IN  /\ snd' = [snd EXCEPT ![p] = SenderSeeds(@, vec,
                      params[p].vole_seed_size, params[p].mpfss_seed_size)]
         /\ Reply(p, [kind |-> "w", vec |-> vec])
  /\ serial' = serial + 1
  /\ Goto(p, "loop")
  /\ UNCHANGED <<app, loc, params, rcv, spent, failures>>

GilboaReceiver(p) ==
  /\ pc[p] = "gilboa" /\ ~IsSender(p) /\ Arrived(p, "w")
  /\ rcv' = [rcv EXCEPT ![p] = ReceiverSeeds(@, Head(channel[p]).vec,
               params[p].vole_seed_size, params[p].mpfss_seed_size)]
  /\ Receive(p)
  /\ Goto(p, "loop")
  /\ UNCHANGED <<app, loc, params, snd, ghosts>>

\* The seeds of p's current level, and the output they leave room for.
SeedsLength(p) == params[p].mpfss_seed_size + params[p].vole_seed_size

\* Is the output of the current level long enough for the batch size?
MutStrictReceiver(p) ==  \* mutant: the two ends' comparisons differ
  LET needed == loc[p].size + SeedsLength(p)
  IN  IF IsSender(p) THEN output_size[loc[p].i] >= needed
                     ELSE output_size[loc[p].i] > needed
LevelSuffices(p) == output_size[loc[p].i] >= loc[p].size + SeedsLength(p)

\* The batch size asked for, capped to the largest output supported.
MutUncapped(p) == loc[p].size  \* mutant: no cap
BatchSize(p) == Min({loc[p].size, output_size[Len(output_size)] - SeedsLength(p)})

\* PrecomputeCommon up to the exchange of the seed: MPFSS buckets are computed
\* and the code generator resized, which leaves it without entries (id 0).
ResizeGenerator(p, pr, output) ==
  params' = [params EXCEPT ![p] =
    [pr EXCEPT !.buckets = UpdateBuckets(p, output),
               !.generator = [rows |-> pr.vole_seed_size, cols |-> output,
                              id |-> 0]]]

\* The loop body: prepare the expansion to the seeds of the next level.
Bootstrap(p) ==
  /\ pc[p] = "loop" /\ loc[p].i < Len(seed_size) /\ ~LevelSuffices(p)
  /\ LET next_vole == seed_size[loc[p].i + 1]
         next_mpfss == NumBuckets[num_noise_indices[loc[p].i + 1]]
     IN  /\ loc' = [loc EXCEPT ![p].output = next_vole + next_mpfss,
                               ![p].new_vole = next_vole,
                               ![p].new_mpfss = next_mpfss]
         /\ ResizeGenerator(p, params[p], next_vole + next_mpfss)
  /\ Goto(p, "seed")
  /\ UNCHANGED <<app, snd, rcv, channel, ghosts>>

\* The loop has ended: set the batch size, and prepare the generator for it.
ChooseBatchSize(p) ==
  /\ pc[p] = "loop" /\ (loc[p].i = Len(seed_size) \/ LevelSuffices(p))
  /\ LET output == BatchSize(p) + SeedsLength(p)
     IN  /\ loc' = [loc EXCEPT ![p].final = TRUE, ![p].output = output]
         /\ ResizeGenerator(p, [params[p] EXCEPT !.batch_size = BatchSize(p)], output)
  /\ Goto(p, "seed")
  /\ UNCHANGED <<app, snd, rcv, channel, ghosts>>

MutReceiverNeverDone(p) ==  \* mutant: the Receiver's flag is not set
  IF IsSender(p) THEN snd' = [snd EXCEPT ![p].done = TRUE] /\ UNCHANGED rcv
                 ELSE UNCHANGED <<snd, rcv>>
SetDone(p) ==
  IF IsSender(p) THEN snd' = [snd EXCEPT ![p].done = TRUE] /\ UNCHANGED rcv
                 ELSE rcv' = [rcv EXCEPT ![p].done = TRUE] /\ UNCHANGED snd

\* PrecomputeCommon returns: to the loop, to the application, or to RunX.
GeneratorReady(p) ==
  \/ ~loc[p].final /\ Goto(p, "expand") /\ UNCHANGED <<results, loc, snd, rcv>>
  \/ /\ loc[p].final /\ loc[p].op = "Precompute"
     /\ SetDone(p) /\ Return(p, TRUE, <<>>)
  \/ /\ loc[p].final /\ loc[p].op = "Run"
     /\ SetDone(p) /\ Goto(p, "fetch") /\ UNCHANGED <<results, loc>>

\* PrecomputeCommon from the generator's seed on: check that T has enough bits
\* for the matrix ("Cannot sample enough random elements") and fill it.
FillGenerator(p, id) ==
  \/ /\ loc[p].output > MaxGenerator
     /\ ReturnError(p) /\ UNCHANGED objects
  \/ /\ loc[p].output <= MaxGenerator
     /\ params' = [params EXCEPT ![p].generator.id = id]
     /\ GeneratorReady(p)

\* The lower ID draws the seed and sends it ...
SendSeed(p) ==
  /\ pc[p] = "seed" /\ p = Lo
  /\ serial' = serial + 1
  /\ Send(p, [kind |-> "seed", id |-> serial + 1])
  /\ FillGenerator(p, serial + 1)
  /\ UNCHANGED <<script, spent, failures>>

\* ... and the higher ID waits for it.
ReceiveSeed(p) ==
  /\ pc[p] = "seed" /\ p = Hi /\ Arrived(p, "seed")
  /\ Receive(p)
  /\ FillGenerator(p, Head(channel[p]).id)
  /\ UNCHANGED <<script, ghosts>>

-----------------------------------------------------------------------------
(* Expansion: VOLE seeds times the code generator, plus the MPFSS shares.  *)

\* The sizes of the new seeds, and in PrecomputeX the noise of the next level.
MutStaleVoleSize(p) ==  \* mutant: vole_seed_size_ is not updated
  [params[p] EXCEPT
     !.mpfss_seed_size = loc[p].new_mpfss,
     !.num_noise = IF loc[p].final THEN @ ELSE num_noise_indices[loc[p].i + 1]]
MutStaleNoise(p) ==  \* mutant: num_noise_indices_ is not updated
  [params[p] EXCEPT !.vole_seed_size = loc[p].new_vole,
                    !.mpfss_seed_size = loc[p].new_mpfss]
NextParams(p) ==
  [params[p] EXCEPT
     !.vole_seed_size = loc[p].new_vole,
     !.mpfss_seed_size = loc[p].new_mpfss,
     !.num_noise = IF loc[p].final THEN @ ELSE num_noise_indices[loc[p].i + 1]]

\* What follows an expansion: RunX's loop, or PrecomputeX's with the next level.
AfterExpand(p) ==
  /\ params' = [params EXCEPT ![p] = NextParams(p)]
  /\ \/ loc[p].final /\ Goto(p, "copy") /\ UNCHANGED loc
     \/ ~loc[p].final /\ Goto(p, "loop") /\ loc' = [loc EXCEPT ![p].i = @ + 1]

\* "Code generator has the wrong dimensions".
ExpandWrongDimensions(p) ==
  /\ pc[p] = "expand"
  /\ ~DimensionsMatch(p)
  /\ ReturnError(p)
  /\ UNCHANGED <<script, objects, channel, ghosts>>

\* RunIndexProviderVectorOLE fails before it has sent anything: HashCuckoo found
\* no placement for the noise indices.
ExpandSenderFails(p) ==
  /\ pc[p] = "expand" /\ IsSender(p) /\ DimensionsMatch(p)
  /\ failures < MaxCuckooFailures
  /\ failures' = failures + 1
  /\ params' = [params EXCEPT ![p].buckets = UpdateBuckets(p, loc[p].output)]
  /\ Goto(p, "failed")
  /\ UNCHANGED <<app, loc, snd, rcv, channel, serial, spent>>

\* Sample the noise, mask its values with the MPFSS seed and send them.  The
\* message carries what the Receiver's result depends on.
ExpandSender(p) ==
  /\ pc[p] = "expand" /\ IsSender(p) /\ DimensionsMatch(p)
  /\ LET buckets == UpdateBuckets(p, loc[p].output)
     IN  /\ params' = [params EXCEPT ![p].buckets = buckets]
         /\ Send(p, [kind |-> "masked", run |-> serial + 1,
                     vole_seed |-> snd[p].vole_seed,
                     mpfss_seed |-> snd[p].mpfss_seed,
                     generator |-> params[p].generator.id,
                     buckets |-> buckets])
  /\ serial' = serial + 1
  /\ loc' = [loc EXCEPT ![p].run = serial + 1]
  /\ spent' = [spent EXCEPT ![p] =
       @ \cup ToSet(snd[p].vole_seed) \cup ToSet(snd[p].mpfss_seed)]
  /\ Goto(p, "sums")
  /\ UNCHANGED <<app, snd, rcv, failures>>

\* The cache is resized before the MPFSS protocol runs.
ExpandReceiver(p) ==
  /\ pc[p] = "expand" /\ ~IsSender(p) /\ DimensionsMatch(p)
  /\ rcv' = [rcv EXCEPT ![p].cached = @ \o Unshared(loc[p].output)]
  /\ params' = [params EXCEPT ![p].buckets = UpdateBuckets(p, loc[p].output)]
  /\ Goto(p, "masked")
  /\ UNCHANGED <<app, loc, snd, channel, ghosts>>

\* Does w of the Receiver match the u and v that the Sender makes from msg?
Matches(p, msg) ==
  /\ msg.vole_seed = rcv[p].vole_seed
  /\ msg.mpfss_seed = rcv[p].mpfss_seed
  /\ msg.generator = params[p].generator.id
  /\ msg.buckets = params[p].buckets
  /\ \A e \in ToSet(rcv[p].vole_seed) : e[1] = rcv[p].mpfss_delta

\* RunValueProviderVectorOLE gets the masked values but SendTrees reports that T
\* has too few bits for so many leaves: the resized cache keeps its new tail.
ExpandReceiverFails(p) ==
  /\ pc[p] = "masked" /\ Arrived(p, "masked")
  /\ loc[p].output > MaxTrees
  /\ Receive(p)
  /\ Goto(p, "failed")
  /\ UNCHANGED <<app, loc, objects, ghosts>>

\* RunValueProviderVectorOLE: trees by oblivious transfer, and the sums.
ExpandReceiverDone(p) ==
  /\ pc[p] = "masked" /\ Arrived(p, "masked")
  /\ loc[p].output <= MaxTrees
  /\ LET msg == Head(channel[p])
         made == IF Matches(p, msg)
                 THEN Fresh(rcv[p].mpfss_delta, msg.run, loc[p].output)
                 ELSE Unshared(loc[p].output)
         cached == WithoutTail(rcv[p].cached, loc[p].output) \o made
     IN  /\ rcv' = [rcv EXCEPT ![p] = ReceiverSeeds(@, cached,
                      loc[p].new_vole, loc[p].new_mpfss)]
         /\ Reply(p, [kind |-> "sums", run |-> msg.run])
  /\ AfterExpand(p)
  /\ UNCHANGED <<app, snd, ghosts>>

\* RunIndexProviderVectorOLE has its shares: append the expansion to the cache
\* and take the next seeds from its end.
ExpandSenderDone(p) ==
  /\ pc[p] = "sums" /\ Arrived(p, "sums")
  /\ LET made == IF Head(channel[p]).run = loc[p].run
                 THEN Fresh(snd[p].vole_seed[1][1], loc[p].run, loc[p].output)
                 ELSE Unshared(loc[p].output)
     IN  snd' = [snd EXCEPT ![p] = SenderSeeds(@, @.cached \o made,
                   loc[p].new_vole, loc[p].new_mpfss)]
  /\ Receive(p)
  /\ AfterExpand(p)
  /\ UNCHANGED <<app, rcv, ghosts>>

-----------------------------------------------------------------------------
(* RunSender and RunReceiver after the precomputation.                     *)

UsePrecomputed(p) ==
  /\ pc[p] = "begin" /\ ~NeedsPrecompute(p)
  /\ Goto(p, "fetch")
  /\ UNCHANGED <<app, loc, objects, channel, ghosts>>

SetCached(p, vec) ==
  IF IsSender(p)
  THEN snd' = [snd EXCEPT ![p].cached = vec] /\ UNCHANGED rcv
  ELSE rcv' = [rcv EXCEPT ![p].cached = vec] /\ UNCHANGED snd

\* Get{Sender,Receiver}Cached succeeds: the result is the tail of the cache.
FetchCached(p) ==
  /\ pc[p] = "fetch" /\ Len(Cached(p)) >= loc[p].size
  /\ SetCached(p, WithoutTail(Cached(p), loc[p].size))
  /\ Return(p, TRUE, TailOf(Cached(p), loc[p].size))
  /\ UNCHANGED <<script, params, channel, ghosts>>

FetchOutOfRange(p) ==
  /\ pc[p] = "fetch" /\ Len(Cached(p)) < loc[p].size
  /\ Goto(p, "copy")
  /\ UNCHANGED <<app, loc, objects, channel, ghosts>>

\* Copy the whole cache behind what has been copied; if that is not enough,
\* expand with the current sizes.
MutPrepend(p) ==  \* mutant: one end copies the expansions in the other order
  IF IsSender(p) THEN loc[p].copied \o Cached(p) ELSE Cached(p) \o loc[p].copied
CopiedAndCached(p) == loc[p].copied \o Cached(p)

CopyWholeCache(p) ==
  /\ pc[p] = "copy" /\ Len(CopiedAndCached(p)) <= loc[p].size
  /\ SetCached(p, <<>>)
  /\ \/ /\ Len(CopiedAndCached(p)) = loc[p].size
        /\ Return(p, TRUE, CopiedAndCached(p))
     \/ /\ Len(CopiedAndCached(p)) < loc[p].size
        /\ loc' = [loc EXCEPT ![p].copied = CopiedAndCached(p),
                              ![p].final = TRUE,
                              ![p].output = params[p].batch_size + SeedsLength(p),
                              ![p].new_vole = params[p].vole_seed_size,
                              ![p].new_mpfss = params[p].mpfss_seed_size]
        /\ Goto(p, "expand") /\ UNCHANGED results
  /\ UNCHANGED <<script, params, channel, ghosts>>

\* The cache has more than is missing: take the rest from its end.
CopyRemaining(p) ==
  LET remaining == loc[p].size - Len(loc[p].copied)
  IN  /\ pc[p] = "copy" /\ Len(Cached(p)) > remaining
      /\ SetCached(p, WithoutTail(Cached(p), remaining))
      /\ Return(p, TRUE, loc[p].copied \o TailOf(Cached(p), remaining))
      /\ UNCHANGED <<script, params, channel, ghosts>>

-----------------------------------------------------------------------------
(* The step of a call that p is in: none of these is the application's.    *)
Step(p) ==
  \/ RejectBatchSize(p) \/ PrecomputeSender(p) \/ PrecomputeReceiver(p)
  \/ GilboaSender(p) \/ GilboaReceiver(p)
  \/ Bootstrap(p) \/ ChooseBatchSize(p) \/ SendSeed(p) \/ ReceiveSeed(p)
  \/ ExpandWrongDimensions(p) \/ ExpandSenderFails(p) \/ ExpandSender(p)
  \/ ExpandReceiver(p) \/ ExpandReceiverFails(p) \/ ExpandReceiverDone(p)
  \/ ExpandSenderDone(p)
  \/ UsePrecomputed(p) \/ FetchCached(p) \/ FetchOutOfRange(p)
  \/ CopyWholeCache(p) \/ CopyRemaining(p)

Next ==
  \/ \E p \in Parties, c \in Call : Invoke(p, c)
  \/ \E p \in Parties : Retry(p) \/ Step(p)

Spec == Init /\ [][Next]_vars

\* A thread that can run does, and the application at an end makes the calls
\* the two ends agreed on; nobody has to agree on a further call.
JoinCall(p) ==
  NextCall(p) <= Len(script) /\ \E c \in Call : Invoke(p, c)

FairSpec == Spec /\ \A p \in Parties : WF_vars(Step(p)) /\ WF_vars(JoinCall(p))

-----------------------------------------------------------------------------
(* Types.                                                                  *)

Vector == Seq(Element)

Result == [op : {"Precompute", "Run"}, role : {"sender", "receiver"},
           ok : BOOLEAN, elements : Vector, delta : Nat]

Message == [kind : {"choices"}, delta : Nat]
             \cup [kind : {"w"}, vec : Vector]
             \cup [kind : {"seed"}, id : Nat]
             \cup [kind : {"masked"}, run : Nat, vole_seed : Vector,
                   mpfss_seed : Vector, generator : Nat,
                   buckets : [size : Nat, num : Nat]]
             \cup [kind : {"sums"}, run : Nat]

Locals == [op : {"none", "Precompute", "Run"},
           role : {"none", "sender", "receiver"}, size : Int, i : Levels,
           final : BOOLEAN, output : Nat, new_vole : Nat, new_mpfss : Nat,
           run : Nat, copied : Vector]

Params == [batch_size : Nat, vole_seed_size : Nat, mpfss_seed_size : Nat,
           num_noise : Nat, generator : [rows : Nat, cols : Nat, id : Nat],
           buckets : [size : Nat, num : Nat]]

SenderState == [cached : Vector, vole_seed : Vector, mpfss_seed : Vector,
                done : BOOLEAN]

ReceiverState == [cached : Vector, delta : Nat, vole_seed : Vector,
                  mpfss_seed : Vector, mpfss_delta : Nat, done : BOOLEAN]

Working == {"begin", "gilboa", "loop", "seed", "expand", "masked", "sums",
            "fetch", "copy"}

TypeOK ==
  /\ script \in Seq(Call)
  /\ results \in [Parties -> Seq(Result)]
  /\ pc \in [Parties -> Working \cup {"idle", "failed"}]
  /\ loc \in [Parties -> Locals]
  /\ \A p \in Parties : pc[p] # "idle" => loc[p].op # "none" /\ loc[p].role # "none"
  /\ params \in [Parties -> Params]
  /\ snd \in [Parties -> SenderState]
  /\ rcv \in [Parties -> ReceiverState]
  /\ channel \in [Parties -> Seq(Message)]
  /\ serial \in Nat
  /\ spent \in [Parties -> SUBSET Element]
  /\ failures \in Nat

=============================================================================
