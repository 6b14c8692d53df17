# Verification of distributed-vector-ole

TLA+ models of the two-party generator for Vector-OLE correlations in
`src/distributed_vector_ole/`, configurations that model-check them with TLC,
and theorems about them that TLAPS checks. `PROJECT.json` lists the runs, the
mutant that each property was tried against, the source lines of every
definition, the hazards and the findings.

## 1. The system

Two processes, connected by a `comm_channel`, hold one `DistributedVectorOLE<T>`
object each. Per call, one end is the *Sender* and obtains vectors u and v, the
other the *Receiver* and obtains w and delta, with u*delta + v = w.

| Component | State | Operations | Uses |
|---|---|---|---|
| `DistributedVectorOLE` | caches and two seeds for each role, "precomputation done" flags; sizes, noise parameter and code generator, shared by the roles | `PrecomputeSender/Receiver`, `RunSender/Receiver` | Gilboa, MPFSS, AES generator, channel |
| `MPFSSKnownIndices` | bucket cache and the sizes it is for | `UpdateBuckets`, `Run{Value,Index}ProviderVectorOLE` | CuckooHasher, SPFSS, channel |
| `SPFSSKnownIndex` | none between calls | `Run{Value,Index}ProviderBatched` | AllButOneRandomOT, channel |
| `AllButOneRandomOT` | none between calls | `SendTrees`, `ReceiveTrees` | GGMTree, emp-ot, EMP adapter |
| `GGMTree` | levels of blocks | `Create`, `CreateFromSiblingWiseXOR`, `GetSiblingWiseXOR` | AES |
| `CuckooHasher` | AES key | `HashSimple` (an OpenMP team), `HashCuckoo` | AES |
| `ScalarVectorGilboaProduct` | none between calls | `Run{Vector,Value}Provider` | emp-ot |
| `AESUniformBitGenerator` | key, nonce, buffer | `seed`, `operator()` | AES |
| scalars, NTL contexts, GF(2^128) | thread-local moduli | conversions and arithmetic | NTL |
| experiments program | channel, thread count and moduli of one experiment at a time | `main`, `RunExperiment` | all `Create` functions, `RunSender/Receiver`, Gilboa |

How they interact: a precomputation makes short seeds with a Gilboa product,
which it expands level by level into longer ones; a run returns elements from
the cache and expands again when the cache runs out. One expansion multiplies
the VOLE seed by a random sparse matrix that both ends derive from an exchanged
seed, and adds sparse noise, whose product with delta the two ends share through
MPFSS. MPFSS hashes the positions into buckets (`HashSimple` at both ends) and
the noise positions into buckets of their own (`HashCuckoo` at the Sender); each
bucket is one single-point sharing, made from a GGM tree that the Receiver sends
by oblivious transfer except for one path.

What is hard here:

* **Implicit agreement.** Messages have no type. Both ends decide by
  themselves, in code written twice, how many levels to expand, how long each
  vector is, which elements become seeds, how many OTs to run.
* **Elements are consumed silently.** One end that drops or reuses an element
  makes everything after it wrong, without an error.
* **State shared by the roles** of an object, and left behind by failed calls.
* **One-sided failures.** An end that fails returns; its peer stays in `recv`.
* **Threads** that merge results in `HashSimple`, rebuild trees in parallel, and
  have NTL moduli of their own.
* **Random words that both ends must draw alike**, from one exchanged seed, with
  words rejected and positions hit twice.
* **Packing** of several elements into one block of an oblivious transfer.
* **Boundaries**: early exit, caps, incomplete trees, empty outputs, indices.

`PROJECT.json` lists 40 hazards at their lines, with the properties that cover
them or the reason why none does.

## 2. The modules

| Module | Models | Checked by | Proved in |
|---|---|---|---|
| `DistributedVectorOLE` | two objects, their channel and applications | `MC_OLE` | `DistributedVectorOLEProofs` |
| `OLEProperties` | its properties | | `DistributedVectorOLEProofs`, `OLEAgreementProofs` |
| `VectorOLE` | abstract: a source of correlated randomness | as `IdealSpec` | `OLEAgreementProofs` |
| `Hasher` | the hash functions, which the next two share | | |
| `CuckooHasher` | `HashCuckoo` | itself | `MPFSSKnownIndicesProofs` |
| `SimpleHashing` | `HashSimple` | itself | `MPFSSKnownIndicesProofs` |
| `GGMTree` | operators on trees | through the next | `SPFSSKnownIndexProofs` |
| `SPFSSKnownIndex` | both ends of SPFSS with all-but-one OT | `MC_SPFSS` | `SPFSSKnownIndexProofs` |
| `MPFSSKnownIndices` | both ends of the Vector-OLE variant | `MC_MPFSS` | `MPFSSKnownIndicesProofs` |
| `GF128` | operators: the field, in both builds | through the next | `ScalarVectorGilboaProductProofs` |
| `Scalars` | operators: the types T, as `ScalarHelper<T>` sees them | through the next | `ScalarVectorGilboaProductProofs`, `CodeGeneratorProofs` |
| `ScalarVectorGilboaProduct` | both ends of the Gilboa product | `MC_Gilboa` | `ScalarVectorGilboaProductProofs` |
| `AESUniformBitGenerator` | operators on a generator record | through the next | `CodeGeneratorProofs` |
| `CodeGenerator` | both ends filling the code generator, and the Sender's indices | `MC_CodeGenerator` | `CodeGeneratorProofs` |
| `Experiments` | two processes of the experiments program, and all `Create` functions | `MC_Experiments` | `ExperimentsProofs` |

`FoldProofs` has the lemmas about folds, sums, powers of two and residues that the proofs of
all components but the first share.

The layers are joined by what each promises: `MPFSSKnownIndices` takes the result
of `HashSimple` from `SimpleHashing!Deterministic`, that of `HashCuckoo` from
`CuckooHasher!ResultComplete` and `PlacedByHash`, and the single-point sharings
from `SPFSSKnownIndex!SharesPoint`; `DistributedVectorOLE` takes the product that
an expansion needs from `MPFSSKnownIndices!SharesProduct`, including what that
needs of its callers: equal buckets (`Matches`) and a seed of the right size
(`ExpansionFits`).
Its joint Gilboa product is what `ScalarVectorGilboaProduct!SharesProduct` promises,
and the identity of a filled generator, the same at both ends, is what
`CodeGenerator!GeneratorsAgree` promises. Each `RunVOLE` of `Experiments` is one
`RunSender` and one `RunReceiver` of the core.

### DistributedVectorOLE

An action is the code from one blocking `recv` to the next, cut at the heads of
the loops; `pc[p]` says where end p is:

| `pc` | code position | actions |
|---|---|---|
| idle | no call | `Invoke` |
| begin | entry of a public function | `RejectBatchSize`, `PrecomputeSender`, `PrecomputeReceiver`, `UsePrecomputed` |
| gilboa | in the Gilboa product (255, 316-317) | `GilboaSender`, `GilboaReceiver` |
| loop | head of the loop over levels (263, 324) | `Bootstrap`, `ChooseBatchSize` |
| seed | `PrecomputeCommon` after the resize (371) | `SendSeed`, `ReceiveSeed` |
| expand | entry of `ExpandX` | `ExpandWrongDimensions`, `ExpandSender`, `ExpandSenderFails`, `ExpandReceiver` |
| masked, sums | in MPFSS (447, 489) | `ExpandReceiverDone`, `ExpandReceiverFails`, `ExpandSenderDone` |
| fetch | `GetXCached` at the start of a run (545-551) | `FetchCached`, `FetchOutOfRange` |
| copy | head of the copying loop (559) | `CopyWholeCache`, `CopyRemaining` |
| failed | an expansion failed at this end only | `Retry` |

`params`, `snd` and `rcv` are the members of an object, named as in the code
without the role's prefix and the final underscore.

Abstractions, all of data:

* The value of a vector element is `<<delta, run, position>>`, where `run` numbers
  the random experiment that made it. The Sender's u_i, v_i and the Receiver's
  w_i are correlated exactly if they are the same element: an expansion gives
  both ends the same elements only if both used matching seeds, generators and
  buckets (`Matches`). An element made by one end alone is `<<0, 0, 0>>`.
* The code generator is its dimensions and the identity of the seed it was
  filled from, 0 for a resized one that has no entries.
* MPFSS is two messages, the Gilboa product another two: those at which an end
  blocks. Their inner exchanges are in the modules below.
* The channel is ordered and reliable (TCP), and `flush` is part of `Send`: the
  code flushes before it can block.
* The applications agree on the calls (`script`), which the protocol requires of
  them. An application whose call failed at its end alone may repeat it.

History variables: `serial` (experiments so far), `spent` (seed elements used),
`failures`, `results`.

### VectorOLE

The end that finishes a call first gets elements that nobody has seen, or an
error; the other end gets the same; a Receiver's elements carry the delta that
it holds until its next precomputation. The refinement mapping is the identity
on `results`; all else is hidden.

### CuckooHasher, SimpleHashing

`HashCuckoo` with one action for each branch of the inner loop; the hash values
are any function. `HashSimple` with a team of threads: each hashes its static
chunk, goes on without a barrier (`nowait`), and appends in the `ordered` loop.
The definitions carry the names of the two operations (`HashCuckooNext`,
`HashSimpleNext`), and the hash functions are in `Hasher`, so that one module can
reason about both and about the protocol that uses them.

### GGMTree, SPFSSKnownIndex

A block is the XOR of symbolic pseudorandom terms, written as a set, so two
blocks are equal only if they are for every key. Trees of any arity are
operators; the code uses arity 2. `SPFSSKnownIndex` has one action from one
blocking point to the next, a joint action for the oblivious transfer (external),
and one action for each level that a thread of the parallel loop rebuilds.
Scalars are numbers modulo a small prime, and the conversion of leaves to
scalars is a parameter.

Each end computes the number of levels for itself, as 1 + ceil(log(n) / log(2)) in
floating point (`ggm_tree.cpp:42-43`, `all_but_one_random_ot.cpp:78`), and never tells
the other. Rounding can add a level where n is a power of two (with IEEE doubles first
at 2^29). So `above[role]` has, for each end, the sizes that get a level too many in its
arithmetic, and `Roundings` the pairs that may meet. The trees and shares are
right also with a level too many, as long as both ends have it; `Alike` says so and is the
hypothesis of `TreesAgree`, `SharesPoint` and `BothFinish`. With different counts the numbers of
transfers may differ, and then the joint transfer does not happen: what emp does
then is not modelled. `OTsAgree` also says what is still in step in such a batch: all
trees up to the first on which the two ends differ.

### MPFSSKnownIndices

Both ends over several calls, with the bucket cache; applications may call
`UpdateBuckets` between the calls. Range checks are those of the code, with its
`>`. The range check of `RunReceiverBatched` on positions is `RefusePosition`.

### GF128, Scalars, ScalarVectorGilboaProduct

An `absl::uint128`, an `emp::block` and an element of GF(2^128) are sets of bits, so
that shifts, halves and carry-less products are set expressions; integers and
residues are numbers. The width of a block, its halves, the field's polynomial
and the bits of a byte are parameters. `GF128` has both the multiplication with
64-bit halves (`Mul`) and the portable one (`MulSlow`), which no build has at once.
`ScalarVectorGilboaProduct` has one action for each end's preparation, the joint
transfers, and each end's sums; `CanBeHashedInto` is translated without its
logarithms, and decides between the two kinds of transfers. What the random
blocks are is a parameter, so the sums are checked for each of them.

### AESUniformBitGenerator, CodeGenerator

A word of the generator is named by the nonce whose encryption it comes from, and
what AES makes of it is a parameter. The operators `Ready`, `Throws`, `Result`, `Next`
are the parts of `operator()`. `CodeGenerator` gives each end one action for each
iteration of its three loops. `std::uniform_int_distribution` is modelled as the
usual rejection of a last, incomplete range. Which of the two calls in
`MakeUint128(rng(), rng())` comes first is chosen for each build.

### Experiments

Each `Create` is the sequence of steps that it and the objects it creates take:
`sync`, a connection for emp, the seed of the hasher, and, first of all, the
moduli of the threads. Any connection or protocol may fail at either end or both; a
process goes on with the next experiment, as `main` does. What a socket does
when the peer is gone is left open (`LosePeer`, without fairness).

## 3. The runs

| Run | Question | Bounds | States |
|---|---|---|---|
| `calls` | Are the outputs correlated, whatever roles the objects take and whatever fails, and does every call finish? | 3 calls, all role sequences, one cuckoo failure, T too small for the longest output | 77 419 |
| `retry` | What if a failed call is repeated? | 3 calls, two failures | 147 267 |
| `cuckoo` | Is nothing lost, and does it end? | 0 to 5 inputs, 4 buckets, 2 functions, all hash values | 628 665 |
| `simple_hashing` | Is the result that of one thread? | 4 inputs, 2 buckets, 2 functions, 1 to 3 threads | 14 336 |
| `spfss` | Do the trees agree and the shares add up? | two outputs of 0 to 5 leaves or one of 6 to 9, indices -1 to 9; a level too many for 4 and 8, or 2, at both ends, one or none | 26 233 |
| `mpfss` | Do the shares make x*y at the indices? | 2 calls, outputs of 2 or 3, up to 2 indices, 5 hash tables | 120 065 |
| `gilboa` | Do the shares add up, and are hash values uniform enough? | blocks of 16 bits, 17 types of 1 to 9 bytes, 0 to 17 elements, security of 4 bits, 3 choices of random blocks | 3 176 |
| `generator` | Are the generators equal, and does the sampling end? | words of 2 bits, up to 3 columns with 2 entries, 16 nonces, reseeding after 9 | 29 920 |
| `session` | Does every thread have its modulus, and does everyone finish? | 2 sizes, teams of 1, 2 and 4 threads, up to 5 failures at any place | 70 667 |
| `retry_correlated`, `stale_generator`, `index_range` | the findings below | as the runs above | |

Why the bounds are enough. Two levels, of sizes <<1, 2>> for outputs of <<4, 8>>,
with batch sizes -1, 2, 3 and 5 and runs of 1, 3 and 6, make each path through
the code happen: a refused batch size, early exit and bootstrapping, the exact
boundary of `LevelSuffices`, the cap, a run served from the cache, one that
empties it exactly, and one that needs two expansions. With three calls each
call can follow the effects of two others. In `cuckoo`, two functions and four
inputs let eviction chains use up a function and wrap around to the first; with
three functions (what MPFSS uses) this would take more inputs than TLC can
enumerate hash values for, and is left to the proofs. In `gilboa`, a byte has
two bits and a block eight bytes, so that a block holds 8, 4, 2 (with bits that
stay free) or 1 elements, groups are full, partial or empty, and there are
residues for which hash values are uniform enough, not quite, or not at all; a
type of 9 bytes is refused, and `IntMax` lets 17 elements exceed the int. In
`generator`, 3 does not divide the four words, so words are rejected, and two
entries in a column fall on the same row. In `session`, the third experiment has teams
that grow, with threads that never had a modulus. Every configuration stops when
its work is done, so deadlock checking is off; `NoStall`, `CallsFinishOrFail`,
`BothFinish`, `TeamFinishes`, `Terminates`, `FillEnds` and `Progress` say instead
that nothing stops before.

`Correlated` and `IdealSpec` are not checked in `retry`: they fail there, which is
finding 1. `DimensionsAgree` says what it says for objects in one role.

`MaxGenerator` and `MaxTrees` stand for the two checks of statistical security.
The one in `PrecomputeCommon` is the stricter one for one and the same output, so
`SendTrees` fails only after a repeated precomputation that failed. `calls` gives both
one less than the longest output needs.

Fairness: weak fairness of `Step(p)` (the thread that is in a call runs when it
can; the operating system schedules it) and of `JoinCall(p)` (an application
makes the calls that were agreed on). Nothing forces a further call, a retry or
a failure. In `CuckooHasher`, a single thread runs; in `SimpleHashing`, every
thread of the team; in `SPFSSKnownIndex`, `ScalarVectorGilboaProduct`,
`CodeGenerator` and `Experiments`, each end and the joint steps between them.

Every property of a passing run has a mutant: a definition with a plausible bug,
next to the one it replaces, under which TLC finds that property violated.

## 4. Findings

1. `retry_correlated`: a run that fails in an expansion (`:578`) has already moved
   the cache into a local result. After a repeated call the two ends return
   vectors that are not correlated, with no error.
2. `stale_generator`: a repeated precomputation that fails leaves the done flag
   set and the code generator empty (`:371`, `:388-393`); the next run expands
   with it.
3. `index_range`: `mpfss_known_indices.h:193` compares with `>`, so an index equal
   to the output size passes; the call may even succeed.

Observed without a run of its own, each at the edge of a property that says so in
its precondition:

* The sizes of the seeds (`distributed_vector_ole.h:164-169`, "will be equal") are
  shared by the two roles of an object and follow only the last one used: an
  expansion in the other role may be refused (`DimensionsAgree`).
* `CanBeHashedInto` (`scalar_helpers.h:134`) takes 2^(128 - hash_bits) for the number
  of hash values, which is right for 64 and 128 bits. For residues of 9 to 15 bytes the
  modulus does not matter to it at all (`CheckIgnoresModulus`): with 40 bits of security, 9 and
  10 bytes never pass, and 11 to 15 bytes pass whatever the modulus is, up to a number
  of elements that depends on the width only. For 6 and 7 bytes the remainder is of
  another number. `MasksUniform` therefore speaks of the other widths (`WidthJudged`), 1 to
  5, 8, 9, 10 and 16 bytes; without that restriction it is false, for example
  for the modulus 3000 at 12 bits of 16.
* A Receiver that fails in the multi-point sharing after its resize
  (`distributed_vector_ole.h:486`) keeps elements that were never written. If it alone repeats its call, it may return them without an error,
  while the Sender is still in its own call.
* The value provider counts transfers in an int, the vector provider partly in 64
  bits (`scalar_vector_gilboa_product.h:177, 186`) (`BothFinish`).
* Packed negative integers overwrite their neighbours, because their conversion
  to 128 bits extends the sign (`scalar_helpers.h:64`); the tests use unsigned types
  only (`SharesProduct`).
* A buffer of odd size has an element that is never encrypted, in spite of the comment
  at `aes_uniform_bit_generator.cpp:13`; all sizes in the code are even (`WordsFresh`).
* The order of the two words in `MakeUint128(rng(), rng())` is the compiler's choice
  (`GeneratorsAgree`).
* `main` of the experiments goes on after an error at its end only; its peer is left
  in the channel (`Progress`).
* With two inputs, `HashCuckoo` fails whenever their first hash values collide, and
  repeated indices may be accepted although the message at
  `mpfss_known_indices.h:209` says they must be unique. The error path of the parallel
  loop in `ReceiveTrees` is racy but unreachable; the number of leaves is added up in an
  int (`all_but_one_random_ot.h:161`), which only trees of 2^31 leaves exceed.

## 5. The proofs

`DistributedVectorOLEProofs`: `THEOREM TypeCorrect == Spec => []TypeOK`, for any
number of levels, any sizes, batch and run sizes, number of calls, failures and
retries, from the named assumptions on the constants in `DistributedVectorOLE`
(`RoomAssumption`: the last level leaves room for an output; the parameters in
`distributed_vector_ole.cpp` do so). The type invariant is not inductive: that
taking n elements from the end of a vector yields n elements, and a vector at
all, needs that the vector has n. `Inv` therefore says, for each control point,
how long the caches are and how the sizes relate: during the Gilboa product the
cache has just the two first seeds; before an expansion the output is as long as
the seeds taken from it; while the Receiver is in MPFSS, its cache holds the
new tail; sizes and seeds in messages are well-formed. `Invariance` proves
`Init => Inv` and one step for each action of `Next`; lemmas state what
`TailOf`, `WithoutTail`, `SenderSeeds` and `ReceiverSeeds` return. TLC
confirmed `Inv` as an invariant of small configurations before it was proved.

Two further parts of that module prove the properties that do not need that the two ends
are in step, for any calls in any roles, failures and repeated calls.

*Sizes*: `DimensionsHold` and `ExpansionsFit`. The seeds have the lengths that the last
expansion in their role gave them, the members for the sizes are shared by the roles, and
the generator is of the last precomputation. `SizesInv` says of each that it is of a level
(`SeedsOfLevel`, `NotedLevel`, `GeneratorOfLevel`), at which level a precomputation is
(`OnTheWay`), that further expansions stay there (`Stays`), and, for an object in one role
and without failures, that generator and seeds fit between calls (`StillFits`). The
dimension check compares numbers of rows only, so `ExpansionsFit` needs
`LevelsAssumption`: levels have different sizes, and the output of a level holds the seeds
of the next. The tables in `distributed_vector_ole.cpp` are like that for statistical
securities of 30 to 80 bits.

*Reuse*: `NothingReused`, `SeedsKept` and `SpentOnce`. `NoReuse` is about what one end holds
in a state, which does not say where the next vectors come from: they may be in a message,
or not exist yet. `ReuseInv` adds, for each end, that what it holds is of experiments that
have been made (`Tidy`); that the vectors of the two roles, the message on its way and the
expansion that was begun are of different experiments (`RunsApart`); that at most one
exchange in MPFSS is open, and its answer is for the expansion that the Sender waits for
(`Exchange`); and that spent seeds are neither held outside the seeds of an open
expansion nor returned (`Spent`). `SpentOnce` is an action property: it follows from the
invariant before the step. It speaks of the step in which a Sender starts to
send an expansion, whether the set of spent elements grows or not: an expansion from both
seeds of an earlier one would violate it as well. `StepSpends` shows that this step is
`ExpandSender`, and `StepSeeds` takes from `Spent` that its seeds are not spent yet.

`OLEAgreementProofs`: `Ordered`, `Progress`, `Correct`, and `Refinement`, that the core
implements `VectorOLE`. No end knows the state of the other, and the two are at different
points of their programs, so an invariant that relates their variables directly would have
a case for every pair of points. Instead, the first part of the module defines one *joint
execution*: a record of what the two ends have in common, and `Succ`, its next state, as a
function of the calls and of at most one message. Its invariant `Good` says that vectors are
under the delta that their holder will return. `JointInv` then says that there is a
sequence h of joint states (`Trajectory`) of which each end is at one (`View`), at most one
message apart, and that the channel holds exactly the message that leads from one to the
other (`Linked`). One step of an end is one step along h: the end ahead makes it longer, the
end behind follows. The properties are read off from h. For the refinement, `JointLatest`
shows that the latest result of an end is one that the source may return, where `NoReuse`
makes it novel; `NextReturns` that nothing else changes the results.

These four theorems assume `Retries = {}`: no application repeats a failed call. They are
false without it, which is finding 1 (`retry_correlated`); for an end whose call has failed
and is not repeated, `View` ends.

`FoldProofs`: the other components compute sums, XORs and concatenations, so their
properties are about folds. The library's induction theorems take an operator as a
parameter and cannot be used; the lemmas here do induction over a *set* instead: a set of
numbers that has 0 and the successor of each of its members has every number
(`NumberInduction`), and likewise for the subsets of a finite set (`SubsetInduction`). Both
follow from the library's facts about well-founded relations, which take sets. From them
come: that a fold is determined by its recursion (`IsFold`, `Folded`), what sums over sets
are under union, renaming and addition, where the elements of a flattened sequence are
(`FlattenedAt`), that 2^n is the number of subsets of n elements (so powers need no
recursion of their own), and congruences.

`SPFSSKnownIndexProofs`: `TransfersMatch`, `TreesMatch`, `TypeCorrect` and `SharesArePoint`,
for batches of any number and sizes of outputs (also 0), all indices, any modulus,
every order of the threads and any arithmetic of the two ends that rounds up powers
only (`RoundingsAssumption`). `TransfersMatch` says of each transfer which level of which tree
it is for and that the index provider gets the XOR of the nodes beside its path, up to
the first output on which the arithmetic of the ends differs; if there is none, that no
transfer is left over. `TreesMatch` and `SharesArePoint` are for batches without one (`Alike`). `IInv` says that the inputs are what the callers give
(`Inputs`), that the value provider has the trees, keys and results that they determine
(`ValueSide`), how far the index provider has rebuilt each tree (`IndexSide`), and what is on
the way (`Between`). `Rebuilt` compares the first k levels of two trees: equal, except for
the one block of each level on the path to the index. `FirstRebuilt` and `NextRebuilt` show
that one level more is rebuilt from the level above and the transferred XOR of its
siblings, by cancelling all blocks but one; this is where trees whose number of leaves is no
power of two need care, as the last parent may lack a child. `AllOTs` and `OTsBefore` count the
transfers of a batch and of the outputs before one of it, and both ends' flattened lists are shown
to have their entries there. `TypeCorrect` and `SharesArePoint` have a hypothesis that
the conversion of a block is a natural number; it is in the theorem because an operator
parameter without a type cannot be in an `ASSUME` that TLC evaluates.

`MPFSSKnownIndicesProofs`, four parts:

* `SizesAlwaysAgree`, that both ends enter the single-point sharings with the same buckets
  and a share for each, for all hash values, output sizes and lists of indices, any numbers
  of buckets, and whatever calls, failures and early `UpdateBuckets` came before. The code
  sends none of these sizes, and an end that keeps the buckets of an earlier call would not
  notice. `SizesAgree` speaks only of the moment when both ends are ready. `Inv` adds that a
  cache is empty or the result of hashing for the sizes it is noted for (`CacheFor`: so
  skipping the update is harmless), that an end past its update has the cache of this call's
  arguments (`Updated`), that the value provider goes on only after the index provider has
  sent (`Together`), and that the one masked vector on its way has an entry for each bucket
  (`Masks`). `MPFSSAssumption` is used for two facts: output sizes are positive, so that the
  empty cache is never taken for a filled one, and numbers of buckets are natural numbers.
* `TypeCorrect` and `SharesAreProduct`, that the two results add up to x*y at the indices
  and to zero elsewhere. `Extra` adds to `Inv` that each index is placed in one bucket that
  it hashes to (`Placed`), that the vector on its way is the masked values in the
  buckets (`Called`), and that shares are reduced. In each bucket all
  leaves but one cancel (`BucketTotals`). That the one that remains is at the placed index
  needs that buckets are ascending and have every input that hashes there (`BucketOf`), so
  that the code's `lower_bound` finds it (`LowerBoundFinds`). Over all buckets the values
  are those of y, as each index is placed once (`SameSummands`). The theorem
  has the hypothesis that indices are natural numbers, as `mpfss_known_indices.h:81-82`
  demands of the caller and the code does not check.
* `HashCuckoo`: `HashCuckooTypeCorrect`, `NothingIsLost`, `HashesPlace` and
  `ResultIsComplete`, for all numbers of inputs, buckets and hash functions and all
  hash values. The invariant joins the type with what is lost between two tries:
  the input in hand and the inputs in the buckets are, together, those taken up so
  far, each once; and the function noted for the input in hand is one of its own.
* `HashSimple`: `HashSimpleTypeCorrect` and `ResultIsSequential` (`Deterministic`), for teams
  of any size and all schedules. The invariant says what a thread has hashed of its
  chunk (`Hashed`, `InChunk`) and that each bucket of the result is the concatenation of the
  chunks of the threads that have had their turn in it (`Merged`, `Prefix`).

`ScalarVectorGilboaProductProofs`: `TypeCorrect`, `SharesAreProduct`, `MasksAreUniform`,
`CheckIgnoresModulus`,
`BuildsMultiplyAlike`, `InversesInvert` and `FieldLawsHold`, for all types that `IsScalarType`
describes (integers of some bytes, residues modulo a number that fits, polynomials),
widths of a block, lengths, and whatever the blocks of the transfers are (`GilboaAssumption`). `Inv` says that the inputs
stay (`InputsInv`), that an end stops only where both do (`ControlInv`), that the deltas and
choices are those of the inputs (`PreparedInv`), that the transfers gave the second end
what its choices select (`TransfersInv`), and that outputs are sums over them
(`OutputInv`). The argument for the shares: an element in a slot of a block is read back
from that slot, whatever its neighbours are (`InPlace`, `SameSlot`); a transfer of one bit of
the scalar is a share of that bit times the element, shifted (`Place`, `SharesAdd`); and the sum
over the bits is the product (`SumOfProducts`). For polynomials this needs that the
multiplication is bilinear (`MulLaws`): a bit of a carry-less product is the parity of a number of
pairs, and parities add up under symmetric difference (`OddDiff`). `MasksAreUniform` is
arithmetic from what `CanBeHashedInto` tests: an exact bound on the distance of reduced hash
values from uniform ones, for every modulus of the widths in `WidthJudged`. For half a block
and a whole one the tested remainder is that of the number of hash values; narrow
residues and those just over half a block pass only if their modulus is a power of two, or
not at all, since the remainder of a power of two is 0 only then (`DivisorOfPower`).
`CheckIgnoresModulus` says of the widths between half a block and a block what the test
compares instead. `BuildsMultiplyAlike` says that the
multiplication by halves with a reduction in two steps gives what the portable one
gives, for every width and every polynomial that fits into a half: both are the sum
over the bits of one factor of the other factor times a power of the unknown (`WidePower`,
`NextPower`, `SumOfPowers`).

`InversesInvert` is about `inverse`, and with it `FieldLawsHold` has both halves of `FieldLaws`.
Its hypothesis is `NoZeroDivisors`: the polynomial is irreducible, as it is known of
the one in the code (and is of the one of 16 bits in the run); that of 2^128 elements is
nothing the prover could compute, and without it the statement is false. The
product is associative (`MulAssociates`), since additive maps that agree on the powers of the
unknown are equal (`AdditiveSame`), so it can be folded over a set in any order. Then the
argument is Fermat's: multiplication by a nonzero element permutes the nonzero
elements, so the product of all of them is unchanged by `2^num_bits - 1` further factors, and
these are One (`Fermat`). `InverseIs` says that the loop of `inverse` computes the power with
exponent `2^num_bits - 2`: iteration `i` contributes `2^(2^(i+1)) - 2^(2^i)` (`Tower`), and the
sum of these telescopes; `num_bits` is a power of two (`GFAssumption`).

`CodeGeneratorProofs`: `SameGenerator` (`GeneratorsAgree`), `FreshWords` (`WordsFresh`) and
`TypeCorrect`, for all types, sizes and seeds and whatever AES makes of them. The two
ends fill their generators at their own pace, so again no relation between their
variables is inductive: `SameTrace` says that there is one sequence of iterations from the
seed (`Trace`, each element the `Iteration` of the one before) and that each end stands
at an element of it. The end ahead makes the sequence longer, and one that has all
entries is at its last element (`Complete`). What numbers and elements the words are
turned into is not expanded: it matters only that both ends do the same, which the order
of the calls in `MakeUint128` can break. `FreshWords` names what a generator has
handed out: the halves of the blocks from the seed's nonce on, in order (`Stream`), up to
the number of blocks that `counter_` says. From `CodeAssumption` it uses that the reseed
interval is not above the number of nonces (2^48 and 2^128): below it the nonces do not come
round (`WordsDiffer`). Buffers of odd size are excluded, as in the property. `TypeCorrect`
follows from `Sampled`: generators have the key of a seed, and what has been sampled so far
is in its range, so each entry is an element of the type, at a row and a column of the matrix,
and each noise index is in the output. `CodeAssumption` asks
for positive sizes, which `SizeTypes` proves of every level of the core.

`ExperimentsProofs`: `TypeCorrect`, `AllThreadsInContext` (`ThreadsInContext`) and
`ExitCodeTells` (`ExitTells`), for all vector sizes, numbers of threads and numbers of runs,
wherever a connection or a protocol fails. `EndInv` is about one end: at which call it is
(`Placed`), that it is at a step of that call (`Stepped`), which moduli its threads have
(`Prepared`: between the calls only the main thread needs one, and the team has it before it
computes), and how many results are printed (`Counted`: one for each call, or fewer after
an error). The list of calls is flattened from three nested loops; `StepsAre` gives the
steps of each. The proof needed one change of the model: two arms of a `CASE` in `Fail`
overlapped, which TLA+ leaves undefined although TLC takes the first.

Model-checked only is liveness, which is out of the prover's reach: `CallsFinishOrFail`,
`Terminates`, `TeamFinishes`, `BothFinish` of the two protocols that have it, `FillEnds`, and
`Progress` of the experiments.

## 6. Not modelled

`GetOptimalNumberOfBuckets` (a probability estimate: the parameter
`NumBuckets`); `ScalarHelper::Randomize` (any element); printing, comparison
and serialisation of `gf128`; the checks of NULL channels and negative security
parameters; the checks of the hashers that a
128-bit hash suffices (`bits_needed`), which reject a call before it changes
anything, and checks that two arguments have the same length, which the models'
arguments always have; secrecy;
`SPFSSExperiment` (its call is commented out) and the command line of the
experiments; benchmarks, the example, tests and build files. Calls with negative run sizes, which
the code does not check after the precomputation, are excluded (`RunSizes`).

## 7. Plan

Done, in this order: the core and its abstract specification; the hashing
modules; trees and single-point sharing; multi-point sharing; type correctness
of the core; safety of `HashCuckoo`; scalars, the field and the Gilboa product; the
generator and the code generator; the experiments with all handshakes; the
sizes of `MPFSSKnownIndices`; all safety properties of the core and its
refinement; the code generator; `HashSimple`; the trees and shares of
`SPFSSKnownIndex`; the shares of `MPFSSKnownIndices`; the Gilboa product, the two
multiplications and the inverses of the field; the experiments. Next:
progress of `MPFSSKnownIndices` and an abstract specification that it implements;
likewise for `SPFSSKnownIndex`.
