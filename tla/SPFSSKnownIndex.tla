--------------------------- MODULE SPFSSKnownIndex ---------------------------
(***************************************************************************)
(* A batch of single-point function secret sharings                        *)
(* (src/distributed_vector_ole/spfss_known_index.h) on top of              *)
(* all-but-one random OT (all_but_one_random_ot.h, .cpp).  For each size,  *)
(* the value provider and the index provider obtain vectors of elements of *)
(* Z_modulus that add up to zero everywhere, except at the index provider's *)
(* index, where they add up to the sum of the two value shares.            *)
(*                                                                         *)
(* Oblivious transfer (emp-ot) is a step of both ends together: the sender *)
(* puts in pairs of blocks and the receiver gets one of each.  The rest    *)
(* goes over two ordered streams, one of the EMP adapter and one of the    *)
(* comm_channel.                                                           *)
(***************************************************************************)
EXTENDS GGMTree

CONSTANTS
  Sizes,           \* the sizes of the outputs, a sequence for each batch
  Indices,         \* the indices asked for, valid or not
  ValueShares,     \* the value shares
  modulus,         \* of the scalars T
  FromUint128(_),  \* the scalar that a block is reduced to
  MaxLeaves,       \* the most leaves for which T has enough bits
  Roundings        \* the floating-point arithmetic that the two ends may have

ASSUME SPFSSAssumption ==
  /\ \A s \in Sizes : s \in Seq(Nat)
  /\ Indices \subseteq Int /\ modulus \in Nat \ {0} /\ MaxLeaves \in Nat
  /\ ValueShares \subseteq 0 .. modulus - 1

arity == 2
Roles == {"value", "index"}

\* Only for powers can the quotient of two rounded logarithms pass an integer.
ASSUME RoundingsAssumption ==
  \A f \in Roundings :
    /\ f \in [Roles -> SUBSET Nat]
    /\ \A r \in Roles : \A n \in f[r] : \E k \in 1 .. n : n = arity ^ k

VARIABLES
  sizes,       \* the sizes of the outputs: both ends know them
  indices,     \* one for each output: the index provider's
  val_shares,  \* val_shares[role]
  above,       \* above[role]: the sizes that get a level too many at that end
  pc,          \* pc[role]
  trees,       \* trees[role]: the GGM trees of the two ends
  filled,      \* filled[j]: levels done of the index provider's tree j
  opts,        \* the pairs that the value provider puts into the OT
  choices,     \* the bits that the index provider puts in
  ot_results,  \* what it gets out
  emp,         \* stream of the EMP adapter, to the index provider
  channel,     \* the comm_channel, to the index provider
  outputs      \* outputs[role]

vars == <<sizes, indices, val_shares, above, pc, trees, filled, opts, choices,
          ot_results, emp, channel, outputs>>

inputs == <<sizes, indices, val_shares, above>>

Batch == DOMAIN sizes

\* An index beyond the end of its output is refused like one at the end, so only
\* the latter is considered.
Init ==
  /\ sizes \in Sizes
  /\ indices \in {f \in [Batch -> Indices] : \A j \in Batch : f[j] <= sizes[j]}
  /\ val_shares \in [Roles -> [Batch -> ValueShares]]
  /\ above \in Roundings
  /\ pc = [r \in Roles |-> "start"]
  /\ trees = [r \in Roles |-> <<>>]
  /\ filled = [j \in Batch |-> 0]
  /\ opts = <<>> /\ choices = <<>> /\ ot_results = <<>>
  /\ emp = <<>> /\ channel = <<>>
  /\ outputs = [r \in Roles |-> [j \in Batch |-> <<>>]]

-----------------------------------------------------------------------------
\* An empty output has no tree; a tree takes one OT for each level but the root.
MutRootToo(r, n) ==  \* mutant: the index provider counts the root
  IF n = 0 THEN 0
  ELSE NumLevels(arity, n, above[r]) - IF r = "index" THEN 0 ELSE 1
Rounds(r, n) == IF n = 0 THEN 0 ELSE NumLevels(arity, n, above[r]) - 1
Offset(j) ==
  FoldFunctionOnSet(+, 0, [k \in Batch |-> Rounds("index", sizes[k])], 1 .. j - 1)

\* UnpackLastLevel: the leaves, truncated to scalars.
Leaves(tree, n) == [i \in 1 .. n |-> FromUint128(tree[Len(tree)][i]) % modulus]

Total(vec) == FoldFunction(+, 0, vec)

\* "Cannot ensure statistical security": nothing has been sent.
SendTreesFails ==
  /\ pc["value"] = "start" /\ Total(sizes) > MaxLeaves
  /\ pc' = [pc EXCEPT !["value"] = "failed"]
  /\ UNCHANGED <<inputs, trees, filled, opts, choices, ot_results, emp,
                 channel, outputs>>

\* SendTrees up to the OT; with nothing to transfer the OT is left out.
SendTrees ==
  /\ pc["value"] = "start" /\ Total(sizes) <= MaxLeaves
  /\ trees' = [trees EXCEPT !["value"] =
       [j \in Batch |-> IF sizes[j] = 0 THEN <<>>
                        ELSE Create(arity, sizes[j], RandomSeed(j), above["value"])]]
  /\ opts' = FlattenSeq([j \in Batch |-> GetSiblingWiseXOR(arity, trees'["value"][j])])
  /\ pc' = [pc EXCEPT !["value"] = IF opts' = <<>> THEN "keys" ELSE "ot"]
  /\ UNCHANGED <<inputs, filled, choices, ot_results, emp, channel, outputs>>

\* "`indices[i]` out of range", also for the empty outputs.
OutOfRange(j) == indices[j] < 0 \/ (indices[j] >= sizes[j] /\ sizes[j] # 0)

RejectIndices ==
  /\ pc["index"] = "start" /\ \E j \in Batch : OutOfRange(j)
  /\ pc' = [pc EXCEPT !["index"] = "failed"]
  /\ UNCHANGED <<inputs, trees, filled, opts, choices, ot_results, emp,
                 channel, outputs>>

\* The choice on the way down from level l is the negation of a bit of the index.
MutReversedBit(j, l) == 1 - ((indices[j] \div (2 ^ (l - 1))) % 2)  \* mutant: order
ChoiceBit(j, l) == 1 - ((indices[j] \div (2 ^ (Rounds("index", sizes[j]) - l))) % 2)

\* ReceiveTrees up to the OT.
ReceiveTrees ==
  /\ pc["index"] = "start" /\ \A j \in Batch : ~OutOfRange(j)
  /\ choices' = FlattenSeq(
       [j \in Batch |-> [l \in 1 .. Rounds("index", sizes[j]) |-> ChoiceBit(j, l)]])
  /\ pc' = [pc EXCEPT !["index"] = IF choices' = <<>> THEN "keys" ELSE "ot"]
  /\ UNCHANGED <<inputs, trees, filled, opts, ot_results, emp, channel, outputs>>

\* ot_extension_.send and .recv, which do not come to an end for different numbers.
RunOT ==
  /\ pc["value"] = "ot" /\ pc["index"] = "ot" /\ Len(opts) = Len(choices)
  /\ ot_results' = [k \in DOMAIN choices |-> opts[k][choices[k] + 1]]
  /\ pc' = [r \in Roles |-> "keys"]
  /\ UNCHANGED <<inputs, trees, filled, opts, choices, emp, channel, outputs>>

\* The value provider sends the keys, and then the sums of its leaves, and
\* negates the leaves.
MutUnreduced(vec) == [i \in DOMAIN vec |-> modulus - vec[i]]  \* mutant: no reduction
Negated(vec) == [i \in DOMAIN vec |-> (modulus - vec[i]) % modulus]

SendKeysAndSums ==
  /\ pc["value"] = "keys"
  /\ LET leaves == [j \in Batch |-> Leaves(trees["value"][j], sizes[j])]
     IN  /\ channel' = Append(channel,
              [j \in Batch |-> (val_shares["value"][j] + Total(leaves[j])) % modulus])
         /\ outputs' = [outputs EXCEPT !["value"] =
              [j \in Batch |-> Negated(leaves[j])]]
  /\ emp' = Append(emp, "keys")
  /\ pc' = [pc EXCEPT !["value"] = "done"]
  /\ UNCHANGED <<inputs, trees, filled, opts, choices, ot_results>>

\* Sibling-wise XORs of tree j out of the OT; the others, which were not chosen,
\* are zero and lie on the path to the missing leaf.
ReceivedXORs(j) ==
  [l \in 1 .. Rounds("index", sizes[j]) |->
    [s \in 1 .. arity |-> IF s = choices[Offset(j) + l] + 1
                          THEN ot_results[Offset(j) + l] ELSE Zero]]

\* Empty outputs are skipped, and the root is never filled.
MutNotSkipped(j) == 1  \* mutant: empty outputs are not skipped
FilledAtFirst(j) == Min({1, sizes[j]})

\* With the keys the trees can be rebuilt, from empty levels.
ReceiveKeys ==
  /\ pc["index"] = "keys" /\ emp # <<>>
  /\ emp' = Tail(emp)
  /\ trees' = [trees EXCEPT !["index"] =
       [j \in Batch |-> IF sizes[j] = 0 THEN <<>>
                        ELSE AllocateLevels(arity, sizes[j], above["index"])]]
  /\ filled' = [j \in Batch |-> FilledAtFirst(j)]
  /\ pc' = [pc EXCEPT !["index"] = "rebuild"]
  /\ UNCHANGED <<inputs, opts, choices, ot_results, channel, outputs>>

Path(j) == MissingPath(arity, Rounds("index", sizes[j]) + 1, indices[j] + 1)

\* The loop over the trees runs in parallel: a thread fills one level of tree j.
Rebuild(j) ==
  /\ pc["index"] = "rebuild" /\ filled[j] < Len(trees["index"][j])
  /\ trees' = [trees EXCEPT !["index"][j] =
       FillLevel(@, filled[j] + 1, Path(j), ReceivedXORs(j), arity)]
  /\ filled' = [filled EXCEPT ![j] = @ + 1]
  /\ UNCHANGED <<inputs, pc, opts, choices, ot_results, emp, channel, outputs>>

TreesRebuilt ==
  /\ pc["index"] = "rebuild" /\ \A j \in Batch : filled[j] = Len(trees["index"][j])
  /\ pc' = [pc EXCEPT !["index"] = "sums"]
  /\ UNCHANGED <<inputs, trees, filled, opts, choices, ot_results, emp,
                 channel, outputs>>

\* What the leaf at the index has to be, so that all shares add up.
MutOneShare(j, leaves, sum) ==  \* mutant: the sums do not start from val_shares
  (leaves[indices[j] + 1] - Total(leaves) + sum) % modulus
LeafAtIndex(j, leaves, sum) ==
  (val_shares["index"][j] - (Total(leaves) - leaves[indices[j] + 1]) + sum) % modulus

ReceiveSums ==
  /\ pc["index"] = "sums" /\ channel # <<>>
  /\ channel' = Tail(channel)
  /\ outputs' = [outputs EXCEPT !["index"] =
       [j \in Batch |->
         LET leaves == Leaves(trees["index"][j], sizes[j])
         IN  IF sizes[j] = 0 THEN <<>>
             ELSE [leaves EXCEPT ![indices[j] + 1] =
                     LeafAtIndex(j, leaves, Head(channel)[j])]]]
  /\ pc' = [pc EXCEPT !["index"] = "done"]
  /\ UNCHANGED <<inputs, trees, filled, opts, choices, ot_results, emp>>

ValueProvider == SendTreesFails \/ SendTrees \/ SendKeysAndSums
IndexProvider ==
  \/ RejectIndices \/ ReceiveTrees \/ ReceiveKeys
  \/ \E j \in Batch : Rebuild(j)
  \/ TreesRebuilt \/ ReceiveSums

Next == ValueProvider \/ IndexProvider \/ RunOT

Spec == Init /\ [][Next]_vars

\* Both ends run until they have to wait for the other.
FairSpec ==
  Spec /\ WF_vars(ValueProvider) /\ WF_vars(IndexProvider) /\ WF_vars(RunOT)

-----------------------------------------------------------------------------
Element == 0 .. modulus - 1

TypeOK ==
  /\ sizes \in Sizes
  /\ indices \in [Batch -> Indices]
  /\ val_shares \in [Roles -> [Batch -> ValueShares]]
  /\ above \in Roundings
  /\ pc["value"] \in {"start", "ot", "keys", "done", "failed"}
  /\ pc["index"] \in {"start", "ot", "keys", "rebuild", "sums", "done", "failed"}
  /\ choices \in Seq({0, 1}) /\ Len(ot_results) <= Len(choices)
  /\ emp \in Seq({"keys"}) /\ channel \in Seq([Batch -> Element])
  /\ \A r \in Roles : \A j \in Batch : outputs[r][j] \in Seq(Element)

\* Does the arithmetic of the two ends agree on the size of output j, and of all?
SameRounding(j) == sizes[j] \in above["value"] <=> sizes[j] \in above["index"]
Alike == \A j \in Batch : SameRounding(j)

\* Each end lines up the OTs by its own count of the levels
\* (all_but_one_random_ot.h:197-220, all_but_one_random_ot.cpp:72-94), and one tree
\* that takes more of them moves all trees behind.  Up to the first size on which
\* their arithmetic differs, what the index provider chooses in each OT is, of the
\* same level of the same tree, the XOR of the nodes that are the other child of
\* their parent than the one on its path.
OTsAgree ==
  pc["value"] = "ot" /\ pc["index"] = "ot" =>
    /\ Alike => Len(opts) = Len(choices)
    /\ \A j \in Batch : (\A k \in 1 .. j : SameRounding(k)) =>
         \A l \in 1 .. Rounds("index", sizes[j]) :
           LET ot == Offset(j) + l
               child == Sibling(arity, Path(j)[l + 1])
           IN  /\ ot \in DOMAIN opts
               /\ opts[ot][choices[ot] + 1] =
                    XORBlocks(arity, trees["value"][j][l + 1])[3 - child]

\* "The i-th tree is equal to the server's except at `indices[i]`"
\* (all_but_one_random_ot.h:143-144), from each level filled to the next: the
\* nodes below the path to the index that have been left out so far are empty,
\* and all others are the server's, also with a level too many at both ends.
TreesAgree ==
  Alike /\ pc["index"] \in {"rebuild", "sums"} =>
    \A j \in Batch : \A l \in DOMAIN trees["index"][j] :
      \A i \in DOMAIN trees["index"][j][l] :
        LET top == Min({l, filled[j]})
        IN  trees["index"][j][l][i] =
              IF Ancestor(arity, i, l - top) = Path(j)[top]
              THEN Zero ELSE trees["value"][j][l][i]

\* The shares of the two ends add up to a point function, if their arithmetic agrees.
SharesPoint ==
  Alike /\ pc = [r \in Roles |-> "done"] =>
    \A j \in Batch : \A i \in 1 .. sizes[j] :
      (outputs["value"][j][i] + outputs["index"][j][i]) % modulus =
        IF i = indices[j] + 1
        THEN (val_shares["value"][j] + val_shares["index"][j]) % modulus
        ELSE 0

\* Both ends finish unless one has refused its input, if their arithmetic agrees.
BothFinish ==
  Alike ~> (pc = [r \in Roles |-> "done"] \/ \E r \in Roles : pc[r] = "failed")

=============================================================================
