------------------------------ MODULE GGMTree ------------------------------
(***************************************************************************)
(* GGM trees (src/distributed_vector_ole/ggm_tree.h, ggm_tree.cpp): full   *)
(* trees of blocks in which the s-th child of a node is PRG(node, key s),  *)
(* and trees rebuilt, except for one path, from the XORs of siblings.      *)
(*                                                                         *)
(* A block is the XOR of distinct pseudorandom terms, written as the set   *)
(* of these terms: XOR is symmetric difference, and the PRG yields a term  *)
(* that occurs nowhere else.  Two blocks are equal here only if they are   *)
(* for every choice of keys.                                               *)
(*                                                                         *)
(* Levels, nodes and siblings are numbered from 1; node i has the children *)
(* arity*(i-1)+1 .. arity*i.                                               *)
(***************************************************************************)
EXTENDS Integers, SequencesExt

Zero == {}
XOR(a, b) == (a \ b) \cup (b \ a)

\* ComputePRG(seed, key s), and a random seed that `name' tells from others.
ComputePRG(block, s) == {<<block, s>>}
RandomSeed(name) == {<<Zero, -name>>}

\* 1 + ceil(log(num_leaves) / log(arity)) in floating point: the least number of
\* levels that gives room for the leaves, or one more where the quotient of the
\* rounded logarithms of a power of arity comes out above the exponent (2^29 is the
\* first with 64-bit IEEE arithmetic).  `above' has those powers, for the arithmetic
\* of the end that computes.
NumLevels(arity, num_leaves, above) ==
  Min({l \in 1 .. num_leaves + 1 : arity ^ (l - 1) >= num_leaves})
    + IF num_leaves \in above THEN 1 ELSE 0

Ancestor(arity, i, height) == ((i - 1) \div (arity ^ height)) + 1
Parent(arity, i) == Ancestor(arity, i, 1)
Sibling(arity, i) == ((i - 1) % arity) + 1

\* Every level has the nodes that the level below needs as parents.
AllocateLevels(arity, num_leaves, above) ==
  LET num_levels == NumLevels(arity, num_leaves, above)
      size[l \in 1 .. num_levels] ==
        IF l = num_levels THEN num_leaves ELSE (size[l + 1] + arity - 1) \div arity
  IN  [l \in 1 .. num_levels |-> [i \in 1 .. size[l] |-> Zero]]

\* The XOR of all first children of a level, of all second children, and so on.
XORBlocks(arity, level) ==
  [s \in 1 .. arity |-> FoldFunctionOnSet(XOR, Zero, level,
                          {i \in DOMAIN level : Sibling(arity, i) = s})]

\* Expands the subtrees under the given nodes of level `start'.
ExpandSubtrees(arity, levels, start, nodes) ==
  LET block[l \in DOMAIN levels] ==
        [i \in DOMAIN levels[l] |->
          IF l > start /\ Ancestor(arity, i, l - start) \in nodes
          THEN ComputePRG(block[l - 1][Parent(arity, i)], Sibling(arity, i))
          ELSE levels[l][i]]
  IN  [l \in DOMAIN levels |-> block[l]]

Create(arity, num_leaves, seed, above) ==
  LET levels == [AllocateLevels(arity, num_leaves, above) EXCEPT ![1][1] = seed]
  IN  ExpandSubtrees(arity, levels, 1, {1})

GetSiblingWiseXOR(arity, tree) ==
  [l \in 1 .. Len(tree) - 1 |-> XORBlocks(arity, tree[l + 1])]

\* The node of each level that is above leaf `missing', or that leaf.
MissingPath(arity, num_levels, missing) ==
  [l \in 1 .. num_levels |-> Ancestor(arity, missing, num_levels - l)]

\* CreateFromSiblingWiseXOR starts from empty levels and goes down: the siblings
\* of the missing node are what remains of the sibling-wise XORs without the
\* nodes known already; then expand below them.
FillLevel(levels, l, path, xors, arity) ==
  LET known == XORBlocks(arity, levels[l])
      siblings == {i \in DOMAIN levels[l] : Parent(arity, i) = path[l - 1]} \ {path[l]}
      filled == [levels EXCEPT ![l] = [i \in DOMAIN @ |->
                  IF i \in siblings
                  THEN XOR(known[Sibling(arity, i)], xors[l - 1][Sibling(arity, i)])
                  ELSE @[i]]]
  IN  ExpandSubtrees(arity, filled, l, siblings)

=============================================================================
