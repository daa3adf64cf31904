-------------------------- MODULE MCRadixMerkleTree --------------------------
(* Small binary trees: indices of three bits, chosen so that a new leaf     *)
(* lands below an inner node, next to a leaf, and below a chain of them.    *)
EXTENDS RadixMerkleTree, TLC

CONSTANTS v1, v2

MCBranch == 0..1
MCKey == {<<0, 0, 0>>, <<0, 0, 1>>, <<0, 1, 0>>, <<1, 0, 0>>}
MCData == {v1, v2}
MCSymmetry == Permutations(MCData)
==============================================================================
