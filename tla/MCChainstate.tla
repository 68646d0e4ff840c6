---------------------------- MODULE MCChainstate ----------------------------
(* Chainstate over the trees of BlockTrees.                                 *)
EXTENDS Chainstate, BlockTrees
=============================================================================
