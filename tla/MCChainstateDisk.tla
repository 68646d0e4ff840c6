-------------------------- MODULE MCChainstateDisk --------------------------
(* ChainstateDisk over the trees of BlockTrees.                             *)
EXTENDS ChainstateDisk, BlockTrees
=============================================================================
