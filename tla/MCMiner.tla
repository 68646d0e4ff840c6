------------------------------ MODULE MCMiner ------------------------------
EXTENDS Miner, BlockTrees

CONSTANTS t1, t2
=============================================================================
