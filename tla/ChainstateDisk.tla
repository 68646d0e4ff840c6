--------------------------- MODULE ChainstateDisk ---------------------------
(***************************************************************************)
(* What survives a crash: the block index database and the best block of    *)
(* the coin database, as FlushStateToDisk writes them and as LoadBlockIndex *)
(* and LoadChainTip read them (validation.cpp).  The coin database itself    *)
(* moves from one best block to the next at once here; CoinsFlush shows that *)
(* ReplayBlocks makes it so.                                                *)
(***************************************************************************)
EXTENDS Chainstate

VARIABLES
    stored,     \* the block index database: the sets of Chainstate it holds
    coinsBest,  \* DB_BEST_BLOCK of the coin database
    flushing    \* where FlushStateToDisk is: "no", "index" or "coins" comes next

diskVars == <<stored, coinsBest, flushing>>
allVars == <<vars, diskVars>>

Stored == [index : SUBSET Block, haveData : SUBSET Block, received : SUBSET Block,
           scriptsValid : SUBSET Block, failedValid : SUBSET Block, failedChild : SUBSET Block]

DiskTypeOK == TypeOK /\ stored \in Stored /\ coinsBest \in Block
              /\ flushing \in {"no", "index", "coins"}

\* The node is up and its first flush is done.
DiskInit ==
    /\ Init
    /\ stored = [index |-> {Genesis}, haveData |-> {Genesis}, received |-> {Genesis},
                 scriptsValid |-> {}, failedValid |-> {}, failedChild |-> {}]
    /\ coinsBest = Genesis
    /\ flushing = "no"

-----------------------------------------------------------------------------
(* FlushStateToDisk, under cs_main.                                        *)

\* One set of flags on disk after the entries of the dirty blocks are written.
Update(old, new) == (old \ dirty) \cup (new \cap dirty)

\* WriteBatchSync of the block index.
WriteBlockIndex ==
    /\ stored' = [index |-> Update(stored.index, index),
                  haveData |-> Update(stored.haveData, haveData),
                  received |-> Update(stored.received, received),
                  scriptsValid |-> Update(stored.scriptsValid, scriptsValid),
                  failedValid |-> Update(stored.failedValid, failedValid),
                  failedChild |-> Update(stored.failedChild, failedChild)]
    /\ dirty' = {}
    /\ UNCHANGED <<index, haveData, received, linked, scriptsValid, failedValid, failedChild,
                   orderVars, candidates, unlinked, failedBlocks, tip, pc, activateVars,
                   invalidateVars, owed, coinsBest>>

\* The periodic write at the end of ActivateBestChain is due, the flush is not.
PeriodicWrite ==
    /\ flushing = "no" /\ pc = "exit"
    /\ dirty # {}
    /\ WriteBlockIndex
    /\ flushing' = "no"

\* A full flush: on request or at shutdown while cs_main is free, and after
\* any block is connected or disconnected when the cache is too large.
\* Mutant: the coins come first.
MutantCoinsFirst ==
    /\ flushing = "no" /\ Flushes
    /\ coinsBest' = tip
    /\ UNCHANGED <<vars, stored, flushing>>
BeginFlush ==
    /\ flushing = "no" /\ Flushes
    /\ dirty # {} \/ coinsBest # tip
    /\ WriteBlockIndex
    /\ flushing' = "coins"

\* Block files are pruned: the full flush follows.
PruneFlush ==
    /\ flushing = "no"
    /\ Pruning
    /\ flushing' = "index"
    /\ UNCHANGED <<stored, coinsBest>>

FlushPruned ==
    /\ flushing = "index"
    /\ WriteBlockIndex
    /\ flushing' = "coins"

\* CoinsTip().Flush()
FlushCoins ==
    /\ flushing = "coins"
    /\ coinsBest' = tip
    /\ flushing' = "no"
    /\ UNCHANGED <<vars, stored>>

-----------------------------------------------------------------------------
(* Start-up, with what a crash or a shutdown left on disk.                  *)

StoredFailed == stored.failedValid \cup stored.failedChild

\* LoadBlockIndex goes through the index by height: a block is linked when all
\* its ancestors were received, and failed when one of them failed.
LoadedFailed == {b \in stored.index : Anc[b] \cap StoredFailed # {}}
LoadedLinked == {b \in stored.index : Anc[b] \subseteq stored.received}
LoadedUnlinked == {b \in stored.received \ {Genesis} : Prev[b] \notin LoadedLinked}

\* LoadChainTip: what is left of the candidates, all of sequence id 0.
LoadedCandidates ==
    PruneBlockIndexCandidates((stored.received \cap LoadedLinked) \ LoadedFailed,
                              [b \in Block |-> 0], coinsBest)

\* The process ends, at any point, and is started again.  ThreadImport calls
\* ActivateBestChain.
Restart ==
    /\ index' = stored.index /\ haveData' = stored.haveData /\ received' = stored.received
    /\ linked' = LoadedLinked /\ scriptsValid' = stored.scriptsValid
    /\ failedValid' = stored.failedValid
    /\ failedChild' = stored.failedChild \cup (LoadedFailed \ StoredFailed)
    /\ dirty' = LoadedFailed \ StoredFailed
    /\ sequenceId' = [b \in Block |-> 0]
    /\ nBlockSequenceId' = 1 /\ nBlockReverseSequenceId' = -1 /\ nLastPreciousChainwork' = 0
    /\ candidates' = LoadedCandidates
    /\ unlinked' = LoadedUnlinked /\ failedBlocks' = {}
    /\ tip' = coinsBest
    /\ pc' = "idle" /\ owed' = TRUE
    /\ mostWork' = None /\ startTip' = None /\ oldTip' = None /\ connected' = FALSE
    /\ target' = None /\ toMark' = None /\ walkTip' = None /\ byWork' = {}
    /\ flushing' = "no"
    /\ UNCHANGED <<stored, coinsBest>>

DiskNext ==
    \/ flushing = "no" /\ Live /\ UNCHANGED diskVars
    \/ PeriodicWrite
    \/ BeginFlush
    \/ PruneFlush
    \/ FlushPruned
    \/ FlushCoins
    \/ Restart

DiskSpec == DiskInit /\ [][DiskNext]_allVars

-----------------------------------------------------------------------------
\* LoadChainTip would find a candidate (PruneBlockIndexCandidates asserts that
\* one is left), whatever moment the process ends at.
CanStart == LoadedCandidates # {}

\* The coin database never runs ahead of the block index database: its best
\* block was stored as connected, and so was the chain below.
CoinsBehindIndex ==
    /\ Anc[coinsBest] \subseteq stored.index \cap stored.received
    /\ Anc[coinsBest] \subseteq stored.scriptsValid \cup {Genesis}
=============================================================================
