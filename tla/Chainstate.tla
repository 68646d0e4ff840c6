----------------------------- MODULE Chainstate -----------------------------
(***************************************************************************)
(* The block index and the choice of the active chain (validation.cpp):     *)
(* headers and blocks arrive in any order, ActivateBestChain moves the tip  *)
(* towards the candidate with the most work, and the operator may          *)
(* invalidate, reconsider or favour a block, or have block files pruned.    *)
(*                                                                         *)
(* cs_main guards all of this state.  ActivateBestChain and InvalidateBlock *)
(* release it between two rounds, and m_cs_chainstate keeps them apart, so  *)
(* one program counter pc serves for both.  While it is at "find", "step"   *)
(* or "mark" cs_main is held and nobody else moves.                         *)
(***************************************************************************)
EXTENDS Integers

CONSTANTS
    Block,            \* every block that can be mined, as a tree
    Genesis,
    Prev,             \* pprev, for every block but Genesis
    Anc,              \* the block and its ancestors (GetAncestor at each height)
    Height,           \* nHeight
    ChainWork,        \* nChainWork
    Address,          \* of the CBlockIndex object, the last tie breaker
    Acceptable,       \* blocks that pass ContextualCheckBlock
    Connectable,      \* blocks that pass ConnectBlock
    None,             \* nullptr
    KeepBlocks,       \* MIN_BLOCKS_TO_KEEP
    MinimumChainWork, \* nMinimumChainWork
    MinSequenceId,    \* numeric_limits<int32_t>::min()
    MaxSequenceId,    \* bound on nBlockSequenceId
    Commands          \* which of the operator's commands are issued

ASSUME TreeAssumption ==
    /\ Genesis \in Block /\ None \notin Block
    /\ Prev \in [Block \ {Genesis} -> Block]
    /\ Anc \in [Block -> SUBSET Block]
    /\ Anc[Genesis] = {Genesis}
    /\ \A b \in Block \ {Genesis} : /\ Anc[b] = {b} \cup Anc[Prev[b]]
                                    /\ b \notin Anc[Prev[b]]
    /\ \A b \in Block : /\ b \in Anc[b] /\ Genesis \in Anc[b]
                        /\ \A a \in Anc[b] : Anc[a] \subseteq Anc[b]
                        /\ \A a, c \in Anc[b] : a \in Anc[c] \/ c \in Anc[a]

ASSUME OrderAssumption ==
    /\ Height \in [Block -> Nat] /\ ChainWork \in [Block -> Nat]
    /\ \A b \in Block \ {Genesis} : Height[b] = Height[Prev[b]] + 1
    /\ \A a, b \in Block : a \in Anc[b] /\ a # b => ChainWork[a] < ChainWork[b]
    /\ \A a, b \in Block : a \in Anc[b] /\ a # b => Height[a] < Height[b]
    /\ Address \in [Block -> Nat]
    /\ \A a, b \in Block : Address[a] = Address[b] => a = b

ASSUME BoundAssumption ==
    /\ Acceptable \subseteq Block /\ Connectable \subseteq Acceptable
    /\ Genesis \in Connectable
    /\ KeepBlocks \in Nat /\ MinimumChainWork \in Nat
    /\ MinSequenceId \in Int /\ MinSequenceId < 0 /\ MaxSequenceId \in Nat
    /\ Commands \subseteq {"invalidate", "reconsider", "precious", "prune"}

VARIABLES
    index,         \* m_block_index
    haveData,      \* BLOCK_HAVE_DATA
    received,      \* nTx > 0, that is BLOCK_VALID_TRANSACTIONS or more
    linked,        \* nChainTx # 0 (HaveTxsDownloaded)
    scriptsValid,  \* BLOCK_VALID_SCRIPTS
    failedValid,   \* BLOCK_FAILED_VALID
    failedChild,   \* BLOCK_FAILED_CHILD
    dirty,         \* setDirtyBlockIndex
    sequenceId,    \* nSequenceId of each block
    nBlockSequenceId, nBlockReverseSequenceId, nLastPreciousChainwork,
    candidates,    \* setBlockIndexCandidates
    unlinked,      \* m_blocks_unlinked: blocks filed under their parent
    failedBlocks,  \* m_failed_blocks
    tip,           \* m_chain.Tip()
    pc,            \* where the holder of m_cs_chainstate is
    mostWork,      \* pindexMostWork of ActivateBestChain
    startTip,      \* its starting_tip
    oldTip,        \* pindexOldTip of ActivateBestChainStep
    connected,     \* blocks_connected
    target,        \* pindex of InvalidateBlock
    toMark,        \* its to_mark_failed
    walkTip,       \* its invalid_walk_tip
    byWork,        \* its candidate_blocks_by_work
    owed           \* a thread is about to call ActivateBestChain

statusVars == <<index, haveData, received, linked, scriptsValid, failedValid, failedChild, dirty>>
orderVars == <<sequenceId, nBlockSequenceId, nBlockReverseSequenceId, nLastPreciousChainwork>>
activateVars == <<mostWork, startTip, oldTip, connected>>
invalidateVars == <<target, toMark, walkTip, byWork>>
vars == <<statusVars, orderVars, candidates, unlinked, failedBlocks, tip, pc,
          activateVars, invalidateVars, owed>>

TypeOK ==
    /\ {index, haveData, received, linked, scriptsValid, failedValid, failedChild,
        dirty, candidates, unlinked, failedBlocks, byWork} \subseteq SUBSET Block
    /\ sequenceId \in [Block -> Int]
    /\ nBlockSequenceId \in Nat /\ nBlockReverseSequenceId \in Int
    /\ nLastPreciousChainwork \in Nat
    /\ tip \in Block
    /\ pc \in {"idle", "loop", "find", "step", "exit", "walk", "mark", "down"}
    /\ {mostWork, startTip, oldTip, target, toMark, walkTip} \subseteq Block \cup {None}
    /\ connected \in BOOLEAN /\ owed \in BOOLEAN

-----------------------------------------------------------------------------
\* CBlockIndexWorkComparator: less work, or received later, or a higher address.
Less(seq, a, b) ==
    \/ ChainWork[a] < ChainWork[b]
    \/ /\ ChainWork[a] = ChainWork[b]
       /\ \/ seq[a] > seq[b]
          \/ seq[a] = seq[b] /\ Address[a] > Address[b]

Chain == Anc[tip]
Failed == failedValid \cup failedChild
CsMainFree == pc \in {"idle", "loop", "exit", "walk"}

\* IsValid(BLOCK_VALID_TRANSACTIONS) && HaveTxsDownloaded()
Eligible(b) == b \in received \ Failed /\ b \in linked

\* The blocks a walk from b down to its ancestor f passes, f not included.
Above(f, b) == Anc[b] \ Anc[f]

\* PruneBlockIndexCandidates, for a new tip.
PruneBlockIndexCandidates(cands, seq, newTip) == {c \in cands : ~Less(seq, c, newTip)}

Init ==
    /\ index = {Genesis} /\ haveData = {Genesis} /\ received = {Genesis}
    /\ linked = {Genesis} /\ dirty = {Genesis} /\ candidates = {Genesis}
    /\ scriptsValid = {} /\ failedValid = {} /\ failedChild = {}
    /\ sequenceId = [b \in Block |-> IF b = Genesis THEN 1 ELSE 0]
    /\ nBlockSequenceId = 2 /\ nBlockReverseSequenceId = -1 /\ nLastPreciousChainwork = 0
    /\ unlinked = {} /\ failedBlocks = {} /\ byWork = {}
    /\ tip = Genesis /\ pc = "idle" /\ owed = FALSE /\ connected = FALSE
    /\ mostWork = None /\ startTip = None /\ oldTip = None
    /\ target = None /\ toMark = None /\ walkTip = None

-----------------------------------------------------------------------------
(* Headers and blocks arrive.                                              *)

\* The failed blocks a new header is found to descend from.  They are looked
\* for only when the parent has not been connected before.
FailedAncestors(b) ==
    IF Prev[b] \in scriptsValid THEN {} ELSE failedBlocks \cap Anc[Prev[b]]

\* A header that is not known yet has a known parent that is not flagged.
KnownParent(b) == b \notin index /\ Prev[b] \in index /\ Prev[b] \notin Failed

\* AcceptBlockHeader returns true.
HeaderAccepted(b) ==
    \/ b \in index \ Failed
    \/ KnownParent(b) /\ FailedAncestors(b) = {}

\* AcceptBlockHeader adds a header (AddToBlockIndex).  No more is left of a block
\* whose contents are a mutation of the real ones, and nothing of one that fails
\* CheckBlock, which ProcessNewBlock calls first.
AcceptBlockHeader(b) ==
    /\ CsMainFree
    /\ KnownParent(b) /\ FailedAncestors(b) = {}
    /\ index' = index \cup {b}
    /\ dirty' = dirty \cup {b}
    /\ UNCHANGED <<haveData, received, linked, scriptsValid, failedValid, failedChild, orderVars,
                   candidates, unlinked, failedBlocks, tip, pc, activateVars, invalidateVars, owed>>

\* AcceptBlockHeader finds that the header descends from the failed block f
\* and flags what lies between the two.
RejectBlockHeader(b, f) ==
    /\ CsMainFree
    /\ KnownParent(b)
    /\ f \in FailedAncestors(b)
    /\ failedChild' = failedChild \cup Above(f, Prev[b])
    /\ dirty' = dirty \cup Above(f, Prev[b])
    /\ UNCHANGED <<index, haveData, received, linked, scriptsValid, failedValid, orderVars,
                   candidates, unlinked, failedBlocks, tip, pc, activateVars, invalidateVars, owed>>

\* Mutant: a block that is already there is processed again.
MutantWantedAgain(b, fRequested) == fRequested
\* AcceptBlock processes any requested block it lacks, and an unrequested one
\* when it is new, has enough work and is not too far ahead.
Wanted(b, fRequested) ==
    /\ b \notin haveData
    /\ fRequested \/ /\ b \notin received
                     /\ ChainWork[b] >= ChainWork[tip]
                     /\ Height[b] <= Height[tip] + KeepBlocks
                     /\ ChainWork[b] >= MinimumChainWork

\* ProcessNewBlock with a block AcceptBlock leaves alone: its header is kept
\* and ActivateBestChain is called all the same.
IgnoreBlock(b, fRequested) ==
    /\ CsMainFree
    /\ HeaderAccepted(b)
    /\ ~Wanted(b, fRequested)
    /\ index' = index \cup {b}
    /\ dirty' = dirty \cup ({b} \ index)
    /\ owed' = TRUE
    /\ UNCHANGED <<haveData, received, linked, scriptsValid, failedValid, failedChild, orderVars,
                   candidates, unlinked, failedBlocks, tip, pc, activateVars, invalidateVars>>

\* AcceptBlock with a block whose own contents break a rule of ContextualCheckBlock.
RejectBlock(b, fRequested) ==
    /\ CsMainFree
    /\ HeaderAccepted(b)
    /\ Wanted(b, fRequested)
    /\ b \notin Acceptable
    /\ index' = index \cup {b}
    /\ failedValid' = failedValid \cup {b}
    /\ dirty' = dirty \cup {b}
    /\ UNCHANGED <<haveData, received, linked, scriptsValid, failedChild, orderVars,
                   candidates, unlinked, failedBlocks, tip, pc, activateVars, invalidateVars, owed>>

\* The blocks the queue of ReceivedBlockTransactions reaches from b.
Reached(b) == {d \in Block : b \in Anc[d] /\ Anc[d] \ Anc[b] \subseteq unlinked}

\* The orders in which the queue can hand out the sequence ids from first on, up to
\* where the counter is afterwards: parents first.
Orders(blocks, first, next) ==
    {id \in [blocks -> first .. next - 1] :
        /\ \A n \in first .. next - 1 : \E d \in blocks : id[d] = n
        /\ \A d, e \in blocks : d # e => /\ id[d] # id[e]
                                         /\ Height[d] < Height[e] => id[d] < id[e]}

\* Mutant: those that sort better than the tip and are no parent of another.
MutantLastCandidate(seq, blocks) ==
    {d \in blocks : ~Less(seq, d, tip) /\ \A e \in blocks : Height[e] <= Height[d]}
NewCandidates(seq, blocks) == {d \in blocks : ~Less(seq, d, tip)}

\* ProcessNewBlock stores a block whose ancestors have all been received
\* (ReceivedBlockTransactions): it and the descendants that waited for it get
\* their sequence ids and are considered as candidates.
ReceiveLinked(b, fRequested) ==
    /\ CsMainFree
    /\ HeaderAccepted(b) /\ Wanted(b, fRequested) /\ b \in Acceptable
    /\ Prev[b] \in linked
    /\ index' = index \cup {b}
    /\ dirty' = dirty \cup {b}
    /\ haveData' = haveData \cup {b}
    /\ received' = received \cup {b}
    /\ linked' = linked \cup Reached(b)
    /\ nBlockSequenceId' \in nBlockSequenceId + 1 .. MaxSequenceId
    /\ \E id \in Orders(Reached(b), nBlockSequenceId, nBlockSequenceId') :
           sequenceId' = [d \in Block |-> IF d \in Reached(b) THEN id[d] ELSE sequenceId[d]]
    /\ candidates' = candidates \cup NewCandidates(sequenceId', Reached(b))
    /\ unlinked' = unlinked \ (Reached(b) \ {b})
    /\ owed' = TRUE
    /\ UNCHANGED <<scriptsValid, failedValid, failedChild, nBlockReverseSequenceId,
                   nLastPreciousChainwork, failedBlocks, tip, pc, activateVars, invalidateVars>>

\* The block waits in m_blocks_unlinked for a parent not known to be invalid.
IsFiled(b) == Prev[b] \notin Failed

\* The same for a block that has to wait for an ancestor.
ReceiveUnlinked(b, fRequested) ==
    /\ CsMainFree
    /\ HeaderAccepted(b) /\ Wanted(b, fRequested) /\ b \in Acceptable
    /\ Prev[b] \notin linked
    /\ index' = index \cup {b}
    /\ dirty' = dirty \cup {b}
    /\ haveData' = haveData \cup {b}
    /\ received' = received \cup {b}
    /\ linked' = linked \ {b}
    /\ unlinked' = IF IsFiled(b) THEN unlinked \cup {b} ELSE unlinked
    /\ owed' = TRUE
    /\ UNCHANGED <<scriptsValid, failedValid, failedChild, orderVars, candidates,
                   failedBlocks, tip, pc, activateVars, invalidateVars>>

-----------------------------------------------------------------------------
(* ActivateBestChain.                                                      *)

\* A thread takes m_cs_chainstate.  ActivateBestChain is also called without a
\* new block (at start-up, for a peer that asks for a block).
ActivateBestChain ==
    /\ pc = "idle"
    /\ pc' = "loop"
    /\ owed' = FALSE
    /\ UNCHANGED <<statusVars, orderVars, candidates, unlinked, failedBlocks, tip,
                   activateVars, invalidateVars>>

\* A round begins: cs_main is taken.
LockMain ==
    /\ pc = "loop"
    /\ pc' = "find"
    /\ startTip' = tip
    /\ UNCHANGED <<statusVars, orderVars, candidates, unlinked, failedBlocks, tip,
                   mostWork, oldTip, connected, invalidateVars, owed>>

\* *setBlockIndexCandidates.rbegin()
IsBestCandidate(b) == b \in candidates /\ \A c \in candidates : ~Less(sequenceId, b, c)

\* Mutant: the failure flags are not looked at.
MutantUsableFailed == Block \ haveData
\* Blocks that rule out a candidate above them.
Unusable == Failed \cup (Block \ haveData)
OffChain(b) == Anc[b] \ Chain

\* Mutant: the branch above a pruned block is forgotten.
MutantNotRefiled(x, b) == {}
\* The blocks filed under their parents again since the data of x is missing.
Refiled(x, b) == IF x \in Failed THEN {} ELSE Above(x, b)

\* FindMostWorkChain meets the unusable block x on the way down from the best
\* candidate b and drops the part of the branch from x up to b.
DropCandidate(b, x) ==
    /\ pc = "find"
    /\ mostWork = None
    /\ IsBestCandidate(b)
    /\ x \in OffChain(b) \cap Unusable
    /\ \A y \in OffChain(b) \cap Unusable : Height[y] <= Height[x]
    /\ candidates' = candidates \ (Above(x, b) \cup {x})
    /\ failedChild' = failedChild \cup (IF x \in Failed THEN Above(x, b) ELSE {})
    /\ unlinked' = unlinked \cup Refiled(x, b)
    /\ UNCHANGED <<index, haveData, received, linked, scriptsValid, failedValid, dirty, orderVars,
                   failedBlocks, tip, pc, activateVars, invalidateVars, owed>>

\* The block the round works towards: the one kept from the last round, or
\* what FindMostWorkChain returns.
IsTarget(b) ==
    IF mostWork = None THEN IsBestCandidate(b) /\ OffChain(b) \cap Unusable = {}
    ELSE b = mostWork

\* There is nothing to do.  A call that connected no block returns at once.
AlreadyBest(b) ==
    /\ pc = "find"
    /\ IsTarget(b)
    /\ b = tip
    /\ pc' = IF connected THEN "exit" ELSE "idle"
    /\ mostWork' = None /\ startTip' = None /\ connected' = FALSE
    /\ UNCHANGED <<statusVars, orderVars, candidates, unlinked, failedBlocks, tip,
                   oldTip, invalidateVars, owed>>

\* FindMostWorkChain returns null.  A call that connected a block begins
\* another round.
NoCandidate ==
    /\ pc = "find"
    /\ mostWork = None /\ candidates = {}
    /\ pc' = IF connected THEN "loop" ELSE "idle"
    /\ startTip' = None /\ connected' = FALSE
    /\ UNCHANGED <<statusVars, orderVars, candidates, unlinked, failedBlocks, tip,
                   mostWork, oldTip, invalidateVars, owed>>

\* ActivateBestChainStep begins.
BeginStep(b) ==
    /\ pc = "find"
    /\ IsTarget(b)
    /\ b # tip
    /\ pc' = "step"
    /\ mostWork' = b
    /\ oldTip' = tip
    /\ UNCHANGED <<statusVars, orderVars, candidates, unlinked, failedBlocks, tip,
                   startTip, connected, invalidateVars, owed>>

\* DisconnectTip, until the fork point is reached.
DisconnectTip ==
    /\ pc = "step"
    /\ tip \notin Anc[mostWork]
    /\ tip \in haveData
    /\ tip' = Prev[tip]
    /\ UNCHANGED <<statusVars, orderVars, candidates, unlinked, failedBlocks, pc,
                   activateVars, invalidateVars, owed>>

\* DisconnectTip cannot read a pruned block: AbortNode.
AbortDisconnect ==
    /\ pc = "step"
    /\ tip \notin Anc[mostWork]
    /\ tip \notin haveData
    /\ pc' = "down"
    /\ UNCHANGED <<statusVars, orderVars, candidates, unlinked, failedBlocks, tip,
                   activateVars, invalidateVars, owed>>

\* Mutant: the call ends after the first step.
MutantOneStep(t, m) ==
    /\ oldTip' = None
    /\ connected' = FALSE /\ startTip' = None
    /\ pc' = "exit" /\ mostWork' = None
\* ActivateBestChainStep returned with tip t and goal m (None once an invalid
\* block was met).  cs_main is kept while the tip is worse than at the start
\* of the round, and the call ends when the goal is reached.
EndStep(t, m) ==
    /\ oldTip' = None
    /\ IF Less(sequenceId, t, startTip)
       THEN pc' = "find" /\ mostWork' = m /\ connected' = TRUE /\ startTip' = startTip
       ELSE /\ connected' = FALSE /\ startTip' = None
            /\ IF t = m THEN pc' = "exit" /\ mostWork' = None
                        ELSE pc' = "loop" /\ mostWork' = m

\* b is the next block to connect.
IsNext(b) == tip \in Anc[mostWork] /\ b \in Anc[mostWork] \ Chain /\ Prev[b] = tip

\* ConnectTip.  The step goes on until the goal or more work is reached.
ConnectTip(b) ==
    /\ pc = "step"
    /\ IsNext(b)
    /\ b \in haveData \cap Connectable
    /\ tip' = b
    /\ scriptsValid' = IF b \in Failed THEN scriptsValid ELSE scriptsValid \cup {b}
    /\ dirty' = IF b \in scriptsValid \ Failed THEN dirty ELSE dirty \cup {b}
    /\ candidates' = PruneBlockIndexCandidates(candidates, sequenceId, b)
    /\ IF ChainWork[b] > ChainWork[oldTip] \/ b = mostWork
       THEN EndStep(b, mostWork)
       ELSE UNCHANGED <<pc, activateVars>>
    /\ UNCHANGED <<index, haveData, received, linked, failedValid, failedChild, orderVars,
                   unlinked, failedBlocks, invalidateVars, owed>>

\* Mutant: the block is not flagged.
MutantNotFlagged(b) == UNCHANGED <<failedValid, failedChild, failedBlocks, dirty, candidates>>
InvalidBlockFound(b) ==
    /\ failedValid' = failedValid \cup {b}
    /\ failedBlocks' = failedBlocks \cup {b}
    /\ dirty' = dirty \cup {b}
    /\ candidates' = candidates \ {b}
    /\ UNCHANGED failedChild

\* Mutant: the goal is kept although a block below it is invalid.
MutantKeepsGoal(b) ==
    /\ pc = "step"
    /\ IsNext(b)
    /\ b \in haveData \ Connectable
    /\ InvalidBlockFound(b)
    /\ EndStep(tip, mostWork)
    /\ UNCHANGED <<index, haveData, received, linked, scriptsValid, orderVars,
                   unlinked, tip, invalidateVars, owed>>
\* ConnectBlock failed, and another branch is needed.
ConnectInvalid(b) ==
    /\ pc = "step"
    /\ IsNext(b)
    /\ b \in haveData \ Connectable
    /\ InvalidBlockFound(b)
    /\ EndStep(tip, None)
    /\ UNCHANGED <<index, haveData, received, linked, scriptsValid, orderVars,
                   unlinked, tip, invalidateVars, owed>>

\* ReadBlockFromDisk failed, since the block was pruned: AbortNode.
AbortConnect(b) ==
    /\ pc = "step"
    /\ IsNext(b)
    /\ b \notin haveData
    /\ pc' = "down"
    /\ UNCHANGED <<statusVars, orderVars, candidates, unlinked, failedBlocks, tip,
                   activateVars, invalidateVars, owed>>

\* The periodic flush at the end of ActivateBestChain is over.
ReturnActivate ==
    /\ pc = "exit"
    /\ pc' = "idle"
    /\ UNCHANGED <<statusVars, orderVars, candidates, unlinked, failedBlocks, tip,
                   activateVars, invalidateVars, owed>>

-----------------------------------------------------------------------------
(* The operator's commands.                                                *)

\* PreciousBlock: b is treated as if received before others of its work.
PreciousBlock(b) ==
    /\ "precious" \in Commands
    /\ CsMainFree
    /\ b \in index
    /\ ChainWork[b] >= ChainWork[tip]
    /\ LET id == IF ChainWork[tip] > nLastPreciousChainwork THEN -1
                 ELSE nBlockReverseSequenceId
       IN  /\ sequenceId' = [sequenceId EXCEPT ![b] = id]
           /\ nBlockReverseSequenceId' = IF id > MinSequenceId THEN id - 1 ELSE id
    /\ nLastPreciousChainwork' = ChainWork[tip]
    /\ candidates' = IF Eligible(b)
                     THEN PruneBlockIndexCandidates(candidates \cup {b}, sequenceId', tip)
                     ELSE candidates \ {b}
    /\ owed' = TRUE
    /\ UNCHANGED <<statusVars, nBlockSequenceId, unlinked, failedBlocks, tip, pc,
                   activateVars, invalidateVars>>

\* InvalidateBlock takes m_cs_chainstate and lists the blocks off the active
\* chain that may become candidates while it disconnects.
InvalidateBlock(b) ==
    /\ "invalidate" \in Commands
    /\ pc = "idle"
    /\ b \in index \ {Genesis}
    /\ pc' = "walk"
    /\ target' = b
    /\ toMark' = b
    /\ byWork' = {c \in index \ Chain : Eligible(c) /\ ~Less(sequenceId, c, Prev[b])}
    /\ UNCHANGED <<statusVars, orderVars, candidates, unlinked, failedBlocks, tip,
                   activateVars, walkTip, owed>>

\* One round: disconnect the tip ...
InvalidateDisconnect ==
    /\ pc = "walk"
    /\ target \in Chain
    /\ tip \in haveData
    /\ walkTip' = tip
    /\ tip' = Prev[tip]
    /\ pc' = "mark"
    /\ UNCHANGED <<statusVars, orderVars, candidates, unlinked, failedBlocks,
                   activateVars, target, toMark, byWork, owed>>

\* ... unless its data was pruned: InvalidateBlock gives up, and the command
\* goes on to ActivateBestChain.
InvalidateGivesUp ==
    /\ pc = "walk"
    /\ target \in Chain
    /\ tip \notin haveData
    /\ pc' = "idle"
    /\ owed' = TRUE
    /\ target' = None /\ toMark' = None /\ walkTip' = None /\ byWork' = {}
    /\ UNCHANGED <<statusVars, orderVars, candidates, unlinked, failedBlocks, tip, activateVars>>

\* ... and flag the disconnected block, before cs_main is released.
InvalidateMark ==
    /\ pc = "mark"
    /\ LET again == {c \in byWork : ~Less(sequenceId, c, tip)}
           demote == Prev[walkTip] = toMark /\ toMark \in failedValid
       IN  /\ failedValid' = (failedValid \cup {walkTip}) \ (IF demote THEN {toMark} ELSE {})
           /\ failedChild' = failedChild \cup (IF demote THEN {toMark} ELSE {})
           /\ candidates' = (candidates \ {walkTip}) \cup {tip} \cup again
           /\ byWork' = byWork \ again
           /\ dirty' = dirty \cup {walkTip} \cup (IF demote THEN {toMark} ELSE {})
    /\ toMark' = walkTip
    /\ walkTip' = None
    /\ pc' = "walk"
    /\ UNCHANGED <<index, haveData, received, linked, scriptsValid, orderVars, unlinked,
                   failedBlocks, tip, activateVars, target, owed>>

\* Mutant: what arrived while cs_main was released is not looked at.
MutantNothingMissed == {}
\* Blocks that arrived since InvalidateBlock began may be missing.
Missed == {c \in index \ {toMark} : Eligible(c) /\ ~Less(sequenceId, c, tip)}

\* The last section of InvalidateBlock, then the command's ActivateBestChain.
InvalidateFinish ==
    /\ pc = "walk"
    /\ target \notin Chain
    /\ failedValid' = failedValid \cup {toMark}
    /\ failedBlocks' = failedBlocks \cup {toMark}
    /\ dirty' = dirty \cup {toMark}
    /\ candidates' = (candidates \ {toMark}) \cup Missed
    /\ pc' = "idle"
    /\ owed' = TRUE
    /\ target' = None /\ toMark' = None /\ walkTip' = None /\ byWork' = {}
    /\ UNCHANGED <<index, haveData, received, linked, scriptsValid, failedChild, orderVars,
                   unlinked, tip, activateVars>>

\* Mutant: m_failed_blocks is left alone.
MutantForgetsSet(cleared) == failedBlocks
StillFailed(cleared) == failedBlocks \ cleared

\* ResetBlockFailureFlags: the flags of b, of its descendants and of its
\* ancestors are cleared; b and descendants may become candidates again.
ResetBlockFailureFlags(b) ==
    /\ "reconsider" \in Commands
    /\ CsMainFree
    /\ b \in index
    /\ LET below == {d \in index : b \in Anc[d] /\ ~(d \in received \ Failed)}
           cleared == below \cup (Anc[b] \cap Failed)
       IN  /\ failedValid' = failedValid \ cleared
           /\ failedChild' = failedChild \ cleared
           /\ failedBlocks' = StillFailed(cleared)
           /\ dirty' = dirty \cup cleared
           /\ candidates' = candidates \cup
                  {d \in below : d \in received \cap linked /\ Less(sequenceId, tip, d)}
    /\ owed' = TRUE
    /\ UNCHANGED <<index, haveData, received, linked, scriptsValid, orderVars, unlinked, tip, pc,
                   activateVars, invalidateVars>>

\* Mutant: pruned blocks stay in m_blocks_unlinked.
MutantStaysFiled(blocks) == unlinked
Unfiled(blocks) == unlinked \ blocks

\* ConnectTip and DisconnectTip call FlushStateToDisk once the coins have moved
\* and before m_chain does; other callers find cs_main free.
Flushes == CsMainFree \/ pc = "mark" \/ (pc = "step" /\ tip # oldTip)
HeightAtFlush ==
    IF CsMainFree THEN Height[tip]
    ELSE IF pc = "mark" \/ tip \in Anc[oldTip] THEN Height[tip] + 1 ELSE Height[tip] - 1

\* FlushStateToDisk prunes block files: no block near the tip is in one.
PruneFiles(blocks) ==
    /\ "prune" \in Commands
    /\ Flushes
    /\ blocks # {}
    /\ \A b \in blocks : b \in haveData /\ Height[b] <= HeightAtFlush - KeepBlocks
    /\ haveData' = haveData \ blocks
    /\ unlinked' = Unfiled(blocks)
    /\ dirty' = dirty \cup blocks
    /\ UNCHANGED <<index, received, linked, scriptsValid, failedValid, failedChild, orderVars,
                   candidates, failedBlocks, tip, pc, activateVars, invalidateVars, owed>>

-----------------------------------------------------------------------------
Arrival ==
    \E b \in Block \ {Genesis} :
        \/ AcceptBlockHeader(b)
        \/ \E f \in Block : RejectBlockHeader(b, f)
        \/ \E fRequested \in BOOLEAN :
               \/ IgnoreBlock(b, fRequested)
               \/ RejectBlock(b, fRequested)
               \/ ReceiveLinked(b, fRequested)
               \/ ReceiveUnlinked(b, fRequested)

ActivateStep ==
    \/ LockMain
    \/ NoCandidate
    \/ \E b \in Block : \/ \E x \in Block : DropCandidate(b, x)
                        \/ AlreadyBest(b)
                        \/ BeginStep(b)
                        \/ ConnectTip(b)
                        \/ ConnectInvalid(b)
                        \/ AbortConnect(b)
    \/ DisconnectTip
    \/ AbortDisconnect
    \/ ReturnActivate

InvalidateStep ==
    \/ InvalidateDisconnect
    \/ InvalidateGivesUp
    \/ InvalidateMark
    \/ InvalidateFinish

Operator ==
    \E b \in Block : \/ PreciousBlock(b)
                     \/ InvalidateBlock(b)
                     \/ ResetBlockFailureFlags(b)

Pruning == \E blocks \in SUBSET haveData : PruneFiles(blocks)

Live == Arrival \/ ActivateBestChain \/ ActivateStep \/ InvalidateStep \/ Operator
Next == Live \/ Pruning

Spec == Init /\ [][Next]_vars

\* A call that is due is made, and a call that was made is carried through.
FairSpec == /\ Spec
            /\ WF_vars(owed /\ ActivateBestChain)
            /\ WF_vars(ActivateStep)
            /\ WF_vars(InvalidateStep)

-----------------------------------------------------------------------------
(* Properties.                                                             *)

\* What CheckBlockIndex knows of the path from the genesis block to b.
Processed(b) == Anc[b] \subseteq received
Invalid(b) == Anc[b] \cap failedValid # {}
Complete(b) == Anc[b] \subseteq haveData

\* CheckBlockIndex: a block that sorts at least as good as the tip, with all
\* ancestors valid and on disk, is a candidate, and so is the tip.  While
\* InvalidateBlock is under way blocks may arrive that it adds at its end.
CandidatesComplete ==
    CsMainFree /\ pc # "walk" =>
        \A b \in index :
            /\ ~Less(sequenceId, b, tip) /\ Processed(b) /\ ~Invalid(b)
            /\ Complete(b) \/ b = tip
            => b \in candidates

\* CheckBlockIndex: no candidate sorts worse than the tip or has an ancestor
\* that was never received.
CandidatesSound ==
    CsMainFree => \A c \in candidates : ~Less(sequenceId, c, tip) /\ Processed(c)

\* CheckBlockIndex: "Can't be in m_blocks_unlinked if we don't HAVE_DATA".
UnlinkedHasData == CsMainFree => unlinked \subseteq haveData

\* CheckBlockIndex: m_blocks_unlinked holds the blocks that wait for an
\* ancestor that was never received, no block that waits for nothing, and the
\* blocks dropped from the candidates since an ancestor was pruned.  The tip is
\* left to CandidatesComplete, which says that it is a candidate.
UnlinkedExact ==
    /\ UnlinkedHasData
    /\ CsMainFree =>
        \A b \in index \ {Genesis} :
            /\ b \in haveData /\ ~Processed(b) /\ ~Invalid(b) => b \in unlinked
            /\ Complete(b) => b \notin unlinked
            /\ /\ b \in haveData \ {tip} /\ Processed(b) /\ ~Invalid(b)
               /\ ~Complete(b) /\ ~Less(sequenceId, b, tip) /\ b \notin candidates
               => b \in unlinked

\* CheckBlockIndex: HaveTxsDownloaded() tells that the block and all its
\* ancestors were received at some point.
LinkedExact == linked = {b \in Block : Processed(b)}

\* CheckBlockIndex: a block is flagged as failed only below a block that
\* failed itself.
FailedHasCause == CsMainFree => \A b \in Failed : Invalid(b)

\* The active chain holds no block known to be invalid, and only blocks that
\* were connected.
ActiveChainValid == Chain \cap Failed = {} /\ Chain \subseteq scriptsValid \cup {Genesis}

\* The goal of ActivateBestChain is kept while cs_main is released; what it
\* then connects is still there and still not known to be invalid.
GoalNotStale ==
    pc = "step" => \A b \in Block : IsNext(b) => b \in haveData \ Failed

\* AcceptBlockHeader asserts that m_failed_blocks holds blocks that failed.
FailedBlocksFailed == failedBlocks \subseteq failedValid

\* With no call of ActivateBestChain under way or due, no other branch that
\* is complete and not known to be invalid is better than the active chain.
Attainable(b) ==
    b \in index /\ Processed(b) /\ ~Invalid(b) /\ OffChain(b) \subseteq haveData
TipIsBest ==
    pc = "idle" /\ ~owed => \A b \in Block : Attainable(b) => ~Less(sequenceId, tip, b)

\* Every block adds as much work as any other.  Where this is not so a branch of few, heavy
\* blocks can be as good as the tip and far enough below it in height to be pruned.
EvenWork == \A b \in Block : ChainWork[b] = Height[b]

\* The same by work alone; with pruning, where work is height.
TipHasMostWork ==
    ("prune" \in Commands => EvenWork) /\ pc = "idle" /\ ~owed =>
        \A b \in Block : Attainable(b) => ChainWork[b] <= ChainWork[tip]

\* InvalidateBlock: "We only want to mark the last disconnected block as
\* BLOCK_FAILED_VALID; its children need to be BLOCK_FAILED_CHILD instead."
ChildDemoted ==
    [][pc = "mark" /\ toMark # target => toMark \in failedChild' \ failedValid']_vars

\* The position of a block in setBlockIndexCandidates depends on its sequence
\* id, so a block that is in the set does not get a new one when blocks arrive.
KeepsKeys ==
    nBlockSequenceId' # nBlockSequenceId =>
        \A b \in candidates : sequenceId'[b] = sequenceId[b]

\* Every call of ActivateBestChain ends; only one that needs a pruned block
\* ends in AbortNode.
CallsEnd == pc # "idle" ~> pc = "idle" \/ (pc = "down" /\ received \ haveData # {})

\* A complete branch that is not known to be invalid is better than the tip.
Behind == \E b \in Block \ {Genesis} : Attainable(b) /\ Less(sequenceId, tip, b)
=============================================================================
