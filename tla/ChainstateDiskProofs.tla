------------------------ MODULE ChainstateDiskProofs ------------------------
(***************************************************************************)
(* Crashes: what is on disk is enough to start from, at any moment.  After a *)
(* restart the active chain may hold a block that carries a failure flag     *)
(* (InvalidateBlock had flagged it, and the coins had not been flushed), so  *)
(* that ValidInv is too strong; MemInv is what remains of it.                *)
(***************************************************************************)
EXTENDS ChainstateDisk, ChainstateProofs

\* The part of the path to the goal that is not connected yet.
ToConnect == IF mostWork = None THEN {} ELSE Anc[mostWork] \ Chain

MemInv ==
    /\ haveData \subseteq received \cap Acceptable /\ received \subseteq index
    /\ Chain \subseteq received /\ Chain \subseteq scriptsValid \cup {Genesis}
    /\ failedBlocks \subseteq failedValid /\ failedBlocks \cap Chain = {}
    /\ ToConnect \cap Failed = {} /\ ToConnect \subseteq Acceptable

\* What is on disk is what was in memory when a block's entry was last written,
\* and these three sets only grow.
DiskInv ==
    /\ stored \in Stored /\ coinsBest \in Block /\ flushing \in {"no", "index", "coins"}
    /\ stored.index \subseteq index /\ index \ dirty \subseteq stored.index
    /\ stored.received \subseteq received /\ received \ dirty \subseteq stored.received
    /\ stored.scriptsValid \subseteq scriptsValid
    /\ scriptsValid \ dirty \subseteq stored.scriptsValid
    /\ stored.haveData \subseteq stored.received \cap Acceptable
    /\ stored.received \subseteq stored.index
    /\ flushing = "coins" => dirty = {}
    /\ CoinsBehindIndex

DInv == TypeInv /\ CallInv /\ MemInv /\ DiskInv

\* What an action does to the sets that are on disk, as far as DiskInv needs it.
Recorded ==
    /\ index \subseteq index' /\ received \subseteq received' /\ scriptsValid \subseteq scriptsValid'
    /\ dirty \subseteq dirty'
    /\ index' \subseteq index \cup dirty' /\ received' \subseteq received \cup dirty'
    /\ scriptsValid' \subseteq scriptsValid \cup dirty'

\* Whatever changes in memory is recorded in setDirtyBlockIndex.
LEMMA StepRecorded == Live \/ Pruning => Recorded
<1> SUFFICES ASSUME Live \/ Pruning PROVE Recorded
    BY SMTT(30)
<1>1. CASE Arrival
    BY <1>1, SMTT(30) DEF Arrival, AcceptBlockHeader, RejectBlockHeader, IgnoreBlock, RejectBlock,
       ReceiveLinked, ReceiveUnlinked, Recorded
<1>2. CASE ActivateBestChain \/ LockMain \/ NoCandidate \/ DisconnectTip \/ AbortDisconnect
           \/ ReturnActivate \/ InvalidateDisconnect \/ InvalidateGivesUp
    BY <1>2, Zenon DEF ActivateBestChain, LockMain, NoCandidate, DisconnectTip, AbortDisconnect,
       ReturnActivate, InvalidateDisconnect, InvalidateGivesUp, statusVars, Recorded
<1>3. ASSUME NEW b \in Block,
             AlreadyBest(b) \/ BeginStep(b) \/ AbortConnect(b) \/ PreciousBlock(b) \/ InvalidateBlock(b)
      PROVE  Recorded
    BY <1>3, Zenon DEF AlreadyBest, BeginStep, AbortConnect, PreciousBlock, InvalidateBlock,
       statusVars, Recorded
<1>4. ASSUME NEW b \in Block, NEW x \in Block, DropCandidate(b, x)
      PROVE  Recorded
    BY <1>4, Zenon DEF DropCandidate, Recorded
<1>5. ASSUME NEW b \in Block, ConnectTip(b)
      PROVE  Recorded
    BY <1>5, Zenon DEF ConnectTip, Recorded
<1>6. ASSUME NEW b \in Block, ConnectInvalid(b)
      PROVE  Recorded
    BY <1>6, Zenon DEF ConnectInvalid, InvalidBlockFound, Recorded
<1>7. CASE InvalidateMark \/ InvalidateFinish
    BY <1>7, Zenon DEF InvalidateMark, InvalidateFinish, Recorded
<1>8. ASSUME NEW b \in Block, ResetBlockFailureFlags(b)
      PROVE  Recorded
    BY <1>8, Zenon DEF ResetBlockFailureFlags, Recorded
<1>9. CASE Pruning
    BY <1>9, Zenon DEF Pruning, PruneFiles, Recorded
<1> QED
    BY <1>1, <1>2, <1>3, <1>4, <1>5, <1>6, <1>7, <1>8, <1>9, Zenon DEF Live, ActivateStep,
       InvalidateStep, Operator

\* Flags that stay off the path to the goal are harmless while the chain and
\* the goal stay where they are.
LEMMA MemKept ==
    ASSUME TypeInv, MemInv, NEW flagged, flagged \cap ToConnect = {},
           failedValid' \cup failedChild' \subseteq Failed \cup flagged,
           UNCHANGED <<tip, scriptsValid>>, mostWork' \in {mostWork, None},
           haveData' \subseteq received' \cap Acceptable, received \subseteq received',
           received' \subseteq index', failedBlocks' \subseteq failedValid',
           failedBlocks' \cap Anc[tip] = {}
    PROVE  MemInv'
<1>1. Chain' = Chain /\ Chain = Anc[tip]
    BY Zenon DEF Chain
<1>2. ToConnect' \subseteq ToConnect
    BY <1>1, Zenon DEF ToConnect
<1>3. Failed' \subseteq Failed \cup flagged
    BY Zenon DEF Failed
<1> QED
    BY <1>1, <1>2, <1>3, Zenon DEF MemInv

\* The same when nothing but the goal and the lists of candidates changes.
LEMMA MemSame ==
    ASSUME TypeInv, MemInv, mostWork' \in {mostWork, None},
           UNCHANGED <<tip, scriptsValid, haveData, received, index, failedValid, failedChild,
                       failedBlocks>>
    PROVE  MemInv'
<1>1. Failed' \subseteq Failed \cup {}
    BY Zenon DEF Failed
<1> QED
    BY <1>1, MemKept, Zenon DEF MemInv, Chain, Failed

\* A walk down from a header to a failed block of m_failed_blocks leaves the
\* path to the goal alone.
LEMMA WalkOffGoal ==
    ASSUME TypeInv, MemInv, NEW b \in Block, NEW f \in Anc[b], f \in failedBlocks
    PROVE  Above(f, b) \cap ToConnect = {}
<1> SUFFICES ASSUME NEW d \in Above(f, b), d \in ToConnect
             PROVE  FALSE
    OBVIOUS
<1>1. f \in Anc[d]
    BY AboveDescends
<1>2. mostWork \in Block /\ d \in Anc[mostWork]
    BY Zenon DEF ToConnect, TypeInv
<1>3. f \in Anc[mostWork]
    BY <1>1, <1>2, AncFacts
<1>4. f \in ToConnect
    BY <1>2, <1>3, TreeAssumption DEF ToConnect, MemInv
<1> QED
    BY <1>4, Zenon DEF MemInv, Failed

\* Arrivals keep MemInv.
LEMMA MemArrival == TypeInv /\ MemInv /\ Arrival => MemInv'
<1> SUFFICES ASSUME TypeInv, MemInv, Arrival
             PROVE  MemInv'
    BY Zenon
<1>1. ASSUME NEW b \in Block \ {Genesis}, NEW r \in BOOLEAN, AcceptBlockHeader(b) \/ IgnoreBlock(b, r)
      PROVE  MemInv'
    <2>1. /\ UNCHANGED <<failedValid, failedChild, failedBlocks, tip, scriptsValid, mostWork,
                         haveData, received>>
          /\ index' = index \cup {b}
        BY <1>1, Zenon DEF AcceptBlockHeader, IgnoreBlock, activateVars
    <2>2. failedValid' \cup failedChild' \subseteq Failed \cup {}
        BY <2>1, Zenon DEF Failed
    <2> QED
        BY <2>1, <2>2, MemKept, Zenon DEF MemInv, Chain
<1>2. ASSUME NEW b \in Block \ {Genesis}, NEW f \in Block, RejectBlockHeader(b, f)
      PROVE  MemInv'
    <2> DEFINE flagged == Above(f, Prev[b])
    <2>1. Prev[b] \in Block /\ f \in Anc[Prev[b]] /\ f \in failedBlocks
        BY <1>2, ParentFacts, Zenon DEF RejectBlockHeader, FailedAncestors
    <2>2. flagged \cap ToConnect = {}
        BY <2>1, WalkOffGoal
    <2>3. /\ failedValid' \cup failedChild' \subseteq Failed \cup flagged
          /\ UNCHANGED <<tip, scriptsValid, mostWork, haveData, received, index, failedBlocks, failedValid>>
        BY <1>2, Zenon DEF RejectBlockHeader, Failed, activateVars
    <2> HIDE DEF flagged
    <2> QED
        BY <2>2, <2>3, MemKept, Zenon DEF MemInv, Chain
<1>3. ASSUME NEW b \in Block \ {Genesis}, NEW r \in BOOLEAN, RejectBlock(b, r)
      PROVE  MemInv'
    <2>1. {b} \cap ToConnect = {}
        BY <1>3, Zenon DEF RejectBlock, MemInv
    <2>2. /\ failedValid' \cup failedChild' \subseteq Failed \cup {b}
          /\ UNCHANGED <<tip, scriptsValid, mostWork, haveData, received, failedBlocks>>
          /\ index' = index \cup {b} /\ failedValid' = failedValid \cup {b}
        BY <1>3 DEF RejectBlock, Failed, activateVars
    <2> QED
        BY <2>1, <2>2, MemKept, Zenon DEF MemInv, Chain
<1>4. ASSUME NEW b \in Block \ {Genesis}, NEW r \in BOOLEAN,
             ReceiveLinked(b, r) \/ ReceiveUnlinked(b, r)
      PROVE  MemInv'
    <2>1. /\ UNCHANGED <<failedValid, failedChild, failedBlocks, tip, scriptsValid, mostWork>>
          /\ haveData' = haveData \cup {b} /\ received' = received \cup {b}
          /\ index' = index \cup {b} /\ b \in Acceptable
        BY <1>4, Zenon DEF ReceiveLinked, ReceiveUnlinked, activateVars
    <2>2. failedValid' \cup failedChild' \subseteq Failed \cup {}
        BY <2>1, Zenon DEF Failed
    <2> QED
        BY <2>1, <2>2, MemKept, Zenon DEF MemInv, Chain
<1> QED
    BY <1>1, <1>2, <1>3, <1>4, Zenon DEF Arrival

\* Steps of ActivateBestChain keep MemInv.
LEMMA MemActivate ==
    TypeInv /\ CallInv /\ MemInv /\ (ActivateBestChain \/ ActivateStep) => MemInv'
<1> SUFFICES ASSUME TypeInv, CallInv, MemInv, ActivateBestChain \/ ActivateStep
             PROVE  MemInv'
    BY Zenon
<1>1. CASE ActivateBestChain \/ LockMain \/ NoCandidate \/ AbortDisconnect \/ ReturnActivate
    <2>1. UNCHANGED <<failedValid, failedChild, failedBlocks, tip, scriptsValid, mostWork, haveData,
                      received, index>>
        BY <1>1, Zenon DEF ActivateBestChain, LockMain, NoCandidate, AbortDisconnect,
           ReturnActivate, statusVars, activateVars
    <2> QED
        BY <2>1, MemSame, Zenon
<1>2. ASSUME NEW b \in Block, AlreadyBest(b) \/ AbortConnect(b)
      PROVE  MemInv'
    <2>1. /\ UNCHANGED <<failedValid, failedChild, failedBlocks, tip, scriptsValid, haveData,
                         received, index>>
          /\ mostWork' \in {mostWork, None}
        BY <1>2 DEF AlreadyBest, AbortConnect, statusVars, activateVars
    <2> QED
        BY <2>1, MemSame, Zenon
<1>3. ASSUME NEW b \in Block, NEW x \in Block, DropCandidate(b, x)
      PROVE  MemInv'
    <2> DEFINE flagged == Above(x, b)
    <2>1. ToConnect = {}
        BY <1>3, Zenon DEF DropCandidate, ToConnect
    <2>2. /\ failedValid' \cup failedChild' \subseteq Failed \cup flagged
          /\ UNCHANGED <<tip, scriptsValid, mostWork, haveData, received, index, failedBlocks, failedValid>>
        BY <1>3, Zenon DEF DropCandidate, Failed, activateVars
    <2> HIDE DEF flagged
    <2>3. /\ haveData' \subseteq received' \cap Acceptable /\ received \subseteq received'
          /\ received' \subseteq index' /\ failedBlocks' \subseteq failedValid'
          /\ failedBlocks' \cap Anc[tip] = {} /\ flagged \cap ToConnect = {}
        BY <2>1, <2>2, Zenon DEF MemInv, Chain
    <2> QED
        BY <2>2, <2>3, MemKept, Zenon
<1>4. ASSUME NEW b \in Block, BeginStep(b)
      PROVE  MemInv'
    <2>1. UNCHANGED <<failedValid, failedChild, failedBlocks, tip, scriptsValid, haveData, received, index>>
          /\ mostWork' = b
        BY <1>4, Zenon DEF BeginStep, statusVars
    <2>2. CASE mostWork # None
        BY <1>4, <2>1, <2>2, MemSame, Zenon DEF BeginStep, IsTarget
    <2>3. CASE mostWork = None
        <3>1. (Anc[b] \ Chain) \cap (Failed \cup (Block \ haveData)) = {}
            BY <1>4, <2>3, Zenon DEF BeginStep, IsTarget, OffChain, Unusable
        <3>2. ToConnect' = Anc[b] \ Chain /\ Chain' = Chain /\ Failed' = Failed
            BY <2>1, TreeAssumption, Zenon DEF ToConnect, Chain, Failed
        <3>3. Anc[b] \subseteq Block
            BY AncFacts, Zenon
        <3> QED
            BY <2>1, <3>1, <3>2, <3>3, Zenon DEF MemInv
    <2> QED
        BY <2>2, <2>3, Zenon
<1>5. CASE DisconnectTip
    <2>1. tip \in Block /\ mostWork \in Block /\ tip \notin Anc[mostWork] /\ tip' = Prev[tip]
        BY <1>5, Zenon DEF DisconnectTip, TypeInv, CallInv
    <2>2. tip # Genesis
        BY <2>1, AncFacts, Zenon
    <2>3. Anc[tip] = {tip} \cup Anc[tip']
        BY <2>1, <2>2, ParentFacts, Zenon
    <2>4. UNCHANGED <<failedValid, failedChild, failedBlocks, scriptsValid, haveData, mostWork,
                      received, index>>
        BY <1>5, Zenon DEF DisconnectTip, statusVars, activateVars
    <2>5. ToConnect' = ToConnect /\ Failed' = Failed
        BY <2>1, <2>3, <2>4, Zenon DEF ToConnect, Chain, Failed
    <2>6. Chain' \subseteq Chain
        BY <2>3, Zenon DEF Chain
    <2> QED
        BY <2>4, <2>5, <2>6, Zenon DEF MemInv
<1>6. ASSUME NEW b \in Block, ConnectTip(b)
      PROVE  MemInv'
    <2>1. mostWork \in Block /\ b \in Anc[mostWork] /\ b \notin Chain /\ Prev[b] = tip
        BY <1>6, Zenon DEF ConnectTip, IsNext, TypeInv, CallInv
    <2>2. b \in ToConnect
        BY <2>1, TreeAssumption, Zenon DEF ToConnect
    <2>3. b \notin Failed /\ b \in received /\ b \notin failedBlocks
        BY <1>6, <2>2, Zenon DEF MemInv, ConnectTip, Failed
    <2>4. b # Genesis
        BY <2>1, AncFacts, Zenon DEF TypeInv, Chain
    <2>5. Anc[b] = {b} \cup Anc[tip]
        BY <2>1, <2>4, ParentFacts
    <2>6. /\ tip' = b /\ scriptsValid' = scriptsValid \cup {b}
          /\ UNCHANGED <<failedValid, failedChild, failedBlocks, haveData, received, index>>
        BY <1>6, <2>3 DEF ConnectTip
    <2>7. mostWork' \in {mostWork, None}
        BY <1>6, EndStepCalls DEF ConnectTip, activateVars
    <2>8. Chain' = Chain \cup {b} /\ Failed' = Failed
        BY <2>5, <2>6 DEF Chain, Failed
    <2>9. ToConnect' \subseteq ToConnect
        BY <2>7, <2>8 DEF ToConnect
    <2> QED
        BY <2>3, <2>6, <2>8, <2>9, Zenon DEF MemInv
<1>7. ASSUME NEW b \in Block, ConnectInvalid(b)
      PROVE  MemInv'
    <2>1. b \notin Chain
        BY <1>7, Zenon DEF ConnectInvalid, IsNext
    <2>2. mostWork' = None
        BY <1>7, EndStepCalls DEF ConnectInvalid
    <2>3. /\ failedValid' = failedValid \cup {b} /\ failedBlocks' = failedBlocks \cup {b}
          /\ UNCHANGED <<failedChild, tip, scriptsValid, haveData, received, index>>
        BY <1>7, Zenon DEF ConnectInvalid, InvalidBlockFound
    <2>4. ToConnect' = {} /\ Chain' = Chain
        BY <2>2, <2>3 DEF ToConnect, Chain
    <2> QED
        BY <2>1, <2>3, <2>4 DEF MemInv
<1> QED
    BY <1>1, <1>2, <1>3, <1>4, <1>5, <1>6, <1>7, Zenon DEF ActivateStep

\* InvalidateBlock and the other commands keep MemInv: a block is flagged, and
\* put into m_failed_blocks, once it is off the chain.
LEMMA MemCommand ==
    TypeInv /\ CallInv /\ MemInv /\ (InvalidateStep \/ Operator \/ Pruning) => MemInv'
<1> SUFFICES ASSUME TypeInv, CallInv, MemInv, InvalidateStep \/ Operator \/ Pruning
             PROVE  MemInv'
    BY Zenon
<1>1. CASE InvalidateDisconnect
    <2>1. /\ target \in Block \ {Genesis} /\ target \in Anc[tip] /\ tip \in Block
          /\ mostWork = None
        BY <1>1, Zenon DEF InvalidateDisconnect, CallInv, TypeInv, Chain
    <2>2. tip # Genesis
        BY <2>1, TreeAssumption, Zenon
    <2>3. Anc[Prev[tip]] \subseteq Anc[tip]
        BY <2>1, <2>2, ParentFacts
    <2>4. /\ UNCHANGED <<failedValid, failedChild, failedBlocks, scriptsValid, haveData, mostWork,
                         received, index>>
          /\ tip' = Prev[tip]
        BY <1>1, Zenon DEF InvalidateDisconnect, statusVars, activateVars
    <2>5. Chain' \subseteq Chain /\ ToConnect' = {}
        BY <2>1, <2>3, <2>4, Zenon DEF Chain, ToConnect
    <2> QED
        BY <2>4, <2>5, Zenon DEF MemInv
<1>2. CASE InvalidateGivesUp
    BY <1>2, MemSame, Zenon DEF InvalidateGivesUp, statusVars, activateVars
<1>3. CASE InvalidateMark
    <2>1. walkTip \in Block /\ walkTip # Genesis /\ Prev[walkTip] = tip /\ mostWork = None
        BY <1>3, Zenon DEF InvalidateMark, CallInv
    <2>2. tip \notin failedBlocks
        BY AncFacts, Zenon DEF TypeInv, MemInv, Chain
    <2>3. /\ \/ failedValid' = failedValid \cup {walkTip}
             \/ toMark = tip /\ failedValid' = (failedValid \cup {walkTip}) \ {toMark}
          /\ UNCHANGED <<failedBlocks, tip, scriptsValid, haveData, mostWork, received, index>>
        BY <1>3, <2>1, Zenon DEF InvalidateMark, activateVars
    <2>4. ToConnect' = {} /\ Chain' = Chain
        BY <2>1, <2>3, Zenon DEF ToConnect, Chain
    <2> QED
        BY <2>2, <2>3, <2>4, Zenon DEF MemInv
<1>4. CASE InvalidateFinish
    <2>1. /\ toMark \in Block /\ target \in Anc[toMark] /\ target \notin Anc[tip] /\ mostWork = None
        BY <1>4, Zenon DEF InvalidateFinish, CallInv, Chain
    <2>2. toMark \notin Chain
        BY <2>1, AncFacts, Zenon DEF TypeInv, Chain
    <2>3. /\ failedValid' = failedValid \cup {toMark} /\ failedBlocks' = failedBlocks \cup {toMark}
          /\ UNCHANGED <<failedChild, tip, scriptsValid, haveData, mostWork, received, index>>
        BY <1>4, Zenon DEF InvalidateFinish, activateVars
    <2>4. ToConnect' = {} /\ Chain' = Chain
        BY <2>1, <2>3, Zenon DEF ToConnect, Chain
    <2> QED
        BY <2>2, <2>3, <2>4, Zenon DEF MemInv
<1>5. ASSUME NEW b \in Block, PreciousBlock(b) \/ InvalidateBlock(b)
      PROVE  MemInv'
    <2>1. UNCHANGED <<failedValid, failedChild, failedBlocks, tip, scriptsValid, haveData, mostWork,
                      received, index>>
        BY <1>5, Zenon DEF PreciousBlock, InvalidateBlock, statusVars, activateVars
    <2> QED
        BY <2>1, MemSame, Zenon
<1>6. ASSUME NEW b \in Block, ResetBlockFailureFlags(b)
      PROVE  MemInv'
    <2>1. /\ failedValid' \cup failedChild' \subseteq Failed \cup {}
          /\ failedBlocks' \subseteq failedValid' /\ failedBlocks' \subseteq failedBlocks
          /\ UNCHANGED <<tip, scriptsValid, haveData, mostWork, received, index>>
        BY <1>6, Zenon DEF ResetBlockFailureFlags, StillFailed, Failed, activateVars, MemInv
    <2> QED
        BY <2>1, MemKept, Zenon DEF MemInv, Chain
<1>7. ASSUME NEW blocks \in SUBSET haveData, PruneFiles(blocks)
      PROVE  MemInv'
    <2>1. /\ UNCHANGED <<failedValid, failedChild, failedBlocks, tip, scriptsValid, mostWork,
                         received, index>>
          /\ haveData' \subseteq haveData
        BY <1>7, Zenon DEF PruneFiles, activateVars
    <2>2. failedValid' \cup failedChild' \subseteq Failed \cup {}
        BY <2>1, Zenon DEF Failed
    <2>3. /\ haveData' \subseteq received' \cap Acceptable /\ received \subseteq received'
          /\ received' \subseteq index' /\ failedBlocks' \subseteq failedValid'
          /\ failedBlocks' \cap Anc[tip] = {} /\ {} \cap ToConnect = {}
        BY <2>1, Zenon DEF MemInv, Chain
    <2> QED
        BY <2>1, <2>2, <2>3, MemKept, Zenon
<1> QED
    BY <1>1, <1>2, <1>3, <1>4, <1>5, <1>6, <1>7 DEF InvalidateStep, Operator, Pruning

\* A step in memory keeps DInv: what it changes is dirty.
LEMMA LiveKeepsDInv ==
    ASSUME DInv, Live \/ Pruning, flushing = "no", UNCHANGED <<stored, coinsBest>>,
           flushing' \in {"no", "index"}
    PROVE  DInv'
<1>1. TypeInv' /\ CallInv'
    BY TypeStep, CallStep, Zenon DEF DInv, Next
<1>2. MemInv'
    BY MemArrival, MemActivate, MemCommand DEF DInv, Live
<1>3. Recorded
    BY StepRecorded, Zenon
<1>4. DiskInv'
    BY <1>3 DEF DInv, DiskInv, Recorded, CoinsBehindIndex
<1> QED
    BY <1>1, <1>2, <1>4 DEF DInv

\* A write of the block index brings the disk up to date.
LEMMA WriteKeepsDInv ==
    ASSUME DInv, WriteBlockIndex, flushing' \in {"no", "coins"}
    PROVE  DInv'
<1>1. /\ UNCHANGED <<index, haveData, received, linked, scriptsValid, failedValid, failedChild,
                     orderVars, candidates, unlinked, failedBlocks, tip, pc, activateVars,
                     invalidateVars, owed, coinsBest>>
      /\ dirty' = {}
    BY Zenon DEF WriteBlockIndex
<1>2. TypeInv' /\ CallInv' /\ MemInv'
    <2>1. TypeInv'
        BY <1>1 DEF DInv, TypeInv, orderVars, activateVars, invalidateVars
    <2>2. CallInv'
        BY <1>1, CallStutter, Zenon DEF DInv, activateVars, invalidateVars
    <2>3. MemInv'
        BY <1>1, MemSame, Zenon DEF DInv, activateVars
    <2> QED
        BY <2>1, <2>2, <2>3, Zenon
<1>3. /\ stored'.index = Update(stored.index, index)
      /\ stored'.haveData = Update(stored.haveData, haveData)
      /\ stored'.received = Update(stored.received, received)
      /\ stored'.scriptsValid = Update(stored.scriptsValid, scriptsValid)
    BY Zenon DEF WriteBlockIndex
<1>4. stored' \in Stored
    BY DEF WriteBlockIndex, Update, Stored, DInv, DiskInv, TypeInv
<1>5. stored'.index = index /\ stored'.received = received /\ stored'.scriptsValid = scriptsValid
    BY <1>3 DEF Update, DInv, DiskInv
<1>6. stored'.haveData \subseteq received \cap Acceptable
    BY <1>3, Zenon DEF Update, DInv, DiskInv, MemInv
<1>7. CoinsBehindIndex'
    BY <1>1, <1>5, Zenon DEF DInv, DiskInv, CoinsBehindIndex
<1>8. DiskInv'
    BY <1>1, <1>4, <1>5, <1>6, <1>7, Zenon DEF DInv, DiskInv, MemInv
<1> QED
    BY <1>2, <1>8, Zenon DEF DInv

\* The coins follow: the chain they are flushed for is in the index on disk.
LEMMA CoinsKeepDInv == DInv /\ FlushCoins => DInv'
<1> SUFFICES ASSUME DInv, FlushCoins PROVE DInv'
    BY Zenon
<1>1. UNCHANGED vars /\ UNCHANGED stored /\ coinsBest' = tip /\ flushing' = "no" /\ dirty = {}
    BY Zenon DEF FlushCoins, DInv, DiskInv
<1>2. TypeInv' /\ CallInv'
    BY <1>1, TypeStep, CallStep DEF DInv
<1>3. MemInv'
    BY <1>1, MemSame DEF DInv, vars, statusVars, activateVars
<1>4. CoinsBehindIndex'
    BY <1>1, Zenon DEF DInv, DiskInv, MemInv, CoinsBehindIndex, Chain
<1>5. DiskInv'
    BY <1>1, <1>4 DEF DInv, DiskInv, TypeInv, vars, statusVars
<1> QED
    BY <1>2, <1>3, <1>5 DEF DInv

\* A restart takes the state on disk into memory.
LEMMA RestartKeepsDInv == DInv /\ Restart => DInv'
<1> SUFFICES ASSUME DInv, Restart PROVE DInv'
    BY Zenon
<1>1. /\ stored.index \subseteq Block /\ stored.haveData \subseteq Block
      /\ stored.received \subseteq Block /\ stored.scriptsValid \subseteq Block
      /\ stored.failedValid \subseteq Block /\ stored.failedChild \subseteq Block
      /\ coinsBest \in Block
    BY Zenon DEF DInv, DiskInv, Stored
<1>2. /\ LoadedFailed \subseteq Block /\ LoadedLinked \subseteq Block
      /\ LoadedUnlinked \subseteq Block /\ LoadedCandidates \subseteq Block
    BY <1>1, Zenon DEF LoadedFailed, LoadedLinked, LoadedUnlinked, LoadedCandidates,
       PruneBlockIndexCandidates
<1>3. /\ sequenceId' \in [Block -> Int] /\ nBlockSequenceId' \in Nat
      /\ nBlockReverseSequenceId' \in Int /\ nLastPreciousChainwork' \in Nat
    BY DEF Restart
<1>4. TypeInv'
    BY <1>1, <1>2, <1>3, Zenon DEF Restart, TypeInv
<1>5. CallInv'
    BY Zenon DEF Restart, CallInv
<1>6. MemInv'
    <2>1. Chain' = Anc[coinsBest] /\ ToConnect' = {} /\ failedBlocks' = {}
        BY Zenon DEF Restart, Chain, ToConnect
    <2>2. /\ haveData' = stored.haveData /\ received' = stored.received /\ index' = stored.index
          /\ scriptsValid' = stored.scriptsValid
        BY Zenon DEF Restart
    <2> QED
        BY <2>1, <2>2, Zenon DEF MemInv, DInv, DiskInv, CoinsBehindIndex
<1>7. DiskInv'
    BY Zenon DEF Restart, DInv, DiskInv, CoinsBehindIndex
<1> QED
    BY <1>4, <1>5, <1>6, <1>7 DEF DInv

\* DInv is an inductive invariant of the node with its disk.
LEMMA DiskInvariance == DiskSpec => []DInv
<1>1. DiskInit => DInv
    <2> SUFFICES ASSUME DiskInit PROVE DInv
        BY Zenon
    <2>1. TypeInv
        BY TypeInit, Zenon DEF DiskInit
    <2>2. CallInv
        BY DEF DiskInit, Init, CallInv
    <2>3. MemInv
        BY TreeAssumption, BoundAssumption DEF DiskInit, Init, MemInv, Chain, ToConnect,
           Failed
    <2>4. stored \in Stored
        BY TreeAssumption DEF DiskInit, Stored
    <2>5. DiskInv
        BY <2>4, TreeAssumption, BoundAssumption DEF DiskInit, Init, DiskInv, CoinsBehindIndex
    <2> QED
        BY <2>1, <2>2, <2>3, <2>5, Zenon DEF DInv
<1>2. DInv /\ [DiskNext]_allVars => DInv'
    <2> SUFFICES ASSUME DInv, [DiskNext]_allVars PROVE DInv'
        BY Zenon
    <2>1. CASE flushing = "no" /\ Live /\ UNCHANGED diskVars
        BY <2>1, LiveKeepsDInv, Zenon DEF diskVars
    <2>2. CASE PeriodicWrite \/ BeginFlush \/ FlushPruned
        BY <2>2, WriteKeepsDInv, Zenon DEF PeriodicWrite, BeginFlush, FlushPruned
    <2>3. CASE PruneFlush
        BY <2>3, LiveKeepsDInv, Zenon DEF PruneFlush
    <2>4. CASE FlushCoins
        BY <2>4, CoinsKeepDInv, Zenon
    <2>5. CASE Restart
        BY <2>5, RestartKeepsDInv, Zenon
    <2>6. CASE UNCHANGED allVars
        <3>1. UNCHANGED vars /\ UNCHANGED <<stored, coinsBest, flushing>>
            BY <2>6, Zenon DEF allVars, diskVars
        <3>2. TypeInv' /\ CallInv'
            BY <3>1, TypeStep, CallStep, Zenon DEF DInv
        <3>3. MemInv'
            BY <3>1, MemSame, Zenon DEF DInv, vars, statusVars, activateVars
        <3>4. DiskInv'
            BY <3>1, Zenon DEF DInv, DiskInv, CoinsBehindIndex, vars, statusVars
        <3> QED
            BY <3>2, <3>3, <3>4, Zenon DEF DInv
    <2> QED
        BY <2>1, <2>2, <2>3, <2>4, <2>5, <2>6, Zenon DEF DiskNext
<1> QED
    BY <1>1, <1>2, PTL DEF DiskSpec

\* FlushStateToDisk never lets the coin database run ahead of the block index:
\* wherever the process ends, the chain of DB_BEST_BLOCK is stored as received
\* and connected, whatever the operator did.
THEOREM CoinsStayBehind == DiskSpec => []CoinsBehindIndex
<1>1. DInv => CoinsBehindIndex
    BY Zenon DEF DInv, DiskInv
<1> QED
    BY <1>1, DiskInvariance, PTL

\* The variables of the node and of its disk stay well typed through crashes.
THEOREM DiskTypes == DiskSpec => []DiskTypeOK
<1>1. DInv => DiskTypeOK
    BY TypeForms DEF DInv, DiskInv, DiskTypeOK
<1> QED
    BY <1>1, DiskInvariance, PTL

-----------------------------------------------------------------------------
(* Without invalidateblock a block is flagged only if it, or an ancestor, can *)
(* never be connected, so that flags on disk never meet the chain on disk.    *)

Sound(b) == Anc[b] \subseteq Connectable

SaneInv ==
    /\ pc \notin {"walk", "mark"}
    /\ scriptsValid \subseteq Connectable
    /\ \A b \in Failed : ~Sound(b)
    /\ \A b \in StoredFailed : ~Sound(b)

\* What descends from an unsound block is unsound.
LEMMA UnsoundAbove ==
    ASSUME NEW b \in Block, NEW f \in Anc[b], ~Sound(f)
    PROVE  \A d \in Above(f, b) : ~Sound(d)
<1> SUFFICES ASSUME NEW d \in Above(f, b) PROVE ~Sound(d)
    BY Zenon
<1>1. f \in Anc[d] /\ d \in Block
    BY AboveDescends, AncFacts, Zenon
<1>2. Anc[f] \subseteq Anc[d]
    BY <1>1, AncFacts
<1> QED
    BY <1>2 DEF Sound

\* A step in memory flags unsound blocks only.
LEMMA SaneStep ==
    ASSUME "invalidate" \notin Commands, DInv, SaneInv, Live \/ Pruning
    PROVE  /\ pc' \notin {"walk", "mark"} /\ scriptsValid' \subseteq Connectable
           /\ \A b \in failedValid' \cup failedChild' : ~Sound(b)
<1>1. CASE Arrival
    <2>1. UNCHANGED <<pc, scriptsValid>>
        BY <1>1 DEF Arrival, AcceptBlockHeader, RejectBlockHeader, IgnoreBlock, RejectBlock,
           ReceiveLinked, ReceiveUnlinked
    <2>2. ASSUME NEW b \in Block \ {Genesis}, NEW f \in Block, RejectBlockHeader(b, f)
          PROVE  \A d \in failedValid' \cup failedChild' : ~Sound(d)
        <3>1. Prev[b] \in Block /\ f \in Anc[Prev[b]] /\ f \in failedBlocks
            BY <2>2, ParentFacts, Zenon DEF RejectBlockHeader, FailedAncestors
        <3>2. ~Sound(f)
            BY <3>1, Zenon DEF DInv, MemInv, SaneInv, Failed
        <3>3. \A d \in Above(f, Prev[b]) : ~Sound(d)
            BY <3>1, <3>2, UnsoundAbove, Zenon
        <3> QED
            BY <2>2, <3>3, Zenon DEF RejectBlockHeader, SaneInv, Failed
    <2>3. ASSUME NEW b \in Block \ {Genesis}, NEW r \in BOOLEAN, RejectBlock(b, r)
          PROVE  \A d \in failedValid' \cup failedChild' : ~Sound(d)
        <3>1. ~Sound(b)
            BY <2>3, AncFacts, BoundAssumption, Zenon DEF RejectBlock, Sound
        <3> QED
            BY <2>3, <3>1, Zenon DEF RejectBlock, SaneInv, Failed
    <2>4. ASSUME NEW b \in Block \ {Genesis}, NEW r \in BOOLEAN,
                 \/ AcceptBlockHeader(b) \/ IgnoreBlock(b, r)
                 \/ ReceiveLinked(b, r) \/ ReceiveUnlinked(b, r)
          PROVE  UNCHANGED <<failedValid, failedChild>>
        BY <2>4, Zenon DEF AcceptBlockHeader, IgnoreBlock, ReceiveLinked, ReceiveUnlinked
    <2> QED
        BY <1>1, <2>1, <2>2, <2>3, <2>4, Zenon DEF Arrival, SaneInv, Failed
<1>2. CASE ActivateBestChain \/ LockMain \/ NoCandidate \/ DisconnectTip \/ AbortDisconnect
           \/ ReturnActivate
    BY <1>2, Zenon DEF ActivateBestChain, LockMain, NoCandidate, DisconnectTip, AbortDisconnect,
       ReturnActivate, statusVars, SaneInv, Failed
<1>3. ASSUME NEW b \in Block, AlreadyBest(b) \/ BeginStep(b) \/ AbortConnect(b) \/ PreciousBlock(b)
      PROVE  /\ pc' \notin {"walk", "mark"} /\ UNCHANGED <<scriptsValid, failedValid, failedChild>>
    BY <1>3, Zenon DEF AlreadyBest, BeginStep, AbortConnect, PreciousBlock, statusVars, SaneInv
<1>4. ASSUME NEW b \in Block, NEW x \in Block, DropCandidate(b, x)
      PROVE  /\ UNCHANGED <<pc, scriptsValid>>
             /\ \A d \in failedValid' \cup failedChild' : ~Sound(d)
    <2>1. x \in Anc[b]
        BY <1>4, Zenon DEF DropCandidate, OffChain
    <2>2. x \in Failed => \A d \in Above(x, b) : ~Sound(d)
        BY <2>1, UnsoundAbove, Zenon DEF SaneInv
    <2> QED
        BY <1>4, <2>2, Zenon DEF DropCandidate, SaneInv, Failed
<1>5. ASSUME NEW b \in Block, ConnectTip(b)
      PROVE  /\ pc' \notin {"walk", "mark"} /\ scriptsValid' \subseteq Connectable
             /\ UNCHANGED <<failedValid, failedChild>>
    BY <1>5, EndStepCalls, Zenon DEF ConnectTip, SaneInv
<1>6. ASSUME NEW b \in Block, ConnectInvalid(b)
      PROVE  /\ pc' \notin {"walk", "mark"} /\ UNCHANGED scriptsValid
             /\ \A d \in failedValid' \cup failedChild' : ~Sound(d)
    <2>1. ~Sound(b)
        BY <1>6, AncFacts, Zenon DEF ConnectInvalid, Sound
    <2> QED
        BY <1>6, <2>1, EndStepCalls DEF ConnectInvalid, InvalidBlockFound, SaneInv, Failed
<1>7. ASSUME InvalidateStep
      PROVE  FALSE
    BY <1>7, Zenon DEF InvalidateStep, InvalidateDisconnect, InvalidateGivesUp, InvalidateMark,
       InvalidateFinish, SaneInv
<1>8. ASSUME NEW b \in Block, InvalidateBlock(b)
      PROVE  FALSE
    BY <1>8, Zenon DEF InvalidateBlock
<1>9. ASSUME NEW b \in Block, ResetBlockFailureFlags(b)
      PROVE  /\ UNCHANGED <<pc, scriptsValid>> /\ failedValid' \cup failedChild' \subseteq Failed
    BY <1>9, Zenon DEF ResetBlockFailureFlags, Failed
<1>10. CASE Pruning
    BY <1>10, Zenon DEF Pruning, PruneFiles, SaneInv, Failed
<1> QED
    BY <1>1, <1>2, <1>3, <1>4, <1>5, <1>6, <1>7, <1>8, <1>9, <1>10, SMTT(30) DEF Live, ActivateStep,
       Operator, SaneInv, Failed

\* Both invariants together are inductive.
LEMMA SaneInvariance ==
    ASSUME "invalidate" \notin Commands
    PROVE  DiskSpec => [](DInv /\ SaneInv)
<1>1. DiskInit => SaneInv
    BY DEF DiskInit, Init, SaneInv, Failed, StoredFailed
<1>2. DInv /\ SaneInv /\ [DiskNext]_allVars => SaneInv'
    <2> SUFFICES ASSUME DInv, SaneInv, [DiskNext]_allVars PROVE SaneInv'
        BY Zenon
    <2>1. CASE /\ flushing = "no" /\ Live /\ UNCHANGED diskVars
        BY <2>1, SaneStep, Zenon DEF SaneInv, diskVars, StoredFailed, Failed
    <2>2. CASE PeriodicWrite \/ BeginFlush \/ FlushPruned
        <3>1. WriteBlockIndex
            BY <2>2, Zenon DEF PeriodicWrite, BeginFlush, FlushPruned
        <3>2. /\ UNCHANGED <<pc, scriptsValid, failedValid, failedChild>>
              /\ stored'.failedValid \subseteq stored.failedValid \cup failedValid
              /\ stored'.failedChild \subseteq stored.failedChild \cup failedChild
            BY <3>1, Zenon DEF WriteBlockIndex, Update
        <3> QED
            BY <3>2, Zenon DEF SaneInv, StoredFailed, Failed
    <2>3. CASE PruneFlush
        BY <2>3, SaneStep, Zenon DEF PruneFlush, SaneInv, StoredFailed, Failed
    <2>4. CASE FlushCoins \/ UNCHANGED allVars
        BY <2>4, Zenon DEF FlushCoins, SaneInv, StoredFailed, Failed, vars, statusVars, allVars,
           diskVars
    <2>5. CASE Restart
        <3>1. \A b \in LoadedFailed : ~Sound(b)
            <4> SUFFICES ASSUME NEW b \in LoadedFailed PROVE ~Sound(b)
                BY Zenon
            <4>1. PICK a \in Anc[b] : a \in StoredFailed /\ b \in Block
                BY Zenon DEF LoadedFailed, DInv, DiskInv, Stored
            <4>2. Anc[a] \subseteq Anc[b]
                BY <4>1, AncFacts, Zenon
            <4> QED
                BY <4>1, <4>2, Zenon DEF SaneInv, Sound
        <3>2. scriptsValid' \subseteq Connectable
            BY <2>5 DEF Restart, DInv, DiskInv, SaneInv
        <3> QED
            BY <2>5, <3>1, <3>2, Zenon DEF Restart, SaneInv, StoredFailed, Failed
    <2> QED
        BY <2>1, <2>2, <2>3, <2>4, <2>5, Zenon DEF DiskNext
<1> QED
    BY <1>1, <1>2, DiskInvariance, PTL DEF DiskSpec

\* The chain of the coin database is sound, and no stored flag is on it.
LEMMA CoinsSound ==
    ASSUME DInv, SaneInv
    PROVE  \A a \in Anc[coinsBest] : Sound(a) /\ a \notin StoredFailed
<1> SUFFICES ASSUME NEW a \in Anc[coinsBest] PROVE Sound(a) /\ a \notin StoredFailed
    BY Zenon
<1>1. Anc[a] \subseteq Anc[coinsBest]
    BY AncFacts, Zenon DEF DInv, DiskInv
<1>2. Anc[coinsBest] \subseteq Connectable
    BY BoundAssumption DEF DInv, DiskInv, CoinsBehindIndex, SaneInv
<1> QED
    BY <1>1, <1>2, Zenon DEF Sound, SaneInv

\* Unless blocks are invalidated by hand, PruneBlockIndexCandidates finds a
\* candidate at the next start, wherever the process ends: the block the coins
\* are at is one.
THEOREM NodeCanStart ==
    ASSUME "invalidate" \notin Commands
    PROVE  DiskSpec => []CanStart
<1>1. DInv /\ SaneInv => CanStart
    <2> SUFFICES ASSUME DInv, SaneInv PROVE coinsBest \in LoadedCandidates
        BY Zenon DEF CanStart
    <2>1. coinsBest \in Block /\ coinsBest \in Anc[coinsBest]
        BY AncFacts, Zenon DEF DInv, DiskInv
    <2>2. coinsBest \in LoadedLinked /\ coinsBest \in stored.received
        BY <2>1 DEF LoadedLinked, DInv, DiskInv, CoinsBehindIndex
    <2>3. coinsBest \notin LoadedFailed
        BY CoinsSound, Zenon DEF LoadedFailed
    <2>4. ~Less([b \in Block |-> 0], coinsBest, coinsBest)
        BY <2>1, OrderAssumption DEF Less
    <2> QED
        BY <2>2, <2>3, <2>4 DEF LoadedCandidates, PruneBlockIndexCandidates
<1> QED
    BY <1>1, SaneInvariance, PTL

\* The active chain stays valid through crashes as well, unless blocks are
\* invalidated by hand: what a restart loads has no flag on it.
THEOREM ChainValidAfterCrash ==
    ASSUME "invalidate" \notin Commands
    PROVE  DiskSpec => []ActiveChainValid
<1>1. DInv /\ SaneInv => ActiveChainValid
    <2> SUFFICES ASSUME DInv, SaneInv PROVE ActiveChainValid
        BY Zenon
    <2>1. Chain \subseteq scriptsValid \cup {Genesis}
        BY Zenon DEF DInv, MemInv
    <2>2. Chain \subseteq Connectable
        BY <2>1, BoundAssumption, Zenon DEF SaneInv
    <2>3. \A a \in Chain : Anc[a] \subseteq Chain
        BY AncFacts, Zenon DEF DInv, TypeInv, Chain
    <2> QED
        BY <2>1, <2>2, <2>3, Zenon DEF ActiveChainValid, SaneInv, Sound
<1> QED
    BY <1>1, SaneInvariance, PTL
=============================================================================
