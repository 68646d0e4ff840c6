-------------------------- MODULE ChainstateProofs --------------------------
(***************************************************************************)
(* Proofs about Chainstate, for every tree of blocks, every set of commands *)
(* and pruning at any flush.                                                *)
(***************************************************************************)
EXTENDS Chainstate, TLAPS

\* TypeOK, one conjunct per variable.
TypeInv ==
    /\ index \in SUBSET Block /\ haveData \in SUBSET Block /\ received \in SUBSET Block
    /\ linked \in SUBSET Block /\ scriptsValid \in SUBSET Block
    /\ failedValid \in SUBSET Block /\ failedChild \in SUBSET Block
    /\ dirty \in SUBSET Block /\ candidates \in SUBSET Block /\ unlinked \in SUBSET Block
    /\ failedBlocks \in SUBSET Block /\ byWork \in SUBSET Block
    /\ sequenceId \in [Block -> Int]
    /\ nBlockSequenceId \in Nat /\ nBlockReverseSequenceId \in Int
    /\ nLastPreciousChainwork \in Nat
    /\ tip \in Block
    /\ pc \in {"idle", "loop", "find", "step", "exit", "walk", "mark", "down"}
    /\ mostWork \in Block \cup {None} /\ startTip \in Block \cup {None}
    /\ oldTip \in Block \cup {None} /\ target \in Block \cup {None}
    /\ toMark \in Block \cup {None} /\ walkTip \in Block \cup {None}
    /\ connected \in BOOLEAN /\ owed \in BOOLEAN

\* Where the calls under way stand: ActivateBestChain has a goal while it
\* steps, and none is left when it ends; InvalidateBlock flags blocks from the
\* old tip down to its target.
CallInv ==
    /\ pc \in {"idle", "walk", "mark", "exit"} => mostWork = None
    /\ pc = "step" => mostWork # None
    /\ pc \in {"walk", "mark"} =>
           target \in Block \ {Genesis} /\ toMark \in Block /\ target \in Anc[toMark]
    /\ pc = "mark" => /\ walkTip \in Block \ {Genesis}
                      /\ Prev[walkTip] = tip /\ target \in Anc[walkTip]

\* What was stored passed CheckBlock, so that no block of the active chain or
\* of the path to the goal can be found unacceptable later.
ValidInv ==
    /\ haveData \subseteq Acceptable
    /\ scriptsValid \subseteq Connectable
    /\ ActiveChainValid
    /\ mostWork # None => Anc[mostWork] \cap Failed = {} /\ Anc[mostWork] \subseteq Acceptable
    /\ FailedBlocksFailed

IInv == TypeInv /\ CallInv /\ ValidInv

-----------------------------------------------------------------------------
(* The tree.                                                               *)

\* Going to the parent leaves exactly one block of the branch.
LEMMA ParentFacts ==
    ASSUME NEW b \in Block, b # Genesis
    PROVE  /\ Prev[b] \in Block /\ b \notin Anc[Prev[b]]
           /\ Anc[b] = {b} \cup Anc[Prev[b]]
BY TreeAssumption, Zenon

\* Ancestors are blocks, and so are their ancestors.
LEMMA AncFacts ==
    ASSUME NEW b \in Block
    PROVE  /\ Anc[b] \subseteq Block /\ b \in Anc[b] /\ Genesis \in Anc[b]
           /\ \A a \in Anc[b] : Anc[a] \subseteq Anc[b]
BY TreeAssumption, Zenon

\* What a walk from b down to f passes descends from f.
LEMMA AboveDescends ==
    ASSUME NEW b \in Block, NEW f \in Anc[b], NEW d \in Above(f, b)
    PROVE  d \in Anc[b] /\ f \in Anc[d]
BY TreeAssumption, Zenon DEF Above

\* A walk down to a block that is not on a branch stays off that branch.
LEMMA AboveOff ==
    ASSUME NEW b \in Block, NEW f \in Anc[b], NEW t \in Block, f \notin Anc[t]
    PROVE  Above(f, b) \cap Anc[t] = {}
<1>1. SUFFICES ASSUME NEW d \in Above(f, b), d \in Anc[t]
               PROVE  FALSE
    BY Zenon
<1>2. f \in Anc[d]
    BY <1>1, AboveDescends, Zenon
<1>3. Anc[d] \subseteq Anc[t]
    BY <1>1, AncFacts, Zenon
<1> QED
    BY <1>1, <1>2, <1>3, Zenon

-----------------------------------------------------------------------------
(* Types.                                                                  *)

\* TypeInv says what TypeOK says.
LEMMA TypeForms == TypeInv <=> TypeOK
BY Zenon DEF TypeInv, TypeOK

\* The initial state is well typed.
LEMMA TypeInit == Init => TypeInv
<1> SUFFICES ASSUME Init PROVE TypeInv
    BY Zenon
<1>1. sequenceId \in [Block -> Int] /\ nBlockSequenceId \in Nat /\ nBlockReverseSequenceId \in Int
      /\ nLastPreciousChainwork \in Nat
    BY DEF Init
<1> QED
    BY <1>1, TreeAssumption, Zenon DEF Init, TypeInv

\* Every block has work and a height.
LEMMA OrderFacts ==
    ASSUME NEW b \in Block
    PROVE  ChainWork[b] \in Nat /\ Height[b] \in Nat
BY OrderAssumption

\* What one arrival links are blocks, and each gets an integer.
LEMMA NumberedFacts ==
    ASSUME NEW b \in Block, NEW first \in Nat, NEW next \in Int
    PROVE  /\ Reached(b) \subseteq Block
           /\ \A id \in Orders(Reached(b), first, next) : \A d \in Reached(b) : id[d] \in Int
<1>1. Reached(b) \subseteq Block
    BY Zenon DEF Reached
<1>2. ASSUME NEW id \in Orders(Reached(b), first, next), NEW d \in Reached(b)
      PROVE  id[d] \in Int
    <2>1. id \in [Reached(b) -> first .. next - 1]
        BY <1>2 DEF Orders
    <2> QED
        BY <1>2, <2>1
<1> QED
    BY <1>1, <1>2, Zenon

\* Every action keeps the types.
LEMMA TypeStep == TypeInv /\ CallInv /\ [Next]_vars => TypeInv'
<1> SUFFICES ASSUME TypeInv, CallInv, [Next]_vars
             PROVE  TypeInv'
    BY Zenon
<1>1. ASSUME NEW b \in Block \ {Genesis}, AcceptBlockHeader(b)
      PROVE  TypeInv'
    BY <1>1 DEF AcceptBlockHeader, TypeInv, orderVars, activateVars, invalidateVars
<1>2. ASSUME NEW b \in Block \ {Genesis}, NEW f \in Block, RejectBlockHeader(b, f)
      PROVE  TypeInv'
    <2>1. Above(f, Prev[b]) \subseteq Block
        BY ParentFacts, AncFacts, Zenon DEF Above
    <2> QED
        BY <1>2, <2>1 DEF RejectBlockHeader, TypeInv, orderVars, activateVars, invalidateVars
<1>3. ASSUME NEW b \in Block \ {Genesis}, NEW r \in BOOLEAN, IgnoreBlock(b, r)
      PROVE  TypeInv'
    BY <1>3 DEF IgnoreBlock, TypeInv, orderVars, activateVars, invalidateVars
<1>4. ASSUME NEW b \in Block \ {Genesis}, NEW r \in BOOLEAN, RejectBlock(b, r)
      PROVE  TypeInv'
    BY <1>4 DEF RejectBlock, TypeInv, orderVars, activateVars, invalidateVars
<1>5. ASSUME NEW b \in Block \ {Genesis}, NEW r \in BOOLEAN, ReceiveLinked(b, r)
      PROVE  TypeInv'
    <2>1. nBlockSequenceId \in Nat /\ nBlockSequenceId' \in Nat
        BY <1>5 DEF ReceiveLinked, TypeInv
    <2>2. sequenceId' \in [Block -> Int]
        BY <1>5, <2>1, NumberedFacts DEF ReceiveLinked, TypeInv
    <2>3. candidates' \subseteq Block /\ Reached(b) \subseteq Block
        BY <1>5, <2>1, NumberedFacts, Zenon DEF ReceiveLinked, TypeInv, NewCandidates
    <2> QED
        BY <1>5, <2>1, <2>2, <2>3 DEF ReceiveLinked, TypeInv, activateVars, invalidateVars
<1>6. ASSUME NEW b \in Block \ {Genesis}, NEW r \in BOOLEAN, ReceiveUnlinked(b, r)
      PROVE  TypeInv'
    BY <1>6 DEF ReceiveUnlinked, TypeInv, orderVars, activateVars, invalidateVars
<1>7. ASSUME ActivateBestChain
      PROVE  TypeInv'
    BY <1>7, Zenon DEF ActivateBestChain, TypeInv, statusVars, orderVars, activateVars,
       invalidateVars
<1>8. ASSUME LockMain
      PROVE  TypeInv'
    BY <1>8 DEF LockMain, TypeInv, statusVars, orderVars, invalidateVars
<1>9. ASSUME NoCandidate
      PROVE  TypeInv'
    BY <1>9, Zenon DEF NoCandidate, TypeInv, statusVars, orderVars, invalidateVars
<1>10. ASSUME NEW b \in Block, NEW x \in Block, DropCandidate(b, x)
      PROVE  TypeInv'
    BY <1>10, AncFacts DEF DropCandidate, TypeInv, Above, Refiled, orderVars, activateVars,
       invalidateVars
<1>11. ASSUME NEW b \in Block, AlreadyBest(b)
      PROVE  TypeInv'
    BY <1>11, Zenon DEF AlreadyBest, TypeInv, statusVars, orderVars, invalidateVars
<1>12. ASSUME NEW b \in Block, BeginStep(b)
      PROVE  TypeInv'
    BY <1>12, Zenon DEF BeginStep, TypeInv, statusVars, orderVars, invalidateVars
<1>13. ASSUME NEW b \in Block, ConnectTip(b)
      PROVE  TypeInv'
    BY <1>13, Zenon DEF ConnectTip, TypeInv, PruneBlockIndexCandidates, EndStep, orderVars,
       activateVars, invalidateVars
<1>14. ASSUME NEW b \in Block, ConnectInvalid(b)
      PROVE  TypeInv'
    BY <1>14, Zenon DEF ConnectInvalid, TypeInv, InvalidBlockFound, EndStep, orderVars,
       invalidateVars
<1>15. ASSUME NEW b \in Block, AbortConnect(b)
      PROVE  TypeInv'
    BY <1>15 DEF AbortConnect, TypeInv, statusVars, orderVars, activateVars, invalidateVars
<1>16. ASSUME DisconnectTip
      PROVE  TypeInv'
    <2>1. tip \in Block /\ mostWork \in Block
        BY <1>16, Zenon DEF DisconnectTip, TypeInv, CallInv
    <2>2. tip # Genesis
        BY <1>16, <2>1, AncFacts, Zenon DEF DisconnectTip
    <2>3. Prev[tip] \in Block
        BY <2>1, <2>2, ParentFacts, Zenon
    <2> QED
        BY <1>16, <2>1, <2>3, Zenon DEF DisconnectTip, TypeInv, statusVars, orderVars, activateVars,
           invalidateVars
<1>17. ASSUME AbortDisconnect
      PROVE  TypeInv'
    BY <1>17, Zenon DEF AbortDisconnect, TypeInv, statusVars, orderVars, activateVars,
       invalidateVars
<1>18. ASSUME ReturnActivate
      PROVE  TypeInv'
    BY <1>18 DEF ReturnActivate, TypeInv, statusVars, orderVars, activateVars, invalidateVars
<1>19. ASSUME InvalidateDisconnect
      PROVE  TypeInv'
    <2>1. tip \in Block /\ target \in Block \ {Genesis} /\ target \in Anc[tip]
        BY <1>19, Zenon DEF InvalidateDisconnect, TypeInv, CallInv, Chain
    <2>2. tip # Genesis
        BY <2>1, TreeAssumption, Zenon
    <2>3. Prev[tip] \in Block
        BY <2>1, <2>2, ParentFacts, Zenon
    <2> QED
        BY <1>19, <2>1, <2>3, Zenon DEF InvalidateDisconnect, TypeInv, statusVars, orderVars,
           activateVars
<1>20. ASSUME InvalidateGivesUp
      PROVE  TypeInv'
    BY <1>20, Zenon DEF InvalidateGivesUp, TypeInv, statusVars, orderVars, activateVars
<1>21. ASSUME InvalidateMark
      PROVE  TypeInv'
    <2>1. walkTip \in Block /\ toMark \in Block
        BY <1>21, Zenon DEF InvalidateMark, CallInv
    <2> QED
        BY <1>21, <2>1 DEF InvalidateMark, TypeInv, orderVars, activateVars
<1>22. ASSUME InvalidateFinish
      PROVE  TypeInv'
    <2>1. toMark \in Block
        BY <1>22, Zenon DEF InvalidateFinish, CallInv
    <2> QED
        BY <1>22, <2>1, Zenon DEF InvalidateFinish, TypeInv, Missed, orderVars, activateVars
<1>23. ASSUME NEW b \in Block, PreciousBlock(b)
      PROVE  TypeInv'
    <2> DEFINE id == IF ChainWork[tip] > nLastPreciousChainwork THEN -1
                     ELSE nBlockReverseSequenceId
    <2>1. id \in Int /\ ChainWork[tip] \in Nat
        BY OrderFacts DEF TypeInv
    <2>2. /\ sequenceId' = [sequenceId EXCEPT ![b] = id]
          /\ nBlockReverseSequenceId' = IF id > MinSequenceId THEN id - 1 ELSE id
        BY <1>23, Zenon DEF PreciousBlock
    <2> HIDE DEF id
    <2>3. sequenceId' \in [Block -> Int] /\ nBlockReverseSequenceId' \in Int
        BY <2>1, <2>2 DEF TypeInv
    <2>4. candidates' \in SUBSET Block
        BY <1>23, Zenon DEF PreciousBlock, PruneBlockIndexCandidates, TypeInv
    <2>5. /\ UNCHANGED <<statusVars, nBlockSequenceId, unlinked, failedBlocks, tip, pc,
                         activateVars, invalidateVars>>
          /\ nLastPreciousChainwork' = ChainWork[tip] /\ owed' = TRUE
        BY <1>23, Zenon DEF PreciousBlock
    <2> QED
        BY <2>1, <2>3, <2>4, <2>5 DEF TypeInv, statusVars, activateVars, invalidateVars
<1>24. ASSUME NEW b \in Block, InvalidateBlock(b)
      PROVE  TypeInv'
    BY <1>24, Zenon DEF InvalidateBlock, TypeInv, statusVars, orderVars, activateVars
<1>25. ASSUME NEW b \in Block, ResetBlockFailureFlags(b)
      PROVE  TypeInv'
    BY <1>25 DEF ResetBlockFailureFlags, TypeInv, StillFailed, Failed, orderVars, activateVars,
       invalidateVars
<1>26. ASSUME NEW blocks \in SUBSET haveData, PruneFiles(blocks)
      PROVE  TypeInv'
    BY <1>26 DEF PruneFiles, TypeInv, Unfiled, orderVars, activateVars, invalidateVars
<1>27. CASE UNCHANGED vars
    BY <1>27 DEF TypeInv, vars, statusVars, orderVars, activateVars, invalidateVars
<1> QED
    BY <1>1, <1>2, <1>3, <1>4, <1>5, <1>6, <1>7, <1>8, <1>9, <1>10, <1>11, <1>12, <1>13, <1>14,
       <1>15, <1>16, <1>17, <1>18, <1>19, <1>20, <1>21, <1>22, <1>23, <1>24, <1>25, <1>26, <1>27,
       Zenon DEF Next, Live, Arrival, ActivateStep, InvalidateStep, Operator, Pruning
-----------------------------------------------------------------------------
(* The calls under way.                                                    *)

\* Steps of others leave the calls under way alone.
LEMMA CallStutter ==
    ASSUME CallInv, UNCHANGED <<pc, mostWork, target, toMark, walkTip, tip>>
    PROVE  CallInv'
BY Zenon DEF CallInv

\* Arrivals, commands that take cs_main only, and flushes do not touch the
\* state of a call under way.
LEMMA OthersLeaveCalls ==
    ASSUME Arrival \/ Pruning \/ UNCHANGED vars
    PROVE  UNCHANGED <<tip, pc, mostWork, target, toMark, walkTip>>
<1>1. CASE Arrival
    <2>1. ASSUME NEW b, NEW f, AcceptBlockHeader(b) \/ RejectBlockHeader(b, f)
          PROVE  UNCHANGED <<tip, pc, mostWork, target, toMark, walkTip>>
        BY <2>1, Zenon DEF AcceptBlockHeader, RejectBlockHeader, activateVars, invalidateVars
    <2>2. ASSUME NEW b, NEW r, IgnoreBlock(b, r) \/ RejectBlock(b, r)
          PROVE  UNCHANGED <<tip, pc, mostWork, target, toMark, walkTip>>
        BY <2>2, Zenon DEF IgnoreBlock, RejectBlock, activateVars, invalidateVars
    <2>3. ASSUME NEW b, NEW r, ReceiveLinked(b, r) \/ ReceiveUnlinked(b, r)
          PROVE  UNCHANGED <<tip, pc, mostWork, target, toMark, walkTip>>
        BY <2>3, Zenon DEF ReceiveLinked, ReceiveUnlinked, activateVars, invalidateVars
    <2> QED
        BY <1>1, <2>1, <2>2, <2>3, Zenon DEF Arrival
<1>2. CASE Pruning
    BY <1>2, Zenon DEF Pruning, PruneFiles, activateVars, invalidateVars
<1>3. CASE UNCHANGED vars
    BY <1>3, Zenon DEF vars, activateVars, invalidateVars
<1> QED
    BY <1>1, <1>2, <1>3, Zenon

\* The end of a step leaves a goal only where the loop goes on.
LEMMA EndStepCalls ==
    ASSUME NEW t, NEW m, EndStep(t, m)
    PROVE  /\ pc' \in {"find", "loop", "exit"}
           /\ pc' = "exit" => mostWork' = None
           /\ mostWork' \in {m, None}
BY Zenon DEF EndStep

\* Every action keeps CallInv.
LEMMA CallStep == TypeInv /\ CallInv /\ [Next]_vars => CallInv'
<1> SUFFICES ASSUME TypeInv, CallInv, [Next]_vars
             PROVE  CallInv'
    BY Zenon
<1>1. CASE Arrival \/ Pruning \/ UNCHANGED vars
    BY <1>1, OthersLeaveCalls, CallStutter, Zenon
<1>2. ASSUME NEW b \in Block, PreciousBlock(b) \/ ResetBlockFailureFlags(b)
      PROVE  CallInv'
    <2>1. UNCHANGED <<tip, pc, mostWork, target, toMark, walkTip>>
        BY <1>2, Zenon DEF PreciousBlock, ResetBlockFailureFlags, activateVars, invalidateVars
    <2> QED
        BY <2>1, CallStutter, Zenon
<1>3. ASSUME NEW b \in Block, NEW x \in Block, DropCandidate(b, x)
      PROVE  CallInv'
    BY <1>3, CallStutter, Zenon DEF DropCandidate, activateVars, invalidateVars
<1>4. CASE ActivateBestChain \/ LockMain
    BY <1>4, Zenon DEF ActivateBestChain, LockMain, CallInv, activateVars, invalidateVars
<1>5. CASE NoCandidate
    BY <1>5, Zenon DEF NoCandidate, CallInv
<1>6. ASSUME NEW b \in Block, AlreadyBest(b)
      PROVE  CallInv'
    BY <1>6, Zenon DEF AlreadyBest, CallInv
<1>7. ASSUME NEW b \in Block, BeginStep(b)
      PROVE  CallInv'
    BY <1>7, TreeAssumption, Zenon DEF BeginStep, CallInv
<1>8. ASSUME NEW b \in Block, ConnectTip(b)
      PROVE  CallInv'
    <2>1. pc = "step" /\ mostWork # None
        BY <1>8, Zenon DEF ConnectTip, CallInv
    <2>2. CASE EndStep(b, mostWork)
        BY <2>2, EndStepCalls, Zenon DEF CallInv
    <2>3. CASE UNCHANGED <<pc, activateVars>>
        BY <2>1, <2>3, Zenon DEF CallInv, activateVars
    <2> QED
        BY <1>8, <2>2, <2>3, Zenon DEF ConnectTip
<1>9. ASSUME NEW b \in Block, ConnectInvalid(b)
      PROVE  CallInv'
    <2>1. EndStep(tip, None)
        BY <1>9, Zenon DEF ConnectInvalid
    <2> QED
        BY <2>1, EndStepCalls, Zenon DEF CallInv
<1>10. ASSUME NEW b \in Block, AbortConnect(b)
       PROVE  CallInv'
    BY <1>10, Zenon DEF AbortConnect, CallInv
<1>11. CASE DisconnectTip
    BY <1>11, Zenon DEF DisconnectTip, CallInv, activateVars
<1>12. CASE AbortDisconnect
    BY <1>12, Zenon DEF AbortDisconnect, CallInv
<1>13. CASE ReturnActivate
    BY <1>13, Zenon DEF ReturnActivate, CallInv, activateVars
<1>14. ASSUME NEW b \in Block, InvalidateBlock(b)
       PROVE  CallInv'
    BY <1>14, AncFacts, Zenon DEF InvalidateBlock, CallInv, TypeInv, activateVars
<1>15. CASE InvalidateDisconnect
    <2>1. target \in Block \ {Genesis} /\ target \in Anc[tip] /\ tip \in Block
        BY <1>15, Zenon DEF InvalidateDisconnect, CallInv, TypeInv, Chain
    <2>2. tip # Genesis
        BY <2>1, TreeAssumption, Zenon
    <2> QED
        BY <1>15, <2>1, <2>2, Zenon DEF InvalidateDisconnect, CallInv, activateVars
<1>16. CASE InvalidateMark
    BY <1>16, Zenon DEF InvalidateMark, CallInv, activateVars
<1>17. CASE InvalidateGivesUp \/ InvalidateFinish
    BY <1>17, Zenon DEF InvalidateGivesUp, InvalidateFinish, CallInv, activateVars
<1> QED
    BY <1>1, <1>2, <1>3, <1>4, <1>5, <1>6, <1>7, <1>8, <1>9, <1>10, <1>11, <1>12, <1>13, <1>14,
       <1>15, <1>16, <1>17, Zenon DEF Next, Live, ActivateStep, InvalidateStep, Operator

-----------------------------------------------------------------------------
(* Validity.                                                               *)

\* The blocks no flag may be put on: the active chain and the path to the goal.
Path == Anc[tip] \cup (IF mostWork = None THEN {} ELSE Anc[mostWork])

\* ValidInv, in terms of Path.
LEMMA PathFacts ==
    ASSUME TypeInv, ValidInv
    PROVE  /\ Path \cap Failed = {} /\ Path \subseteq Acceptable
           /\ \A b \in Path : b \in Block /\ Anc[b] \subseteq Path
<1>1. Anc[tip] \cap Failed = {}
    BY Zenon DEF ValidInv, ActiveChainValid, Chain
<1>2. Anc[tip] \subseteq Acceptable
    BY BoundAssumption, Zenon DEF ValidInv, ActiveChainValid, Chain
<1>3. \A b \in Anc[tip] : b \in Block /\ Anc[b] \subseteq Anc[tip]
    BY AncFacts, Zenon DEF TypeInv
<1>4. CASE mostWork = None
    BY <1>1, <1>2, <1>3, <1>4, Zenon DEF Path
<1>5. CASE mostWork # None
    <2>1. Anc[mostWork] \cap Failed = {} /\ Anc[mostWork] \subseteq Acceptable
        BY <1>5, Zenon DEF ValidInv
    <2>2. \A b \in Anc[mostWork] : b \in Block /\ Anc[b] \subseteq Anc[mostWork]
        BY <1>5, AncFacts, Zenon DEF TypeInv
    <2> QED
        BY <1>1, <1>2, <1>3, <1>5, <2>1, <2>2, Zenon DEF Path
<1> QED
    BY <1>4, <1>5, Zenon

\* A walk down to a block off the path flags nothing on the path.
LEMMA WalkOffPath ==
    ASSUME TypeInv, ValidInv, NEW b \in Block, NEW f \in Anc[b], f \notin Path
    PROVE  Above(f, b) \cap Path = {}
<1> SUFFICES ASSUME NEW d \in Above(f, b), d \in Path
             PROVE  FALSE
    BY Zenon
<1>1. f \in Anc[d]
    BY AboveDescends, Zenon
<1>2. Anc[d] \subseteq Path
    BY PathFacts, Zenon
<1> QED
    BY <1>1, <1>2

\* Putting flags on blocks off the path, or taking flags away, is harmless
\* while the chain and the goal stay where they are.
LEMMA FlagsOffPath ==
    ASSUME TypeInv, ValidInv, NEW flagged, flagged \cap Path = {},
           failedValid' \cup failedChild' \subseteq Failed \cup flagged,
           UNCHANGED <<tip, scriptsValid>>, mostWork' \in {mostWork, None},
           haveData' \subseteq Acceptable, failedBlocks' \subseteq failedValid'
    PROVE  ValidInv'
<1>1. Path \cap (failedValid' \cup failedChild') = {}
    BY PathFacts, Zenon
<1>2. Chain' = Anc[tip] /\ Failed' = failedValid' \cup failedChild'
    BY Zenon DEF Chain, Failed
<1>3. ActiveChainValid'
    BY <1>1, <1>2, Zenon DEF ActiveChainValid, ValidInv, Path, Chain
<1>4. mostWork' # None => Anc[mostWork'] \cap Failed' = {} /\ Anc[mostWork'] \subseteq Acceptable
    BY <1>1, <1>2, PathFacts, Zenon DEF Path
<1> QED
    BY <1>3, <1>4, Zenon DEF ValidInv, FailedBlocksFailed

\* The same when no flag changes at all.
LEMMA NoFlags ==
    ASSUME TypeInv, ValidInv, UNCHANGED <<failedValid, failedChild, failedBlocks, tip, scriptsValid>>,
           mostWork' \in {mostWork, None}, haveData' \subseteq Acceptable
    PROVE  ValidInv'
BY FlagsOffPath, Zenon DEF ValidInv, FailedBlocksFailed, Failed

\* Arrivals keep ValidInv: a header below a failed block gets flags above that
\* block only, and an unacceptable block cannot be one that was stored.
LEMMA ValidArrival == TypeInv /\ ValidInv /\ Arrival => ValidInv'
<1> SUFFICES ASSUME TypeInv, ValidInv, Arrival
             PROVE  ValidInv'
    BY Zenon
<1>1. ASSUME NEW b \in Block \ {Genesis}, AcceptBlockHeader(b)
      PROVE  ValidInv'
    BY <1>1, NoFlags, Zenon DEF AcceptBlockHeader, activateVars, ValidInv
<1>2. ASSUME NEW b \in Block \ {Genesis}, NEW f \in Block, RejectBlockHeader(b, f)
      PROVE  ValidInv'
    <2>1. Prev[b] \in Block /\ f \in Anc[Prev[b]] /\ f \in failedBlocks
        BY <1>2, ParentFacts, Zenon DEF RejectBlockHeader, FailedAncestors
    <2>2. f \notin Path
        BY <2>1, PathFacts, Zenon DEF ValidInv, FailedBlocksFailed, Failed
    <2>3. Above(f, Prev[b]) \cap Path = {}
        BY <2>1, <2>2, WalkOffPath, Zenon
    <2> DEFINE flagged == Above(f, Prev[b])
    <2>4. /\ failedValid' \cup failedChild' \subseteq Failed \cup flagged
          /\ UNCHANGED <<tip, scriptsValid, mostWork, haveData, failedBlocks, failedValid>>
        BY <1>2 DEF RejectBlockHeader, Failed, activateVars
    <2> HIDE DEF flagged
    <2>5. flagged \cap Path = {}
        BY <2>3, Zenon DEF flagged
    <2> QED
        BY <2>4, <2>5, FlagsOffPath, Zenon DEF ValidInv, FailedBlocksFailed
<1>3. ASSUME NEW b \in Block \ {Genesis}, NEW r \in BOOLEAN, IgnoreBlock(b, r)
      PROVE  ValidInv'
    BY <1>3, NoFlags, Zenon DEF IgnoreBlock, activateVars, ValidInv
<1>4. ASSUME NEW b \in Block \ {Genesis}, NEW r \in BOOLEAN, RejectBlock(b, r)
      PROVE  ValidInv'
    <2>1. {b} \cap Path = {}
        BY <1>4, PathFacts, Zenon DEF RejectBlock
    <2>2. /\ failedValid' \cup failedChild' \subseteq Failed \cup {b}
          /\ UNCHANGED <<tip, scriptsValid, mostWork, haveData>>
          /\ failedBlocks' \subseteq failedValid'
        BY <1>4, Zenon DEF RejectBlock, Failed, activateVars, ValidInv, FailedBlocksFailed
    <2> QED
        BY <2>1, <2>2, FlagsOffPath, Zenon DEF ValidInv
<1>5. ASSUME NEW b \in Block \ {Genesis}, NEW r \in BOOLEAN,
             ReceiveLinked(b, r) \/ ReceiveUnlinked(b, r)
      PROVE  ValidInv'
    <2>1. /\ UNCHANGED <<failedValid, failedChild, failedBlocks, tip, scriptsValid, mostWork>>
          /\ haveData' = haveData \cup {b} /\ b \in Acceptable
        BY <1>5, Zenon DEF ReceiveLinked, ReceiveUnlinked, activateVars
    <2> QED
        BY <2>1, NoFlags, Zenon DEF ValidInv
<1> QED
    BY <1>1, <1>2, <1>3, <1>4, <1>5, Zenon DEF Arrival

\* Steps of ActivateBestChain keep ValidInv: the goal is chosen among branches
\* that are stored and not flagged, and flags go on blocks off the chain.
LEMMA ValidActivate ==
    TypeInv /\ CallInv /\ ValidInv /\ (ActivateBestChain \/ ActivateStep) => ValidInv'
<1> SUFFICES ASSUME TypeInv, CallInv, ValidInv, ActivateBestChain \/ ActivateStep
             PROVE  ValidInv'
    BY Zenon
<1>1. CASE ActivateBestChain \/ LockMain \/ NoCandidate \/ AbortDisconnect \/ ReturnActivate
    <2>1. UNCHANGED <<failedValid, failedChild, failedBlocks, tip, scriptsValid, mostWork, haveData>>
        BY <1>1, Zenon DEF ActivateBestChain, LockMain, NoCandidate, AbortDisconnect,
           ReturnActivate, statusVars, activateVars
    <2> QED
        BY <2>1, NoFlags, Zenon DEF ValidInv
<1>2. ASSUME NEW b \in Block, AlreadyBest(b) \/ AbortConnect(b)
      PROVE  ValidInv'
    <2>1. /\ UNCHANGED <<failedValid, failedChild, failedBlocks, tip, scriptsValid, haveData>>
          /\ mostWork' \in {mostWork, None}
        BY <1>2, Zenon DEF AlreadyBest, AbortConnect, statusVars, activateVars
    <2> QED
        BY <2>1, NoFlags, Zenon DEF ValidInv
<1>3. ASSUME NEW b \in Block, NEW x \in Block, DropCandidate(b, x)
      PROVE  ValidInv'
    <2> DEFINE flagged == Above(x, b)
    <2>1. x \in Anc[b] /\ x \notin Path
        BY <1>3 DEF DropCandidate, OffChain, Chain, Path
    <2>2. flagged \cap Path = {}
        BY <2>1, WalkOffPath
    <2>3. /\ failedValid' \cup failedChild' \subseteq Failed \cup flagged
          /\ UNCHANGED <<tip, scriptsValid, mostWork, haveData, failedBlocks, failedValid>>
        BY <1>3 DEF DropCandidate, Failed, activateVars
    <2> HIDE DEF flagged
    <2> QED
        BY <2>2, <2>3, FlagsOffPath, Zenon DEF ValidInv, FailedBlocksFailed
<1>4. ASSUME NEW b \in Block, BeginStep(b)
      PROVE  ValidInv'
    <2>1. UNCHANGED <<failedValid, failedChild, failedBlocks, tip, scriptsValid, haveData>>
          /\ mostWork' = b
        BY <1>4, Zenon DEF BeginStep, statusVars
    <2>2. CASE mostWork # None
        BY <1>4, <2>1, <2>2, NoFlags, Zenon DEF BeginStep, IsTarget, ValidInv
    <2>3. CASE mostWork = None
        <3>1. (Anc[b] \ Anc[tip]) \cap (Failed \cup (Block \ haveData)) = {}
            BY <1>4, <2>3, Zenon DEF BeginStep, IsTarget, OffChain, Unusable, Chain
        <3>2. Anc[b] \subseteq Block
            BY AncFacts, Zenon
        <3>3. Anc[tip] \cap Failed = {} /\ Anc[tip] \subseteq Acceptable
            BY PathFacts, Zenon DEF Path
        <3>4. Anc[b] \cap Failed = {} /\ Anc[b] \subseteq Acceptable
            BY <3>1, <3>2, <3>3, Zenon DEF ValidInv
        <3> QED
            BY <2>1, <3>4, Zenon DEF ValidInv, ActiveChainValid, FailedBlocksFailed, Chain, Failed
    <2> QED
        BY <2>2, <2>3
<1>5. CASE DisconnectTip
    <2>1. tip \in Block /\ mostWork \in Block /\ tip \notin Anc[mostWork] /\ tip' = Prev[tip]
        BY <1>5, Zenon DEF DisconnectTip, TypeInv, CallInv
    <2>2. tip # Genesis
        BY <2>1, AncFacts, Zenon
    <2>3. Anc[tip'] \subseteq Anc[tip]
        BY <2>1, <2>2, ParentFacts
    <2>4. UNCHANGED <<failedValid, failedChild, failedBlocks, scriptsValid, haveData, mostWork>>
        BY <1>5, Zenon DEF DisconnectTip, statusVars, activateVars
    <2> QED
        BY <2>3, <2>4, Zenon DEF ValidInv, ActiveChainValid, FailedBlocksFailed, Chain, Failed
<1>6. ASSUME NEW b \in Block, ConnectTip(b)
      PROVE  ValidInv'
    <2>1. mostWork \in Block /\ b \in Anc[mostWork] /\ b \notin Anc[tip] /\ Prev[b] = tip
        BY <1>6, Zenon DEF ConnectTip, IsNext, TypeInv, CallInv, Chain
    <2>2. b \notin Failed /\ b \in Connectable
        BY <1>6, <2>1, TreeAssumption, Zenon DEF ValidInv, ConnectTip
    <2>3. b # Genesis
        BY <2>1, AncFacts, Zenon DEF TypeInv
    <2>4. Anc[b] = {b} \cup Anc[tip]
        BY <2>1, <2>3, ParentFacts, Zenon
    <2>5. /\ tip' = b /\ scriptsValid' = scriptsValid \cup {b}
          /\ UNCHANGED <<failedValid, failedChild, failedBlocks, haveData>>
        BY <1>6, <2>2, Zenon DEF ConnectTip
    <2>6. mostWork' \in {mostWork, None}
        BY <1>6, EndStepCalls, Zenon DEF ConnectTip, activateVars
    <2>7. ActiveChainValid'
        BY <2>2, <2>4, <2>5, Zenon DEF ValidInv, ActiveChainValid, Chain, Failed
    <2> QED
        BY <2>2, <2>5, <2>6, <2>7, Zenon DEF ValidInv, FailedBlocksFailed, Failed
<1>7. ASSUME NEW b \in Block, ConnectInvalid(b)
      PROVE  ValidInv'
    <2>1. b \notin Anc[tip]
        BY <1>7, Zenon DEF ConnectInvalid, IsNext, Chain
    <2>2. mostWork' = None
        BY <1>7, EndStepCalls, Zenon DEF ConnectInvalid
    <2>3. /\ failedValid' = failedValid \cup {b} /\ failedBlocks' = failedBlocks \cup {b}
          /\ UNCHANGED <<failedChild, tip, scriptsValid, haveData>>
        BY <1>7, Zenon DEF ConnectInvalid, InvalidBlockFound
    <2> QED
        BY <2>1, <2>2, <2>3, Zenon DEF ValidInv, ActiveChainValid, FailedBlocksFailed, Chain, Failed
<1> QED
    BY <1>1, <1>2, <1>3, <1>4, <1>5, <1>6, <1>7 DEF ActivateStep

\* InvalidateBlock keeps ValidInv: it flags a block once that is disconnected,
\* and the condition under which it would clear a flag never holds.
LEMMA ValidInvalidate == TypeInv /\ CallInv /\ ValidInv /\ InvalidateStep => ValidInv'
<1> SUFFICES ASSUME TypeInv, CallInv, ValidInv, InvalidateStep
             PROVE  ValidInv'
    BY Zenon
<1>1. CASE InvalidateDisconnect
    <2>1. target \in Block \ {Genesis} /\ target \in Anc[tip] /\ tip \in Block
        BY <1>1, Zenon DEF InvalidateDisconnect, CallInv, TypeInv, Chain
    <2>2. tip # Genesis
        BY <2>1, TreeAssumption, Zenon
    <2>3. Anc[Prev[tip]] \subseteq Anc[tip]
        BY <2>1, <2>2, ParentFacts
    <2>4. /\ UNCHANGED <<failedValid, failedChild, failedBlocks, scriptsValid, haveData, mostWork>>
          /\ tip' = Prev[tip]
        BY <1>1, Zenon DEF InvalidateDisconnect, statusVars, activateVars
    <2> QED
        BY <2>3, <2>4, Zenon DEF ValidInv, ActiveChainValid, FailedBlocksFailed, Chain, Failed
<1>2. CASE InvalidateGivesUp
    BY <1>2, NoFlags, Zenon DEF InvalidateGivesUp, statusVars, activateVars, ValidInv
<1>3. CASE InvalidateMark
    <2>1. walkTip \in Block /\ walkTip # Genesis /\ Prev[walkTip] = tip /\ mostWork = None
        BY <1>3, Zenon DEF InvalidateMark, CallInv
    <2>2. walkTip \notin Anc[tip]
        BY <2>1, ParentFacts, Zenon
    <2>3. ~(Prev[walkTip] = toMark /\ toMark \in failedValid)
        BY <2>1, AncFacts, Zenon DEF TypeInv, ValidInv, ActiveChainValid, Chain, Failed
    <2>4. /\ failedValid' = failedValid \cup {walkTip} /\ failedChild' = failedChild
          /\ UNCHANGED <<failedBlocks, tip, scriptsValid, haveData, mostWork>>
        BY <1>3, <2>3, Zenon DEF InvalidateMark, activateVars
    <2> QED
        BY <2>1, <2>2, <2>4 DEF ValidInv, ActiveChainValid, FailedBlocksFailed, Chain, Failed
<1>4. CASE InvalidateFinish
    <2>1. /\ toMark \in Block /\ target \in Anc[toMark] /\ target \notin Anc[tip] /\ mostWork = None
        BY <1>4, Zenon DEF InvalidateFinish, CallInv, Chain
    <2>2. toMark \notin Anc[tip]
        BY <2>1, AncFacts, Zenon DEF TypeInv
    <2>3. /\ failedValid' = failedValid \cup {toMark} /\ failedBlocks' = failedBlocks \cup {toMark}
          /\ UNCHANGED <<failedChild, tip, scriptsValid, haveData, mostWork>>
        BY <1>4, Zenon DEF InvalidateFinish, activateVars
    <2> QED
        BY <2>1, <2>2, <2>3 DEF ValidInv, ActiveChainValid, FailedBlocksFailed, Chain, Failed
<1> QED
    BY <1>1, <1>2, <1>3, <1>4 DEF InvalidateStep

\* The other commands put no flag on any block.
LEMMA ValidOperator == TypeInv /\ ValidInv /\ (Operator \/ Pruning) => ValidInv'
<1> SUFFICES ASSUME TypeInv, ValidInv, Operator \/ Pruning
             PROVE  ValidInv'
    BY Zenon
<1>1. ASSUME NEW b \in Block, PreciousBlock(b) \/ InvalidateBlock(b)
      PROVE  ValidInv'
    <2>1. UNCHANGED <<failedValid, failedChild, failedBlocks, tip, scriptsValid, haveData, mostWork>>
        BY <1>1, Zenon DEF PreciousBlock, InvalidateBlock, statusVars, activateVars
    <2> QED
        BY <2>1, NoFlags, Zenon DEF ValidInv
<1>2. ASSUME NEW b \in Block, ResetBlockFailureFlags(b)
      PROVE  ValidInv'
    <2>1. /\ failedValid' \cup failedChild' \subseteq Failed
          /\ failedBlocks' \subseteq failedValid'
          /\ UNCHANGED <<tip, scriptsValid, haveData, mostWork>>
        BY <1>2, Zenon DEF ResetBlockFailureFlags, StillFailed, Failed, activateVars, ValidInv,
           FailedBlocksFailed
    <2> QED
        BY <2>1, Zenon DEF ValidInv, ActiveChainValid, FailedBlocksFailed, Chain, Failed
<1>3. ASSUME NEW blocks \in SUBSET haveData, PruneFiles(blocks)
      PROVE  ValidInv'
    <2>1. /\ UNCHANGED <<failedValid, failedChild, failedBlocks, tip, scriptsValid, mostWork>>
          /\ haveData' \subseteq haveData
        BY <1>3 DEF PruneFiles, activateVars
    <2> QED
        BY <2>1, NoFlags, Zenon DEF ValidInv
<1> QED
    BY <1>1, <1>2, <1>3 DEF Operator, Pruning

-----------------------------------------------------------------------------
(* Theorems.                                                               *)

\* IInv is an inductive invariant.
LEMMA Invariance == Spec => []IInv
<1>1. Init => IInv
    <2> SUFFICES ASSUME Init PROVE CallInv /\ ValidInv
        BY TypeInit, Zenon DEF IInv
    <2>1. CallInv
        BY Zenon DEF Init, CallInv
    <2>2. ValidInv
        BY TreeAssumption, BoundAssumption DEF Init, ValidInv, ActiveChainValid, FailedBlocksFailed,
           Chain, Failed
    <2> QED
        BY <2>1, <2>2, Zenon
<1>2. IInv /\ [Next]_vars => IInv'
    <2> SUFFICES ASSUME IInv, [Next]_vars PROVE IInv'
        BY Zenon
    <2>1. TypeInv' /\ CallInv'
        BY TypeStep, CallStep, Zenon DEF IInv
    <2>2. CASE UNCHANGED vars
        <3>1. UNCHANGED <<failedValid, failedChild, failedBlocks, tip, scriptsValid, haveData, mostWork>>
            BY <2>2, Zenon DEF vars, statusVars, activateVars
        <3> QED
            BY <2>1, <3>1, NoFlags, Zenon DEF IInv, ValidInv
    <2>3. CASE Next
        BY <2>1, <2>3, ValidArrival, ValidActivate, ValidInvalidate, ValidOperator, Zenon DEF IInv,
           Next, Live
    <2> QED
        BY <2>2, <2>3, Zenon
<1> QED
    BY <1>1, <1>2, PTL DEF Spec

\* The state of the block index stays well typed, whatever arrives and
\* whatever the operator does.
THEOREM ChainstateTypes == Spec => []TypeOK
<1>1. IInv => TypeOK
    BY TypeForms, Zenon DEF IInv
<1> QED
    BY <1>1, Invariance, PTL

\* No block that is flagged as failed is in m_chain, and every block in it was
\* connected: whichever blocks are flagged between two rounds, while a goal
\* chosen earlier is kept.
THEOREM ChainStaysValid == Spec => []ActiveChainValid
<1>1. IInv => ActiveChainValid
    BY Zenon DEF IInv, ValidInv
<1> QED
    BY <1>1, Invariance, PTL

\* m_failed_blocks holds only blocks with BLOCK_FAILED_VALID, as
\* AcceptBlockHeader asserts, through invalidateblock and reconsiderblock.
THEOREM FailedSetSound == Spec => []FailedBlocksFailed
<1>1. IInv => FailedBlocksFailed
    BY Zenon DEF IInv, ValidInv
<1> QED
    BY <1>1, Invariance, PTL

DemotionDead == pc = "mark" => ~(Prev[walkTip] = toMark /\ toMark \in failedValid)

\* InvalidateBlock never turns BLOCK_FAILED_VALID into BLOCK_FAILED_CHILD: the
\* condition of that branch does not hold in any reachable state.
THEOREM NeverDemotes == Spec => []DemotionDead
<1>1. IInv => DemotionDead
    <2> SUFFICES ASSUME IInv, pc = "mark" PROVE tip \notin failedValid /\ Prev[walkTip] = tip
        BY Zenon DEF DemotionDead
    <2>1. tip \in Anc[tip]
        BY AncFacts, Zenon DEF IInv, TypeInv
    <2> QED
        BY <2>1, Zenon DEF IInv, CallInv, ValidInv, ActiveChainValid, Chain, Failed
<1> QED
    BY <1>1, Invariance, PTL
=============================================================================
