-------------------------- MODULE ChainBestProofs --------------------------
(***************************************************************************)
(* The best chain.  While blocks only arrive, are invalidated by hand or are *)
(* preferred to the tip, the candidates hold every branch worth activating,  *)
(* and the tip ends on the best of them, for every tree of blocks and every  *)
(* order of arrival.  Without pruning the goal of a call never gets stale,   *)
(* whatever the operator does.                                              *)
(***************************************************************************)
EXTENDS ChainstateProofs, OperatorHabits

\* The block may become the tip, as far as is known.
Good(b) == Processed(b) /\ ~Invalid(b)
Seeking == pc \in {"find", "step"}

\* What was received is linked to the genesis block or filed under its parent.
LinkInv ==
    /\ haveData = received /\ received \subseteq index /\ Chain \subseteq received
    /\ \A b \in linked : Processed(b)
    /\ \A b \in Block : Good(b) => b \in linked
    /\ unlinked \subseteq received
    /\ \A b \in received : ~Processed(b) /\ ~Invalid(b) => b \in unlinked
    /\ \A b \in Failed : Invalid(b)
    /\ byWork \subseteq linked

\* The goal is as good as the tip the round began with, and while blocks are
\* disconnected the tip is no better than that.
GoalInv ==
    /\ \A c \in candidates : Processed(c) /\ ~Less(sequenceId, c, tip)
    /\ Seeking => startTip \in Block /\ Good(startTip) /\ Anc[startTip] \subseteq Connectable
    /\ pc = "find" \/ (pc = "step" /\ tip \notin Anc[mostWork]) => ~Less(sequenceId, startTip, tip)
    /\ mostWork # None => /\ Processed(mostWork)
                          /\ Seeking => ~Less(sequenceId, mostWork, startTip)
                          /\ pc \in {"loop", "find"} => tip \in Anc[mostWork] \ {mostWork}

\* Every good block that is no worse than the tip is a candidate; during a
\* round, every one that is also no worse than the tip it began with.
Listed ==
    \A b \in Block : /\ Good(b) /\ ~Less(sequenceId, b, tip)
                     /\ Seeking => ~Less(sequenceId, b, startTip)
                     => b \in candidates

\* Unless a call is due, the goal of a call under way, and the tip when none
\* is, are the best.
BestInv ==
    /\ pc # "down"
    /\ pc \notin {"walk", "mark"} => Listed
    /\ ~owed => /\ pc \in {"idle", "exit"} => \A b \in Block : Good(b) => ~Less(sequenceId, tip, b)
                /\ mostWork # None => \A b \in Block : Good(b) => ~Less(sequenceId, mostWork, b)

BInv == IInv /\ LinkInv /\ GoalInv /\ BestInv

-----------------------------------------------------------------------------
(* The order of the candidates.                                            *)

\* CBlockIndexWorkComparator is a strict total order.
LEMMA LessOrder ==
    ASSUME NEW seq \in [Block -> Int], NEW a \in Block, NEW b \in Block, NEW c \in Block
    PROVE  /\ ~Less(seq, a, a)
           /\ Less(seq, a, b) => ~Less(seq, b, a)
           /\ ~Less(seq, a, b) /\ ~Less(seq, b, a) => a = b
           /\ ~Less(seq, a, b) /\ ~Less(seq, b, c) => ~Less(seq, a, c)
           /\ ChainWork[a] < ChainWork[b] => Less(seq, a, b)
<1>1. /\ ChainWork[a] \in Nat /\ ChainWork[b] \in Nat /\ ChainWork[c] \in Nat
      /\ Address[a] \in Nat /\ Address[b] \in Nat /\ Address[c] \in Nat
      /\ seq[a] \in Int /\ seq[b] \in Int /\ seq[c] \in Int
      /\ Address[a] = Address[b] => a = b
    BY OrderAssumption
<1> QED
    BY <1>1 DEF Less

\* Work grows along a branch, over any distance.
LEMMA AncestorWork ==
    \A b \in Block : \A a \in Anc[b] \ {b} : ChainWork[a] < ChainWork[b]
BY AncFacts, OrderAssumption, Zenon

\* A block has more work than its parent.
LEMMA ParentWork ==
    ASSUME NEW b \in Block, b # Genesis
    PROVE  Prev[b] \in Block /\ ChainWork[Prev[b]] < ChainWork[b]
<1>1. Prev[b] \in Anc[b] \ {b} /\ Prev[b] \in Block
    BY ParentFacts, AncFacts, Zenon
<1> QED
    BY <1>1, AncestorWork, Zenon

\* A block is better than its ancestors.
LEMMA AncestorLess ==
    ASSUME NEW seq \in [Block -> Int], NEW b \in Block, NEW a \in Anc[b], a # b
    PROVE  Less(seq, a, b) /\ ~Less(seq, b, a)
<1>1. a \in Block /\ ChainWork[a] < ChainWork[b]
    BY AncestorWork, AncFacts, Zenon
<1> QED
    BY <1>1, LessOrder, Zenon

-----------------------------------------------------------------------------
(* What is received and what is linked.                                    *)

\* An ancestor of a processed block is processed, a descendant of an invalid
\* one invalid.
LEMMA BranchFacts ==
    ASSUME NEW b \in Block, NEW a \in Anc[b]
    PROVE  (Processed(b) => Processed(a)) /\ (Invalid(a) => Invalid(b))
           /\ (Good(b) => Good(a))
BY AncFacts, Zenon DEF Processed, Invalid, Good

\* The tip is good.
LEMMA TipGood ==
    ASSUME IInv, LinkInv
    PROVE  Good(tip) /\ Anc[tip] \subseteq Connectable /\ tip \in haveData
<1>1. Anc[tip] \subseteq received /\ tip \in Anc[tip]
    BY AncFacts, Zenon DEF IInv, TypeInv, LinkInv, Chain
<1>2. Anc[tip] \cap failedValid = {} /\ Anc[tip] \subseteq Connectable
    BY BoundAssumption, Zenon DEF IInv, ValidInv, ActiveChainValid, Chain, Failed
<1> QED
    BY <1>1, <1>2, Zenon DEF Good, Processed, Invalid, LinkInv

\* New flags keep LinkInv as long as each has a cause.
LEMMA LinkKept ==
    ASSUME LinkInv, UNCHANGED <<haveData, received, linked, unlinked>>, index \subseteq index',
           failedValid \subseteq failedValid',
           \A b \in failedValid' \cup failedChild' : Anc[b] \cap failedValid' # {},
           Anc[tip'] \subseteq received, byWork' \subseteq linked
    PROVE  LinkInv'
BY DEF LinkInv, Good, Processed, Invalid, Failed, Chain

\* The same when no flag changes.
LEMMA LinkSame ==
    ASSUME LinkInv, UNCHANGED <<haveData, received, linked, unlinked, failedValid, failedChild>>,
           index \subseteq index', Anc[tip'] \subseteq received, byWork' \subseteq linked
    PROVE  LinkInv'
<1>1. \A b \in failedValid' \cup failedChild' : Anc[b] \cap failedValid' # {}
    BY Zenon DEF LinkInv, Failed, Invalid
<1> QED
    BY <1>1, LinkKept, Zenon

\* The blocks that the arrival of b links are the ones whose last missing
\* ancestor was b.
LEMMA ReachedFacts ==
    ASSUME TypeInv, LinkInv, NEW b \in Block \ {Genesis}, b \notin received, Prev[b] \in linked
    PROVE  /\ b \in Reached(b)
           /\ \A d \in Reached(b) : d \in Block /\ b \in Anc[d] /\ Anc[d] \subseteq received \cup {b}
           /\ \A d \in Block : Anc[d] \subseteq received \cup {b} /\ b \in Anc[d] /\ ~Invalid(d)
                  => d \in Reached(b)
           /\ \A d \in Block : Processed(d) => d \notin Reached(b)
<1>1. b \in Reached(b)
    BY AncFacts, Zenon DEF Reached
<1>2. ASSUME NEW d \in Reached(b)
      PROVE  d \in Block /\ b \in Anc[d] /\ Anc[d] \subseteq received \cup {b}
    <2>1. d \in Block /\ b \in Anc[d] /\ Anc[d] \ Anc[b] \subseteq received
        BY Zenon DEF Reached, LinkInv
    <2>2. Anc[b] = {b} \cup Anc[Prev[b]] /\ Anc[Prev[b]] \subseteq received
        BY ParentFacts, Zenon DEF LinkInv, Processed
    <2> QED
        BY <2>1, <2>2, Zenon
<1>3. ASSUME NEW d \in Block, Anc[d] \subseteq received \cup {b}, b \in Anc[d], ~Invalid(d)
      PROVE  d \in Reached(b)
    <2>1. ASSUME NEW e \in Anc[d] \ Anc[b]
          PROVE  e \in unlinked
        <3>1. b \in Anc[e] /\ e \in Block /\ b \in Anc[b]
            BY <1>3, TreeAssumption
        <3>2. e \in received /\ ~Processed(e)
            BY <1>3, <3>1, Zenon DEF Processed
        <3>3. ~Invalid(e)
            BY <1>3, BranchFacts, Zenon
        <3> QED
            BY <3>2, <3>3, Zenon DEF LinkInv
    <2> QED
        BY <1>3, <2>1, Zenon DEF Reached
<1>4. ASSUME NEW d \in Block, Processed(d)
      PROVE  d \notin Reached(b)
    BY <1>4, Zenon DEF Processed, Reached
<1> QED
    BY <1>1, <1>2, <1>3, <1>4, Zenon

\* A block that waits for an ancestor completes no branch.
LEMMA WaitingFacts ==
    ASSUME TypeInv, LinkInv, NEW b \in Block \ {Genesis}, b \notin received, Prev[b] \notin linked
    PROVE  /\ \A d \in Block : Anc[d] \subseteq received \cup {b} /\ ~Invalid(d) => b \notin Anc[d]
           /\ ~Invalid(b) => IsFiled(b)
<1>1. Prev[b] \in Block /\ Anc[b] = {b} \cup Anc[Prev[b]] /\ b \notin Anc[Prev[b]]
    BY ParentFacts, Zenon
<1>2. ~Good(Prev[b])
    BY <1>1 DEF LinkInv
<1>3. ASSUME NEW d \in Block, Anc[d] \subseteq received \cup {b}, ~Invalid(d), b \in Anc[d]
      PROVE  FALSE
    <2>1. Anc[b] \subseteq Anc[d]
        BY <1>3, AncFacts, Zenon
    <2>2. Processed(Prev[b])
        BY <1>1, <1>3, <2>1 DEF Processed
    <2>3. ~Invalid(Prev[b])
        BY <1>1, <1>3, <2>1, Zenon DEF Invalid
    <2> QED
        BY <1>2, <2>2, <2>3, Zenon DEF Good
<1>4. ASSUME ~Invalid(b)
      PROVE  IsFiled(b)
    BY <1>1, <1>4, Zenon DEF LinkInv, Invalid, IsFiled
<1> QED
    BY <1>3, <1>4, Zenon

\* Arrivals keep LinkInv.
LEMMA LinkArrival == IInv /\ LinkInv /\ Arrival => LinkInv'
<1> SUFFICES ASSUME IInv, LinkInv, Arrival
             PROVE  LinkInv'
    BY Zenon
<1>1. UNCHANGED <<tip, byWork>> /\ Anc[tip'] \subseteq received /\ byWork' \subseteq linked
    BY DEF Arrival, AcceptBlockHeader, RejectBlockHeader, IgnoreBlock, RejectBlock, ReceiveLinked,
       ReceiveUnlinked, invalidateVars, LinkInv, Chain
<1>2. ASSUME NEW b \in Block \ {Genesis}, NEW r \in BOOLEAN, AcceptBlockHeader(b) \/ IgnoreBlock(b, r)
      PROVE  LinkInv'
    BY <1>1, <1>2, LinkSame, Zenon DEF AcceptBlockHeader, IgnoreBlock
<1>3. ASSUME NEW b \in Block \ {Genesis}, NEW f \in Block, RejectBlockHeader(b, f)
      PROVE  LinkInv'
    <2>1. Prev[b] \in Block /\ f \in Anc[Prev[b]] /\ f \in failedValid
        BY <1>3, ParentFacts, Zenon DEF RejectBlockHeader, FailedAncestors, IInv, ValidInv,
           FailedBlocksFailed
    <2>2. \A d \in Above(f, Prev[b]) : f \in Anc[d]
        BY <2>1, AboveDescends, Zenon
    <2>3. /\ failedChild' = failedChild \cup Above(f, Prev[b])
          /\ UNCHANGED <<haveData, received, linked, unlinked, index, failedValid>>
        BY <1>3, Zenon DEF RejectBlockHeader
    <2>4. \A d \in failedValid' \cup failedChild' : Anc[d] \cap failedValid' # {}
        BY <2>1, <2>2, <2>3 DEF LinkInv, Failed, Invalid
    <2> QED
        BY <1>1, <2>3, <2>4, LinkKept, Zenon
<1>4. ASSUME NEW b \in Block \ {Genesis}, NEW r \in BOOLEAN, RejectBlock(b, r)
      PROVE  LinkInv'
    <2>1. /\ failedValid' = failedValid \cup {b} /\ index \subseteq index'
          /\ UNCHANGED <<haveData, received, linked, unlinked, failedChild>>
        BY <1>4, Zenon DEF RejectBlock
    <2>2. \A d \in failedValid' \cup failedChild' : Anc[d] \cap failedValid' # {}
        BY <2>1, AncFacts DEF LinkInv, Failed, Invalid
    <2> QED
        BY <1>1, <2>1, <2>2, LinkKept
<1>5. ASSUME NEW b \in Block \ {Genesis}, NEW r \in BOOLEAN, ReceiveLinked(b, r)
      PROVE  LinkInv'
    <2>1. /\ haveData' = haveData \cup {b} /\ received' = received \cup {b} /\ index' = index \cup {b}
          /\ linked' = linked \cup Reached(b) /\ unlinked' = unlinked \ (Reached(b) \ {b})
          /\ UNCHANGED <<failedValid, failedChild>> /\ Prev[b] \in linked /\ b \notin received
        BY <1>5, Zenon DEF ReceiveLinked, Wanted, LinkInv
    <2>2. /\ \A d \in Reached(b) : d \in Block /\ b \in Anc[d] /\ Anc[d] \subseteq received'
          /\ \A d \in Block : Anc[d] \subseteq received' /\ b \in Anc[d] /\ ~Invalid(d)
                 => d \in Reached(b)
        BY <2>1, ReachedFacts, Zenon DEF IInv
    <2>3. \A d \in linked' : Processed(d)'
        BY <2>1, <2>2, Zenon DEF LinkInv, Processed
    <2>4. \A d \in Block : Good(d)' => d \in linked'
        BY <2>1, <2>2, Zenon DEF LinkInv, Good, Processed, Invalid
    <2>5. ASSUME NEW d \in received', ~Processed(d)', ~Invalid(d)'
          PROVE  d \in unlinked'
        <3>1. d # b /\ d \notin Reached(b)
            BY <2>1, <2>2, <2>5, ReachedFacts, Zenon DEF Processed, IInv
        <3>2. d \in received /\ ~Processed(d) /\ ~Invalid(d)
            BY <2>1, <2>5, <3>1, Zenon DEF Processed, Invalid
        <3> QED
            BY <2>1, <3>1, <3>2, Zenon DEF LinkInv
    <2>6. \A d \in Failed' : Invalid(d)'
        BY <2>1, Zenon DEF LinkInv, Failed, Invalid
    <2> QED
        BY <1>1, <2>1, <2>3, <2>4, <2>5, <2>6, Zenon DEF LinkInv, Chain
<1>6. ASSUME NEW b \in Block \ {Genesis}, NEW r \in BOOLEAN, ReceiveUnlinked(b, r)
      PROVE  LinkInv'
    <2>1. /\ haveData' = haveData \cup {b} /\ received' = received \cup {b} /\ index' = index \cup {b}
          /\ linked' = linked \ {b} /\ unlinked' = IF IsFiled(b) THEN unlinked \cup {b} ELSE unlinked
          /\ UNCHANGED <<failedValid, failedChild>> /\ Prev[b] \notin linked /\ b \notin received
        BY <1>6, Zenon DEF ReceiveUnlinked, Wanted, LinkInv
    <2>2. linked' = linked
        BY <2>1, AncFacts, Zenon DEF LinkInv, Processed
    <2>3. /\ \A d \in Block : Anc[d] \subseteq received' /\ ~Invalid(d) => b \notin Anc[d]
          /\ ~Invalid(b) => IsFiled(b)
        BY <2>1, WaitingFacts, Zenon DEF IInv
    <2>4. \A d \in linked' : Processed(d)'
        BY <2>1, <2>2, Zenon DEF LinkInv, Processed
    <2>5. \A d \in Block : Good(d)' => d \in linked'
        BY <2>1, <2>2, <2>3 DEF LinkInv, Good, Processed, Invalid
    <2>6. \A d \in received' : ~Processed(d)' /\ ~Invalid(d)' => d \in unlinked'
        BY <2>1, <2>3, Zenon DEF LinkInv, Processed, Invalid
    <2>7. \A d \in Failed' : Invalid(d)'
        BY <2>1, Zenon DEF LinkInv, Failed, Invalid
    <2> QED
        BY <1>1, <2>1, <2>2, <2>4, <2>5, <2>6, <2>7, Zenon DEF LinkInv, Chain
<1> QED
    BY <1>2, <1>3, <1>4, <1>5, <1>6, Zenon DEF Arrival

\* The best candidate is held up by failed blocks only.
LEMMA DroppedFailed ==
    ASSUME IInv, LinkInv, GoalInv, NEW b \in Block, NEW x \in Block, DropCandidate(b, x)
    PROVE  /\ x \in Failed /\ x \in Anc[b] /\ UNCHANGED unlinked
           /\ \A d \in Above(x, b) \cup {x} : d \in Block /\ Invalid(d)
<1>1. x \in Anc[b] /\ x \in Unusable /\ b \in candidates
    BY Zenon DEF DropCandidate, OffChain, IsBestCandidate
<1>2. x \in Failed
    BY <1>1, Zenon DEF Unusable, GoalInv, Processed, LinkInv
<1>3. \A d \in Above(x, b) \cup {x} : d \in Block /\ x \in Anc[d]
    BY <1>1, AboveDescends, AncFacts, Zenon
<1>4. \A d \in Above(x, b) \cup {x} : d \in Block /\ Invalid(d)
    BY <1>2, <1>3, BranchFacts DEF LinkInv
<1>5. UNCHANGED unlinked
    BY <1>2 DEF DropCandidate, Refiled
<1> QED
    BY <1>1, <1>2, <1>4, <1>5, Zenon

\* Steps of ActivateBestChain keep LinkInv.
LEMMA LinkActivate ==
    IInv /\ LinkInv /\ GoalInv /\ (ActivateBestChain \/ ActivateStep) => LinkInv'
<1> SUFFICES ASSUME IInv, LinkInv, GoalInv, ActivateBestChain \/ ActivateStep
             PROVE  LinkInv'
    BY Zenon
<1>1. byWork' \subseteq linked
    BY Zenon DEF ActivateBestChain, ActivateStep, LockMain, NoCandidate, DropCandidate, AlreadyBest,
       BeginStep, ConnectTip, ConnectInvalid, AbortConnect, DisconnectTip, AbortDisconnect,
       ReturnActivate, invalidateVars, LinkInv
<1>2. CASE ActivateBestChain \/ LockMain \/ NoCandidate \/ AbortDisconnect \/ ReturnActivate
    BY <1>1, <1>2, LinkSame, Zenon DEF ActivateBestChain, LockMain, NoCandidate, AbortDisconnect,
       ReturnActivate, statusVars, LinkInv, Chain
<1>3. ASSUME NEW b \in Block, AlreadyBest(b) \/ BeginStep(b) \/ AbortConnect(b)
      PROVE  LinkInv'
    BY <1>1, <1>3, LinkSame, Zenon DEF AlreadyBest, BeginStep, AbortConnect, statusVars, LinkInv,
       Chain
<1>4. ASSUME NEW b \in Block, NEW x \in Block, DropCandidate(b, x)
      PROVE  LinkInv'
    <2>1. UNCHANGED unlinked /\ \A d \in Above(x, b) : Invalid(d)
        BY <1>4, DroppedFailed, Zenon
    <2>2. /\ UNCHANGED <<haveData, received, linked, index, failedValid, tip>>
          /\ failedChild' \subseteq failedChild \cup Above(x, b)
        BY <1>4, Zenon DEF DropCandidate
    <2>3. \A d \in failedValid' \cup failedChild' : Anc[d] \cap failedValid' # {}
        BY <2>1, <2>2, Zenon DEF LinkInv, Failed, Invalid
    <2> QED
        BY <1>1, <2>1, <2>2, <2>3, LinkKept, Zenon DEF LinkInv, Chain
<1>5. CASE DisconnectTip
    <2>1. tip \in Block /\ mostWork \in Block /\ tip \notin Anc[mostWork] /\ tip' = Prev[tip]
        BY <1>5, Zenon DEF DisconnectTip, IInv, TypeInv, CallInv
    <2>2. tip # Genesis
        BY <2>1, AncFacts, Zenon
    <2>3. Anc[tip'] \subseteq received
        BY <2>1, <2>2, ParentFacts DEF LinkInv, Chain
    <2> QED
        BY <1>1, <1>5, <2>3, LinkSame, Zenon DEF DisconnectTip, statusVars
<1>6. ASSUME NEW b \in Block, ConnectTip(b)
      PROVE  LinkInv'
    <2>1. b \notin Chain /\ Prev[b] = tip /\ b \in received /\ tip' = b
        BY <1>6, Zenon DEF ConnectTip, IsNext, LinkInv
    <2>2. b # Genesis
        BY <2>1, AncFacts, Zenon DEF IInv, TypeInv, Chain
    <2>3. Anc[tip'] \subseteq received
        BY <2>1, <2>2, ParentFacts DEF LinkInv, Chain
    <2> QED
        BY <1>1, <1>6, <2>3, LinkSame, Zenon DEF ConnectTip
<1>7. ASSUME NEW b \in Block, ConnectInvalid(b)
      PROVE  LinkInv'
    <2>1. /\ failedValid' = failedValid \cup {b}
          /\ UNCHANGED <<haveData, received, linked, unlinked, index, failedChild, tip>>
        BY <1>7, Zenon DEF ConnectInvalid, InvalidBlockFound
    <2>2. \A d \in failedValid' \cup failedChild' : Anc[d] \cap failedValid' # {}
        BY <2>1, AncFacts DEF LinkInv, Failed, Invalid
    <2> QED
        BY <1>1, <2>1, <2>2, LinkKept, Zenon DEF LinkInv, Chain
<1> QED
    BY <1>2, <1>3, <1>4, <1>5, <1>6, <1>7, Zenon DEF ActivateStep

\* InvalidateBlock keeps LinkInv.
LEMMA LinkInvalidate ==
    IInv /\ LinkInv /\ (InvalidateStep \/ \E b \in Block : InvalidateBlock(b)) => LinkInv'
<1> SUFFICES ASSUME IInv, LinkInv, InvalidateStep \/ \E b \in Block : InvalidateBlock(b)
             PROVE  LinkInv'
    BY Zenon
<1>1. ASSUME NEW b \in Block, InvalidateBlock(b)
      PROVE  LinkInv'
    <2>1. byWork' \subseteq linked
        BY <1>1, Zenon DEF InvalidateBlock, Eligible
    <2> QED
        BY <1>1, <2>1, LinkSame, Zenon DEF InvalidateBlock, statusVars, LinkInv, Chain
<1>2. CASE InvalidateDisconnect
    <2>1. target \in Block \ {Genesis} /\ target \in Anc[tip] /\ tip \in Block
        BY <1>2, Zenon DEF InvalidateDisconnect, IInv, CallInv, TypeInv, Chain
    <2>2. tip # Genesis
        BY <2>1, TreeAssumption, Zenon
    <2>3. Anc[Prev[tip]] \subseteq received
        BY <2>1, <2>2, ParentFacts DEF LinkInv, Chain
    <2> QED
        BY <1>2, <2>3, LinkSame, Zenon DEF InvalidateDisconnect, statusVars, LinkInv
<1>3. CASE InvalidateGivesUp
    BY <1>3, LinkSame, Zenon DEF InvalidateGivesUp, statusVars, LinkInv, Chain
<1>4. CASE InvalidateMark
    <2>1. Prev[walkTip] = tip /\ walkTip \in Block
        BY <1>4, Zenon DEF InvalidateMark, IInv, CallInv
    <2>2. ~(Prev[walkTip] = toMark /\ toMark \in failedValid)
        BY <2>1, AncFacts, Zenon DEF IInv, TypeInv, ValidInv, ActiveChainValid, Chain, Failed
    <2>3. /\ failedValid' = failedValid \cup {walkTip}
          /\ UNCHANGED <<haveData, received, linked, unlinked, index, failedChild, tip>>
          /\ byWork' \subseteq byWork
        BY <1>4, <2>2, Zenon DEF InvalidateMark
    <2>4. \A d \in failedValid' \cup failedChild' : Anc[d] \cap failedValid' # {}
        BY <2>1, <2>3, AncFacts DEF LinkInv, Failed, Invalid
    <2> QED
        BY <2>3, <2>4, LinkKept, Zenon DEF LinkInv, Chain
<1>5. CASE InvalidateFinish
    <2>1. toMark \in Block
        BY <1>5, Zenon DEF InvalidateFinish, IInv, CallInv
    <2>2. /\ failedValid' = failedValid \cup {toMark}
          /\ UNCHANGED <<haveData, received, linked, unlinked, index, failedChild, tip>>
          /\ byWork' = {}
        BY <1>5, Zenon DEF InvalidateFinish
    <2>3. \A d \in failedValid' \cup failedChild' : Anc[d] \cap failedValid' # {}
        BY <2>1, <2>2, AncFacts DEF LinkInv, Failed, Invalid
    <2> QED
        BY <2>2, <2>3, LinkKept, Zenon DEF LinkInv, Chain
<1> QED
    BY <1>1, <1>2, <1>3, <1>4, <1>5 DEF InvalidateStep

-----------------------------------------------------------------------------
(* The candidates and the goal.                                            *)

\* The comparator reads the sequence ids of its two blocks only.
LEMMA LessAgree ==
    ASSUME NEW seq, NEW new, NEW a, NEW b, new[a] = seq[a], new[b] = seq[b]
    PROVE  Less(new, a, b) <=> Less(seq, a, b)
BY DEF Less

\* What an arrival means for the order: no block that is linked gets another
\* sequence id, and a block that becomes good is listed, with a call due.
ArrivalKeepsOrder ==
    /\ UNCHANGED <<tip, pc, mostWork, startTip>> /\ pc \in {"idle", "loop", "exit", "walk"}
    /\ received \subseteq received' /\ (owed => owed')
    /\ \A b \in Block : Processed(b) => sequenceId'[b] = sequenceId[b]
    /\ candidates \subseteq candidates'
    /\ \A c \in candidates' \ candidates : Processed(c)' /\ ~Less(sequenceId', c, tip)
    /\ \A b \in Block : Good(b)' /\ ~Good(b) =>
           owed' /\ (~Less(sequenceId', b, tip) => b \in candidates')

\* A header or a block that arrives keeps what is known of the order.
LEMMA ArrivalOrder == IInv /\ LinkInv /\ Arrival => ArrivalKeepsOrder
<1> SUFFICES ASSUME IInv, LinkInv, Arrival
             PROVE  ArrivalKeepsOrder
    BY Zenon
<1>1. ASSUME NEW b \in Block \ {Genesis}, NEW f \in Block, NEW r \in BOOLEAN,
             AcceptBlockHeader(b) \/ RejectBlockHeader(b, f) \/ IgnoreBlock(b, r) \/ RejectBlock(b, r)
      PROVE  ArrivalKeepsOrder
    <2>1. /\ UNCHANGED <<tip, pc, mostWork, startTip, received, sequenceId, candidates>>
          /\ failedValid \subseteq failedValid' /\ (owed => owed') /\ CsMainFree
        BY <1>1 DEF AcceptBlockHeader, RejectBlockHeader, IgnoreBlock, RejectBlock, orderVars,
           activateVars
    <2>2. \A d \in Block : Good(d)' => Good(d)
        BY <2>1, Zenon DEF Good, Processed, Invalid
    <2> QED
        BY <2>1, <2>2, Zenon DEF ArrivalKeepsOrder, CsMainFree
<1>2. ASSUME NEW b \in Block \ {Genesis}, NEW r \in BOOLEAN, ReceiveLinked(b, r)
      PROVE  ArrivalKeepsOrder
    <2>1. /\ UNCHANGED <<tip, pc, mostWork, startTip, failedValid>> /\ CsMainFree /\ owed'
          /\ received' = received \cup {b} /\ b \notin received /\ Prev[b] \in linked
          /\ candidates' = candidates \cup NewCandidates(sequenceId', Reached(b))
          /\ \A d \in Block \ Reached(b) : sequenceId'[d] = sequenceId[d]
        BY <1>2, Zenon DEF ReceiveLinked, Wanted, LinkInv, activateVars
    <2>2. /\ \A d \in Reached(b) : d \in Block /\ b \in Anc[d] /\ Anc[d] \subseteq received'
          /\ \A d \in Block : Anc[d] \subseteq received' /\ b \in Anc[d] /\ ~Invalid(d)
                 => d \in Reached(b)
          /\ \A d \in Block : Processed(d) => d \notin Reached(b)
        BY <2>1, ReachedFacts, Zenon DEF IInv
    <2>3. \A d \in Block : Processed(d) => sequenceId'[d] = sequenceId[d]
        BY <2>1, <2>2, Zenon
    <2>4. \A d \in candidates' \ candidates : Processed(d)' /\ ~Less(sequenceId', d, tip)
        BY <2>1, <2>2, Zenon DEF NewCandidates, Processed
    <2>5. ASSUME NEW d \in Block, Good(d)', ~Good(d)
          PROVE  d \in Reached(b)
        BY <2>1, <2>2, <2>5, Zenon DEF Good, Processed, Invalid
    <2>6. \A d \in Reached(b) : ~Less(sequenceId', d, tip) => d \in candidates'
        BY <2>1, Zenon DEF NewCandidates
    <2> QED
        BY <2>1, <2>3, <2>4, <2>5, <2>6, Zenon DEF ArrivalKeepsOrder, CsMainFree
<1>3. ASSUME NEW b \in Block \ {Genesis}, NEW r \in BOOLEAN, ReceiveUnlinked(b, r)
      PROVE  ArrivalKeepsOrder
    <2>1. /\ UNCHANGED <<tip, pc, mostWork, startTip, failedValid, sequenceId, candidates>>
          /\ CsMainFree /\ owed'
          /\ received' = received \cup {b} /\ b \notin received /\ Prev[b] \notin linked
        BY <1>3, Zenon DEF ReceiveUnlinked, Wanted, LinkInv, activateVars, orderVars
    <2>2. \A d \in Block : Anc[d] \subseteq received' /\ ~Invalid(d) => b \notin Anc[d]
        BY <2>1, WaitingFacts, Zenon DEF IInv
    <2>3. \A d \in Block : Good(d)' => Good(d)
        BY <2>1, <2>2 DEF Good, Processed, Invalid
    <2> QED
        BY <2>1, <2>3, Zenon DEF ArrivalKeepsOrder, CsMainFree
<1> QED
    BY <1>1, <1>2, <1>3, Zenon DEF Arrival

\* Arrivals keep the candidates and the goal.
LEMMA BestArrival == BInv /\ Arrival => GoalInv' /\ BestInv'
<1> SUFFICES ASSUME BInv, Arrival
             PROVE  GoalInv' /\ BestInv'
    OBVIOUS
<1>1. ArrivalKeepsOrder
    BY ArrivalOrder, Zenon DEF BInv
<1>2. /\ UNCHANGED <<tip, pc, mostWork, startTip>> /\ pc \in {"idle", "loop", "exit", "walk"}
      /\ ~Seeking /\ ~Seeking' /\ (owed => owed') /\ candidates \subseteq candidates'
      /\ \A b \in Block : Processed(b) => sequenceId'[b] = sequenceId[b]
      /\ \A b \in Block : Processed(b) => Processed(b)'
    BY <1>1, Zenon DEF ArrivalKeepsOrder, Seeking, Processed
<1>3. tip \in Block /\ Processed(tip) /\ candidates \subseteq Block
      /\ (mostWork # None => mostWork \in Block /\ Processed(mostWork))
    BY TipGood, Zenon DEF BInv, IInv, TypeInv, GoalInv, Good
<1>4. \A c \in candidates' : Processed(c)' /\ ~Less(sequenceId', c, tip)
    <2> SUFFICES ASSUME NEW c \in candidates, Processed(c), ~Less(sequenceId, c, tip)
                 PROVE  Processed(c)' /\ ~Less(sequenceId', c, tip)
        BY <1>1, Zenon DEF ArrivalKeepsOrder, BInv, GoalInv
    <2> QED
        BY <1>2, <1>3, LessAgree, Zenon
<1>5. GoalInv'
    BY <1>2, <1>3, <1>4 DEF GoalInv, BInv
<1>6. ASSUME pc # "walk", NEW b \in Block, Good(b)', ~Less(sequenceId', b, tip)
      PROVE  b \in candidates'
    <2>1. CASE ~Good(b)
        BY <1>1, <1>6, <2>1, Zenon DEF ArrivalKeepsOrder
    <2>2. CASE Good(b)
        <3>1. ~Less(sequenceId, b, tip)
            BY <1>2, <1>3, <1>6, <2>2, LessAgree, Zenon DEF Good
        <3> QED
            BY <1>2, <1>6, <2>2, <3>1, Zenon DEF BInv, BestInv, Listed
    <2> QED
        BY <2>1, <2>2, Zenon
<1>7. ASSUME ~owed', NEW b \in Block, Good(b)'
      PROVE  /\ pc \in {"idle", "exit"} => ~Less(sequenceId', tip, b)
             /\ mostWork # None => ~Less(sequenceId', mostWork, b)
    <2>1. Good(b) /\ ~owed
        BY <1>1, <1>2, <1>7, Zenon DEF ArrivalKeepsOrder
    <2>2. /\ pc \in {"idle", "exit"} => ~Less(sequenceId, tip, b)
          /\ mostWork # None => ~Less(sequenceId, mostWork, b)
        BY <2>1, Zenon DEF BInv, BestInv
    <2>3. sequenceId'[b] = sequenceId[b] /\ sequenceId'[tip] = sequenceId[tip]
          /\ (mostWork # None => sequenceId'[mostWork] = sequenceId[mostWork])
        BY <1>2, <1>3, <2>1, Zenon DEF Good
    <2> QED
        BY <2>2, <2>3, LessAgree, Zenon
<1>8. BestInv'
    BY <1>2, <1>6, <1>7, Zenon DEF BestInv, Listed
<1> QED
    BY <1>5, <1>8

\* The end of a step keeps the candidates and the goal, whether cs_main is
\* released or kept for another round.
LEMMA EndStepKeeps ==
    ASSUME TypeInv, NEW t \in Block, NEW m \in Block \cup {None}, EndStep(t, m), tip' = t,
           UNCHANGED <<sequenceId, owed>>,
           startTip \in Block, Anc[startTip] \subseteq Connectable,
           Anc[startTip] \subseteq received' /\ Anc[startTip] \cap failedValid' = {},
           \A c \in candidates' : Processed(c)' /\ ~Less(sequenceId, c, t),
           \A b \in Block : Good(b)' /\ ~Less(sequenceId, b, t) /\ ~Less(sequenceId, b, startTip)
                => b \in candidates',
           m # None => /\ Anc[m] \subseteq received' /\ t \in Anc[m]
                       /\ ~Less(sequenceId, m, startTip)
                       /\ ~owed => \A b \in Block : Good(b)' => ~Less(sequenceId, m, b)
    PROVE  GoalInv' /\ BestInv'
<1> sequenceId \in [Block -> Int] /\ None \notin Block
    BY TreeAssumption, Zenon DEF TypeInv
<1>1. CASE Less(sequenceId, t, startTip)
    <2>1. /\ pc' = "find" /\ mostWork' = m /\ startTip' = startTip /\ Seeking'
        BY <1>1, Zenon DEF EndStep, Seeking
    <2>2. ~Less(sequenceId, startTip, t) /\ t # m
        BY <1>1, LessOrder, Zenon
    <2>3. GoalInv'
        BY <2>1, <2>2, Zenon DEF GoalInv, Good, Processed, Invalid
    <2>4. BestInv'
        BY <2>1, Zenon DEF BestInv, Listed
    <2> QED
        BY <2>3, <2>4, Zenon
<1>2. CASE ~Less(sequenceId, t, startTip)
    <2>1. \/ pc' = "exit" /\ mostWork' = None /\ t = m
          \/ pc' = "loop" /\ mostWork' = m /\ t # m
        BY <1>2, Zenon DEF EndStep
    <2>2. ~Seeking'
        BY <2>1, Zenon DEF Seeking
    <2>3. \A b \in Block : Good(b)' /\ ~Less(sequenceId, b, t) => b \in candidates'
        BY <1>2, LessOrder, Zenon
    <2>4. GoalInv'
        BY <2>1, <2>2, Zenon DEF GoalInv, Processed
    <2>5. BestInv'
        BY <2>1, <2>2, <2>3 DEF BestInv, Listed
    <2> QED
        BY <2>4, <2>5, Zenon
<1> QED
    BY <1>1, <1>2, Zenon

\* While cs_main is held the tip the round began with is a candidate again as
\* soon as the tip is worse, so that a best candidate exists and is no worse.
LEMMA StartTipListed ==
    ASSUME BInv, pc = "find"
    PROVE  /\ startTip \in candidates /\ startTip \in Block
           /\ \A b \in Block : Good(b) /\ ~Less(sequenceId, b, startTip) => b \in candidates
<1>1. /\ startTip \in Block /\ Good(startTip) /\ ~Less(sequenceId, startTip, tip)
      /\ sequenceId \in [Block -> Int] /\ tip \in Block
    BY Zenon DEF BInv, IInv, TypeInv, GoalInv, Seeking
<1>2. \A b \in Block : Good(b) /\ ~Less(sequenceId, b, startTip) => b \in candidates
    BY <1>1, LessOrder, Zenon DEF BInv, BestInv, Listed, Seeking
<1>3. ~Less(sequenceId, startTip, startTip)
    BY <1>1, LessOrder
<1> QED
    BY <1>1, <1>2, <1>3, Zenon

\* The best candidate is the best of all good blocks.
LEMMA BestCandidateBest ==
    ASSUME BInv, pc = "find", NEW b \in Block, IsBestCandidate(b)
    PROVE  /\ ~Less(sequenceId, b, startTip)
           /\ \A c \in Block : Good(c) => ~Less(sequenceId, b, c)
<1>1. sequenceId \in [Block -> Int] /\ startTip \in Block
    BY StartTipListed DEF BInv, IInv, TypeInv
<1>2. ~Less(sequenceId, b, startTip)
    BY StartTipListed, Zenon DEF IsBestCandidate
<1>3. ASSUME NEW c \in Block, Good(c), Less(sequenceId, b, c)
      PROVE  FALSE
    <2>1. ~Less(sequenceId, c, b)
        BY <1>1, <1>3, LessOrder
    <2>2. ~Less(sequenceId, c, startTip)
        BY <1>1, <1>2, <2>1, LessOrder
    <2>3. c \in candidates
        BY <1>3, <2>2, StartTipListed, Zenon
    <2> QED
        BY <1>3, <2>3, Zenon DEF IsBestCandidate
<1> QED
    BY <1>2, <1>3, Zenon

\* Steps of ActivateBestChain keep the candidates and the goal.
LEMMA BestActivate ==
    BInv /\ (ActivateBestChain \/ ActivateStep) => GoalInv' /\ BestInv'
<1> SUFFICES ASSUME BInv, ActivateBestChain \/ ActivateStep
             PROVE  GoalInv' /\ BestInv'
    BY Zenon
<1>0. /\ sequenceId \in [Block -> Int] /\ tip \in Block /\ None \notin Block
      /\ mostWork \in Block \cup {None}
    BY TreeAssumption, Zenon DEF BInv, IInv, TypeInv
<1>1. CASE ActivateBestChain
    <2>1. /\ pc = "idle" /\ pc' = "loop" /\ mostWork = None /\ ~Seeking /\ ~Seeking'
          /\ UNCHANGED <<tip, sequenceId, received, failedValid, candidates, mostWork, startTip>>
        BY <1>1, Zenon DEF ActivateBestChain, BInv, IInv, CallInv, Seeking, statusVars, orderVars,
           activateVars
    <2>2. GoalInv'
        BY <2>1, Zenon DEF BInv, GoalInv, Processed
    <2>3. Listed'
        BY <2>1, Zenon DEF BInv, BestInv, Listed, Good, Processed, Invalid
    <2> QED
        BY <2>1, <2>2, <2>3, Zenon DEF BestInv
<1>2. CASE LockMain
    <2>1. /\ pc = "loop" /\ pc' = "find" /\ startTip' = tip /\ ~Seeking /\ Seeking'
          /\ UNCHANGED <<tip, sequenceId, received, failedValid, candidates, mostWork, owed>>
        BY <1>2, Zenon DEF LockMain, Seeking, statusVars, orderVars
    <2>2. Good(tip)' /\ Anc[tip] \subseteq Connectable
        BY <2>1, TipGood, Zenon DEF BInv, Good, Processed, Invalid
    <2>3. ~Less(sequenceId, tip, tip)
        BY <1>0, LessOrder, Zenon
    <2>4. mostWork # None => ~Less(sequenceId, mostWork, tip) /\ tip \in Anc[mostWork] \ {mostWork}
        BY <1>0, <2>1, AncestorLess, Zenon DEF BInv, GoalInv
    <2>5. GoalInv'
        BY <1>0, <2>1, <2>2, <2>3, <2>4, Zenon DEF BInv, GoalInv, Processed
    <2>6. Listed'
        BY <2>1, Zenon DEF BInv, BestInv, Listed, Good, Processed, Invalid
    <2>7. ~owed' => (mostWork' # None => \A b \in Block : Good(b)' => ~Less(sequenceId', mostWork', b))
        BY <2>1, Zenon DEF BInv, BestInv, Good, Processed, Invalid
    <2> QED
        BY <2>1, <2>5, <2>6, <2>7, Zenon DEF BestInv
<1>3. CASE NoCandidate
    <2>1. pc = "find" /\ candidates = {}
        BY <1>3, Zenon DEF NoCandidate
    <2> QED
        BY <2>1, StartTipListed, Zenon
<1>4. ASSUME NEW b \in Block, NEW x \in Block, DropCandidate(b, x)
      PROVE  GoalInv' /\ BestInv'
    <2>1. /\ pc = "find" /\ mostWork = None /\ candidates' = candidates \ (Above(x, b) \cup {x})
          /\ UNCHANGED <<tip, pc, sequenceId, received, failedValid, mostWork, startTip, owed>>
        BY <1>4, Zenon DEF DropCandidate, orderVars, activateVars
    <2>2. \A d \in Above(x, b) \cup {x} : ~Good(d)
        BY <1>4, DroppedFailed, Zenon DEF BInv, Good
    <2>3. Seeking' = Seeking /\ \A d \in Block : (Good(d)' <=> Good(d)) /\ (Processed(d)' <=> Processed(d))
        BY <2>1, Zenon DEF Seeking, Good, Processed, Invalid
    <2>4. candidates' \subseteq candidates /\ candidates \subseteq Block /\ startTip \in Block
        BY <2>1, StartTipListed, Zenon DEF BInv, IInv, TypeInv
    <2>5. GoalInv'
        BY <2>1, <2>3, <2>4, Zenon DEF BInv, GoalInv
    <2>6. Listed'
        BY <2>1, <2>2, <2>3, Zenon DEF BInv, BestInv, Listed
    <2> QED
        BY <2>1, <2>5, <2>6, Zenon DEF BestInv
<1>5. ASSUME NEW b \in Block, AlreadyBest(b)
      PROVE  GoalInv' /\ BestInv'
    <2>1. /\ pc = "find" /\ b = tip /\ pc' \in {"exit", "idle"} /\ mostWork' = None
          /\ UNCHANGED <<tip, sequenceId, received, failedValid, candidates, owed>> /\ ~Seeking'
        BY <1>5, Zenon DEF AlreadyBest, statusVars, orderVars, Seeking
    <2>2. mostWork = None
        BY <1>5, <2>1, Zenon DEF AlreadyBest, IsTarget, BInv, GoalInv
    <2>3. IsBestCandidate(tip)
        BY <1>5, <2>1, <2>2, Zenon DEF AlreadyBest, IsTarget
    <2>4. /\ ~Less(sequenceId, tip, startTip) /\ startTip \in Block
          /\ \A c \in Block : Good(c) => ~Less(sequenceId, tip, c)
        BY <1>0, <2>1, <2>3, BestCandidateBest, StartTipListed, Zenon
    <2>5. \A c \in Block : Good(c) /\ ~Less(sequenceId, c, tip) => c \in candidates
        BY <1>0, <2>1, <2>4, LessOrder, StartTipListed, Zenon
    <2>6. \A d \in Block : Good(d)' <=> Good(d)
        BY <2>1, Zenon DEF Good, Processed, Invalid
    <2>7. GoalInv'
        BY <2>1, Zenon DEF BInv, GoalInv, Processed
    <2> QED
        BY <2>1, <2>4, <2>5, <2>6, <2>7, Zenon DEF BestInv, Listed
<1>6. ASSUME NEW b \in Block, BeginStep(b)
      PROVE  GoalInv' /\ BestInv'
    <2>1. /\ pc = "find" /\ pc' = "step" /\ mostWork' = b
          /\ UNCHANGED <<tip, sequenceId, received, failedValid, candidates, owed, startTip>>
          /\ Seeking /\ Seeking'
        BY <1>6, Zenon DEF BeginStep, statusVars, orderVars, Seeking
    <2>2. /\ Processed(b) /\ ~Less(sequenceId, b, startTip)
          /\ ~owed => \A c \in Block : Good(c) => ~Less(sequenceId, b, c)
        <3>1. CASE mostWork = None
            <4>1. IsBestCandidate(b)
                BY <1>6, <3>1, Zenon DEF BeginStep, IsTarget
            <4> QED
                BY <2>1, <4>1, BestCandidateBest, Zenon DEF BInv, GoalInv, IsBestCandidate
        <3>2. CASE mostWork # None
            BY <1>6, <2>1, <3>2, Zenon DEF BeginStep, IsTarget, BInv, GoalInv, BestInv
        <3> QED
            BY <3>1, <3>2, Zenon
    <2>3. \A d \in Block : (Good(d)' <=> Good(d)) /\ (Processed(d)' <=> Processed(d))
        BY <2>1, Zenon DEF Good, Processed, Invalid
    <2>4. candidates \subseteq Block
        BY Zenon DEF BInv, IInv, TypeInv
    <2>5. GoalInv'
        BY <2>1, <2>2, <2>3, <2>4, Zenon DEF BInv, GoalInv
    <2>6. Listed'
        BY <2>1, <2>3, Zenon DEF BInv, BestInv, Listed
    <2>7. ~owed' => \A c \in Block : Good(c)' => ~Less(sequenceId', mostWork', c)
        BY <2>1, <2>2, <2>3
    <2> QED
        BY <2>1, <2>5, <2>6, <2>7, Zenon DEF BestInv
<1>7. CASE DisconnectTip
    <2>1. /\ pc = "step" /\ tip \notin Anc[mostWork] /\ tip' = Prev[tip] /\ mostWork \in Block
          /\ UNCHANGED <<pc, sequenceId, received, failedValid, candidates, owed, startTip, mostWork>>
        BY <1>0, <1>7 DEF DisconnectTip, BInv, IInv, CallInv, statusVars, orderVars, activateVars
    <2>2. tip # Genesis
        BY <1>0, <2>1, AncFacts, Zenon
    <2>3. Prev[tip] \in Block /\ ChainWork[Prev[tip]] < ChainWork[tip]
        BY <1>0, <2>2, ParentWork, Zenon
    <2>4. ~Less(sequenceId, tip, Prev[tip])
        BY <1>0, <2>3, LessOrder, Zenon
    <2>5. /\ Seeking /\ Seeking' /\ candidates \subseteq Block
          /\ \A d \in Block : (Good(d)' <=> Good(d)) /\ (Processed(d)' <=> Processed(d))
        BY <2>1, Zenon DEF Seeking, BInv, IInv, TypeInv, Good, Processed, Invalid
    <2>6. /\ startTip \in Block /\ ~Less(sequenceId, startTip, tip)
        BY <2>1, <2>5, Zenon DEF BInv, GoalInv
    <2>7. ~Less(sequenceId, startTip, Prev[tip])
        BY <1>0, <2>3, <2>4, <2>6, LessOrder, Zenon
    <2>8. \A c \in candidates : ~Less(sequenceId, c, Prev[tip])
        BY <1>0, <2>3, <2>4, <2>5, LessOrder, Zenon DEF BInv, GoalInv
    <2>9. GoalInv'
        BY <2>1, <2>5, <2>7, <2>8, Zenon DEF BInv, GoalInv
    <2>10. \A b \in Block : Good(b) /\ ~Less(sequenceId, b, startTip) => b \in candidates
        BY <1>0, <2>1, <2>6, LessOrder, Zenon DEF BInv, BestInv, Listed
    <2>11. Listed'
        BY <2>1, <2>5, <2>10, Zenon DEF Listed
    <2>12. ~owed' => \A b \in Block : Good(b)' => ~Less(sequenceId', mostWork', b)
        BY <2>1, <2>5, <1>0, Zenon DEF BInv, BestInv
    <2> QED
        BY <2>1, <2>9, <2>11, <2>12, Zenon DEF BestInv
<1>8. CASE AbortDisconnect
    BY <1>8, TipGood, Zenon DEF AbortDisconnect, BInv
<1>9. ASSUME NEW b \in Block, AbortConnect(b)
      PROVE  FALSE
    <2>1. mostWork # None /\ b \in Anc[mostWork] /\ b \notin haveData
        BY <1>9, Zenon DEF AbortConnect, IsNext, BInv, IInv, CallInv
    <2> QED
        BY <2>1, Zenon DEF BInv, GoalInv, LinkInv, Processed
<1>10. CASE ReturnActivate
    <2>1. /\ pc = "exit" /\ pc' = "idle" /\ mostWork = None
          /\ UNCHANGED <<tip, sequenceId, received, failedValid, candidates, owed, startTip, mostWork>>
          /\ ~Seeking /\ ~Seeking'
        BY <1>10, Zenon DEF ReturnActivate, BInv, IInv, CallInv, statusVars, orderVars,
           activateVars, Seeking
    <2>2. GoalInv'
        BY <2>1, Zenon DEF BInv, GoalInv, Processed
    <2>3. BestInv'
        BY <2>1, Zenon DEF BInv, BestInv, Listed, Good, Processed, Invalid
    <2> QED
        BY <2>2, <2>3, Zenon
<1>11. ASSUME NEW b \in Block, ConnectTip(b)
      PROVE  GoalInv' /\ BestInv'
    <2>1. /\ pc = "step" /\ tip \in Anc[mostWork] /\ b \in Anc[mostWork] /\ b \notin Chain
          /\ Prev[b] = tip /\ tip' = b /\ mostWork \in Block
          /\ UNCHANGED <<sequenceId, received, failedValid, owed>>
          /\ candidates' = {c \in candidates : ~Less(sequenceId, c, b)}
        BY <1>0, <1>11, Zenon DEF ConnectTip, IsNext, PruneBlockIndexCandidates, BInv, IInv,
           CallInv, orderVars
    <2>2. b # Genesis
        BY <1>0, <2>1, AncFacts, SMTT(30) DEF Chain
    <2>3. ChainWork[tip] < ChainWork[b]
        BY <2>1, <2>2, ParentWork, Zenon
    <2>4. ~Less(sequenceId, b, tip)
        BY <1>0, <2>3, LessOrder, Zenon
    <2>5. /\ Seeking /\ candidates \subseteq Block
          /\ \A d \in Block : (Good(d)' <=> Good(d)) /\ (Processed(d)' <=> Processed(d))
        BY <2>1, Zenon DEF Seeking, BInv, IInv, TypeInv, Good, Processed, Invalid
    <2>6. /\ startTip \in Block /\ Anc[startTip] \subseteq Connectable
          /\ Anc[startTip] \subseteq received' /\ Anc[startTip] \cap failedValid' = {}
          /\ Anc[mostWork] \subseteq received' /\ ~Less(sequenceId, mostWork, startTip)
        BY <1>0, <2>1, <2>5, Zenon DEF BInv, GoalInv, Good, Processed, Invalid
    <2>7. \A c \in candidates' : Processed(c)' /\ ~Less(sequenceId, c, b)
        BY <2>1, <2>5, Zenon DEF BInv, GoalInv
    <2>8. \A d \in Block : Good(d)' /\ ~Less(sequenceId, d, b) /\ ~Less(sequenceId, d, startTip)
               => d \in candidates'
        <3> SUFFICES ASSUME NEW d \in Block, Good(d), ~Less(sequenceId, d, b),
                            ~Less(sequenceId, d, startTip)
                     PROVE  d \in candidates
            BY <2>1, <2>5, Zenon
        <3>1. ~Less(sequenceId, d, tip)
            BY <1>0, <2>4, LessOrder, Zenon
        <3> QED
            BY <2>1, <3>1, Zenon DEF BInv, BestInv, Listed
    <2>9. ~owed => \A d \in Block : Good(d)' => ~Less(sequenceId, mostWork, d)
        BY <1>0, <2>1, <2>5, Zenon DEF BInv, BestInv
    <2>10. CASE EndStep(b, mostWork)
        BY <2>1, <2>6, <2>7, <2>8, <2>9, <2>10, EndStepKeeps, SMTT(30) DEF BInv, IInv
    <2>11. CASE UNCHANGED <<pc, activateVars>>
        <3>1. UNCHANGED <<pc, mostWork, startTip>> /\ Seeking'
            BY <2>1, <2>11, Zenon DEF activateVars, Seeking
        <3>2. GoalInv'
            BY <2>1, <2>6, <2>7, <3>1, Zenon DEF GoalInv, Good, Processed, Invalid
        <3>3. BestInv'
            BY <2>1, <2>8, <2>9, <3>1, Zenon DEF BestInv, Listed
        <3> QED
            BY <3>2, <3>3, Zenon
    <2> QED
        BY <1>11, <2>10, <2>11, Zenon DEF ConnectTip
<1>12. ASSUME NEW b \in Block, ConnectInvalid(b)
      PROVE  GoalInv' /\ BestInv'
    <2>1. /\ pc = "step" /\ b \notin Connectable /\ tip' = tip /\ EndStep(tip, None)
          /\ UNCHANGED <<sequenceId, received, owed>> /\ failedValid' = failedValid \cup {b}
          /\ candidates' = candidates \ {b}
        BY <1>12, Zenon DEF ConnectInvalid, InvalidBlockFound, orderVars
    <2>2. /\ Seeking /\ candidates \subseteq Block
          /\ \A d \in Block : (Good(d)' => Good(d)) /\ (Processed(d)' <=> Processed(d))
          /\ ~Good(b)'
        BY <2>1, AncFacts, Zenon DEF Seeking, BInv, IInv, TypeInv, Good, Processed, Invalid
    <2>3. /\ startTip \in Block /\ Good(startTip) /\ Anc[startTip] \subseteq Connectable
        BY <2>2 DEF BInv, GoalInv
    <2>4. Anc[startTip] \subseteq received' /\ Anc[startTip] \cap failedValid' = {}
        BY <2>1, <2>3, Zenon DEF Good, Processed, Invalid
    <2>5. \A c \in candidates' : Processed(c)' /\ ~Less(sequenceId, c, tip)
        BY <2>1, <2>2, Zenon DEF BInv, GoalInv
    <2>6. \A d \in Block : Good(d)' /\ ~Less(sequenceId, d, tip) /\ ~Less(sequenceId, d, startTip)
               => d \in candidates'
        BY <2>1, <2>2 DEF BInv, BestInv, Listed
    <2> QED
        BY <1>0, <2>1, <2>3, <2>4, <2>5, <2>6, EndStepKeeps, Zenon DEF BInv, IInv
<1> QED
    BY <1>1, <1>2, <1>3, <1>4, <1>5, <1>6, <1>7, <1>8, <1>9, <1>10, <1>11, <1>12, Zenon
       DEF ActivateStep

\* InvalidateBlock keeps the candidates sound, and lists all good blocks when
\* it ends.
LEMMA BestInvalidate ==
    BInv /\ (InvalidateStep \/ \E b \in Block : InvalidateBlock(b)) => GoalInv' /\ BestInv'
<1> SUFFICES ASSUME BInv, InvalidateStep \/ \E b \in Block : InvalidateBlock(b)
             PROVE  GoalInv' /\ BestInv'
    BY Zenon
<1>0. /\ sequenceId \in [Block -> Int] /\ tip \in Block /\ None \notin Block
      /\ candidates \subseteq Block
    BY TreeAssumption, Zenon DEF BInv, IInv, TypeInv
<1>1. ASSUME NEW b \in Block, InvalidateBlock(b)
      PROVE  GoalInv' /\ BestInv'
    <2>1. /\ pc' = "walk" /\ mostWork' = None /\ ~Seeking'
          /\ UNCHANGED <<tip, sequenceId, received, candidates>>
        BY <1>1, Zenon DEF InvalidateBlock, statusVars, orderVars, activateVars, BInv, IInv,
           CallInv, Seeking
    <2> QED
        BY <2>1, Zenon DEF BInv, GoalInv, BestInv, Processed
<1>2. CASE InvalidateDisconnect
    <2>1. target \in Block \ {Genesis} /\ target \in Anc[tip] /\ tip \in Block
        BY <1>2, Zenon DEF InvalidateDisconnect, BInv, IInv, CallInv, TypeInv, Chain
    <2>2. tip # Genesis
        BY <2>1, TreeAssumption, Zenon
    <2>3. Prev[tip] \in Block /\ ChainWork[Prev[tip]] < ChainWork[tip]
        BY <2>1, <2>2, ParentWork, Zenon
    <2>4. ~Less(sequenceId, tip, Prev[tip])
        BY <1>0, <2>3, LessOrder, Zenon
    <2>5. \A c \in candidates : ~Less(sequenceId, c, Prev[tip])
        BY <1>0, <2>3, <2>4, LessOrder, Zenon DEF BInv, GoalInv
    <2>6. /\ pc' = "mark" /\ mostWork' = None /\ ~Seeking' /\ tip' = Prev[tip]
          /\ UNCHANGED <<sequenceId, received, candidates>>
        BY <1>2, Zenon DEF InvalidateDisconnect, statusVars, orderVars, activateVars, BInv, IInv,
           CallInv, Seeking
    <2> QED
        BY <2>5, <2>6, Zenon DEF BInv, GoalInv, BestInv, Processed
<1>3. CASE InvalidateGivesUp
    BY <1>3, TipGood, Zenon DEF InvalidateGivesUp, BInv
<1>4. CASE InvalidateMark
    <2>1. /\ pc' = "walk" /\ mostWork' = None /\ ~Seeking'
          /\ UNCHANGED <<tip, sequenceId, received>>
          /\ candidates' \subseteq candidates \cup {tip} \cup {c \in byWork : ~Less(sequenceId, c, tip)}
        BY <1>4, Zenon DEF InvalidateMark, orderVars, activateVars, BInv, IInv, CallInv, Seeking
    <2>2. ~Less(sequenceId, tip, tip) /\ Processed(tip)
        BY <1>0, LessOrder, TipGood DEF BInv, Good
    <2>3. \A c \in byWork : Processed(c)
        BY Zenon DEF BInv, LinkInv
    <2>4. \A c \in candidates' : Processed(c) /\ ~Less(sequenceId, c, tip)
        BY <2>1, <2>2, <2>3, Zenon DEF BInv, GoalInv
    <2> QED
        BY <2>1, <2>4, Zenon DEF GoalInv, BestInv, Processed
<1>5. CASE InvalidateFinish
    <2>1. /\ pc' = "idle" /\ mostWork' = None /\ ~Seeking' /\ owed'
          /\ UNCHANGED <<tip, sequenceId, received>> /\ failedValid' = failedValid \cup {toMark}
          /\ candidates' = (candidates \ {toMark}) \cup Missed
        BY <1>5, Zenon DEF InvalidateFinish, orderVars, activateVars, BInv, IInv, CallInv, Seeking
    <2>2. \A c \in Missed : Processed(c) /\ ~Less(sequenceId, c, tip)
        BY Zenon DEF Missed, Eligible, BInv, LinkInv
    <2>3. GoalInv'
        BY <2>1, <2>2, Zenon DEF BInv, GoalInv, Processed
    <2>4. ASSUME NEW d \in Block, Good(d)', ~Less(sequenceId, d, tip)
          PROVE  d \in Missed
        <3>1. Good(d) /\ d # toMark
            BY <2>1, <2>4, AncFacts, Zenon DEF Good, Processed, Invalid
        <3>2. d \in linked /\ d \in received /\ d \in index
            BY <3>1, AncFacts, Zenon DEF BInv, LinkInv, Good, Processed
        <3>3. d \notin Failed
            BY <3>1, Zenon DEF BInv, LinkInv, Good
        <3> QED
            BY <2>4, <3>1, <3>2, <3>3, Zenon DEF Missed, Eligible
    <2>5. BestInv'
        BY <2>1, <2>4 DEF BestInv, Listed
    <2> QED
        BY <2>3, <2>5, Zenon
<1> QED
    BY <1>1, <1>2, <1>3, <1>4, <1>5, Zenon DEF InvalidateStep

\* PreciousBlock, for a block that is not the tip, keeps LinkInv, the candidates
\* and the goal: no other block moves in the order, and the tip does not.
LEMMA BestPrecious ==
    ASSUME BInv, NEW b \in Block, b # tip, PreciousBlock(b)
    PROVE  LinkInv' /\ GoalInv' /\ BestInv'
<1>0. /\ sequenceId \in [Block -> Int] /\ tip \in Block /\ candidates \subseteq Block
    BY Zenon DEF BInv, IInv, TypeInv
<1>1. /\ UNCHANGED <<statusVars, unlinked, tip, pc, mostWork, startTip, byWork>> /\ owed' /\ CsMainFree
      /\ candidates' = IF Eligible(b) THEN {c \in candidates \cup {b} : ~Less(sequenceId', c, tip)}
                       ELSE candidates \ {b}
    BY Zenon DEF PreciousBlock, PruneBlockIndexCandidates, activateVars, invalidateVars
<1>2. \A d \in Block : d # b => sequenceId'[d] = sequenceId[d]
    BY <1>0, Zenon DEF PreciousBlock
<1>3. \A d \in Block : d # b => (Less(sequenceId', d, tip) <=> Less(sequenceId, d, tip))
    BY <1>0, <1>2, LessAgree, Zenon
<1>4. UNCHANGED <<index, haveData, received, linked, failedValid, failedChild>>
    BY <1>1, Zenon DEF statusVars
<1>5. LinkInv'
    BY <1>1, <1>4, LinkSame, Zenon DEF BInv, LinkInv, Chain
<1>6. \A d \in Block : (Good(d)' <=> Good(d)) /\ (Processed(d)' <=> Processed(d))
    BY <1>4, Zenon DEF Good, Processed, Invalid
<1>7. ~Seeking /\ ~Seeking' /\ pc # "mark"
    BY <1>1, Zenon DEF Seeking, CsMainFree
<1>8. \A c \in candidates' : Processed(c)' /\ ~Less(sequenceId', c, tip)
    <2>1. CASE Eligible(b)
        <3>1. Processed(b)
            BY <2>1, Zenon DEF Eligible, BInv, LinkInv
        <3> QED
            BY <1>0, <1>1, <1>6, <2>1, <3>1, Zenon DEF BInv, GoalInv
    <2>2. CASE ~Eligible(b)
        BY <1>0, <1>1, <1>3, <1>6, <2>2, Zenon DEF BInv, GoalInv
    <2> QED
        BY <2>1, <2>2, Zenon
<1>9. GoalInv'
    BY <1>1, <1>4, <1>7, <1>8, Zenon DEF BInv, GoalInv, Processed, Seeking
<1>10. Good(b) => Eligible(b)
    BY AncFacts, Zenon DEF Eligible, BInv, LinkInv, Good, Processed
<1>11. ASSUME pc # "walk", NEW d \in Block, Good(d), ~Less(sequenceId', d, tip)
       PROVE  d \in candidates'
    <2>1. CASE d = b
        BY <1>1, <1>10, <1>11, <2>1, Zenon
    <2>2. CASE d # b
        <3>1. d \in candidates
            BY <1>3, <1>7, <1>11, <2>2, Zenon DEF BInv, BestInv, Listed
        <3> QED
            BY <1>1, <1>11, <2>2, <3>1, Zenon
    <2> QED
        BY <2>1, <2>2, Zenon
<1>12. BestInv'
    BY <1>1, <1>6, <1>7, <1>11, Zenon DEF BInv, BestInv, Listed
<1> QED
    BY <1>5, <1>9, <1>12, Zenon

\* The steps under which the best chain is kept.
BestStep ==
    \/ Arrival \/ ActivateBestChain \/ ActivateStep \/ InvalidateStep
    \/ \E b \in Block : InvalidateBlock(b)
    \/ \E b \in Block \ {tip} : PreciousBlock(b)

\* Without the other commands and without pruning there are no other steps.
LEMMA BestSteps ==
    ASSUME Commands \subseteq {"invalidate"}, Next
    PROVE  \/ Arrival \/ ActivateBestChain \/ ActivateStep
           \/ InvalidateStep \/ \E b \in Block : InvalidateBlock(b)
BY Zenon DEF Next, Live, Operator, Pruning, PreciousBlock, ResetBlockFailureFlags, PruneFiles

\* BInv holds initially.
LEMMA BestInit == Init => LinkInv /\ GoalInv /\ BestInv
<1> SUFFICES ASSUME Init PROVE LinkInv /\ GoalInv /\ BestInv
    BY Zenon
<1>1. sequenceId \in [Block -> Int] /\ tip = Genesis /\ Genesis \in Block /\ Anc[Genesis] = {Genesis}
    BY TypeInit, TreeAssumption, Zenon DEF Init, TypeInv
<1>2. ~Less(sequenceId, Genesis, Genesis)
    BY <1>1, LessOrder
<1>3. \A b \in Block : Processed(b) => b = Genesis
    BY AncFacts, Zenon DEF Init, Processed
<1>4. LinkInv
    BY <1>1, <1>3, Zenon DEF Init, LinkInv, Good, Processed, Invalid, Failed, Chain
<1>5. GoalInv
    BY <1>1, <1>2, Zenon DEF Init, GoalInv, Processed, Seeking
<1>6. BestInv
    BY <1>1, <1>2, <1>3 DEF Init, BestInv, Listed, Good
<1> QED
    BY <1>4, <1>5, <1>6

\* Those steps keep BInv.
LEMMA BestKept == BInv /\ (BestStep \/ UNCHANGED vars) => LinkInv' /\ GoalInv' /\ BestInv'
<1> SUFFICES ASSUME BInv, BestStep \/ UNCHANGED vars PROVE LinkInv' /\ GoalInv' /\ BestInv'
    BY Zenon
<1>1. CASE UNCHANGED vars
    <2>1. LinkInv'
        BY <1>1, Zenon DEF vars, statusVars, invalidateVars, BInv, LinkInv, Good, Processed,
           Invalid, Failed, Chain
    <2>2. GoalInv'
        BY <1>1, Zenon DEF vars, statusVars, orderVars, activateVars, BInv, GoalInv, Good,
           Processed, Invalid, Seeking
    <2>3. BestInv'
        BY <1>1 DEF vars, statusVars, orderVars, activateVars, BInv, BestInv, Listed, Good,
           Processed, Invalid, Seeking
    <2> QED
        BY <2>1, <2>2, <2>3, Zenon
<1>2. CASE Arrival
    BY <1>2, LinkArrival, BestArrival, Zenon DEF BInv
<1>3. CASE ActivateBestChain \/ ActivateStep
    BY <1>3, LinkActivate, BestActivate, Zenon DEF BInv
<1>4. CASE InvalidateStep \/ \E b \in Block : InvalidateBlock(b)
    BY <1>4, LinkInvalidate, BestInvalidate, Zenon DEF BInv
<1>5. CASE \E b \in Block \ {tip} : PreciousBlock(b)
    BY <1>5, BestPrecious, Zenon
<1> QED
    BY <1>1, <1>2, <1>3, <1>4, <1>5, Zenon DEF BestStep

\* BInv is an inductive invariant.
LEMMA BestInvariance ==
    ASSUME Commands \subseteq {"invalidate"}
    PROVE  Spec => []BInv
<1>1. BInv /\ [Next]_vars => LinkInv' /\ GoalInv' /\ BestInv'
    BY BestSteps, BestKept, Zenon DEF BestStep
<1> QED
    BY <1>1, BestInit, Invariance, PTL DEF Spec, BInv

\* Whenever no call of ActivateBestChain is under way or due, no complete
\* branch that is not known to be invalid is better than the active chain,
\* however blocks arrived, failed and were invalidated meanwhile.
THEOREM TipStaysBest ==
    ASSUME Commands \subseteq {"invalidate"}
    PROVE  Spec => []TipIsBest
<1>1. BInv => TipIsBest
    BY Zenon DEF BInv, BestInv, TipIsBest, Attainable, Good
<1> QED
    BY <1>1, BestInvariance, PTL

\* The same by work: the chain with the most work is active.
THEOREM TipKeepsMostWork ==
    ASSUME Commands \subseteq {"invalidate"}
    PROVE  Spec => []TipHasMostWork
<1>1. BInv => TipHasMostWork
    <2> SUFFICES ASSUME BInv, pc = "idle", ~owed, NEW b \in Block, Attainable(b)
                 PROVE  ChainWork[b] <= ChainWork[tip]
        BY Zenon DEF TipHasMostWork
    <2>1. ~Less(sequenceId, tip, b)
        BY Zenon DEF BInv, BestInv, Attainable, Good
    <2> QED
        BY <2>1, OrderFacts DEF Less, BInv, IInv, TypeInv
<1> QED
    BY <1>1, BestInvariance, PTL

\* What BInv says of the candidates while cs_main is free.
LEMMA BestCandidates == BInv => CandidatesComplete /\ CandidatesSound
<1>1. ASSUME BInv, CsMainFree, pc # "walk", NEW b \in index,
             ~Less(sequenceId, b, tip), Processed(b), ~Invalid(b)
      PROVE  b \in candidates
    <2>1. b \in Block /\ pc \notin {"walk", "mark"} /\ ~Seeking
        BY <1>1, Zenon DEF BInv, IInv, TypeInv, CsMainFree, Seeking
    <2> QED
        BY <1>1, <2>1, Zenon DEF BInv, BestInv, Listed, Good
<1> QED
    BY <1>1, Zenon DEF CandidatesComplete, CandidatesSound, BInv, GoalInv

\* setBlockIndexCandidates holds every block that CheckBlockIndex wants in it,
\* whenever cs_main is free and InvalidateBlock is not under way.
THEOREM CandidatesStayComplete ==
    ASSUME Commands \subseteq {"invalidate"}
    PROVE  Spec => []CandidatesComplete
BY BestCandidates, BestInvariance, PTL

\* setBlockIndexCandidates holds no block that sorts worse than the tip or has
\* an ancestor that was never received, also while cs_main is held.
THEOREM CandidatesStaySound ==
    ASSUME Commands \subseteq {"invalidate"}
    PROVE  Spec => []CandidatesSound
BY BestCandidates, BestInvariance, PTL

\* Every flag has a cause, as CheckBlockIndex asserts.
THEOREM FlagsHaveCause ==
    ASSUME Commands \subseteq {"invalidate"}
    PROVE  Spec => []FailedHasCause
<1>1. BInv => FailedHasCause
    BY DEF BInv, LinkInv, FailedHasCause
<1> QED
    BY <1>1, BestInvariance, PTL

-----------------------------------------------------------------------------
(* The goal.  Without pruning, a branch that was complete stays complete,     *)
(* whichever blocks are flagged, cleared or preferred meanwhile.              *)

DataInv ==
    /\ haveData = received /\ Chain \subseteq received
    /\ \A b \in linked : Processed(b)
    /\ unlinked \subseteq received
    /\ \A c \in candidates : Processed(c)
    /\ byWork \subseteq linked
    /\ mostWork # None => Processed(mostWork)
    /\ pc # "down"

\* A step that receives nothing keeps DataInv when what it lists is linked.
LEMMA DataKept ==
    ASSUME DataInv, UNCHANGED <<haveData, received, linked>>, unlinked' \subseteq unlinked,
           Anc[tip'] \subseteq received, byWork' \subseteq linked, pc' # "down",
           \A c \in candidates' : c \in candidates \/ c \in linked \/ c = tip',
           mostWork' \in {mostWork, None} \/ mostWork' \in candidates
    PROVE  DataInv'
<1>1. \A b : Processed(b)' <=> Processed(b)
    BY Zenon DEF Processed
<1>2. Processed(tip')
    BY Zenon DEF Processed
<1>3. \A c \in candidates' : Processed(c)
    BY <1>2, Zenon DEF DataInv
<1>4. mostWork' # None => Processed(mostWork')
    BY Zenon DEF DataInv
<1> QED
    BY <1>1, <1>3, <1>4, Zenon DEF DataInv, Chain, Processed

\* The initial state.
LEMMA DataInit == Init => DataInv
BY TreeAssumption, Zenon DEF Init, DataInv, Processed, Chain

\* Arrivals keep DataInv.
LEMMA DataArrival == TypeInv /\ DataInv /\ Arrival => DataInv'
<1> SUFFICES ASSUME TypeInv, DataInv, Arrival PROVE DataInv'
    BY Zenon
<1>1. ASSUME NEW b \in Block \ {Genesis}, NEW f \in Block, NEW r \in BOOLEAN,
             AcceptBlockHeader(b) \/ RejectBlockHeader(b, f) \/ IgnoreBlock(b, r) \/ RejectBlock(b, r)
      PROVE  DataInv'
    <2>1. UNCHANGED <<haveData, received, linked, unlinked, tip, byWork, pc, candidates, mostWork>>
        BY <1>1, Zenon DEF AcceptBlockHeader, RejectBlockHeader, IgnoreBlock, RejectBlock,
           activateVars, invalidateVars
    <2> QED
        BY <2>1, DataKept, Zenon DEF DataInv, Chain
<1>2. ASSUME NEW b \in Block \ {Genesis}, NEW r \in BOOLEAN, ReceiveLinked(b, r)
      PROVE  DataInv'
    <2>1. /\ haveData' = haveData \cup {b} /\ received' = received \cup {b} /\ Prev[b] \in linked
          /\ linked' = linked \cup Reached(b) /\ unlinked' \subseteq unlinked
          /\ candidates' \subseteq candidates \cup Reached(b)
          /\ UNCHANGED <<tip, byWork, pc, mostWork>>
        BY <1>2, Zenon DEF ReceiveLinked, NewCandidates, activateVars, invalidateVars
    <2>2. Anc[b] = {b} \cup Anc[Prev[b]] /\ Anc[Prev[b]] \subseteq received
        BY <2>1, ParentFacts, Zenon DEF DataInv, Processed
    <2>3. \A d \in Reached(b) : Processed(d)'
        BY <2>1, <2>2, Zenon DEF Reached, Processed, DataInv
    <2>4. \A d : Processed(d) => Processed(d)'
        BY <2>1, Zenon DEF Processed
    <2> QED
        BY <2>1, <2>3, <2>4, Zenon DEF DataInv, Chain
<1>3. ASSUME NEW b \in Block \ {Genesis}, NEW r \in BOOLEAN, ReceiveUnlinked(b, r)
      PROVE  DataInv'
    <2>1. /\ haveData' = haveData \cup {b} /\ received' = received \cup {b} /\ b \notin received
          /\ linked' = linked \ {b} /\ unlinked' \subseteq unlinked \cup {b}
          /\ UNCHANGED <<tip, byWork, pc, mostWork, candidates>>
        BY <1>3, Zenon DEF ReceiveUnlinked, Wanted, activateVars, invalidateVars, DataInv
    <2>2. linked' = linked
        BY <2>1, AncFacts, ZenonT(30) DEF DataInv, Processed, TypeInv
    <2>3. \A d : Processed(d) => Processed(d)'
        BY <2>1, Zenon DEF Processed
    <2> QED
        BY <2>1, <2>2, <2>3, Zenon DEF DataInv, Chain
<1> QED
    BY <1>1, <1>2, <1>3, Zenon DEF Arrival

\* Steps of ActivateBestChain keep DataInv, and none of them ends in AbortNode.
LEMMA DataActivate == IInv /\ DataInv /\ (ActivateBestChain \/ ActivateStep) => DataInv'
<1> SUFFICES ASSUME IInv, DataInv, ActivateBestChain \/ ActivateStep PROVE DataInv'
    BY Zenon
<1>0. tip \in Block /\ Anc[tip] \subseteq received /\ byWork \subseteq linked
    BY Zenon DEF IInv, TypeInv, DataInv, Chain
<1>1. CASE ActivateBestChain \/ LockMain \/ NoCandidate \/ ReturnActivate
    <2>1. /\ UNCHANGED <<haveData, received, linked, unlinked, tip, byWork, candidates, mostWork>>
          /\ pc' # "down"
        BY <1>1, Zenon DEF ActivateBestChain, LockMain, NoCandidate, ReturnActivate, statusVars,
           activateVars, invalidateVars
    <2> QED
        BY <1>0, <2>1, DataKept, Zenon
<1>2. CASE AbortDisconnect
    BY <1>0, <1>2, AncFacts, Zenon DEF AbortDisconnect, DataInv
<1>3. ASSUME NEW b \in Block, AbortConnect(b)
      PROVE  FALSE
    <2>1. mostWork # None /\ b \in Anc[mostWork] /\ b \notin haveData
        BY <1>3, Zenon DEF AbortConnect, IsNext, IInv, CallInv
    <2> QED
        BY <2>1, Zenon DEF DataInv, Processed
<1>4. ASSUME NEW b \in Block, AlreadyBest(b)
      PROVE  DataInv'
    <2>1. /\ UNCHANGED <<haveData, received, linked, unlinked, tip, byWork, candidates>>
          /\ mostWork' = None /\ pc' # "down"
        BY <1>4, Zenon DEF AlreadyBest, statusVars, invalidateVars
    <2> QED
        BY <1>0, <2>1, DataKept, Zenon
<1>5. ASSUME NEW b \in Block, BeginStep(b)
      PROVE  DataInv'
    <2>1. /\ UNCHANGED <<haveData, received, linked, unlinked, tip, byWork, candidates>>
          /\ mostWork' \in {mostWork, None} \/ mostWork' \in candidates
          /\ pc' # "down"
        BY <1>5, Zenon DEF BeginStep, IsTarget, IsBestCandidate, statusVars, invalidateVars
    <2> QED
        BY <1>0, <2>1, DataKept, Zenon
<1>6. ASSUME NEW b \in Block, NEW x \in Block, DropCandidate(b, x)
      PROVE  DataInv'
    <2>1. x \in Anc[b] /\ x \in Unusable /\ b \in candidates
        BY <1>6, Zenon DEF DropCandidate, OffChain, IsBestCandidate
    <2>2. x \in Failed
        BY <2>1, Zenon DEF Unusable, DataInv, Processed
    <2>3. UNCHANGED unlinked
        BY <1>6, <2>2 DEF DropCandidate, Refiled
    <2>4. /\ UNCHANGED <<haveData, received, linked, tip, byWork, mostWork, pc>>
          /\ candidates' \subseteq candidates
        BY <1>6, Zenon DEF DropCandidate, activateVars, invalidateVars
    <2> QED
        BY <1>0, <2>3, <2>4, DataKept, Zenon DEF DataInv
<1>7. CASE DisconnectTip
    <2>1. mostWork \in Block /\ tip \notin Anc[mostWork] /\ tip' = Prev[tip]
        BY <1>7, Zenon DEF DisconnectTip, IInv, TypeInv, CallInv
    <2>2. tip # Genesis
        BY <2>1, AncFacts, Zenon
    <2>3. Anc[tip'] \subseteq received
        BY <1>0, <2>1, <2>2, ParentFacts
    <2>4. UNCHANGED <<haveData, received, linked, unlinked, byWork, candidates, mostWork, pc>>
        BY <1>7, Zenon DEF DisconnectTip, statusVars, activateVars, invalidateVars
    <2> QED
        BY <1>0, <2>3, <2>4, DataKept, Zenon DEF DataInv
<1>8. ASSUME NEW b \in Block, ConnectTip(b)
      PROVE  DataInv'
    <2>1. b \notin Anc[tip] /\ Prev[b] = tip /\ b \in received /\ tip' = b
        BY <1>8, Zenon DEF ConnectTip, IsNext, DataInv, Chain
    <2>2. b # Genesis
        BY <1>0, <2>1, AncFacts, Zenon
    <2>3. Anc[tip'] \subseteq received
        BY <1>0, <2>1, <2>2, ParentFacts
    <2>4. /\ UNCHANGED <<haveData, received, linked, unlinked, byWork>> /\ candidates' \subseteq candidates
          /\ mostWork' \in {mostWork, None} /\ pc' # "down"
        BY <1>8, EndStepCalls, Zenon DEF ConnectTip, PruneBlockIndexCandidates, activateVars,
           invalidateVars, DataInv
    <2> QED
        BY <1>0, <2>3, <2>4, DataKept, Zenon
<1>9. ASSUME NEW b \in Block, ConnectInvalid(b)
      PROVE  DataInv'
    <2>1. /\ UNCHANGED <<haveData, received, linked, unlinked, byWork, tip>>
          /\ candidates' \subseteq candidates /\ mostWork' = None /\ pc' # "down"
        BY <1>9, EndStepCalls, Zenon DEF ConnectInvalid, InvalidBlockFound, invalidateVars
    <2> QED
        BY <1>0, <2>1, DataKept, Zenon
<1> QED
    BY <1>1, <1>2, <1>3, <1>4, <1>5, <1>6, <1>7, <1>8, <1>9, Zenon DEF ActivateStep

\* The commands other than pruning keep DataInv: what they list is linked, or
\* is the tip.
LEMMA DataOperator == IInv /\ DataInv /\ (InvalidateStep \/ Operator) => DataInv'
<1> SUFFICES ASSUME IInv, DataInv, InvalidateStep \/ Operator PROVE DataInv'
    BY Zenon
<1>0. tip \in Block /\ Anc[tip] \subseteq received /\ byWork \subseteq linked /\ tip \in haveData
    BY AncFacts, Zenon DEF IInv, TypeInv, DataInv, Chain
<1>1. ASSUME NEW b \in Block, PreciousBlock(b)
      PROVE  DataInv'
    <2>1. /\ UNCHANGED <<haveData, received, linked, unlinked, tip, byWork, mostWork, pc>>
          /\ \A c \in candidates' : c \in candidates \/ c \in linked
        BY <1>1, Zenon DEF PreciousBlock, PruneBlockIndexCandidates, Eligible, statusVars,
           activateVars, invalidateVars
    <2> QED
        BY <1>0, <2>1, DataKept, Zenon DEF DataInv
<1>2. ASSUME NEW b \in Block, InvalidateBlock(b)
      PROVE  DataInv'
    <2>1. /\ UNCHANGED <<haveData, received, linked, unlinked, tip, mostWork, candidates>>
          /\ byWork' \subseteq linked /\ pc' # "down"
        BY <1>2, Zenon DEF InvalidateBlock, Eligible, statusVars, activateVars
    <2> QED
        BY <1>0, <2>1, DataKept, Zenon
<1>3. ASSUME NEW b \in Block, ResetBlockFailureFlags(b)
      PROVE  DataInv'
    <2>1. /\ UNCHANGED <<haveData, received, linked, unlinked, tip, byWork, mostWork, pc>>
          /\ \A c \in candidates' : c \in candidates \/ c \in linked
        BY <1>3, Zenon DEF ResetBlockFailureFlags, activateVars, invalidateVars
    <2> QED
        BY <1>0, <2>1, DataKept, Zenon DEF DataInv
<1>4. CASE InvalidateDisconnect
    <2>1. target \in Block \ {Genesis} /\ target \in Anc[tip] /\ tip' = Prev[tip]
        BY <1>4, Zenon DEF InvalidateDisconnect, IInv, CallInv, TypeInv, Chain
    <2>2. tip # Genesis
        BY <2>1, TreeAssumption, Zenon
    <2>3. Anc[tip'] \subseteq received
        BY <1>0, <2>1, <2>2, ParentFacts
    <2>4. UNCHANGED <<haveData, received, linked, unlinked, byWork, mostWork, candidates>> /\ pc' # "down"
        BY <1>4, Zenon DEF InvalidateDisconnect, statusVars, activateVars
    <2> QED
        BY <1>0, <2>3, <2>4, DataKept, Zenon
<1>5. CASE InvalidateGivesUp
    BY <1>0, <1>5, Zenon DEF InvalidateGivesUp
<1>6. CASE InvalidateMark
    <2>1. /\ UNCHANGED <<haveData, received, linked, unlinked, tip, mostWork>> /\ pc' # "down"
          /\ byWork' \subseteq byWork
          /\ \A c \in candidates' : c \in candidates \/ c \in byWork \/ c = tip
        BY <1>6, Zenon DEF InvalidateMark, activateVars
    <2> QED
        BY <1>0, <2>1, DataKept, Zenon
<1>7. CASE InvalidateFinish
    <2>1. /\ UNCHANGED <<haveData, received, linked, unlinked, tip, mostWork>> /\ pc' # "down"
          /\ byWork' = {}
          /\ \A c \in candidates' : c \in candidates \/ c \in linked
        BY <1>7, Zenon DEF InvalidateFinish, Missed, Eligible, activateVars
    <2> QED
        BY <1>0, <2>1, DataKept, Zenon
<1> QED
    BY <1>1, <1>2, <1>3, <1>4, <1>5, <1>6, <1>7, Zenon DEF InvalidateStep, Operator

\* Every step but pruning keeps DataInv.
LEMMA DataStep == IInv /\ DataInv /\ [Live]_vars => DataInv'
<1>1. ASSUME DataInv, UNCHANGED vars
      PROVE  DataInv'
    <2>1. UNCHANGED <<haveData, received, linked, unlinked, tip, byWork, mostWork, pc, candidates>>
        BY <1>1, Zenon DEF vars, statusVars, activateVars, invalidateVars
    <2> QED
        BY <1>1, <2>1, DataKept, Zenon DEF DataInv, Chain
<1> QED
    BY <1>1, DataArrival, DataActivate, DataOperator, Zenon DEF Live, IInv

\* Without pruning a block that is new is no ancestor of a candidate, so none of them
\* gets another sequence id.
LEMMA DataKeys == TypeInv /\ DataInv /\ Live => KeepsKeys
<1> SUFFICES ASSUME TypeInv, DataInv, Live PROVE KeepsKeys
    BY Zenon
<1>1. ASSUME NEW b \in Block \ {Genesis}, NEW r \in BOOLEAN, ReceiveLinked(b, r),
             NEW c \in candidates, c \in Block
      PROVE  sequenceId'[c] = sequenceId[c]
    <2>1. b \notin received /\ Anc[c] \subseteq received
        BY <1>1, Zenon DEF ReceiveLinked, Wanted, DataInv, Processed
    <2>2. c \notin Reached(b)
        BY <2>1, Zenon DEF Reached
    <2>3. PICK id : sequenceId' = [d \in Block |-> IF d \in Reached(b) THEN id[d] ELSE sequenceId[d]]
        BY <1>1, Zenon DEF ReceiveLinked
    <2> QED
        BY <1>1, <2>2, <2>3
<1>2. CASE Arrival
    <2>1. candidates \subseteq Block
        BY DEF TypeInv
    <2> QED
        BY <1>1, <1>2, <2>1, ZenonT(30) DEF KeepsKeys, Arrival, AcceptBlockHeader, RejectBlockHeader,
           IgnoreBlock, RejectBlock, ReceiveUnlinked, orderVars
<1>3. CASE ActivateBestChain \/ ActivateStep
    BY <1>3, ZenonT(30) DEF KeepsKeys, ActivateBestChain, ActivateStep, LockMain, NoCandidate,
       DropCandidate, AlreadyBest, BeginStep, ConnectTip, ConnectInvalid, AbortConnect, DisconnectTip,
       AbortDisconnect, ReturnActivate, orderVars
<1>4. CASE InvalidateStep \/ Operator
    BY <1>4, ZenonT(30) DEF KeepsKeys, InvalidateStep, InvalidateDisconnect, InvalidateGivesUp,
       InvalidateMark, InvalidateFinish, Operator, PreciousBlock, InvalidateBlock,
       ResetBlockFailureFlags, orderVars
<1> QED
    BY <1>2, <1>3, <1>4, Zenon DEF Live

GoalUsable == GoalNotStale /\ pc # "down"

\* What ActivateBestChain connects next is there and is not flagged.
LEMMA DataGoal == IInv /\ DataInv => GoalUsable
<1> SUFFICES ASSUME IInv, DataInv, pc = "step", NEW b \in Block, IsNext(b)
             PROVE  b \in haveData \ Failed
    BY Zenon DEF GoalUsable, GoalNotStale, DataInv
<1>1. mostWork # None /\ b \in Anc[mostWork]
    BY Zenon DEF IInv, CallInv, IsNext
<1> QED
    BY <1>1, Zenon DEF IInv, ValidInv, DataInv, Processed

\* A goal that ActivateBestChain keeps while cs_main is released can still be
\* connected when it goes on, and the call never ends in AbortNode, whichever
\* blocks the operator invalidates, reconsiders or prefers meanwhile.
THEOREM GoalStaysUsable ==
    ASSUME "prune" \notin Commands
    PROVE  Spec => []GoalUsable
<1>1. Next => Live
    BY Zenon DEF Next, Pruning, PruneFiles
<1>2. IInv /\ DataInv /\ [Next]_vars => DataInv'
    BY <1>1, DataStep, Zenon
<1> QED
    BY <1>2, DataInit, DataGoal, Invariance, PTL DEF Spec

-----------------------------------------------------------------------------
(* The links between blocks.  A block received below a flagged parent is not  *)
(* filed in m_blocks_unlinked.  Nothing is lost by this as long as no flag is  *)
(* set by hand: it waits for a block that is flagged, and a flagged block is   *)
(* never received.                                                           *)

Stuck(b) == Anc[b] \cap (Failed \ received) # {}

WaitInv ==
    /\ (\A b \in index : Anc[b] \subseteq index) /\ Failed \subseteq index
    /\ \A b \in Block : Processed(b) => b \in linked
    /\ failedBlocks \subseteq linked
    /\ \A b \in unlinked : ~Processed(b)
    /\ \A b \in received : ~Processed(b) => b \in unlinked \/ Stuck(b)
    /\ \A b \in Failed : Processed(b) \/ Stuck(b)

\* A block whose header is accepted is not flagged, and its parent is known.
LEMMA AcceptedFacts ==
    ASSUME WaitInv, NEW b \in Block \ {Genesis}, HeaderAccepted(b)
    PROVE  b \notin Failed /\ Anc[b] \subseteq index \cup {b}
<1>1. CASE b \in index \ Failed
    BY <1>1, Zenon DEF WaitInv
<1>2. CASE KnownParent(b)
    BY <1>2, ParentFacts DEF WaitInv, KnownParent
<1> QED
    BY <1>1, <1>2, Zenon DEF HeaderAccepted

\* New flags on blocks that are linked or wait for a flagged block keep WaitInv.
LEMMA WaitKept ==
    ASSUME WaitInv, UNCHANGED <<received, linked, unlinked>>, index \subseteq index',
           \A b \in index' : Anc[b] \subseteq index',
           Failed \subseteq Failed', Failed' \subseteq index', failedBlocks' \subseteq linked,
           \A b \in Failed' \ Failed : Processed(b) \/ Anc[b] \cap (Failed' \ received) # {}
    PROVE  WaitInv'
<1>1. \A b : Processed(b)' <=> Processed(b)
    BY Zenon DEF Processed
<1>2. \A b : Stuck(b) => Stuck(b)'
    BY Zenon DEF Stuck
<1>3. \A b \in Failed' : Processed(b)' \/ Stuck(b)'
    BY <1>1, <1>2, Zenon DEF WaitInv, Stuck
<1>4. \A b \in received' : ~Processed(b)' => b \in unlinked' \/ Stuck(b)'
    BY <1>1, <1>2, Zenon DEF WaitInv
<1> QED
    BY <1>1, <1>3, <1>4, Zenon DEF WaitInv

\* Arrivals keep WaitInv.
LEMMA WaitArrival == BInv /\ WaitInv /\ Arrival => WaitInv'
<1> SUFFICES ASSUME BInv, WaitInv, Arrival
             PROVE  WaitInv'
    BY Zenon
<1>0. TypeInv /\ LinkInv /\ haveData = received
    BY Zenon DEF BInv, IInv, LinkInv
<1>1. ASSUME NEW b \in Block \ {Genesis}, NEW r \in BOOLEAN, AcceptBlockHeader(b) \/ IgnoreBlock(b, r)
      PROVE  WaitInv'
    <2>1. /\ HeaderAccepted(b) /\ index' = index \cup {b}
          /\ UNCHANGED <<received, linked, unlinked, failedValid, failedChild, failedBlocks>>
        BY <1>1, Zenon DEF AcceptBlockHeader, IgnoreBlock, HeaderAccepted
    <2>2. \A d \in index' : Anc[d] \subseteq index'
        BY <2>1, AcceptedFacts, Zenon DEF WaitInv
    <2>3. Failed' = Failed
        BY <2>1, Zenon DEF Failed
    <2> QED
        BY <2>1, <2>2, <2>3, WaitKept, Zenon DEF WaitInv
<1>2. ASSUME NEW b \in Block \ {Genesis}, NEW f \in Block, RejectBlockHeader(b, f)
      PROVE  WaitInv'
    <2>1. /\ Prev[b] \in Block /\ Prev[b] \in index /\ f \in Anc[Prev[b]] /\ f \in failedBlocks
        BY <1>2, ParentFacts, Zenon DEF RejectBlockHeader, KnownParent, FailedAncestors
    <2>2. /\ failedChild' = failedChild \cup Above(f, Prev[b])
          /\ UNCHANGED <<received, linked, unlinked, failedValid, failedBlocks, index>>
        BY <1>2, Zenon DEF RejectBlockHeader
    <2>3. Failed' = Failed \cup Above(f, Prev[b]) /\ Above(f, Prev[b]) \subseteq index
        BY <2>1, <2>2, Zenon DEF Failed, Above, WaitInv
    <2>4. Anc[f] \subseteq received
        BY <2>1, Zenon DEF WaitInv, LinkInv, BInv, Processed
    <2>5. ASSUME NEW d \in Above(f, Prev[b]), ~Processed(d)
          PROVE  Anc[d] \cap (Failed' \ received) # {}
        <3>1. d \in Anc[Prev[b]] /\ Anc[d] \subseteq Anc[Prev[b]]
            BY <2>1, AboveDescends, AncFacts, Zenon
        <3>2. PICK a \in Anc[d] : a \notin received
            BY <2>5 DEF Processed
        <3>3. a \in Above(f, Prev[b])
            BY <2>4, <3>1, <3>2, Zenon DEF Above
        <3> QED
            BY <2>3, <3>2, <3>3, Zenon
    <2> QED
        BY <2>2, <2>3, <2>5, WaitKept, Zenon DEF WaitInv
<1>3. ASSUME NEW b \in Block \ {Genesis}, NEW r \in BOOLEAN, RejectBlock(b, r)
      PROVE  WaitInv'
    <2>1. /\ HeaderAccepted(b) /\ index' = index \cup {b} /\ failedValid' = failedValid \cup {b}
          /\ UNCHANGED <<received, linked, unlinked, failedChild, failedBlocks>> /\ b \notin received
        BY <1>0, <1>3, Zenon DEF RejectBlock, Wanted
    <2>2. \A d \in index' : Anc[d] \subseteq index'
        BY <2>1, AcceptedFacts, Zenon DEF WaitInv
    <2>3. Failed' = Failed \cup {b}
        BY <2>1, Zenon DEF Failed
    <2>4. b \in Anc[b]
        BY AncFacts, Zenon
    <2> QED
        BY <2>1, <2>2, <2>3, <2>4, WaitKept, Zenon DEF WaitInv
<1>4. ASSUME NEW b \in Block \ {Genesis}, NEW r \in BOOLEAN, ReceiveLinked(b, r)
      PROVE  WaitInv'
    <2>1. /\ HeaderAccepted(b) /\ received' = received \cup {b} /\ index' = index \cup {b}
          /\ linked' = linked \cup Reached(b) /\ unlinked' = unlinked \ (Reached(b) \ {b})
          /\ UNCHANGED <<failedValid, failedChild, failedBlocks>> /\ Prev[b] \in linked
          /\ b \notin received
        BY <1>0, <1>4, Zenon DEF ReceiveLinked, Wanted
    <2>2. b \notin Failed /\ Failed' = Failed /\ \A d \in index' : Anc[d] \subseteq index'
        BY <2>1, AcceptedFacts, Zenon DEF WaitInv, Failed
    <2>3. \A d \in Reached(b) : d \in Block /\ b \in Anc[d] /\ Processed(d)'
        BY <1>0, <2>1, ReachedFacts, Zenon DEF Processed
    <2>4. ASSUME NEW d \in Block, Processed(d)', ~Processed(d)
          PROVE  d \in Reached(b)
        <3>1. b \in Anc[d]
            BY <2>1, <2>4, Zenon DEF Processed
        <3>2. ASSUME NEW e \in Anc[d] \ Anc[b]
              PROVE  e \in unlinked
            <4>1. b \in Anc[e] /\ e \in Block /\ b \in Anc[b] /\ Anc[e] \subseteq Anc[d]
                BY <3>1, TreeAssumption
            <4>2. e \in received /\ ~Processed(e)
                BY <2>1, <2>4, <4>1, Zenon DEF Processed
            <4>3. ~Stuck(e)
                BY <2>1, <2>2, <2>4, <4>1, Zenon DEF Stuck, Processed
            <4> QED
                BY <4>2, <4>3, Zenon DEF WaitInv
        <3> QED
            BY <3>1, <3>2, Zenon DEF Reached
    <2>5. \A d \in Block : Processed(d)' => d \in linked'
        BY <2>1, <2>4, Zenon DEF WaitInv
    <2>6. \A d : Stuck(d) => Stuck(d)'
        BY <2>1, <2>2, Zenon DEF Stuck
    <2>7. \A d \in Block : Processed(d) => Processed(d)'
        BY <2>1, Zenon DEF Processed
    <2>8. received \subseteq Block /\ unlinked \subseteq received /\ Failed \subseteq Block
        BY <1>0, Zenon DEF TypeInv, LinkInv, Failed
    <2>9. \A d \in unlinked' : ~Processed(d)'
        BY <2>1, <2>4, <2>8, Zenon DEF WaitInv
    <2>10. \A d \in received' : ~Processed(d)' => d \in unlinked' \/ Stuck(d)'
        <3>1. b \in Reached(b)
            BY <1>0, <2>1, ReachedFacts, Zenon
        <3> QED
            BY <2>1, <2>3, <2>6, <2>7, <2>8, <3>1, Zenon DEF WaitInv
    <2>11. \A d \in Failed' : Processed(d)' \/ Stuck(d)'
        BY <2>2, <2>6, <2>7, <2>8, Zenon DEF WaitInv
    <2> QED
        BY <2>1, <2>2, <2>5, <2>9, <2>10, <2>11, SMTT(30) DEF WaitInv
<1>5. ASSUME NEW b \in Block \ {Genesis}, NEW r \in BOOLEAN, ReceiveUnlinked(b, r)
      PROVE  WaitInv'
    <2>1. /\ HeaderAccepted(b) /\ received' = received \cup {b} /\ index' = index \cup {b}
          /\ linked' = linked \ {b} /\ unlinked' = IF IsFiled(b) THEN unlinked \cup {b} ELSE unlinked
          /\ UNCHANGED <<failedValid, failedChild, failedBlocks>> /\ Prev[b] \notin linked
          /\ b \notin received
        BY <1>0, <1>5, Zenon DEF ReceiveUnlinked, Wanted
    <2>2. b \notin Failed /\ Failed' = Failed /\ \A d \in index' : Anc[d] \subseteq index'
        BY <2>1, AcceptedFacts, Zenon DEF WaitInv, Failed
    <2>3. linked' = linked
        BY <1>0, <2>1, AncFacts, Zenon DEF LinkInv, Processed
    <2>4. Prev[b] \in Block /\ Anc[b] = {b} \cup Anc[Prev[b]] /\ b \notin Anc[Prev[b]]
        BY ParentFacts, Zenon
    <2>5. ~Processed(Prev[b])
        BY <2>1, <2>4, Zenon DEF WaitInv
    <2>6. \A d \in Block : Processed(d)' <=> Processed(d)
        <3> SUFFICES ASSUME NEW d \in Block, Processed(d)', b \in Anc[d] PROVE FALSE
            BY <2>1, Zenon DEF Processed
        <3>1. Anc[b] \subseteq Anc[d]
            BY AncFacts, Zenon
        <3> QED
            BY <2>1, <2>4, <2>5, <3>1, Zenon DEF Processed
    <2>7. \A d : Stuck(d) => Stuck(d)'
        BY <2>1, <2>2, Zenon DEF Stuck
    <2>8. received \subseteq Block /\ unlinked \subseteq received /\ Failed \subseteq Block
        BY <1>0, Zenon DEF TypeInv, LinkInv, Failed
    <2>9. ~IsFiled(b) => Stuck(b)'
        <3> SUFFICES ASSUME Prev[b] \in Failed PROVE Stuck(b)'
            BY Zenon DEF IsFiled
        <3>1. Stuck(Prev[b])
            BY <2>5, Zenon DEF WaitInv
        <3> QED
            BY <2>1, <2>2, <2>4, <3>1, Zenon DEF Stuck
    <2>10. \A d \in received' : ~Processed(d)' => d \in unlinked' \/ Stuck(d)'
        BY <2>1, <2>6, <2>7, <2>8, <2>9, SMTT(30) DEF WaitInv
    <2>11. ~Processed(b)
        BY <2>1, AncFacts, Zenon DEF Processed
    <2>12. \A d \in unlinked' : ~Processed(d)'
        BY <2>1, <2>6, <2>8, <2>11, Zenon DEF WaitInv
    <2>13. \A d \in Failed' : Processed(d)' \/ Stuck(d)'
        BY <2>2, <2>6, <2>7, <2>8 DEF WaitInv
    <2> QED
        BY <2>1, <2>2, <2>3, <2>6, <2>10, <2>12, <2>13, Zenon DEF WaitInv
<1> QED
    BY <1>1, <1>2, <1>3, <1>4, <1>5, Zenon DEF Arrival

\* Steps of ActivateBestChain keep WaitInv: they flag blocks of a branch that
\* was received.
LEMMA WaitActivate == BInv /\ WaitInv /\ (ActivateBestChain \/ ActivateStep) => WaitInv'
<1> SUFFICES ASSUME BInv, WaitInv, ActivateBestChain \/ ActivateStep
             PROVE  WaitInv'
    BY Zenon
<1>1. ASSUME NEW b \in Block, NEW x \in Block, DropCandidate(b, x)
      PROVE  WaitInv'
    <2>1. UNCHANGED unlinked /\ x \in Anc[b]
        BY <1>1, DroppedFailed, Zenon DEF BInv
    <2>2. Processed(b)
        BY <1>1, Zenon DEF DropCandidate, IsBestCandidate, BInv, GoalInv
    <2>3. \A d \in Above(x, b) : Processed(d) /\ d \in index
        BY <2>1, <2>2, AboveDescends, BranchFacts, Zenon DEF Processed, BInv, LinkInv
    <2>4. /\ UNCHANGED <<received, linked, index, failedBlocks>>
          /\ failedValid' = failedValid /\ failedChild \subseteq failedChild'
          /\ failedChild' \subseteq failedChild \cup Above(x, b)
        BY <1>1, Zenon DEF DropCandidate
    <2>5. Failed \subseteq Failed' /\ Failed' \subseteq Failed \cup Above(x, b)
        BY <2>4, Zenon DEF Failed
    <2> QED
        BY <2>1, <2>3, <2>4, <2>5, WaitKept, Zenon DEF WaitInv
<1>2. ASSUME NEW b \in Block, ConnectInvalid(b)
      PROVE  WaitInv'
    <2>1. /\ mostWork \in Block /\ b \in Anc[mostWork] /\ b \in received
        BY <1>2, Zenon DEF ConnectInvalid, IsNext, BInv, IInv, TypeInv, CallInv, LinkInv
    <2>2. Processed(b)
        BY <2>1, BranchFacts, TreeAssumption, Zenon DEF BInv, GoalInv
    <2>3. b \in linked /\ b \in index
        BY <2>1, <2>2, Zenon DEF WaitInv, BInv, LinkInv
    <2>4. /\ UNCHANGED <<received, linked, unlinked, index, failedChild>>
          /\ failedBlocks' = failedBlocks \cup {b} /\ failedValid' = failedValid \cup {b}
        BY <1>2, Zenon DEF ConnectInvalid, InvalidBlockFound
    <2>5. Failed' = Failed \cup {b}
        BY <2>4, Zenon DEF Failed
    <2> QED
        BY <2>2, <2>3, <2>4, <2>5, WaitKept, Zenon DEF WaitInv
<1>3. ASSUME UNCHANGED <<received, linked, unlinked, index, failedValid, failedChild, failedBlocks>>
      PROVE  WaitInv'
    BY <1>3, Zenon DEF WaitInv, Processed, Stuck, Failed
<1>4. ASSUME NEW b \in Block, AlreadyBest(b) \/ BeginStep(b) \/ AbortConnect(b) \/ ConnectTip(b)
      PROVE  WaitInv'
    BY <1>3, <1>4, ZenonT(30) DEF AlreadyBest, BeginStep, AbortConnect, ConnectTip, statusVars
<1>5. CASE ActivateBestChain \/ LockMain \/ NoCandidate \/ DisconnectTip \/ AbortDisconnect
           \/ ReturnActivate
    BY <1>3, <1>5 DEF ActivateBestChain, LockMain, NoCandidate, DisconnectTip, AbortDisconnect,
       ReturnActivate, statusVars
<1> QED
    BY <1>1, <1>2, <1>4, <1>5 DEF ActivateStep

\* No call of InvalidateBlock is under way.
Quiet == pc \notin {"walk", "mark"}

\* WaitInv holds initially.
LEMMA WaitInit == Init => WaitInv /\ Quiet
<1> SUFFICES ASSUME Init PROVE WaitInv
    BY Zenon DEF Init, Quiet
<1>1. \A b \in Block : Processed(b) => b = Genesis
    BY AncFacts DEF Init, Processed
<1> QED
    BY <1>1, TreeAssumption, Zenon DEF Init, WaitInv, Processed, Failed

\* The steps that are left without commands keep WaitInv.
LEMMA WaitStep ==
    ASSUME BInv, WaitInv, Quiet,
           Arrival \/ ActivateBestChain \/ ActivateStep \/ InvalidateStep \/ UNCHANGED vars
    PROVE  WaitInv' /\ Quiet'
<1>1. ~InvalidateStep
    BY ZenonT(30) DEF Quiet, InvalidateStep, InvalidateDisconnect, InvalidateGivesUp, InvalidateMark,
       InvalidateFinish
<1>2. CASE UNCHANGED vars
    BY <1>2 DEF vars, statusVars, WaitInv, Processed, Stuck, Failed, Quiet
<1>3. CASE Arrival
    <2>1. Quiet'
        BY <1>3, OthersLeaveCalls DEF Quiet
    <2> QED
        BY <1>3, <2>1, WaitArrival, Zenon
<1>4. CASE ActivateBestChain \/ ActivateStep
    <2>1. Quiet'
        BY <1>4, ZenonT(30) DEF ActivateBestChain, ActivateStep, LockMain, NoCandidate,
           DropCandidate, AlreadyBest, BeginStep, ConnectTip, ConnectInvalid, AbortConnect,
           DisconnectTip, AbortDisconnect, ReturnActivate, EndStep, Quiet
    <2> QED
        BY <1>4, <2>1, WaitActivate, SMTT(30)
<1> QED
    BY <1>1, <1>2, <1>3, <1>4

\* WaitInv says which blocks are linked and which wait.
LEMMA WaitExact == BInv /\ WaitInv => LinkedExact /\ UnlinkedExact
<1> SUFFICES ASSUME BInv, WaitInv PROVE LinkedExact /\ UnlinkedExact
    BY Zenon
<1>1. LinkedExact
    BY Zenon DEF LinkedExact, WaitInv, BInv, LinkInv, IInv, TypeInv
<1>2. haveData = received /\ unlinked \subseteq received
    BY DEF BInv, LinkInv
<1>3. UnlinkedHasData
    BY <1>2, Zenon DEF UnlinkedHasData
<1>4. \A b \in Block : Complete(b) <=> Processed(b)
    BY <1>2, Zenon DEF Complete, Processed
<1>5. \A b \in received : ~Processed(b) /\ ~Invalid(b) => b \in unlinked
    BY Zenon DEF BInv, LinkInv
<1> QED
    BY <1>1, <1>2, <1>3, <1>4, <1>5, SMTT(30) DEF UnlinkedExact, WaitInv, BInv, IInv, TypeInv

\* Without commands and pruning: HaveTxsDownloaded() tells that the block and
\* all its ancestors were received, and m_blocks_unlinked holds the blocks that
\* wait for an ancestor, as CheckBlockIndex asserts.
THEOREM LinksStayExact ==
    ASSUME Commands = {}
    PROVE  Spec => [](LinkedExact /\ UnlinkedExact)
<1>1. Commands \subseteq {"invalidate"}
    BY Zenon
<1>2. Next => Arrival \/ ActivateBestChain \/ ActivateStep \/ InvalidateStep
    BY <1>1, BestSteps, Zenon DEF InvalidateBlock
<1>3. BInv /\ WaitInv /\ Quiet /\ [Next]_vars => WaitInv' /\ Quiet'
    BY <1>2, WaitStep, Zenon
<1> QED
    BY <1>1, <1>3, WaitInit, WaitExact, BestInvariance, PTL DEF Spec

-----------------------------------------------------------------------------
(* Pruning.                                                                *)

FiledInv == unlinked \subseteq haveData

\* FindMostWorkChain walks down from the best candidate to the first block that is not
\* usable, so the blocks it files again have their data.
LEMMA RefiledHaveData ==
    ASSUME TypeInv, NEW b \in Block, NEW x \in Block, DropCandidate(b, x)
    PROVE  Refiled(x, b) \subseteq haveData
<1> SUFFICES ASSUME NEW y \in Above(x, b) PROVE y \in haveData
    BY Zenon DEF Refiled
<1>1. x \in Anc[b] /\ x \notin Anc[tip] /\ tip \in Block
    BY Zenon DEF DropCandidate, OffChain, Chain, TypeInv
<1>2. y \in Block /\ x \in Anc[y] /\ y \in Anc[b] /\ y # x
    BY <1>1, AboveDescends, AncFacts, Zenon DEF Above
<1>3. y \in OffChain(b)
    BY <1>1, <1>2, AncFacts, Zenon DEF OffChain, Chain
<1>4. Height[x] < Height[y] /\ Height[x] \in Nat /\ Height[y] \in Nat
    BY <1>2, OrderAssumption
<1>5. y \in Unusable => Height[y] <= Height[x]
    BY <1>3, Zenon DEF DropCandidate
<1>6. y \notin Unusable
    BY <1>4, <1>5
<1> QED
    BY <1>2, <1>6, Zenon DEF Unusable

\* No block waits in m_blocks_unlinked without its data.
LEMMA FiledStep == TypeInv /\ FiledInv /\ [Next]_vars => FiledInv'
<1> SUFFICES ASSUME TypeInv, FiledInv, [Next]_vars PROVE FiledInv'
    BY Zenon
<1>1. CASE UNCHANGED vars
    BY <1>1, Zenon DEF vars, statusVars, FiledInv
<1>2. CASE Arrival
    BY <1>2 DEF Arrival, AcceptBlockHeader, RejectBlockHeader, IgnoreBlock, RejectBlock,
       ReceiveLinked, ReceiveUnlinked, FiledInv
<1>3. ASSUME NEW b \in Block, NEW x \in Block, DropCandidate(b, x)
      PROVE  FiledInv'
    <2>1. unlinked' = unlinked \cup Refiled(x, b) /\ UNCHANGED haveData
        BY <1>3, Zenon DEF DropCandidate
    <2> QED
        BY <1>3, <2>1, RefiledHaveData, Zenon DEF FiledInv
<1>4. CASE ActivateBestChain \/ ActivateStep
    BY <1>3, <1>4, ZenonT(30) DEF ActivateBestChain, ActivateStep, LockMain, NoCandidate, AlreadyBest,
       BeginStep, ConnectTip, ConnectInvalid, AbortConnect, DisconnectTip, AbortDisconnect,
       ReturnActivate, statusVars, FiledInv
<1>5. CASE InvalidateStep \/ Operator
    BY <1>5, ZenonT(30) DEF InvalidateStep, InvalidateDisconnect, InvalidateGivesUp, InvalidateMark,
       InvalidateFinish, Operator, PreciousBlock, InvalidateBlock, ResetBlockFailureFlags,
       statusVars, FiledInv
<1>6. CASE Pruning
    BY <1>6, Zenon DEF Pruning, PruneFiles, Unfiled, FiledInv
<1> QED
    BY <1>1, <1>2, <1>4, <1>5, <1>6, Zenon DEF Next, Live

FlagInv == \A b \in Failed : Invalid(b)

\* Every flag has a cause, as long as nothing is invalidated or reconsidered by hand.
LEMMA FlagStep ==
    ASSUME IInv, FlagInv, Arrival \/ ActivateBestChain \/ ActivateStep \/ Pruning \/ UNCHANGED vars
    PROVE  FlagInv'
<1>1. ASSUME UNCHANGED <<failedValid, failedChild>>
      PROVE  FlagInv'
    BY <1>1 DEF FlagInv, Failed, Invalid
<1>2. ASSUME NEW b \in Block, failedValid' = failedValid \cup {b}, UNCHANGED failedChild
      PROVE  FlagInv'
    BY <1>2, AncFacts DEF FlagInv, Failed, Invalid
<1>3. ASSUME NEW above, UNCHANGED failedValid, failedChild' = failedChild \cup above,
             \A d \in above : Invalid(d)
      PROVE  FlagInv'
    BY <1>3 DEF FlagInv, Failed, Invalid
<1>4. ASSUME NEW b \in Block \ {Genesis}, NEW f \in Block, RejectBlockHeader(b, f)
      PROVE  FlagInv'
    <2>1. Prev[b] \in Block /\ f \in Anc[Prev[b]] /\ f \in failedValid
        BY <1>4, ParentFacts, Zenon DEF RejectBlockHeader, FailedAncestors, IInv, ValidInv,
           FailedBlocksFailed
    <2>2. \A d \in Above(f, Prev[b]) : Invalid(d)
        BY <2>1, AboveDescends, Zenon DEF Invalid
    <2> QED
        BY <1>3, <1>4, <2>2, Zenon DEF RejectBlockHeader
<1>5. CASE Arrival
    BY <1>1, <1>2, <1>4, <1>5, ZenonT(30) DEF Arrival, AcceptBlockHeader, IgnoreBlock, RejectBlock,
       ReceiveLinked, ReceiveUnlinked
<1>6. ASSUME NEW b \in Block, NEW x \in Block, DropCandidate(b, x)
      PROVE  FlagInv'
    <2>1. x \in Anc[b]
        BY <1>6, Zenon DEF DropCandidate, OffChain
    <2>2. x \in Failed => \A d \in Above(x, b) : Invalid(d)
        BY <2>1, AboveDescends, BranchFacts, AncFacts, Zenon DEF FlagInv, Above
    <2>3. UNCHANGED failedValid /\ failedChild' = failedChild \cup (IF x \in Failed THEN Above(x, b) ELSE {})
        BY <1>6, Zenon DEF DropCandidate
    <2> QED
        BY <1>3, <2>2, <2>3
<1>7. CASE ActivateBestChain \/ ActivateStep
    BY <1>1, <1>2, <1>6, <1>7, ZenonT(30) DEF ActivateBestChain, ActivateStep, LockMain, NoCandidate,
       AlreadyBest, BeginStep, ConnectTip, ConnectInvalid, InvalidBlockFound, AbortConnect,
       DisconnectTip, AbortDisconnect, ReturnActivate, statusVars
<1>8. CASE Pruning \/ UNCHANGED vars
    BY <1>1, <1>8, Zenon DEF Pruning, PruneFiles, vars, statusVars
<1> QED
    BY <1>5, <1>7, <1>8, Zenon

\* Nobody but the command itself starts InvalidateBlock.
LEMMA QuietStep ==
    ASSUME Quiet, Arrival \/ ActivateBestChain \/ ActivateStep \/ Pruning \/ UNCHANGED vars
    PROVE  Quiet'
<1>1. CASE Arrival
    BY <1>1, OthersLeaveCalls DEF Quiet
<1>2. CASE ActivateBestChain \/ ActivateStep
    BY <1>2, ZenonT(30) DEF ActivateBestChain, ActivateStep, LockMain, NoCandidate,
       DropCandidate, AlreadyBest, BeginStep, ConnectTip, ConnectInvalid, AbortConnect,
       DisconnectTip, AbortDisconnect, ReturnActivate, EndStep, Quiet
<1>3. CASE Pruning \/ UNCHANGED vars
    BY <1>3, Zenon DEF Pruning, PruneFiles, vars, Quiet
<1> QED
    BY <1>1, <1>2, <1>3, Zenon

-----------------------------------------------------------------------------
(* The operator's habits.                                                  *)

\* A step under a habit is a step of Chainstate.
LEMMA HabitSteps == [HabitNext]_<<vars, habit>> => [Next]_vars /\ UNCHANGED habit
<1>1. Command => Operator \/ Pruning
    BY Zenon DEF Command, Operator
<1> QED
    BY <1>1, Zenon DEF HabitNext, Next, Live

\* IInv holds under every habit.
LEMMA HabitIInv == HabitSpec => []IInv
<1>1. HabitSpec => Spec
    <2>1. HabitInit => Init
        BY Zenon DEF HabitInit
    <2> QED
        BY <2>1, HabitSteps, PTL DEF HabitSpec, Spec
<1> QED
    BY <1>1, Invariance, PTL

\* An operator who only invalidates blocks and prefers others to the tip.
KeepsBest == habit \subseteq {"invalidate", "favour"}

\* Such an operator keeps BInv.
LEMMA HabitBest == HabitSpec => [](KeepsBest => BInv)
<1>1. HabitInit => (KeepsBest => LinkInv /\ GoalInv /\ BestInv)
    BY BestInit, Zenon DEF HabitInit
<1>2. ASSUME KeepsBest => BInv, [HabitNext]_<<vars, habit>>
      PROVE  (KeepsBest => LinkInv /\ GoalInv /\ BestInv)'
    <2> SUFFICES ASSUME KeepsBest PROVE LinkInv' /\ GoalInv' /\ BestInv'
        BY <1>2, HabitSteps, Zenon DEF KeepsBest
    <2>1. Command => BestStep
        BY Zenon DEF KeepsBest, Command, BestStep
    <2>2. BestStep \/ UNCHANGED vars
        BY <1>2, <2>1, Zenon DEF HabitNext, BestStep
    <2> QED
        BY <1>2, <2>2, BestKept, Zenon
<1> QED
    BY <1>1, <1>2, HabitIInv, PTL DEF HabitSpec, BInv

\* After invalidateblock the best remaining branch ends active, and after
\* preciousblock for a block other than the tip that block's, when it is as good.
THEOREM HabitKeepsBest == HabitSpec => []CommandsKeepBest
<1>1. (KeepsBest => BInv) => CommandsKeepBest
    BY Zenon DEF KeepsBest, CommandsKeepBest, BInv, BestInv, TipIsBest, Attainable, Good
<1> QED
    BY <1>1, HabitBest, PTL

\* Those commands leave in setBlockIndexCandidates every branch that is as good
\* as the tip, and no other.
THEOREM HabitKeepsCandidates == HabitSpec => []CommandsKeepCandidates
<1>1. (KeepsBest => BInv) => CommandsKeepCandidates
    BY BestCandidates, Zenon DEF KeepsBest, CommandsKeepCandidates
<1> QED
    BY <1>1, HabitBest, PTL

NeverAborts == "prune" \notin habit => pc # "down"

\* Without pruning a step is one of the others.
LEMMA HabitLive ==
    ASSUME [HabitNext]_<<vars, habit>>, "prune" \notin habit
    PROVE  [Live]_vars
<1>1. Command => Operator
    BY Zenon DEF Command, Operator
<1> QED
    BY <1>1, Zenon DEF HabitNext, Live

\* Without pruning DataInv holds under every habit.
DataKeptHabit == "prune" \notin habit => DataInv

LEMMA HabitData == HabitSpec => []DataKeptHabit
<1>1. HabitInit => DataKeptHabit
    BY DataInit, Zenon DEF HabitInit, DataKeptHabit
<1>2. IInv /\ DataKeptHabit /\ [HabitNext]_<<vars, habit>> => DataKeptHabit'
    <2> SUFFICES ASSUME IInv, DataInv, [HabitNext]_<<vars, habit>>, "prune" \notin habit PROVE DataInv'
        BY HabitSteps, Zenon DEF DataKeptHabit
    <2> QED
        BY HabitLive, DataStep, Zenon
<1> QED
    BY <1>1, <1>2, HabitIInv, PTL DEF HabitSpec

\* Without pruning, the goal that ActivateBestChain keeps over a release of
\* cs_main can still be connected, under every habit of the operator, and no
\* call ends in AbortNode.
THEOREM HabitGoalStays == HabitSpec => [](GoalStays /\ NeverAborts)
<1>1. IInv /\ DataKeptHabit => GoalStays /\ NeverAborts
    BY DataGoal, Zenon DEF DataKeptHabit, GoalStays, NeverAborts, GoalUsable
<1> QED
    BY <1>1, HabitData, HabitIInv, PTL

\* Without pruning, ReceivedBlockTransactions gives no new sequence id to a block that is
\* in setBlockIndexCandidates, whose order depends on it, whatever the operator does.
THEOREM HabitKeysStay == HabitSpec => CandidateKeysStable
<1>1. IInv /\ DataKeptHabit /\ [HabitNext]_<<vars, habit>>
          => ["prune" \notin habit => KeepsKeys]_<<vars, habit>>
    <2> SUFFICES ASSUME IInv, DataInv, HabitNext, "prune" \notin habit PROVE KeepsKeys
        BY Zenon DEF DataKeptHabit
    <2>1. Command => Operator
        BY Zenon DEF Command, Operator
    <2>2. Live
        BY <2>1, Zenon DEF HabitNext, Live
    <2> QED
        BY <2>2, DataKeys, Zenon DEF IInv
<1> QED
    BY <1>1, HabitData, HabitIInv, PTL DEF HabitSpec, CandidateKeysStable

\* The assertions of CheckBlockIndex about candidates, links and flags hold while blocks
\* arrive in any order, those about the flags also while files are pruned, and that
\* m_blocks_unlinked holds no block without data whatever the operator does.
THEOREM HabitChecks == HabitSpec => [](CheckBlockIndex /\ ArrivalsKeepCandidates)
<1> DEFINE Kept == /\ FiledInv
                   /\ habit \subseteq {"prune"} => FlagInv /\ Quiet
                   /\ habit = {} => WaitInv
<1>1. HabitInit => Kept
    <2>1. Init => FiledInv /\ FlagInv
        BY Zenon DEF Init, FiledInv, FlagInv, Failed
    <2> QED
        BY <2>1, WaitInit, Zenon DEF HabitInit
<1>2. IInv /\ (KeepsBest => BInv) /\ Kept /\ [HabitNext]_<<vars, habit>> => Kept'
    <2> SUFFICES ASSUME IInv, KeepsBest => BInv, Kept, [HabitNext]_<<vars, habit>>
                 PROVE  Kept'
        BY Zenon
    <2>1. UNCHANGED habit /\ FiledInv'
        BY HabitSteps, FiledStep, Zenon DEF IInv
    <2>2. ASSUME habit \subseteq {"prune"}
          PROVE  FlagInv' /\ Quiet'
        <3>1. Command => Pruning
            BY <2>2, Zenon DEF Command
        <3>2. ~InvalidateStep
            BY <2>2, ZenonT(30) DEF Quiet, InvalidateStep, InvalidateDisconnect, InvalidateGivesUp,
               InvalidateMark, InvalidateFinish
        <3>3. Arrival \/ ActivateBestChain \/ ActivateStep \/ Pruning \/ UNCHANGED vars
            BY <3>1, <3>2, Zenon DEF HabitNext
        <3> QED
            BY <2>2, <3>3, FlagStep, QuietStep, Zenon
    <2>3. ASSUME habit = {}
          PROVE  WaitInv'
        <3>1. ~Command /\ KeepsBest /\ habit \subseteq {"prune"}
            BY <2>3, Zenon DEF Command, KeepsBest
        <3>2. Arrival \/ ActivateBestChain \/ ActivateStep \/ InvalidateStep \/ UNCHANGED vars
            BY <3>1, Zenon DEF HabitNext
        <3> QED
            BY <2>3, <3>1, <3>2, WaitStep, Zenon
    <2> QED
        BY <2>1, <2>2, <2>3, Zenon
<1>3. (KeepsBest => BInv) /\ Kept => CheckBlockIndex /\ ArrivalsKeepCandidates
    <2> SUFFICES ASSUME KeepsBest => BInv, Kept PROVE CheckBlockIndex /\ ArrivalsKeepCandidates
        BY Zenon
    <2>1. UnlinkedHasData /\ (habit \subseteq {"prune"} => FailedHasCause)
        BY Zenon DEF UnlinkedHasData, FailedHasCause, FiledInv, FlagInv
    <2>2. habit = {} => CandidatesSound /\ CandidatesComplete /\ UnlinkedExact /\ LinkedExact
        BY WaitExact, BestCandidates, Zenon DEF KeepsBest
    <2> QED
        BY <2>1, <2>2, Zenon DEF CheckBlockIndex, ArrivalsKeepCandidates
<1> QED
    BY <1>1, <1>2, <1>3, HabitBest, HabitIInv, PTL DEF HabitSpec
=============================================================================
