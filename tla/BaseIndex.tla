----------------------------- MODULE BaseIndex -----------------------------
(***************************************************************************)
(* An index of the block chain (index/base.cpp): the thread that catches up *)
(* with the chain, the callbacks that follow it afterwards, the callers     *)
(* that wait for it, and what a crash or a stop leaves in its database.     *)
(* Callbacks run through the SerialQueue that SchedulerClient implements.   *)
(* The chain moves as ActivateBestChain and InvalidateBlock move it.        *)
(*                                                                         *)
(* cs_main is free unless the validation thread is signalling or the        *)
(* synchronisation thread is about to commit; shorter holds are one step.   *)
(* Reads and writes of files succeed.                                       *)
(***************************************************************************)
EXTENDS Integers, FiniteSets, SerialQueue

CONSTANTS
    Block, Genesis, Prev, Anc, Height,  \* the tree of blocks (Anc[b] has b)
    StartTip,       \* tips when the index is first enabled
    None,           \* no block, a null CBlockIndex pointer
    Validation,     \* the thread that moves the chain
    Caller,         \* the thread that waits for the index
    QueueLimit,     \* callbacks that may wait before the chain moves on (10)
    MaxMoves,       \* bound: moves of the tip and flushes of the chain state
    MaxEnds         \* bound: crashes and orderly stops before the node runs on

ASSUME TreeAssumption ==
    /\ Genesis \in Block /\ None \notin Block
    /\ Prev \in [Block \ {Genesis} -> Block]
    /\ Anc \in [Block -> SUBSET Block] /\ Anc[Genesis] = {Genesis}
    /\ Height \in [Block -> Nat] /\ Height[Genesis] = 0
    /\ \A b \in Block \ {Genesis} : /\ Anc[b] = {b} \cup Anc[Prev[b]]
                                    /\ Height[b] = Height[Prev[b]] + 1
    /\ \A b \in Block : /\ b \in Anc[b] /\ Genesis \in Anc[b]
                        /\ \A a \in Anc[b] : Anc[a] \subseteq Anc[b] /\ Height[a] <= Height[b]
                        /\ \A h \in 0..Height[b] : \E a \in Anc[b] : Height[a] = h
                        /\ \A a, c \in Anc[b] : Height[a] <= Height[c] => a \in Anc[c]
    /\ \A a, b \in Block : \E c \in Block : Anc[a] \cap Anc[b] = Anc[c]

VARIABLES
    tip,        \* tip of the active chain
    flushed,    \* the tip the chain state on disk has
    signals,    \* callbacks the validation thread has still to add
    best,       \* m_best_block_index
    synced,     \* m_synced
    place,      \* of the synchronisation thread
    pindex,     \* its local block
    interrupted,\* m_interrupt
    handler,    \* how far the active callback is
    written,    \* blocks in the index database
    locator,    \* the best block of the index database
    waits,      \* threads in SyncWithValidationInterfaceQueue
    goal,       \* the tip the caller has seen and waits for, or None
    answer,     \* the tip for which it was last told that the index is synced
    blind,      \* history: a locator was written for an index without blocks
    moves, crashes, stops

chainVars == <<tip, flushed, signals, moves>>
indexVars == <<best, synced, place, pindex, interrupted, handler>>
diskVars == <<written, locator>>
callerVars == <<waits, goal, answer>>
vars == <<queueVars, chainVars, indexVars, diskVars, callerVars, blind, crashes, stops>>

\* The callbacks an index looks at.
Connected(b) == [type |-> "connected", block |-> b]
Flushed(b) == [type |-> "flushed", block |-> b]
Promise(p) == [type |-> "promise", to |-> p]

\* Ancestors, with those of the null block.
AncOf(b) == IF b = None THEN {} ELSE Anc[b]

ASSUME CallbackAssumption ==
    /\ Callback = [type : {"connected", "flushed"}, block : Block]
                    \cup [type : {"promise"}, to : {Validation, Caller}]
    /\ Nothing \notin Callback /\ Validation # Caller
    /\ StartTip \subseteq Block \cup {None}
    /\ QueueLimit \in Nat /\ MaxMoves \in Nat /\ MaxEnds \in Nat

TypeOK ==
    /\ queue \in Seq(Callback) /\ signals \in Seq(Callback) /\ active \in Callback \cup {Nothing}
    /\ {tip, flushed, best, pindex, locator, goal, answer} \subseteq Block \cup {None}
    /\ {synced, interrupted, blind} \subseteq BOOLEAN
    /\ waits \subseteq {Validation, Caller}
    /\ place \in {"top", "timer", "commit", "write", "synced", "stopping", "ended"}
    /\ handler \in {"entry", "commit", "write", "best"}
    /\ written \subseteq Block
    /\ moves \in 0..MaxMoves /\ crashes \in Nat /\ stops \in 0..MaxEnds

-----------------------------------------------------------------------------
\* CChain::FindFork and FindForkInGlobalIndex: the last block b has in common
\* with the chain that ends in t.
ForkWith(b, t) ==
    LET common == AncOf(b) \cap AncOf(t)
    IN  IF common = {} THEN None
        ELSE CHOOSE c \in common : \A d \in common : Height[d] <= Height[c]

\* CChain::Next, and NextSyncBlock.
NextInChain(b) ==
    IF b \in AncOf(tip) /\ b # tip
    THEN CHOOSE c \in AncOf(tip) : c # Genesis /\ Prev[c] = b
    ELSE None
NextSyncBlock(b) ==
    IF b = None THEN IF tip = None THEN None ELSE Genesis
    ELSE NextInChain(ForkWith(b, tip))

\* CChain::GetLocator takes the tip for a null block.
LocatorOf(b) == IF b = None THEN tip ELSE b

\* cs_main: held while the validation thread has signals to add.
ValidationBusy == signals # <<>>
\* Mutant: LimitValidationInterfaceQueue is called with cs_main.
MutantHeldWhileWaiting == ~ValidationBusy /\ Validation \notin waits /\ place # "synced"
CsMainFree == ~ValidationBusy /\ place # "synced"

-----------------------------------------------------------------------------
(* Start: the chain is what the disk has, the index reads its locator.      *)

\* BaseIndex::Start and Init: m_synced at once when there is nothing to do.
StartIndex(t, fork) ==
    /\ tip' = t
    /\ best' = fork
    /\ pindex' = fork
    /\ synced' = (fork = t)
    /\ place' = IF fork = t THEN "ended" ELSE "top"

\* A new index, at a node that is new or has a chain.
Init ==
    /\ QueueInit
    /\ tip \in StartTip
    /\ flushed = tip
    /\ best = None /\ pindex = None
    /\ synced = (tip = None)
    /\ place = IF tip = None THEN "ended" ELSE "top"
    /\ signals = <<>>
    /\ interrupted = FALSE
    /\ handler = "entry"
    /\ written = {} /\ locator = None
    /\ waits = {} /\ goal = None /\ answer = None
    /\ blind = FALSE
    /\ moves = 0 /\ crashes = 0 /\ stops = 0

Restart ==
    /\ StartIndex(flushed, ForkWith(locator, flushed))
    /\ Reset
    /\ signals' = <<>>
    /\ interrupted' = FALSE
    /\ handler' = "entry"
    /\ waits' = {} /\ goal' = None /\ answer' = None
    /\ UNCHANGED <<flushed, moves, diskVars, blind>>

Crash ==
    /\ crashes + stops < MaxEnds
    /\ crashes' = crashes + 1
    /\ Restart
    /\ UNCHANGED stops

\* Interrupt() of init.cpp, and Shutdown(), which ends when the chain state is
\* flushed, the callbacks have run and the index thread has returned.
Interrupt ==
    /\ crashes + stops < MaxEnds
    /\ stops' = stops + 1
    /\ ~interrupted
    /\ interrupted' = TRUE
    /\ UNCHANGED <<queueVars, chainVars, best, synced, place, pindex, handler,
                   diskVars, callerVars, blind, crashes>>

Shutdown ==
    /\ interrupted
    /\ flushed = tip
    /\ place = "ended"
    /\ goal = None /\ signals = <<>> /\ queue = <<>> /\ active = Nothing
    /\ Restart
    /\ UNCHANGED <<crashes, stops>>

-----------------------------------------------------------------------------
(* The validation thread                                                    *)

MayMove == CsMainFree /\ ~interrupted /\ Validation \notin waits

\* The signals for the blocks above the fork, lowest first.
ConnectedUpTo(t) ==
    LET fork == ForkWith(t, tip)
        start == IF fork = None THEN -1 ELSE Height[fork]
    IN  [i \in 1..(Height[t] - start) |-> Connected(CHOOSE b \in AncOf(t) : Height[b] = start + i)]

\* ActivateBestChain: cs_main is kept until the tip has more work than before
\* and the blocks are signalled.
MoveTip(t) ==
    /\ MayMove
    /\ Len(queue) <= QueueLimit
    /\ IF tip = None
       THEN t = Genesis /\ UNCHANGED moves
       ELSE /\ Height[t] = Height[tip] + 1
            /\ moves < MaxMoves
            /\ moves' = moves + 1
    /\ tip' = t
    /\ signals' = ConnectedUpTo(t)
    /\ UNCHANGED <<queueVars, flushed, indexVars, diskVars, callerVars, blind, crashes, stops>>

\* InvalidateBlock: DisconnectTip; an index does not listen to BlockDisconnected.
DisconnectTip ==
    /\ MayMove
    /\ tip \notin {None, Genesis}
    /\ moves < MaxMoves
    /\ moves' = moves + 1
    /\ tip' = Prev[tip]
    /\ UNCHANGED <<queueVars, flushed, signals, indexVars, diskVars, callerVars, blind, crashes, stops>>

\* LimitValidationInterfaceQueue, without cs_main.
DrainQueue ==
    /\ MayMove
    /\ Len(queue) > QueueLimit
    /\ Add(Promise(Validation))
    /\ waits' = waits \cup {Validation}
    /\ UNCHANGED <<chainVars, indexVars, diskVars, goal, answer, blind, crashes, stops>>

\* FlushStateToDisk, up to the signal; also in Shutdown().
FlushStateToDisk ==
    /\ CsMainFree /\ Validation \notin waits
    /\ tip # None /\ flushed # tip
    /\ flushed' = tip
    /\ signals' = <<Flushed(tip)>>
    /\ UNCHANGED <<queueVars, tip, moves, indexVars, diskVars, callerVars, blind, crashes, stops>>

Signal ==
    /\ signals # <<>>
    /\ Add(Head(signals))
    /\ signals' = Tail(signals)
    /\ UNCHANGED <<tip, flushed, moves, indexVars, diskVars, callerVars, blind, crashes, stops>>

-----------------------------------------------------------------------------
(* The synchronisation thread                                               *)

chainUnchanged == UNCHANGED <<queueVars, chainVars, callerVars, interrupted, handler>>

Commit(b) ==
    /\ locator' = LocatorOf(b)
    /\ blind' = (blind \/ b = None)
    /\ UNCHANGED written

\* The chain has no next block: m_synced is set, and cs_main kept for Commit.
CaughtUp ==
    /\ place = "top" /\ ~interrupted /\ CsMainFree
    /\ NextSyncBlock(pindex) = None
    /\ best' = pindex
    /\ synced' = TRUE
    /\ place' = "synced"
    /\ UNCHANGED <<pindex, diskVars, blind, crashes, stops>>
    /\ chainUnchanged

CommitSynced ==
    /\ place = "synced"
    /\ Commit(best)
    /\ place' = "ended"
    /\ UNCHANGED <<best, synced, pindex, crashes, stops>>
    /\ chainUnchanged

ParentOf(b) == IF b = Genesis THEN None ELSE Prev[b]

SyncNext ==
    LET next == NextSyncBlock(pindex)
    IN  /\ place = "top" /\ ~interrupted /\ CsMainFree
        /\ next # None
        /\ ParentOf(next) = pindex
        /\ pindex' = next
        /\ place' = "timer"
        /\ UNCHANGED <<best, synced, diskVars, blind, crashes, stops>>
        /\ chainUnchanged

\* The chain has left the branch of pindex: Rewind, which asserts that pindex is
\* the recorded best block.
SyncRewind ==
    LET next == NextSyncBlock(pindex)
    IN  /\ place = "top" /\ ~interrupted /\ CsMainFree
        /\ next # None
        /\ ParentOf(next) # pindex
        /\ pindex = best
        /\ best' = ParentOf(next)
        /\ Commit(ParentOf(next))
        /\ pindex' = next
        /\ place' = "timer"
        /\ UNCHANGED <<synced, crashes, stops>>
        /\ chainUnchanged

RewindAsserts ==
    LET next == NextSyncBlock(pindex)
    IN  /\ place = "top" /\ ~interrupted /\ CsMainFree
        /\ next # None
        /\ ParentOf(next) # pindex
        /\ pindex # best
        /\ crashes' = crashes + 1
        /\ Restart
        /\ UNCHANGED stops

\* Every 30 seconds the locator is committed, before the block is written.
SyncTimer ==
    /\ place = "timer"
    /\ \/ place' = "write" /\ UNCHANGED best
       \/ place' = "commit" /\ best' = pindex
    /\ UNCHANGED <<synced, pindex, diskVars, blind, crashes, stops>>
    /\ chainUnchanged

SyncCommit ==
    /\ place = "commit" /\ CsMainFree
    /\ Commit(best)
    /\ place' = "write"
    /\ UNCHANGED <<best, synced, pindex, crashes, stops>>
    /\ chainUnchanged

SyncWrite ==
    /\ place = "write"
    /\ written' = written \cup {pindex}
    /\ place' = "top"
    /\ UNCHANGED <<best, synced, pindex, locator, blind, crashes, stops>>
    /\ chainUnchanged

SyncStops ==
    /\ place = "top" /\ interrupted
    /\ best' = pindex
    /\ place' = "stopping"
    /\ UNCHANGED <<synced, pindex, diskVars, blind, crashes, stops>>
    /\ chainUnchanged

CommitStopped ==
    /\ place = "stopping" /\ CsMainFree
    /\ Commit(best)
    /\ place' = "ended"
    /\ UNCHANGED <<best, synced, pindex, crashes, stops>>
    /\ chainUnchanged

SyncThread ==
    \/ CaughtUp \/ CommitSynced \/ SyncNext \/ SyncRewind \/ RewindAsserts
    \/ SyncTimer \/ SyncCommit \/ SyncWrite \/ SyncStops \/ CommitStopped

-----------------------------------------------------------------------------
(* The callbacks                                                            *)

Handling(type) == active # Nothing /\ active.type = type

syncUnchanged == UNCHANGED <<chainVars, synced, place, pindex, interrupted>>

\* BlockConnected returns at once before m_synced, and for a block that is not on
\* top of an ancestor of the best block.  The first block is the genesis block.
\* Mutant: stale blocks are not skipped.
MutantAnyBlock(b) == TRUE
Applies(b) == IF best = None THEN b = Genesis ELSE ParentOf(b) \in AncOf(best)

BlockConnectedIgnored ==
    /\ Handling("connected")
    /\ handler = "entry"
    /\ ~(synced /\ Applies(active.block))
    /\ Finish
    /\ UNCHANGED <<best, handler, diskVars, callerVars, blind, crashes, stops>>
    /\ syncUnchanged

\* It rewinds the index to the parent when the best block is another one.
BlockConnected ==
    LET parent == ParentOf(active.block)
    IN  /\ Handling("connected")
        /\ handler = "entry"
        /\ synced /\ Applies(active.block)
        /\ best' = parent
        /\ handler' = (IF best = parent THEN "write" ELSE "commit")
        /\ UNCHANGED <<queueVars, diskVars, callerVars, blind, crashes, stops>>
        /\ syncUnchanged

RewindCommit ==
    /\ Handling("connected")
    /\ handler = "commit"
    /\ CsMainFree
    /\ Commit(best)
    /\ handler' = "write"
    /\ UNCHANGED <<queueVars, best, callerVars, crashes, stops>>
    /\ syncUnchanged

WriteBlock ==
    /\ Handling("connected")
    /\ handler = "write"
    /\ written' = written \cup {active.block}
    /\ handler' = "best"
    /\ UNCHANGED <<queueVars, best, locator, callerVars, blind, crashes, stops>>
    /\ syncUnchanged

SetBest ==
    /\ Handling("connected")
    /\ handler = "best"
    /\ best' = active.block
    /\ handler' = "entry"
    /\ Finish
    /\ UNCHANGED <<diskVars, callerVars, blind, crashes, stops>>
    /\ syncUnchanged

\* ChainStateFlushed commits when the flushed tip is one the index has passed.
ChainStateFlushed ==
    /\ Handling("flushed")
    /\ CsMainFree
    /\ IF synced /\ active.block \in AncOf(best)
       THEN Commit(best)
       ELSE UNCHANGED <<diskVars, blind>>
    /\ Finish
    /\ UNCHANGED <<best, handler, callerVars, crashes, stops>>
    /\ syncUnchanged

\* The promise of SyncWithValidationInterfaceQueue; the caller returns true.
PromiseSet ==
    /\ Handling("promise")
    /\ waits' = waits \ {active.to}
    /\ IF active.to = Caller
       THEN answer' = goal /\ goal' = None
       ELSE UNCHANGED <<answer, goal>>
    /\ Finish
    /\ UNCHANGED <<best, handler, diskVars, blind, crashes, stops>>
    /\ syncUnchanged

Handle ==
    \/ BlockConnectedIgnored \/ BlockConnected \/ RewindCommit
    \/ WriteBlock \/ SetBest \/ ChainStateFlushed \/ PromiseSet

-----------------------------------------------------------------------------
(* BlockUntilSyncedToCurrentChain, once the index has a block.              *)

Asks == synced /\ CsMainFree /\ goal = None /\ best # None /\ ~interrupted

\* Mutant: the height is enough.
MutantHighEnough == Height[tip] <= Height[best]
HasPassedTip == tip \in AncOf(best)

AnswerAtOnce ==
    /\ Asks
    /\ HasPassedTip
    /\ answer' = tip
    /\ UNCHANGED <<queueVars, chainVars, indexVars, diskVars, waits, goal, blind, crashes, stops>>

AskWaits ==
    /\ Asks
    /\ ~HasPassedTip
    /\ goal' = tip
    /\ UNCHANGED <<queueVars, chainVars, indexVars, diskVars, waits, answer, blind, crashes, stops>>

SyncWithQueue ==
    /\ goal # None /\ Caller \notin waits
    /\ Add(Promise(Caller))
    /\ waits' = waits \cup {Caller}
    /\ UNCHANGED <<chainVars, indexVars, diskVars, goal, answer, blind, crashes, stops>>

-----------------------------------------------------------------------------
Run ==
    /\ Start
    /\ UNCHANGED <<chainVars, indexVars, diskVars, callerVars, blind, crashes, stops>>

Next ==
    \/ Run \/ Handle
    \/ \E b \in Block : MoveTip(b)
    \/ DisconnectTip \/ DrainQueue \/ FlushStateToDisk \/ Signal
    \/ SyncThread
    \/ AnswerAtOnce \/ AskWaits \/ SyncWithQueue
    \/ Crash \/ Interrupt \/ Shutdown

Spec == Init /\ [][Next]_vars

\* Threads that are not blocked run, and a shutdown that has begun goes on.
Fairness ==
    /\ WF_vars(Run) /\ WF_vars(Handle)
    /\ WF_vars(Signal) /\ WF_vars(SyncThread) /\ WF_vars(SyncWithQueue)
    /\ WF_vars(Shutdown) /\ WF_vars(interrupted /\ FlushStateToDisk)
FairSpec == Spec /\ Fairness

-----------------------------------------------------------------------------
(* Properties                                                               *)

Missing(b) == AncOf(b) \ written

\* "The last block in the chain that the index is in sync with" (index/base.h): a
\* synchronised index has every block up to it.  What holds of that: a crash, or the
\* assertion in Rewind, costs at most the one block whose locator was committed before
\* it was written.
LosesOnePerCrash == synced /\ ~blind => Cardinality(Missing(best)) <= crashes

\* When BlockUntilSyncedToCurrentChain returns true, the index has the chain the
\* caller saw, however the chain moved while it waited.
PromiseKept == ~blind => Cardinality(Missing(answer)) <= crashes

\* The assertion of Rewind in the synchronisation thread (index/base.cpp).
RewindFromBest ==
    LET next == NextSyncBlock(pindex)
    IN  place = "top" /\ CsMainFree /\ next # None /\ ParentOf(next) # pindex
            => pindex = best

\* Once the chain stands still the index catches up, whatever stale callbacks were
\* queued when the synchronisation thread handed over; and whoever waits in
\* SyncWithValidationInterfaceQueue gets out of it, so no callback waits for what
\* that thread holds.
Settles == <>[](waits = {} /\ tip \in {None} \cup AncOf(best))
=============================================================================
