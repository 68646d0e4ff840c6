------------------------------- MODULE Miner -------------------------------
(***************************************************************************)
(* The threads of the built-in miner (miner.cpp) and the commands that      *)
(* start and stop them.  A thread reads the tip without cs_main wherever    *)
(* the code does, also in the midst of a reorganisation, which sets the tip *)
(* block by block.  The key a thread reserves is a reservation of KeyPool.  *)
(***************************************************************************)
EXTENDS Naturals, FiniteSets

CONSTANTS
    Thread,         \* threads of the miner, each used once in a process
    Block, Genesis, Prev, Anc, Height, ChainWork,   \* the tree of blocks there can be
    Connectable,    \* the blocks that ConnectBlock does not refuse
    None            \* no block

ASSUME MinerTree ==
    /\ Genesis \in Block /\ None \notin Block
    /\ Prev \in [Block \ {Genesis} -> Block] /\ Anc \in [Block -> SUBSET Block]
    /\ Anc[Genesis] = {Genesis}
    /\ \A b \in Block \ {Genesis} : Anc[b] = {b} \cup Anc[Prev[b]] /\ b \notin Anc[Prev[b]]
    /\ \A b \in Block : b \in Anc[b] /\ Genesis \in Anc[b]
    /\ \A b \in Block : \A a \in Anc[b] : Anc[a] \subseteq Anc[b]
    /\ Connectable \subseteq Block /\ Genesis \in Connectable

ASSUME MinerOrder ==
    /\ Height \in [Block -> Nat] /\ ChainWork \in [Block -> Nat]
    /\ \A a, b \in Block : a \in Anc[b] /\ a # b => ChainWork[a] < ChainWork[b]

VARIABLES
    tip, known,     \* the tip of the active chain, and the blocks of the index
    failed,         \* those that ConnectBlock has refused
    pindexMostWork, \* the block ActivateBestChain moves, or has moved, the chain to
    starting_tip,   \* its tip when it took cs_main; None while cs_main is free
    fGenerateVerium,
    minerThreads,   \* the threads of the group
    interrupted,    \* threads with an interruption pending
    pc,             \* place of each thread
    pindexPrev,     \* the tip a thread has read
    pblock,         \* its block: what it builds on, and the height in its coinbase
    shutdown        \* "no", "requested", or "reset": g_connman is gone

threadVars == <<pc, pindexPrev, pblock>>
chainVars == <<tip, known, failed, pindexMostWork, starting_tip>>
processVars == <<fGenerateVerium, minerThreads, interrupted, shutdown>>
vars == <<threadVars, chainVars, processVars>>

NoWork == [prev |-> None, height |-> 0]

TypeOK ==
    /\ tip \in Block /\ known \subseteq Block /\ failed \subseteq Block
    /\ {pindexMostWork, starting_tip} \subseteq Block \cup {None}
    /\ fGenerateVerium \in BOOLEAN
    /\ minerThreads \subseteq Thread /\ interrupted \subseteq Thread
    /\ pc \in [Thread -> {"off", "start", "while", "wait", "tip", "create", "search",
                          "submit", "activate", "after", "exit", "ended"}]
    /\ pindexPrev \in [Thread -> Block \cup {None}]
    /\ pblock \in [Thread -> [prev : Block \cup {None}, height : Nat]]
    /\ shutdown \in {"no", "requested", "reset"}

Init ==
    /\ tip = Genesis /\ known = {Genesis} /\ failed = {}
    /\ pindexMostWork = None /\ starting_tip = None
    /\ fGenerateVerium = FALSE
    /\ minerThreads = {} /\ interrupted = {}
    /\ pc = [t \in Thread |-> "off"]
    /\ pindexPrev = [t \in Thread |-> None]
    /\ pblock = [t \in Thread |-> NoWork]
    /\ shutdown = "no"

Goto(t, place) == pc' = [pc EXCEPT ![t] = place]
Live(t) == pc[t] \notin {"off", "ended"}

-----------------------------------------------------------------------------
(* GenerateVerium, for minerstart, minerstop and the switch of the GUI.     *)

\* Mutant: threads are left to the flag.
MutantFlagOnly == interrupted
Interrupted == interrupted \cup {t \in minerThreads : Live(t)}

MinerStart(new) ==
    /\ shutdown = "no"
    /\ new # {} /\ \A t \in new : pc[t] = "off"
    /\ fGenerateVerium' = TRUE
    /\ interrupted' = Interrupted
    /\ minerThreads' = new
    /\ pc' = [t \in Thread |-> IF t \in new THEN "start" ELSE pc[t]]
    /\ UNCHANGED <<chainVars, pindexPrev, pblock, shutdown>>

MinerStop ==
    /\ shutdown = "no"
    /\ fGenerateVerium
    /\ fGenerateVerium' = FALSE
    /\ interrupted' = Interrupted
    /\ minerThreads' = {}
    /\ UNCHANGED <<chainVars, threadVars, shutdown>>

-----------------------------------------------------------------------------
(* A thread                                                                 *)

threadOnly == UNCHANGED <<chainVars, processVars>>

\* The block and pindexPrev are local to a turn of the outer loop.
Leave(t, place) ==
    /\ Goto(t, place)
    /\ pindexPrev' = [pindexPrev EXCEPT ![t] = None]
    /\ pblock' = [pblock EXCEPT ![t] = NoWork]

\* GetReservedDestination or scrypt_buffer_alloc may fail, and the thread returns.
MinerBegins(t) ==
    /\ pc[t] = "start"
    /\ Goto(t, "while") \/ Goto(t, "exit")
    /\ UNCHANGED <<pindexPrev, pblock>> /\ threadOnly

While(t) ==
    /\ pc[t] = "while"
    /\ Goto(t, IF fGenerateVerium THEN "wait" ELSE "exit")
    /\ UNCHANGED <<pindexPrev, pblock>> /\ threadOnly

\* The loop that waits for peers and for the chain to be in sync with them, which they
\* may be at any look; MilliSleep is an interruption point.
WaitEnds(t) ==
    /\ pc[t] = "wait" /\ shutdown # "reset"
    /\ Goto(t, "tip")
    /\ UNCHANGED <<pindexPrev, pblock>> /\ threadOnly

SleepInterrupted(t) ==
    /\ pc[t] = "wait" /\ shutdown # "reset"
    /\ t \in interrupted
    /\ Goto(t, "exit")
    /\ UNCHANGED <<pindexPrev, pblock>> /\ threadOnly

\* SetTip may be at work: nullptr read here ends in a crash, as in CheckWork.
ReadTip(t) ==
    /\ pc[t] = "tip"
    /\ pindexPrev' = [pindexPrev EXCEPT ![t] = tip]
    /\ Goto(t, "create")
    /\ UNCHANGED pblock /\ threadOnly

CsMainFree == starting_tip = None

\* CreateNewBlock reads the tip again, under cs_main, and IncrementExtraNonce writes
\* the height.
CreateNewBlock(t) ==
    /\ pc[t] = "create" /\ CsMainFree
    /\ pblock' = [pblock EXCEPT ![t] = [prev |-> tip, height |-> Height[pindexPrev[t]] + 1]]
    /\ Goto(t, "search")
    /\ UNCHANGED pindexPrev /\ threadOnly

\* TestBlockValidity fails, and the loop starts again.
CreateFails(t) ==
    /\ pc[t] = "create" /\ CsMainFree
    /\ Leave(t, "while")
    /\ threadOnly

\* A search ends with or without a solution.  CheckWork compares a solved block with
\* the tip, then hands it to ProcessNewBlock.
Search(t) ==
    /\ pc[t] = "search"
    /\ \/ Goto(t, "after")
       \/ pblock[t].prev = tip /\ Goto(t, "submit")
    /\ UNCHANGED <<pindexPrev, pblock>> /\ threadOnly

SearchStops(t) ==
    /\ pc[t] = "search" /\ ~fGenerateVerium
    /\ Leave(t, "while")
    /\ threadOnly

\* AcceptBlock, for a block that the index does not have.
AcceptBlock(b) ==
    /\ CsMainFree
    /\ b \notin known /\ Prev[b] \in known /\ Anc[Prev[b]] \cap failed = {}
    /\ known' = known \cup {b}
    /\ UNCHANGED <<tip, failed, pindexMostWork, starting_tip>>

\* ContextualCheckBlock refuses a coinbase with another height.
ProcessNewBlock(t) ==
    /\ pc[t] = "submit" /\ CsMainFree
    /\ \/ /\ \E b \in Connectable \ {Genesis} :
              /\ Prev[b] = pblock[t].prev /\ Height[b] = pblock[t].height
              /\ AcceptBlock(b)
          /\ Goto(t, "activate")
       \/ UNCHANGED chainVars /\ Goto(t, "after")      \* not accepted
    /\ UNCHANGED <<pindexPrev, pblock, processVars>>

\* The best block, of those on no refused block.  Of equals the settled tip is the one
\* that came first.
FindMostWorkChain(bad, settled) ==
    LET usable == {b \in known : Anc[b] \cap bad = {}}
        most == {b \in usable : \A c \in usable : ChainWork[c] <= ChainWork[b]}
    IN  IF settled \in most THEN {settled} ELSE most

\* A call of ActivateBestChain has released cs_main on its way.
Underway == pindexMostWork \notin {None, tip}

\* ActivateBestChain, which the thread has called, has nothing left to do, or ends for
\* a shutdown.
Activated(t) ==
    /\ pc[t] = "activate" /\ CsMainFree
    /\ shutdown # "no" \/ (~Underway /\ tip \in FindMostWorkChain(failed, tip))
    /\ Goto(t, "after")
    /\ UNCHANGED <<pindexPrev, pblock>> /\ threadOnly

\* Each of its rounds begins with an interruption point.
ActivateInterrupted(t) ==
    /\ pc[t] = "activate" /\ CsMainFree
    /\ t \in interrupted
    /\ Leave(t, "exit")
    /\ threadOnly

\* The checks after a search, in their order.
\* Mutant: the tip is not looked at.
MutantNoTipCheck(t) == TRUE
GoesOn(t) == pindexPrev[t] = tip

After(t) ==
    /\ pc[t] = "after"
    /\ IF t \in interrupted THEN Leave(t, "exit")
       ELSE IF ~fGenerateVerium THEN Leave(t, "while")
       ELSE IF shutdown # "no" THEN Leave(t, "exit")
       ELSE \/ Leave(t, "while")    \* no peers, the nonce or the mempool
            \/ /\ GoesOn(t)
               /\ Goto(t, "search")
               /\ UNCHANGED <<pindexPrev, pblock>>
    /\ threadOnly

\* The thread ends; ~ReserveDestination returns the key.
Exit(t) ==
    /\ pc[t] = "exit"
    /\ Goto(t, "ended")
    /\ interrupted' = interrupted \ {t}
    /\ UNCHANGED <<pindexPrev, pblock, chainVars, fGenerateVerium, minerThreads, shutdown>>

MinerStep(t) ==
    \/ MinerBegins(t) \/ While(t) \/ WaitEnds(t) \/ SleepInterrupted(t)
    \/ ReadTip(t) \/ CreateNewBlock(t) \/ CreateFails(t) \/ Search(t) \/ SearchStops(t)
    \/ ProcessNewBlock(t) \/ Activated(t) \/ ActivateInterrupted(t) \/ After(t)
    \/ Exit(t)

-----------------------------------------------------------------------------
(* The active chain moves: whoever is in ActivateBestChain takes cs_main     *)
(* and gives it back on a better tip, or on the one it had.                  *)

othersStay == UNCHANGED <<threadVars, fGenerateVerium, minerThreads, interrupted>>

ActivateBestChain ==
    /\ CsMainFree
    /\ pindexMostWork' \in IF Underway THEN {pindexMostWork}
                           ELSE FindMostWorkChain(failed, tip)
    /\ pindexMostWork' # tip
    /\ starting_tip' = tip
    /\ UNCHANGED <<tip, known, failed, shutdown>> /\ othersStay

DisconnectTip ==
    /\ ~CsMainFree /\ tip \notin Anc[pindexMostWork]
    /\ tip' = Prev[tip]
    /\ UNCHANGED <<known, failed, pindexMostWork, starting_tip, shutdown>> /\ othersStay

\* cs_main is released as soon as the tip is no worse than it was, or where it should be.
HeldAt(b) ==
    IF b \in {starting_tip, pindexMostWork} \/ ChainWork[b] > ChainWork[starting_tip]
    THEN None ELSE starting_tip

NextToConnect(b) ==
    ~CsMainFree /\ b \in Anc[pindexMostWork] \ {Genesis} /\ Prev[b] = tip

ConnectTip(b) ==
    /\ NextToConnect(b) /\ b \in Connectable
    /\ tip' = b
    /\ starting_tip' = HeldAt(b)
    /\ UNCHANGED <<known, failed, pindexMostWork, shutdown>> /\ othersStay

\* An invalid block: another chain is looked for.
ConnectFails(b) ==
    /\ NextToConnect(b) /\ b \notin Connectable
    /\ failed' = failed \cup {b}
    /\ starting_tip' = HeldAt(tip)
    /\ pindexMostWork' \in IF tip = starting_tip THEN {None}
                           ELSE FindMostWorkChain(failed', starting_tip)
    /\ UNCHANGED <<tip, known, shutdown>> /\ othersStay

\* AbortNode, when a block cannot be read or written: the tip stays where it is.
AbortNode ==
    /\ ~CsMainFree
    /\ shutdown' = IF shutdown = "no" THEN "requested" ELSE shutdown
    /\ starting_tip' = None /\ pindexMostWork' = None
    /\ UNCHANGED <<tip, known, failed>> /\ othersStay

MoveStep ==
    \/ ActivateBestChain \/ DisconnectTip
    \/ \E b \in Block : ConnectTip(b) \/ ConnectFails(b)
    \/ AbortNode

-----------------------------------------------------------------------------
(* The rest of the node                                                     *)

\* A block of another node.
BlockArrives ==
    /\ shutdown = "no"
    /\ \E b \in Block \ {Genesis} : AcceptBlock(b)
    /\ UNCHANGED <<threadVars, processVars>>

\* Nobody interrupts or joins the miner when the node shuts down.
RequestShutdown ==
    /\ shutdown = "no"
    /\ shutdown' = "requested"
    /\ UNCHANGED <<threadVars, chainVars, fGenerateVerium, minerThreads, interrupted>>

ResetPointers ==
    /\ shutdown = "requested"
    /\ shutdown' = "reset"
    /\ UNCHANGED <<threadVars, chainVars, fGenerateVerium, minerThreads, interrupted>>

\* The process starts again, after a crash or a shutdown, on the tip that was flushed
\* last; an older one has been the tip before.
Restart ==
    /\ fGenerateVerium' = FALSE
    /\ minerThreads' = {} /\ interrupted' = {}
    /\ pc' = [t \in Thread |-> "off"]
    /\ pindexPrev' = [t \in Thread |-> None]
    /\ pblock' = [t \in Thread |-> NoWork]
    /\ shutdown' = "no"
    /\ pindexMostWork' = None /\ starting_tip' = None
    /\ UNCHANGED <<tip, known, failed>>

Next ==
    \/ \E new \in SUBSET Thread : MinerStart(new)
    \/ MinerStop
    \/ \E t \in Thread : MinerStep(t)
    \/ MoveStep \/ BlockArrives
    \/ RequestShutdown \/ ResetPointers \/ Restart

Spec == Init /\ [][Next]_vars

\* A thread runs, but it may wait for ever for peers unless it is interrupted; whoever
\* has cs_main, or has called ActivateBestChain from here, moves the chain; CreateNewBlock
\* does not fail for ever, and Shutdown() ends.
FairSpec ==
    /\ Spec
    /\ \A t \in Thread : /\ WF_vars(MinerStep(t) /\ (pc[t] = "wait" => t \in interrupted))
                         /\ SF_vars(CreateNewBlock(t))
    /\ WF_vars(MoveStep /\ (CsMainFree => \E t \in Thread : pc[t] = "activate"))
    /\ WF_vars(ResetPointers) /\ WF_vars(shutdown = "reset" /\ Restart)

-----------------------------------------------------------------------------
\* A thread that passes the checks after a search while nobody holds cs_main goes on with
\* a block on the tip it read, with the right height in the coinbase, although it reads
\* the tip three times and each time perhaps in a reorganisation.  So a block on another
\* tip, which a tip that comes back in a reorganisation lets pass, is given up as soon as
\* cs_main is released.
RescansOwnTip ==
    [][\A t \in Thread :
          pc[t] = "after" /\ pc'[t] = "search" /\ CsMainFree =>
              /\ pblock[t].prev = pindexPrev[t]
              /\ pblock[t].height = Height[pblock[t].prev] + 1]_vars

\* Threads that are no longer in the group end, even when a new group has started and
\* fGenerateVerium is set again.
OldThreadsEnd == []<>(\A t \in Thread : Live(t) => t \in minerThreads)

\* "After the threads that potentially access these pointers have been stopped"
\* (init.cpp): when g_connman is reset no miner is about to ask it for peers.
PointersUnused == shutdown = "reset" => \A t \in Thread : pc[t] # "wait"
=============================================================================
