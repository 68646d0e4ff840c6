---------------------------- MODULE MinerProofs ----------------------------
(***************************************************************************)
(* Proofs about the miner and the pool it takes its keys from.  A miner that *)
(* goes on with a block while nobody holds cs_main works on the tip it read, *)
(* for any number of threads and any tree of blocks.  A thread reads the tip *)
(* three times, and a reorganisation shows it lower tips and tips that come  *)
(* back.  But cs_main is released on a tip with more work or on the one it   *)
(* was taken on, no tip that shows meanwhile has more, and CreateNewBlock    *)
(* looks only when it is free.  A key of the wallet has one owner and its    *)
(* record is in the database, for any number of holders and any size of the  *)
(* pool.                                                                    *)
(***************************************************************************)
EXTENDS Miner, KeyPool, FiniteSetTheorems, TLAPS

\* The tip that cs_main was released on last.
Settled == IF starting_tip = None THEN tip ELSE starting_tip

\* A node that settled on a may settle on b afterwards.
Later(a, b) == a = b \/ ChainWork[a] < ChainWork[b]

KnownChain(b) == b \in known /\ Anc[b] \subseteq Connectable

\* While cs_main is held the tip is no better than it was, and the goal is.
ChainInv ==
    /\ \A b \in known : Anc[b] \subseteq known
    /\ failed \cap Connectable = {}
    /\ KnownChain(tip)
    /\ starting_tip # None =>
           /\ KnownChain(starting_tip)
           /\ pindexMostWork \in known /\ Later(starting_tip, pindexMostWork)
           /\ ChainWork[tip] <= ChainWork[starting_tip]
    /\ starting_tip = None /\ pindexMostWork # None =>
           pindexMostWork \in known /\ Later(tip, pindexMostWork)

HasBlock == {"search", "submit", "activate", "after"}

HaveRead ==
    \A t \in Thread :
        /\ pc[t] \in {"create"} \cup HasBlock => pindexPrev[t] \in Block
        /\ pc[t] \in HasBlock =>
               /\ pblock[t].prev \in Block
               /\ pblock[t].height = Height[pindexPrev[t]] + 1

\* What a thread has read of the tip, even in a reorganisation, has no more work than
\* the block it builds on, and that was settled on before the settled tip.
ReadInOrder ==
    \A t \in Thread :
        /\ pc[t] = "create" => ChainWork[pindexPrev[t]] <= ChainWork[Settled]
        /\ pc[t] \in HasBlock =>
               /\ ChainWork[pindexPrev[t]] <= ChainWork[pblock[t].prev]
               /\ Later(pblock[t].prev, Settled)

IInv == TypeOK /\ ChainInv /\ HaveRead /\ (shutdown = "no" => ReadInOrder)

-----------------------------------------------------------------------------
(* The chain                                                                *)

\* The order in which a node settles on blocks, and what is no better.
LEMMA LaterIsOrder ==
    ASSUME NEW a \in Block, NEW b \in Block, NEW c \in Block
    PROVE  /\ Later(a, b) /\ Later(b, c) => Later(a, c)
           /\ ChainWork[a] <= ChainWork[b] /\ Later(b, c) => ChainWork[a] <= ChainWork[c]
  <1> ChainWork[a] \in Nat /\ ChainWork[b] \in Nat /\ ChainWork[c] \in Nat
    BY MinerOrder
  <1> QED
    BY DEF Later

\* FindMostWorkChain returns the settled tip or a better block.
LEMMA FindIsLater ==
    ASSUME known \subseteq Block, NEW bad, bad \cap Connectable = {},
           NEW s, KnownChain(s), NEW m \in FindMostWorkChain(bad, s)
    PROVE  m \in known /\ Later(s, m)
  <1> DEFINE usable == {b \in known : Anc[b] \cap bad = {}}
             most == {b \in usable : \A c \in usable : ChainWork[c] <= ChainWork[b]}
  <1>1. s \in usable /\ usable \subseteq known
    BY Zenon DEF KnownChain
  <1>2. m \in IF s \in most THEN {s} ELSE most
    BY Zenon DEF FindMostWorkChain
  <1>3. CASE s \in most
    BY <1>1, <1>2, <1>3, Zenon DEF Later
  <1>4. CASE s \notin most
    <2>1. m \in usable /\ \A c \in usable : ChainWork[c] <= ChainWork[m]
      BY <1>2, <1>4, Zenon
    <2>2. PICK c \in usable : ~ (ChainWork[c] <= ChainWork[s])
      BY <1>1, <1>4, Zenon
    <2>3. ChainWork[c] <= ChainWork[m]
      BY <2>1, Zenon
    <2>4. c \in Block /\ s \in Block /\ m \in Block
      BY <1>1, <2>1, <2>2, Zenon
    <2>5. ChainWork[c] \in Nat /\ ChainWork[s] \in Nat /\ ChainWork[m] \in Nat
      BY <2>4, MinerOrder, Zenon
    <2>6. ChainWork[s] < ChainWork[m]
      BY <2>2, <2>3, <2>5
    <2> QED
      BY <1>1, <2>1, <2>6, Zenon DEF Later
  <1> QED
    BY <1>3, <1>4, Zenon

\* What a step of the chain must not do to the threads.
ChainMoved ==
    /\ tip' \in Block /\ known' \subseteq Block /\ failed' \subseteq Block
    /\ {pindexMostWork', starting_tip'} \subseteq Block \cup {None}
    /\ ChainInv'
    /\ shutdown' = "no" => Later(Settled, Settled')

\* ActivateBestChain takes cs_main, for a better block.
LEMMA TakesMain ==
    ASSUME TypeOK, ChainInv, ActivateBestChain
    PROVE  ChainMoved
  <1> USE DEF TypeOK
  <1>1. tip \in Block /\ tip # None /\ starting_tip = None /\ KnownChain(tip)
    BY MinerTree, Zenon DEF ChainInv, ActivateBestChain, CsMainFree
  <1>2. pindexMostWork' \in known /\ Later(tip, pindexMostWork')
    <2>1. CASE Underway
      BY <1>1, <2>1, Zenon DEF ActivateBestChain, ChainInv, Underway
    <2>2. CASE ~Underway
      BY <1>1, <2>2, FindIsLater, Zenon DEF ActivateBestChain, ChainInv
    <2> QED
      BY <2>1, <2>2, Zenon
  <1>3. /\ tip' = tip /\ starting_tip' = tip /\ known' = known /\ failed' = failed
    BY Zenon DEF ActivateBestChain
  <1>4. ChainWork[tip] <= ChainWork[tip]
    BY <1>1, MinerOrder
  <1>5. ChainInv'
    BY <1>1, <1>2, <1>3, <1>4, Zenon DEF ChainInv, KnownChain, Later
  <1>6. Settled' = Settled
    BY <1>1, <1>3, Zenon DEF Settled
  <1> QED
    BY <1>1, <1>2, <1>3, <1>5, <1>6, Zenon DEF ChainMoved, Later

\* DisconnectTip shows a tip with less work.
LEMMA Disconnects ==
    ASSUME TypeOK, ChainInv, DisconnectTip
    PROVE  ChainMoved
  <1> USE DEF TypeOK
  <1>1. /\ starting_tip # None /\ tip \in Block /\ starting_tip \in Block
        /\ pindexMostWork \in Block
    BY Zenon DEF ChainInv, DisconnectTip, CsMainFree
  <1>2. tip # Genesis
    BY <1>1, MinerTree, Zenon DEF DisconnectTip
  <1>3. Prev[tip] \in Block /\ Anc[tip] = {tip} \cup Anc[Prev[tip]] /\ tip \notin Anc[Prev[tip]]
    BY <1>1, <1>2, MinerTree, Zenon
  <1>4. Prev[tip] \in Anc[tip] /\ Prev[tip] # tip /\ Anc[Prev[tip]] \subseteq Anc[tip]
    BY <1>1, <1>3, MinerTree, Zenon
  <1>5. KnownChain(Prev[tip])
    BY <1>4, Zenon DEF ChainInv, KnownChain
  <1>6. ChainWork[Prev[tip]] <= ChainWork[starting_tip]
    <2>1. ChainWork[Prev[tip]] < ChainWork[tip] /\ ChainWork[tip] <= ChainWork[starting_tip]
      BY <1>1, <1>3, <1>4, MinerOrder, Zenon DEF ChainInv
    <2>2. ChainWork[Prev[tip]] \in Nat /\ ChainWork[tip] \in Nat /\ ChainWork[starting_tip] \in Nat
      BY <1>1, <1>3, MinerOrder, Zenon
    <2> QED
      BY <2>1, <2>2
  <1>7. /\ tip' = Prev[tip] /\ starting_tip' = starting_tip /\ known' = known
        /\ failed' = failed /\ pindexMostWork' = pindexMostWork
    BY Zenon DEF DisconnectTip
  <1>8. ChainInv'
    BY <1>1, <1>5, <1>6, <1>7, Zenon DEF ChainInv, KnownChain, Later
  <1>9. Settled' = Settled
    BY <1>1, <1>7, Zenon DEF Settled
  <1> QED
    BY <1>1, <1>3, <1>7, <1>8, <1>9, Zenon DEF ChainMoved, Later

\* ConnectTip releases cs_main on a tip that the node may settle on.
LEMMA Connects ==
    ASSUME TypeOK, ChainInv, NEW b \in Block, ConnectTip(b)
    PROVE  ChainMoved
  <1> USE DEF TypeOK
  <1>1. /\ starting_tip # None /\ starting_tip \in Block /\ pindexMostWork \in Block
        /\ tip \in Block /\ b # None
    BY MinerTree, Zenon DEF ChainInv, ConnectTip, NextToConnect, CsMainFree
  <1>2. b \in Anc[pindexMostWork] /\ b # Genesis /\ Prev[b] = tip /\ b \in Connectable
    BY Zenon DEF ConnectTip, NextToConnect
  <1>3. Anc[b] = {b} \cup Anc[tip]
    BY <1>2, MinerTree, Zenon
  <1>4. KnownChain(b)
    BY <1>2, <1>3, <1>1, Zenon DEF ChainInv, KnownChain
  <1>5. Later(b, pindexMostWork)
    BY <1>1, <1>2, MinerOrder, Zenon DEF Later
  <1>6. /\ tip' = b /\ starting_tip' = HeldAt(b) /\ known' = known
        /\ failed' = failed /\ pindexMostWork' = pindexMostWork
    BY Zenon DEF ConnectTip
  <1>7. CASE b \in {starting_tip, pindexMostWork} \/ ChainWork[b] > ChainWork[starting_tip]
    <2>1. starting_tip' = None
      BY <1>6, <1>7, Zenon DEF HeldAt
    <2>2. Later(starting_tip, b)
      <3>1. CASE b \in {starting_tip, pindexMostWork}
        BY <1>1, <3>1, Zenon DEF ChainInv, Later
      <3>2. CASE ChainWork[b] > ChainWork[starting_tip]
        BY <3>2, <1>1, MinerOrder DEF Later
      <3> QED
        BY <1>7, <3>1, <3>2, Zenon
    <2>3. ChainInv'
      BY <1>1, <1>4, <1>5, <1>6, <2>1, Zenon DEF ChainInv, KnownChain, Later
    <2>4. Settled = starting_tip /\ Settled' = b
      BY <1>1, <1>6, <2>1, Zenon DEF Settled
    <2> QED
      BY <1>1, <1>6, <2>1, <2>2, <2>3, <2>4, Zenon DEF ChainMoved, Later
  <1>8. CASE ~ (b \in {starting_tip, pindexMostWork} \/ ChainWork[b] > ChainWork[starting_tip])
    <2>1. starting_tip' = starting_tip
      BY <1>6, <1>8, Zenon DEF HeldAt
    <2>2. ChainWork[b] <= ChainWork[starting_tip]
      BY <1>1, <1>8, MinerOrder
    <2>3. ChainInv'
      BY <1>1, <1>4, <1>6, <2>1, <2>2, Zenon DEF ChainInv, KnownChain, Later
    <2>4. Settled' = Settled
      BY <1>1, <1>6, <2>1, Zenon DEF Settled
    <2> QED
      BY <1>1, <1>6, <2>1, <2>3, <2>4, Zenon DEF ChainMoved, Later
  <1> QED
    BY <1>7, <1>8, Zenon

\* After an invalid block the node is back where it was, or looks for another chain.
LEMMA FailsToConnect ==
    ASSUME TypeOK, ChainInv, NEW b \in Block, ConnectFails(b)
    PROVE  ChainMoved
  <1> USE DEF TypeOK
  <1>1. /\ starting_tip # None /\ starting_tip \in Block /\ pindexMostWork \in Block
        /\ tip \in Block /\ tip # None
    BY MinerTree, Zenon DEF ChainInv, ConnectFails, NextToConnect, CsMainFree
  <1>2. b \in Anc[pindexMostWork] /\ b # Genesis /\ Prev[b] = tip /\ b \notin Connectable
    BY Zenon DEF ConnectFails, NextToConnect
  <1>3. /\ tip' = tip /\ known' = known /\ starting_tip' = HeldAt(tip)
        /\ failed' = failed \cup {b}
    BY Zenon DEF ConnectFails
  <1>4. failed' \cap Connectable = {} /\ failed' \subseteq Block
    BY <1>2, <1>3, Zenon DEF ChainInv
  <1>5. CASE tip = starting_tip
    <2>1. starting_tip' = None /\ pindexMostWork' = None
      BY <1>3, <1>5, Zenon DEF HeldAt, ConnectFails
    <2>2. ChainInv'
      BY <1>3, <1>4, <2>1, Zenon DEF ChainInv, KnownChain
    <2>3. Settled' = Settled
      BY <1>1, <1>3, <1>5, <2>1, Zenon DEF Settled
    <2> QED
      BY <1>1, <1>3, <1>4, <2>1, <2>2, <2>3, Zenon DEF ChainMoved, Later
  <1>6. CASE tip # starting_tip
    <2>1. tip # pindexMostWork
      BY <1>2, MinerTree, Zenon
    <2>2. ~ (ChainWork[tip] > ChainWork[starting_tip])
      <3>1. ChainWork[tip] <= ChainWork[starting_tip]
        BY <1>1, Zenon DEF ChainInv
      <3>2. ChainWork[tip] \in Nat /\ ChainWork[starting_tip] \in Nat
        BY <1>1, MinerOrder, Zenon
      <3> QED
        BY <3>1, <3>2
    <2>3. starting_tip' = starting_tip
      BY <1>3, <1>6, <2>1, <2>2, Zenon DEF HeldAt
    <2>4. pindexMostWork' \in FindMostWorkChain(failed', starting_tip)
      BY <1>6, Zenon DEF ConnectFails
    <2>5. pindexMostWork' \in known /\ Later(starting_tip, pindexMostWork')
      BY <1>1, <1>4, <2>4, FindIsLater, Zenon DEF ChainInv
    <2>6. ChainInv'
      BY <1>1, <1>3, <1>4, <2>3, <2>5, Zenon DEF ChainInv, KnownChain, Later
    <2>7. Settled' = Settled
      BY <1>1, <1>3, <2>3, Zenon DEF Settled
    <2> QED
      BY <1>1, <1>3, <1>4, <2>3, <2>5, <2>6, <2>7, Zenon DEF ChainMoved, Later
  <1> QED
    BY <1>5, <1>6, Zenon

\* AcceptBlock adds to the index and leaves the active chain alone.
LEMMA Accepts ==
    ASSUME TypeOK, ChainInv, NEW b \in Block \ {Genesis}, AcceptBlock(b)
    PROVE  ChainMoved
  <1> USE DEF TypeOK
  <1>1. /\ starting_tip = None /\ Prev[b] \in known /\ known' = known \cup {b}
        /\ UNCHANGED <<tip, failed, pindexMostWork, starting_tip>>
    BY Zenon DEF AcceptBlock, CsMainFree
  <1>2. Anc[b] = {b} \cup Anc[Prev[b]]
    BY MinerTree, Zenon
  <1>3. Anc[b] \subseteq known'
    BY <1>1, <1>2, Zenon DEF ChainInv
  <1>4. \A d \in known' : Anc[d] \subseteq known'
    BY <1>1, <1>3, Zenon DEF ChainInv
  <1>5. ChainInv'
    BY <1>1, <1>4, Zenon DEF ChainInv, KnownChain, Later
  <1>6. Settled' = Settled
    BY <1>1, Zenon DEF Settled
  <1> QED
    BY <1>1, <1>5, <1>6, Zenon DEF ChainMoved, Later

\* AbortNode releases cs_main on any tip, but asks for a shutdown.
LEMMA Aborts ==
    ASSUME TypeOK, ChainInv, AbortNode
    PROVE  ChainMoved
  <1>1. /\ starting_tip' = None /\ pindexMostWork' = None
        /\ UNCHANGED <<tip, known, failed>>
    BY Zenon DEF AbortNode
  <1>2. shutdown' # "no"
    BY DEF AbortNode, TypeOK
  <1>3. ChainInv'
    BY <1>1, Zenon DEF ChainInv, KnownChain
  <1> QED
    BY <1>1, <1>2, <1>3, Zenon DEF ChainMoved, TypeOK

-----------------------------------------------------------------------------
(* The threads                                                              *)

\* A step that leaves the readings alone keeps their order.
LEMMA OrderKept ==
    ASSUME IInv, TypeOK', ChainInv', UNCHANGED <<pindexPrev, pblock>>,
           shutdown' = "no" => shutdown = "no" /\ Later(Settled, Settled'),
           \A t \in Thread : /\ pc'[t] = "create" => pc[t] = "create"
                             /\ pc'[t] \in HasBlock => pc[t] \in HasBlock
    PROVE  IInv'
  <1> USE DEF IInv
  <1>1. HaveRead'
    BY Zenon DEF HaveRead
  <1>2. ASSUME shutdown' = "no" PROVE ReadInOrder'
    <2>1. Settled \in Block /\ Settled' \in Block
      BY DEF Settled, TypeOK
    <2>2. ASSUME NEW t \in Thread, pc'[t] = "create"
          PROVE  ChainWork[pindexPrev'[t]] <= ChainWork[Settled']
      <3>1. pindexPrev[t] \in Block /\ ChainWork[pindexPrev[t]] <= ChainWork[Settled]
        BY <1>2, <2>2, Zenon DEF HaveRead, ReadInOrder
      <3> QED
        BY <1>2, <2>1, <3>1, LaterIsOrder, Zenon
    <2>3. ASSUME NEW t \in Thread, pc'[t] \in HasBlock
          PROVE  /\ ChainWork[pindexPrev'[t]] <= ChainWork[pblock'[t].prev]
                 /\ Later(pblock'[t].prev, Settled')
      <3>1. pblock[t].prev \in Block /\ Later(pblock[t].prev, Settled)
        BY <1>2, <2>3, Zenon DEF HaveRead, ReadInOrder
      <3>2. Later(pblock[t].prev, Settled')
        BY <1>2, <2>1, <3>1, LaterIsOrder, Zenon
      <3> QED
        BY <1>2, <2>3, <3>2, Zenon DEF ReadInOrder, Later
    <2> QED
      BY <2>2, <2>3, Zenon DEF ReadInOrder, Later
  <1> QED
    BY <1>1, <1>2, Zenon

\* Before any thread is started none has read anything.
LEMMA InitIInv == Init => IInv
  <1> SUFFICES ASSUME Init PROVE IInv
    BY Zenon
  <1>1. TypeOK
    BY MinerTree, Zenon DEF Init, TypeOK, NoWork
  <1>2. ChainInv
    BY MinerTree, Zenon DEF Init, ChainInv, KnownChain
  <1>3. \A t \in Thread : pc[t] \notin {"create"} \cup HasBlock
    BY DEF Init, HasBlock
  <1> QED
    BY <1>1, <1>2, <1>3, Zenon DEF IInv, HaveRead, ReadInOrder

\* The commands of the user.
LEMMA CommandKeepsIInv ==
    ASSUME IInv, (\E new \in SUBSET Thread : MinerStart(new)) \/ MinerStop
    PROVE  IInv'
  <1> USE DEF IInv, Interrupted
  <1>1. UNCHANGED <<tip, known, failed, pindexMostWork, starting_tip, pindexPrev, pblock, shutdown>>
    BY Zenon DEF MinerStart, MinerStop, chainVars, threadVars
  <1>2. ChainInv' /\ Settled' = Settled
    BY <1>1, Zenon DEF ChainInv, KnownChain, Later, Settled
  <1>3. TypeOK'
    BY <1>1 DEF MinerStart, MinerStop, TypeOK, chainVars, threadVars
  <1>4. \A t \in Thread : /\ pc'[t] = "create" => pc[t] = "create"
                          /\ pc'[t] \in HasBlock => pc[t] \in HasBlock
    BY DEF MinerStart, MinerStop, threadVars, HasBlock, TypeOK
  <1> QED
    BY <1>1, <1>2, <1>3, <1>4, OrderKept, Zenon DEF Later

\* Steps of a thread leave the chain alone, but for ProcessNewBlock.
LEMMA ThreadOnlyKeepsChain ==
    ASSUME ChainInv, threadOnly
    PROVE  ChainInv' /\ Settled' = Settled /\ shutdown' = shutdown /\ tip' = tip
               /\ starting_tip' = starting_tip
  BY Zenon DEF threadOnly, chainVars, processVars, ChainInv, KnownChain, Later, Settled

\* A thread drops what it has read.
LEMMA LeaveKeepsIInv ==
    ASSUME IInv, NEW t \in Thread, NEW place \in {"while", "exit"},
           Leave(t, place), threadOnly
    PROVE  IInv'
  <1> USE DEF IInv, Leave, Goto
  <1>1. TypeOK'
    BY Zenon DEF TypeOK, NoWork, threadOnly, chainVars, processVars
  <1>2. \A u \in Thread : u # t =>
            pc'[u] = pc[u] /\ pindexPrev'[u] = pindexPrev[u] /\ pblock'[u] = pblock[u]
    BY Zenon DEF TypeOK
  <1>3. pc'[t] \notin {"create"} \cup HasBlock
    BY DEF TypeOK, HasBlock
  <1>4. ChainInv' /\ Settled' = Settled /\ shutdown' = shutdown
    BY ThreadOnlyKeepsChain, Zenon
  <1>5. HaveRead'
    BY <1>2, <1>3, Zenon DEF HaveRead
  <1>6. ASSUME shutdown' = "no" PROVE ReadInOrder'
    <2>1. ReadInOrder
      BY <1>4, <1>6, Zenon
    <2> QED
      BY <1>2, <1>3, <1>4, <2>1, Zenon DEF ReadInOrder, Later
  <1> QED
    BY <1>1, <1>4, <1>5, <1>6, Zenon

\* A thread moves on without a look at the chain.
LEMMA MoveKeepsIInv ==
    ASSUME IInv, NEW t \in Thread,
           MinerBegins(t) \/ While(t) \/ WaitEnds(t) \/ SleepInterrupted(t)
              \/ Search(t) \/ Activated(t) \/ Exit(t)
    PROVE  IInv'
  <1> USE DEF IInv, Goto, MinerBegins, While, WaitEnds, SleepInterrupted, Search, Activated, Exit
  <1>1. TypeOK'
    BY Zenon DEF TypeOK, threadOnly, chainVars, processVars
  <1>2. \A u \in Thread : /\ pc'[u] = "create" => pc[u] = "create"
                          /\ pc'[u] \in HasBlock => pc[u] \in HasBlock
    BY DEF TypeOK, HasBlock
  <1>3. ChainInv' /\ Settled' = Settled /\ shutdown' = shutdown
    BY Zenon DEF threadOnly, chainVars, processVars, ChainInv, KnownChain, Later, Settled
  <1>4. UNCHANGED <<pindexPrev, pblock>>
    BY Zenon
  <1> QED
    BY <1>1, <1>2, <1>3, <1>4, OrderKept, Zenon DEF Later

\* The first reading, by the thread itself: in a reorganisation too the tip has no more
\* work than the settled one.
LEMMA ReadTipKeepsIInv ==
    ASSUME IInv, NEW t \in Thread, ReadTip(t)
    PROVE  IInv'
  <1> USE DEF IInv, ReadTip, Goto
  <1>1. TypeOK'
    BY Zenon DEF TypeOK, threadOnly, chainVars, processVars
  <1>2. \A u \in Thread : u # t =>
            pc'[u] = pc[u] /\ pindexPrev'[u] = pindexPrev[u] /\ pblock'[u] = pblock[u]
    BY Zenon DEF TypeOK
  <1>3. pc'[t] = "create" /\ pindexPrev'[t] = tip /\ tip \in Block
    BY Zenon DEF TypeOK
  <1>4. ChainInv' /\ Settled' = Settled /\ shutdown' = shutdown
    BY ThreadOnlyKeepsChain, Zenon
  <1>5. ChainWork[tip] <= ChainWork[Settled]
    <2>1. CASE starting_tip = None
      BY <1>3, <2>1, MinerOrder DEF Settled
    <2>2. CASE starting_tip # None
      BY <2>2, Zenon DEF Settled, ChainInv
    <2> QED
      BY <2>1, <2>2, Zenon
  <1>6. pc'[t] \notin HasBlock
    BY <1>3 DEF HasBlock
  <1>7. HaveRead'
    BY <1>2, <1>3, <1>6, Zenon DEF HaveRead
  <1>8. ASSUME shutdown' = "no" PROVE ReadInOrder'
    <2>1. ReadInOrder
      BY <1>4, <1>8, Zenon
    <2> QED
      BY <1>2, <1>3, <1>4, <1>5, <1>6, <2>1, Zenon DEF ReadInOrder, Later
  <1> QED
    BY <1>1, <1>4, <1>7, <1>8, Zenon

\* The second reading, by CreateNewBlock, is of a settled tip.
LEMMA CreateKeepsIInv ==
    ASSUME IInv, NEW t \in Thread, CreateNewBlock(t)
    PROVE  IInv'
  <1> USE DEF IInv, CreateNewBlock, Goto
  <1>1. pindexPrev[t] \in Block /\ tip \in Block
    BY Zenon DEF HaveRead, TypeOK
  <1>2. [prev |-> tip, height |-> Height[pindexPrev[t]] + 1]
            \in [prev : Block \cup {None}, height : Nat]
    BY <1>1, MinerOrder
  <1>3. TypeOK'
    BY <1>2, Zenon DEF TypeOK, threadOnly, chainVars, processVars
  <1>4. \A u \in Thread : u # t => pc'[u] = pc[u] /\ pblock'[u] = pblock[u]
    BY Zenon DEF TypeOK
  <1>5. pc'[t] = "search" /\ pblock'[t] = [prev |-> tip, height |-> Height[pindexPrev[t]] + 1]
    BY Zenon DEF TypeOK
  <1>6. pblock'[t].prev = tip /\ pblock'[t].height = Height[pindexPrev[t]] + 1
    BY <1>5
  <1>7. ChainInv' /\ Settled' = Settled /\ shutdown' = shutdown
    BY ThreadOnlyKeepsChain, Zenon
  <1>8. HaveRead'
    BY <1>1, <1>4, <1>6, Zenon DEF HaveRead
  <1>9. ASSUME shutdown' = "no" PROVE ReadInOrder'
    <2>1. ReadInOrder /\ Settled = tip
      BY <1>7, <1>9, Zenon DEF Settled, CsMainFree
    <2>2. ChainWork[pindexPrev[t]] <= ChainWork[tip]
      BY <2>1, Zenon DEF ReadInOrder
    <2>3. pc'[t] # "create"
      BY <1>5
    <2> QED
      BY <1>4, <1>6, <1>7, <2>1, <2>2, <2>3, Zenon DEF ReadInOrder, Later
  <1> QED
    BY <1>3, <1>7, <1>8, <1>9, Zenon

\* The checks after a search, the third reading among them.
LEMMA AfterKeepsIInv ==
    ASSUME IInv, NEW t \in Thread, After(t)
    PROVE  IInv'
  <1>1. CASE Leave(t, "while") \/ Leave(t, "exit")
    BY <1>1, LeaveKeepsIInv DEF After
  <1>2. CASE Goto(t, "search") /\ UNCHANGED <<pindexPrev, pblock>>
    <2> USE <1>2 DEF IInv, Goto, After
    <2>1. TypeOK'
      BY Zenon DEF TypeOK, threadOnly, chainVars, processVars
    <2>2. \A u \in Thread : /\ pc'[u] = "create" => pc[u] = "create"
                            /\ pc'[u] \in HasBlock => pc[u] \in HasBlock
      BY DEF TypeOK, HasBlock
    <2>3. ChainInv' /\ Settled' = Settled /\ shutdown' = shutdown
      BY ThreadOnlyKeepsChain, Zenon
    <2> QED
      BY <2>1, <2>2, <2>3, OrderKept, Zenon DEF Later
  <1> QED
    BY <1>1, <1>2, Zenon DEF After

\* A solved block, a block of another node, and the moves of the chain.
LEMMA ChainStepKeepsIInv ==
    ASSUME IInv, (\E t \in Thread : ProcessNewBlock(t)) \/ BlockArrives \/ MoveStep
    PROVE  IInv'
  <1> USE DEF IInv
  <1>1. CASE \E t \in Thread : ProcessNewBlock(t)
    <2>1. PICK t \in Thread : ProcessNewBlock(t)
      BY <1>1, Zenon
    <2>2. ChainMoved /\ shutdown' = shutdown
      <3>1. CASE UNCHANGED chainVars
        BY <2>1, <3>1, Zenon DEF ProcessNewBlock, chainVars, processVars, ChainMoved, ChainInv,
           KnownChain, Later, Settled, TypeOK
      <3>2. CASE \E b \in Connectable \ {Genesis} : AcceptBlock(b)
        BY <2>1, <3>2, Accepts, MinerTree, Zenon DEF ProcessNewBlock, processVars
      <3> QED
        BY <2>1, <3>1, <3>2, Zenon DEF ProcessNewBlock
    <2>3. TypeOK'
      BY <2>1, <2>2, Zenon DEF ProcessNewBlock, TypeOK, Goto, processVars, ChainMoved
    <2>4. \A u \in Thread : /\ pc'[u] = "create" => pc[u] = "create"
                            /\ pc'[u] \in HasBlock => pc[u] \in HasBlock
      BY <2>1 DEF ProcessNewBlock, Goto, TypeOK, HasBlock
    <2> QED
      BY <2>1, <2>2, <2>3, <2>4, OrderKept, Zenon DEF ProcessNewBlock, ChainMoved
  <1>2. CASE BlockArrives \/ MoveStep
    <2>1. ChainMoved /\ (shutdown' = "no" => shutdown = "no")
      <3>1. CASE BlockArrives
        BY <3>1, Accepts, Zenon DEF BlockArrives, processVars
      <3>2. CASE MoveStep
        BY <3>2, TakesMain, Disconnects, Connects, FailsToConnect, Aborts, Zenon
           DEF MoveStep, ActivateBestChain, DisconnectTip, ConnectTip, ConnectFails, AbortNode
      <3> QED
        BY <1>2, <3>1, <3>2, Zenon
    <2>2. /\ UNCHANGED <<pc, pindexPrev, pblock, fGenerateVerium, minerThreads, interrupted>>
          /\ shutdown' \in {shutdown, "requested"}
      BY <1>2, Zenon DEF BlockArrives, MoveStep, ActivateBestChain, DisconnectTip, ConnectTip,
         ConnectFails, AbortNode, othersStay, threadVars, processVars
    <2>3. TypeOK'
      BY <2>1, <2>2, Zenon DEF TypeOK, ChainMoved
    <2> QED
      BY <2>1, <2>2, <2>3, OrderKept, Zenon DEF ChainMoved
  <1> QED
    BY <1>1, <1>2, Zenon

\* The shutdown, and a new process, whose threads have read nothing.
LEMMA ProcessKeepsIInv ==
    ASSUME IInv, RequestShutdown \/ ResetPointers \/ Restart
    PROVE  IInv'
  <1> USE DEF IInv
  <1>1. CASE RequestShutdown \/ ResetPointers
    <2>1. shutdown' \in {"requested", "reset"} /\ UNCHANGED <<chainVars, threadVars>>
      BY <1>1, Zenon DEF RequestShutdown, ResetPointers
    <2>2. TypeOK'
      BY <1>1, <2>1, Zenon DEF RequestShutdown, ResetPointers, TypeOK, chainVars, threadVars
    <2>3. ChainInv'
      BY <2>1, Zenon DEF chainVars, ChainInv, KnownChain, Later
    <2>4. shutdown' # "no"
      BY <2>1
    <2> QED
      BY <2>1, <2>2, <2>3, <2>4, OrderKept, Zenon DEF threadVars
  <1>2. CASE Restart
    <2>1. TypeOK'
      BY <1>2, Zenon DEF Restart, TypeOK, NoWork
    <2>2. ChainInv'
      BY <1>2, Zenon DEF Restart, ChainInv, KnownChain
    <2>3. \A t \in Thread : pc'[t] \notin {"create"} \cup HasBlock
      BY <1>2 DEF Restart, HasBlock
    <2> QED
      BY <2>1, <2>2, <2>3, Zenon DEF HaveRead, ReadInOrder
  <1> QED
    BY <1>1, <1>2, Zenon

\* Every step of a thread, a command or the chain keeps the invariant.
LEMMA StepIInv == IInv /\ [Next]_vars => IInv'
  <1> SUFFICES ASSUME IInv, [Next]_vars PROVE IInv'
    BY Zenon
  <1>1. CASE UNCHANGED vars
    BY <1>1 DEF IInv, TypeOK, ChainInv, KnownChain, HaveRead, ReadInOrder, Later, Settled, vars,
       threadVars, chainVars, processVars
  <1>2. ASSUME NEW t \in Thread, MinerStep(t)
        PROVE  IInv'
    <2>1. CASE CreateFails(t) \/ SearchStops(t) \/ ActivateInterrupted(t)
      BY <2>1, LeaveKeepsIInv DEF CreateFails, SearchStops, ActivateInterrupted
    <2> QED
      BY <1>2, <2>1, MoveKeepsIInv, ReadTipKeepsIInv, CreateKeepsIInv, AfterKeepsIInv,
         ChainStepKeepsIInv, Zenon DEF MinerStep
  <1> QED
    BY <1>1, <1>2, CommandKeepsIInv, ChainStepKeepsIInv, ProcessKeepsIInv, Zenon DEF Next

LEMMA AlwaysIInv == Spec => []IInv
  BY InitIInv, StepIInv, PTL DEF Spec

\* The third reading: outside a reorganisation, if the tip is what it was at the first,
\* it was so at the second.
LEMMA CheckIsSharp ==
    ASSUME IInv, [Next]_vars, NEW t \in Thread,
           pc[t] = "after", pc'[t] = "search", CsMainFree
    PROVE  pblock[t].prev = pindexPrev[t] /\ pblock[t].height = Height[pblock[t].prev] + 1
  <1> USE DEF IInv
  <1> pc'[t] # pc[t]
    OBVIOUS
  <1>1. After(t)
    <2>1. ASSUME NEW u \in Thread, MinerStep(u)
          PROVE  After(t)
      <3>1. \E place : Goto(u, place)
        BY <2>1, Zenon DEF MinerStep, MinerBegins, While, WaitEnds, SleepInterrupted, ReadTip,
           CreateNewBlock, CreateFails, Search, SearchStops, ProcessNewBlock, Activated,
           ActivateInterrupted, After, Exit, Leave
      <3>2. u = t
        BY <3>1, Zenon DEF Goto, TypeOK
      <3>3. MinerStep(t)
        BY <2>1, <3>2, Zenon
      <3> QED
        BY <3>3 DEF MinerStep, MinerBegins, While, WaitEnds, SleepInterrupted, ReadTip,
           CreateNewBlock, CreateFails, Search, SearchStops, ProcessNewBlock, Activated,
           ActivateInterrupted, Exit
    <2>2. ASSUME NEW new \in SUBSET Thread, MinerStart(new)
          PROVE  FALSE
      BY <2>2 DEF MinerStart
    <2>3. CASE UNCHANGED vars \/ MinerStop \/ MoveStep \/ BlockArrives \/ RequestShutdown
               \/ ResetPointers
      <3>1. pc' = pc
        BY <2>3, Zenon DEF vars, MinerStop, BlockArrives, RequestShutdown, ResetPointers, MoveStep,
           ActivateBestChain, DisconnectTip, ConnectTip, ConnectFails, AbortNode, othersStay,
           threadVars
      <3> QED
        BY <3>1, Zenon
    <2>4. CASE Restart
      BY <2>4 DEF Restart
    <2> QED
      BY <2>1, <2>2, <2>3, <2>4, Zenon DEF Next
  <1>2. shutdown = "no" /\ pindexPrev[t] = tip
    BY <1>1 DEF After, GoesOn, Leave, Goto, TypeOK
  <1>3. pindexPrev[t] \in Block /\ pblock[t].prev \in Block
        /\ pblock[t].height = Height[pindexPrev[t]] + 1
    BY DEF HaveRead, HasBlock
  <1>4. /\ ChainWork[pindexPrev[t]] <= ChainWork[pblock[t].prev]
        /\ Later(pblock[t].prev, tip)
    BY <1>2 DEF ReadInOrder, Settled, CsMainFree, HasBlock
  <1>5. pblock[t].prev = pindexPrev[t]
    BY <1>2, <1>3, <1>4, MinerOrder DEF Later
  <1> QED
    BY <1>3, <1>5

-----------------------------------------------------------------------------
\* The variables of the miner keep their types.
THEOREM MinerTypes == Spec => []TypeOK
  BY AlwaysIInv, PTL DEF IInv

\* Miner reads the tip, CreateNewBlock reads it again, and the loop compares the first
\* reading with the tip, while reorganisations show tips that are not to stay: a thread
\* that goes on when nobody holds cs_main builds on the tip it read, at the height it wrote.
THEOREM RescansOnOwnTip == Spec => RescansOwnTip
  <1>1. IInv /\ [Next]_vars =>
            [\A t \in Thread :
                pc[t] = "after" /\ pc'[t] = "search" /\ CsMainFree =>
                    /\ pblock[t].prev = pindexPrev[t]
                    /\ pblock[t].height = Height[pblock[t].prev] + 1]_vars
    BY CheckIsSharp, Zenon
  <1> QED
    BY <1>1, AlwaysIInv, PTL DEF Spec, RescansOwnTip

\* Until a shutdown is asked for, a template builds on a tip the node had settled on,
\* with at least the work of the tip that the thread had read, be it one that DisconnectTip
\* or ConnectTip showed in passing, and the node has settled on no worse tip since.
THEOREM ReadsAreOrdered == Spec => [](shutdown = "no" => ReadInOrder)
  BY AlwaysIInv, PTL DEF IInv

-----------------------------------------------------------------------------
(* The pool of keys                                                         *)

PoolOf(p) == p.internal \cup p.external \cup p.presplit

\* Pools whose records are in the database: held keys have one too, keys that were
\* given away have none, and no index is larger than the last one.
Sound(p, held, gone) ==
    /\ p = [internal |-> p.internal, external |-> p.external, presplit |-> p.presplit,
            found |-> p.found, disk |-> p.disk, max |-> p.max]
    /\ p.max \in Nat
    /\ p.disk \in [DOMAIN p.disk -> Kind]
    /\ DOMAIN p.disk = PoolOf(p) \cup held
    /\ DOMAIN p.disk \subseteq 1..p.max /\ gone \subseteq 1..p.max
    /\ held \cap PoolOf(p) = {} /\ gone \cap DOMAIN p.disk = {}
    /\ \A k \in p.internal : p.disk[k] = "internal"
    /\ \A k \in p.external \cup p.presplit : p.disk[k] # "internal"
    /\ p.found = PoolOf(p)

OneHolder ==
    \A h, i \in Holder : reserved[h] = reserved[i] /\ reserved[h] # NoKey => h = i

\* A wallet that was split from the start has no pre-split key, and no key that was
\* seen is in use or was given away.
SplitFromStart ==
    ~upgraded =>
        /\ set_pre_split_keypool = {}
        /\ \A k \in DOMAIN disk : disk[k] # "presplit"
        /\ seen \cap (DOMAIN disk \cup kept) = {}

KInv ==
    /\ Sound(Now, Reserved, kept)
    /\ m_max_keypool_index <= MaxIndex
    /\ reserved \in [Holder -> Key \cup {NoKey}]
    /\ locked \in BOOLEAN /\ upgraded \in BOOLEAN
    /\ seen \subseteq 1..m_max_keypool_index
    /\ OneHolder
    /\ SplitFromStart

-----------------------------------------------------------------------------
(* Lemmas about the operators                                               *)

\* A set of natural numbers that is not empty has a smallest member.
LEMMA SmallestInSet ==
    ASSUME NEW S \in SUBSET Nat, S # {}
    PROVE  \E n \in S : \A m \in S : n <= m
  <1> DEFINE I == {0..n : n \in S}
  <1>1. I \subseteq FiniteSubsetsOf(Nat) /\ I # {}
    <2>1. \A n \in S : IsFiniteSet(0..n)
      BY FS_Interval
    <2>2. \A n \in S : 0..n \in SUBSET Nat
      OBVIOUS
    <2>3. \A n \in S : 0..n \in FiniteSubsetsOf(Nat)
      BY <2>1, <2>2, Zenon DEF FiniteSubsetsOf
    <2> QED
      BY <2>3, Zenon
  <1> HIDE DEF I
  <1>2. PICK x \in I : \A y \in I : ~ (<<y, x>> \in StrictSubsetOrdering(Nat))
    BY <1>1, WFMin, FS_StrictSubsetOrderingWellFounded, Zenon
  <1>3. PICK n \in S : x = 0..n
    BY Zenon DEF I
  <1>4. ASSUME NEW m \in S, m < n
        PROVE  FALSE
    <2>1. 0..m \in I
      BY Zenon DEF I
    <2>2. 0..m \subseteq x /\ x # 0..m
      <3>1. n \in 0..n /\ n \notin 0..m
        BY <1>4
      <3>2. 0..m \subseteq 0..n
        BY <1>4
      <3> QED
        BY <3>1, <3>2, <1>3, Zenon
    <2>3. <<0..m, x>> \in StrictSubsetOrdering(Nat)
      BY <2>2, <1>3 DEF StrictSubsetOrdering
    <2> QED
      BY <1>2, <2>1, <2>3, Zenon
  <1> QED
    BY <1>4

\* The oldest key of a pool is one of its keys.
LEMMA OldestIsInPool ==
    ASSUME NEW S \in SUBSET Nat, S # {}
    PROVE  Min(S) \in S
  BY SmallestInSet, Zenon DEF Min

\* A bounded set of natural numbers that is not empty has a largest member.
LEMMA LargestInSet ==
    ASSUME NEW n \in Nat, NEW S \in SUBSET (0..n), S # {}
    PROVE  Max(S) \in S /\ \A m \in S : m <= Max(S)
  <1> DEFINE T == {n - m : m \in S}
  <1>1. T \in SUBSET Nat /\ T # {}
    <2>1. \A m \in S : n - m \in Nat
      OBVIOUS
    <2> QED
      BY <2>1, Zenon
  <1>2. PICK t \in T : \A u \in T : t <= u
    BY <1>1, SmallestInSet, Zenon
  <1>3. PICK m \in S : t = n - m
    BY <1>2, Zenon
  <1>4. \A k \in S : m >= k
    BY <1>2, <1>3
  <1>5. \E x \in S : \A y \in S : x >= y
    BY <1>4
  <1> QED
    BY <1>5, Zenon DEF Max

\* TopUpKeyPool never wants less than no key.
LEMMA MissingIsNat ==
    ASSUME NEW pool, IsFiniteSet(pool)
    PROVE  Missing(pool) \in Nat
  <1> DEFINE size == Max({KeypoolSize, 1})
  <1>1. size \in Nat
    <2>1. \E x \in {KeypoolSize, 1} : \A y \in {KeypoolSize, 1} : x >= y
      BY KeyConstants
    <2> QED
      BY <2>1, KeyConstants DEF Max
  <1> HIDE DEF size
  <1>2. Cardinality(pool) \in Nat
    BY FS_CardinalityType, Zenon
  <1>3. Min({Cardinality(pool), size}) \in Nat /\ Min({Cardinality(pool), size}) <= size
    <2>1. \E x \in {Cardinality(pool), size} : \A y \in {Cardinality(pool), size} : x <= y
      BY <1>1, <1>2
    <2> QED
      BY <2>1, <1>1, <1>2, Zenon DEF Min
  <1>4. Missing(pool) = size - Min({Cardinality(pool), size})
    BY Zenon DEF Missing, size
  <1> QED
    BY <1>1, <1>3, <1>4

-----------------------------------------------------------------------------
(* What an operation makes of sound pools                                   *)

\* The sets of sound pools are finite, so that they have an oldest key.
LEMMA FinitePools ==
    ASSUME NEW p, NEW held, NEW gone, Sound(p, held, gone)
    PROVE  IsFiniteSet(p.internal) /\ IsFiniteSet(p.external)
  <1>1. IsFiniteSet(1..p.max)
    <2>1. 1 \in Int /\ p.max \in Int
      BY DEF Sound
    <2> QED
      BY <2>1, FS_Interval
  <1>2. p.internal \subseteq 1..p.max /\ p.external \subseteq 1..p.max
    BY Zenon DEF Sound, PoolOf
  <1> QED
    BY <1>1, <1>2, FS_Subset, Zenon

\* Topping up adds keys with new indexes, each with its record.
LEMMA ToppedUpSound ==
    ASSUME NEW p, NEW held, NEW gone, Sound(p, held, gone)
    PROVE  /\ Sound(ToppedUp(p), held, gone)
           /\ ToppedUp(p).max >= p.max
           /\ ToppedUp(p).presplit = p.presplit
           /\ DOMAIN ToppedUp(p).disk \subseteq DOMAIN p.disk \cup ((p.max + 1)..ToppedUp(p).max)
           /\ \A k \in DOMAIN ToppedUp(p).disk :
                  ToppedUp(p).disk[k] = "presplit" => k \in DOMAIN p.disk /\ p.disk[k] = "presplit"
  <1> DEFINE ext == IF locked THEN 0 ELSE Missing(p.external)
             int == IF locked THEN 0 ELSE Missing(p.internal)
             newExt == (p.max + 1) .. (p.max + ext)
             newInt == (p.max + ext + 1) .. (p.max + ext + int)
             d == [k \in DOMAIN p.disk \cup newExt \cup newInt |->
                      IF k \in newExt THEN "external"
                      ELSE IF k \in newInt THEN "internal" ELSE p.disk[k]]
             t == [internal |-> p.internal \cup newInt, external |-> p.external \cup newExt,
                   presplit |-> p.presplit, found |-> p.found \cup newExt \cup newInt,
                   disk |-> d, max |-> p.max + ext + int]
  <1>1. ToppedUp(p) = t
    BY Zenon DEF ToppedUp
  <1>2. ext \in Nat /\ int \in Nat /\ p.max \in Nat
    BY FinitePools, MissingIsNat, Zenon DEF Sound
  <1> HIDE DEF ext, int
  <1>3. /\ newExt \cap newInt = {}
        /\ (newExt \cup newInt) \cap (1..p.max) = {}
        /\ newExt \cup newInt \subseteq (p.max + 1)..(p.max + ext + int)
        /\ 1..p.max \subseteq 1..(p.max + ext + int)
        /\ (p.max + 1)..(p.max + ext + int) \subseteq 1..(p.max + ext + int)
    BY <1>2
  <1>4. p.max + ext + int \in Nat /\ p.max + ext + int >= p.max
    BY <1>2
  <1> HIDE DEF newExt, newInt
  <1>5. /\ DOMAIN d = DOMAIN p.disk \cup newExt \cup newInt
        /\ d \in [DOMAIN d -> Kind]
        /\ \A k \in DOMAIN p.disk : d[k] = p.disk[k]
        /\ \A k \in newExt : d[k] = "external"
        /\ \A k \in newInt : d[k] = "internal"
    BY <1>3 DEF Sound, Kind
  <1> HIDE DEF d
  <1>6. PoolOf(t) = PoolOf(p) \cup newExt \cup newInt
    BY DEF PoolOf
  <1>7. DOMAIN d = PoolOf(t) \cup held /\ DOMAIN d \subseteq 1..t.max
    BY <1>3, <1>5, <1>6, Zenon DEF Sound
  <1>8. held \cap PoolOf(t) = {} /\ gone \cap DOMAIN d = {} /\ gone \subseteq 1..t.max
    BY <1>3, <1>5, <1>6, Zenon DEF Sound
  <1>9. /\ \A k \in t.internal : d[k] = "internal"
        /\ \A k \in t.external \cup t.presplit : d[k] # "internal"
    BY <1>5 DEF Sound, PoolOf
  <1>10. Sound(t, held, gone)
    BY <1>4, <1>5, <1>6, <1>7, <1>8, <1>9, Zenon DEF Sound
  <1>11. \A k \in DOMAIN d : d[k] = "presplit" => k \in DOMAIN p.disk /\ p.disk[k] = "presplit"
    BY <1>5
  <1> QED
    BY <1>1, <1>3, <1>4, <1>5, <1>10, <1>11

\* A key that leaves the pool is held ...
LEMMA TakenSound ==
    ASSUME NEW p, NEW held, NEW gone, Sound(p, held, gone), NEW k \in PoolOf(p)
    PROVE  Sound(Taken(p, k), held \cup {k}, gone) /\ k \notin held
  <1> DEFINE t == [internal |-> p.internal \ {k}, external |-> p.external \ {k},
                   presplit |-> p.presplit \ {k}, found |-> p.found \ {k},
                   disk |-> p.disk, max |-> p.max]
  <1>1. Taken(p, k) = t
    BY Zenon DEF Taken
  <1>2. PoolOf(t) = PoolOf(p) \ {k}
    BY Zenon DEF PoolOf
  <1> QED
    BY <1>1, <1>2 DEF Sound, PoolOf

\* ... and a held key whose record is erased was given away.
LEMMA ErasedSound ==
    ASSUME NEW p, NEW held, NEW gone, Sound(p, held, gone), NEW k \in held
    PROVE  Sound([p EXCEPT !.disk = Without(@, {k})], held \ {k}, gone \cup {k})
  <1> DEFINE d == Without(p.disk, {k})
             t == [internal |-> p.internal, external |-> p.external,
                   presplit |-> p.presplit, found |-> p.found, disk |-> d, max |-> p.max]
  <1>1. [p EXCEPT !.disk = Without(@, {k})] = t
    <2>1. PICK a, b, c, f, e, m :
              p = [internal |-> a, external |-> b, presplit |-> c,
                   found |-> f, disk |-> e, max |-> m]
      BY Zenon DEF Sound
    <2> QED
      BY <2>1
  <1>2. /\ DOMAIN d = DOMAIN p.disk \ {k}
        /\ \A i \in DOMAIN d : d[i] = p.disk[i]
        /\ d \in [DOMAIN d -> Kind]
    BY Zenon DEF Without, Sound
  <1>3. PoolOf(t) = PoolOf(p)
    BY Zenon DEF PoolOf
  <1>4. Sound(t, held \ {k}, gone \cup {k})
    <2> HIDE DEF d
    <2>1. k \in 1..p.max /\ k \notin PoolOf(p) /\ k \in DOMAIN p.disk
      BY Zenon DEF Sound
    <2> QED
      BY <1>2, <1>3, <2>1 DEF Sound, PoolOf
  <1> QED
    BY <1>1, <1>4, Zenon

\* What MarkReserveKeysAsUsed and NewKeyPool do: keys of the pool go with their records.
LEMMA DroppedSound ==
    ASSUME NEW p, NEW held, NEW gone, Sound(p, held, gone), NEW used \in SUBSET PoolOf(p)
    PROVE  Sound([internal |-> p.internal \ used, external |-> p.external \ used,
                  presplit |-> p.presplit \ used, found |-> p.found \ used,
                  disk |-> Without(p.disk, used), max |-> p.max], held, gone)
  <1> DEFINE d == Without(p.disk, used)
             t == [internal |-> p.internal \ used, external |-> p.external \ used,
                   presplit |-> p.presplit \ used, found |-> p.found \ used,
                   disk |-> d, max |-> p.max]
  <1>1. /\ DOMAIN d = DOMAIN p.disk \ used
        /\ \A i \in DOMAIN d : d[i] = p.disk[i]
        /\ d \in [DOMAIN d -> Kind]
    BY DEF Without, Sound
  <1>2. PoolOf(t) = PoolOf(p) \ used
    BY Zenon DEF PoolOf
  <1>3. Sound(t, held, gone)
    <2> HIDE DEF d
    <2> QED
      BY <1>1, <1>2 DEF Sound, PoolOf
  <1> QED
    BY <1>3, Zenon

\* A step that becomes sound pools leaves a sound state.
LEMMA BecomeSound ==
    ASSUME NEW p, NEW held, NEW gone, Sound(p, held, gone), Become(p)
    PROVE  Now' = p /\ m_max_keypool_index' <= MaxIndex
  <1>1. Now' = [internal |-> p.internal, external |-> p.external, presplit |-> p.presplit,
                found |-> p.found, disk |-> p.disk, max |-> p.max]
    BY Zenon DEF Now, Become
  <1> QED
    BY <1>1, Zenon DEF Sound, Become

-----------------------------------------------------------------------------
\* A new wallet, and one that is loaded, satisfy the invariant.
LEMMA InitKInv == KeyInit => KInv
  <1> SUFFICES ASSUME KeyInit PROVE KInv
    OBVIOUS
  <1> USE DEF KeyInit
  <1>1. Reserved = {}
    BY Zenon DEF Reserved
  <1>2. set_pre_split_keypool \subseteq 1..MaxIndex /\ MaxIndex \in Nat
    BY KeyConstants
  <1>3. /\ m_max_keypool_index \in 0..MaxIndex
        /\ \A k \in set_pre_split_keypool : k <= m_max_keypool_index
    <2>1. {0} \cup set_pre_split_keypool \in SUBSET (0..MaxIndex)
      BY <1>2
    <2> QED
      BY <1>2, <2>1, LargestInSet, Zenon
  <1>4. set_pre_split_keypool \subseteq 1..m_max_keypool_index
    BY <1>2, <1>3
  <1>5. PoolOf(Now) = set_pre_split_keypool
    BY Zenon DEF PoolOf, Now
  <1>6. Sound(Now, {}, {})
    <2>1. /\ DOMAIN disk = set_pre_split_keypool
          /\ disk \in [DOMAIN disk -> Kind]
          /\ \A k \in DOMAIN disk : disk[k] = "presplit"
      BY Zenon DEF Kind
    <2>2. /\ Now.internal = {} /\ Now.external = {} /\ Now.disk = disk
          /\ Now.presplit = set_pre_split_keypool /\ Now.found = set_pre_split_keypool
          /\ Now.max = m_max_keypool_index
      BY DEF Now
    <2>3. Now = [internal |-> Now.internal, external |-> Now.external,
                 presplit |-> Now.presplit, found |-> Now.found, disk |-> Now.disk,
                 max |-> Now.max]
      BY DEF Now
    <2> QED
      BY <1>2, <1>3, <1>4, <1>5, <2>1, <2>2, <2>3 DEF Sound
  <1>7. reserved \in [Holder -> Key \cup {NoKey}]
    BY Zenon
  <1>8. OneHolder
    BY DEF OneHolder
  <1>9. SplitFromStart
    BY DEF SplitFromStart
  <1>10. locked \in BOOLEAN /\ upgraded \in BOOLEAN /\ seen = {} /\ kept = {}
    BY Zenon
  <1>11. m_max_keypool_index <= MaxIndex
    BY <1>2, <1>3
  <1>12. Sound(Now, Reserved, kept) /\ seen \subseteq 1..m_max_keypool_index
    BY <1>1, <1>6, <1>10, Zenon
  <1> QED
    BY <1>7, <1>8, <1>9, <1>10, <1>11, <1>12, Zenon DEF KInv

-----------------------------------------------------------------------------
\* A holder gets a key nobody has ...
LEMMA HolderTakes ==
    ASSUME KInv, NEW h \in Holder, reserved[h] = NoKey, NEW k \in Key, k \notin Reserved,
           reserved' = [reserved EXCEPT ![h] = k]
    PROVE  /\ reserved' \in [Holder -> Key \cup {NoKey}] /\ OneHolder'
           /\ Reserved' = Reserved \cup {k}
  <1>1. reserved \in [Holder -> Key \cup {NoKey}] /\ OneHolder
    BY DEF KInv
  <1>2. k # NoKey
    BY KeyConstants DEF Key
  <1>3. reserved'[h] = k /\ \A i \in Holder : i # h => reserved'[i] = reserved[i]
    BY <1>1
  <1>4. \A i \in Holder : reserved[i] # k
    BY <1>2 DEF Reserved
  <1>5. OneHolder'
    BY <1>1, <1>3, <1>4 DEF OneHolder
  <1>6. Reserved' = Reserved \cup {k}
    BY <1>2, <1>3 DEF Reserved
  <1> QED
    BY <1>1, <1>5, <1>6

\* ... and lets go of it.
LEMMA HolderReleases ==
    ASSUME KInv, NEW h \in Holder, reserved[h] # NoKey,
           reserved' = [reserved EXCEPT ![h] = NoKey]
    PROVE  /\ reserved' \in [Holder -> Key \cup {NoKey}] /\ OneHolder'
           /\ reserved[h] \in Reserved /\ Reserved' = Reserved \ {reserved[h]}
  <1>1. reserved \in [Holder -> Key \cup {NoKey}] /\ OneHolder
    BY Zenon DEF KInv
  <1>2. reserved'[h] = NoKey /\ \A i \in Holder : i # h => reserved'[i] = reserved[i]
    BY <1>1
  <1>3. \A i \in Holder : i # h => reserved[i] # reserved[h]
    BY <1>1 DEF OneHolder
  <1>4. OneHolder'
    BY <1>1, <1>2, Zenon DEF OneHolder
  <1>5. Reserved' = Reserved \ {reserved[h]}
    BY <1>2, <1>3 DEF Reserved
  <1> QED
    BY <1>1, <1>4, <1>5 DEF Reserved

\* Pools of a wallet that was split from the start.
Clean(p, s) ==
    /\ p.presplit = {}
    /\ \A k \in DOMAIN p.disk : p.disk[k] # "presplit"
    /\ s \cap DOMAIN p.disk = {}

\* A step that becomes sound pools.
LEMMA StepKInv ==
    ASSUME KInv, NEW p, Become(p), Sound(p, Reserved', kept'),
           reserved' \in [Holder -> Key \cup {NoKey}], OneHolder',
           locked' \in BOOLEAN, UNCHANGED upgraded,
           seen' \subseteq 1..p.max,
           ~upgraded => Clean(p, seen') /\ seen' \cap kept' = {}
    PROVE  KInv'
  <1>1. Now' = p /\ m_max_keypool_index' <= MaxIndex
    BY BecomeSound
  <1>2. m_max_keypool_index' = p.max /\ disk' = p.disk /\ set_pre_split_keypool' = p.presplit
    BY DEF Become
  <1>3. SplitFromStart'
    BY <1>2 DEF SplitFromStart, Clean
  <1>4. upgraded' \in BOOLEAN
    BY Zenon DEF KInv
  <1> QED
    BY <1>1, <1>2, <1>3, <1>4, Zenon DEF KInv

\* Topping up brings no key that was seen.
LEMMA ToppedUpClean ==
    ASSUME NEW p, NEW held, NEW gone, Sound(p, held, gone), NEW s \in SUBSET (1..p.max)
    PROVE  /\ s \subseteq 1..ToppedUp(p).max
           /\ Clean(p, s) => Clean(ToppedUp(p), s)
  <1> DEFINE t == ToppedUp(p)
  <1>1. /\ Sound(t, held, gone)
        /\ t.max >= p.max
        /\ t.presplit = p.presplit
        /\ DOMAIN t.disk \subseteq DOMAIN p.disk \cup ((p.max + 1)..t.max)
        /\ \A k \in DOMAIN t.disk :
               t.disk[k] = "presplit" => k \in DOMAIN p.disk /\ p.disk[k] = "presplit"
    BY ToppedUpSound, Zenon
  <1> HIDE DEF t
  <1>2. t.max \in Nat /\ p.max \in Nat
    BY <1>1 DEF Sound
  <1>3. s \subseteq 1..t.max /\ s \cap ((p.max + 1)..t.max) = {}
    BY <1>1, <1>2
  <1>4. Clean(p, s) => Clean(t, s)
    BY <1>1, <1>3 DEF Clean
  <1> QED
    BY <1>3, <1>4 DEF t

\* What the invariant says of the pools as they are.
LEMMA CleanNow ==
    ASSUME KInv
    PROVE  /\ Sound(Now, Reserved, kept) /\ seen \in SUBSET (1..Now.max)
           /\ ~upgraded => Clean(Now, seen) /\ seen \cap kept = {}
  BY DEF KInv, SplitFromStart, Clean, Now

\* The operations of the wallet keep the invariant, one by one.
LEMMA TopUpKeepsKInv ==
    ASSUME KInv, TopUpKeyPool
    PROVE  KInv'
  <1> DEFINE t == ToppedUp(Now)
  <1>1. Become(t) /\ UNCHANGED <<reserved, locked, kept, seen, upgraded>>
    BY DEF TopUpKeyPool
  <1>2. Sound(t, Reserved, kept) /\ seen \subseteq 1..t.max
    BY CleanNow, ToppedUpSound, ToppedUpClean, Zenon
  <1>3. ~upgraded => Clean(t, seen) /\ seen \cap kept = {}
    BY CleanNow, ToppedUpClean
  <1> HIDE DEF t
  <1>4. Reserved' = Reserved /\ OneHolder' /\ reserved' \in [Holder -> Key \cup {NoKey}]
    BY <1>1 DEF KInv, Reserved, OneHolder
  <1>5. locked' \in BOOLEAN
    BY <1>1, Zenon DEF KInv
  <1>6. Sound(t, Reserved', kept') /\ seen' \subseteq 1..t.max
    BY <1>1, <1>2, <1>4, Zenon
  <1>7. ~upgraded => Clean(t, seen') /\ seen' \cap kept' = {}
    BY <1>1, <1>3, Zenon
  <1> QED
    BY <1>1, <1>4, <1>5, <1>6, <1>7, StepKInv

\* The key that is taken is one of the topped-up pools.
LEMMA OldestKey ==
    ASSUME NEW p, NEW held, NEW gone, Sound(p, held, gone), NEW internal,
           PoolFor(p, internal) # {}
    PROVE  Min(PoolFor(p, internal)) \in PoolOf(p)
  <1>1. PoolFor(p, internal) \subseteq PoolOf(p)
    BY DEF PoolFor, PoolOf
  <1>2. PoolOf(p) \subseteq Nat
    BY DEF Sound
  <1> QED
    BY <1>1, <1>2, OldestIsInPool

LEMMA ReserveKeepsKInv ==
    ASSUME KInv, NEW h \in Holder, NEW internal, ReserveKey(h, internal)
    PROVE  KInv'
  <1> DEFINE t == ToppedUp(Now)
             k == Min(PoolFor(t, internal))
             p == Taken(t, k)
  <1>1. /\ reserved[h] = NoKey /\ PoolFor(t, internal) # {} /\ Become(p)
        /\ reserved' = [reserved EXCEPT ![h] = k]
        /\ UNCHANGED <<locked, kept, seen, upgraded>>
    BY Zenon DEF ReserveKey
  <1>2. Sound(t, Reserved, kept) /\ seen \subseteq 1..t.max
    BY CleanNow, ToppedUpSound, ToppedUpClean, Zenon
  <1>3. ~upgraded => Clean(t, seen) /\ seen \cap kept = {}
    BY CleanNow, ToppedUpClean, Zenon
  <1> HIDE DEF t
  <1>4. k \in PoolOf(t)
    BY <1>1, <1>2, OldestKey, Zenon
  <1> HIDE DEF k
  <1>5. Sound(p, Reserved \cup {k}, kept) /\ k \notin Reserved
    BY <1>2, <1>4, TakenSound, Zenon
  <1>6. p.max = t.max /\ p.disk = t.disk /\ p.presplit = t.presplit \ {k}
    BY DEF Taken
  <1> HIDE DEF p
  <1>7. k \in Key
    <2>1. k \in 1..t.max /\ t.max \in Nat
      BY <1>2, <1>4, Zenon DEF Sound
    <2>2. t.max <= MaxIndex
      BY <1>1, <1>6 DEF Become
    <2> QED
      BY <2>1, <2>2, KeyConstants DEF Key
  <1>8. /\ reserved' \in [Holder -> Key \cup {NoKey}] /\ OneHolder'
        /\ Reserved' = Reserved \cup {k}
    BY <1>1, <1>5, <1>7, HolderTakes, Zenon
  <1>9. locked' \in BOOLEAN
    BY <1>1, Zenon DEF KInv
  <1>10. Sound(p, Reserved', kept') /\ seen' \subseteq 1..p.max
    BY <1>1, <1>2, <1>5, <1>6, <1>8, Zenon
  <1>11. ~upgraded => Clean(p, seen') /\ seen' \cap kept' = {}
    BY <1>1, <1>3, <1>6 DEF Clean
  <1> QED
    BY <1>1, <1>8, <1>9, <1>10, <1>11, StepKInv, Zenon

LEMMA GetKeyKeepsKInv ==
    ASSUME KInv, GetKeyFromPool
    PROVE  KInv'
  <1> DEFINE t == ToppedUp(Now)
             k == Min(PoolFor(t, FALSE))
             q == Taken(t, k)
             p == [q EXCEPT !.disk = Without(@, {k})]
  <1>1. /\ PoolFor(t, FALSE) # {} /\ Become(p)
        /\ kept' = kept \cup {k}
        /\ UNCHANGED <<reserved, locked, seen, upgraded>>
    BY Zenon DEF GetKeyFromPool
  <1>2. Sound(t, Reserved, kept) /\ seen \subseteq 1..t.max
    BY CleanNow, ToppedUpSound, ToppedUpClean, Zenon
  <1>3. ~upgraded => Clean(t, seen) /\ seen \cap kept = {}
    BY CleanNow, ToppedUpClean
  <1> HIDE DEF t
  <1>4. k \in PoolOf(t)
    BY <1>1, <1>2, OldestKey, Zenon
  <1> HIDE DEF k
  <1>5. Sound(q, Reserved \cup {k}, kept) /\ k \notin Reserved
    BY <1>2, <1>4, TakenSound
  <1>6. Sound(p, Reserved, kept \cup {k})
    <2>1. Sound(p, (Reserved \cup {k}) \ {k}, kept \cup {k})
      BY <1>5, ErasedSound, Zenon
    <2>2. (Reserved \cup {k}) \ {k} = Reserved
      BY <1>5
    <2> QED
      BY <2>1, <2>2, Zenon
  <1>7. /\ p.max = t.max /\ p.presplit = t.presplit \ {k}
        /\ p.disk = Without(t.disk, {k})
    BY DEF Taken
  <1>8. k \in DOMAIN t.disk
    BY <1>2, <1>4 DEF Sound
  <1> HIDE DEF p, q
  <1>9. Reserved' = Reserved /\ OneHolder' /\ reserved' \in [Holder -> Key \cup {NoKey}]
    BY <1>1 DEF KInv, Reserved, OneHolder
  <1>10. locked' \in BOOLEAN
    BY <1>1, Zenon DEF KInv
  <1>11. Sound(p, Reserved', kept') /\ seen' \subseteq 1..p.max
    BY <1>1, <1>2, <1>6, <1>7, <1>9, Zenon
  <1>12. ~upgraded => Clean(p, seen') /\ seen' \cap kept' = {}
    BY <1>1, <1>3, <1>7, <1>8 DEF Clean, Without
  <1> QED
    BY <1>1, <1>9, <1>10, <1>11, <1>12, StepKInv

LEMMA MarkUsedKeepsKInv ==
    ASSUME KInv, NEW k \in Key, MarkReserveKeysAsUsed(k)
    PROVE  KInv'
  <1> DEFINE used == UsedUpTo(k)
             p == [internal |-> setInternalKeyPool \ used,
                   external |-> setExternalKeyPool \ used,
                   presplit |-> set_pre_split_keypool \ used,
                   found |-> m_pool_key_to_index \ used,
                   disk |-> Without(disk, used), max |-> m_max_keypool_index]
             t == ToppedUp(p)
  <1>1. /\ k \in m_pool_key_to_index /\ Become(t) /\ seen' = seen \cup {k}
        /\ UNCHANGED <<reserved, locked, kept, upgraded>>
    BY DEF MarkReserveKeysAsUsed
  <1>2. /\ Sound(Now, Reserved, kept) /\ seen \in SUBSET (1..Now.max)
        /\ ~upgraded => Clean(Now, seen) /\ seen \cap kept = {}
    BY CleanNow, Zenon
  <1>3. /\ Now.internal = setInternalKeyPool /\ Now.external = setExternalKeyPool
        /\ Now.presplit = set_pre_split_keypool /\ Now.found = m_pool_key_to_index
        /\ Now.disk = disk /\ Now.max = m_max_keypool_index
    BY Zenon DEF Now
  <1>4. used \in SUBSET PoolOf(Now) /\ k \in PoolOf(Now)
    BY <1>1, <1>2, <1>3, Zenon DEF UsedUpTo, PoolOf, Sound
  <1>5. ~upgraded => k \in used
    BY <1>2, <1>3, <1>4, KeyConstants DEF UsedUpTo, Clean, PoolOf, Key
  <1> HIDE DEF used
  <1>6. Sound(p, Reserved, kept)
    BY <1>2, <1>3, <1>4, DroppedSound, Zenon
  <1>7. k \in DOMAIN disk /\ k \in 1..m_max_keypool_index /\ k \notin kept
    BY <1>2, <1>3, <1>4, Zenon DEF Sound
  <1>8. seen' \in SUBSET (1..p.max)
    BY <1>1, <1>2, <1>3, <1>7, Zenon
  <1>9. ~upgraded => Clean(p, seen') /\ seen' \cap kept' = {}
    <2>1. p.disk = Without(disk, used) /\ p.presplit = set_pre_split_keypool \ used
      BY Zenon
    <2>2. DOMAIN p.disk = DOMAIN disk \ used /\ \A i \in DOMAIN p.disk : p.disk[i] = disk[i]
      BY <2>1, Zenon DEF Without
    <2> HIDE DEF p
    <2> QED
      BY <1>1, <1>2, <1>3, <1>5, <1>7, <2>1, <2>2 DEF Clean
  <1> HIDE DEF p
  <1>10. Sound(t, Reserved, kept) /\ seen' \subseteq 1..t.max
    BY <1>6, <1>8, ToppedUpSound, ToppedUpClean, Zenon
  <1>11. ~upgraded => Clean(t, seen') /\ seen' \cap kept' = {}
    BY <1>6, <1>8, <1>9, ToppedUpClean, Zenon
  <1> HIDE DEF t
  <1>12. Reserved' = Reserved /\ OneHolder' /\ reserved' \in [Holder -> Key \cup {NoKey}]
    BY <1>1 DEF KInv, Reserved, OneHolder
  <1>13. locked' \in BOOLEAN
    BY <1>1, Zenon DEF KInv
  <1>14. Sound(t, Reserved', kept')
    BY <1>1, <1>10, <1>12, Zenon
  <1> QED
    BY <1>1, <1>10, <1>11, <1>12, <1>13, <1>14, StepKInv, SMTT(30)

LEMMA NewKeyPoolKeepsKInv ==
    ASSUME KInv, NewKeyPool
    PROVE  KInv'
  <1> DEFINE p == [internal |-> {}, external |-> {}, presplit |-> {}, found |-> {},
                   disk |-> Without(disk, Pool), max |-> m_max_keypool_index]
             t == ToppedUp(p)
  <1>1. Become(t) /\ UNCHANGED <<reserved, locked, kept, seen, upgraded>>
    BY DEF NewKeyPool
  <1>2. /\ Sound(Now, Reserved, kept) /\ seen \in SUBSET (1..Now.max)
        /\ ~upgraded => Clean(Now, seen) /\ seen \cap kept = {}
    BY CleanNow
  <1>3. /\ Now.internal = setInternalKeyPool /\ Now.external = setExternalKeyPool
        /\ Now.presplit = set_pre_split_keypool /\ Now.found = m_pool_key_to_index
        /\ Now.disk = disk /\ Now.max = m_max_keypool_index
    BY Zenon DEF Now
  <1>4. PoolOf(Now) = Pool /\ Now.found = Pool
    BY <1>2, <1>3, Zenon DEF PoolOf, Pool, Sound
  <1>5. Sound(p, Reserved, kept)
    <2>1. Sound([internal |-> Now.internal \ Pool, external |-> Now.external \ Pool,
                 presplit |-> Now.presplit \ Pool, found |-> Now.found \ Pool,
                 disk |-> Without(Now.disk, Pool), max |-> Now.max], Reserved, kept)
      BY <1>2, <1>4, DroppedSound
    <2>2. /\ Now.internal \ Pool = {} /\ Now.external \ Pool = {}
          /\ Now.presplit \ Pool = {} /\ Now.found \ Pool = {}
      BY <1>3, <1>4 DEF Pool
    <2> QED
      BY <1>3, <2>1, <2>2, Zenon
  <1>6. seen \in SUBSET (1..p.max)
    BY <1>2, <1>3, Zenon
  <1>7. ~upgraded => Clean(p, seen) /\ seen \cap kept = {}
    <2>1. p.disk = Without(disk, Pool) /\ p.presplit = {}
      BY Zenon
    <2> HIDE DEF p
    <2> QED
      BY <1>2, <1>3, <2>1, Zenon DEF Clean, Without
  <1> HIDE DEF p
  <1>8. Sound(t, Reserved, kept) /\ seen \subseteq 1..t.max
    BY <1>5, <1>6, ToppedUpSound, ToppedUpClean, Zenon
  <1>9. ~upgraded => Clean(t, seen) /\ seen \cap kept = {}
    BY <1>5, <1>6, <1>7, ToppedUpClean, Zenon
  <1> HIDE DEF t
  <1>10. Reserved' = Reserved /\ OneHolder' /\ reserved' \in [Holder -> Key \cup {NoKey}]
    BY <1>1, Zenon DEF KInv, Reserved, OneHolder
  <1>11. locked' \in BOOLEAN
    BY <1>1, Zenon DEF KInv
  <1>12. Sound(t, Reserved', kept') /\ seen' \subseteq 1..t.max
    BY <1>1, <1>8, <1>10, Zenon
  <1>13. ~upgraded => Clean(t, seen') /\ seen' \cap kept' = {}
    BY <1>1, <1>9, Zenon
  <1> QED
    BY <1>1, <1>10, <1>11, <1>12, <1>13, StepKInv

LEMMA KeepKeyKeepsKInv ==
    ASSUME KInv, NEW h \in Holder, KeepKey(h)
    PROVE  KInv'
  <1> DEFINE k == reserved[h]
             p == [Now EXCEPT !.disk = Without(@, {k})]
  <1>1. /\ k # NoKey /\ disk' = Without(disk, {k}) /\ kept' = kept \cup {k}
        /\ reserved' = [reserved EXCEPT ![h] = NoKey]
        /\ UNCHANGED <<pools, m_pool_key_to_index, m_max_keypool_index, locked, seen, upgraded>>
    BY DEF KeepKey
  <1>2. /\ Sound(Now, Reserved, kept) /\ seen \in SUBSET (1..Now.max)
        /\ ~upgraded => Clean(Now, seen) /\ seen \cap kept = {}
    BY CleanNow
  <1>3. /\ reserved' \in [Holder -> Key \cup {NoKey}] /\ OneHolder'
        /\ k \in Reserved /\ Reserved' = Reserved \ {k}
    BY <1>1, HolderReleases, Zenon
  <1> HIDE DEF k
  <1>4. Sound(p, Reserved', kept')
    BY <1>1, <1>2, <1>3, ErasedSound
  <1>5. /\ p.internal = setInternalKeyPool /\ p.external = setExternalKeyPool
        /\ p.presplit = set_pre_split_keypool /\ p.found = m_pool_key_to_index
        /\ p.disk = Without(disk, {k}) /\ p.max = m_max_keypool_index
    BY Zenon DEF Now
  <1> HIDE DEF p
  <1>6. Become(p)
    BY <1>1, <1>5, Zenon DEF Become, pools, KInv
  <1>7. k \in DOMAIN disk
    BY <1>2, <1>3, Zenon DEF Sound, Now
  <1>8. ~upgraded => Clean(p, seen') /\ seen' \cap kept' = {}
    BY <1>1, <1>2, <1>5, <1>7, SMTT(30) DEF Clean, Without, Now
  <1>9. seen' \subseteq 1..p.max
    BY <1>1, <1>2, <1>5, Zenon DEF Now
  <1>10. locked' \in BOOLEAN
    BY <1>1, Zenon DEF KInv
  <1> QED
    BY <1>1, <1>3, <1>4, <1>6, <1>8, <1>9, <1>10, StepKInv, Zenon

LEMMA ReturnKeyKeepsKInv ==
    ASSUME KInv, NEW h \in Holder, ReturnKey(h)
    PROVE  KInv'
  <1> DEFINE k == reserved[h]
             internal == disk[k] = "internal"
             presplit == ~internal /\ set_pre_split_keypool # {}
             p == [internal |-> setInternalKeyPool \cup (IF internal THEN {k} ELSE {}),
                   external |-> setExternalKeyPool
                                    \cup (IF internal \/ presplit THEN {} ELSE {k}),
                   presplit |-> set_pre_split_keypool \cup (IF presplit THEN {k} ELSE {}),
                   found |-> m_pool_key_to_index \cup {k},
                   disk |-> disk, max |-> m_max_keypool_index]
  <1>1. /\ k # NoKey
        /\ reserved' = [reserved EXCEPT ![h] = NoKey]
        /\ UNCHANGED <<disk, m_max_keypool_index, locked, kept, seen, upgraded>>
    BY Zenon DEF ReturnKey
  <1>2. Become(p)
    BY <1>1 DEF ReturnKey, Become, KInv
  <1>3. /\ Sound(Now, Reserved, kept) /\ seen \in SUBSET (1..Now.max)
        /\ ~upgraded => Clean(Now, seen) /\ seen \cap kept = {}
    BY CleanNow
  <1>4. /\ reserved' \in [Holder -> Key \cup {NoKey}] /\ OneHolder'
        /\ k \in Reserved /\ Reserved' = Reserved \ {k}
    BY <1>1, HolderReleases, Zenon
  <1> HIDE DEF k
  <1>5. /\ Now.internal = setInternalKeyPool /\ Now.external = setExternalKeyPool
        /\ Now.presplit = set_pre_split_keypool /\ Now.found = m_pool_key_to_index
        /\ Now.disk = disk /\ Now.max = m_max_keypool_index
    BY Zenon DEF Now
  <1>6. PoolOf(p) = PoolOf(Now) \cup {k}
    BY <1>5 DEF PoolOf
  <1>7. Sound(p, Reserved \ {k}, kept)
    <2>1. p.disk = disk /\ p.max = m_max_keypool_index /\ p.found = m_pool_key_to_index \cup {k}
      BY Zenon
    <2>2. /\ \A i \in p.internal : disk[i] = "internal"
          /\ \A i \in p.external \cup p.presplit : disk[i] # "internal"
      BY <1>3, <1>5 DEF Sound
    <2>3. p = [internal |-> p.internal, external |-> p.external, presplit |-> p.presplit,
               found |-> p.found, disk |-> p.disk, max |-> p.max]
      BY Zenon
    <2>4. k \notin PoolOf(Now) /\ k \in DOMAIN disk
      BY <1>3, <1>4, <1>5, Zenon DEF Sound
    <2> HIDE DEF p
    <2> QED
      BY <1>3, <1>4, <1>5, <1>6, <2>1, <2>2, <2>3, <2>4, ZenonT(30) DEF Sound
  <1>8. ~upgraded => Clean(p, seen') /\ seen' \cap kept' = {}
    BY <1>1, <1>3, <1>5, Zenon DEF Clean
  <1>9. seen' \subseteq 1..p.max
    BY <1>1, <1>3, <1>5
  <1> HIDE DEF p
  <1>10. Sound(p, Reserved', kept')
    BY <1>1, <1>4, <1>7, Zenon
  <1>11. locked' \in BOOLEAN
    BY <1>1, Zenon DEF KInv
  <1> QED
    BY <1>1, <1>2, <1>4, <1>8, <1>9, <1>10, <1>11, StepKInv, Zenon

\* The database is all a new process has; what was reserved is in the pool again.
LEMMA ReloadKeepsKInv ==
    ASSUME KInv, ReloadWallet
    PROVE  KInv'
  <1> DEFINE p == [internal |-> OfKind(disk, "internal"), external |-> OfKind(disk, "external"),
                   presplit |-> OfKind(disk, "presplit"), found |-> DOMAIN disk,
                   disk |-> disk, max |-> m_max_keypool_index]
  <1>1. /\ Become(p) /\ locked' = FALSE /\ UNCHANGED <<kept, seen, upgraded>>
        /\ reserved' = [h \in Holder |-> NoKey]
    BY DEF ReloadWallet, Load, Become, KInv
  <1>2. /\ Sound(Now, Reserved, kept) /\ seen \in SUBSET (1..Now.max)
        /\ ~upgraded => Clean(Now, seen) /\ seen \cap kept = {}
    BY CleanNow
  <1>3. Now.disk = disk /\ Now.max = m_max_keypool_index
    BY Zenon DEF Now
  <1>4. Reserved' = {} /\ OneHolder' /\ reserved' \in [Holder -> Key \cup {NoKey}]
    BY <1>1, Zenon DEF Reserved, OneHolder
  <1>5. PoolOf(p) = DOMAIN disk
    BY <1>2, <1>3, Zenon DEF PoolOf, OfKind, Sound, Kind
  <1>6. Sound(p, {}, kept)
    <2>1. p.disk = disk /\ p.max = m_max_keypool_index /\ p.found = DOMAIN disk
      BY Zenon
    <2>2. /\ \A i \in p.internal : disk[i] = "internal"
          /\ \A i \in p.external \cup p.presplit : disk[i] # "internal"
      BY Zenon DEF OfKind
    <2>3. p = [internal |-> p.internal, external |-> p.external, presplit |-> p.presplit,
               found |-> p.found, disk |-> p.disk, max |-> p.max]
      BY Zenon
    <2> HIDE DEF p
    <2> QED
      BY <1>2, <1>3, <1>5, <2>1, <2>2, <2>3, Zenon DEF Sound
  <1>7. ~upgraded => Clean(p, seen') /\ seen' \cap kept' = {}
    BY <1>1, <1>2, <1>3 DEF Clean, OfKind
  <1>8. seen' \subseteq 1..p.max
    BY <1>1, <1>2, <1>3
  <1> HIDE DEF p
  <1>9. Sound(p, Reserved', kept') /\ locked' \in BOOLEAN
    BY <1>1, <1>4, <1>6, Zenon
  <1> QED
    BY <1>1, <1>4, <1>7, <1>8, <1>9, StepKInv, SMTT(30)

\* So does every step of the wallet.
LEMMA NextKInv == KInv /\ [KeyNext]_keyVars => KInv'
  <1> SUFFICES ASSUME KInv, [KeyNext]_keyVars PROVE KInv'
    OBVIOUS
  <1>1. ASSUME UNCHANGED <<poolVars, reserved, kept, seen, upgraded>>, locked' \in BOOLEAN
        PROVE  KInv'
    <2>1. /\ Now' = Now /\ Reserved' = Reserved
          /\ UNCHANGED <<disk, set_pre_split_keypool, m_max_keypool_index>>
      BY <1>1 DEF poolVars, pools, Now, Reserved
    <2>2. OneHolder' /\ SplitFromStart'
      BY <1>1, <2>1 DEF KInv, OneHolder, SplitFromStart
    <2> QED
      BY <1>1, <2>1, <2>2, Zenon DEF KInv
  <1>2. CASE UNCHANGED keyVars
    <2>1. locked' \in BOOLEAN
      BY <1>2, Zenon DEF keyVars, KInv
    <2> QED
      BY <1>1, <1>2, <2>1 DEF keyVars
  <1>3. CASE SetLocked
    <2>1. locked' \in BOOLEAN
      BY <1>3, Zenon DEF SetLocked
    <2> QED
      BY <1>1, <1>3, <2>1 DEF SetLocked
  <1>4. CASE \E h \in Holder : ReserveKey(h, TRUE) \/ KeepKey(h) \/ ReturnKey(h)
    BY <1>4, ReserveKeepsKInv, KeepKeyKeepsKInv, ReturnKeyKeepsKInv, Zenon
  <1> QED
    BY <1>2, <1>3, <1>4, TopUpKeepsKInv, GetKeyKeepsKInv, MarkUsedKeepsKInv, NewKeyPoolKeepsKInv,
       ReloadKeepsKInv, Zenon DEF KeyNext

LEMMA AlwaysKInv == KeySpec => []KInv
  BY InitKInv, NextKInv, PTL DEF KeySpec

-----------------------------------------------------------------------------
\* The variables of the key pool keep their types.
THEOREM KeyPoolTypes == KeySpec => []KeyTypeOK
  <1>1. KInv => KeyTypeOK
    <2> SUFFICES ASSUME KInv PROVE KeyTypeOK
      OBVIOUS
    <2>1. Sound(Now, Reserved, kept) /\ m_max_keypool_index <= MaxIndex
      BY DEF KInv
    <2>2. /\ Pool = PoolOf(Now) /\ Now.disk = disk /\ Now.max = m_max_keypool_index
          /\ Now.found = m_pool_key_to_index
      BY DEF Now, Pool, PoolOf
    <2>3. m_max_keypool_index \in 0..MaxIndex
      BY <2>1, <2>2, KeyConstants DEF Sound
    <2>4. 1..m_max_keypool_index \subseteq Key
      BY <2>3, KeyConstants DEF Key
    <2>5. /\ Pool \subseteq Key /\ m_pool_key_to_index \subseteq Key
          /\ DOMAIN disk \subseteq Key /\ kept \subseteq Key
      BY <2>1, <2>2, <2>4, Zenon DEF Sound
    <2>6. Range(disk) \subseteq Kind
      BY <2>1, <2>2 DEF Sound, Range
    <2>7. seen \subseteq Key
      BY <2>4 DEF KInv
    <2> QED
      BY <2>3, <2>5, <2>6, <2>7, Zenon DEF KeyTypeOK, KInv
  <1> QED
    BY <1>1, AlwaysKInv, PTL

\* ReserveKeyFromKeyPool, KeepKey, ReturnKey and GetKeyFromPool never let two owners
\* have one key, nor a key go out that was given away before, also across restarts.
THEOREM KeysStayExclusive == KeySpec => []KeysExclusive
  <1>1. KInv => KeysExclusive
    <2> SUFFICES ASSUME KInv PROVE KeysExclusive
      OBVIOUS
    <2>1. Sound(Now, Reserved, kept) /\ OneHolder
      BY Zenon DEF KInv
    <2>2. Pool = PoolOf(Now)
      BY Zenon DEF Now, Pool, PoolOf
    <2>3. Reserved \cap Pool = {} /\ kept \cap (Pool \cup Reserved) = {}
      BY <2>1, <2>2 DEF Sound
    <2> QED
      BY <2>1, <2>3 DEF KeysExclusive, OneHolder
  <1> QED
    BY <1>1, AlwaysKInv, PTL

\* The records of the database are those of the keys that are in the pool or reserved,
\* and of their kind, however the operations follow each other.
THEOREM DatabaseHasPool == KeySpec => []PoolOnDisk
  <1>1. KInv => PoolOnDisk
    <2> SUFFICES ASSUME KInv PROVE PoolOnDisk
      OBVIOUS
    <2>1. Sound(Now, Reserved, kept)
      BY DEF KInv
    <2>2. /\ Pool = PoolOf(Now) /\ Now.disk = disk /\ Now.found = m_pool_key_to_index
          /\ Now.internal = setInternalKeyPool /\ Now.external = setExternalKeyPool
          /\ Now.presplit = set_pre_split_keypool
      BY DEF Now, Pool, PoolOf
    <2>3. DOMAIN disk = Pool \cup Reserved /\ m_pool_key_to_index = Pool
      BY <2>1, <2>2 DEF Sound
    <2>4. setInternalKeyPool \subseteq DOMAIN disk
      BY <2>3 DEF Pool
    <2>5. setInternalKeyPool \subseteq OfKind(disk, "internal")
      BY <2>1, <2>2, <2>4 DEF Sound, OfKind
    <2>6. (setExternalKeyPool \cup set_pre_split_keypool) \cap OfKind(disk, "internal") = {}
      BY <2>1, <2>2 DEF Sound, OfKind
    <2> QED
      BY <2>3, <2>5, <2>6 DEF PoolOnDisk
  <1> QED
    BY <1>1, AlwaysKInv, PTL

\* MarkReserveKeysAsUsed takes the key it was called for out of the pool for good, in a
\* wallet that was split from the start.
THEOREM SeenKeysStayGone == KeySpec => []SeenGone
  <1>1. KInv => SeenGone
    <2> SUFFICES ASSUME KInv, ~upgraded
                 PROVE  seen \cap (Pool \cup Reserved \cup kept) = {}
      BY Zenon DEF SeenGone
    <2>1. DOMAIN disk = Pool \cup Reserved
      BY DEF KInv, Sound, Now, PoolOf, Pool
    <2> QED
      BY <2>1 DEF KInv, SplitFromStart
  <1> QED
    BY <1>1, AlwaysKInv, PTL
=============================================================================
