--------------------------- MODULE BlockDownload ---------------------------
(***************************************************************************)
(* Which block is asked from which peer (net_processing.cpp).  One thread   *)
(* handles the messages of all peers; the socket thread finalizes nodes,    *)
(* and the miner or an RPC submits blocks, between any two critical         *)
(* sections of it.  Of a peer the model keeps what it has announced and     *)
(* what is in flight from it; a message to it (getheaders, getdata) is not  *)
(* kept, and it may send what it has, asked or not.  Punishment is a        *)
(* disconnection that may come at any time, and time a timeout that may.    *)
(***************************************************************************)
EXTENDS Naturals, FiniteSets

CONSTANTS
    Peer,           \* connections: a peer that comes back is another one
    Honest,         \* the peers that answer in time and are not disconnected
    Preferred,      \* the outbound ones
    NoBan,          \* the whitelisted ones
    Block, Genesis, Prev, Anc, Height,
    PeerTips,       \* the tips a peer may have
    Own,            \* blocks that the miner or submitblock may bring
    Bad,            \* blocks that fail their checks
    Recents,        \* which blocks may have a recent time
    Window,         \* BLOCK_DOWNLOAD_WINDOW
    MaxInTransit,   \* MAX_BLOCKS_IN_TRANSIT_PER_PEER
    CompactAhead,   \* 2: how far a compact block may be ahead of the tip
    KeepBlocks,     \* MIN_BLOCKS_TO_KEEP
    MinimumWork,    \* nMinimumChainWork, as a height
    None

\* Branches lead back to the genesis block, one height at a time.
ASSUME TreeAssumption ==
    /\ Genesis \in Block /\ None \notin Block \cup Peer
    /\ Prev \in [Block \ {Genesis} -> Block]
    /\ Anc \in [Block -> SUBSET Block] /\ Height \in [Block -> Nat]
    /\ Anc[Genesis] = {Genesis}
    /\ \A b \in Block : /\ b \in Anc[b] /\ Genesis \in Anc[b] /\ IsFiniteSet(Anc[b])
                        /\ \A a \in Anc[b] : Anc[a] \subseteq Anc[b] /\ Height[a] <= Height[b]
                        /\ \A a, c \in Anc[b] : Height[a] = Height[c] => a = c
                        /\ \A h \in 0..Height[b] : \E a \in Anc[b] : Height[a] = h

ASSUME PeerAssumption ==
    /\ PeerTips \in [Peer -> SUBSET Block] /\ Own \subseteq Block /\ Recents \subseteq SUBSET Block
    /\ {Window, MaxInTransit, CompactAhead, KeepBlocks, MinimumWork} \subseteq Nat

VARIABLES
    headers, have, failed,  \* the index: its blocks, those with data, those that failed
    tip, bestHeader,        \* ChainActive().Tip() and pindexBestHeader
    ibd,                    \* IsInitialBlockDownload
    connected,              \* mapNodeState
    fDisconnect,            \* nodes to disconnect
    gone,                   \* nodes that were finalized
    best, unknown, common,  \* pindexBestKnownBlock, hashLastUnknownBlock, pindexLastCommonBlock
    syncStarted,            \* the peers with fSyncStarted
    flight,                 \* what is in flight, see NoneInFlight
    handling,               \* the block the message thread has given to ProcessNewBlock
    peerTip, recent         \* external: the chain of each peer, the blocks of a recent time

index == <<headers, have, failed, tip, bestHeader, ibd>>
nodes == <<connected, fDisconnect, gone>>
known == <<best, unknown>>
outside == <<peerTip, recent>>
vars == <<index, nodes, known, common, syncStarted, flight, handling, outside>>

Idle == [peer |-> None, block |-> None, force |-> FALSE, step |-> "idle"]
Handle(p, b, force, step) ==
    handling' = [peer |-> p, block |-> b, force |-> force, step |-> step]

\* mapBlocksInFlight, vBlocksInFlight, nBlocksInFlight (with nBlocksInFlightValidHeaders:
\* all blocks asked for have a header), the entries with a partialBlock,
\* nPeersWithValidatedDownloads and the peers with nStallingSince.
NoneInFlight ==
    [from |-> [b \in Block |-> None], queue |-> [p \in Peer |-> {}], count |-> [p \in Peer |-> 0],
     partial |-> {}, peers |-> 0, stalling |-> {}]

Flights ==
    [from : [Block -> Peer \cup {None}], queue : [Peer -> SUBSET Block], count : [Peer -> Nat],
     partial : SUBSET Block, peers : Nat, stalling : SUBSET Peer]

TypeOK ==
    /\ headers \subseteq Block /\ have \subseteq headers /\ failed \subseteq headers
    /\ {tip, bestHeader} \subseteq headers
    /\ ibd \in BOOLEAN
    /\ connected \subseteq Peer /\ fDisconnect \subseteq connected
    /\ gone \subseteq Peer \ connected
    /\ best \in [Peer -> headers \cup {None}] /\ common \in [Peer -> headers \cup {None}]
    /\ unknown \in [Peer -> Block \cup {None}]
    /\ syncStarted \subseteq connected
    /\ handling \in [peer : Peer \cup {None}, block : Block \cup {None}, force : BOOLEAN,
                     step : {"idle", "process", "process and clear", "clear"}]
    /\ flight \in Flights /\ peerTip \in [Peer -> Block]

\* With this tip IsInitialBlockDownload returns false, and from then on.
UpToDate(t) == t \in recent /\ Height[t] >= MinimumWork

Init ==
    /\ headers = {Genesis} /\ have = {Genesis} /\ failed = {}
    /\ tip = Genesis /\ bestHeader = Genesis
    /\ recent \in Recents
    /\ ibd = ~UpToDate(Genesis)
    /\ connected = {} /\ fDisconnect = {} /\ gone = {}
    /\ best = [p \in Peer |-> None] /\ unknown = best /\ common = best
    /\ syncStarted = {}
    /\ flight = NoneInFlight
    /\ handling = Idle
    /\ peerTip \in [Peer -> Block] /\ \A p \in Peer : peerTip[p] \in PeerTips[p]

-----------------------------------------------------------------------------
(* The index of blocks, as far as the download looks at it                  *)

AncestorAt(b, h) == CHOOSE a \in Anc[b] : Height[a] = h
HaveTxsDownloaded(b) == Anc[b] \subseteq have
\* The highest of a set of blocks.
Highest(bs) == CHOOSE b \in bs : \A c \in bs : Height[c] <= Height[b]
LastCommonAncestor(a, b) == Highest(Anc[a] \cap Anc[b])
CanDirectFetch == tip \in recent

\* AcceptBlockHeader takes a header on top of one that has not failed.  Blocks that
\* fail in AcceptBlock are not in m_failed_blocks, so no more is looked at.
HeadersValid(b) == b \notin failed /\ \A a \in Anc[b] \ headers : Prev[a] \notin failed

\* Headers up to b enter the index.
AcceptHeaders(b) ==
    /\ HeadersValid(b)
    /\ headers' = headers \cup Anc[b]
    /\ bestHeader' = IF Height[b] > Height[bestHeader] THEN b ELSE bestHeader

\* ActivateBestChain, among branches of one length with the first.
Activate(data) ==
    LET linked == {b \in data : Anc[b] \subseteq data}
        higher == {b \in linked : Height[b] > Height[tip]}
    IN  tip' = IF higher = {} THEN tip ELSE Highest(higher)

\* ProcessNewBlock, whose header connects: AcceptBlock and ActivateBestChain.
Stored(b, force) ==
    /\ b \notin have
    /\ force \/ /\ Height[b] >= Height[tip] /\ Height[b] <= Height[tip] + KeepBlocks
                /\ Height[b] >= MinimumWork
ProcessBlock(b, force) ==
    IF Anc[b] \ {b} \subseteq headers /\ HeadersValid(b)
    THEN /\ AcceptHeaders(b)
         /\ have' = IF Stored(b, force) /\ b \notin Bad THEN have \cup {b} ELSE have
         /\ failed' = IF Stored(b, force) /\ b \in Bad THEN failed \cup {b} ELSE failed
         /\ Activate(have')
         /\ ibd' = (ibd /\ ~UpToDate(tip'))
    ELSE UNCHANGED index

-----------------------------------------------------------------------------
(* What is in flight                                                        *)

\* Mutants: the queue of the node keeps the block; a node that has sent what it owed
\* is still taken to stall.
MutantKeepQueue(s, b) == [s EXCEPT !.from[b] = None]
MutantStillStalling(s, b) ==
    LET p == s.from[b]
    IN  IF p = None THEN s
        ELSE [s EXCEPT !.from[b] = None,
                       !.queue[p] = @ \ {b},
                       !.count[p] = @ - 1,
                       !.partial = @ \ {b},
                       !.peers = IF s.count[p] = 1 THEN @ - 1 ELSE @]
MarkBlockAsReceived(s, b) ==
    LET p == s.from[b]
    IN  IF p = None THEN s
        ELSE [s EXCEPT !.from[b] = None,
                       !.queue[p] = @ \ {b},
                       !.count[p] = @ - 1,
                       !.partial = @ \ {b},
                       !.peers = IF s.count[p] = 1 THEN @ - 1 ELSE @,
                       !.stalling = @ \ {p}]

MarkBlockAsInFlight(s, p, b) ==
    IF s.from[b] = p THEN s
    ELSE LET t == MarkBlockAsReceived(s, b)
         IN  [t EXCEPT !.from[b] = p,
                       !.queue[p] = @ \cup {b},
                       !.count[p] = @ + 1,
                       !.peers = IF t.count[p] = 0 THEN @ + 1 ELSE @]

\* One after the other, for blocks that are not in flight.
MarkBlocksAsInFlight(s, p, bs) ==
    [s EXCEPT !.from = [b \in Block |-> IF b \in bs THEN p ELSE s.from[b]],
              !.queue[p] = @ \cup bs,
              !.count[p] = @ + Cardinality(bs),
              !.peers = IF s.count[p] = 0 /\ bs # {} THEN @ + 1 ELSE @]

\* The entry of a node in mapNodeState goes, with all it holds in flight.
EraseNode(s, p) ==
    [s EXCEPT !.from = [b \in Block |-> IF b \in s.queue[p] THEN None ELSE s.from[b]],
              !.queue[p] = {},
              !.count[p] = 0,
              !.partial = @ \ s.queue[p],
              !.peers = IF s.count[p] # 0 THEN @ - 1 ELSE @,
              !.stalling = @ \ {p}]

-----------------------------------------------------------------------------
(* What a peer has announced                                                *)

Better(b, old) == IF old = None \/ Height[b] >= Height[old] THEN b ELSE old

\* ProcessBlockAvailability with the index hs, as the best block and the unknown one.
BestNow(p, hs) == IF unknown[p] \in hs THEN Better(unknown[p], best[p]) ELSE best[p]
UnknownNow(p, hs) == IF unknown[p] \in hs THEN None ELSE unknown[p]

UpdateBlockAvailability(p, b) ==
    /\ best' = [best EXCEPT ![p] =
                   IF b \in headers' THEN Better(b, BestNow(p, headers')) ELSE BestNow(p, headers')]
    /\ unknown' = [unknown EXCEPT ![p] = IF b \in headers' THEN UnknownNow(p, headers') ELSE b]

-----------------------------------------------------------------------------
(* FindNextBlocksToDownload                                                 *)

\* pindexLastCommonBlock before the walk: for a new peer a block of our chain.
CommonStart(p, to) ==
    LET guess == AncestorAt(tip, IF Height[to] < Height[tip] THEN Height[to] ELSE Height[tip])
    IN  LastCommonAncestor(IF common[p] = None THEN guess ELSE common[p], to)

\* The blocks the walk passes: up to one block beyond the window, and to a failed one.
Walk(from, to) ==
    {b \in Anc[to] : /\ Height[b] \in Height[from] + 1 .. Height[from] + Window + 1
                    /\ Anc[b] \cap failed = {}}

Missing(b) == b \notin have /\ b \notin Anc[tip]
Free(b) == Missing(b) /\ flight.from[b] = None

\* The n lowest of some blocks of one branch.
First(n, bs) == {b \in bs : Cardinality({a \in bs : Height[a] < Height[b]}) < n}

Room(p) == MaxInTransit - flight.count[p]
ToDownload(p, from, walk) ==
    First(Room(p), {b \in walk : Free(b) /\ Height[b] <= Height[from] + Window})

\* nodeStaller: only the block beyond the window could be asked for, and the first
\* block in flight on the way is another peer's.
Staller(p, from, walk) ==
    LET waiting == {b \in walk : Missing(b) /\ flight.from[b] # None}
        beyond == \E b \in walk : Free(b) /\ Height[b] > Height[from] + Window
    IN  IF beyond THEN {flight.from[b] : b \in First(1, waiting)} \ {p} ELSE {}

\* Mutant: a block with a gap below it counts.
MutantAnyData(from, walk) ==
    LET done == {b \in walk : ~Missing(b)} IN IF done = {} THEN from ELSE Highest(done)
Advanced(from, walk) ==
    LET done == {b \in walk : ~Missing(b) /\ HaveTxsDownloaded(b)}
    IN  IF done = {} THEN from ELSE Highest(done)

\* The blocks that SendMessages asks from p, with what it learns of the peer.
Walked(p, from, walk) ==
    LET want == ToDownload(p, from, walk)
        staller == IF want = {} /\ flight.count[p] = 0 THEN Staller(p, from, walk) ELSE {}
        marked == MarkBlocksAsInFlight(flight, p, want)
    IN  /\ common' = [common EXCEPT ![p] = Advanced(from, walk)]
        /\ flight' = [marked EXCEPT !.stalling = @ \cup staller]

FindNextBlocksToDownload(p) ==
    \E to \in {BestNow(p, headers)} :
        /\ best' = [best EXCEPT ![p] = to]
        /\ unknown' = [unknown EXCEPT ![p] = UnknownNow(p, headers)]
        /\ IF to = None \/ Height[to] < Height[tip] \/ Height[to] < MinimumWork
           THEN UNCHANGED <<common, flight>>
           ELSE \E from \in {CommonStart(p, to)} : \E walk \in {Walk(from, to)} : Walked(p, from, walk)

-----------------------------------------------------------------------------
(* SendMessages                                                             *)

\* The peers that the message thread serves, while it is not inside ProcessNewBlock.
Served(p) == p \in connected \ fDisconnect /\ handling = Idle

Fetches(p) == p \in Preferred \/ connected \cap Preferred = {}
StartsSync(p) ==
    /\ p \notin syncStarted
    /\ (syncStarted = {} /\ Fetches(p)) \/ bestHeader \in recent
Syncing(p) == syncStarted \cup {q \in {p} : StartsSync(q)}

\* The only peer that we sync headers from has not brought them up to date, and there
\* is another one to try.
HeadersStall(p) ==
    /\ Syncing(p) = {p}
    /\ bestHeader \notin recent
    /\ (connected \cap Preferred) \ {p} # {}

Download(p) ==
    IF (Fetches(p) \/ ~ibd) /\ flight.count[p] < MaxInTransit
    THEN FindNextBlocksToDownload(p)
    ELSE UNCHANGED <<known, common, flight>>

\* No timeout has passed ...
SendMessages(p) ==
    /\ Served(p)
    /\ syncStarted' = Syncing(p)
    /\ Download(p)
    /\ UNCHANGED <<index, nodes, handling, outside>>

\* ... or only that of the headers of a whitelisted peer.
SendMessagesResync(p) ==
    /\ Served(p) /\ p \notin Honest
    /\ p \in NoBan /\ HeadersStall(p)
    /\ syncStarted' = {}
    /\ Download(p)
    /\ UNCHANGED <<index, nodes, handling, outside>>

\* BLOCK_STALLING_TIMEOUT, the timeout of the first block in flight, or that of the
\* headers.  An honest peer is faster.
\* Mutant: only the peer that holds up the window is disconnected.
MutantOnlyStalling(p) == p \in flight.stalling \/ (HeadersStall(p) /\ p \notin NoBan)
TimesOut(p) ==
    \/ p \in flight.stalling
    \/ flight.queue[p] # {}
    \/ HeadersStall(p) /\ p \notin NoBan

SendMessagesTimeout(p) ==
    /\ Served(p) /\ p \notin Honest
    /\ TimesOut(p)
    /\ syncStarted' = Syncing(p)
    /\ fDisconnect' = fDisconnect \cup {p}
    /\ UNCHANGED <<index, connected, gone, known, common, flight, handling, outside>>

-----------------------------------------------------------------------------
(* ProcessMessage                                                           *)

Announced(p) == Anc[peerTip[p]] \ {Genesis}

\* The direct fetch of ProcessHeadersMessage, towards the last header b.
DirectFetch(p, b) ==
    LET path == Anc[b] \ Anc[tip]
        want == {a \in path : Free(a)}
        large == Cardinality({a \in want : Prev[a] \in path}) > MaxInTransit
    IN  IF CanDirectFetch /\ Height[b] >= Height[tip] /\ ~large
        THEN flight' = MarkBlocksAsInFlight(flight, p, First(Room(p), want))
        ELSE UNCHANGED flight

\* The message may begin below a header that is known to have failed.
ProcessHeaders(p, b) ==
    \/ /\ AcceptHeaders(b)
       /\ UpdateBlockAvailability(p, b)
       /\ DirectFetch(p, b)
    \/ /\ Anc[b] \cap failed # {}
       /\ UNCHANGED <<headers, bestHeader, known, flight>>

\* The answer to getheaders ...
Headers(p) ==
    /\ Served(p)
    /\ ProcessHeaders(p, peerTip[p])
    /\ UNCHANGED <<have, failed, tip, ibd, nodes, common, syncStarted, handling, outside>>

\* ... and a header that announces a block, which may not connect.
HeaderAnnounced(p, b) ==
    /\ Served(p) /\ b \in Announced(p)
    /\ IF Prev[b] \in headers
       THEN ProcessHeaders(p, b)
       ELSE /\ UNCHANGED <<headers, bestHeader, flight>>
            /\ UpdateBlockAvailability(p, b)
    /\ UNCHANGED <<have, failed, tip, ibd, nodes, common, syncStarted, handling, outside>>

Inv(p, b) ==
    /\ Served(p) /\ b \in Announced(p)
    /\ UNCHANGED headers
    /\ UpdateBlockAvailability(p, b)
    /\ UNCHANGED <<have, failed, tip, bestHeader, ibd, nodes, common, syncStarted, flight,
                   handling, outside>>

\* A block, asked for or not: cs_main is released before ProcessNewBlock takes it.
BlockMessage(p, b) ==
    /\ Served(p) /\ b \in Announced(p)
    /\ flight' = MarkBlockAsReceived(flight, b)
    /\ Handle(p, b, flight.from[b] # None, "process")
    /\ UNCHANGED <<index, nodes, known, common, syncStarted, outside>>

\* The message thread inside ProcessNewBlock, and after a block that it could put
\* together although another peer was asked for it.
HandleBlock ==
    /\ handling.step \in {"process", "process and clear"}
    /\ ProcessBlock(handling.block, handling.force)
    /\ IF handling.step = "process" THEN handling' = Idle
       ELSE Handle(handling.peer, handling.block, FALSE, "clear")
    /\ UNCHANGED <<nodes, known, common, syncStarted, flight, outside>>

HandleClear ==
    /\ handling.step = "clear"
    /\ flight' = IF handling.block \in have THEN MarkBlockAsReceived(flight, handling.block)
                 ELSE flight
    /\ handling' = Idle
    /\ UNCHANGED <<index, nodes, known, common, syncStarted, outside>>

\* Misbehaving by 100, for which whitelisted peers are not disconnected.
Punish(p, invalid) ==
    /\ invalid => p \notin Honest
    /\ fDisconnect' = IF invalid /\ p \notin NoBan THEN fDisconnect \cup {p} ELSE fDisconnect
    /\ UNCHANGED <<connected, gone>>

\* A compact block whose header is accepted.
Compact(p, b) ==
    /\ Served(p) /\ b \in Announced(p)
    /\ Prev[b] \in headers
    /\ AcceptHeaders(b)
    /\ UpdateBlockAvailability(p, b)
    /\ UNCHANGED <<have, failed, tip, ibd, common, syncStarted, outside>>

InFlight(b) == flight.from[b] # None
Useful(b) == b \notin have /\ Height[b] > Height[tip] /\ (InFlight(b) \/ CanDirectFetch)
Near(b) == Height[b] <= Height[tip] + CompactAhead
MayAsk(p, b) ==
    IF InFlight(b) THEN flight.from[b] = p ELSE flight.count[p] < MaxInTransit

\* Nothing to do, or the whole block is asked for instead.
CompactInstead(p, b) ==
    /\ ~Useful(b) \/ (~Near(b) /\ InFlight(b))
    /\ Compact(p, b)
    /\ UNCHANGED <<nodes, flight, handling>>

\* The block becomes in flight from p, or already is: InitData is complete, needs
\* transactions, fails, or finds the message invalid.
CompactPartial(p, b, status) ==
    LET s == [MarkBlockAsInFlight(flight, p, b) EXCEPT !.partial = @ \cup {b}]
    IN  /\ Useful(b) /\ Near(b) /\ MayAsk(p, b) /\ b \notin flight.partial
        /\ Compact(p, b)
        /\ flight' = IF status \in {"complete", "invalid"} THEN MarkBlockAsReceived(s, b) ELSE s
        /\ IF status = "complete" THEN Handle(p, b, TRUE, "process") ELSE UNCHANGED handling
        /\ Punish(p, status = "invalid")

\* Already syncing, or asked from another peer and not complete as it is.
CompactIgnored(p, b) ==
    /\ Useful(b) /\ Near(b) /\ (MayAsk(p, b) => b \in flight.partial)
    /\ Compact(p, b)
    /\ UNCHANGED <<nodes, flight, handling>>

\* Asked from another peer, but complete as it is.
CompactReconstructed(p, b) ==
    /\ Useful(b) /\ Near(b) /\ ~MayAsk(p, b)
    /\ Compact(p, b)
    /\ Handle(p, b, TRUE, "process and clear")
    /\ UNCHANGED <<nodes, flight>>

\* Too far ahead: treated as a header.
CompactFar(p, b) ==
    /\ Useful(b) /\ ~Near(b) /\ ~InFlight(b)
    /\ Compact(p, b)
    /\ DirectFetch(p, b)
    /\ UNCHANGED <<nodes, handling>>

\* The transactions of a partial block complete it, collide with others, so that the
\* whole block is asked for, or do not match it.
BlockTxn(p, b, status) ==
    /\ Served(p)
    /\ flight.from[b] = p /\ b \in flight.partial
    /\ flight' = IF status = "failed" THEN flight ELSE MarkBlockAsReceived(flight, b)
    /\ IF status = "complete" THEN Handle(p, b, TRUE, "process") ELSE UNCHANGED handling
    /\ Punish(p, status = "invalid")
    /\ UNCHANGED <<index, known, common, syncStarted, outside>>

-----------------------------------------------------------------------------
(* The other threads                                                        *)

\* InitializeNode and the version handshake.
InitializeNode(p) ==
    /\ p \notin connected \cup gone
    /\ connected' = connected \cup {p}
    /\ UNCHANGED <<index, fDisconnect, gone, known, common, syncStarted, flight, handling, outside>>

\* The peer closes the connection, or is punished or evicted.
Disconnect(p) ==
    /\ p \in connected \ (fDisconnect \cup Honest)
    /\ fDisconnect' = fDisconnect \cup {p}
    /\ UNCHANGED <<index, connected, gone, known, common, syncStarted, flight, handling, outside>>

\* The socket thread deletes a node that the message thread does not hold.
FinalizeNode(p) ==
    /\ p \in fDisconnect /\ handling.peer # p
    /\ connected' = connected \ {p} /\ fDisconnect' = fDisconnect \ {p}
    /\ gone' = gone \cup {p}
    /\ best' = [best EXCEPT ![p] = None] /\ unknown' = [unknown EXCEPT ![p] = None]
    /\ common' = [common EXCEPT ![p] = None]
    /\ syncStarted' = syncStarted \ {p}
    /\ flight' = EraseNode(flight, p)
    /\ UNCHANGED <<index, handling, outside>>

\* A block of our own, on top of our chain.
SubmitBlock(b) ==
    /\ b \in Own \ have /\ Prev[b] = tip
    /\ ProcessBlock(b, TRUE)
    /\ UNCHANGED <<nodes, known, common, syncStarted, flight, handling, outside>>

Message(p, b) ==
    \/ HeaderAnnounced(p, b) \/ Inv(p, b) \/ BlockMessage(p, b)
    \/ CompactInstead(p, b) \/ CompactIgnored(p, b)
    \/ \E status \in {"complete", "missing", "failed", "invalid"} : CompactPartial(p, b, status)
    \/ CompactReconstructed(p, b) \/ CompactFar(p, b)
    \/ \E status \in {"complete", "failed", "invalid"} : BlockTxn(p, b, status)

Next ==
    \/ \E p \in Peer :
        \/ SendMessages(p) \/ SendMessagesResync(p) \/ SendMessagesTimeout(p)
        \/ Headers(p)
        \/ InitializeNode(p) \/ Disconnect(p) \/ FinalizeNode(p)
        \/ Served(p) /\ \E b \in Announced(p) : Message(p, b)
    \/ HandleBlock \/ HandleClear
    \/ \E b \in Own : SubmitBlock(b)

Spec == Init /\ [][Next]_vars

\* The message thread serves every peer in each of its rounds; timeouts pass, and the
\* socket thread deletes nodes.  An honest peer connects, sends its headers when asked,
\* and the blocks that were asked from it.
Serves(p) ==
    /\ StartsSync(p) \/ Height[tip] < Height[peerTip[p]]
    /\ SendMessages(p)
TimePasses(p) == SendMessagesTimeout(p) \/ SendMessagesResync(p) \/ FinalizeNode(p)
Answers(p) ==
    \/ p \in syncStarted /\ best[p] # peerTip[p] /\ Headers(p)
    \/ \E b \in flight.queue[p] : BlockMessage(p, b)
FairSpec ==
    /\ Spec
    /\ WF_vars(HandleBlock \/ HandleClear)
    /\ \A p \in Peer \ Honest : SF_vars(TimePasses(p))
    /\ \A p \in Honest : WF_vars(InitializeNode(p)) /\ SF_vars(Serves(p)) /\ SF_vars(Answers(p))

-----------------------------------------------------------------------------
\* mapBlocksInFlight, the queues of the nodes and the counters tell one story, and
\* FinalizeNode finds them empty after the last node: a block is in flight from one
\* connected peer, once, and a peer has no more of them than it may.
InFlightAgrees ==
    /\ \A p \in Peer :
        /\ flight.queue[p] = {b \in Block : flight.from[b] = p}
        /\ flight.count[p] = Cardinality(flight.queue[p])
        /\ flight.count[p] <= MaxInTransit
        /\ flight.queue[p] # {} => p \in connected
    /\ flight.partial \subseteq {b \in Block : InFlight(b)}
    /\ flight.peers = Cardinality({p \in Peer : flight.queue[p] # {}})

\* A peer is only taken to stall the download, and disconnected for it after two
\* seconds, while a block is in flight from it.
StallersOwe == \A p \in flight.stalling : flight.queue[p] # {}

\* "The last full block we both have" (pindexLastCommonBlock): all the data up to it is
\* here, so that the walk misses nothing below it.
CommonIsFull == \A p \in Peer : common[p] # None => HaveTxsDownloaded(common[p])

\* A whitelisted peer sends a compact block that cannot be decoded.
Undecodable ==
    \E p \in NoBan, b \in Block : CompactPartial(p, b, "invalid") \/ BlockTxn(p, b, "invalid")

\* A peer that announces blocks and does not send them, or starts the download of the
\* headers and does not go on, does not keep the node from the chain of an honest one.
\* Left out is a whitelisted peer that sends compact blocks that cannot be decoded for
\* ever: it is not disconnected, and its time starts anew with each of them.
Synced ==
    <>[][~Undecodable]_vars => <>[](\A p \in Honest : Height[tip] >= Height[peerTip[p]])
=============================================================================
