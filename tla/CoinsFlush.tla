----------------------------- MODULE CoinsFlush -----------------------------
(***************************************************************************)
(* Writing the coin database in batches, and recovery from a crash between   *)
(* two of them: CCoinsViewDB::BatchWrite (txdb.cpp), ReplayBlocks,           *)
(* RollforwardBlock and DisconnectBlock (validation.cpp).  The cache of a    *)
(* running node holds the coins of its tip (module CoinsCache).              *)
(***************************************************************************)
EXTENDS Integers, Sequences, FiniteSetsExt

CONSTANTS
    Block, Genesis,
    Prev, Anc, Height,  \* the tree of blocks, as in Chainstate
    Txs,                \* the transactions of a block: a sequence of [in, out]
    Outpoint,
    None                \* no coin, no block

ASSUME TreeAssumption ==
    /\ Genesis \in Block /\ None \notin Block /\ None \notin Nat
    /\ Prev \in [Block \ {Genesis} -> Block]
    /\ Anc \in [Block -> SUBSET Block] /\ Anc[Genesis] = {Genesis}
    /\ Height \in [Block -> Nat] /\ Height[Genesis] = 0
    /\ \A b \in Block \ {Genesis} : /\ Anc[b] = {b} \cup Anc[Prev[b]]
                                    /\ Height[b] = Height[Prev[b]] + 1

ASSUME TxAssumption ==
    /\ Txs \in [Block -> Seq([in : SUBSET Outpoint, out : SUBSET Outpoint])]
    /\ Txs[Genesis] = <<>>

VARIABLES
    db,       \* the coins of the database
    best,     \* DB_BEST_BLOCK
    heads,    \* DB_HEAD_BLOCKS: empty, or the new and the old tip
    mode,     \* "up", "replay" or "down"
    tip,      \* the best block of the cache
    view,     \* the cache of ReplayBlocks
    writing,  \* BatchWrite is under way
    todo      \* the entries it has yet to write

vars == <<db, best, heads, mode, tip, view, writing, todo>>

Coin == Nat \cup {None}  \* a coin is told by the height it was created at
Empty == [o \in Outpoint |-> None]

TypeOK ==
    /\ db \in [Outpoint -> Coin] /\ view \in [Outpoint -> Coin]
    /\ best \in Block \cup {None}
    /\ heads = <<>> \/ heads \in Block \X (Block \cup {None})
    /\ mode \in {"up", "replay", "down"}
    /\ tip \in Block
    /\ writing \in BOOLEAN /\ todo \subseteq Outpoint

-----------------------------------------------------------------------------
(* The effect of a block on a set of coins.  A loop that spends and adds      *)
(* coins is the sequence of what it writes, a function from outpoints each.   *)

\* After a sequence of writes the last one to an outpoint is what counts ...
Writes(log) ==
    [o \in UNION {DOMAIN log[i] : i \in DOMAIN log} |->
        log[Max({i \in DOMAIN log : o \in DOMAIN log[i]})][o]]

\* ... and an outpoint that none of them touches keeps its coin.
Written(coins, log) ==
    [o \in Outpoint |-> IF o \in DOMAIN Writes(log) THEN Writes(log)[o] ELSE coins[o]]

Touched(tx) == tx.in \cup tx.out

\* RollforwardBlock, and ConnectBlock as far as the coins go: the inputs of
\* each transaction are spent and its outputs added, whatever was there.
RollTx(b, i) ==
    [o \in Touched(Txs[b][i]) |-> IF o \in Txs[b][i].out THEN Height[b] ELSE None]
Rollforward == [b \in Block |-> Writes([i \in DOMAIN Txs[b] |-> RollTx(b, i)])]

GetAncestor(b, height) == CHOOSE a \in Anc[b] : Height[a] = height

\* The coins a node has after connecting the chain that ends in b.
Utxo ==
    [b \in Block |-> Written(Empty, [h \in 1..Height[b] |-> Rollforward[GetAncestor(b, h)]])]

\* An output is not added over a coin that is there (BIP30).
ASSUME OutputsAreNew ==
    \A b \in Block \ {Genesis} : \A i \in DOMAIN Txs[b] :
        \A o \in Txs[b][i].out : Utxo[Prev[b]][o] = None

\* The undo record of an input: what the transaction spent in ConnectBlock.
UndoCoin(b, i, o) ==
    IF \E j \in 1..(i - 1) : o \in Txs[b][j].out THEN Height[b] ELSE Utxo[Prev[b]][o]

UndoTx(b, i) ==
    [o \in Touched(Txs[b][i]) |-> IF o \in Txs[b][i].in THEN UndoCoin(b, i, o) ELSE None]

\* Mutant: the transactions are undone first to last.
MutantUndoForward == [b \in Block |-> Writes([i \in DOMAIN Txs[b] |-> UndoTx(b, i)])]
\* DisconnectBlock: last transaction first, outputs are removed and inputs
\* restored, whatever was there (DISCONNECT_UNCLEAN is not an error here).
DisconnectBlock ==
    [b \in Block |-> Writes([i \in DOMAIN Txs[b] |-> UndoTx(b, Len(Txs[b]) + 1 - i)])]

LastCommonAncestor(a, b) ==
    CHOOSE c \in Anc[a] \cap Anc[b] : \A d \in Anc[a] \cap Anc[b] : Height[d] <= Height[c]

\* ReplayBlocks: back from the old tip to the fork, on to the new tip.
Fork(new, old) == IF old = None THEN Genesis ELSE LastCommonAncestor(old, new)
OldBranch(new, old) ==
    IF old = None THEN <<>>
    ELSE [i \in 1..(Height[old] - Height[Fork(new, old)]) |-> GetAncestor(old, Height[old] + 1 - i)]
\* Mutant: the new tip itself is left out.
MutantShortOfTip(new, old) ==
    LET start == Height[Fork(new, old)]
    IN  [i \in 1..(Height[new] - start - 1) |-> GetAncestor(new, start + i)]
NewBranch(new, old) ==
    LET start == Height[Fork(new, old)]
    IN  [i \in 1..(Height[new] - start) |-> GetAncestor(new, start + i)]
Replayed(coins, new, old) ==
    LET back == OldBranch(new, old)
        forth == NewBranch(new, old)
    IN  Written(Written(coins, [i \in DOMAIN back |-> DisconnectBlock[back[i]]]),
                [i \in DOMAIN forth |-> Rollforward[forth[i]]])

-----------------------------------------------------------------------------
\* A node with an empty coin database activates the genesis block.
Init ==
    /\ db = Empty /\ best = None /\ heads = <<>>
    /\ mode = "up" /\ tip = Genesis
    /\ view = Empty /\ writing = FALSE /\ todo = {}

ConnectTip(b) ==
    /\ mode = "up" /\ ~writing
    /\ Prev[b] = tip
    /\ tip' = b
    /\ UNCHANGED <<db, best, heads, mode, view, writing, todo>>

DisconnectTip ==
    /\ mode = "up" /\ ~writing
    /\ tip # Genesis
    /\ tip' = Prev[tip]
    /\ UNCHANGED <<db, best, heads, mode, view, writing, todo>>

Cache == IF mode = "replay" THEN view ELSE Utxo[tip]

\* BatchWrite is called by Flush.  The dirty entries that differ from the
\* database are the ones that matter.
BeginWrite ==
    /\ mode # "down" /\ ~writing
    /\ writing' = TRUE
    /\ todo' = {o \in Outpoint : Cache[o] # db[o]}
    /\ UNCHANGED <<db, best, heads, mode, tip, view>>

\* The tip the database leaves: the one a replay started from, in a replay.
OldTip == IF best # None THEN best ELSE IF heads # <<>> THEN heads[2] ELSE None

\* A batch is full and is written; the first one marks the transition.
WriteBatch(entries) ==
    /\ writing
    /\ entries # {} /\ entries \subseteq todo
    /\ db' = [o \in Outpoint |-> IF o \in entries THEN Cache[o] ELSE db[o]]
    /\ best' = None
    /\ heads' = <<tip, OldTip>>
    /\ todo' = todo \ entries
    /\ UNCHANGED <<mode, tip, view, writing>>

\* The last batch removes the mark.
\* Mutant: the entries left over are not in it.
MutantDropRest ==
    /\ writing
    /\ db' = db
    /\ best' = tip /\ heads' = <<>>
    /\ mode' = "up" /\ view' = Empty /\ writing' = FALSE /\ todo' = {}
    /\ UNCHANGED tip
WriteLastBatch ==
    /\ writing
    /\ db' = [o \in Outpoint |-> IF o \in todo THEN Cache[o] ELSE db[o]]
    /\ best' = tip /\ heads' = <<>>
    /\ mode' = "up" /\ view' = Empty /\ writing' = FALSE /\ todo' = {}
    /\ UNCHANGED tip

Crash ==
    /\ mode # "down"
    /\ mode' = "down"
    /\ tip' = Genesis /\ view' = Empty /\ writing' = FALSE /\ todo' = {}
    /\ UNCHANGED <<db, best, heads>>

\* Start-up: ReplayBlocks has nothing to do, LoadChainTip takes the best block.
LoadChainTip ==
    /\ mode = "down"
    /\ heads = <<>>
    /\ mode' = "up"
    /\ tip' = IF best = None THEN Genesis ELSE best
    /\ UNCHANGED <<db, best, heads, view, writing, todo>>

\* Start-up in the middle of a transition.  The result is flushed next.
\* Mutant: the two heads are taken in the wrong order.
MutantHeadsSwapped ==
    /\ mode = "down"
    /\ heads # <<>>
    /\ mode' = "replay"
    /\ tip' = IF heads[2] = None THEN Genesis ELSE heads[2]
    /\ view' = Replayed(db, tip', heads[1])
    /\ UNCHANGED <<db, best, heads, writing, todo>>
ReplayBlocks ==
    /\ mode = "down"
    /\ heads # <<>>
    /\ mode' = "replay"
    /\ tip' = heads[1]
    /\ view' = Replayed(db, heads[1], heads[2])
    /\ UNCHANGED <<db, best, heads, writing, todo>>

Next ==
    \/ \E b \in Block \ {Genesis} : ConnectTip(b)
    \/ DisconnectTip
    \/ BeginWrite
    \/ \E entries \in SUBSET Outpoint : WriteBatch(entries)
    \/ WriteLastBatch
    \/ Crash
    \/ LoadChainTip
    \/ ReplayBlocks

Spec == Init /\ [][Next]_vars

-----------------------------------------------------------------------------
\* A database that names its best block holds exactly the coins of that block.
DbMatchesBest ==
    /\ best # None => db = Utxo[best] /\ heads = <<>>
    /\ best = None /\ heads = <<>> => db = Empty

\* After a crash at any point of a flush, of a replay, or of the flush at the
\* end of a replay, replaying the marked transition gives the coins of the new tip.
ReplayRecovers == heads # <<>> => Replayed(db, heads[1], heads[2]) = Utxo[heads[1]]

\* BatchWrite asserts, in a replay, that the transition is the marked one.
ReplaySameHead == mode = "replay" => heads # <<>> /\ heads[1] = tip

\* Batches and replays together are a flush that happens at once: it takes
\* effect with the first batch, after which a replay completes it.
Atomic == INSTANCE AtomicFlush WITH
    running <- mode = "up",
    tip     <- IF mode = "up" THEN tip ELSE None,
    saved   <- IF heads # <<>> THEN heads[1] ELSE IF best = None THEN Genesis ELSE best,
    coins   <- IF heads # <<>> THEN Replayed(db, heads[1], heads[2]) ELSE db
FlushIsAtomic == Atomic!Spec
=============================================================================
