----------------------------- MODULE CoinsCache -----------------------------
(***************************************************************************)
(* The stack of coins views of coins.cpp: the coin database (CCoinsViewDB), *)
(* the cache in memory above it (CoinsTip), and the short-lived cache above *)
(* that one in which ConnectTip and DisconnectTip apply or undo one block.  *)
(*                                                                         *)
(* A cache holds entries flagged DIRTY (differs from the base) and FRESH    *)
(* (the base has no unspent coin, so a spent entry can simply be dropped).  *)
(* Flushing writes the DIRTY entries only.  The flags are an optimisation   *)
(* and a wrong one loses or resurrects coins, so the module is shown to     *)
(* implement the plain map of module UtxoSet.                               *)
(*                                                                         *)
(* cs_main is held from the creation of the view to its flush, so no other  *)
(* user of CoinsTip runs while a view is open.                              *)
(***************************************************************************)
CONSTANTS
    Outpoint,   \* COutPoint values
    Coin,       \* contents of an unspent Coin
    Spent,      \* Coin::IsSpent(): an entry without an output
    Absent,     \* cacheCoins.find(outpoint) == cacheCoins.end()
    Block       \* block hashes

VARIABLES
    db,         \* the coin database
    dbBest,     \* DB_BEST_BLOCK
    tip,        \* CoinsTip().cacheCoins
    tipBest,    \* CoinsTip().hashBlock
    view,       \* cacheCoins of the view of ConnectTip / DisconnectTip
    viewBest,   \* its hashBlock
    open        \* whether that view exists

vars == <<db, dbBest, tip, tipBest, view, viewBest, open>>

\* CCoinsCacheEntry
Entry == [coin : Coin \cup {Spent}, dirty : BOOLEAN, fresh : BOOLEAN]

ASSUME CoinsAssumption == Spent \notin Coin /\ Absent \notin Entry

Map == [Outpoint -> Coin \cup {Spent}]
Cache == [Outpoint -> Entry \cup {Absent}]
EmptyCache == [o \in Outpoint |-> Absent]

TypeOK ==
    /\ db \in Map
    /\ tip \in Cache
    /\ view \in Cache
    /\ {dbBest, tipBest, viewBest} \subseteq Block
    /\ open \in BOOLEAN

-----------------------------------------------------------------------------
(* Reading through a cache.                                                *)

\* CCoinsViewCache::GetCoin: the entry if there is one, else the base's answer.
GetCoin(cache, base, o) == IF cache[o] = Absent THEN base[o] ELSE cache[o].coin

\* The map a cache over a base stands for.
Visible(cache, base) == [o \in Outpoint |-> GetCoin(cache, base, o)]

\* The contents of CoinsTip, and of the view above it.
TipMap == Visible(tip, db)
ViewMap == Visible(view, TipMap)

\* CCoinsViewCache::FetchCoin: a coin found in the base is copied, unflagged.
\* GetCoin of a base never reports a spent coin as found, so nothing else is.
FetchCoin(cache, base, o) ==
    IF cache[o] # Absent \/ base[o] = Spent
    THEN cache
    ELSE [cache EXCEPT ![o] = [coin |-> base[o], dirty |-> FALSE, fresh |-> FALSE]]

\* FetchCoin of the view asks CoinsTip only for what the view lacks, and
\* CoinsTip then fetches from the database.
FetchThrough(o) == IF view[o] # Absent THEN tip ELSE FetchCoin(tip, db, o)

-----------------------------------------------------------------------------
(* Writing into a cache.                                                   *)

\* Mutant of AddedEntry: FRESH even over an entry whose spend is still unwritten.
MutantAlwaysFresh(old, c, possibleOverwrite) ==
    [coin |-> c, dirty |-> TRUE,
     fresh |-> (old # Absent /\ old.fresh) \/ ~possibleOverwrite]

\* CCoinsViewCache::AddCoin.  A new entry is FRESH unless a previous DIRTY
\* one may still have to reach the base.  Unspendable outputs, for which the
\* code returns early, are not outpoints of the map.
AddedEntry(old, c, possibleOverwrite) ==
    LET wasDirty == old # Absent /\ old.dirty
        wasFresh == old # Absent /\ old.fresh
    IN  [coin |-> c, dirty |-> TRUE,
         fresh |-> wasFresh \/ (~possibleOverwrite /\ ~wasDirty)]

\* Mutant of SpentEntry: the spent entry is not flagged DIRTY.
MutantSpendKeepsClean(old) ==
    IF old.fresh THEN Absent ELSE [coin |-> Spent, dirty |-> old.dirty, fresh |-> FALSE]

\* CCoinsViewCache::SpendCoin on an entry that was found.
SpentEntry(old) ==
    IF old.fresh THEN Absent ELSE [coin |-> Spent, dirty |-> TRUE, fresh |-> FALSE]

\* CCoinsViewCache::BatchWrite: one entry of the child merged into the parent.
\* A FRESH flag of the child is not copied onto an entry the parent has: the
\* pruned state of that entry may still have to reach the grandparent.
MergedEntry(child, parent) ==
    IF child = Absent \/ ~child.dirty THEN parent
    ELSE IF child.coin = Spent /\ (IF parent = Absent THEN child.fresh ELSE parent.fresh)
    THEN Absent
    ELSE [coin |-> child.coin, dirty |-> TRUE,
          fresh |-> IF parent = Absent THEN child.fresh ELSE parent.fresh]

\* Mutant of Written: a spent coin is not erased.
MutantNoErase(entry, stored) ==
    IF entry = Absent \/ ~entry.dirty \/ entry.coin = Spent THEN stored ELSE entry.coin

\* CCoinsViewDB::BatchWrite: a DIRTY entry is written, or erased when spent.
Written(entry, stored) ==
    IF entry = Absent \/ ~entry.dirty THEN stored ELSE entry.coin

-----------------------------------------------------------------------------
Init ==
    /\ db = [o \in Outpoint |-> Spent]
    /\ dbBest \in Block
    /\ tip = EmptyCache
    /\ tipBest = dbBest
    /\ view = EmptyCache
    /\ viewBest = dbBest
    /\ open = FALSE

\* ConnectTip and DisconnectTip create a view over CoinsTip and read its best block.
OpenView ==
    /\ ~open
    /\ open' = TRUE
    /\ viewBest' = tipBest
    /\ UNCHANGED <<db, dbBest, tip, tipBest, view>>

\* HaveCoin and AccessCoin on the view, as the input checks and the search
\* for overwritten outputs do.
ViewFetch(o) ==
    /\ open
    /\ tip' = FetchThrough(o)
    /\ view' = FetchCoin(view, TipMap, o)
    /\ UNCHANGED <<db, dbBest, tipBest, viewBest, open>>

\* AddCoin with possible_overwrite unset: only once HaveCoin said no.
ViewAddNew(o, c) ==
    /\ open
    /\ ViewMap[o] = Spent
    /\ view' = [view EXCEPT ![o] = AddedEntry(@, c, FALSE)]
    /\ UNCHANGED <<db, dbBest, tip, tipBest, viewBest, open>>

\* AddCoin with possible_overwrite set (coinbases, restored inputs).
ViewAddOverwrite(o, c) ==
    /\ open
    /\ view' = [view EXCEPT ![o] = AddedEntry(@, c, TRUE)]
    /\ UNCHANGED <<db, dbBest, tip, tipBest, viewBest, open>>

\* SpendCoin: fetch, then mark spent; nothing happens when no entry is found.
ViewSpend(o) ==
    /\ open
    /\ tip' = FetchThrough(o)
    /\ LET fetched == FetchCoin(view, TipMap, o)
       IN  view' = IF fetched[o] = Absent THEN fetched
                   ELSE [fetched EXCEPT ![o] = SpentEntry(@)]
    /\ UNCHANGED <<db, dbBest, tipBest, viewBest, open>>

\* SetBestBlock, Flush into CoinsTip and the end of the view.
CommitView(b) ==
    /\ open
    /\ tip' = [o \in Outpoint |-> MergedEntry(view[o], tip[o])]
    /\ tipBest' = b
    /\ viewBest' = b
    /\ view' = EmptyCache
    /\ open' = FALSE
    /\ UNCHANGED <<db, dbBest>>

\* ConnectBlock or DisconnectBlock failed: the view is destroyed unflushed.
DropView ==
    /\ open
    /\ view' = EmptyCache
    /\ viewBest' = tipBest
    /\ open' = FALSE
    /\ UNCHANGED <<db, dbBest, tip, tipBest>>

\* HaveCoin on CoinsTip, through the view of the mempool.
TipFetch(o) ==
    /\ ~open
    /\ tip' = FetchCoin(tip, db, o)
    /\ UNCHANGED <<db, dbBest, tipBest, view, viewBest, open>>

\* Uncache: an unflagged entry is dropped, a flagged one stays.
Uncache(o) ==
    /\ ~open
    /\ tip[o] # Absent
    /\ ~tip[o].dirty /\ ~tip[o].fresh
    /\ tip' = [tip EXCEPT ![o] = Absent]
    /\ UNCHANGED <<db, dbBest, tipBest, view, viewBest, open>>

\* CoinsTip().Flush() by FlushStateToDisk; the cache is emptied.
FlushTip ==
    /\ ~open
    /\ db' = [o \in Outpoint |-> Written(tip[o], db[o])]
    /\ dbBest' = tipBest
    /\ tip' = EmptyCache
    /\ UNCHANGED <<tipBest, view, viewBest, open>>

\* The process dies and starts again: both caches are gone.
Crash ==
    /\ tip' = EmptyCache
    /\ tipBest' = dbBest
    /\ view' = EmptyCache
    /\ viewBest' = dbBest
    /\ open' = FALSE
    /\ UNCHANGED <<db, dbBest>>

Next ==
    \/ OpenView
    \/ \E o \in Outpoint : ViewFetch(o)
    \/ \E o \in Outpoint, c \in Coin : ViewAddNew(o, c)
    \/ \E o \in Outpoint, c \in Coin : ViewAddOverwrite(o, c)
    \/ \E o \in Outpoint : ViewSpend(o)
    \/ \E b \in Block : CommitView(b)
    \/ DropView
    \/ \E o \in Outpoint : TipFetch(o)
    \/ \E o \in Outpoint : Uncache(o)
    \/ FlushTip
    \/ Crash

Spec == Init /\ [][Next]_vars

-----------------------------------------------------------------------------
(* Properties.                                                             *)

\* The FRESH flag is never misapplied: an entry carries it only while the
\* base really has no unspent coin.  This is what keeps the logic_error of
\* CCoinsViewCache::BatchWrite from being thrown, and a spent FRESH entry
\* from being dropped while the base still holds the coin.
FreshIsSound ==
    \A o \in Outpoint :
        /\ tip[o] # Absent /\ tip[o].fresh => db[o] = Spent
        /\ view[o] # Absent /\ view[o].fresh => TipMap[o] = Spent

\* An entry that is not DIRTY says what its base says, so that Flush may skip
\* it and Uncache may drop it.
CleanMatchesBase ==
    \A o \in Outpoint :
        /\ tip[o] # Absent /\ ~tip[o].dirty => tip[o].coin = db[o]
        /\ view[o] # Absent /\ ~view[o].dirty => view[o].coin = TipMap[o]

\* The stack of caches behaves as one plain map of coins that moves together
\* with its best block: fetching, uncaching and the choice of what a flush
\* writes are invisible, and a flush makes the whole map durable.
Utxo == INSTANCE UtxoSet WITH
            utxo <- TipMap, best <- tipBest,
            draft <- ViewMap, draftBest <- viewBest,
            durable <- [map |-> db, best |-> dbBest]

ImplementsUtxoSet == Utxo!Spec
=============================================================================
