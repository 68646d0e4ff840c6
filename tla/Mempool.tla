------------------------------ MODULE Mempool ------------------------------
(***************************************************************************)
(* The pool of unconfirmed transactions (txmempool.cpp) and what moves it:  *)
(* acceptance, blocks connected and disconnected, prioritisation, expiry    *)
(* and eviction (validation.cpp).  Every operation runs under cs_main and   *)
(* mempool.cs, so it is one action; inside it the pool passes through       *)
(* states whose links are incomplete, and the operations on it (pure        *)
(* operators here, from pool to pool) are applied in the order of the code. *)
(* A transaction has size one, so the size limits are the count limits and  *)
(* a fee rate is a fee; relative lock times, standardness and scripts, which  *)
(* are checked on a transaction and the coins it spends, are left out.      *)
(***************************************************************************)
EXTENDS Integers, FiniteSets, Sequences, SequencesExt, FiniteSetsExt, TLC

CONSTANTS
    Tx, Coinbase,       \* the transactions, the coinbase ones among them
    Vin,                \* the outpoints <<t, n>> that each one spends, in order
    Vout,               \* how many outputs it has
    Fee, Replaceable,   \* its fee, those that opt in to replacement
    LockTime,           \* the height that a block after it must have
    Block, Genesis, Prev, Anc, Height,
    Vtx,                \* the transactions of each block, in order
    Maturity,           \* COINBASE_MATURITY
    AncestorLimit, DescendantLimit,     \* -limitancestorcount, -limitdescendantcount
    MaxReplaced,        \* maxDescendantsToVisit
    MaxPool,            \* -maxmempool
    MaxDisconnected,    \* MAX_DISCONNECTED_TX_POOL_SIZE
    MaxDelta            \* a bound on prioritisation

VARIABLES
    tip,        \* ChainActive().Tip()
    mempool     \* CTxMemPool: mapTx with mapLinks, mapNextTx and mapDeltas

vars == <<tip, mempool>>

Prevouts(t) == Range(Vin[t])
Outpoints(t) == {<<t, n>> : n \in 1..Vout[t]}
Creators(t) == {o[1] : o \in Prevouts(t)}

Pool(m) == DOMAIN m.mapTx
EmptyPool == [mapTx |-> <<>>, mapNextTx |-> <<>>, mapDeltas |-> [t \in Tx |-> 0]]

Total == [count : Nat, fees : Int]
TypeOK ==
    /\ tip \in Block
    /\ Pool(mempool) \subseteq Tx \ Coinbase
    /\ \A t \in Pool(mempool) :
           mempool.mapTx[t] \in [parents : SUBSET Pool(mempool), children : SUBSET Pool(mempool),
                                 fee : Int, anc : Total, desc : Total]
    /\ mempool.mapNextTx \in [DOMAIN mempool.mapNextTx -> Pool(mempool)]
    /\ mempool.mapDeltas \in [Tx -> 0..MaxDelta]

Init == tip = Genesis /\ mempool = EmptyPool

-----------------------------------------------------------------------------
(* The chain: external to the pool                                          *)

Confirmed(b) == UNION {Range(Vtx[a]) : a \in Anc[b]}
Coins(b) == UNION {Outpoints(t) : t \in Confirmed(b)} \ UNION {Prevouts(t) : t \in Confirmed(b)}
CoinHeight(b, t) == Height[CHOOSE a \in Anc[b] : t \in Range(Vtx[a])]
Mature(b, o) == o[1] \in Coinbase => Height[b] + 1 - CoinHeight(b, o[1]) >= Maturity
Final(b, t) == LockTime[t] <= Height[b]
LastCommonAncestor(a, b) ==
    CHOOSE c \in Anc[a] \cap Anc[b] : \A d \in Anc[a] \cap Anc[b] : Height[d] <= Height[c]

-----------------------------------------------------------------------------
(* Walks over the links of the pool                                         *)

RECURSIVE Closure(_, _)
Closure(next, S) ==
    LET more == S \cup UNION {next[t] : t \in S}
    IN  IF more = S THEN S ELSE Closure(next, more)

Parents(m) == [t \in Pool(m) |-> m.mapTx[t].parents]
Children(m) == [t \in Pool(m) |-> m.mapTx[t].children]
CalculateDescendants(m, S) == Closure(Children(m), S)
\* CalculateMemPoolAncestors of an entry: without limits, along the links.
LinkedAncestors(m, t) == Closure(Parents(m), m.mapTx[t].parents)
\* CalculateMemPoolAncestors of a transaction that is about to enter.
MemPoolAncestors(m, t) == Closure(Parents(m), Creators(t) \cap Pool(m))
WithinLimits(m, t, ancestorLimit, descendantLimit) ==
    /\ Cardinality(MemPoolAncestors(m, t)) + 1 <= ancestorLimit
    /\ \A a \in MemPoolAncestors(m, t) : m.mapTx[a].desc.count + 1 <= descendantLimit

FeesOf(m, S) == MapThenSumSet(LAMBDA t : m.mapTx[t].fee, S)
Plus(total, m, S) ==
    [count |-> total.count + Cardinality(S), fees |-> total.fees + FeesOf(m, S)]
Minus(total, m, S) ==
    [count |-> total.count - Cardinality(S), fees |-> total.fees - FeesOf(m, S)]

-----------------------------------------------------------------------------
(* Adding and removing                                                      *)

addUnchecked(m, t, ancestors) ==
    LET fee == Fee[t] + m.mapDeltas[t]
        parents == Creators(t) \cap Pool(m)
        own == [count |-> 1, fees |-> fee]
        new == [parents |-> parents, children |-> {}, fee |-> fee,
                anc |-> Plus(own, m, ancestors), desc |-> own]
        With(u) == [m.mapTx[u] EXCEPT
                       !.children = IF u \in parents THEN @ \cup {t} ELSE @,
                       !.desc = IF u \in ancestors
                                THEN [count |-> @.count + 1, fees |-> @.fees + fee] ELSE @]
    IN  [m EXCEPT !.mapTx = [u \in Pool(m) |-> With(u)] @@ (t :> new),
                  !.mapNextTx = @ @@ [o \in Prevouts(t) |-> t]]

\* UpdateForRemoveFromMempool: the links are read as they are when it starts, those that
\* a reorganization has not yet completed included.
UpdateForRemoveFromMempool(m, S, updateDescendants) ==
    LET Without(t) ==
            [m.mapTx[t] EXCEPT
                !.parents = @ \ {r \in S : t \in m.mapTx[r].children},
                !.children = @ \ {r \in S : t \in m.mapTx[r].parents},
                !.desc = Minus(@, m, {r \in S : t \in LinkedAncestors(m, r)}),
                !.anc = IF updateDescendants
                        THEN Minus(@, m, {r \in S : t \in CalculateDescendants(m, {r})}) ELSE @]
    IN  [t \in Pool(m) \ S |-> Without(t)]

\* removeUnchecked of each.
RemoveStaged(m, S, updateDescendants) ==
    LET spent == UNION {Prevouts(t) : t \in S}
    IN  [m EXCEPT !.mapTx = UpdateForRemoveFromMempool(m, S, updateDescendants),
                  !.mapNextTx = [o \in DOMAIN m.mapNextTx \ spent |-> m.mapNextTx[o]]]

SpendersOf(m, t) == {m.mapNextTx[o] : o \in Outpoints(t) \cap DOMAIN m.mapNextTx}
\* Mutant: only what is in the pool itself is removed.
MutantOnlyItself(m, t) ==
    RemoveStaged(m, CalculateDescendants(m, {t} \cap Pool(m)), FALSE)
removeRecursive(m, t) ==
    LET roots == IF t \in Pool(m) THEN {t} ELSE SpendersOf(m, t)
    IN  RemoveStaged(m, CalculateDescendants(m, roots), FALSE)

ClearPrioritisation(m, t) == [m EXCEPT !.mapDeltas[t] = 0]

removeConflicts(m, t) ==
    LET Drop(n, o) ==
            IF o \in DOMAIN n.mapNextTx /\ n.mapNextTx[o] # t
            THEN removeRecursive(ClearPrioritisation(n, n.mapNextTx[o]), n.mapNextTx[o])
            ELSE n
    IN  FoldLeft(Drop, m, Vin[t])

removeForBlock(m, vtx) ==
    LET Mined(n, t) == IF t \in Pool(n) THEN RemoveStaged(n, {t}, TRUE) ELSE n
        Drop(n, t) == ClearPrioritisation(removeConflicts(Mined(n, t), t), t)
    IN  FoldLeft(Drop, m, vtx)

-----------------------------------------------------------------------------
(* After blocks were disconnected                                           *)

\* UpdateForDescendants: what it finds below an entry that was handled before comes from
\* the cache, which has an entry only for what has descendants outside of the blocks.
Walked(s, t) ==
    Closure([u \in Pool(s.m) |-> s.m.mapTx[u].children \ DOMAIN s.cache], s.m.mapTx[t].children)
\* Mutant: what is below a cached entry is not counted.
MutantSkipCached(s, t) == Walked(s, t)
Found(s, t) ==
    LET below == UNION {s.m.mapTx[u].children : u \in Walked(s, t)}
    IN  Walked(s, t) \cup UNION {s.cache[c] : c \in DOMAIN s.cache \cap below}
UpdateForDescendants(s, t, exclude) ==
    LET new == Found(s, t) \ exclude
        With(u) == [s.m.mapTx[u] EXCEPT
                       !.anc = IF u \in new THEN Plus(@, s.m, {t}) ELSE @,
                       !.desc = IF u = t THEN Plus(@, s.m, new) ELSE @]
    IN  [m |-> [s.m EXCEPT !.mapTx = [u \in Pool(s.m) |-> With(u)]],
         cache |-> IF new = {} THEN s.cache ELSE (t :> new) @@ s.cache]

\* Mutant: the links are left to later.
MutantLeaveLinks(m, hashes) == m
UpdateTransactionsFromBlock(m, hashes) ==
    LET included == Range(hashes)
        Link(n, t) ==
            LET linked == SpendersOf(n, t) \ included
            IN  [n EXCEPT !.mapTx = [u \in Pool(n) |-> [n.mapTx[u] EXCEPT
                    !.children = IF u = t THEN @ \cup linked ELSE @,
                    !.parents = IF u \in linked THEN @ \cup {t} ELSE @]]]
        Update(s, t) ==
            IF t \in Pool(s.m) THEN UpdateForDescendants([s EXCEPT !.m = Link(@, t)], t, included)
            ELSE s
    IN  FoldLeft(Update, [m |-> m, cache |-> <<>>], Reverse(hashes)).m

removeForReorg(m, b) ==
    LET Immature(o) ==
            o[1] \notin Pool(m) /\ (o \notin Coins(b) \/ ~Mature(b, o))
        SpendsCoinbase(t) == Creators(t) \cap Coinbase # {}
        gone == {t \in Pool(m) : \/ ~Final(b, t)
                                 \/ SpendsCoinbase(t) /\ \E o \in Prevouts(t) : Immature(o)}
    IN  RemoveStaged(m, CalculateDescendants(m, gone), FALSE)

-----------------------------------------------------------------------------
(* Limits: each of these yields the set of the pools that may result        *)

\* CompareTxMemPoolEntryByDescendantScore, ties (decided by entry times) left open.
Score(e) == IF e.desc.fees > e.fee * e.desc.count THEN e.desc ELSE [count |-> 1, fees |-> e.fee]
ScoredLower(d, e) == Score(d).fees * Score(e).count < Score(d).count * Score(e).fees

RECURSIVE TrimToSize(_)
TrimToSize(m) ==
    LET lowest == {t \in Pool(m) : ~\E u \in Pool(m) : ScoredLower(m.mapTx[u], m.mapTx[t])}
    IN  IF Cardinality(Pool(m)) <= MaxPool THEN {m}
        ELSE UNION {TrimToSize(RemoveStaged(m, CalculateDescendants(m, {t}), FALSE)) : t \in lowest}

\* Any entries may be too old.
Expire(m) == {RemoveStaged(m, CalculateDescendants(m, S), FALSE) : S \in SUBSET Pool(m)}

LimitMempoolSize(m) == UNION {TrimToSize(n) : n \in Expire(m)}

-----------------------------------------------------------------------------
(* MemPoolAccept                                                            *)

Conflicts(m, t) == {m.mapNextTx[o] : o \in Prevouts(t) \cap DOMAIN m.mapNextTx}

\* The view over the pool: an outpoint of an entry, or a coin of the chain.
HaveCoin(m, b, o) == IF o[1] \in Pool(m) THEN o \in Outpoints(o[1]) ELSE o \in Coins(b)

CanReplace(m, t) ==
    LET direct == Conflicts(m, t)
        all == CalculateDescendants(m, direct)
        fee == Fee[t] + m.mapDeltas[t]
    IN  /\ \A c \in direct : fee > m.mapTx[c].fee
        /\ MapThenSumSet(LAMBDA c : m.mapTx[c].desc.count, direct) <= MaxReplaced
        /\ Creators(t) \cap Pool(m) \subseteq UNION {Creators(c) : c \in direct}
        /\ fee >= FeesOf(m, all)

\* One more descendant where exactly one transaction is replaced, or one more for a
\* transaction with a single ancestor.
ChainLimits(m, t) ==
    LET limit == DescendantLimit + IF Cardinality(Conflicts(m, t)) = 1 THEN 1 ELSE 0
    IN  \/ WithinLimits(m, t, AncestorLimit, limit)
        \/ WithinLimits(m, t, 2, limit + 1)

PreChecks(m, b, t) ==
    /\ t \notin Coinbase
    /\ Final(b, t)
    /\ t \notin Pool(m)
    /\ Conflicts(m, t) \subseteq Replaceable
    /\ \A o \in Prevouts(t) : HaveCoin(m, b, o) /\ (o[1] \notin Pool(m) => Mature(b, o))
    /\ ChainLimits(m, t)
    /\ Conflicts(m, t) \cap MemPoolAncestors(m, t) = {}
    /\ Conflicts(m, t) # {} => CanReplace(m, t)

\* The ancestors are those of PreChecks, before the conflicts are removed.
Finalize(m, t) ==
    LET conflicting == CalculateDescendants(m, Conflicts(m, t))
    IN  addUnchecked(RemoveStaged(m, conflicting, FALSE), t, MemPoolAncestors(m, t))

AcceptToMemoryPool(t) ==
    /\ PreChecks(mempool, tip, t)
    /\ mempool' \in LimitMempoolSize(Finalize(mempool, t))
    /\ UNCHANGED tip

PrioritiseTransaction(t) ==
    LET m == mempool
        ancestors == LinkedAncestors(m, t)
        descendants == CalculateDescendants(m, {t}) \ {t}
        Raise(total) == [total EXCEPT !.fees = @ + 1]
        With(u) == [m.mapTx[u] EXCEPT
                       !.fee = IF u = t THEN Fee[t] + m.mapDeltas[t] + 1 ELSE @,
                       !.desc = IF u \in {t} \cup ancestors THEN Raise(@) ELSE @,
                       !.anc = IF u \in {t} \cup descendants THEN Raise(@) ELSE @]
    IN  /\ m.mapDeltas[t] < MaxDelta
        /\ mempool' = [m EXCEPT
               !.mapDeltas[t] = @ + 1,
               !.mapTx = IF t \in Pool(m) THEN [u \in Pool(m) |-> With(u)] ELSE @]
        /\ UNCHANGED tip

-----------------------------------------------------------------------------
(* Steps of the chain; s is the pool and the disconnectpool                 *)

\* The queue has the transactions of the last block first, each block backwards; what
\* does not fit is dropped from its front.
DisconnectTip(s, b) ==
    LET queue == s.queue \o Reverse(Vtx[b])
        excess == IF Len(queue) > MaxDisconnected THEN Len(queue) - MaxDisconnected ELSE 0
    IN  [m |-> FoldLeft(removeRecursive, s.m, SubSeq(queue, 1, excess)),
         queue |-> SubSeq(queue, excess + 1, Len(queue))]

ConnectTip(s, b) ==
    [m |-> removeForBlock(s.m, Vtx[b]),
     queue |-> SelectSeq(s.queue, LAMBDA t : t \notin Range(Vtx[b]))]

\* The pools that result when b is the tip.
UpdateMempoolForReorg(s, b, fAddToMempool) ==
    LET Readd(r, t) ==
            IF fAddToMempool /\ PreChecks(r.m, b, t)
            THEN [m |-> Finalize(r.m, t), hashes |-> Append(r.hashes, t)]
            ELSE [r EXCEPT !.m = removeRecursive(@, t)]
        added == FoldLeft(Readd, [m |-> s.m, hashes |-> <<>>], Reverse(s.queue))
        linked == UpdateTransactionsFromBlock(added.m, added.hashes)
    IN  LimitMempoolSize(removeForReorg(linked, b))

\* From the tip down to c or to where its branch leaves the chain, then up to c.
Between(low, high) ==
    SetToSortSeq(Anc[high] \ Anc[low], LAMBDA x, y : Height[x] < Height[y])
Disconnected(c) == FoldLeft(DisconnectTip, [m |-> mempool, queue |-> <<>>], Reverse(Between(c, tip)))
Moved(c) == FoldLeft(ConnectTip, Disconnected(c), Between(tip, c))

\* Toward d, which has more work: the step stops at the first block with more work than
\* the old tip, or below a block that is invalid.
ActivateBestChainStep(d, c) ==
    /\ Height[d] > Height[tip]
    /\ c \in Anc[d] /\ c # tip
    /\ Height[c] \in Height[LastCommonAncestor(tip, d)]..(Height[tip] + 1)
    /\ IF tip \in Anc[c] THEN mempool' = Moved(c).m
       ELSE mempool' \in UpdateMempoolForReorg(Moved(c), c, TRUE)
    /\ tip' = c

\* The same with a system error on the way: while it disconnects, or while it connects.
ActivateBestChainStepFails(d, c) ==
    /\ Height[d] > Height[tip]
    /\ \/ c \in Anc[tip]
       \/ c \in Anc[d] /\ Height[c] <= Height[tip]
    /\ Height[c] >= Height[LastCommonAncestor(tip, d)]
    /\ mempool' \in UpdateMempoolForReorg(Moved(c), c, FALSE)
    /\ tip' = c

\* One round of InvalidateBlock: the transactions of its first ten blocks come back.
InvalidateBlock(fAddToMempool) ==
    /\ tip # Genesis
    /\ mempool' \in UpdateMempoolForReorg(Moved(Prev[tip]), Prev[tip], fAddToMempool)
    /\ tip' = Prev[tip]

Next ==
    \/ \E t \in Tx \ Coinbase : AcceptToMemoryPool(t) \/ PrioritiseTransaction(t)
    \/ \E c, d \in Block : ActivateBestChainStep(d, c) \/ ActivateBestChainStepFails(d, c)
    \/ \E fAddToMempool \in BOOLEAN : InvalidateBlock(fAddToMempool)

Spec == Init /\ [][Next]_vars

-----------------------------------------------------------------------------
(* What CTxMemPool::check asserts                                           *)

\* The links of an entry are its parents and children in the pool, and mapNextTx has
\* exactly the outpoints that the entries spend (txmempool.cpp, check: setParentCheck
\* and setChildrenCheck), also after a reorganization has put parents below them.
LinksExact ==
    /\ \A t \in Pool(mempool) :
           /\ mempool.mapTx[t].parents = Creators(t) \cap Pool(mempool)
           /\ mempool.mapTx[t].children = {u \in Pool(mempool) : t \in Creators(u)}
    /\ DOMAIN mempool.mapNextTx = UNION {Prevouts(t) : t \in Pool(mempool)}

\* The cached totals of an entry count each of its ancestors and descendants once, with
\* the fee it has now (check: nCountCheck and nFeesCheck).
TotalsExact ==
    LET parent == [t \in Pool(mempool) |-> Creators(t) \cap Pool(mempool)]
        ancestors == [t \in Pool(mempool) |-> Closure(parent, {t})]
        Sum(S) == Plus([count |-> 0, fees |-> 0], mempool, S)
    IN  \A t \in Pool(mempool) :
            /\ mempool.mapTx[t].fee = Fee[t] + mempool.mapDeltas[t]
            /\ mempool.mapTx[t].anc = Sum(ancestors[t])
            /\ mempool.mapTx[t].desc = Sum({u \in Pool(mempool) : t \in ancestors[u]})

\* Every entry can be mined: what it spends is in the chain and mature, or made by an
\* entry; no other entry spends it; it is final (check: HaveCoin, it3->second == &tx and
\* CheckInputsAndUpdateCoins).
CanBeMined ==
    \A t \in Pool(mempool) :
        /\ Final(tip, t)
        /\ \A o \in Prevouts(t) :
               /\ mempool.mapNextTx[o] = t
               /\ IF o[1] \in Pool(mempool) THEN o \in Outpoints(o[1])
                  ELSE o \in Coins(tip) /\ Mature(tip, o)
=============================================================================
