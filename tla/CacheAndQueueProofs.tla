------------------------ MODULE CacheAndQueueProofs ------------------------
(***************************************************************************)
(* Two components of the node that share no state, each shown to implement *)
(* its abstract specification.  The coins caches implement the plain map   *)
(* of UtxoSet, for every set of outpoints, coins and blocks; the           *)
(* SchedulerClient runs callbacks one at a time and in order as            *)
(* SerialQueue does, and forgets none, for any number of threads and any   *)
(* callbacks.                                                              *)
(***************************************************************************)
EXTENDS CoinsCache, SchedulerClient, SequenceTheorems, TLAPS

-----------------------------------------------------------------------------
(* The coins caches                                                        *)

(* The inductive invariant.  The flags are sound only relative to the base  *)
(* below, so both layers are needed at once; that a closed view is empty    *)
(* and agrees on the best block is what lets the draft equal the map.       *)
IInv ==
    /\ TypeOK
    /\ FreshIsSound
    /\ CleanMatchesBase
    /\ ~open => view = EmptyCache
    /\ viewBest = tipBest

-----------------------------------------------------------------------------
(* Lemmas about one operation on one entry.                                *)

\* FetchCoin never changes what a cache over its base shows.
LEMMA FetchInvisible ==
    ASSUME NEW cache \in Cache, NEW base \in Map, NEW o \in Outpoint
    PROVE  /\ FetchCoin(cache, base, o) \in Cache
           /\ Visible(FetchCoin(cache, base, o), base) = Visible(cache, base)
  BY CoinsAssumption DEF FetchCoin, Visible, GetCoin, Cache, Entry, Map

\* The map that a cache over a base shows is a map.
LEMMA VisibleType ==
    ASSUME NEW cache \in Cache, NEW base \in Map
    PROVE  Visible(cache, base) \in Map
  BY CoinsAssumption DEF Visible, GetCoin, Cache, Entry, Map

\* An empty cache shows its base.
LEMMA EmptyVisible ==
    ASSUME NEW base \in Map
    PROVE  /\ EmptyCache \in Cache
           /\ Visible(EmptyCache, base) = base
  BY DEF EmptyCache, Visible, GetCoin, Cache, Map
-----------------------------------------------------------------------------
(* The invariant is inductive.                                             *)

\* It holds when the node starts on an empty coin database.
LEMMA InitIInv == Init => IInv
  BY CoinsAssumption, Zenon
     DEF Init, IInv, TypeOK, FreshIsSound, CleanMatchesBase, EmptyCache, Map, Cache

\* FetchCoin on CoinsTip keeps the flags of CoinsTip sound and shows the same map.
LEMMA TipFetchKeeps ==
    ASSUME TypeOK, FreshIsSound, CleanMatchesBase, NEW o \in Outpoint,
           NEW t, t = tip \/ t = FetchCoin(tip, db, o)
    PROVE  /\ t \in Cache
           /\ Visible(t, db) = TipMap
           /\ \A p \in Outpoint :
                 /\ t[p] # Absent /\ t[p].fresh => db[p] = Spent
                 /\ t[p] # Absent /\ ~t[p].dirty => t[p].coin = db[p]
  <1>1. t \in Cache /\ Visible(t, db) = TipMap
    BY FetchInvisible DEF TypeOK, TipMap
  <1>2. ASSUME NEW p \in Outpoint
        PROVE  /\ t[p] # Absent /\ t[p].fresh => db[p] = Spent
               /\ t[p] # Absent /\ ~t[p].dirty => t[p].coin = db[p]
    BY CoinsAssumption DEF FetchCoin, TypeOK, Cache, Entry, Map, FreshIsSound, CleanMatchesBase
  <1>. QED  BY <1>1, <1>2

\* Every step of the caches preserves the invariant.
LEMMA NextIInv == IInv /\ [Next]_vars => IInv'
  <1>. SUFFICES ASSUME IInv, [Next]_vars PROVE IInv'
    OBVIOUS
  <1>. USE CoinsAssumption
  <1>t. TipMap \in Map /\ ViewMap \in Map
    BY VisibleType DEF IInv, TypeOK, TipMap, ViewMap
  <1>1. CASE OpenView
    BY <1>1 DEF OpenView, IInv, TypeOK, FreshIsSound, CleanMatchesBase, TipMap, Visible, GetCoin
  <1>2. ASSUME NEW o \in Outpoint, ViewFetch(o) PROVE IInv'
    <2>1. /\ tip' \in Cache /\ TipMap' = TipMap
          /\ \A p \in Outpoint :
                 /\ tip'[p] # Absent /\ tip'[p].fresh => db[p] = Spent
                 /\ tip'[p] # Absent /\ ~tip'[p].dirty => tip'[p].coin = db[p]
      BY <1>2, TipFetchKeeps DEF ViewFetch, FetchThrough, IInv, TipMap
    <2>2. view' \in Cache
      BY <1>2, <1>t, FetchInvisible DEF ViewFetch, IInv, TypeOK
    <2>3. \A p \in Outpoint :
                 /\ view'[p] # Absent /\ view'[p].fresh => TipMap[p] = Spent
                 /\ view'[p] # Absent /\ ~view'[p].dirty => view'[p].coin = TipMap[p]
      BY <1>2, <1>t DEF ViewFetch, FetchCoin, IInv, TypeOK, FreshIsSound, CleanMatchesBase, Cache,
         Entry, Map
    <2>. QED
      BY <1>2, <2>1, <2>2, <2>3 DEF ViewFetch, IInv, TypeOK, FreshIsSound, CleanMatchesBase
  <1>3. ASSUME NEW o \in Outpoint, NEW c \in Coin, ViewAddNew(o, c) PROVE IInv'
    <2>1. TipMap' = TipMap
      BY <1>3 DEF ViewAddNew, TipMap
    <2>2. view' \in Cache
      BY <1>3 DEF ViewAddNew, AddedEntry, IInv, TypeOK, Cache, Entry
    <2>3. \A p \in Outpoint :
                 /\ view'[p] # Absent /\ view'[p].fresh => TipMap[p] = Spent
                 /\ view'[p] # Absent /\ ~view'[p].dirty => view'[p].coin = TipMap[p]
      BY <1>3, <1>t DEF ViewAddNew, AddedEntry, ViewMap, Visible, GetCoin, IInv, TypeOK,
                        FreshIsSound, CleanMatchesBase, Cache, Entry, Map
    <2>. QED
      BY <1>3, <2>1, <2>2, <2>3, Zenon DEF ViewAddNew, IInv, TypeOK, FreshIsSound, CleanMatchesBase
  <1>4. ASSUME NEW o \in Outpoint, NEW c \in Coin, ViewAddOverwrite(o, c) PROVE IInv'
    <2>1. TipMap' = TipMap
      BY <1>4 DEF ViewAddOverwrite, TipMap
    <2>2. view' \in Cache
      BY <1>4 DEF ViewAddOverwrite, AddedEntry, IInv, TypeOK, Cache, Entry
    <2>3. \A p \in Outpoint :
                 /\ view'[p] # Absent /\ view'[p].fresh => TipMap[p] = Spent
                 /\ view'[p] # Absent /\ ~view'[p].dirty => view'[p].coin = TipMap[p]
      BY <1>4, <1>t, Zenon DEF ViewAddOverwrite, AddedEntry, IInv, TypeOK,
                        FreshIsSound, CleanMatchesBase, Cache, Entry, Map
    <2>. QED
      BY <1>4, <2>1, <2>2, <2>3, Zenon DEF ViewAddOverwrite, IInv, TypeOK, FreshIsSound,
         CleanMatchesBase
  <1>5. ASSUME NEW o \in Outpoint, ViewSpend(o) PROVE IInv'
    <2>. DEFINE fetched == FetchCoin(view, TipMap, o)
    <2>1. /\ tip' \in Cache /\ TipMap' = TipMap
          /\ \A p \in Outpoint :
                 /\ tip'[p] # Absent /\ tip'[p].fresh => db[p] = Spent
                 /\ tip'[p] # Absent /\ ~tip'[p].dirty => tip'[p].coin = db[p]
      BY <1>5, TipFetchKeeps DEF ViewSpend, FetchThrough, IInv, TipMap
    <2>2. /\ fetched \in Cache
          /\ \A p \in Outpoint :
                 /\ fetched[p] # Absent /\ fetched[p].fresh => TipMap[p] = Spent
                 /\ fetched[p] # Absent /\ ~fetched[p].dirty => fetched[p].coin = TipMap[p]
      BY <1>t DEF FetchCoin, IInv, TypeOK, FreshIsSound, CleanMatchesBase, Cache, Entry, Map
    <2>3. view' = IF fetched[o] = Absent THEN fetched
                  ELSE [fetched EXCEPT ![o] = SpentEntry(@)]
      BY <1>5 DEF ViewSpend
    <2>. HIDE DEF fetched
    <2>4. view' \in Cache
      BY <2>2, <2>3 DEF SpentEntry, Cache, Entry
    <2>5. \A p \in Outpoint :
                 /\ view'[p] # Absent /\ view'[p].fresh => TipMap[p] = Spent
                 /\ view'[p] # Absent /\ ~view'[p].dirty => view'[p].coin = TipMap[p]
      BY <2>2, <2>3 DEF SpentEntry, Cache, Entry
    <2>. QED
      BY <1>5, <2>1, <2>4, <2>5 DEF ViewSpend, IInv, TypeOK, FreshIsSound, CleanMatchesBase
  <1>6. ASSUME NEW b \in Block, CommitView(b) PROVE IInv'
    <2>1. tip' \in Cache
      BY <1>6 DEF CommitView, MergedEntry, IInv, TypeOK, Cache, Entry
    <2>2. \A p \in Outpoint :
                 /\ tip'[p] # Absent /\ tip'[p].fresh => db[p] = Spent
                 /\ tip'[p] # Absent /\ ~tip'[p].dirty => tip'[p].coin = db[p]
      BY <1>6 DEF CommitView, MergedEntry, TipMap, Visible, GetCoin, IInv, TypeOK,
                  FreshIsSound, CleanMatchesBase, Cache, Entry, Map
    <2>. QED
      BY <1>6, <2>1, <2>2, EmptyVisible, Zenon
      DEF CommitView, IInv, TypeOK, FreshIsSound, CleanMatchesBase, EmptyCache, Cache
  <1>7. CASE DropView
    BY <1>7, Zenon DEF DropView, IInv, TypeOK, FreshIsSound, CleanMatchesBase, EmptyCache, Cache
  <1>8. ASSUME NEW o \in Outpoint, TipFetch(o) PROVE IInv'
    <2>1. /\ tip' \in Cache /\ TipMap' = TipMap
          /\ \A p \in Outpoint :
                 /\ tip'[p] # Absent /\ tip'[p].fresh => db[p] = Spent
                 /\ tip'[p] # Absent /\ ~tip'[p].dirty => tip'[p].coin = db[p]
      BY <1>8, TipFetchKeeps DEF TipFetch, IInv, TipMap
    <2>. QED
      BY <1>8, <2>1 DEF TipFetch, IInv, TypeOK, FreshIsSound, CleanMatchesBase
  <1>9. ASSUME NEW o \in Outpoint, Uncache(o) PROVE IInv'
    <2>1. tip' \in Cache /\ view' = EmptyCache
      BY <1>9 DEF Uncache, IInv, TypeOK, Cache
    <2>. QED
      BY <1>9, <2>1 DEF Uncache, IInv, TypeOK, FreshIsSound, CleanMatchesBase, Cache, EmptyCache
  <1>10. CASE FlushTip
    <2>1. db' \in Map
      BY <1>10 DEF FlushTip, Written, IInv, TypeOK, Map, Cache, Entry
    <2>. QED
      BY <1>10, <2>1 DEF FlushTip, IInv, TypeOK, FreshIsSound, CleanMatchesBase, EmptyCache, Cache
  <1>11. CASE Crash
    BY <1>11, Zenon DEF Crash, IInv, TypeOK, FreshIsSound, CleanMatchesBase, EmptyCache, Cache
  <1>12. CASE UNCHANGED vars
    BY <1>12 DEF vars, IInv, TypeOK, FreshIsSound, CleanMatchesBase, TipMap, Visible, GetCoin
  <1>. QED
    BY <1>1, <1>2, <1>3, <1>4, <1>5, <1>6, <1>7, <1>8, <1>9, <1>10, <1>11, <1>12 DEF Next

\* In every reachable state of the coins caches the types are right.
THEOREM TypeCorrect == Spec => []TypeOK
  <1>1. Spec => []IInv
    BY InitIInv, NextIInv, PTL DEF Spec
  <1>. QED  BY <1>1, PTL DEF IInv

\* No entry of a cache is ever flagged FRESH over a base that holds the coin,
\* whatever blocks are connected, undone, flushed or lost in a crash.
THEOREM FreshSound == Spec => []FreshIsSound
  <1>1. Spec => []IInv
    BY InitIInv, NextIInv, PTL DEF Spec
  <1>. QED  BY <1>1, PTL DEF IInv

\* What Flush skips and Uncache drops is always what the base already says.
THEOREM CleanSound == Spec => []CleanMatchesBase
  <1>1. Spec => []IInv
    BY InitIInv, NextIInv, PTL DEF Spec
  <1>. QED  BY <1>1, PTL DEF IInv

-----------------------------------------------------------------------------
(* Refinement: every step of the caches is a step of the plain map.        *)

\* Writing one entry changes what the map shows at that outpoint only.
LEMMA VisibleUpdate ==
    ASSUME NEW cache \in Cache, NEW base \in Map, NEW o \in Outpoint,
           NEW e \in Entry \cup {Absent}
    PROVE  Visible([cache EXCEPT ![o] = e], base)
              = [Visible(cache, base) EXCEPT ![o] = IF e = Absent THEN base[o] ELSE e.coin]
  BY DEF Visible, GetCoin, Cache, Map

\* AddCoin shows the new coin whatever the flags of the old entry were.
LEMMA AddedVisible ==
    ASSUME NEW cache \in Cache, NEW base \in Map, NEW o \in Outpoint,
           NEW c \in Coin, NEW overwrite \in BOOLEAN
    PROVE  Visible([cache EXCEPT ![o] = AddedEntry(@, c, overwrite)], base)
              = [Visible(cache, base) EXCEPT ![o] = c]
  <1>. DEFINE e == AddedEntry(cache[o], c, overwrite)
  <1>1. e \in Entry /\ e.coin = c
    BY DEF AddedEntry, Entry, Cache
  <1>2. e # Absent
    BY <1>1, CoinsAssumption
  <1>. HIDE DEF e
  <1>3. Visible([cache EXCEPT ![o] = e], base) = [Visible(cache, base) EXCEPT ![o] = c]
    BY <1>1, <1>2, VisibleUpdate
  <1>. QED  BY <1>3 DEF e

\* SpendCoin shows no coin: the entry it drops hid nothing of the base.
LEMMA SpentVisible ==
    ASSUME NEW cache \in Cache, NEW base \in Map, NEW o \in Outpoint,
           cache[o] # Absent, cache[o].fresh => base[o] = Spent
    PROVE  Visible([cache EXCEPT ![o] = SpentEntry(@)], base)
              = [Visible(cache, base) EXCEPT ![o] = Spent]
  <1>. DEFINE e == SpentEntry(cache[o])
  <1>1. CASE cache[o].fresh
    <2>1. e = Absent
      BY <1>1 DEF SpentEntry
    <2>. HIDE DEF e
    <2>2. Visible([cache EXCEPT ![o] = e], base) = [Visible(cache, base) EXCEPT ![o] = Spent]
      BY <1>1, <2>1, VisibleUpdate
    <2>. QED  BY <2>2 DEF e
  <1>2. CASE ~cache[o].fresh
    <2>1. e \in Entry /\ e.coin = Spent
      BY <1>2 DEF SpentEntry, Entry
    <2>2. e # Absent
      BY <2>1, CoinsAssumption
    <2>. HIDE DEF e
    <2>3. Visible([cache EXCEPT ![o] = e], base) = [Visible(cache, base) EXCEPT ![o] = Spent]
      BY <2>1, <2>2, VisibleUpdate
    <2>. QED  BY <2>3 DEF e
  <1>. QED  BY <1>1, <1>2

\* The merge of BatchWrite: with sound flags the parent shows afterwards what
\* the child showed before.
LEMMA MergedVisible ==
    ASSUME NEW child \in Cache, NEW parent \in Cache, NEW base \in Map,
           \A o \in Outpoint :
               /\ parent[o] # Absent /\ parent[o].fresh => base[o] = Spent
               /\ child[o] # Absent /\ child[o].fresh => Visible(parent, base)[o] = Spent
               /\ child[o] # Absent /\ ~child[o].dirty
                    => child[o].coin = Visible(parent, base)[o]
    PROVE  Visible([o \in Outpoint |-> MergedEntry(child[o], parent[o])], base)
              = Visible(child, Visible(parent, base))
  <1>. DEFINE merged == [o \in Outpoint |-> MergedEntry(child[o], parent[o])]
              shown == Visible(parent, base)
  <1>1. ASSUME NEW o \in Outpoint
        PROVE  GetCoin(merged, base, o) = GetCoin(child, shown, o)
    <2>. DEFINE fresh == IF parent[o] = Absent THEN child[o].fresh ELSE parent[o].fresh
                kept == [coin |-> child[o].coin, dirty |-> TRUE, fresh |-> fresh]
    <2>0. /\ merged[o] = MergedEntry(child[o], parent[o])
          /\ shown[o] = IF parent[o] = Absent THEN base[o] ELSE parent[o].coin
      BY DEF Visible, GetCoin
    <2>1. CASE child[o] = Absent \/ ~child[o].dirty
      <3>1. merged[o] = parent[o]
        BY <2>0, <2>1 DEF MergedEntry
      <3>2. GetCoin(merged, base, o) = shown[o]
        BY <2>0, <3>1 DEF GetCoin
      <3>. QED  BY <2>1, <3>2 DEF GetCoin
    <2>2. CASE child[o] # Absent /\ child[o].dirty /\ child[o].coin = Spent /\ fresh
      <3>1. merged[o] = Absent
        BY <2>0, <2>2 DEF MergedEntry
      <3>2. base[o] = Spent
        BY <2>0, <2>2
      <3>. QED  BY <2>2, <3>1, <3>2 DEF GetCoin
    <2>3. CASE child[o] # Absent /\ child[o].dirty /\ ~(child[o].coin = Spent /\ fresh)
      <3>1. merged[o] = kept
        BY <2>0, <2>3 DEF MergedEntry
      <3>2. child[o] \in Entry /\ parent[o] \in Entry \cup {Absent}
        BY <2>3 DEF Cache
      <3>3. kept \in Entry
        BY <3>2 DEF Entry
      <3>4. kept # Absent /\ kept.coin = child[o].coin
        BY <3>3, CoinsAssumption, Zenon
      <3>. HIDE DEF kept, merged, shown
      <3>. QED  BY <2>3, <3>1, <3>4 DEF GetCoin
    <2>. QED  BY <2>1, <2>2, <2>3
  <1>. QED  BY <1>1 DEF Visible

\* A step of the caches is a step of the map or leaves the map alone.
LEMMA NextRefines == IInv /\ IInv' /\ [Next]_vars => [Utxo!Next]_Utxo!vars
  <1>. SUFFICES ASSUME IInv, IInv', [Next]_vars PROVE [Utxo!Next]_Utxo!vars
    OBVIOUS
  <1>. USE CoinsAssumption
  <1>t. TipMap \in Map /\ ViewMap \in Map
    BY VisibleType DEF IInv, TypeOK, TipMap, ViewMap
  <1>1. CASE OpenView
    <2>1. TipMap' = TipMap /\ ViewMap' = ViewMap
      BY <1>1 DEF OpenView, TipMap, ViewMap
    <2>. QED  BY <1>1, <2>1 DEF OpenView, IInv, Utxo!Next, Utxo!Begin
  <1>2. ASSUME NEW o \in Outpoint, ViewFetch(o) PROVE UNCHANGED Utxo!vars
    <2>1. TipMap' = TipMap
      BY <1>2, TipFetchKeeps DEF ViewFetch, FetchThrough, IInv, TipMap
    <2>2. ViewMap' = ViewMap
      BY <1>2, <1>t, <2>1, FetchInvisible DEF ViewFetch, IInv, TypeOK, ViewMap
    <2>. QED  BY <1>2, <2>1, <2>2 DEF ViewFetch, Utxo!vars
  <1>3. ASSUME NEW o \in Outpoint, NEW c \in Coin,
               ViewAddNew(o, c) \/ ViewAddOverwrite(o, c)
        PROVE  Utxo!Add(o, c)
    <2>1. TipMap' = TipMap
      BY <1>3, Zenon DEF ViewAddNew, ViewAddOverwrite, TipMap
    <2>2. PICK overwrite \in BOOLEAN :
              view' = [view EXCEPT ![o] = AddedEntry(@, c, overwrite)]
      BY <1>3, Zenon DEF ViewAddNew, ViewAddOverwrite
    <2>3. Visible([view EXCEPT ![o] = AddedEntry(@, c, overwrite)], TipMap)
            = [Visible(view, TipMap) EXCEPT ![o] = c]
      BY <1>t, AddedVisible DEF IInv, TypeOK
    <2>4. ViewMap' = [ViewMap EXCEPT ![o] = c]
      BY <2>1, <2>2, <2>3 DEF ViewMap
    <2>. QED  BY <1>3, <2>1, <2>4, Zenon DEF ViewAddNew, ViewAddOverwrite, Utxo!Add
  <1>5. ASSUME NEW o \in Outpoint, ViewSpend(o) PROVE Utxo!Spend(o)
    <2>. DEFINE fetched == FetchCoin(view, TipMap, o)
    <2>1. TipMap' = TipMap
      BY <1>5, TipFetchKeeps DEF ViewSpend, FetchThrough, IInv, TipMap
    <2>2. fetched \in Cache /\ Visible(fetched, TipMap) = ViewMap
      BY <1>t, FetchInvisible DEF IInv, TypeOK, ViewMap
    <2>3. /\ fetched[o] = Absent => TipMap[o] = Spent
          /\ fetched[o] # Absent /\ fetched[o].fresh => TipMap[o] = Spent
      <3>1. CASE view[o] # Absent
        BY <3>1 DEF FetchCoin, IInv, FreshIsSound
      <3>2. CASE view[o] = Absent /\ TipMap[o] = Spent
        BY <3>2 DEF FetchCoin
      <3>3. CASE view[o] = Absent /\ TipMap[o] # Spent
        <4>. DEFINE e == [coin |-> TipMap[o], dirty |-> FALSE, fresh |-> FALSE]
        <4>1. e \in Entry
          BY <1>t DEF Entry, Map
        <4>2. fetched[o] = e
          BY <3>3 DEF FetchCoin, IInv, TypeOK, Cache
        <4>3. e # Absent /\ ~e.fresh
          BY <4>1, Zenon
        <4>. HIDE DEF e, fetched
        <4>. QED  BY <4>2, <4>3
      <3>. QED  BY <3>1, <3>2, <3>3
    <2>4. view' = IF fetched[o] = Absent THEN fetched
                  ELSE [fetched EXCEPT ![o] = SpentEntry(@)]
      BY <1>5 DEF ViewSpend
    <2>. HIDE DEF fetched
    <2>5. ViewMap' = [ViewMap EXCEPT ![o] = Spent]
      <3>1. CASE fetched[o] = Absent
        <4>1. ViewMap[o] = Spent
          BY <2>2, <2>3, <3>1 DEF Visible, GetCoin
        <4>2. ViewMap' = ViewMap
          BY <2>1, <2>2, <2>4, <3>1 DEF ViewMap
        <4>. QED  BY <4>1, <4>2, <1>t DEF Map
      <3>2. CASE fetched[o] # Absent
        <4>1. view' = [fetched EXCEPT ![o] = SpentEntry(@)]
          BY <2>4, <3>2
        <4>2. Visible([fetched EXCEPT ![o] = SpentEntry(@)], TipMap)
                = [Visible(fetched, TipMap) EXCEPT ![o] = Spent]
          BY <1>t, <2>2, <2>3, <3>2, SpentVisible
        <4>. QED  BY <2>1, <2>2, <4>1, <4>2 DEF ViewMap
      <3>. QED  BY <3>1, <3>2
    <2>. QED  BY <1>5, <2>1, <2>5 DEF ViewSpend, Utxo!Spend
  <1>6. ASSUME NEW b \in Block, CommitView(b) PROVE Utxo!Commit(b)
    <2>1. TipMap' = ViewMap
      <3>1. Visible([o \in Outpoint |-> MergedEntry(view[o], tip[o])], db)
              = Visible(view, Visible(tip, db))
        BY MergedVisible DEF IInv, TypeOK, FreshIsSound, CleanMatchesBase, TipMap
      <3>. QED  BY <1>6, <3>1 DEF CommitView, TipMap, ViewMap
    <2>2. ViewMap' = TipMap'
      <3>1. TipMap' \in Map
        BY <1>t, <2>1
      <3>. QED  BY <1>6, <3>1, EmptyVisible DEF CommitView, ViewMap
    <2>. QED  BY <1>6, <2>1, <2>2 DEF CommitView, Utxo!Commit
  <1>7. CASE DropView
    <2>1. TipMap' = TipMap
      BY <1>7 DEF DropView, TipMap
    <2>2. ViewMap' = TipMap
      BY <1>7, <1>t, <2>1, EmptyVisible DEF DropView, ViewMap
    <2>. QED  BY <1>7, <2>1, <2>2 DEF DropView, Utxo!Next, Utxo!Discard
  <1>8. ASSUME NEW o \in Outpoint, TipFetch(o) \/ Uncache(o) PROVE UNCHANGED Utxo!vars
    <2>1. TipMap' = TipMap
      <3>1. CASE TipFetch(o)
        BY <3>1, TipFetchKeeps DEF TipFetch, IInv, TipMap
      <3>2. CASE Uncache(o)
        BY <3>2 DEF Uncache, TipMap, Visible, GetCoin, IInv, TypeOK, CleanMatchesBase, Cache, Map
      <3>. QED  BY <1>8, <3>1, <3>2
    <2>2. ViewMap' = ViewMap
      BY <1>8, <2>1 DEF TipFetch, Uncache, ViewMap
    <2>. QED  BY <1>8, <2>1, <2>2 DEF TipFetch, Uncache, Utxo!vars
  <1>10. CASE FlushTip
    <2>1. db' = TipMap
      BY <1>10 DEF FlushTip, Written, TipMap, Visible, GetCoin, IInv, TypeOK,
                   CleanMatchesBase, Cache, Entry, Map
    <2>2. TipMap' = TipMap
      BY <1>10, <1>t, <2>1, EmptyVisible DEF FlushTip, TipMap
    <2>3. ViewMap' = ViewMap
      BY <1>10, <2>2 DEF FlushTip, ViewMap
    <2>. QED  BY <1>10, <2>1, <2>2, <2>3 DEF FlushTip, Utxo!Next, Utxo!Persist
  <1>11. CASE Crash
    <2>1. TipMap' = db
      BY <1>11, EmptyVisible DEF Crash, TipMap, IInv, TypeOK
    <2>2. ViewMap' = db
      BY <1>11, <2>1, EmptyVisible DEF Crash, ViewMap, IInv, TypeOK
    <2>. QED  BY <1>11, <2>1, <2>2 DEF Crash, Utxo!Next, Utxo!Crash
  <1>12. CASE UNCHANGED vars
    BY <1>12 DEF vars, Utxo!vars, TipMap, ViewMap
  <1>. QED
    BY <1>1, <1>2, <1>3, <1>5, <1>6, <1>7, <1>8, <1>10, <1>11, <1>12 DEF Next, Utxo!Next

\* The stack of caches, with its DIRTY and FRESH flags, implements one plain
\* map of coins: connecting, undoing, flushing and crashing included.
THEOREM CachesImplementUtxoSet == Spec => ImplementsUtxoSet
  <1>1. Init => Utxo!Init
    <2>. SUFFICES ASSUME Init PROVE Utxo!Init
      OBVIOUS
    <2>1. db \in Map
      BY DEF Init, Map
    <2>2. TipMap = db
      BY <2>1, EmptyVisible DEF Init, TipMap
    <2>3. ViewMap = db
      BY <2>1, <2>2, EmptyVisible DEF Init, ViewMap
    <2>. QED  BY <2>2, <2>3 DEF Init, Utxo!Init
  <1>2. Spec => []IInv
    BY InitIInv, NextIInv, PTL DEF Spec
  <1>. QED  BY <1>1, <1>2, NextRefines, PTL DEF Spec, ImplementsUtxoSet, Utxo!Spec

-----------------------------------------------------------------------------
(* The queue of callbacks                                                  *)

\* The thread that calls has a callback.
CallHasJob == \A w \in Runner : pc[w] = "call" => job[w] \in Callback

ClientIInv == ClientTypeOK /\ RunningIsOne /\ NoneForgotten /\ CallHasJob

\* What a queue keeps when its first member is taken.
LEMMA TakenCallback ==
    ASSUME NEW s \in Seq(Callback), s # <<>>
    PROVE  Head(s) \in Callback /\ Tail(s) \in Seq(Callback)
  BY HeadTailProperties

LEMMA EmptyQueueType == <<>> \in Seq(Callback)
  OBVIOUS

LEMMA ClientInitIInv == ClientInit => ClientIInv
  <1> SUFFICES ASSUME ClientInit PROVE ClientIInv
    OBVIOUS
  <1> USE DEF ClientInit, Thread, Runner
  <1>1. ClientTypeOK
    BY EmptyQueueType, Zenon DEF ClientTypeOK
  <1>2. RunningIsOne
    BY DEF RunningIsOne
  <1>3. NoneForgotten /\ CallHasJob
    BY DEF NoneForgotten, CallHasJob
  <1> QED
    BY <1>1, <1>2, <1>3 DEF ClientIInv

\* Every step keeps the types, and a callback where there is a call.
LEMMA StepTypes ==
    ASSUME ClientIInv, [ClientNext]_clientVars
    PROVE  ClientTypeOK' /\ CallHasJob'
  <1> USE DEF ClientIInv, ClientTypeOK, CallHasJob, Thread, Runner, Goto
  <1>1. CASE UNCHANGED clientVars
    BY <1>1 DEF clientVars
  <1>2. CASE \E p \in Producer, c \in Callback : AddToProcessQueue(p, c)
    <2>1. PICK p \in Producer, c \in Callback : AddToProcessQueue(p, c)
      BY <1>2
    <2>2. pending' \in Seq(Callback)
      BY <2>1, AppendProperties DEF AddToProcessQueue
    <2>3. pc' \in [Thread -> {"idle", "process", "call", "done", "maybe", "schedule", "over"}]
      BY <2>1 DEF AddToProcessQueue
    <2>4. \A w \in Runner : pc'[w] = "call" => pc[w] = "call"
      BY <2>1 DEF AddToProcessQueue
    <2> QED
      BY <2>1, <2>2, <2>3, <2>4 DEF AddToProcessQueue
  <1>3. ASSUME NEW t \in Thread, ThreadStep(t)
        PROVE  ClientTypeOK' /\ CallHasJob'
    <2>1. CASE MaybeSchedule(t)
      BY <2>1 DEF MaybeSchedule
    <2>2. CASE Schedule(t)
      BY <2>2 DEF Schedule
    <2>3. CASE t \in Worker /\ TakeTask(t)
      BY <2>3 DEF TakeTask
    <2>4. CASE t \in Runner /\ ProcessNothing(t)
      BY <2>4 DEF ProcessNothing
    <2>5. CASE t \in Runner /\ TakeCallback(t)
      <3>1. pending # <<>>
        BY <2>5 DEF TakeCallback, MayTake
      <3>2. Head(pending) \in Callback /\ Tail(pending) \in Seq(Callback)
        BY <3>1, TakenCallback
      <3> QED
        BY <2>5, <3>2 DEF TakeCallback
    <2>6. CASE t \in Runner /\ Return(t)
      BY <2>6 DEF Return
    <2>7. CASE t \in Runner /\ Done(t)
      BY <2>7, Zenon DEF Done
    <2>8. CASE t = Flusher /\ (EmptyQueue \/ EmptyQueueReturns)
      BY <2>8 DEF EmptyQueue, EmptyQueueReturns
    <2> QED
      BY <1>3, <2>1, <2>2, <2>3, <2>4, <2>5, <2>6, <2>7, <2>8 DEF ThreadStep
  <1>4. CASE StopThreads
    BY <1>4 DEF StopThreads
  <1>5. CASE ClientReset
    BY <1>5, EmptyQueueType, Zenon DEF ClientReset
  <1> QED
    BY <1>1, <1>2, <1>3, <1>4, <1>5 DEF ClientNext

\* Every step keeps m_are_callbacks_running the sign of one thread that runs.
LEMMA StepRunning ==
    ASSUME ClientIInv, [ClientNext]_clientVars
    PROVE  RunningIsOne'
  <1> USE DEF ClientIInv, ClientTypeOK, RunningIsOne, Thread, Runner, Goto
  <1>1. CASE UNCHANGED clientVars
    BY <1>1 DEF clientVars
  <1>2. CASE \E p \in Producer, c \in Callback : AddToProcessQueue(p, c)
    BY <1>2, ClientAssumption DEF AddToProcessQueue
  <1>3. ASSUME NEW t \in Thread, ThreadStep(t)
        PROVE  RunningIsOne'
    <2>1. CASE MaybeSchedule(t)
      BY <2>1 DEF MaybeSchedule
    <2>2. CASE Schedule(t)
      BY <2>2 DEF Schedule
    <2>3. CASE t \in Worker /\ TakeTask(t)
      BY <2>3 DEF TakeTask
    <2>4. CASE t \in Runner /\ ProcessNothing(t)
      BY <2>4 DEF ProcessNothing
    <2>5. CASE t \in Runner /\ TakeCallback(t)
      BY <2>5 DEF TakeCallback, MayTake
    <2>6. CASE t \in Runner /\ Return(t)
      BY <2>6 DEF Return
    <2>7. CASE t \in Runner /\ Done(t)
      BY <2>7 DEF Done
    <2>8. CASE t = Flusher /\ (EmptyQueue \/ EmptyQueueReturns)
      BY <2>8 DEF EmptyQueue, EmptyQueueReturns
    <2> QED
      BY <1>3, <2>1, <2>2, <2>3, <2>4, <2>5, <2>6, <2>7, <2>8 DEF ThreadStep
  <1>4. CASE StopThreads
    BY <1>4 DEF StopThreads
  <1>5. CASE ClientReset
    BY <1>5 DEF ClientReset
  <1> QED
    BY <1>1, <1>2, <1>3, <1>4, <1>5 DEF ClientNext

\* Every step keeps a way to a callback that waits.
LEMMA StepForgets ==
    ASSUME ClientIInv, [ClientNext]_clientVars
    PROVE  NoneForgotten'
  <1> USE DEF ClientIInv, ClientTypeOK, NoneForgotten, Thread, Runner, Goto
  <1>1. CASE UNCHANGED clientVars
    BY <1>1 DEF clientVars
  <1>2. CASE \E p \in Producer, c \in Callback : AddToProcessQueue(p, c)
    BY <1>2 DEF AddToProcessQueue
  <1>3. ASSUME NEW t \in Thread, ThreadStep(t)
        PROVE  NoneForgotten'
    <2>1. CASE MaybeSchedule(t)
      <3>1. CASE NeedsTask
        BY <2>1, <3>1 DEF MaybeSchedule
      <3>2. CASE pending = <<>>
        BY <2>1, <3>2 DEF MaybeSchedule
      <3>3. CASE running
        <4>1. PICK w \in Runner : pc[w] \in {"call", "done"}
          BY <3>3 DEF RunningIsOne
        <4>2. w # t /\ pc'[w] = pc[w]
          BY <2>1, <4>1 DEF MaybeSchedule
        <4> QED
          BY <4>1, <4>2
      <3> QED
        BY <3>1, <3>2, <3>3 DEF NeedsTask
    <2>2. CASE Schedule(t)
      BY <2>2 DEF Schedule
    <2>3. CASE t \in Worker /\ TakeTask(t)
      BY <2>3 DEF TakeTask
    <2>4. CASE t \in Runner /\ ProcessNothing(t)
      <3>1. CASE pending = <<>>
        BY <2>4, <3>1 DEF ProcessNothing
      <3>2. CASE running
        <4>1. PICK w \in Runner : pc[w] \in {"call", "done"}
          BY <3>2 DEF RunningIsOne
        <4>2. w # t /\ pc'[w] = pc[w]
          BY <2>4, <4>1 DEF ProcessNothing
        <4> QED
          BY <4>1, <4>2
      <3> QED
        BY <2>4, <3>1, <3>2 DEF ProcessNothing, MayTake
    <2>5. CASE t \in Runner /\ TakeCallback(t)
      BY <2>5 DEF TakeCallback
    <2>6. CASE t \in Runner /\ Return(t)
      BY <2>6 DEF Return
    <2>7. CASE t \in Runner /\ Done(t)
      BY <2>7 DEF Done
    <2>8. CASE t = Flusher /\ (EmptyQueue \/ EmptyQueueReturns)
      BY <2>8 DEF EmptyQueue, EmptyQueueReturns
    <2> QED
      BY <1>3, <2>1, <2>2, <2>3, <2>4, <2>5, <2>6, <2>7, <2>8 DEF ThreadStep
  <1>4. CASE StopThreads
    BY <1>4 DEF StopThreads
  <1>5. CASE ClientReset
    BY <1>5 DEF ClientReset
  <1> QED
    BY <1>1, <1>2, <1>3, <1>4, <1>5 DEF ClientNext

\* The invariant, from which the theorems follow.
LEMMA Invariance == ClientSpec => []ClientIInv
  <1>1. ClientIInv /\ [ClientNext]_clientVars => ClientIInv'
    BY StepTypes, StepRunning, StepForgets DEF ClientIInv
  <1> QED
    BY <1>1, ClientInitIInv, PTL DEF ClientSpec

\* The scheduler client's state keeps its types.
THEOREM ClientTypes == ClientSpec => []ClientTypeOK
  <1>1. ClientIInv => ClientTypeOK
    BY DEF ClientIInv
  <1> QED
    BY <1>1, Invariance, PTL

\* No two callbacks run at the same time (SingleThreadedSchedulerClient).
THEOREM OneAtATime == ClientSpec => []RunningIsOne
  <1>1. ClientIInv => RunningIsOne
    BY DEF ClientIInv
  <1> QED
    BY <1>1, Invariance, PTL

\* MaybeScheduleProcessQueue and ProcessQueue may return early, in any interleaving,
\* and no callback is left without a task or a thread that will look again.
THEOREM NeverForgets == ClientSpec => []NoneForgotten
  <1>1. ClientIInv => NoneForgotten
    BY DEF ClientIInv
  <1> QED
    BY <1>1, Invariance, PTL

-----------------------------------------------------------------------------
(* The refinement                                                           *)

\* The callback that runs, as SerialQueue sees it.
Active == IF Calling = {} THEN Nothing ELSE job[CHOOSE w \in Calling : TRUE]

\* At most one thread calls, so the choice is forced.
ActiveIsTheJob ==
    /\ \A w \in Runner : pc[w] = "call" => Active = job[w]
    /\ (\A w \in Runner : pc[w] # "call") => Active = Nothing

LEMMA ActiveFacts == ClientIInv => ActiveIsTheJob
  <1> SUFFICES ASSUME ClientIInv PROVE ActiveIsTheJob
    OBVIOUS
  <1>1. ASSUME NEW w \in Runner, pc[w] = "call"
        PROVE  Active = job[w]
    <2>1. Calling = {w}
      BY <1>1 DEF Calling, ClientIInv, RunningIsOne
    <2>2. (CHOOSE v \in Calling : TRUE) = w
      BY <2>1
    <2> QED
      BY <2>1, <2>2 DEF Active
  <1>2. ASSUME \A w \in Runner : pc[w] # "call"
        PROVE  Active = Nothing
    BY <1>2 DEF Calling, Active
  <1> QED
    BY <1>1, <1>2 DEF ActiveIsTheJob

\* A step that leaves the queue alone, and which thread calls what, is a stutter.
LEMMA Stutters ==
    ASSUME UNCHANGED <<pending, job>>,
           \A w \in Runner : pc'[w] = "call" <=> pc[w] = "call"
    PROVE  UNCHANGED <<pending, Active>>
  <1>1. Calling' = Calling
    BY DEF Calling
  <1> QED
    BY <1>1 DEF Active

LEMMA StepRefines ==
    ASSUME ClientIInv, ActiveIsTheJob, ActiveIsTheJob', [ClientNext]_clientVars
    PROVE  [Serial!QueueNext]_(Serial!queueVars)
  <1> USE DEF ClientIInv, ClientTypeOK, Thread, Runner, Goto
  <1> DEFINE Stays == UNCHANGED <<pending, Active>>
  <1>s. Stays => UNCHANGED Serial!queueVars
    BY DEF Serial!queueVars, Active
  <1>1. CASE UNCHANGED clientVars
    BY <1>1, <1>s, Stutters DEF clientVars
  <1>2. CASE \E p \in Producer, c \in Callback : AddToProcessQueue(p, c)
    <2>1. PICK p \in Producer, c \in Callback : AddToProcessQueue(p, c)
      BY <1>2
    <2>2. \A w \in Runner : pc'[w] = pc[w]
      BY <2>1, ClientAssumption DEF AddToProcessQueue
    <2>3. Calling' = Calling
      BY <2>2 DEF Calling
    <2>4. Active' = Active
      BY <2>1, <2>3 DEF Active, AddToProcessQueue
    <2>5. Serial!Add(c)
      BY <2>1, <2>4 DEF Serial!Add, AddToProcessQueue, Active
    <2> QED
      BY <2>5 DEF Serial!QueueNext
  <1>3. ASSUME NEW t \in Thread, ThreadStep(t)
        PROVE  [Serial!QueueNext]_(Serial!queueVars)
    <2>1. CASE MaybeSchedule(t)
      BY <2>1, <1>s, Stutters DEF MaybeSchedule
    <2>2. CASE Schedule(t)
      BY <2>2, <1>s, Stutters DEF Schedule
    <2>3. CASE t \in Worker /\ TakeTask(t)
      BY <2>3, <1>s, Stutters DEF TakeTask
    <2>4. CASE t \in Runner /\ ProcessNothing(t)
      BY <2>4, <1>s, Stutters DEF ProcessNothing
    <2>5. CASE t \in Runner /\ TakeCallback(t)
      <3>1. \A w \in Runner : pc[w] # "call"
        BY <2>5 DEF TakeCallback, MayTake, RunningIsOne
      <3>2. Active = Nothing
        BY <3>1 DEF ActiveIsTheJob
      <3>3. pc'[t] = "call" /\ job'[t] = Head(pending)
        BY <2>5 DEF TakeCallback
      <3>4. Active' = job'[t]
        BY <2>5, <3>3 DEF ActiveIsTheJob
      <3>5. pending # <<>> /\ pending' = Tail(pending)
        BY <2>5 DEF TakeCallback, MayTake
      <3>6. Serial!Start
        BY <3>2, <3>3, <3>4, <3>5 DEF Serial!Start, Active
      <3> QED
        BY <3>6 DEF Serial!QueueNext
    <2>6. CASE t \in Runner /\ Return(t)
      <3>1. Active = job[t] /\ job[t] \in Callback
        BY <2>6 DEF ActiveIsTheJob, Return, CallHasJob
      <3>2. \A w \in Runner : pc'[w] # "call"
        BY <2>6 DEF Return, RunningIsOne
      <3>3. Active' = Nothing
        BY <3>2 DEF ActiveIsTheJob
      <3>4. Serial!Finish
        BY <2>6, <3>1, <3>3, ClientAssumption DEF Serial!Finish, Active, Return
      <3> QED
        BY <3>4 DEF Serial!QueueNext
    <2>7. CASE t \in Runner /\ Done(t)
      BY <2>7, <1>s, Stutters DEF Done
    <2>8. CASE t = Flusher /\ (EmptyQueue \/ EmptyQueueReturns)
      BY <2>8, <1>s, Stutters DEF EmptyQueue, EmptyQueueReturns
    <2> QED
      BY <1>3, <2>1, <2>2, <2>3, <2>4, <2>5, <2>6, <2>7, <2>8 DEF ThreadStep
  <1>4. CASE StopThreads
    BY <1>4, <1>s, Stutters DEF StopThreads
  <1>5. CASE ClientReset
    <2>1. \A w \in Runner : pc'[w] # "call"
      BY <1>5 DEF ClientReset
    <2>2. Active' = Nothing
      BY <2>1 DEF ActiveIsTheJob
    <2>3. Serial!Reset
      BY <1>5, <2>2 DEF Serial!Reset, Active, ClientReset
    <2> QED
      BY <2>3 DEF Serial!QueueNext
  <1> QED
    BY <1>1, <1>2, <1>3, <1>4, <1>5 DEF ClientNext

\* The callbacks behave as if one thread executed them in order (scheduler.h).
THEOREM ClientImplementsSerialQueue == ClientSpec => RunsSerially
  <1>1. ClientInit => Serial!QueueInit
    BY DEF ClientInit, Serial!QueueInit, Calling, Thread, Runner
  <1>2. ClientIInv /\ ActiveIsTheJob /\ ActiveIsTheJob' /\ [ClientNext]_clientVars
            => [Serial!QueueNext]_(Serial!queueVars)
    BY StepRefines
  <1> QED
    BY <1>1, <1>2, ActiveFacts, Invariance, PTL DEF ClientSpec, RunsSerially, Serial!QueueSpec
=============================================================================
