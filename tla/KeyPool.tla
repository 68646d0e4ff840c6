------------------------------ MODULE KeyPool ------------------------------
(***************************************************************************)
(* The pool of keys of a wallet that has its private keys and an HD chain   *)
(* split (wallet/wallet.cpp), with the reservations of ReserveDestination.  *)
(* A key is its index in the pool.  A wallet upgraded from before the split *)
(* starts with pre-split keys.  Every operation holds cs_wallet, so it is   *)
(* one step; the wallet database keeps what an operation wrote.             *)
(***************************************************************************)
EXTENDS Naturals, FiniteSets, FiniteSetsExt

CONSTANTS
    Holder,         \* owners of a ReserveDestination
    NoKey,          \* nIndex = -1
    KeypoolSize,    \* -keypool, at least 1
    PreSplit,       \* keys of the wallet from before the HD split
    MaxIndex        \* bound: m_max_keypool_index

ASSUME KeyConstants ==
    /\ KeypoolSize \in Nat /\ MaxIndex \in Nat
    /\ PreSplit \subseteq 1..MaxIndex
    /\ NoKey \notin 1..MaxIndex

VARIABLES
    setInternalKeyPool, setExternalKeyPool, set_pre_split_keypool,
    m_pool_key_to_index,    \* the keys it finds
    disk,                   \* key -> the kind its record in the database has
    m_max_keypool_index,
    reserved,               \* the key each holder has reserved
    locked,                 \* IsLocked()
    kept,                   \* history: keys that were given away for good
    seen,                   \* history: keys seen in a transaction while in the pool
    upgraded                \* whether the wallet started with pre-split keys

pools == <<setInternalKeyPool, setExternalKeyPool, set_pre_split_keypool>>
poolVars == <<pools, m_pool_key_to_index, disk, m_max_keypool_index>>
keyVars == <<poolVars, reserved, locked, kept, seen, upgraded>>

Key == 1..MaxIndex
Kind == {"internal", "external", "presplit"}
Pool == setInternalKeyPool \cup setExternalKeyPool \cup set_pre_split_keypool
Reserved == {reserved[h] : h \in Holder} \ {NoKey}

KeyTypeOK ==
    /\ Pool \subseteq Key
    /\ m_pool_key_to_index \subseteq Key
    /\ DOMAIN disk \subseteq Key /\ Range(disk) \subseteq Kind
    /\ m_max_keypool_index \in 0..MaxIndex
    /\ reserved \in [Holder -> Key \cup {NoKey}]
    /\ locked \in BOOLEAN /\ upgraded \in BOOLEAN
    /\ kept \subseteq Key /\ seen \subseteq Key

Without(f, s) == [k \in DOMAIN f \ s |-> f[k]]
OfKind(d, kind) == {k \in DOMAIN d : d[k] = kind}

-----------------------------------------------------------------------------
\* LoadKeyPool, for every record of the database.
Load(d) ==
    /\ setInternalKeyPool' = OfKind(d, "internal")
    /\ setExternalKeyPool' = OfKind(d, "external")
    /\ set_pre_split_keypool' = OfKind(d, "presplit")
    /\ m_pool_key_to_index' = DOMAIN d
    /\ disk' = d

\* What TopUpKeyPool makes of pools: an unlocked wallet gets the external keys that
\* are missing, then the internal ones, each with its record.
Missing(pool) == Max({KeypoolSize, 1}) - Min({Cardinality(pool), Max({KeypoolSize, 1})})
ToppedUp(p) ==
    LET ext == IF locked THEN 0 ELSE Missing(p.external)
        int == IF locked THEN 0 ELSE Missing(p.internal)
        newExt == (p.max + 1) .. (p.max + ext)
        newInt == (p.max + ext + 1) .. (p.max + ext + int)
    IN  [internal |-> p.internal \cup newInt,
         external |-> p.external \cup newExt,
         presplit |-> p.presplit,
         found    |-> p.found \cup newExt \cup newInt,
         disk     |-> [k \in DOMAIN p.disk \cup newExt \cup newInt |->
                          IF k \in newExt THEN "external"
                          ELSE IF k \in newInt THEN "internal" ELSE p.disk[k]],
         max      |-> p.max + ext + int]

\* The pools as they are, and as a step leaves them.
Now ==
    [internal |-> setInternalKeyPool, external |-> setExternalKeyPool,
     presplit |-> set_pre_split_keypool, found |-> m_pool_key_to_index,
     disk |-> disk, max |-> m_max_keypool_index]
Become(p) ==
    /\ p.max <= MaxIndex
    /\ setInternalKeyPool' = p.internal
    /\ setExternalKeyPool' = p.external
    /\ set_pre_split_keypool' = p.presplit
    /\ m_pool_key_to_index' = p.found
    /\ disk' = p.disk
    /\ m_max_keypool_index' = p.max

TopUpKeyPool ==
    /\ Become(ToppedUp(Now))
    /\ UNCHANGED <<reserved, locked, kept, seen, upgraded>>

\* ReserveKeyFromKeyPool: top up, then the oldest key of the pool it looks in.
PoolFor(p, internal) ==
    IF p.presplit # {} THEN p.presplit ELSE IF internal THEN p.internal ELSE p.external
Taken(p, k) ==
    [internal |-> p.internal \ {k}, external |-> p.external \ {k},
     presplit |-> p.presplit \ {k}, found |-> p.found \ {k},
     disk |-> p.disk, max |-> p.max]

ReserveKey(h, internal) ==
    LET p == ToppedUp(Now)
        pool == PoolFor(p, internal)
    IN  /\ reserved[h] = NoKey
        /\ pool # {}
        /\ Become(Taken(p, Min(pool)))
        /\ reserved' = [reserved EXCEPT ![h] = Min(pool)]
        /\ UNCHANGED <<locked, kept, seen, upgraded>>

\* Mutant: the record stays.
MutantKeepRecord(h) ==
    /\ reserved[h] # NoKey
    /\ kept' = kept \cup {reserved[h]}
    /\ reserved' = [reserved EXCEPT ![h] = NoKey]
    /\ UNCHANGED <<poolVars, locked, seen, upgraded>>

\* KeepKey, which only erases the record.
KeepKey(h) ==
    /\ reserved[h] # NoKey
    /\ disk' = Without(disk, {reserved[h]})
    /\ kept' = kept \cup {reserved[h]}
    /\ reserved' = [reserved EXCEPT ![h] = NoKey]
    /\ UNCHANGED <<pools, m_pool_key_to_index, m_max_keypool_index, locked, seen, upgraded>>

\* ReturnKey: a key that is not internal goes to the pre-split keys if there are any.
ReturnKey(h) ==
    LET k == reserved[h]
        internal == disk[k] = "internal"
        presplit == ~internal /\ set_pre_split_keypool # {}
    IN  /\ k # NoKey
        /\ setInternalKeyPool' = setInternalKeyPool \cup (IF internal THEN {k} ELSE {})
        /\ set_pre_split_keypool' = set_pre_split_keypool \cup (IF presplit THEN {k} ELSE {})
        /\ setExternalKeyPool' =
               setExternalKeyPool \cup (IF internal \/ presplit THEN {} ELSE {k})
        /\ m_pool_key_to_index' = m_pool_key_to_index \cup {k}
        /\ reserved' = [reserved EXCEPT ![h] = NoKey]
        /\ UNCHANGED <<disk, m_max_keypool_index, locked, kept, seen, upgraded>>

\* GetKeyFromPool, of GetNewDestination: reserve and keep.
GetKeyFromPool ==
    LET p == ToppedUp(Now)
        pool == PoolFor(p, FALSE)
        k == Min(pool)
    IN  /\ pool # {}
        /\ Become([Taken(p, k) EXCEPT !.disk = Without(@, {k})])
        /\ kept' = kept \cup {k}
        /\ UNCHANGED <<reserved, locked, seen, upgraded>>

\* Mutant: off by one.
MutantUsedBelow(k) ==
    {i \in (IF k \in setInternalKeyPool THEN setInternalKeyPool ELSE setExternalKeyPool) : i < k}

\* AddToWalletIfInvolvingMe, for a transaction that pays to a key of the pool:
\* MarkReserveKeysAsUsed, and top up.
UsedUpTo(k) ==
    LET pool == IF k \in setInternalKeyPool THEN setInternalKeyPool
                ELSE IF set_pre_split_keypool = {} THEN setExternalKeyPool
                ELSE set_pre_split_keypool
    IN  {i \in pool : i <= k}
MarkReserveKeysAsUsed(k) ==
    LET used == UsedUpTo(k)
        p == [internal |-> setInternalKeyPool \ used, external |-> setExternalKeyPool \ used,
              presplit |-> set_pre_split_keypool \ used, found |-> m_pool_key_to_index \ used,
              disk |-> Without(disk, used), max |-> m_max_keypool_index]
    IN  /\ k \in m_pool_key_to_index
        /\ Become(ToppedUp(p))
        /\ seen' = seen \cup {k}
        /\ UNCHANGED <<reserved, locked, kept, upgraded>>

\* Mutant: every record is erased.
MutantEraseAll ==
    /\ Become(ToppedUp([internal |-> {}, external |-> {}, presplit |-> {}, found |-> {},
                        disk |-> Without(disk, DOMAIN disk), max |-> m_max_keypool_index]))
    /\ UNCHANGED <<reserved, locked, kept, seen, upgraded>>

\* NewKeyPool, of EncryptWallet and sethdseed.
NewKeyPool ==
    /\ Become(ToppedUp([internal |-> {}, external |-> {}, presplit |-> {}, found |-> {},
                        disk |-> Without(disk, Pool), max |-> m_max_keypool_index]))
    /\ UNCHANGED <<reserved, locked, kept, seen, upgraded>>

\* walletlock and walletpassphrase.
SetLocked ==
    /\ locked' = ~locked
    /\ UNCHANGED <<poolVars, reserved, kept, seen, upgraded>>

\* The wallet is loaded again; reservations were only in memory.  (The code counts
\* on from the largest index it loads, so an index can come back with another key;
\* here an index is its key and does not.)
ReloadWallet ==
    /\ Load(disk)
    /\ UNCHANGED m_max_keypool_index
    /\ reserved' = [h \in Holder |-> NoKey]
    /\ locked' = FALSE
    /\ UNCHANGED <<kept, seen, upgraded>>

KeyInit ==
    /\ upgraded \in BOOLEAN
    /\ set_pre_split_keypool = IF upgraded THEN PreSplit ELSE {}
    /\ setInternalKeyPool = {} /\ setExternalKeyPool = {}
    /\ m_pool_key_to_index = set_pre_split_keypool
    /\ disk = [k \in set_pre_split_keypool |-> "presplit"]
    /\ m_max_keypool_index = Max({0} \cup set_pre_split_keypool)
    /\ reserved = [h \in Holder |-> NoKey]
    /\ locked = FALSE
    /\ kept = {} /\ seen = {}

\* A miner and CreateTransaction hold a change key; a miner mines to it and returns it.
KeyNext ==
    \/ TopUpKeyPool
    \/ \E h \in Holder : ReserveKey(h, TRUE) \/ KeepKey(h) \/ ReturnKey(h)
    \/ GetKeyFromPool
    \/ \E k \in Key : MarkReserveKeysAsUsed(k)
    \/ NewKeyPool
    \/ SetLocked
    \/ ReloadWallet

KeySpec == KeyInit /\ [][KeyNext]_keyVars

-----------------------------------------------------------------------------
\* A key has one owner: no two miners mine to one address, and what is reserved or
\* was given away is not in the pool, also after a restart.
KeysExclusive ==
    /\ \A h, i \in Holder : reserved[h] = reserved[i] /\ reserved[h] # NoKey => h = i
    /\ Reserved \cap Pool = {}
    /\ kept \cap (Pool \cup Reserved) = {}

\* The database has a record for exactly the keys that are in the pool or reserved, so
\* that no key is lost or comes back after a crash, ReserveKeyFromKeyPool finds what
\* it reads, of the kind it asks for, and a key of the pool is recognised.
PoolOnDisk ==
    /\ DOMAIN disk = Pool \cup Reserved
    /\ setInternalKeyPool \subseteq OfKind(disk, "internal")
    /\ (setExternalKeyPool \cup set_pre_split_keypool) \cap OfKind(disk, "internal") = {}
    /\ m_pool_key_to_index = Pool

\* "If so, remove those keys from the keypool" (AddToWalletIfInvolvingMe): a key that
\* was in the pool when a transaction paid to it is not given away later.  (It is in a
\* wallet with pre-split keys: MarkReserveKeysAsUsed then looks for an external key
\* among those.)
SeenGone == ~upgraded => seen \cap (Pool \cup Reserved \cup kept) = {}
=============================================================================
