------------------------------ MODULE UtxoSet ------------------------------
(***************************************************************************)
(* What the coins subsystem promises to the rest of the node: one map from *)
(* outpoints to unspent coins, together with the block it is the result    *)
(* of.  A block is applied to (or undone from) a draft of the map and the  *)
(* draft is either adopted as a whole or dropped as a whole.  A durable    *)
(* copy is taken from time to time, and after a crash the map is that copy.*)
(***************************************************************************)
CONSTANTS
    Outpoint,   \* transaction outputs that can be referred to
    Coin,       \* what an unspent output can hold
    Spent,      \* the outpoint has no unspent coin
    Block       \* block hashes the map can be the result of

VARIABLES
    utxo,       \* the current map
    best,       \* the block it is the result of
    draft,      \* the map being prepared for the next block
    draftBest,  \* the block the draft is the result of
    open,       \* whether a draft is being prepared
    durable     \* the last durable copy: a map and its block

vars == <<utxo, best, draft, draftBest, open, durable>>

Map == [Outpoint -> Coin \cup {Spent}]

TypeOK ==
    /\ utxo \in Map
    /\ draft \in Map
    /\ best \in Block
    /\ draftBest \in Block
    /\ open \in BOOLEAN
    /\ durable \in [map : Map, best : Block]

Init ==
    /\ utxo = [o \in Outpoint |-> Spent]
    /\ best \in Block
    /\ draft = utxo
    /\ draftBest = best
    /\ open = FALSE
    /\ durable = [map |-> utxo, best |-> best]

Begin ==
    /\ ~open
    /\ open' = TRUE
    /\ UNCHANGED <<utxo, best, draft, draftBest, durable>>

Add(o, c) ==
    /\ open
    /\ draft' = [draft EXCEPT ![o] = c]
    /\ UNCHANGED <<utxo, best, draftBest, open, durable>>

Spend(o) ==
    /\ open
    /\ draft' = [draft EXCEPT ![o] = Spent]
    /\ UNCHANGED <<utxo, best, draftBest, open, durable>>

Commit(b) ==
    /\ open
    /\ utxo' = draft
    /\ best' = b
    /\ draftBest' = b
    /\ open' = FALSE
    /\ UNCHANGED <<draft, durable>>

Discard ==
    /\ open
    /\ draft' = utxo
    /\ draftBest' = best
    /\ open' = FALSE
    /\ UNCHANGED <<utxo, best, durable>>

Persist ==
    /\ ~open
    /\ durable' = [map |-> utxo, best |-> best]
    /\ UNCHANGED <<utxo, best, draft, draftBest, open>>

Crash ==
    /\ utxo' = durable.map
    /\ best' = durable.best
    /\ draft' = durable.map
    /\ draftBest' = durable.best
    /\ open' = FALSE
    /\ UNCHANGED durable

Next ==
    \/ Begin
    \/ \E o \in Outpoint, c \in Coin : Add(o, c)
    \/ \E o \in Outpoint : Spend(o)
    \/ \E b \in Block : Commit(b)
    \/ Discard
    \/ Persist
    \/ Crash

Spec == Init /\ [][Next]_vars
=============================================================================
