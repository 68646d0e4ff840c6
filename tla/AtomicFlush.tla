---------------------------- MODULE AtomicFlush -----------------------------
(***************************************************************************)
(* What the coin database promises: a flush happens at once, and a node that *)
(* starts again has the coins of the last flush.                             *)
(***************************************************************************)
CONSTANTS Block, Genesis, Utxo, None

VARIABLES
    running,  \* the node is up
    tip,      \* the block whose coins it works with
    saved,    \* the block of the last flush
    coins     \* the coins a start-up finds

vars == <<running, tip, saved, coins>>

Init ==
    /\ running = TRUE
    /\ tip = Genesis /\ saved = Genesis
    /\ coins = Utxo[Genesis]

Move ==
    /\ running
    /\ tip' \in Block
    /\ UNCHANGED <<running, saved, coins>>

Flush ==
    /\ running
    /\ saved' = tip /\ coins' = Utxo[tip]
    /\ UNCHANGED <<running, tip>>

Stop ==
    /\ running
    /\ running' = FALSE /\ tip' = None
    /\ UNCHANGED <<saved, coins>>

Start ==
    /\ ~running
    /\ running' = TRUE /\ tip' = saved
    /\ UNCHANGED <<saved, coins>>

Next == Move \/ Flush \/ Stop \/ Start

Spec == Init /\ [][Next]_vars
=============================================================================
