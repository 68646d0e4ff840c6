------------------------- MODULE MCSchedulerClient -------------------------
(***************************************************************************)
(* SchedulerClient with callbacks that are added once each, in any order.   *)
(***************************************************************************)
EXTENDS SchedulerClient

CONSTANTS w1, w2, p1, p2, c1, c2, c3, c4

VARIABLE added  \* bound: the callbacks that have been added

MCVars == <<clientVars, added>>

MCInit == ClientInit /\ added = {}

MCAdd ==
    \E p \in Producer, c \in Callback \ added :
        /\ AddToProcessQueue(p, c)
        /\ added' = added \cup {c}

MCThread(t) == ThreadStep(t) /\ UNCHANGED added

\* The process starts again while there is something left to add.
MCReset == added # Callback /\ ClientReset /\ UNCHANGED added

MCNext ==
    \/ MCAdd
    \/ \E t \in Thread : MCThread(t)
    \/ StopThreads /\ UNCHANGED added
    \/ MCReset

MCSpec ==
    /\ MCInit /\ [][MCNext]_MCVars
    /\ WF_MCVars(MCAdd)
    /\ \A t \in Thread : WF_MCVars(MCThread(t))
=============================================================================
