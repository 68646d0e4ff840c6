---------------------------- MODULE SerialQueue ----------------------------
(***************************************************************************)
(* What SingleThreadedSchedulerClient promises (scheduler.h): callbacks run *)
(* one at a time, in the order in which they were added.                    *)
(***************************************************************************)
EXTENDS Sequences

CONSTANTS
    Callback,   \* what can be added
    Nothing     \* no callback

VARIABLES
    queue,      \* callbacks that wait
    active      \* the callback that runs, or Nothing

queueVars == <<queue, active>>

QueueInit ==
    /\ queue = <<>>
    /\ active = Nothing

Add(c) ==
    /\ queue' = Append(queue, c)
    /\ UNCHANGED active

Start ==
    /\ active = Nothing
    /\ queue # <<>>
    /\ active' = Head(queue)
    /\ queue' = Tail(queue)

Finish ==
    /\ active # Nothing
    /\ active' = Nothing
    /\ UNCHANGED queue

\* The process ends; what waited is lost.
Reset ==
    /\ queue' = <<>>
    /\ active' = Nothing

QueueNext ==
    \/ \E c \in Callback : Add(c)
    \/ Start
    \/ Finish
    \/ Reset

QueueSpec == QueueInit /\ [][QueueNext]_queueVars
=============================================================================
