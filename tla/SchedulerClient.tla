-------------------------- MODULE SchedulerClient --------------------------
(***************************************************************************)
(* SingleThreadedSchedulerClient over a CScheduler that several threads     *)
(* service (scheduler.cpp).  A task of the scheduler is a call of           *)
(* ProcessQueue; every block under m_cs_callbacks_pending or newTaskMutex   *)
(* is one step, so threads interleave wherever a lock is free.  The tasks   *)
(* of others (scheduleEvery) do not touch this state.                       *)
(***************************************************************************)
EXTENDS Naturals, Sequences, FiniteSets

CONSTANTS
    Worker,     \* threads in CScheduler::serviceQueue
    Producer,   \* threads that add callbacks
    Flusher,    \* the thread that calls EmptyQueue in Shutdown()
    Callback,   \* what can be added
    Nothing     \* no callback

Runner == Worker \cup {Flusher}
Thread == Runner \cup Producer

ASSUME ClientAssumption ==
    /\ Runner \cap Producer = {}
    /\ Flusher \notin Worker
    /\ Nothing \notin Callback

VARIABLES
    pending,    \* m_callbacks_pending
    running,    \* m_are_callbacks_running
    tasks,      \* how many calls of ProcessQueue are in taskQueue
    stopped,    \* the threads of the scheduler are interrupted and joined
    pc,         \* place of each thread
    job         \* the callback a thread runs

clientVars == <<pending, running, tasks, stopped, pc, job>>

ClientTypeOK ==
    /\ pending \in Seq(Callback)
    /\ running \in BOOLEAN
    /\ tasks \in Nat
    /\ stopped \in BOOLEAN
    /\ pc \in [Thread -> {"idle", "process", "call", "done", "maybe", "schedule",
                       "over"}]
    /\ job \in [Runner -> Callback \cup {Nothing}]

ClientInit ==
    /\ pending = <<>>
    /\ running = FALSE
    /\ tasks = 0
    /\ stopped = FALSE
    /\ pc = [t \in Thread |-> "idle"]
    /\ job = [w \in Runner |-> Nothing]

Goto(t, place) == pc' = [pc EXCEPT ![t] = place]

-----------------------------------------------------------------------------
\* AddToProcessQueue: the callback is queued; MaybeScheduleProcessQueue follows.
AddToProcessQueue(p, c) ==
    /\ pc[p] = "idle"
    /\ pending' = Append(pending, c)
    /\ Goto(p, "maybe")
    /\ UNCHANGED <<running, tasks, stopped, job>>

\* MaybeScheduleProcessQueue looks under the lock whether there is something to
\* schedule, and schedules it when the lock is released.
\* Mutant: only the first callback needs a task.
MutantOnlyFirst == ~running /\ Len(pending) = 1
NeedsTask == ~running /\ pending # <<>>

MaybeSchedule(t) ==
    /\ pc[t] = "maybe"
    /\ Goto(t, IF NeedsTask THEN "schedule" ELSE "idle")
    /\ UNCHANGED <<pending, running, tasks, stopped, job>>

Schedule(t) ==
    /\ pc[t] = "schedule"
    /\ tasks' = tasks + 1
    /\ Goto(t, "idle")
    /\ UNCHANGED <<pending, running, stopped, job>>

\* serviceQueue takes a task and calls it without the lock.
TakeTask(w) ==
    /\ pc[w] = "idle"
    /\ ~stopped
    /\ tasks > 0
    /\ tasks' = tasks - 1
    /\ Goto(w, "process")
    /\ UNCHANGED <<pending, running, stopped, job>>

\* ProcessQueue, in its first block: return, or take the first callback.
\* Mutant: a second thread does not see that one runs.
MutantOverlap == pending # <<>>
MayTake == ~running /\ pending # <<>>

ProcessNothing(w) ==
    /\ pc[w] = "process"
    /\ ~MayTake
    /\ Goto(w, "idle")
    /\ UNCHANGED <<pending, running, tasks, stopped, job>>

TakeCallback(w) ==
    /\ pc[w] = "process"
    /\ MayTake
    /\ running' = TRUE
    /\ job' = [job EXCEPT ![w] = Head(pending)]
    /\ pending' = Tail(pending)
    /\ Goto(w, "call")
    /\ UNCHANGED <<tasks, stopped>>

\* The callback returns.
Return(w) ==
    /\ pc[w] = "call"
    /\ job' = [job EXCEPT ![w] = Nothing]
    /\ Goto(w, "done")
    /\ UNCHANGED <<pending, running, tasks, stopped>>

\* ~RAIICallbacksRunning, which then calls MaybeScheduleProcessQueue.
\* Mutant: it does not.
MutantNoFollowUp(w) ==
    /\ pc[w] = "done"
    /\ running' = FALSE
    /\ Goto(w, "idle")
    /\ UNCHANGED <<pending, tasks, stopped, job>>
Done(w) ==
    /\ pc[w] = "done"
    /\ running' = FALSE
    /\ Goto(w, "maybe")
    /\ UNCHANGED <<pending, tasks, stopped, job>>

\* Shutdown(): the threads end, each after what it was running; EmptyQueue then
\* calls ProcessQueue until nothing waits.
StopThreads ==
    /\ ~stopped
    /\ \A w \in Worker : pc[w] = "idle"
    /\ stopped' = TRUE
    /\ UNCHANGED <<pending, running, tasks, pc, job>>

EmptyQueue ==
    /\ stopped
    /\ pc[Flusher] = "idle"
    /\ pending # <<>>
    /\ Goto(Flusher, "process")
    /\ UNCHANGED <<pending, running, tasks, stopped, job>>

\* EmptyQueue returns: "Any future callbacks will be dropped" (Shutdown()).
EmptyQueueReturns ==
    /\ stopped
    /\ pc[Flusher] = "idle"
    /\ pending = <<>>
    /\ Goto(Flusher, "over")
    /\ UNCHANGED <<pending, running, tasks, stopped, job>>

\* The process ends, by a crash or after Shutdown(), and starts again.
ClientReset ==
    /\ pending' = <<>>
    /\ running' = FALSE
    /\ tasks' = 0
    /\ stopped' = FALSE
    /\ pc' = [t \in Thread |-> "idle"]
    /\ job' = [w \in Runner |-> Nothing]

ThreadStep(t) ==
    \/ MaybeSchedule(t)
    \/ Schedule(t)
    \/ t \in Worker /\ TakeTask(t)
    \/ t \in Runner /\ (ProcessNothing(t) \/ TakeCallback(t) \/ Return(t) \/ Done(t))
    \/ t = Flusher /\ (EmptyQueue \/ EmptyQueueReturns)

ClientNext ==
    \/ \E p \in Producer, c \in Callback : AddToProcessQueue(p, c)
    \/ \E t \in Thread : ThreadStep(t)
    \/ StopThreads
    \/ ClientReset

ClientSpec == ClientInit /\ [][ClientNext]_clientVars

-----------------------------------------------------------------------------
Calling == {w \in Runner : pc[w] = "call"}

\* m_are_callbacks_running is set exactly while one thread is between taking a
\* callback and the destructor that resets the flag (scheduler.h: "no two jobs
\* will be executed at the same time").
RunningIsOne ==
    /\ running <=> \E w \in Runner : pc[w] \in {"call", "done"}
    /\ \A v, w \in Runner : {pc[v], pc[w]} \subseteq {"call", "done"} => v = w

\* A callback that waits is never forgotten: a task is scheduled, or some thread
\* is on its way to run it or to look at the queue again.  MaybeSchedule... is
\* allowed to return early because of this.
NoneForgotten ==
    pending # <<>> =>
        \/ tasks > 0
        \/ stopped
        \/ \E t \in Thread : pc[t] # "idle"

\* Callbacks behave "as if they were executed in order by a single thread"
\* (scheduler.h): the client implements SerialQueue.
Serial == INSTANCE SerialQueue WITH
    queue <- pending,
    active <- IF Calling = {} THEN Nothing ELSE job[CHOOSE w \in Calling : TRUE]
RunsSerially == Serial!QueueSpec

\* Every callback that is added before EmptyQueue has returned is run, once no more are
\* added and as long as every thread that can take a step takes one.
AllRun == <>[](pc[Flusher] = "over" \/ (pending = <<>> /\ Calling = {}))
=============================================================================
