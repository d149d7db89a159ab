---------------------------- MODULE AsyncWorker ----------------------------
(***************************************************************************)
(* AsyncWorker (src/async_worker.cpp, include/ashe/async_worker.h): one    *)
(* thread started with std::async runs the queued tasks in order; start,   *)
(* stop and the destructor are called by the owner, invoke and clearTasks  *)
(* by any client and by the running task.  As in ThreadPool a critical     *)
(* section is one action and the notify of invoke, made after the unlock,  *)
(* another.  worker is the future thread_ and the place of its thread:     *)
(*   none       thread_ is not valid                                       *)
(*   starting   launched, run has not begun                                *)
(*   woken      about to test the predicate of the wait                    *)
(*   asleep     inside the wait                                            *)
(*   task       inside a task                                              *)
(*   finished   run has returned, thread_ is ready                         *)
(***************************************************************************)
EXTENDS Naturals, Sequences, FiniteSets

CONSTANTS
    Worker,     \* the thread of run
    Client,     \* threads that call invoke and clearTasks
    Task,
    NoTask

ASSUME ThreadAssumption == Worker \notin Client
ASSUME TaskAssumption == NoTask \notin Task

Thread == Client \cup {Worker}

VARIABLES
    work_queue,
    exit,       \* exit_
    running,    \* running_
    worker,
    cur,        \* the task being run
    inInvoke,   \* threads between the unlock and the notify of invoke
    owner,      \* "idle" | "stopping" | "stopped" | "deleting" | "deleted"
    invoked, done, dropped  \* history: tasks handed over, returned, destroyed unrun

workerVars == <<work_queue, exit, running, worker, cur>>
history == <<invoked, done, dropped>>
vars == <<workerVars, inInvoke, owner, history>>

Queued == {work_queue[i] : i \in DOMAIN work_queue}

TypeOK ==
    /\ work_queue \in Seq(Task)
    /\ exit \in BOOLEAN /\ running \in BOOLEAN
    /\ worker \in {"none", "starting", "woken", "asleep", "task", "finished"}
    /\ cur \in Task \cup {NoTask}
    /\ cur # NoTask <=> worker = "task"
    /\ inInvoke \subseteq Thread
    /\ owner \in {"idle", "stopping", "stopped", "deleting", "deleted"}
    /\ invoked \subseteq Task /\ done \subseteq Task /\ dropped \subseteq Task

Init ==
    /\ work_queue = <<>>
    /\ exit = FALSE /\ running = FALSE
    /\ worker = "none" /\ cur = NoTask
    /\ inInvoke = {}
    /\ owner = "idle"
    /\ invoked = {} /\ done = {} /\ dropped = {}

\* isRunning().
isRunning == running

\* thread_ is valid and not ready.
ThreadRuns == worker \notin {"none", "finished"}
-----------------------------------------------------------------------------
(* The owner. *)

\* The owner is in no call.
Free == owner \in {"idle", "stopped"}

\* start(): a second thread is launched only when the first has ended.
start ==
    /\ Free
    /\ worker' = IF ThreadRuns THEN worker ELSE "starting"
    /\ owner' = "idle"
    /\ UNCHANGED <<work_queue, exit, running, cur, inInvoke, history>>

stop_NoNotify(next) ==
    /\ Free
    /\ work_queue' = <<>> /\ dropped' = dropped \cup Queued
    /\ exit' = TRUE
    /\ owner' = next
    /\ UNCHANGED <<running, worker, cur, inInvoke, invoked, done>>

\* stop() up to the wait: exit_ stays set from here on.
stop(next) ==
    /\ Free
    /\ work_queue' = <<>> /\ dropped' = dropped \cup Queued
    /\ exit' = TRUE
    /\ worker' = IF worker = "asleep" THEN "woken" ELSE worker
    /\ owner' = next
    /\ UNCHANGED <<running, cur, inInvoke, invoked, done>>

StopReturns_NoWait ==
    /\ owner = "stopping"
    /\ owner' = "stopped"
    /\ UNCHANGED <<workerVars, inInvoke, history>>

\* thread_.wait().
StopReturns ==
    /\ owner = "stopping" /\ ~ThreadRuns
    /\ owner' = "stopped"
    /\ UNCHANGED <<workerVars, inInvoke, history>>

\* The destructor is stop; no client is inside the object any more.
Delete == inInvoke \cap Client = {} /\ stop("deleting")

\* After the wait the members go, with the tasks invoked since the swap.
Deleted ==
    /\ owner = "deleting" /\ ~ThreadRuns
    /\ owner' = "deleted"
    /\ dropped' = dropped \cup Queued
    /\ work_queue' = <<>>
    /\ UNCHANGED <<exit, running, worker, cur, inInvoke, invoked, done>>
-----------------------------------------------------------------------------
(* Clients, and the running task. *)

MayCall(c) ==
    /\ c \notin inInvoke
    /\ IF c = Worker THEN worker = "task" ELSE owner \notin {"deleting", "deleted"}

invoke(c, t) ==
    /\ MayCall(c)
    /\ t \in Task \ invoked
    /\ work_queue' = Append(work_queue, t)
    /\ invoked' = invoked \cup {t}
    /\ inInvoke' = inInvoke \cup {c}
    /\ UNCHANGED <<exit, running, worker, cur, owner, done, dropped>>

InvokeNotifies_Nobody(c) ==
    /\ c \in inInvoke
    /\ inInvoke' = inInvoke \ {c}
    /\ UNCHANGED <<workerVars, owner, history>>

\* exit_cond_var_.notify_one(); only the worker ever waits.
InvokeNotifies(c) ==
    /\ c \in inInvoke
    /\ inInvoke' = inInvoke \ {c}
    /\ worker' = IF worker = "asleep" THEN "woken" ELSE worker
    /\ UNCHANGED <<work_queue, exit, running, cur, owner, history>>

clearTasks(c) ==
    /\ MayCall(c)
    /\ work_queue # <<>>
    /\ work_queue' = <<>> /\ dropped' = dropped \cup Queued
    /\ UNCHANGED <<exit, running, worker, cur, inInvoke, owner, invoked, done>>
-----------------------------------------------------------------------------
(* run. *)

RunBegins ==
    /\ worker = "starting"
    /\ running' = TRUE
    /\ worker' = "woken"
    /\ UNCHANGED <<work_queue, exit, cur, inInvoke, owner, history>>

Wait ==
    /\ worker = "woken" /\ ~exit /\ work_queue = <<>>
    /\ worker' = "asleep"
    /\ UNCHANGED <<work_queue, exit, running, cur, inInvoke, owner, history>>

SpuriousWake ==
    /\ worker = "asleep"
    /\ worker' = "woken"
    /\ UNCHANGED <<work_queue, exit, running, cur, inInvoke, owner, history>>

RunEnds ==
    /\ worker = "woken" /\ exit
    /\ running' = FALSE
    /\ worker' = "finished"
    /\ UNCHANGED <<work_queue, exit, cur, inInvoke, owner, history>>

Take_Newest ==
    /\ worker = "woken" /\ ~exit /\ work_queue # <<>>
    /\ cur' = work_queue[Len(work_queue)]
    /\ work_queue' = SubSeq(work_queue, 1, Len(work_queue) - 1)
    /\ worker' = "task"
    /\ UNCHANGED <<exit, running, inInvoke, owner, history>>

Take ==
    /\ worker = "woken" /\ ~exit /\ work_queue # <<>>
    /\ cur' = Head(work_queue)
    /\ work_queue' = Tail(work_queue)
    /\ worker' = "task"
    /\ UNCHANGED <<exit, running, inInvoke, owner, history>>

Return_KeepsTask ==
    /\ worker = "task" /\ Worker \notin inInvoke
    /\ done' = done \cup {cur}
    /\ worker' = "woken"
    /\ UNCHANGED <<work_queue, exit, running, cur, inInvoke, owner, invoked, dropped>>

Return ==
    /\ worker = "task" /\ Worker \notin inInvoke
    /\ done' = done \cup {cur}
    /\ cur' = NoTask
    /\ worker' = "woken"
    /\ UNCHANGED <<work_queue, exit, running, inInvoke, owner, invoked, dropped>>
-----------------------------------------------------------------------------
Gone == owner = "deleted" /\ UNCHANGED vars

Run == RunBegins \/ Wait \/ RunEnds \/ Take \/ Return

Next ==
    \/ start \/ stop("stopping") \/ StopReturns \/ Delete \/ Deleted
    \/ \E c \in Thread :
          \/ InvokeNotifies(c) \/ clearTasks(c)
          \/ \E t \in Task : invoke(c, t)
    \/ Run \/ SpuriousWake \/ Gone

\* The worker's thread, a thread inside invoke and an owner inside stop or the
\* destructor get the processor; tasks return.
Fairness ==
    /\ WF_vars(Run)
    /\ \A c \in Thread : WF_vars(InvokeNotifies(c))
    /\ WF_vars(StopReturns) /\ WF_vars(Deleted)

Spec == Init /\ [][Next]_vars /\ Fairness
-----------------------------------------------------------------------------
\* "waits for the task being run, then leaves" (async_worker.h:59): when stop
\* or the destructor has returned no task runs and isRunning() is false,
\* until the next start.
StopMeansStopped ==
    owner \in {"stopped", "deleted"} => ~ThreadRuns /\ ~isRunning

\* From the moment stop has set exit_ no queued task is started any more, not
\* even one invoked while stop waits.
NothingStartsAfterStop == [][exit => cur' \in {cur, NoTask}]_vars

\* Tasks run one at a time, in the order of invoke, or are given up by stop
\* and clearTasks; each has one fate.
Executor == INSTANCE FifoExecutor WITH
    Width   <- 1,
    queue   <- work_queue,
    running <- IF worker = "task" THEN {cur} ELSE {},
    gone    <- dropped,
    open    <- TRUE

InOrder == Executor!MayGiveUp

\* While no stop intervenes a started worker serves every task.
ServesUntilStop == \A t \in Task :
    t \in Queued /\ ThreadRuns /\ ~exit ~> t \in done \cup dropped

\* stop and the destructor return once the task being run has.
StopReturnsAtLast == owner \in {"stopping", "deleting"} ~> owner \in {"stopped", "deleted"}
=============================================================================
