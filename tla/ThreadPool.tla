----------------------------- MODULE ThreadPool -----------------------------
(***************************************************************************)
(* ThreadPool (src/thread_pool.cpp, include/ashe/thread_pool.h): a FIFO of *)
(* tasks under queue_mutex, workers that wait on one condition variable,   *)
(* and a destructor that raises stop, wakes everybody and joins.           *)
(*                                                                         *)
(* A critical section is one action.  Giving the mutex up inside wait is a *)
(* worker in "asleep"; a notify moves one, or every, such worker to "woken" *)
(* where it evaluates the predicate again.  The notify of enqueue happens  *)
(* after the unlock, so it is a step of its own.  A running task may       *)
(* enqueue too; other threads may only while the pool is not destroyed.    *)
(***************************************************************************)
EXTENDS Naturals, Sequences, FiniteSets

CONSTANTS
    Worker,     \* the threads of the pool
    Client,     \* threads outside the pool that call enqueue
    Task,       \* the callables ever handed to enqueue
    NoTask

ASSUME WorkerAssumption == IsFiniteSet(Worker) /\ Worker # {}
ASSUME ThreadAssumption == Worker \cap Client = {}
ASSUME TaskAssumption == NoTask \notin Task

VARIABLES
    tasks,      \* the queue
    stop,
    pc,         \* worker -> "woken" | "asleep" | "run" | "exited"
    cur,        \* worker -> the task it runs
    inEnqueue,  \* threads between the unlock and the notify of enqueue
    dtor,       \* "no" | "stopped" | "joining" | "done"
    accepted,   \* history: tasks pushed, in order
    finished,   \* history: tasks that returned
    refused     \* history: tasks dropped by enqueue

poolVars == <<tasks, stop, pc, cur, inEnqueue, dtor>>
vars == <<poolVars, accepted, finished, refused>>

Elements(s) == {s[i] : i \in DOMAIN s}

TypeOK ==
    /\ tasks \in Seq(Task)
    /\ stop \in BOOLEAN
    /\ pc \in [Worker -> {"woken", "asleep", "run", "exited"}]
    /\ cur \in [Worker -> Task \cup {NoTask}]
    /\ inEnqueue \subseteq Worker \cup Client
    /\ \A w \in Worker : cur[w] # NoTask <=> pc[w] = "run"
    /\ dtor \in {"no", "stopped", "joining", "done"}
    /\ accepted \in Seq(Task)
    /\ finished \subseteq Task
    /\ refused \subseteq Task

Init ==
    /\ tasks = <<>>
    /\ stop = FALSE
    /\ pc = [w \in Worker |-> "woken"]
    /\ cur = [w \in Worker |-> NoTask]
    /\ inEnqueue = {}
    /\ dtor = "no"
    /\ accepted = <<>>
    /\ finished = {}
    /\ refused = {}

\* A thread that may call enqueue now.
MayEnqueue(t) ==
    /\ t \notin inEnqueue
    /\ IF t \in Worker THEN pc[t] = "run" ELSE dtor = "no"

Enqueue_StopIgnored(t, task) ==
    /\ MayEnqueue(t)
    /\ task \notin Elements(accepted) \cup refused
    /\ tasks' = Append(tasks, task)
    /\ accepted' = Append(accepted, task)
    /\ inEnqueue' = inEnqueue \cup {t}
    /\ UNCHANGED <<stop, pc, cur, dtor, finished, refused>>

Enqueue_NoNotify(t, task) ==
    /\ MayEnqueue(t)
    /\ task \notin Elements(accepted) \cup refused
    /\ IF stop
       THEN refused' = refused \cup {task} /\ UNCHANGED <<tasks, accepted>>
       ELSE /\ tasks' = Append(tasks, task)
            /\ accepted' = Append(accepted, task)
            /\ UNCHANGED refused
    /\ UNCHANGED <<stop, pc, cur, dtor, inEnqueue, finished>>

Enqueue(t, task) ==
    /\ MayEnqueue(t)
    /\ task \notin Elements(accepted) \cup refused
    /\ IF stop
       THEN refused' = refused \cup {task} /\ UNCHANGED <<tasks, accepted>>
       ELSE /\ tasks' = Append(tasks, task)
            /\ accepted' = Append(accepted, task)
            /\ UNCHANGED refused
    /\ inEnqueue' = inEnqueue \cup {t}
    /\ UNCHANGED <<stop, pc, cur, dtor, finished>>

Asleep == {w \in Worker : pc[w] = "asleep"}

\* condition.notify_one(): some waiter, if there is one.
NotifyOne(t) ==
    /\ t \in inEnqueue
    /\ inEnqueue' = inEnqueue \ {t}
    /\ \/ \E w \in Asleep : pc' = [pc EXCEPT ![w] = "woken"]
       \/ Asleep = {} /\ UNCHANGED pc
    /\ UNCHANGED <<tasks, stop, cur, dtor, accepted, finished, refused>>

\* The predicate of the wait is false.
Wait(w) ==
    /\ pc[w] = "woken"
    /\ ~stop /\ tasks = <<>>
    /\ pc' = [pc EXCEPT ![w] = "asleep"]
    /\ UNCHANGED <<tasks, stop, cur, inEnqueue, dtor,
                   accepted, finished, refused>>

\* The wait may return without a notify; the predicate is tested again.
SpuriousWake(w) ==
    /\ pc[w] = "asleep"
    /\ pc' = [pc EXCEPT ![w] = "woken"]
    /\ UNCHANGED <<tasks, stop, cur, inEnqueue, dtor,
                   accepted, finished, refused>>

Take(w) ==
    /\ pc[w] = "woken"
    /\ tasks # <<>>
    /\ cur' = [cur EXCEPT ![w] = Head(tasks)]
    /\ tasks' = Tail(tasks)
    /\ pc' = [pc EXCEPT ![w] = "run"]
    /\ UNCHANGED <<stop, inEnqueue, dtor, accepted, finished, refused>>

Return_KeepsTask(w) ==
    /\ pc[w] = "run"
    /\ w \notin inEnqueue
    /\ pc' = [pc EXCEPT ![w] = "woken"]
    /\ finished' = finished \cup {cur[w]}
    /\ UNCHANGED <<tasks, stop, cur, inEnqueue, dtor, accepted, refused>>

\* task() returns; a call of enqueue made by the task has returned before.
Return(w) ==
    /\ pc[w] = "run"
    /\ w \notin inEnqueue
    /\ pc' = [pc EXCEPT ![w] = "woken"]
    /\ cur' = [cur EXCEPT ![w] = NoTask]
    /\ finished' = finished \cup {cur[w]}
    /\ UNCHANGED <<tasks, stop, inEnqueue, dtor, accepted, refused>>

Exit_TasksLeft(w) ==
    /\ pc[w] = "woken"
    /\ stop
    /\ pc' = [pc EXCEPT ![w] = "exited"]
    /\ UNCHANGED <<tasks, stop, cur, inEnqueue, dtor,
                   accepted, finished, refused>>

Exit(w) ==
    /\ pc[w] = "woken"
    /\ stop /\ tasks = <<>>
    /\ pc' = [pc EXCEPT ![w] = "exited"]
    /\ UNCHANGED <<tasks, stop, cur, inEnqueue, dtor,
                   accepted, finished, refused>>

\* ~ThreadPool: the caller owns the pool, no client is inside enqueue.
Stop ==
    /\ dtor = "no"
    /\ inEnqueue \cap Client = {}
    /\ stop' = TRUE
    /\ dtor' = "stopped"
    /\ UNCHANGED <<tasks, pc, cur, inEnqueue, accepted, finished, refused>>

NotifyAll_One ==
    /\ dtor = "stopped"
    /\ dtor' = "joining"
    /\ \/ \E w \in Asleep : pc' = [pc EXCEPT ![w] = "woken"]
       \/ Asleep = {} /\ UNCHANGED pc
    /\ UNCHANGED <<tasks, stop, cur, inEnqueue, accepted, finished, refused>>

NotifyAll ==
    /\ dtor = "stopped"
    /\ dtor' = "joining"
    /\ pc' = [w \in Worker |-> IF w \in Asleep THEN "woken" ELSE pc[w]]
    /\ UNCHANGED <<tasks, stop, cur, inEnqueue, accepted, finished, refused>>

Join_First ==
    /\ dtor = "joining"
    /\ \E w \in Worker : pc[w] = "exited"
    /\ dtor' = "done"
    /\ UNCHANGED <<tasks, stop, pc, cur, inEnqueue,
                   accepted, finished, refused>>

Join ==
    /\ dtor = "joining"
    /\ \A w \in Worker : pc[w] = "exited"
    /\ dtor' = "done"
    /\ UNCHANGED <<tasks, stop, pc, cur, inEnqueue,
                   accepted, finished, refused>>

\* The pool is gone; nothing more happens.
Destroyed == dtor = "done" /\ UNCHANGED vars

Next ==
    \/ \E t \in Worker \cup Client :
          NotifyOne(t) \/ \E task \in Task : Enqueue(t, task)
    \/ \E w \in Worker :
          Wait(w) \/ SpuriousWake(w) \/ Take(w) \/ Return(w) \/ Exit(w)
    \/ Stop \/ NotifyAll \/ Join
    \/ Destroyed

\* Every thread the pool or a caller started gets the processor, and a task
\* returns.  Nobody has to call enqueue or the destructor, and nothing is
\* owed by spurious wake-ups.
Fairness ==
    /\ \A t \in Worker \cup Client : WF_vars(NotifyOne(t))
    /\ \A w \in Worker : WF_vars(Wait(w) \/ Take(w) \/ Exit(w)) /\ WF_vars(Return(w))
    /\ WF_vars(NotifyAll) /\ WF_vars(Join)

Spec == Init /\ [][Next]_vars /\ Fairness
-----------------------------------------------------------------------------
\* No lost wake-up: while a task is queued, either some worker is on its way
\* to test the predicate, or the notify that will wake one is still to come.
\* The unlock-then-notify order of enqueue (thread_pool.h:64-72) leaves a
\* window in which every worker sleeps over a non-empty queue.
NoLostWakeup ==
    tasks # <<>> =>
        \/ \E w \in Worker : pc[w] \in {"woken", "run"}
        \/ inEnqueue # {} \/ dtor = "stopped"

\* When the destructor returns, every accepted task has run to its end and
\* no worker is left behind (thread_pool.cpp:25-33 joins after a drain).
DestroyedMeansDrained ==
    dtor = "done" =>
        /\ finished = Elements(accepted)
        /\ \A w \in Worker : pc[w] = "exited"

\* The pool is a FIFO executor as wide as its number of threads, which
\* refuses once it is stopped and otherwise serves every task.
Executor == INSTANCE FifoExecutor WITH
    Width   <- Cardinality(Worker),
    queue   <- tasks,
    running <- {cur[w] : w \in {x \in Worker : pc[x] = "run"}},
    done    <- finished,
    gone    <- refused,
    open    <- ~stop

ServesAll == Executor!ServesAll

\* The destructor returns once it was called, tasks that enqueue more tasks
\* while the pool drains included.
DestructorReturns == dtor = "stopped" ~> dtor = "done"
=============================================================================
