----------------------------- MODULE MessageLoop -----------------------------
(***************************************************************************)
(* MessageLoop with its TaskRunner and the default pump (src/message_loop: *)
(* message_loop.cpp, message_loop_task_runner.cpp and                      *)
(* message_pump_default.cpp).                                              *)
(*                                                                         *)
(* Loop is the thread inside MessageLoop::run and, afterwards, inside      *)
(* ~MessageLoop; Poster are the threads that post through the TaskRunner.  *)
(* A running callback may post, quit (Quitter), or run the loop again      *)
(* (Nester); a callback that is destroyed without having run may post too. *)
(* pc is the place of Loop in the innermost MessagePumpDefault::run:       *)
(*   work, delayed, idle   about to call doWork, doDelayedWork, doIdleWork *)
(*   sleep                 nothing was done, about to wait                 *)
(*   wait, timedWait       inside the condition variable (untimed, timed)  *)
(*   woken, timedWoken     notified, the mutex is held again               *)
(*   task                  inside the callback on top of frames            *)
(*   leave                 keepRunning_ was false, run returns             *)
(*   delete, dropping, willDestroy, members, destroyed     ~MessageLoop    *)
(* Code that touches only the loop thread's own queues shares an action    *)
(* with the critical section before it.                                    *)
(***************************************************************************)
EXTENDS Integers, Sequences, FiniteSets

CONSTANTS
    Loop,           \* the thread of the loop
    Poster,         \* other threads holding the TaskRunner
    Task,           \* the callbacks ever posted, each at most once
    Delay,          \* Task -> milliseconds; 0 posts an immediate task
    NonNestable,    \* tasks posted with postNonNestable...
    Quitter,        \* tasks whose callback ends in MessageLoop::quit
    Nester,         \* tasks whose callback calls MessageLoop::run
    MaxTime         \* bound of the clock

ASSUME ThreadAssumption == Loop \notin Poster
ASSUME TaskAssumption ==
    /\ Delay \in [Task -> Nat]
    /\ NonNestable \subseteq Task /\ Quitter \subseteq Task /\ Nester \subseteq Task
    /\ Quitter \cap Nester = {}
    /\ IsFiniteSet(Nester)
ASSUME TimeAssumption == MaxTime \in Nat \ {0}

Thread == Poster \cup {Loop}

Null == 0       \* TimePoint(): no time
Time == Null .. MaxTime

VARIABLES
    incomingQueue,      \* posted, under incomingQueueLock_
    work_queue,         \* taken over by the loop thread
    delayedWorkQueue,   \* set of [task, time, seq]
    deferredQueue,      \* deferredNonNestableWorkQueue_
    next_sequence_num,
    nestableTasksAllowed,
    recent_time,
    attached,           \* loop_ of the task runner is not null
    haveWork, keepRunning, delayedWorkTime,     \* of the pump
    pc,
    didWork,            \* did_work of MessagePumpDefault::run
    frames,             \* callbacks being run, innermost last: [task, time, from]
    post,               \* thread -> place in addToIncomingQueue: "no" | "schedule" | "notify"
    now,                \* the clock
    posted, done, dropped   \* history: tasks handed to the runner, run, destroyed unrun

queues == <<incomingQueue, work_queue, delayedWorkQueue, deferredQueue, next_sequence_num>>
loopVars == <<nestableTasksAllowed, recent_time, attached>>
pumpVars == <<haveWork, keepRunning, delayedWorkTime>>
control == <<pc, didWork, frames, post>>
history == <<posted, done, dropped>>
vars == <<queues, loopVars, pumpVars, control, now, history>>

TasksOf(q) == {q[i].task : i \in DOMAIN q}
DelayedTasks == {d.task : d \in delayedWorkQueue}
Pending == [task : Task, time : Time]

TypeOK ==
    /\ incomingQueue \in Seq(Pending) /\ work_queue \in Seq(Pending)
    /\ deferredQueue \in Seq(Pending)
    /\ delayedWorkQueue \subseteq [task : Task, time : Time, seq : Nat]
    /\ next_sequence_num \in Nat
    /\ \A x, y \in delayedWorkQueue : x.seq = y.seq => x = y
    /\ nestableTasksAllowed \in BOOLEAN /\ attached \in BOOLEAN
    /\ haveWork \in BOOLEAN /\ keepRunning \in BOOLEAN /\ didWork \in BOOLEAN
    /\ recent_time \in Time /\ delayedWorkTime \in Time /\ now \in Time \ {Null}
    /\ pc \in {"work", "delayed", "idle", "sleep", "wait", "timedWait", "woken",
               "timedWoken", "task", "leave", "delete", "dropping",
               "willDestroy", "members", "destroyed"}
    /\ frames \in Seq([task : Task, time : Time,
                       from : {"doWork", "doDelayedWork", "doIdleWork"}])
    /\ pc = "task" => frames # <<>>
    /\ post \in [Thread -> {"no", "schedule", "notify"}]
    /\ posted \subseteq Task /\ done \subseteq Task /\ dropped \subseteq Task

Init ==
    /\ incomingQueue = <<>> /\ work_queue = <<>> /\ deferredQueue = <<>>
    /\ delayedWorkQueue = {}
    /\ next_sequence_num = 0
    /\ nestableTasksAllowed = TRUE
    /\ recent_time = Null
    /\ attached = TRUE
    /\ haveWork = FALSE /\ keepRunning = TRUE /\ delayedWorkTime = Null
    /\ pc = "work" /\ didWork = FALSE /\ frames = <<>>
    /\ post = [p \in Thread |-> "no"]
    /\ now = 1
    /\ posted = {} /\ done = {} /\ dropped = {}

Goto(l) == pc' = l /\ UNCHANGED <<didWork, frames, post>>
-----------------------------------------------------------------------------
(* Posting: the TaskRunner holds loopLock_ (shared) from the test of loop_  *)
(* to the end of scheduleWork, so post[p] # "no" means "holds loopLock_".  *)

calculateDelayedRuntime(t) == IF Delay[t] > 0 THEN now + Delay[t] ELSE Null

\* The loop thread posts from callbacks, run or destroyed.
MayPost(p) ==
    /\ post[p] = "no"
    /\ p = Loop => pc = "task" \/ (pc \in {"dropping", "members"} /\ dropped # {})

PostToLoop_TestAfterPush(p, t) ==
    /\ MayPost(p) /\ attached
    /\ t \in Task \ posted
    /\ calculateDelayedRuntime(t) <= MaxTime
    /\ posted' = posted \cup {t}
    /\ incomingQueue' = Append(incomingQueue,
                               [task |-> t, time |-> calculateDelayedRuntime(t)])
    /\ post' = [post EXCEPT ![p] = IF incomingQueue' = <<>> THEN "schedule" ELSE "no"]
    /\ UNCHANGED <<work_queue, delayedWorkQueue, deferredQueue, next_sequence_num,
                   loopVars, pumpVars, pc, didWork, frames, now, done, dropped>>

\* A post that finds the loop; only the first post on an empty queue wakes it.
PostToLoop(p, t) ==
    /\ MayPost(p) /\ attached
    /\ t \in Task \ posted
    /\ calculateDelayedRuntime(t) <= MaxTime
    /\ posted' = posted \cup {t}
    /\ incomingQueue' = Append(incomingQueue,
                               [task |-> t, time |-> calculateDelayedRuntime(t)])
    /\ post' = [post EXCEPT ![p] = IF incomingQueue = <<>> THEN "schedule" ELSE "no"]
    /\ UNCHANGED <<work_queue, delayedWorkQueue, deferredQueue, next_sequence_num,
                   loopVars, pumpVars, pc, didWork, frames, now, done, dropped>>

\* A post after willDestroyCurrentMessageLoop: the callback is destroyed.
PostToNobody(p, t) ==
    /\ MayPost(p) /\ ~attached
    /\ t \in Task \ posted
    /\ posted' = posted \cup {t}
    /\ dropped' = dropped \cup {t}
    /\ UNCHANGED <<queues, loopVars, pumpVars, control, now, done>>

scheduleWork(p) ==
    /\ post[p] = "schedule"
    /\ haveWork' = TRUE
    /\ post' = [post EXCEPT ![p] = "notify"]
    /\ UNCHANGED <<queues, loopVars, keepRunning, delayedWorkTime,
                   pc, didWork, frames, now, history>>

\* pc after the loop was notified.
Awake == CASE pc = "wait" -> "woken" [] pc = "timedWait" -> "timedWoken" [] OTHER -> pc

Notify(p) ==
    /\ post[p] = "notify"
    /\ post' = [post EXCEPT ![p] = "no"]
    /\ pc' = Awake
    /\ UNCHANGED <<queues, loopVars, pumpVars, didWork, frames, now, history>>
-----------------------------------------------------------------------------
(* Callbacks. *)

Current == frames[Len(frames)]

runTask(item, from) ==
    /\ nestableTasksAllowed' = FALSE
    /\ frames' = Append(frames, [task |-> item.task, time |-> item.time, from |-> from])
    /\ pc' = "task"

\* Where the pump goes on: keepRunning_ is tested after each delegate call.
AfterCall(from, running) ==
    IF ~running THEN "leave" ELSE IF from = "doWork" THEN "delayed" ELSE "work"

ReturnTask_QuitIgnored ==
    /\ pc = "task" /\ post[Loop] = "no"
    /\ nestableTasksAllowed' = TRUE
    /\ keepRunning' = (keepRunning /\ Current.task \notin Quitter)
    /\ done' = done \cup {Current.task}
    /\ frames' = SubSeq(frames, 1, Len(frames) - 1)
    /\ pc' = AfterCall(Current.from, TRUE)
    /\ didWork' = TRUE
    /\ UNCHANGED <<queues, recent_time, attached, haveWork, delayedWorkTime,
                   post, now, posted, dropped>>

\* The callback returns, after quit if it is a Quitter.  doDelayedWork and
\* doIdleWork did work, so the pump starts over.
ReturnTask ==
    /\ pc = "task" /\ post[Loop] = "no"
    /\ nestableTasksAllowed' = TRUE
    /\ keepRunning' = (keepRunning /\ Current.task \notin Quitter)
    /\ done' = done \cup {Current.task}
    /\ frames' = SubSeq(frames, 1, Len(frames) - 1)
    /\ pc' = AfterCall(Current.from, keepRunning')
    /\ didWork' = TRUE
    /\ UNCHANGED <<queues, recent_time, attached, haveWork, delayedWorkTime,
                   post, now, posted, dropped>>

\* A callback calls MessageLoop::run.
NestedRun ==
    /\ pc = "task" /\ post[Loop] = "no" /\ Current.task \in Nester
    /\ keepRunning
    /\ Goto("work")
    /\ UNCHANGED <<queues, loopVars, pumpVars, now, history>>

\* run returns, to the callback or to the owner, who destroys the loop.
LeaveRun ==
    /\ pc = "leave"
    /\ keepRunning' = TRUE
    /\ Goto(IF frames = <<>> THEN "delete" ELSE "task")
    /\ UNCHANGED <<queues, loopVars, haveWork, delayedWorkTime, now, history>>
-----------------------------------------------------------------------------
(* doWork: one action per turn of its loops. *)

DoWorkNotAllowed ==
    /\ pc = "work" /\ ~nestableTasksAllowed
    /\ pc' = "delayed" /\ didWork' = FALSE
    /\ UNCHANGED <<queues, loopVars, pumpVars, frames, post, now, history>>

reloadWorkQueue ==
    /\ work_queue' = incomingQueue
    /\ incomingQueue' = <<>>
    /\ UNCHANGED <<delayedWorkQueue, deferredQueue, next_sequence_num>>

DoWorkReload_Unguarded ==
    /\ pc = "work" /\ nestableTasksAllowed
    /\ incomingQueue # <<>>
    /\ work_queue' = incomingQueue
    /\ incomingQueue' = work_queue
    /\ UNCHANGED <<delayedWorkQueue, deferredQueue, next_sequence_num>>
    /\ UNCHANGED <<loopVars, pumpVars, control, now, history>>

DoWorkReload ==
    /\ pc = "work" /\ nestableTasksAllowed
    /\ work_queue = <<>> /\ incomingQueue # <<>>
    /\ reloadWorkQueue
    /\ UNCHANGED <<loopVars, pumpVars, control, now, history>>

PopWork ==
    /\ pc = "work" /\ nestableTasksAllowed
    /\ work_queue # <<>>
    /\ work_queue' = Tail(work_queue)
    /\ UNCHANGED incomingQueue

addToDelayedWorkQueue(item) ==
    /\ delayedWorkQueue' = delayedWorkQueue \cup
          {[task |-> item.task, time |-> item.time, seq |-> next_sequence_num]}
    /\ next_sequence_num' = next_sequence_num + 1

DoWorkDelay_SameSeq ==
    /\ PopWork /\ Head(work_queue).time # Null
    /\ delayedWorkQueue' = delayedWorkQueue \cup
          {[task |-> Head(work_queue).task, time |-> Head(work_queue).time, seq |-> next_sequence_num]}
    /\ UNCHANGED next_sequence_num
    /\ delayedWorkTime' = IF delayedWorkQueue = {} THEN Head(work_queue).time
                                                   ELSE delayedWorkTime
    /\ UNCHANGED <<deferredQueue, loopVars, haveWork, keepRunning, control, now, history>>

\* A delayed task moves on; the pump hears of it only if it is the only one.
DoWorkDelay ==
    /\ PopWork /\ Head(work_queue).time # Null
    /\ addToDelayedWorkQueue(Head(work_queue))
    /\ delayedWorkTime' = IF delayedWorkQueue = {} THEN Head(work_queue).time
                                                   ELSE delayedWorkTime
    /\ UNCHANGED <<deferredQueue, loopVars, haveWork, keepRunning, control, now, history>>

DoWorkDefer ==
    /\ PopWork /\ Head(work_queue).time = Null /\ Head(work_queue).task \in NonNestable
    /\ deferredQueue' = Append(deferredQueue, Head(work_queue))
    /\ UNCHANGED <<delayedWorkQueue, next_sequence_num,
                   loopVars, pumpVars, control, now, history>>

DoWorkRun ==
    /\ PopWork /\ Head(work_queue).time = Null /\ Head(work_queue).task \notin NonNestable
    /\ runTask(Head(work_queue), "doWork")
    /\ UNCHANGED <<delayedWorkQueue, deferredQueue, next_sequence_num, recent_time,
                   attached, pumpVars, didWork, post, now, history>>

DoWorkNothing ==
    /\ pc = "work" /\ nestableTasksAllowed
    /\ work_queue = <<>> /\ incomingQueue = <<>>
    /\ pc' = "delayed" /\ didWork' = FALSE
    /\ UNCHANGED <<queues, loopVars, pumpVars, frames, post, now, history>>
-----------------------------------------------------------------------------
(* doDelayedWork. *)

\* PendingTask::operator<: earliest first, then the order of insertion.
Before(x, y) == x.time < y.time \/ (x.time = y.time /\ x.seq < y.seq)

TopOf(D) == CHOOSE x \in D : \A y \in D \ {x} : Before(x, y)

\* The pump goes on without having run a callback in doDelayedWork.
NoDelayedRun == Goto(IF didWork THEN "work" ELSE "idle")

DoDelayedNothing ==
    /\ pc = "delayed"
    /\ ~nestableTasksAllowed \/ delayedWorkQueue = {}
    /\ recent_time' = Null /\ delayedWorkTime' = Null
    /\ NoDelayedRun
    /\ UNCHANGED <<queues, nestableTasksAllowed, attached, haveWork, keepRunning,
                   now, history>>

HasDelayed == pc = "delayed" /\ nestableTasksAllowed /\ delayedWorkQueue # {}

DoDelayedNotYet_KeepsTime ==
    /\ HasDelayed
    /\ TopOf(delayedWorkQueue).time > recent_time /\ TopOf(delayedWorkQueue).time > now
    /\ recent_time' = now
    /\ NoDelayedRun
    /\ UNCHANGED <<queues, nestableTasksAllowed, attached, pumpVars, now, history>>

DoDelayedNotYet ==
    /\ HasDelayed
    /\ TopOf(delayedWorkQueue).time > recent_time /\ TopOf(delayedWorkQueue).time > now
    /\ recent_time' = now
    /\ delayedWorkTime' = TopOf(delayedWorkQueue).time
    /\ NoDelayedRun
    /\ UNCHANGED <<queues, nestableTasksAllowed, attached, haveWork, keepRunning,
                   now, history>>

\* The top is due by the cached clock or by a fresh one; the time of the next
\* one is left alone when there is none.
PopDelayed(top) ==
    /\ HasDelayed
    /\ top = TopOf(delayedWorkQueue)
    /\ top.time <= recent_time \/ top.time <= now
    /\ recent_time' = IF top.time > recent_time THEN now ELSE recent_time
    /\ delayedWorkQueue' = delayedWorkQueue \ {top}
    /\ delayedWorkTime' = IF delayedWorkQueue' = {} THEN delayedWorkTime
                                                    ELSE TopOf(delayedWorkQueue').time
    /\ UNCHANGED <<incomingQueue, work_queue, next_sequence_num,
                   attached, haveWork, keepRunning, didWork, post, now, history>>

DoDelayedRun(top) ==
    /\ PopDelayed(top)
    /\ top.task \notin NonNestable
    /\ runTask(top, "doDelayedWork")
    /\ UNCHANGED deferredQueue

DoDelayedDefer(top) ==
    /\ PopDelayed(top)
    /\ top.task \in NonNestable
    /\ deferredQueue' = Append(deferredQueue, [task |-> top.task, time |-> top.time])
    /\ pc' = IF didWork THEN "work" ELSE "idle"
    /\ UNCHANGED <<nestableTasksAllowed, frames>>
-----------------------------------------------------------------------------
(* doIdleWork, and the wait of MessagePumpDefault::run. *)

DoIdleRun_Keeps ==
    /\ pc = "idle" /\ deferredQueue # <<>>
    /\ runTask(Head(deferredQueue), "doIdleWork")
    /\ UNCHANGED <<queues, recent_time, attached, pumpVars, didWork, post, now, history>>

\* doIdleWork does not look at nestableTasksAllowed_.
DoIdleRun ==
    /\ pc = "idle" /\ deferredQueue # <<>>
    /\ deferredQueue' = Tail(deferredQueue)
    /\ runTask(Head(deferredQueue), "doIdleWork")
    /\ UNCHANGED <<incomingQueue, work_queue, delayedWorkQueue, next_sequence_num,
                   recent_time, attached, pumpVars, didWork, post, now, history>>

DoIdleNothing ==
    /\ pc = "idle" /\ deferredQueue = <<>>
    /\ Goto("sleep")
    /\ UNCHANGED <<queues, loopVars, pumpVars, now, history>>

\* have_work_ is consumed and the pump starts over.
ConsumeWork ==
    /\ haveWork' = FALSE
    /\ Goto("work")
    /\ UNCHANGED <<queues, loopVars, keepRunning, delayedWorkTime, now, history>>

Sleep_Unchecked ==
    /\ pc \in {"sleep", "woken"} /\ delayedWorkTime = Null
    /\ IF pc = "woken" /\ haveWork
       THEN ConsumeWork
       ELSE /\ Goto("wait")
            /\ UNCHANGED <<queues, loopVars, pumpVars, now, history>>

\* No delayed work: while (!have_work_) wait.
Sleep ==
    /\ pc \in {"sleep", "woken"} /\ delayedWorkTime = Null
    /\ IF haveWork
       THEN ConsumeWork
       ELSE /\ Goto("wait")
            /\ UNCHANGED <<queues, loopVars, pumpVars, now, history>>

\* The delay is positive: wait_for, without a look at have_work_ before it.
SleepUntil ==
    /\ pc = "sleep" /\ delayedWorkTime # Null /\ delayedWorkTime > now
    /\ Goto("timedWait")
    /\ UNCHANGED <<queues, loopVars, pumpVars, now, history>>

\* delayedWorkTime_ is in the past: forget it and call doDelayedWork again.
SleepNot ==
    /\ pc = "sleep" /\ delayedWorkTime # Null /\ delayedWorkTime <= now
    /\ delayedWorkTime' = Null
    /\ Goto("work")
    /\ UNCHANGED <<queues, loopVars, haveWork, keepRunning, now, history>>

TimedOut ==
    /\ pc = "timedWait" /\ delayedWorkTime <= now
    /\ ConsumeWork

\* Woken before the time: have_work_, or the rest of the delay.
TimedWoken ==
    /\ pc = "timedWoken"
    /\ IF haveWork \/ delayedWorkTime <= now
       THEN ConsumeWork
       ELSE /\ Goto("timedWait")
            /\ UNCHANGED <<queues, loopVars, pumpVars, now, history>>

SpuriousWake ==
    /\ pc \in {"wait", "timedWait"}
    /\ Goto(Awake)
    /\ UNCHANGED <<queues, loopVars, pumpVars, now, history>>
-----------------------------------------------------------------------------
(* ~MessageLoop. *)

Destroy(tasks) == dropped' = dropped \cup tasks

\* One round: reloadWorkQueue and the first deletePendingTasks.
DeletePendingTasks ==
    /\ pc = "delete"
    /\ LET work == IF work_queue = <<>> THEN incomingQueue ELSE work_queue IN
       /\ incomingQueue' = IF work_queue = <<>> THEN <<>> ELSE incomingQueue
       /\ next_sequence_num' = next_sequence_num
             + Cardinality({i \in DOMAIN work : work[i].time # Null})
       /\ Destroy(TasksOf(work) \cup DelayedTasks \cup TasksOf(deferredQueue))
    /\ work_queue' = <<>> /\ delayedWorkQueue' = {} /\ deferredQueue' = <<>>
    /\ Goto("dropping")
    /\ UNCHANGED <<loopVars, pumpVars, now, posted, done>>

\* The second deletePendingTasks decides whether there is another round.  It
\* finds none of its queues filled: what the first posts is in incomingQueue.
DeleteAgain ==
    /\ pc = "dropping" /\ post[Loop] = "no"
    /\ Goto(IF work_queue # <<>> \/ delayedWorkQueue # {} \/ deferredQueue # <<>>
            THEN "delete" ELSE "willDestroy")
    /\ UNCHANGED <<queues, loopVars, pumpVars, now, history>>

WillDestroy_Unlocked ==
    /\ pc = "willDestroy"
    /\ attached' = FALSE
    /\ Goto("members")
    /\ UNCHANGED <<queues, nestableTasksAllowed, recent_time, pumpVars, now, history>>

\* willDestroyCurrentMessageLoop: loopLock_ exclusively.
WillDestroy ==
    /\ pc = "willDestroy"
    /\ \A p \in Thread : post[p] = "no"
    /\ attached' = FALSE
    /\ Goto("members")
    /\ UNCHANGED <<queues, nestableTasksAllowed, recent_time, pumpVars, now, history>>

\* The members go, and with incomingQueue_ the callbacks still in it.
DestroyMembers ==
    /\ pc = "members"
    /\ Destroy(TasksOf(incomingQueue))
    /\ incomingQueue' = <<>>
    /\ Goto("destroyed")
    /\ UNCHANGED <<work_queue, delayedWorkQueue, deferredQueue, next_sequence_num,
                   loopVars, pumpVars, now, posted, done>>
-----------------------------------------------------------------------------
Tick ==
    /\ now < MaxTime
    /\ now' = now + 1
    /\ UNCHANGED <<queues, loopVars, pumpVars, control, history>>

Destroyed == pc = "destroyed" /\ UNCHANGED vars

DoWork ==
    DoWorkNotAllowed \/ DoWorkReload \/ DoWorkDelay \/ DoWorkDefer \/ DoWorkRun \/ DoWorkNothing

DoDelayedWork ==
    \/ DoDelayedNothing \/ DoDelayedNotYet
    \/ \E top \in delayedWorkQueue : DoDelayedRun(top) \/ DoDelayedDefer(top)

Pump ==
    DoIdleRun \/ DoIdleNothing \/ Sleep \/ SleepUntil \/ SleepNot \/ TimedOut \/ TimedWoken

Destructor == DeletePendingTasks \/ DeleteAgain \/ WillDestroy \/ DestroyMembers

LoopStep == DoWork \/ DoDelayedWork \/ Pump \/ ReturnTask \/ LeaveRun \/ Destructor

Next ==
    \/ LoopStep \/ NestedRun \/ SpuriousWake
    \/ \E p \in Thread :
          \/ scheduleWork(p) \/ Notify(p)
          \/ \E t \in Task : PostToLoop(p, t) \/ PostToNobody(p, t)
    \/ Tick \/ Destroyed

\* The loop thread and a thread inside a post get the processor, callbacks
\* return, and time passes.  Nobody has to post, and no wake-up is spurious
\* by obligation.
Fairness ==
    /\ WF_vars(LoopStep)
    /\ \A p \in Thread : WF_vars(scheduleWork(p) \/ Notify(p))
    /\ WF_vars(Tick)

Spec == Init /\ [][Next]_vars /\ Fairness
-----------------------------------------------------------------------------
InQueues == TasksOf(incomingQueue) \cup TasksOf(work_queue)
                \cup DelayedTasks \cup TasksOf(deferredQueue)
InFrames == TasksOf(frames)

\* A posted callback is in one place: it waits in one queue, is being run, was
\* run, or was destroyed unrun, whichever way it moved between the four
\* queues, a quit and the destructor.
OneFate ==
    /\ posted = InQueues \cup InFrames \cup done \cup dropped
    /\ Cardinality(posted) = Len(incomingQueue) + Len(work_queue) + Len(deferredQueue)
          + Cardinality(delayedWorkQueue) + Len(frames) + Cardinality(done) + Cardinality(dropped)

\* No lost wake-up in the untimed wait of the outermost run: with a task in
\* incomingQueue_ either the post that found it empty is still on its way to
\* notify, or the loop is awake (addToIncomingQueue skips scheduleWork for all
\* later posts).
NoLostWakeup ==
    pc = "wait" /\ frames = <<>> /\ incomingQueue # <<>> =>
        \E p \in Thread : post[p] # "no"

\* The outermost pump sleeps only with nothing to do but what its timeout is
\* set for: no deferred task is forgotten, and delayedWorkTime_ is the time of
\* the earliest delayed task, though scheduleDelayedWork is called only for
\* the first one.
SleepsOnlyWhenIdle ==
    frames = <<>> /\ pc \in {"wait", "timedWait"} =>
        /\ work_queue = <<>> /\ deferredQueue = <<>>
        /\ pc = "wait" => delayedWorkQueue = {}
        /\ delayedWorkQueue # {} => delayedWorkTime = TopOf(delayedWorkQueue).time

\* No callback that runs the loop again was started so far.
NeverNested == Nester \cap (done \cup InFrames) = {}

\* After quit no other callback is run: what was posted before is destroyed
\* (MessagePumpDefault::run tests keepRunning_ after every delegate call).  A
\* nested run takes the quit for itself, and the outer one goes on.
QuitIsPrompt == [][NeverNested /\ done \cap Quitter # {} => done' = done]_vars

\* Once loop_ is null no thread is inside the loop or its pump any more, so
\* the members may go (loopLock_ is held shared across the whole post).
NoPostIntoDestroyed == ~attached => \A p \in Thread : post[p] = "no"

\* Immediate nestable tasks are run in the order of the posts, however the
\* two queues are swapped, or given up.
Immediate == {t \in Task : Delay[t] = 0 /\ t \notin NonNestable}
ImmediateOf(q) ==
    LET upTo[n \in 0 .. Len(q)] ==
            IF n = 0 THEN <<>>
            ELSE IF q[n].task \in Immediate THEN Append(upTo[n - 1], q[n].task)
                                             ELSE upTo[n - 1]
    IN  upTo[Len(q)]

Executor == INSTANCE FifoExecutor WITH
    Task    <- Immediate,
    Width   <- 1 + Cardinality(Nester),
    queue   <- ImmediateOf(work_queue \o incomingQueue),
    running <- InFrames \cap Immediate,
    done    <- done \cap Immediate,
    gone    <- dropped \cap Immediate,
    open    <- attached

ImmediateInOrder == Executor!MayGiveUp

\* Every posted callback is run or destroyed in the end, unless the loop stays
\* in a callback for ever: one that runs it again, and is never quit.
EveryTaskSettled ==
    []<>(frames = <<>>) => \A t \in Task : t \in posted ~> t \in done \cup dropped
-----------------------------------------------------------------------------
(* What comments of the code say and the code does not do. *)

\* "we need to ensure that our Run loop wakes up" (message_pump_default.cpp:77):
\* once its post has returned, a task does not wait out a timed sleep.
PostWakesTimedWait ==
    pc = "timedWait" /\ incomingQueue # <<>> => \E p \in Thread : post[p] # "no"

\* Deferred non-nestable tasks "will execute once we're out of nested message
\* loops" (message_loop.h:127).
NonNestableWaits == \A i \in DOMAIN frames : i > 1 => frames[i].task \notin NonNestable
=============================================================================
