------------------------- MODULE MessageLoop_proofs -------------------------
(***************************************************************************)
(* MessageLoop for any posters, tasks and delays: the type invariant, what *)
(* the pump has left undone when it sleeps, the wake-up of a post, that no *)
(* thread is inside a loop that is gone, the one fate of a task, what a    *)
(* quit leaves unrun as long as no callback has run the loop again, and    *)
(* that the loop runs its immediate tasks as FifoExecutor promises.        *)
(***************************************************************************)
EXTENDS MessageLoop, SequenceTheorems, FiniteSetTheorems, TLAPS

\* doWork has found nothing in this turn of the outermost pump.
Idling ==
    /\ frames = <<>>
    /\ \/ pc \in {"idle", "sleep", "wait", "timedWait", "woken", "timedWoken"}
       \/ pc = "delayed" /\ ~didWork

\* A callback that returns lets the outermost run go on with tasks.
OuterIsAllowed == frames = <<>> => nestableTasksAllowed

\* A post that came after doWork has found nothing is told by have_work_, or is
\* about to be; and the pump does not wait over have_work_ without a notify.
PostIsTold ==
    /\ Idling /\ incomingQueue # <<>> =>
          haveWork \/ \E p \in Thread : post[p] = "schedule"
    /\ pc = "wait" /\ haveWork => \E p \in Thread : post[p] = "notify"

\* What the outermost pump has found out on its way to sleep.
NothingLeft ==
    Idling =>
        /\ work_queue = <<>>
        /\ pc \notin {"delayed", "idle"} => deferredQueue = <<>>
        /\ pc # "delayed" /\ delayedWorkQueue # {} =>
              delayedWorkTime = TopOf(delayedWorkQueue).time
        /\ pc = "wait" => delayedWorkQueue = {}

\* Sequence numbers are given in order, and a delayed task has a time.
Numbered == \A x \in delayedWorkQueue : x.seq < next_sequence_num /\ x.time # Null

Distinct(q) == \A i, j \in DOMAIN q : q[i].task = q[j].task => i = j

Apart(a, b, c, d, e, f, g) ==
    /\ a \cap (b \cup c \cup d \cup e \cup f \cup g) = {}
    /\ b \cap (c \cup d \cup e \cup f \cup g) = {}
    /\ c \cap (d \cup e \cup f \cup g) = {}
    /\ d \cap (e \cup f \cup g) = {}
    /\ e \cap (f \cup g) = {}
    /\ f \cap g = {}

\* No task is twice in one place, nor in two, and only what was posted is in one.
OnePlace ==
    /\ Distinct(incomingQueue) /\ Distinct(work_queue) /\ Distinct(deferredQueue)
    /\ Distinct(frames)
    /\ \A x, y \in delayedWorkQueue : x.task = y.task => x = y
    /\ Apart(TasksOf(incomingQueue), TasksOf(work_queue), DelayedTasks,
             TasksOf(deferredQueue), InFrames, done, dropped)
    /\ posted = InQueues \cup InFrames \cup done \cup dropped
    /\ IsFiniteSet(posted)

IInv ==
    /\ TypeOK /\ Numbered /\ OuterIsAllowed /\ PostIsTold /\ NothingLeft /\ OnePlace
    /\ NoPostIntoDestroyed
-----------------------------------------------------------------------------
(* The operators of the model. *)

LEMMA LeastNumber ==
    ASSUME NEW S \in SUBSET Nat, S # {} PROVE \E m \in S : \A n \in S : m <= n
<1>1. PICK m \in S : \A n \in S : ~ (<<n, m>> \in OpToRel(<, Nat))
  BY WFMin, NatLessThanWellFounded
<1>2. \A n \in S : ~ (n < m)
  BY <1>1 DEF OpToRel
<1>3. QED
  BY <1>2

\* PendingTask::operator< has a first task in every delayed_work_queue_.
LEMMA TopIsFirst ==
    ASSUME NEW D \in SUBSET [task : Task, time : Time, seq : Nat], D # {},
           \A x, y \in D : x.seq = y.seq => x = y
    PROVE  TopOf(D) \in D /\ \A y \in D \ {TopOf(D)} : Before(TopOf(D), y)
<1> DEFINE First(m) == {x \in D : x.time = m}
<1>1. {x.time : x \in D} \in SUBSET Nat /\ {x.time : x \in D} # {}
  BY TimeAssumption DEF Time, Null
<1>2. PICK m \in {x.time : x \in D} : \A n \in {x.time : x \in D} : m <= n
  BY <1>1, LeastNumber
<1>3. {x.seq : x \in First(m)} \in SUBSET Nat /\ {x.seq : x \in First(m)} # {}
  BY <1>2
<1>4. PICK s \in {x.seq : x \in First(m)} : \A n \in {x.seq : x \in First(m)} : s <= n
  BY <1>3, LeastNumber
<1>5. PICK x \in D : x.time = m /\ x.seq = s
  BY <1>4
<1>6. ASSUME NEW y \in D \ {x} PROVE Before(x, y)
  <2>1. m <= y.time /\ m \in Nat /\ y.time \in Nat /\ s \in Nat /\ y.seq \in Nat
    BY <1>1, <1>2, <1>3, <1>4
  <2>2. CASE y.time = m
    BY <1>4, <1>5, <1>6, <2>1, <2>2 DEF Before
  <2>3. CASE y.time # m
    BY <1>5, <2>1, <2>3 DEF Before
  <2>4. QED
    BY <2>2, <2>3
<1>7. QED
  BY <1>5, <1>6 DEF TopOf

\* The sequences after the ways in which they change.
LEMMA QueueChanges ==
    ASSUME NEW S, NEW q \in Seq(S)
    PROVE  /\ <<>> \in Seq(S)
           /\ Len(q) \in Nat /\ DOMAIN q = 1 .. Len(q)
           /\ \A e \in S : Append(q, e) \in Seq(S) /\ Append(q, e) # <<>>
           /\ q # <<>> => /\ Head(q) \in S /\ Tail(q) \in Seq(S)
                          /\ q[Len(q)] \in S
                          /\ SubSeq(q, 1, Len(q) - 1) \in Seq(S)
<1>1. /\ <<>> \in Seq(S) /\ Len(q) \in Nat /\ DOMAIN q = 1 .. Len(q)
      /\ \A i \in 1 .. Len(q) : q[i] \in S
      /\ q # <<>> => Len(q) # 0
  BY EmptySeq, LenProperties
<1>2. q # <<>> => Head(q) \in S /\ Tail(q) \in Seq(S)
  BY HeadTailProperties
<1>3. \A e \in S : Append(q, e) \in Seq(S) /\ Append(q, e) # <<>>
  BY AppendProperties
<1>4. SubSeq(q, 1, Len(q) - 1) \in Seq(S)
  BY <1>1, SubSeqProperties
<1>5. QED
  BY <1>1, <1>2, <1>3, <1>4

Frame == [task : Task, time : Time, from : {"doWork", "doDelayedWork", "doIdleWork"}]

LEMMA InitIInv == Init => IInv
<1> SUFFICES ASSUME Init PROVE IInv
  OBVIOUS
<1>1. TypeOK
  <2>1. \A S : <<>> \in Seq(S)
    BY EmptySeq
  <2>2. 1 \in Time \ {Null} /\ Null \in Time
    BY TimeAssumption DEF Time, Null
  <2>3. QED
    BY <2>1, <2>2 DEF Init, TypeOK
<1>2. Numbered /\ OuterIsAllowed /\ PostIsTold /\ NothingLeft /\ NoPostIntoDestroyed
  BY DEF Init, Numbered, OuterIsAllowed, PostIsTold, NothingLeft, Idling, NoPostIntoDestroyed
<1>3. OnePlace
  <2>1. TasksOf(<<>>) = {} /\ Distinct(<<>>)
    BY DEF TasksOf, Distinct
  <2>2. IsFiniteSet(posted)
    BY FS_EmptySet DEF Init
  <2>3. QED
    BY <2>1, <2>2 DEF Init, OnePlace, Apart, DelayedTasks, InQueues, InFrames
<1>4. QED
  BY <1>1, <1>2, <1>3 DEF IInv
-----------------------------------------------------------------------------
(* The type invariant. *)

LEMMA PostingTypes ==
    ASSUME TypeOK, NEW p \in Thread,
           \/ scheduleWork(p) \/ Notify(p)
           \/ \E t \in Task : PostToLoop(p, t) \/ PostToNobody(p, t)
    PROVE  TypeOK'
<1> USE DEF TypeOK
<1>1. CASE scheduleWork(p)
  BY <1>1 DEF scheduleWork, queues, loopVars, history
<1>2. CASE Notify(p)
  BY <1>2 DEF Notify, Awake, queues, loopVars, pumpVars, history
<1>3. ASSUME NEW t \in Task, PostToLoop(p, t) PROVE TypeOK'
  <2>1. calculateDelayedRuntime(t) \in Time
    BY <1>3, TaskAssumption, TimeAssumption DEF PostToLoop, calculateDelayedRuntime, Time, Null
  <2>2. incomingQueue' \in Seq(Pending)
    BY <1>3, <2>1, QueueChanges DEF PostToLoop, Pending
  <2>3. QED
    BY <1>3, <2>2 DEF PostToLoop, loopVars, pumpVars
<1>4. ASSUME NEW t \in Task, PostToNobody(p, t) PROVE TypeOK'
  BY <1>4 DEF PostToNobody, queues, loopVars, pumpVars, control
<1>5. QED
  BY <1>1, <1>2, <1>3, <1>4

\* A callback is entered with one more frame.
LEMMA RunTaskTypes ==
    ASSUME TypeOK, NEW item, item.task \in Task, item.time \in Time,
           NEW from \in {"doWork", "doDelayedWork", "doIdleWork"}, runTask(item, from)
    PROVE  /\ nestableTasksAllowed' = FALSE /\ pc' = "task"
           /\ frames' \in Seq(Frame) /\ frames' # <<>>
<1>1. [task |-> item.task, time |-> item.time, from |-> from] \in Frame
  BY DEF Frame
<1>2. frames \in Seq(Frame)
  BY DEF TypeOK, Frame
<1>3. QED
  BY <1>1, <1>2, QueueChanges DEF runTask

LEMMA DoWorkTypes == ASSUME TypeOK, Numbered, DoWork PROVE TypeOK'
<1>0. Pending = [task : Task, time : Time]
  BY DEF Pending
<1>1. /\ <<>> \in Seq(Pending)
      /\ work_queue # <<>> => Head(work_queue) \in Pending /\ Tail(work_queue) \in Seq(Pending)
      /\ \A e \in Pending : Append(deferredQueue, e) \in Seq(Pending)
  BY QueueChanges DEF TypeOK
<1>2. CASE DoWorkNotAllowed \/ DoWorkNothing
  BY <1>2 DEF DoWorkNotAllowed, DoWorkNothing, TypeOK, queues, loopVars, pumpVars, history
<1>3. CASE DoWorkReload
  BY <1>1, <1>3 DEF DoWorkReload, reloadWorkQueue, TypeOK, loopVars, pumpVars, control, history
<1>4. CASE DoWorkDelay
  <2> DEFINE d == [task |-> Head(work_queue).task, time |-> Head(work_queue).time,
                   seq |-> next_sequence_num]
  <2>1. d \in [task : Task, time : Time, seq : Nat]
    BY <1>0, <1>1, <1>4 DEF DoWorkDelay, PopWork, TypeOK
  <2>2. delayedWorkQueue' = delayedWorkQueue \cup {d} /\ next_sequence_num' = next_sequence_num + 1
    BY <1>4 DEF DoWorkDelay, addToDelayedWorkQueue
  <2>3. /\ delayedWorkQueue' \subseteq [task : Task, time : Time, seq : Nat]
        /\ next_sequence_num' \in Nat
        /\ \A x, y \in delayedWorkQueue' : x.seq = y.seq => x = y
    <3>1. \A x \in delayedWorkQueue : x.seq \in Nat /\ x.seq < next_sequence_num /\ d.seq = next_sequence_num
      BY DEF Numbered, TypeOK
    <3>2. QED
      BY <2>1, <2>2, <3>1 DEF TypeOK
  <2>4. delayedWorkTime' \in Time
    BY <1>0, <1>1, <1>4 DEF DoWorkDelay, PopWork, TypeOK
  <2>5. QED
    BY <1>1, <1>4, <2>3, <2>4 DEF DoWorkDelay, PopWork, TypeOK, loopVars, control, history
<1>5. CASE DoWorkDefer
  BY <1>1, <1>5 DEF DoWorkDefer, PopWork, TypeOK, loopVars, pumpVars, control, history
<1>6. CASE DoWorkRun
  <2>1. /\ nestableTasksAllowed' = FALSE /\ pc' = "task"
        /\ frames' \in Seq(Frame) /\ frames' # <<>>
    BY <1>0, <1>1, <1>6, RunTaskTypes DEF DoWorkRun, PopWork
  <2>2. QED
    BY <1>1, <1>6, <2>1 DEF DoWorkRun, PopWork, TypeOK, Frame, pumpVars, history
<1>7. QED
  BY <1>2, <1>3, <1>4, <1>5, <1>6 DEF DoWork

LEMMA DoDelayedWorkTypes == ASSUME TypeOK, DoDelayedWork PROVE TypeOK'
<1>1. CASE DoDelayedNothing
  BY <1>1, TimeAssumption
  DEF DoDelayedNothing, NoDelayedRun, Goto, TypeOK, Time, Null, queues, history
<1>2. CASE DoDelayedNotYet
  <2>1. TopOf(delayedWorkQueue) \in delayedWorkQueue
    BY <1>2, TopIsFirst DEF DoDelayedNotYet, HasDelayed, TypeOK
  <2>2. QED
    BY <1>2, <2>1 DEF DoDelayedNotYet, HasDelayed, NoDelayedRun, Goto, TypeOK, queues, history
<1>3. ASSUME NEW top \in delayedWorkQueue, PopDelayed(top)
      PROVE  /\ recent_time' \in Time /\ delayedWorkTime' \in Time
             /\ delayedWorkQueue' \subseteq delayedWorkQueue
  <2>1. delayedWorkQueue' = delayedWorkQueue \ {top}
    BY <1>3 DEF PopDelayed
  <2>2. delayedWorkQueue' # {} => TopOf(delayedWorkQueue') \in delayedWorkQueue'
    BY <2>1, TopIsFirst DEF TypeOK
  <2>3. QED
    BY <1>3, <2>1, <2>2 DEF PopDelayed, TypeOK
<1>4. ASSUME NEW top \in delayedWorkQueue, DoDelayedRun(top) PROVE TypeOK'
  <2>1. /\ nestableTasksAllowed' = FALSE /\ pc' = "task"
        /\ frames' \in Seq(Frame) /\ frames' # <<>>
    BY <1>4, RunTaskTypes DEF DoDelayedRun, TypeOK
  <2>2. QED
    BY <1>3, <1>4, <2>1 DEF DoDelayedRun, PopDelayed, TypeOK, Frame, history
<1>5. ASSUME NEW top \in delayedWorkQueue, DoDelayedDefer(top) PROVE TypeOK'
  <2>1. deferredQueue' \in Seq(Pending)
    BY <1>5, QueueChanges DEF DoDelayedDefer, TypeOK, Pending
  <2>2. QED
    BY <1>3, <1>5, <2>1 DEF DoDelayedDefer, PopDelayed, HasDelayed, TypeOK, history
<1>6. QED
  BY <1>1, <1>2, <1>4, <1>5 DEF DoDelayedWork

LEMMA PumpTypes == ASSUME TypeOK, Pump \/ SpuriousWake PROVE TypeOK'
<1>1. CASE DoIdleRun
  <2>1. /\ Head(deferredQueue) \in Pending /\ Tail(deferredQueue) \in Seq(Pending)
    BY <1>1, QueueChanges DEF DoIdleRun, TypeOK
  <2>2. /\ nestableTasksAllowed' = FALSE /\ pc' = "task"
        /\ frames' \in Seq(Frame) /\ frames' # <<>>
    BY <1>1, <2>1, RunTaskTypes DEF DoIdleRun, Pending
  <2>3. QED
    BY <1>1, <2>1, <2>2 DEF DoIdleRun, TypeOK, Frame, pumpVars, history
<1>2. CASE DoIdleNothing \/ SleepUntil
  BY <1>2 DEF DoIdleNothing, SleepUntil, Goto, TypeOK, queues, loopVars, pumpVars, history
<1>3. CASE SleepNot
  BY <1>3, TimeAssumption
  DEF SleepNot, Goto, TypeOK, Time, Null, queues, loopVars, pumpVars, history
<1>4. CASE Sleep \/ TimedOut \/ TimedWoken
  <2>1. ASSUME ConsumeWork PROVE TypeOK'
    BY <2>1 DEF ConsumeWork, Goto, TypeOK, queues, loopVars, history
  <2>2. ASSUME Goto("wait") \/ Goto("timedWait"),
               UNCHANGED <<queues, loopVars, pumpVars, now, history>>
        PROVE  TypeOK'
    BY <2>2 DEF Goto, TypeOK, queues, loopVars, pumpVars, history
  <2>3. QED
    BY <1>4, <2>1, <2>2 DEF Sleep, TimedOut, TimedWoken
<1>5. CASE SpuriousWake
  <2>1. Awake \in {"woken", "timedWoken"}
    BY <1>5 DEF SpuriousWake, Awake
  <2>2. QED
    BY <1>5, <2>1 DEF SpuriousWake, Goto, TypeOK, queues, loopVars, pumpVars, history
<1>6. QED
  BY <1>1, <1>2, <1>3, <1>4, <1>5 DEF Pump

LEMMA CallbackTypes == ASSUME TypeOK, ReturnTask \/ NestedRun \/ LeaveRun PROVE TypeOK'
<1>1. CASE ReturnTask
  <2>1. frames \in Seq(Frame) /\ frames # <<>>
    BY <1>1 DEF ReturnTask, TypeOK, Frame
  <2>2. Current \in Frame /\ SubSeq(frames, 1, Len(frames) - 1) \in Seq(Frame)
    BY <2>1, QueueChanges DEF Current
  <2>3. done \cup {Current.task} \subseteq Task
    BY <2>2 DEF Frame, TypeOK
  <2>4. AfterCall(Current.from, keepRunning') \in {"leave", "delayed", "work"}
    BY DEF AfterCall
  <2>5. (keepRunning /\ Current.task \notin Quitter) \in BOOLEAN
    OBVIOUS
  <2>6. QED
    BY <1>1, <2>2, <2>3, <2>4, <2>5 DEF ReturnTask, TypeOK, Frame, queues
<1>2. CASE NestedRun
  BY <1>2 DEF NestedRun, Goto, TypeOK, queues, loopVars, pumpVars, history
<1>3. CASE LeaveRun
  BY <1>3 DEF LeaveRun, Goto, TypeOK, queues, loopVars, history
<1>4. QED
  BY <1>1, <1>2, <1>3

LEMMA DestructorTypes == ASSUME TypeOK, Destructor PROVE TypeOK'
<1>1. \A q \in Seq(Pending) : TasksOf(q) \subseteq Task
  <2>1. ASSUME NEW q \in Seq(Pending), NEW i \in DOMAIN q PROVE q[i].task \in Task
    <3>1. q[i] \in Pending
      BY <2>1, LenProperties, ElementOfSeq
    <3>2. QED
      BY <3>1 DEF Pending
  <2>2. QED
    BY <2>1 DEF TasksOf
<1>2. <<>> \in Seq(Pending)
  BY EmptySeq
<1>3. CASE DeletePendingTasks
  <2> DEFINE work == IF work_queue = <<>> THEN incomingQueue ELSE work_queue
             late == {i \in DOMAIN work : work[i].time # Null}
  <2>1. work \in Seq(Pending) /\ DOMAIN work = 1 .. Len(work) /\ Len(work) \in Nat
    BY LenProperties DEF TypeOK
  <2>2. Cardinality(late) \in Nat
    <3>1. IsFiniteSet(1 .. Len(work))
      BY <2>1, FS_Interval
    <3>2. late \in SUBSET (1 .. Len(work))
      BY <2>1
    <3>3. QED
      BY <3>1, <3>2, FS_Subset, FS_CardinalityType
  <2>3. TasksOf(work) \cup DelayedTasks \cup TasksOf(deferredQueue) \subseteq Task
    BY <1>1, <2>1 DEF DelayedTasks, TypeOK
  <2>4. next_sequence_num' \in Nat /\ dropped' \subseteq Task
    BY <1>3, <2>2, <2>3 DEF DeletePendingTasks, Destroy, TypeOK
  <2>5. incomingQueue' \in Seq(Pending) /\ delayedWorkQueue' = {}
    BY <1>2, <1>3 DEF DeletePendingTasks, TypeOK
  <2>6. QED
    BY <1>2, <1>3, <2>4, <2>5 DEF DeletePendingTasks, Goto, TypeOK, loopVars, pumpVars
<1>4. CASE DeleteAgain \/ WillDestroy
  BY <1>4 DEF DeleteAgain, WillDestroy, Goto, TypeOK, queues, loopVars, pumpVars, history
<1>5. CASE DestroyMembers
  BY <1>1, <1>2, <1>5 DEF DestroyMembers, Destroy, Goto, TypeOK, loopVars, pumpVars
<1>6. QED
  BY <1>3, <1>4, <1>5 DEF Destructor

LEMMA TypeStep == ASSUME TypeOK, Numbered, [Next]_vars PROVE TypeOK'
<1>1. CASE Tick
  BY <1>1, TimeAssumption
  DEF Tick, TypeOK, Time, Null, queues, loopVars, pumpVars, control, history
<1>2. CASE Destroyed \/ UNCHANGED vars
  BY <1>2 DEF Destroyed, TypeOK, vars, queues, loopVars, pumpVars, control, history
<1>3. QED
  BY <1>1, <1>2, PostingTypes, DoWorkTypes, DoDelayedWorkTypes, PumpTypes, CallbackTypes,
     DestructorTypes
  DEF Next, LoopStep
-----------------------------------------------------------------------------
(* The pump on its way to sleep. *)

LEMMA NumberedStep == ASSUME TypeOK, Numbered, [Next]_vars PROVE Numbered'
<1> USE DEF Numbered
<1>1. CASE DoWorkDelay
  <2>1. /\ \A x \in delayedWorkQueue : x.seq \in Nat
        /\ next_sequence_num \in Nat
    BY DEF TypeOK
  <2>2. QED
    BY <1>1, <2>1 DEF DoWorkDelay, addToDelayedWorkQueue
<1>2. CASE DoWork /\ ~DoWorkDelay
  BY <1>2 DEF DoWork, DoWorkNotAllowed, DoWorkReload, reloadWorkQueue, DoWorkDefer,
              DoWorkRun, DoWorkNothing, queues
<1>3. CASE DoDelayedWork
  BY <1>3 DEF DoDelayedWork, DoDelayedNothing, DoDelayedNotYet, DoDelayedRun,
              DoDelayedDefer, PopDelayed, queues
<1>4. CASE Pump \/ SpuriousWake
  BY <1>4 DEF Pump, DoIdleRun, DoIdleNothing, Sleep, SleepUntil, SleepNot, TimedOut,
              TimedWoken, ConsumeWork, SpuriousWake, queues
<1>5. CASE ReturnTask \/ NestedRun \/ LeaveRun
  BY <1>5 DEF ReturnTask, NestedRun, LeaveRun, queues
<1>6. CASE Destructor
  BY <1>6 DEF Destructor, DeletePendingTasks, DeleteAgain, WillDestroy, DestroyMembers, queues
<1>7. ASSUME NEW p \in Thread,
             \/ scheduleWork(p) \/ Notify(p)
             \/ \E t \in Task : PostToLoop(p, t) \/ PostToNobody(p, t)
      PROVE  Numbered'
  BY <1>7 DEF scheduleWork, Notify, PostToLoop, PostToNobody, queues
<1>8. CASE Tick \/ Destroyed \/ UNCHANGED vars
  BY <1>8 DEF Tick, Destroyed, vars, queues
<1>9. QED
  BY <1>1, <1>2, <1>3, <1>4, <1>5, <1>6, <1>7, <1>8 DEF Next, LoopStep

LEMMA OuterIsAllowedStep == ASSUME TypeOK, OuterIsAllowed, [Next]_vars PROVE OuterIsAllowed'
<1> USE DEF OuterIsAllowed
<1>1. ASSUME NEW item, item.task \in Task, item.time \in Time,
             NEW from \in {"doWork", "doDelayedWork", "doIdleWork"}, runTask(item, from)
      PROVE  OuterIsAllowed'
  BY <1>1, RunTaskTypes
<1>2. CASE DoWorkRun
  <2>1. Head(work_queue) \in Pending
    BY <1>2, QueueChanges DEF DoWorkRun, PopWork, TypeOK
  <2>2. QED
    BY <1>1, <1>2, <2>1 DEF DoWorkRun, Pending
<1>3. CASE DoWork /\ ~DoWorkRun
  BY <1>3 DEF DoWork, DoWorkNotAllowed, DoWorkReload, DoWorkDelay, DoWorkDefer,
              DoWorkNothing, loopVars, control
<1>4. CASE DoDelayedWork
  <2>1. ASSUME NEW top \in delayedWorkQueue, DoDelayedRun(top) PROVE OuterIsAllowed'
    BY <1>1, <2>1 DEF DoDelayedRun, TypeOK
  <2>2. QED
    BY <1>4, <2>1 DEF DoDelayedWork, DoDelayedNothing, DoDelayedNotYet, DoDelayedDefer,
                      NoDelayedRun, Goto
<1>5. CASE DoIdleRun
  <2>1. Head(deferredQueue) \in Pending
    BY <1>5, QueueChanges DEF DoIdleRun, TypeOK
  <2>2. QED
    BY <1>1, <1>5, <2>1 DEF DoIdleRun, Pending
<1>6. CASE (Pump /\ ~DoIdleRun) \/ SpuriousWake
  BY <1>6 DEF Pump, DoIdleNothing, Sleep, SleepUntil, SleepNot, TimedOut,
              TimedWoken, ConsumeWork, SpuriousWake, Goto, loopVars
<1>7. CASE ReturnTask \/ NestedRun \/ LeaveRun
  BY <1>7 DEF ReturnTask, NestedRun, LeaveRun, Goto, loopVars
<1>8. CASE Destructor
  BY <1>8 DEF Destructor, DeletePendingTasks, DeleteAgain, WillDestroy, DestroyMembers,
              Goto, loopVars
<1>9. ASSUME NEW p \in Thread,
              \/ scheduleWork(p) \/ Notify(p)
              \/ \E t \in Task : PostToLoop(p, t) \/ PostToNobody(p, t)
       PROVE  OuterIsAllowed'
  BY <1>9 DEF scheduleWork, Notify, PostToLoop, PostToNobody, loopVars, control
<1>10. CASE Tick \/ Destroyed \/ UNCHANGED vars
  BY <1>10 DEF Tick, Destroyed, vars, loopVars, control
<1>11. QED
  BY <1>2, <1>3, <1>4, <1>5, <1>6, <1>7, <1>8, <1>9, <1>10 DEF Next, LoopStep

LEMMA PostIsToldStep ==
    ASSUME TypeOK, OuterIsAllowed, PostIsTold, [Next]_vars PROVE PostIsTold'
<1> USE DEF PostIsTold, Idling
<1>1. ASSUME NEW item, item.task \in Task, item.time \in Time,
             NEW from \in {"doWork", "doDelayedWork", "doIdleWork"}, runTask(item, from)
      PROVE  PostIsTold'
  BY <1>1, RunTaskTypes
<1>2. CASE DoWork
  <2>1. CASE DoWorkRun
    <3>1. Head(work_queue) \in Pending
      BY <2>1, QueueChanges DEF DoWorkRun, PopWork, TypeOK
    <3>2. QED
      BY <1>1, <2>1, <3>1 DEF DoWorkRun, Pending
  <2>2. CASE DoWorkNotAllowed
    BY <2>2 DEF DoWorkNotAllowed, OuterIsAllowed
  <2>3. CASE DoWorkNothing
    BY <2>3 DEF DoWorkNothing, queues
  <2>4. CASE DoWorkReload \/ DoWorkDelay \/ DoWorkDefer
    BY <2>4 DEF DoWorkReload, DoWorkDelay, DoWorkDefer, PopWork, control
  <2>5. QED
    BY <1>2, <2>1, <2>2, <2>3, <2>4 DEF DoWork
<1>3. CASE DoDelayedWork
  <2>1. ASSUME NEW top \in delayedWorkQueue, DoDelayedRun(top) PROVE PostIsTold'
    BY <1>1, <2>1 DEF DoDelayedRun, TypeOK
  <2>2. ASSUME NEW top \in delayedWorkQueue, DoDelayedDefer(top) PROVE PostIsTold'
    BY <2>2 DEF DoDelayedDefer, PopDelayed, HasDelayed, TypeOK
  <2>3. CASE DoDelayedNothing \/ DoDelayedNotYet
    BY <2>3 DEF DoDelayedNothing, DoDelayedNotYet, HasDelayed, NoDelayedRun, Goto, TypeOK, queues
  <2>4. QED
    BY <1>3, <2>1, <2>2, <2>3 DEF DoDelayedWork
<1>4. CASE Pump \/ SpuriousWake
  <2>1. CASE DoIdleRun
    <3>1. Head(deferredQueue) \in Pending
      BY <2>1, QueueChanges DEF DoIdleRun, TypeOK
    <3>2. QED
      BY <1>1, <2>1, <3>1 DEF DoIdleRun, Pending
  <2>2. ASSUME ConsumeWork PROVE PostIsTold'
    BY <2>2 DEF ConsumeWork, Goto
  <2>3. CASE DoIdleNothing \/ SleepUntil \/ SleepNot
    BY <2>3 DEF DoIdleNothing, SleepUntil, SleepNot, Goto, queues, pumpVars
  <2>4. CASE SpuriousWake
    <3>1. Awake \in {"woken", "timedWoken"}
      BY <2>4 DEF SpuriousWake, Awake
    <3>2. QED
      BY <2>4, <3>1 DEF SpuriousWake, Goto, queues, pumpVars
  <2>5. CASE Sleep \/ TimedOut \/ TimedWoken
    BY <2>2, <2>5 DEF Sleep, TimedOut, TimedWoken, Goto, queues, pumpVars
  <2>6. QED
    BY <1>4, <2>1, <2>3, <2>4, <2>5 DEF Pump
<1>5. CASE ReturnTask
  <2>1. AfterCall(Current.from, keepRunning') \in {"leave", "delayed", "work"}
    BY DEF AfterCall
  <2>2. QED
    BY <1>5, <2>1 DEF ReturnTask
<1>6. CASE NestedRun \/ LeaveRun \/ Destructor
  BY <1>6 DEF NestedRun, LeaveRun, Destructor, DeletePendingTasks, DeleteAgain, WillDestroy,
              DestroyMembers, Goto
<1>7. ASSUME NEW p \in Thread, scheduleWork(p) PROVE PostIsTold'
  BY <1>7 DEF scheduleWork, TypeOK
<1>8. ASSUME NEW p \in Thread, Notify(p) PROVE PostIsTold'
  <2>1. Awake # "wait" /\ (Awake = pc \/ pc \in {"wait", "timedWait"})
    BY DEF Awake
  <2>2. \A q \in Thread : post[q] = "schedule" => post'[q] = "schedule"
    BY <1>8 DEF Notify, TypeOK
  <2>3. Idling' => Idling
    BY <1>8, <2>1 DEF Notify
  <2>4. QED
    BY <1>8, <2>1, <2>2, <2>3 DEF Notify, queues, pumpVars
<1>9. ASSUME NEW p \in Thread, NEW t \in Task, PostToLoop(p, t) PROVE PostIsTold'
  <2>1. \A q \in Thread : post[q] # "no" => post'[q] = post[q]
    BY <1>9 DEF PostToLoop, MayPost, TypeOK
  <2>2. incomingQueue = <<>> => post'[p] = "schedule"
    BY <1>9 DEF PostToLoop, TypeOK
  <2>3. QED
    BY <1>9, <2>1, <2>2 DEF PostToLoop, pumpVars
<1>10. ASSUME NEW p \in Thread, NEW t \in Task, PostToNobody(p, t) PROVE PostIsTold'
  BY <1>10 DEF PostToNobody, queues, pumpVars, control
<1>11. CASE Tick \/ Destroyed \/ UNCHANGED vars
  BY <1>11 DEF Tick, Destroyed, vars, queues, pumpVars, control
<1>12. QED
  BY <1>2, <1>3, <1>4, <1>5, <1>6, <1>7, <1>8, <1>9, <1>10, <1>11 DEF Next, LoopStep

LEMMA NothingLeftStep ==
    ASSUME TypeOK, Numbered, OuterIsAllowed, NothingLeft, [Next]_vars PROVE NothingLeft'
<1> USE DEF NothingLeft, Idling
<1>1. ASSUME NEW item, item.task \in Task, item.time \in Time,
             NEW from \in {"doWork", "doDelayedWork", "doIdleWork"}, runTask(item, from)
      PROVE  NothingLeft'
  BY <1>1, RunTaskTypes
<1>2. CASE DoWork
  <2>1. CASE DoWorkRun
    <3>1. Head(work_queue) \in Pending
      BY <2>1, QueueChanges DEF DoWorkRun, PopWork, TypeOK
    <3>2. QED
      BY <1>1, <2>1, <3>1 DEF DoWorkRun, Pending
  <2>2. CASE DoWorkNotAllowed
    BY <2>2 DEF DoWorkNotAllowed, OuterIsAllowed
  <2>3. CASE DoWorkNothing
    BY <2>3 DEF DoWorkNothing, queues
  <2>4. CASE DoWorkReload \/ DoWorkDelay \/ DoWorkDefer
    BY <2>4 DEF DoWorkReload, DoWorkDelay, DoWorkDefer, PopWork, control
  <2>5. QED
    BY <1>2, <2>1, <2>2, <2>3, <2>4 DEF DoWork
<1>3. CASE DoDelayedWork
  <2>1. ASSUME NEW top \in delayedWorkQueue, DoDelayedRun(top) PROVE NothingLeft'
    BY <1>1, <2>1 DEF DoDelayedRun, TypeOK
  <2>2. ASSUME NEW top \in delayedWorkQueue, DoDelayedDefer(top) PROVE NothingLeft'
    BY <2>2 DEF DoDelayedDefer, PopDelayed, HasDelayed, TypeOK
  <2>3. CASE DoDelayedNothing
    BY <2>3 DEF DoDelayedNothing, NoDelayedRun, Goto, OuterIsAllowed, TypeOK, queues
  <2>4. CASE DoDelayedNotYet
    BY <2>4 DEF DoDelayedNotYet, HasDelayed, NoDelayedRun, Goto, TypeOK, queues
  <2>5. QED
    BY <1>3, <2>1, <2>2, <2>3, <2>4 DEF DoDelayedWork
<1>4. CASE Pump \/ SpuriousWake
  <2>1. CASE DoIdleRun
    <3>1. Head(deferredQueue) \in Pending
      BY <2>1, QueueChanges DEF DoIdleRun, TypeOK
    <3>2. QED
      BY <1>1, <2>1, <3>1 DEF DoIdleRun, Pending
  <2>2. ASSUME ConsumeWork PROVE NothingLeft'
    BY <2>2 DEF ConsumeWork, Goto
  <2>3. CASE DoIdleNothing \/ SleepUntil \/ SleepNot
    BY <2>3 DEF DoIdleNothing, SleepUntil, SleepNot, Goto, queues, pumpVars
  <2>4. CASE SpuriousWake
    <3>1. Awake \in {"woken", "timedWoken"}
      BY <2>4 DEF SpuriousWake, Awake
    <3>2. QED
      BY <2>4, <3>1 DEF SpuriousWake, Goto, queues, pumpVars
  <2>5. CASE Sleep
    <3>1. Idling => delayedWorkQueue = {}
      <4>1. delayedWorkQueue # {} => TopOf(delayedWorkQueue).time # Null
        BY TopIsFirst DEF Numbered, TypeOK
      <4>2. QED
        BY <2>5, <4>1 DEF Sleep
    <3>2. QED
      BY <2>2, <2>5, <3>1 DEF Sleep, Goto, queues, pumpVars
  <2>6. CASE TimedOut \/ TimedWoken
    BY <2>2, <2>6 DEF TimedOut, TimedWoken, Goto, queues, pumpVars
  <2>7. QED
    BY <1>4, <2>1, <2>3, <2>4, <2>5, <2>6 DEF Pump
<1>5. CASE ReturnTask
  <2>1. AfterCall(Current.from, keepRunning') \in {"leave", "delayed", "work"}
    BY DEF AfterCall
  <2>2. QED
    BY <1>5, <2>1 DEF ReturnTask
<1>6. CASE NestedRun \/ LeaveRun \/ Destructor
  BY <1>6 DEF NestedRun, LeaveRun, Destructor, DeletePendingTasks, DeleteAgain, WillDestroy,
              DestroyMembers, Goto
<1>7. ASSUME NEW p \in Thread, Notify(p) PROVE NothingLeft'
  <2>1. Awake = pc \/ (pc \in {"wait", "timedWait"} /\ Awake \in {"woken", "timedWoken"})
    BY DEF Awake
  <2>2. QED
    BY <1>7, <2>1 DEF Notify, queues, pumpVars
<1>8. ASSUME NEW p \in Thread,
             scheduleWork(p) \/ \E t \in Task : PostToLoop(p, t) \/ PostToNobody(p, t)
      PROVE  NothingLeft'
  BY <1>8 DEF scheduleWork, PostToLoop, PostToNobody, queues, pumpVars, control
<1>9. CASE Tick \/ Destroyed \/ UNCHANGED vars
  BY <1>9 DEF Tick, Destroyed, vars, queues, pumpVars, control
<1>10. QED
  BY <1>2, <1>3, <1>4, <1>5, <1>6, <1>7, <1>8, <1>9 DEF Next, LoopStep

\* loopLock_: a post has begun while the loop was there, and the loop goes only
\* when no post is under way.
LEMMA NoPostStep == ASSUME TypeOK, NoPostIntoDestroyed, [Next]_vars PROVE NoPostIntoDestroyed'
<1> USE DEF NoPostIntoDestroyed
<1>1. ASSUME NEW p \in Thread,
             \/ scheduleWork(p) \/ Notify(p)
             \/ \E t \in Task : PostToLoop(p, t) \/ PostToNobody(p, t)
      PROVE  NoPostIntoDestroyed'
  BY <1>1 DEF scheduleWork, Notify, PostToLoop, PostToNobody, loopVars, control, TypeOK
<1>2. CASE DoWork
  BY <1>2 DEF DoWork, DoWorkNotAllowed, DoWorkReload, DoWorkDelay, DoWorkDefer, DoWorkRun,
              DoWorkNothing, loopVars, control
<1>3. CASE DoDelayedWork
  BY <1>3 DEF DoDelayedWork, DoDelayedNothing, DoDelayedNotYet, DoDelayedRun,
              DoDelayedDefer, PopDelayed, NoDelayedRun, Goto
<1>4. CASE Pump \/ SpuriousWake
  BY <1>4 DEF Pump, DoIdleRun, DoIdleNothing, Sleep, SleepUntil, SleepNot, TimedOut,
              TimedWoken, ConsumeWork, SpuriousWake, Goto, loopVars
<1>5. CASE ReturnTask \/ NestedRun \/ LeaveRun \/ Destructor
  BY <1>5 DEF ReturnTask, NestedRun, LeaveRun, Destructor, DeletePendingTasks, DeleteAgain,
              WillDestroy, DestroyMembers, Goto, loopVars
<1>6. CASE Tick \/ Destroyed \/ UNCHANGED vars
  BY <1>6 DEF Tick, Destroyed, vars, loopVars, control
<1>7. QED
  BY <1>1, <1>2, <1>3, <1>4, <1>5, <1>6 DEF Next, LoopStep
-----------------------------------------------------------------------------
(* The places of a task. *)

LEMMA TasksOfEmpty == TasksOf(<<>>) = {} /\ Distinct(<<>>)
BY DEF TasksOf, Distinct

LEMMA TasksOfAppend ==
    ASSUME NEW S, NEW q \in Seq(S), NEW e \in S
    PROVE  /\ TasksOf(Append(q, e)) = TasksOf(q) \cup {e.task}
           /\ Distinct(q) /\ e.task \notin TasksOf(q) => Distinct(Append(q, e))
<1> DEFINE r == Append(q, e)
           n == Len(q)
<1>1. /\ n \in Nat /\ DOMAIN q = 1 .. n /\ DOMAIN r = 1 .. n + 1
      /\ \A i \in 1 .. n : r[i] = q[i]
      /\ r[n + 1] = e
  BY AppendProperties, LenProperties
<1> HIDE DEF r, n
<1>2. TasksOf(r) = TasksOf(q) \cup {e.task}
  BY <1>1 DEF TasksOf
<1>3. ASSUME Distinct(q), e.task \notin TasksOf(q),
             NEW i \in DOMAIN r, NEW j \in DOMAIN r, r[i].task = r[j].task
      PROVE  i = j
  <2>1. \A k \in 1 .. n : q[k].task # e.task
    BY <1>1, <1>3 DEF TasksOf
  <2>2. CASE i \in 1 .. n /\ j \in 1 .. n
    BY <1>1, <1>3, <2>2 DEF Distinct
  <2>3. QED
    BY <1>1, <1>3, <2>1, <2>2
<1>4. QED
  BY <1>2, <1>3 DEF Distinct, r

\* Two sequences that share out the entries of q.
LEMMA TasksOfTail ==
    ASSUME NEW S, NEW q \in Seq(S), q # <<>>
    PROVE  /\ TasksOf(q) = {Head(q).task} \cup TasksOf(Tail(q))
           /\ Distinct(q) => /\ Distinct(Tail(q))
                             /\ Head(q).task \notin TasksOf(Tail(q))
<1> DEFINE r == Tail(q)
           n == Len(q)
<1>1. /\ n \in Nat /\ n > 0 /\ DOMAIN q = 1 .. n /\ DOMAIN r = 1 .. n - 1
      /\ \A i \in 1 .. n - 1 : r[i] = q[i + 1]
      /\ Head(q) = q[1]
  BY HeadTailProperties, LenProperties, EmptySeq
<1> HIDE DEF r, n
<1>2. TasksOf(q) = {q[1].task} \cup TasksOf(r)
  <2>1. ASSUME NEW i \in DOMAIN q PROVE q[i].task \in {q[1].task} \cup TasksOf(r)
    <3>1. i # 1 => i - 1 \in DOMAIN r /\ r[i - 1] = q[i]
      BY <1>1
    <3>2. QED
      BY <3>1 DEF TasksOf
  <2>2. ASSUME NEW i \in DOMAIN r PROVE r[i].task \in TasksOf(q)
    <3>1. i + 1 \in DOMAIN q /\ r[i] = q[i + 1]
      BY <1>1
    <3>2. QED
      BY <3>1 DEF TasksOf
  <2>3. q[1].task \in TasksOf(q)
    BY <1>1 DEF TasksOf
  <2>4. QED
    BY <2>1, <2>2, <2>3 DEF TasksOf
<1>3. ASSUME Distinct(q) PROVE Distinct(r) /\ q[1].task \notin TasksOf(r)
  <2>1. \A i \in DOMAIN r : i + 1 \in DOMAIN q /\ i + 1 # 1 /\ r[i] = q[i + 1] /\ i \in Nat
    BY <1>1
  <2>2. 1 \in DOMAIN q
    BY <1>1
  <2>3. ASSUME NEW i \in DOMAIN r, NEW j \in DOMAIN r, r[i].task = r[j].task PROVE i = j
    <3>1. i + 1 = j + 1
      BY <1>3, <2>1, <2>3 DEF Distinct
    <3>2. QED
      BY <2>1, <3>1
  <2>4. QED
    BY <1>3, <2>1, <2>2, <2>3 DEF Distinct, TasksOf
<1>4. QED
  BY <1>1, <1>2, <1>3 DEF r

LEMMA TasksOfFront ==
    ASSUME NEW S, NEW q \in Seq(S), q # <<>>
    PROVE  /\ TasksOf(q) = {q[Len(q)].task} \cup TasksOf(SubSeq(q, 1, Len(q) - 1))
           /\ Distinct(q) => /\ Distinct(SubSeq(q, 1, Len(q) - 1))
                             /\ q[Len(q)].task \notin TasksOf(SubSeq(q, 1, Len(q) - 1))
<1> DEFINE r == SubSeq(q, 1, Len(q) - 1)
           n == Len(q)
<1>1. n \in Nat /\ n > 0 /\ DOMAIN q = 1 .. n /\ \A i \in 1 .. n : q[i] \in S
  BY LenProperties, EmptySeq
<1>2. /\ DOMAIN r = 1 .. n - 1
      /\ \A i \in 1 .. n - 1 : r[i] = q[i]
  <2>1. /\ r \in Seq(S) /\ Len(r) = IF 1 <= n - 1 THEN n - 1 - 1 + 1 ELSE 0
        /\ \A i \in 1 .. n - 1 - 1 + 1 : r[i] = q[1 + i - 1]
    BY <1>1, SubSeqProperties
  <2>2. QED
    BY <1>1, <2>1, LenProperties
<1> HIDE DEF r, n
<1>3. TasksOf(q) = {q[n].task} \cup TasksOf(r)
  BY <1>1, <1>2 DEF TasksOf
<1>4. ASSUME Distinct(q) PROVE Distinct(r) /\ q[n].task \notin TasksOf(r)
  BY <1>1, <1>2, <1>4 DEF TasksOf, Distinct
<1>5. QED
  BY <1>3, <1>4 DEF r, n

places == <<incomingQueue, work_queue, delayedWorkQueue, deferredQueue, frames, history>>

LEMMA OnePlaceKept == ASSUME OnePlace, UNCHANGED places PROVE OnePlace'
<1>1. /\ UNCHANGED <<incomingQueue, work_queue, delayedWorkQueue, deferredQueue, frames>>
      /\ UNCHANGED <<posted, done, dropped>>
  BY DEF places, history
<1>2. QED
  BY <1>1 DEF OnePlace, Apart, InQueues, InFrames, DelayedTasks

LEMMA OnePlacePosts ==
    ASSUME TypeOK, OnePlace, NEW p \in Thread, NEW t \in Task,
           PostToLoop(p, t) \/ PostToNobody(p, t)
    PROVE  OnePlace'
<1>1. IsFiniteSet(posted \cup {t})
  BY FS_AddElement DEF OnePlace
<1>2. CASE PostToLoop(p, t)
  <2>1. t \notin posted /\ posted' = posted \cup {t}
    BY <1>2 DEF PostToLoop
  <2>2. PICK x \in Pending : x.task = t /\ incomingQueue' = Append(incomingQueue, x)
    <3>1. calculateDelayedRuntime(t) \in Time
      BY <1>2, TaskAssumption, TimeAssumption
      DEF PostToLoop, calculateDelayedRuntime, Time, Null, TypeOK
    <3>2. QED
      BY <1>2, <3>1 DEF PostToLoop, Pending
  <2>3. /\ TasksOf(incomingQueue') = TasksOf(incomingQueue) \cup {t}
        /\ Distinct(incomingQueue')
    BY <2>1, <2>2, TasksOfAppend DEF TypeOK, OnePlace, InQueues
  <2>4. UNCHANGED <<work_queue, delayedWorkQueue, deferredQueue, frames, done, dropped>>
    BY <1>2 DEF PostToLoop
  <2>5. QED
    BY <1>1, <2>1, <2>3, <2>4 DEF OnePlace, Apart, InQueues, InFrames, DelayedTasks
<1>3. CASE PostToNobody(p, t)
  <2>1. /\ t \notin posted /\ posted' = posted \cup {t} /\ dropped' = dropped \cup {t}
        /\ UNCHANGED <<incomingQueue, work_queue, delayedWorkQueue, deferredQueue, frames, done>>
    BY <1>3 DEF PostToNobody, queues, control
  <2>2. QED
    BY <1>1, <2>1 DEF OnePlace, Apart, InQueues, InFrames, DelayedTasks
<1>4. QED
  BY <1>2, <1>3

\* runTask takes a task that has just left its queue.
LEMMA RunTaskFrames ==
    ASSUME TypeOK, OnePlace, NEW item, item.task \in Task, item.time \in Time,
           item.task \notin InFrames,
           NEW from \in {"doWork", "doDelayedWork", "doIdleWork"}, runTask(item, from)
    PROVE  TasksOf(frames') = InFrames \cup {item.task} /\ Distinct(frames')
<1>1. frames \in Seq(Frame) /\ Distinct(frames)
  BY DEF TypeOK, Frame, OnePlace
<1>2. PICK f \in Frame : f.task = item.task /\ frames' = Append(frames, f)
  BY DEF runTask, Frame
<1>3. QED
  BY <1>1, <1>2, TasksOfAppend DEF InFrames

LEMMA OnePlaceWork == ASSUME TypeOK, OnePlace, DoWork PROVE OnePlace'
<1>1. CASE DoWorkNotAllowed \/ DoWorkNothing
  BY <1>1, OnePlaceKept DEF DoWorkNotAllowed, DoWorkNothing, places, queues
<1>2. CASE DoWorkReload
  BY <1>2, TasksOfEmpty
  DEF DoWorkReload, reloadWorkQueue, control, history,
      OnePlace, Apart, InQueues, InFrames, DelayedTasks
<1>3. ASSUME PopWork
      PROVE  /\ Head(work_queue) \in Pending
             /\ TasksOf(work_queue) = {Head(work_queue).task} \cup TasksOf(work_queue')
             /\ Distinct(work_queue') /\ Head(work_queue).task \notin TasksOf(work_queue')
             /\ incomingQueue' = incomingQueue
  BY <1>3, TasksOfTail, QueueChanges DEF PopWork, TypeOK, OnePlace
<1>4. CASE DoWorkDelay
  <2> DEFINE h == Head(work_queue).task
  <2>1. DelayedTasks' = DelayedTasks \cup {h}
    <3>1. PICK d : d.task = h /\ delayedWorkQueue' = delayedWorkQueue \cup {d}
      BY <1>4 DEF DoWorkDelay, addToDelayedWorkQueue
    <3>2. QED
      BY <3>1 DEF DelayedTasks
  <2>2. \A x, y \in delayedWorkQueue' : x.task = y.task => x = y
    <3>1. h \notin DelayedTasks
      BY <1>3, <1>4 DEF DoWorkDelay, OnePlace, Apart
    <3>2. QED
      BY <1>4, <3>1 DEF DoWorkDelay, addToDelayedWorkQueue, DelayedTasks, OnePlace
  <2>3. UNCHANGED <<incomingQueue, deferredQueue, frames, done, dropped, posted>>
    BY <1>3, <1>4 DEF DoWorkDelay, control, history
  <2>4. QED
    BY <1>3, <1>4, <2>1, <2>2, <2>3 DEF DoWorkDelay, OnePlace, Apart, InQueues, InFrames
<1>5. CASE DoWorkDefer
  <2>1. /\ TasksOf(deferredQueue') = TasksOf(deferredQueue) \cup {Head(work_queue).task}
        /\ Distinct(deferredQueue')
    BY <1>3, <1>5, TasksOfAppend DEF DoWorkDefer, TypeOK, OnePlace, Apart
  <2>2. QED
    BY <1>3, <1>5, <2>1
    DEF DoWorkDefer, control, history, OnePlace, Apart, InQueues, InFrames, DelayedTasks
<1>6. CASE DoWorkRun
  <2>1. /\ TasksOf(frames') = InFrames \cup {Head(work_queue).task}
        /\ Distinct(frames')
    BY <1>3, <1>6, RunTaskFrames DEF DoWorkRun, Pending, OnePlace, Apart
  <2>2. QED
    BY <1>3, <1>6, <2>1
    DEF DoWorkRun, history, OnePlace, Apart, InQueues, InFrames, DelayedTasks
<1>7. QED
  BY <1>1, <1>2, <1>4, <1>5, <1>6 DEF DoWork

LEMMA OnePlaceDelayed == ASSUME TypeOK, OnePlace, DoDelayedWork PROVE OnePlace'
<1>1. CASE DoDelayedNothing \/ DoDelayedNotYet
  BY <1>1, OnePlaceKept
  DEF DoDelayedNothing, DoDelayedNotYet, NoDelayedRun, Goto, places, queues
<1>2. ASSUME NEW top \in delayedWorkQueue, PopDelayed(top)
      PROVE  /\ DelayedTasks = {top.task} \cup DelayedTasks'
             /\ top.task \notin DelayedTasks'
             /\ \A x, y \in delayedWorkQueue' : x.task = y.task => x = y
             /\ UNCHANGED <<incomingQueue, work_queue>>
             /\ top.task \in Task /\ top.time \in Time
  BY <1>2 DEF PopDelayed, DelayedTasks, OnePlace, TypeOK
<1>3. ASSUME NEW top \in delayedWorkQueue, DoDelayedRun(top) PROVE OnePlace'
  <2>1. TasksOf(frames') = InFrames \cup {top.task} /\ Distinct(frames')
    BY <1>2, <1>3, RunTaskFrames DEF DoDelayedRun, OnePlace, Apart
  <2>2. UNCHANGED <<deferredQueue, done, dropped, posted>>
    BY <1>3 DEF DoDelayedRun, PopDelayed, history
  <2>3. QED
    BY <1>2, <1>3, <2>1, <2>2 DEF DoDelayedRun, OnePlace, Apart, InQueues, InFrames
<1>4. ASSUME NEW top \in delayedWorkQueue, DoDelayedDefer(top) PROVE OnePlace'
  <2>1. PICK x \in Pending : x.task = top.task /\ deferredQueue' = Append(deferredQueue, x)
    BY <1>2, <1>4 DEF DoDelayedDefer, Pending
  <2>2. /\ TasksOf(deferredQueue') = TasksOf(deferredQueue) \cup {top.task}
        /\ Distinct(deferredQueue')
    BY <1>2, <1>4, <2>1, TasksOfAppend DEF DoDelayedDefer, TypeOK, OnePlace, Apart
  <2>3. UNCHANGED <<frames, done, dropped, posted>>
    BY <1>4 DEF DoDelayedDefer, PopDelayed, history
  <2>4. QED
    BY <1>2, <1>4, <2>2, <2>3 DEF DoDelayedDefer, OnePlace, Apart, InQueues, InFrames
<1>5. QED
  BY <1>1, <1>3, <1>4 DEF DoDelayedWork

LEMMA OnePlaceIdle == ASSUME TypeOK, OnePlace, DoIdleRun PROVE OnePlace'
<1>1. /\ Head(deferredQueue) \in Pending
      /\ TasksOf(deferredQueue) = {Head(deferredQueue).task} \cup TasksOf(deferredQueue')
      /\ Distinct(deferredQueue') /\ Head(deferredQueue).task \notin TasksOf(deferredQueue')
  BY TasksOfTail, QueueChanges DEF DoIdleRun, TypeOK, OnePlace
<1>2. TasksOf(frames') = InFrames \cup {Head(deferredQueue).task} /\ Distinct(frames')
  BY <1>1, RunTaskFrames DEF DoIdleRun, Pending, OnePlace, Apart
<1>3. QED
  BY <1>1, <1>2
  DEF DoIdleRun, history, OnePlace, Apart, InQueues, InFrames, DelayedTasks

LEMMA OnePlaceReturn == ASSUME TypeOK, OnePlace, ReturnTask PROVE OnePlace'
<1>1. frames \in Seq(Frame) /\ frames # <<>>
  BY DEF ReturnTask, TypeOK, Frame
<1>2. /\ InFrames = {Current.task} \cup TasksOf(frames')
      /\ Distinct(frames') /\ Current.task \notin TasksOf(frames')
  BY <1>1, TasksOfFront DEF ReturnTask, Current, InFrames, OnePlace
<1>3. done' = done \cup {Current.task}
  BY DEF ReturnTask
<1>4. QED
  BY <1>2, <1>3 DEF ReturnTask, queues, OnePlace, Apart, InQueues, InFrames, DelayedTasks

LEMMA OnePlaceDestructor == ASSUME OnePlace, Destructor PROVE OnePlace'
<1>1. CASE DeletePendingTasks
  <2>1. /\ TasksOf(work_queue') = {} /\ Distinct(work_queue')
        /\ TasksOf(deferredQueue') = {} /\ Distinct(deferredQueue')
        /\ DelayedTasks' = {} /\ delayedWorkQueue' = {}
    BY <1>1, TasksOfEmpty DEF DeletePendingTasks, DelayedTasks
  <2>2. UNCHANGED <<frames, done, posted>>
    BY <1>1 DEF DeletePendingTasks, Goto
  <2>3. CASE work_queue = <<>>
    <3>1. /\ TasksOf(incomingQueue') = {} /\ Distinct(incomingQueue')
          /\ dropped' = dropped \cup (TasksOf(incomingQueue) \cup DelayedTasks
                                          \cup TasksOf(deferredQueue))
          /\ TasksOf(work_queue) = {}
      BY <1>1, <2>3, TasksOfEmpty DEF DeletePendingTasks, Destroy
    <3>2. QED
      BY <2>1, <2>2, <3>1 DEF OnePlace, Apart, InQueues, InFrames
  <2>4. CASE work_queue # <<>>
    <3>1. /\ incomingQueue' = incomingQueue
          /\ dropped' = dropped \cup (TasksOf(work_queue) \cup DelayedTasks
                                          \cup TasksOf(deferredQueue))
      BY <1>1, <2>4 DEF DeletePendingTasks, Destroy
    <3>2. QED
      BY <2>1, <2>2, <3>1 DEF OnePlace, Apart, InQueues, InFrames
  <2>5. QED
    BY <2>3, <2>4
<1>2. CASE DeleteAgain \/ WillDestroy
  BY <1>2, OnePlaceKept DEF DeleteAgain, WillDestroy, Goto, places, queues
<1>3. CASE DestroyMembers
  <2>1. /\ TasksOf(incomingQueue') = {} /\ Distinct(incomingQueue')
        /\ dropped' = dropped \cup TasksOf(incomingQueue)
        /\ UNCHANGED <<work_queue, delayedWorkQueue, deferredQueue, frames, done, posted>>
    BY <1>3, TasksOfEmpty DEF DestroyMembers, Destroy, Goto
  <2>2. QED
    BY <2>1 DEF OnePlace, Apart, InQueues, InFrames, DelayedTasks
<1>4. QED
  BY <1>1, <1>2, <1>3 DEF Destructor

LEMMA OnePlaceStep == ASSUME TypeOK, OnePlace, [Next]_vars PROVE OnePlace'
<1>1. CASE (Pump /\ ~DoIdleRun) \/ SpuriousWake
  BY <1>1, OnePlaceKept
  DEF Pump, DoIdleNothing, Sleep, SleepUntil, SleepNot, TimedOut, TimedWoken, ConsumeWork,
      SpuriousWake, Goto, places, queues
<1>2. CASE NestedRun \/ LeaveRun
  BY <1>2, OnePlaceKept DEF NestedRun, LeaveRun, Goto, places, queues
<1>3. ASSUME NEW p \in Thread, scheduleWork(p) \/ Notify(p) PROVE OnePlace'
  BY <1>3, OnePlaceKept DEF scheduleWork, Notify, places, queues
<1>4. CASE Tick \/ Destroyed \/ UNCHANGED vars
  BY <1>4, OnePlaceKept DEF Tick, Destroyed, vars, places, queues, control
<1>5. QED
  BY <1>1, <1>2, <1>3, <1>4, OnePlacePosts, OnePlaceWork, OnePlaceDelayed, OnePlaceIdle,
     OnePlaceReturn, OnePlaceDestructor
  DEF Next, LoopStep, Pump

-----------------------------------------------------------------------------
THEOREM Inductive == Spec => []IInv
<1>1. Init => IInv
  BY InitIInv
<1>2. IInv /\ [Next]_vars => IInv'
  BY TypeStep, NumberedStep, OuterIsAllowedStep, PostIsToldStep, NothingLeftStep,
     OnePlaceStep, NoPostStep
  DEF IInv
<1>3. QED
  BY <1>1, <1>2, PTL DEF Spec

\* The variables of the loop, its task runner and its pump keep their types.
THEOREM TypeCorrect == Spec => []TypeOK
<1>1. IInv => TypeOK
  BY DEF IInv
<1>2. QED
  BY <1>1, Inductive, PTL

\* Whoever posts whatever, and whatever order the steps of addToIncomingQueue
\* and of the pump come in: the untimed wait of the outermost run never sleeps
\* over incomingQueue_ with no notify to come.
THEOREM WakeupsAreKept == Spec => []NoLostWakeup
<1>1. IInv => NoLostWakeup
  BY DEF IInv, NoLostWakeup, PostIsTold, Idling, TypeOK
<1>2. QED
  BY <1>1, Inductive, PTL

\* The outermost pump goes to sleep with its queues empty, or until the time
\* of the first delayed task.
THEOREM SleepIsEarned == Spec => []SleepsOnlyWhenIdle
<1>1. IInv => SleepsOnlyWhenIdle
  BY DEF IInv, SleepsOnlyWhenIdle, NothingLeft, Idling
<1>2. QED
  BY <1>1, Inductive, PTL

\* With loop_ null no thread is inside addToIncomingQueue or scheduleWork.
THEOREM MembersMayGo == Spec => []NoPostIntoDestroyed
<1>1. IInv => NoPostIntoDestroyed
  BY DEF IInv
<1>2. QED
  BY <1>1, Inductive, PTL

-----------------------------------------------------------------------------
(* Counting the tasks. *)

LEMMA QueueCount ==
    ASSUME NEW S, NEW q \in Seq(S), Distinct(q)
    PROVE  IsFiniteSet(TasksOf(q)) /\ Cardinality(TasksOf(q)) = Len(q)
<1> DEFINE f == [i \in 1 .. Len(q) |-> q[i].task]
<1>1. Len(q) \in Nat /\ DOMAIN q = 1 .. Len(q)
  BY LenProperties
<1>2. IsFiniteSet(1 .. Len(q)) /\ Cardinality(1 .. Len(q)) = Len(q)
  BY <1>1, FS_Interval
<1>3. f \in Bijection(1 .. Len(q), TasksOf(q))
  BY <1>1 DEF TasksOf, Distinct, Bijection, Injection, Surjection, IsInjective
<1>4. ExistsBijection(1 .. Len(q), TasksOf(q))
  BY <1>3 DEF ExistsBijection
<1>5. QED
  BY <1>2, <1>4, FS_Bijection

LEMMA DelayedCount ==
    ASSUME IsFiniteSet(DelayedTasks), \A x, y \in delayedWorkQueue : x.task = y.task => x = y
    PROVE  Cardinality(DelayedTasks) = Cardinality(delayedWorkQueue)
<1> DEFINE f == [d \in delayedWorkQueue |-> d.task]
<1>1. f \in Injection(delayedWorkQueue, DelayedTasks) /\ f \in Surjection(delayedWorkQueue, DelayedTasks)
  BY DEF DelayedTasks, Injection, Surjection, IsInjective
<1>2. QED
  BY <1>1, FS_Injection

LEMMA DisjointUnion ==
    ASSUME NEW S, NEW T, IsFiniteSet(S), IsFiniteSet(T), S \cap T = {}
    PROVE  /\ IsFiniteSet(S \cup T)
           /\ Cardinality(S \cup T) = Cardinality(S) + Cardinality(T)
           /\ Cardinality(S) \in Nat /\ Cardinality(T) \in Nat
BY FS_Union, FS_EmptySet, FS_CardinalityType

LEMMA ApartCount ==
    ASSUME NEW a, NEW b, NEW c, NEW d, NEW e, NEW f, NEW g, Apart(a, b, c, d, e, f, g),
           IsFiniteSet(a), IsFiniteSet(b), IsFiniteSet(c), IsFiniteSet(d), IsFiniteSet(e),
           IsFiniteSet(f), IsFiniteSet(g)
    PROVE  Cardinality(a \cup (b \cup (c \cup (d \cup (e \cup (f \cup g)))))) =
               Cardinality(a) + Cardinality(b) + Cardinality(c) + Cardinality(d)
             + Cardinality(e) + Cardinality(f) + Cardinality(g)
<1> DEFINE s2 == f \cup g
           s3 == e \cup s2
           s4 == d \cup s3
           s5 == c \cup s4
           s6 == b \cup s5
<1>0. /\ f \cap g = {} /\ e \cap s2 = {} /\ d \cap s3 = {} /\ c \cap s4 = {}
      /\ b \cap s5 = {} /\ a \cap s6 = {}
  BY DEF Apart
<1>2. /\ IsFiniteSet(s2) /\ Cardinality(s2) = Cardinality(f) + Cardinality(g)
      /\ Cardinality(f) \in Nat /\ Cardinality(g) \in Nat
  BY <1>0, DisjointUnion
<1> HIDE DEF s2
<1>3. /\ IsFiniteSet(s3) /\ Cardinality(s3) = Cardinality(e) + Cardinality(s2)
      /\ Cardinality(e) \in Nat
  BY <1>0, <1>2, DisjointUnion
<1> HIDE DEF s3
<1>4. /\ IsFiniteSet(s4) /\ Cardinality(s4) = Cardinality(d) + Cardinality(s3)
      /\ Cardinality(d) \in Nat
  BY <1>0, <1>3, DisjointUnion
<1> HIDE DEF s4
<1>5. /\ IsFiniteSet(s5) /\ Cardinality(s5) = Cardinality(c) + Cardinality(s4)
      /\ Cardinality(c) \in Nat
  BY <1>0, <1>4, DisjointUnion
<1> HIDE DEF s5
<1>6. /\ IsFiniteSet(s6) /\ Cardinality(s6) = Cardinality(b) + Cardinality(s5)
      /\ Cardinality(b) \in Nat
  BY <1>0, <1>5, DisjointUnion
<1> HIDE DEF s6
<1>7. Cardinality(a \cup s6) = Cardinality(a) + Cardinality(s6) /\ Cardinality(a) \in Nat
  BY <1>0, <1>6, DisjointUnion
<1>8. Cardinality(a \cup s6) = Cardinality(a) + Cardinality(b) + Cardinality(c)
          + Cardinality(d) + Cardinality(e) + Cardinality(f) + Cardinality(g)
  BY <1>2, <1>3, <1>4, <1>5, <1>6, <1>7
<1>9. QED
  BY <1>8 DEF s2, s3, s4, s5, s6

\* However a callback moves between the queues, the frames and the history, it
\* is neither lost nor doubled: for any number of posters, tasks and delays.
THEOREM NothingLostNorDoubled == Spec => []OneFate
<1>1. IInv => OneFate
  <2> SUFFICES ASSUME IInv PROVE OneFate
    OBVIOUS
  <2> DEFINE a == TasksOf(incomingQueue)
             b == TasksOf(work_queue)
             c == DelayedTasks
             d == TasksOf(deferredQueue)
             e == InFrames
  <2>1. /\ Apart(a, b, c, d, e, done, dropped)
        /\ posted = InQueues \cup InFrames \cup done \cup dropped
        /\ IsFiniteSet(posted)
    BY DEF IInv, OnePlace
  <2>2. posted = a \cup (b \cup (c \cup (d \cup (e \cup (done \cup dropped)))))
    BY <2>1 DEF InQueues
  <2>3. /\ IsFiniteSet(a) /\ IsFiniteSet(b) /\ IsFiniteSet(c) /\ IsFiniteSet(d)
        /\ IsFiniteSet(e) /\ IsFiniteSet(done) /\ IsFiniteSet(dropped)
    <3>1. \A T \in SUBSET posted : IsFiniteSet(T)
      BY <2>1, FS_Subset
    <3>2. QED
      BY <2>2, <3>1
  <2>4. /\ Cardinality(a) = Len(incomingQueue) /\ Cardinality(b) = Len(work_queue)
        /\ Cardinality(d) = Len(deferredQueue) /\ Cardinality(e) = Len(frames)
    <3>1. /\ incomingQueue \in Seq(Pending) /\ Distinct(incomingQueue)
          /\ work_queue \in Seq(Pending) /\ Distinct(work_queue)
          /\ deferredQueue \in Seq(Pending) /\ Distinct(deferredQueue)
          /\ frames \in Seq(Frame) /\ Distinct(frames)
      BY DEF IInv, TypeOK, OnePlace, Frame
    <3>2. /\ Cardinality(a) = Len(incomingQueue) /\ Cardinality(b) = Len(work_queue)
          /\ Cardinality(d) = Len(deferredQueue)
      BY <3>1, QueueCount
    <3>3. Cardinality(e) = Len(frames)
      BY <3>1, QueueCount DEF InFrames
    <3>4. QED
      BY <3>2, <3>3
  <2>5. Cardinality(c) = Cardinality(delayedWorkQueue)
    BY <2>3, DelayedCount DEF IInv, OnePlace
  <2> HIDE DEF a, b, c, d, e
  <2>6. Cardinality(posted) = Cardinality(a) + Cardinality(b) + Cardinality(c)
            + Cardinality(d) + Cardinality(e) + Cardinality(done) + Cardinality(dropped)
    BY <2>1, <2>2, <2>3, ApartCount
  <2>7. /\ Cardinality(a) \in Nat /\ Cardinality(b) \in Nat /\ Cardinality(c) \in Nat
        /\ Cardinality(d) \in Nat /\ Cardinality(e) \in Nat /\ Cardinality(done) \in Nat
        /\ Cardinality(dropped) \in Nat
    BY <2>3, FS_CardinalityType
  <2>8. Cardinality(posted) = Len(incomingQueue) + Len(work_queue) + Len(deferredQueue)
            + Cardinality(delayedWorkQueue) + Len(frames) + Cardinality(done) + Cardinality(dropped)
    <3>1. \A q, w, p, n, f, r, z \in Nat : q + w + p + n + f + r + z = q + w + n + p + f + r + z
      OBVIOUS
    <3>2. Cardinality(posted) = Cardinality(a) + Cardinality(b) + Cardinality(d) + Cardinality(c)
              + Cardinality(e) + Cardinality(done) + Cardinality(dropped)
      BY <2>6, <2>7, <3>1
    <3>3. QED
      BY <2>4, <2>5, <3>2
  <2>9. QED
    BY <2>1, <2>8 DEF OneFate
<1>2. QED
  BY <1>1, Inductive, PTL

-----------------------------------------------------------------------------
(* After a quit, as long as no callback has run the loop again: that hides  *)
(* the quit of an inner run from the outer one.                             *)

\* Without a nested run there is at most one callback, run by the pump itself.
NotNested == frames # <<>> => pc = "task" /\ Len(frames) = 1

\* keepRunning_ is false only on the way out, and a quit leads there.
QuitEnds ==
    /\ pc = "leave" \/ keepRunning
    /\ done \cap Quitter # {} =>
          pc \in {"leave", "delete", "dropping", "willDestroy", "members", "destroyed"}

QuitInv == IInv /\ NotNested /\ QuitEnds

\* What was started is running or done.
LEMMA RunsAreKept ==
    ASSUME IInv, [Next]_vars PROVE done \cup InFrames \subseteq done' \cup InFrames'
<1>1. ASSUME NEW item \in [task : Task, time : Time],
             NEW from \in {"doWork", "doDelayedWork", "doIdleWork"}, runTask(item, from)
      PROVE  InFrames \subseteq InFrames'
  <2>1. frames \in Seq(Frame)
    BY DEF IInv, TypeOK, Frame
  <2>2. PICK f \in Frame : frames' = Append(frames, f)
    BY <1>1 DEF runTask, Frame
  <2>3. InFrames' = InFrames \cup {f.task}
    BY <2>1, <2>2, TasksOfAppend DEF InFrames, IInv, OnePlace
  <2>4. QED
    BY <2>3
<1>2. CASE DoWork \/ DoDelayedWork
  <2>1. CASE DoWorkRun
    <3>1. Head(work_queue) \in [task : Task, time : Time]
      BY <2>1, HeadTailProperties DEF DoWorkRun, PopWork, IInv, TypeOK, Pending
    <3>2. QED
      BY <1>1, <2>1, <3>1 DEF DoWorkRun, history
  <2>2. CASE DoWork /\ ~DoWorkRun
    BY <2>2 DEF DoWork, DoWorkNotAllowed, DoWorkReload, DoWorkDelay, DoWorkDefer, DoWorkNothing,
                PopWork, control, history, InFrames
  <2>3. ASSUME NEW top \in delayedWorkQueue, DoDelayedRun(top)
        PROVE  InFrames \subseteq InFrames' /\ done' = done
    <3>1. top \in [task : Task, time : Time, seq : Nat]
      BY DEF IInv, TypeOK
    <3>2. [task |-> top.task, time |-> top.time] \in [task : Task, time : Time]
      BY <3>1
    <3>3. InFrames \subseteq InFrames'
      <4>1. runTask([task |-> top.task, time |-> top.time], "doDelayedWork")
        BY <2>3 DEF DoDelayedRun, runTask
      <4>2. QED
        BY <1>1, <3>2, <4>1
    <3>4. QED
      BY <2>3, <3>3 DEF DoDelayedRun, PopDelayed, history
  <2>4. ASSUME NEW top \in delayedWorkQueue, DoDelayedDefer(top) PROVE UNCHANGED <<frames, done>>
    BY <2>4 DEF DoDelayedDefer, PopDelayed, history
  <2>5. CASE DoDelayedNothing \/ DoDelayedNotYet
    BY <2>5 DEF DoDelayedNothing, DoDelayedNotYet, NoDelayedRun, Goto, history, InFrames
  <2>6. QED
    BY <1>2, <2>1, <2>2, <2>3, <2>4, <2>5 DEF DoDelayedWork, InFrames
<1>3. CASE DoIdleRun
  <2>1. Head(deferredQueue) \in [task : Task, time : Time]
    BY <1>3, HeadTailProperties DEF DoIdleRun, IInv, TypeOK, Pending
  <2>2. QED
    BY <1>1, <1>3, <2>1 DEF DoIdleRun, history
<1>4. CASE ReturnTask
  <2>1. frames \in Seq(Frame) /\ frames # <<>>
    BY <1>4 DEF ReturnTask, IInv, TypeOK, Frame
  <2>2. InFrames = {Current.task} \cup InFrames'
    BY <1>4, <2>1, TasksOfFront DEF ReturnTask, Current, InFrames
  <2>3. QED
    BY <1>4, <2>2 DEF ReturnTask
<1>5. CASE \/ Pump /\ ~DoIdleRun
           \/ SpuriousWake \/ NestedRun \/ LeaveRun \/ Destructor
           \/ Tick \/ Destroyed \/ UNCHANGED vars
  BY <1>5
  DEF Pump, DoIdleNothing, Sleep, SleepUntil, SleepNot, TimedOut, TimedWoken, ConsumeWork,
      SpuriousWake, NestedRun, LeaveRun, Destructor, DeletePendingTasks, DeleteAgain, WillDestroy,
      DestroyMembers, Tick, Destroyed, vars, Goto, control, history, InFrames
<1>6. ASSUME NEW p \in Thread,
             \/ scheduleWork(p) \/ Notify(p)
             \/ \E t \in Task : PostToLoop(p, t) \/ PostToNobody(p, t)
      PROVE  done \cup InFrames \subseteq done' \cup InFrames'
  BY <1>6 DEF scheduleWork, Notify, PostToLoop, PostToNobody, control, history, InFrames
<1>7. QED
  BY <1>2, <1>3, <1>4, <1>5, <1>6 DEF Next, LoopStep

LEMMA QuitRunTask ==
    ASSUME QuitInv, pc # "task", NEW item, NEW from, runTask(item, from)
    PROVE  NotNested'
<1>1. frames = <<>> /\ frames \in Seq(Frame)
  BY DEF QuitInv, NotNested, IInv, TypeOK, Frame
<1>2. Len(frames') = 1
  BY <1>1 DEF runTask
<1>3. QED
  BY <1>2 DEF runTask, NotNested

LEMMA QuitReturn == ASSUME QuitInv, ReturnTask PROVE NotNested' /\ QuitEnds'
<1>1. SubSeq(frames, 1, 0) = <<>>
  BY SubSeqEmpty
<1>2. frames' = <<>>
  BY <1>1 DEF ReturnTask, QuitInv, NotNested, IInv, TypeOK
<1>3. done \cap Quitter = {} /\ keepRunning
  BY DEF QuitInv, QuitEnds, ReturnTask
<1>4. /\ keepRunning' = (Current.task \notin Quitter)
      /\ done' = done \cup {Current.task}
      /\ pc' = AfterCall(Current.from, keepRunning')
  BY <1>3 DEF ReturnTask
<1>5. CASE Current.task \in Quitter
  BY <1>2, <1>4, <1>5 DEF NotNested, QuitEnds, AfterCall
<1>6. CASE Current.task \notin Quitter
  BY <1>2, <1>3, <1>4, <1>6 DEF NotNested, QuitEnds
<1>7. QED
  BY <1>5, <1>6

LEMMA QuitStep ==
    ASSUME NeverNested, QuitInv, [Next]_vars PROVE NotNested' /\ QuitEnds'
<1> USE DEF QuitEnds
<1>1. NotNested /\ QuitEnds
  BY DEF QuitInv
<1>2. CASE DoWork
  <2>1. CASE DoWorkRun
    BY <1>1, <2>1, QuitRunTask DEF DoWorkRun, PopWork, runTask, pumpVars, history
  <2>2. CASE DoWork /\ ~DoWorkRun
    BY <1>1, <2>2 DEF DoWork, DoWorkNotAllowed, DoWorkReload, DoWorkDelay, DoWorkDefer,
                      DoWorkNothing, PopWork, NotNested, pumpVars, control, history
  <2>3. QED
    BY <1>2, <2>1, <2>2
<1>3. CASE DoDelayedWork
  <2>1. ASSUME NEW top \in delayedWorkQueue, DoDelayedRun(top) PROVE NotNested' /\ QuitEnds'
    BY <1>1, <2>1, QuitRunTask DEF DoDelayedRun, PopDelayed, HasDelayed, runTask, history
  <2>2. ASSUME NEW top \in delayedWorkQueue, DoDelayedDefer(top) PROVE NotNested' /\ QuitEnds'
    BY <1>1, <2>2 DEF DoDelayedDefer, PopDelayed, HasDelayed, NotNested, history
  <2>3. CASE DoDelayedNothing \/ DoDelayedNotYet
    BY <1>1, <2>3 DEF DoDelayedNothing, DoDelayedNotYet, HasDelayed, NoDelayedRun, Goto,
                      NotNested, history
  <2>4. QED
    BY <1>3, <2>1, <2>2, <2>3 DEF DoDelayedWork
<1>4. CASE Pump \/ SpuriousWake
  <2>1. CASE DoIdleRun
    BY <1>1, <2>1, QuitRunTask DEF DoIdleRun, runTask, pumpVars, history
  <2>2. CASE (Pump /\ ~DoIdleRun) \/ SpuriousWake
    BY <1>1, <2>2 DEF Pump, DoIdleNothing, Sleep, SleepUntil, SleepNot, TimedOut, TimedWoken,
                      ConsumeWork, SpuriousWake, Goto, NotNested, pumpVars, history
  <2>3. QED
    BY <1>4, <2>1, <2>2
<1>5. CASE LeaveRun \/ Destructor
  BY <1>1, <1>5 DEF LeaveRun, Destructor, DeletePendingTasks, DeleteAgain, WillDestroy,
                    DestroyMembers, Goto, NotNested, pumpVars, history
<1>6. CASE NestedRun
  <2>1. frames \in Seq(Frame) /\ frames # <<>>
    BY <1>6 DEF NestedRun, QuitInv, IInv, TypeOK, Frame
  <2>2. Current.task \in InFrames
    BY <2>1, TasksOfFront DEF Current, InFrames
  <2>3. QED
    BY <1>6, <2>2 DEF NestedRun, NeverNested
<1>7. ASSUME NEW p \in Thread, Notify(p) PROVE NotNested' /\ QuitEnds'
  <2>1. pc' = pc \/ (pc \in {"wait", "timedWait"} /\ pc' \in {"woken", "timedWoken"})
    BY <1>7 DEF Notify, Awake
  <2>2. QED
    BY <1>1, <1>7, <2>1 DEF Notify, NotNested, pumpVars, history
<1>8. ASSUME NEW p \in Thread,
             scheduleWork(p) \/ \E t \in Task : PostToLoop(p, t) \/ PostToNobody(p, t)
      PROVE  NotNested' /\ QuitEnds'
  BY <1>1, <1>8 DEF scheduleWork, PostToLoop, PostToNobody, NotNested, pumpVars, control, history
<1>9. CASE Tick \/ Destroyed \/ UNCHANGED vars
  BY <1>1, <1>9 DEF Tick, Destroyed, vars, NotNested, pumpVars, control, history
<1>10. QED
  BY <1>2, <1>3, <1>4, <1>5, <1>6, <1>7, <1>8, <1>9, QuitReturn DEF Next, LoopStep

\* A callback that calls quit is the last one that is run, whatever is due,
\* deferred or posted, as long as no callback has run the loop again.
THEOREM NothingAfterQuit == Spec => QuitIsPrompt
<1> DEFINE Plain == NeverNested => NotNested /\ QuitEnds
<1>1. Init => Plain
  BY DEF Init, NotNested, QuitEnds
<1>2. IInv /\ Plain /\ [Next]_vars => Plain'
  <2>1. IInv /\ [Next]_vars /\ NeverNested' => NeverNested
    BY RunsAreKept DEF NeverNested
  <2>2. QED
    BY <2>1, QuitStep DEF QuitInv
<1>3. IInv /\ Plain /\ [Next]_vars => [NeverNested /\ done \cap Quitter # {} => done' = done]_vars
  <2> SUFFICES ASSUME IInv, Plain, Next, NeverNested, done \cap Quitter # {} PROVE done' = done
    OBVIOUS
  <2>1. ~ReturnTask
    BY DEF ReturnTask, QuitEnds
  <2>2. CASE LoopStep \/ NestedRun \/ SpuriousWake
    BY <2>1, <2>2
    DEF LoopStep, DoWork, DoWorkNotAllowed, DoWorkReload, DoWorkDelay, DoWorkDefer, DoWorkRun,
        DoWorkNothing, DoDelayedWork, DoDelayedNothing, DoDelayedNotYet, DoDelayedRun,
        DoDelayedDefer, PopDelayed, Pump, DoIdleRun, DoIdleNothing, Sleep, SleepUntil, SleepNot,
        TimedOut, TimedWoken, ConsumeWork, LeaveRun, Destructor, DeletePendingTasks,
        DeleteAgain, WillDestroy, DestroyMembers, NestedRun, SpuriousWake, history
  <2>3. ASSUME NEW p \in Thread,
               \/ scheduleWork(p) \/ Notify(p)
               \/ \E t \in Task : PostToLoop(p, t) \/ PostToNobody(p, t)
        PROVE  done' = done
    BY <2>3 DEF scheduleWork, Notify, PostToLoop, PostToNobody, history
  <2>4. CASE Tick \/ Destroyed
    BY <2>4 DEF Tick, Destroyed, vars, history
  <2>5. QED
    BY <2>2, <2>3, <2>4 DEF Next
<1>4. QED
  BY <1>1, <1>2, <1>3, Inductive, PTL DEF Spec, QuitIsPrompt

-----------------------------------------------------------------------------
(* The immediate tasks of a queue, in its order. *)

\* Induction over a sequence that grows at its end, for a set of sequences.
LEMMA GrowingSequences ==
    ASSUME NEW S, NEW G, <<>> \in G,
           \A p \in Seq(S), x \in S : p \in G => Append(p, x) \in G
    PROVE  Seq(S) \subseteq G
<1> DEFINE Bad == {n \in Nat : \E p \in Seq(S) : Len(p) = n /\ p \notin G}
<1>1. SUFFICES ASSUME Bad # {} PROVE FALSE
  BY LenProperties
<1>2. PICK n \in Bad : \A m \in Bad : n <= m
  BY <1>1, LeastNumber
<1>3. PICK p \in Seq(S) : Len(p) = n /\ p \notin G
  BY <1>2
<1>4. PICK r \in Seq(S), x \in S : p = Append(r, x)
  BY <1>3, SequenceEmptyOrAppend
<1>5. Len(r) \in Nat /\ n = Len(r) + 1
  BY <1>3, <1>4, LenProperties, AppendProperties
<1>6. r \notin G
  BY <1>3, <1>4
<1>7. QED
  BY <1>2, <1>5, <1>6

\* upTo of ImmediateOf: f[n] has the immediate tasks among the first n.
Upto(f, q) ==
    f = [n \in 0 .. Len(q) |->
            IF n = 0 THEN <<>>
            ELSE IF q[n].task \in Immediate THEN Append(f[n - 1], q[n].task)
                                            ELSE f[n - 1]]

Extended(s, x) == IF x.task \in Immediate THEN Append(s, x.task) ELSE s

LEMMA UptoExtends ==
    ASSUME NEW S, NEW q \in Seq(S), NEW x \in S, NEW f, Upto(f, q)
    PROVE  LET n == Len(q)
               g == [k \in 0 .. n + 1 |-> IF k <= n THEN f[k] ELSE Extended(f[n], x)]
           IN  Upto(g, Append(q, x)) /\ g[n + 1] = Extended(f[n], x)
<1> DEFINE n == Len(q)
           r == Append(q, x)
           g == [k \in 0 .. n + 1 |-> IF k <= n THEN f[k] ELSE Extended(f[n], x)]
           step(h, p, k) == IF k = 0 THEN <<>> ELSE Extended(h[k - 1], p[k])
<1>1. /\ n \in Nat /\ Len(r) = n + 1
      /\ \A i \in 1 .. n : r[i] = q[i]
      /\ r[n + 1] = x
  BY AppendProperties, LenProperties
<1>2. \A k \in 0 .. n : f[k] = step(f, q, k)
  BY DEF Upto, Extended
<1> HIDE DEF n, r
<1>3. ASSUME NEW k \in 0 .. n + 1 PROVE g[k] = step(g, r, k)
  <2>1. CASE k = n + 1
    <3>1. n \in 0 .. n + 1 /\ g[n] = f[n] /\ k - 1 = n /\ k # 0 /\ k \in 0 .. n + 1 /\ ~(k <= n)
      BY <1>1, <2>1
    <3>2. QED
      BY <1>1, <2>1, <3>1
  <2>2. CASE k = 0
    <3>1. 0 \in 0 .. n /\ 0 <= n /\ f[0] = <<>>
      BY <1>1, <1>2
    <3>2. QED
      BY <1>1, <2>2, <3>1
  <2>3. CASE k \in 1 .. n
    <3>1. /\ k \in 0 .. n /\ k - 1 \in 0 .. n /\ k - 1 \in 0 .. n + 1 /\ k - 1 <= n /\ k <= n
          /\ k # 0 /\ r[k] = q[k]
      BY <1>1, <2>3
    <3>2. g[k] = f[k] /\ g[k - 1] = f[k - 1]
      BY <3>1
    <3>3. QED
      BY <1>2, <3>1, <3>2
  <2>4. QED
    BY <1>1, <2>1, <2>2, <2>3
<1>4. g = [k \in 0 .. n + 1 |-> step(g, r, k)]
  BY <1>3
<1>5. Upto(g, r)
  BY <1>1, <1>4 DEF Upto, Extended
<1>6. n + 1 \in 0 .. n + 1 /\ ~(n + 1 <= n)
  BY <1>1
<1>7. QED
  BY <1>5, <1>6 DEF n, r

\* There is such an f for every queue.
LEMMA UptoExists == ASSUME NEW S, NEW q \in Seq(S) PROVE \E f : Upto(f, q)
<1> DEFINE G == {p \in Seq(S) : \E f : Upto(f, p)}
<1>1. <<>> \in G
  <2>1. <<>> \in Seq(S) /\ Len(<<>>) = 0
    BY EmptySeq
  <2>2. Upto([k \in 0 .. 0 |-> <<>>], <<>>)
    BY <2>1 DEF Upto
  <2>3. QED
    BY <2>1, <2>2
<1>2. ASSUME NEW p \in Seq(S), NEW x \in S, p \in G PROVE Append(p, x) \in G
  <2>1. PICK f : Upto(f, p)
    BY <1>2
  <2>2. \E g : Upto(g, Append(p, x))
    BY <2>1, UptoExtends
  <2>3. QED
    BY <2>2, AppendProperties
<1> HIDE DEF G
<1>3. Seq(S) \subseteq G
  BY <1>1, <1>2, GrowingSequences
<1>4. QED
  BY <1>3 DEF G

\* And no other.
LEMMA UptoUnique ==
    ASSUME NEW S, NEW q \in Seq(S), NEW f, NEW g, Upto(f, q), Upto(g, q) PROVE f = g
<1> DEFINE n == Len(q)
           Bad == {k \in 0 .. n : f[k] # g[k]}
<1>1. n \in Nat
  BY LenProperties
<1>2. /\ \A k \in 0 .. n : f[k] = IF k = 0 THEN <<>> ELSE Extended(f[k - 1], q[k])
      /\ \A k \in 0 .. n : g[k] = IF k = 0 THEN <<>> ELSE Extended(g[k - 1], q[k])
  BY DEF Upto, Extended
<1>3. ASSUME Bad # {} PROVE FALSE
  <2>0. Bad \in SUBSET Nat
    BY <1>1
  <2> HIDE DEF Bad
  <2>1. PICK k \in Bad : \A j \in Bad : k <= j
    BY <1>3, <2>0, LeastNumber
  <2> USE DEF Bad
  <2>2. k \in 0 .. n /\ k # 0
    BY <1>1, <1>2, <2>1
  <2>3. k - 1 \in 0 .. n /\ k - 1 \notin Bad
    BY <1>1, <2>1, <2>2
  <2>4. f[k - 1] = g[k - 1]
    BY <2>3
  <2>5. QED
    BY <1>2, <2>1, <2>2, <2>4
<1>4. f = [k \in 0 .. n |-> f[k]] /\ g = [k \in 0 .. n |-> g[k]]
  BY DEF Upto
<1>5. \A k \in 0 .. n : f[k] = g[k]
  BY <1>3
<1>6. QED
  BY <1>4, <1>5

LEMMA ImmediateOfUpto ==
    ASSUME NEW S, NEW q \in Seq(S), NEW f, Upto(f, q) PROVE ImmediateOf(q) = f[Len(q)]
<1>1. \A g : Upto(g, q) => g = f
  BY UptoUnique
<1>2. (CHOOSE g : Upto(g, q)) = f
  BY <1>1
<1>3. ImmediateOf(q) = (CHOOSE g : Upto(g, q))[Len(q)]
  BY DEF ImmediateOf, Upto
<1>4. QED
  BY <1>2, <1>3

LEMMA ImmediateOfEmpty == ImmediateOf(<<>>) = <<>>
<1>1. <<>> \in Seq({}) /\ Len(<<>>) = 0
  BY EmptySeq
<1>2. Upto([k \in 0 .. 0 |-> <<>>], <<>>)
  BY <1>1 DEF Upto
<1>3. QED
  BY <1>1, <1>2, ImmediateOfUpto

LEMMA ImmediateOfAppend ==
    ASSUME NEW S, NEW q \in Seq(S), NEW x \in S
    PROVE  ImmediateOf(Append(q, x)) = Extended(ImmediateOf(q), x)
<1>1. PICK f : Upto(f, q)
  BY UptoExists
<1>2. ImmediateOf(q) = f[Len(q)]
  BY <1>1, ImmediateOfUpto
<1>3. Append(q, x) \in Seq(S) /\ Len(Append(q, x)) = Len(q) + 1
  BY AppendProperties
<1>4. PICK g : Upto(g, Append(q, x)) /\ g[Len(q) + 1] = Extended(f[Len(q)], x)
  BY <1>1, UptoExtends
<1>5. QED
  BY <1>2, <1>3, <1>4, ImmediateOfUpto

LEMMA ImmediateOfTasks ==
    ASSUME NEW S, \A x \in S : x.task \in Task, NEW q \in Seq(S)
    PROVE  /\ ImmediateOf(q) \in Seq(Immediate)
           /\ {ImmediateOf(q)[i] : i \in DOMAIN ImmediateOf(q)} = TasksOf(q) \cap Immediate
<1> DEFINE Holds(p) ==
               /\ ImmediateOf(p) \in Seq(Immediate)
               /\ {ImmediateOf(p)[i] : i \in DOMAIN ImmediateOf(p)} = TasksOf(p) \cap Immediate
           G == {p \in Seq(S) : Holds(p)}
<1>1. Holds(<<>>)
  <2>1. <<>> \in Seq(Immediate) /\ DOMAIN <<>> = {}
    BY EmptySeq
  <2>2. QED
    BY <2>1, ImmediateOfEmpty, TasksOfEmpty
<1>2. ASSUME NEW p \in Seq(S), NEW x \in S, Holds(p) PROVE Holds(Append(p, x))
  <2>1. TasksOf(Append(p, x)) = TasksOf(p) \cup {x.task}
    BY TasksOfAppend
  <2>2. ImmediateOf(Append(p, x)) = Extended(ImmediateOf(p), x)
    BY ImmediateOfAppend
  <2>3. CASE x.task \notin Immediate
    BY <1>2, <2>1, <2>2, <2>3 DEF Extended
  <2>4. CASE x.task \in Immediate
    <3> DEFINE s == ImmediateOf(p)
               r == Append(s, x.task)
               n == Len(s)
    <3>1. /\ r \in Seq(Immediate)
          /\ n \in Nat /\ DOMAIN s = 1 .. n /\ DOMAIN r = 1 .. n + 1
          /\ \A i \in 1 .. n : r[i] = s[i]
          /\ r[n + 1] = x.task
      BY <1>2, <2>4, AppendProperties, LenProperties
    <3> HIDE DEF r, n
    <3>2. {r[i] : i \in DOMAIN r} = {s[i] : i \in DOMAIN s} \cup {x.task}
      <4>1. ASSUME NEW i \in DOMAIN r PROVE r[i] \in {s[j] : j \in DOMAIN s} \cup {x.task}
        BY <3>1
      <4>2. ASSUME NEW i \in DOMAIN s PROVE s[i] \in {r[j] : j \in DOMAIN r}
        BY <3>1
      <4>3. n + 1 \in DOMAIN r
        BY <3>1
      <4>4. QED
        BY <3>1, <4>1, <4>2, <4>3
    <3>3. ImmediateOf(Append(p, x)) = r
      BY <2>2, <2>4 DEF Extended, r
    <3>4. QED
      BY <1>2, <2>1, <2>4, <3>1, <3>2, <3>3
  <2>5. QED
    BY <2>3, <2>4
<1> HIDE DEF Holds
<1>3. Seq(S) \subseteq G
  <2>1. <<>> \in G
    BY <1>1, EmptySeq
  <2>2. \A p \in Seq(S), x \in S : p \in G => Append(p, x) \in G
    BY <1>2, AppendProperties
  <2> HIDE DEF G
  <2>3. QED
    BY <2>1, <2>2, GrowingSequences
<1>4. Holds(q)
  BY <1>3
<1>5. QED
  BY <1>4 DEF Holds

LEMMA ConcatAppend ==
    ASSUME NEW S, NEW a \in Seq(S), NEW b \in Seq(S), NEW x \in S
    PROVE  a \o b \in Seq(S) /\ a \o Append(b, x) = Append(a \o b, x)
<1>1. <<x>> \in Seq(S)
  OBVIOUS
<1>2. a \o b \in Seq(S)
  BY ConcatProperties
<1>3. Append(a \o b, x) = (a \o b) \o <<x>> /\ Append(b, x) = b \o <<x>>
  BY <1>2, AppendIsConcat
<1>4. QED
  BY <1>1, <1>2, <1>3, ConcatAssociative

LEMMA ImmediateOfConcat ==
    ASSUME NEW S, \A x \in S : x.task \in Task, NEW a \in Seq(S), NEW b \in Seq(S)
    PROVE  ImmediateOf(a \o b) = ImmediateOf(a) \o ImmediateOf(b)
<1> DEFINE Holds(p) == ImmediateOf(a \o p) = ImmediateOf(a) \o ImmediateOf(p)
           G == {p \in Seq(S) : Holds(p)}
<1>0. \A p \in Seq(S) : ImmediateOf(p) \in Seq(Immediate)
  BY ImmediateOfTasks
<1>1. Holds(<<>>)
  BY <1>0, ImmediateOfEmpty, ConcatEmptySeq
<1>2. ASSUME NEW p \in Seq(S), NEW x \in S, Holds(p) PROVE Holds(Append(p, x))
  <2>1. a \o p \in Seq(S) /\ a \o Append(p, x) = Append(a \o p, x)
    BY ConcatAppend
  <2>2. /\ ImmediateOf(a \o Append(p, x)) = Extended(ImmediateOf(a \o p), x)
        /\ ImmediateOf(Append(p, x)) = Extended(ImmediateOf(p), x)
    BY <2>1, ImmediateOfAppend
  <2> DEFINE s == ImmediateOf(a)
             t == ImmediateOf(p)
  <2>3. s \in Seq(Immediate) /\ t \in Seq(Immediate) /\ s \o t \in Seq(Immediate)
    BY <1>0, ConcatProperties
  <2> HIDE DEF s, t
  <2>4. Extended(s \o t, x) = s \o Extended(t, x)
    <3>1. CASE x.task \in Immediate
      <4>1. <<x.task>> \in Seq(Immediate)
        BY <3>1
      <4>2. Append(s \o t, x.task) = (s \o t) \o <<x.task>> /\ Append(t, x.task) = t \o <<x.task>>
        BY <2>3, <3>1, AppendIsConcat
      <4>3. QED
        BY <2>3, <3>1, <4>1, <4>2, ConcatAssociative DEF Extended
    <3>2. QED
      BY <3>1 DEF Extended
  <2>5. QED
    BY <1>2, <2>2, <2>4 DEF s, t
<1> HIDE DEF Holds
<1>3. Seq(S) \subseteq G
  <2>1. <<>> \in G
    BY <1>1, EmptySeq
  <2>2. \A p \in Seq(S), x \in S : p \in G => Append(p, x) \in G
    BY <1>2, AppendProperties
  <2> HIDE DEF G
  <2>3. QED
    BY <2>1, <2>2, GrowingSequences
<1>4. Holds(b)
  BY <1>3
<1>5. QED
  BY <1>4 DEF Holds

\* The head of a queue that is taken.
LEMMA ImmediateOfHead ==
    ASSUME NEW S, \A x \in S : x.task \in Task, NEW q \in Seq(S), q # <<>>
    PROVE  ImmediateOf(q) = IF Head(q).task \in Immediate
                            THEN <<Head(q).task>> \o ImmediateOf(Tail(q))
                            ELSE ImmediateOf(Tail(q))
<1>1. Head(q) \in S /\ Tail(q) \in Seq(S) /\ <<Head(q)>> \in Seq(S)
  BY HeadTailProperties
<1>2. q = <<Head(q)>> \o Tail(q)
  <2> DEFINE h == Head(q)
             t == Tail(q)
             n == Len(q)
  <2>1. /\ Len(t) = n - 1 /\ n \in Nat \ {0} /\ h = q[1]
        /\ \A i \in 1 .. Len(t) : t[i] = q[i + 1]
    BY HeadTailProperties, EmptySeq
  <2>2. /\ <<h>> \o t \in Seq(S)
        /\ Len(<<h>> \o t) = 1 + Len(t)
        /\ \A i \in 1 .. 1 + Len(t) : (<<h>> \o t)[i] = IF i <= 1 THEN <<h>>[i] ELSE t[i - 1]
    BY <1>1, ConcatProperties
  <2> HIDE DEF h, t, n
  <2>3. Len(<<h>> \o t) = n
    BY <2>1, <2>2
  <2>4. ASSUME NEW i \in 1 .. n PROVE (<<h>> \o t)[i] = q[i]
    <3>1. CASE i = 1
      BY <2>1, <2>2, <3>1
    <3>2. CASE i # 1
      <4>1. i - 1 \in 1 .. Len(t) /\ i \in 1 .. 1 + Len(t) /\ ~(i <= 1) /\ (i - 1) + 1 = i
        BY <2>1, <3>2
      <4>2. QED
        BY <2>1, <2>2, <4>1
    <3>3. QED
      BY <3>1, <3>2
  <2>5. QED
    BY <2>2, <2>3, <2>4, SeqEqual DEF h, t, n
<1>3. ImmediateOf(q) = ImmediateOf(<<Head(q)>>) \o ImmediateOf(Tail(q))
  BY <1>1, <1>2, ImmediateOfConcat
<1>4. ImmediateOf(<<Head(q)>>) = Extended(<<>>, Head(q))
  <2>1. <<>> \in Seq(S) /\ <<Head(q)>> = Append(<<>>, Head(q))
    BY EmptySeq
  <2>2. QED
    BY <1>1, <2>1, ImmediateOfAppend, ImmediateOfEmpty
<1>5. ImmediateOf(Tail(q)) \in Seq(Immediate)
  BY <1>1, ImmediateOfTasks
<1>6. <<>> \o ImmediateOf(Tail(q)) = ImmediateOf(Tail(q))
  BY <1>5, ConcatEmptySeq
<1>7. Append(<<>>, Head(q).task) = <<Head(q).task>>
  OBVIOUS
<1>8. QED
  BY <1>3, <1>4, <1>6, <1>7 DEF Extended
-----------------------------------------------------------------------------
(* What the order of the immediate tasks rests on. *)

\* The time of a task in the first two queues tells whether it has a delay.
Prompt == {x \in Pending : x.time = Null <=> Delay[x.task] = 0}
Deferrable == {x \in Pending : x.task \in NonNestable}

\* No immediate nestable task gets into delayed_work_queue_ or
\* deferredNonNestableWorkQueue_.
Sorted ==
    /\ incomingQueue \in Seq(Prompt) /\ work_queue \in Seq(Prompt)
    /\ deferredQueue \in Seq(Deferrable)
    /\ \A d \in delayedWorkQueue : Delay[d.task] # 0

\* The callbacks under the one that runs are inside MessageLoop::run.
NestersBelow ==
    \A i \in DOMAIN frames : i < Len(frames) \/ pc # "task" => frames[i].task \in Nester

\* The destructor goes on when work_queue_ is empty, and nobody fills it again.
WorkIsGone == pc \in {"willDestroy", "members", "destroyed"} => work_queue = <<>>

OrderInv == Sorted /\ NestersBelow /\ WorkIsGone

LEMMA InitOrderInv == Init => OrderInv
<1> SUFFICES ASSUME Init PROVE OrderInv
  OBVIOUS
<1>1. \A S : <<>> \in Seq(S)
  BY EmptySeq
<1>2. QED
  BY <1>1 DEF Init, OrderInv, Sorted, NestersBelow, WorkIsGone

LEMMA SortedPosts ==
    ASSUME TypeOK, Sorted, NEW p \in Thread, NEW t \in Task, PostToLoop(p, t) PROVE Sorted'
<1> DEFINE x == [task |-> t, time |-> calculateDelayedRuntime(t)]
<1>1. x \in Prompt
  <2>1. calculateDelayedRuntime(t) \in Time
    BY TaskAssumption, TimeAssumption
    DEF PostToLoop, calculateDelayedRuntime, Time, Null, TypeOK
  <2>2. calculateDelayedRuntime(t) = Null <=> Delay[t] = 0
    BY TaskAssumption DEF calculateDelayedRuntime, Time, Null, TypeOK
  <2>3. QED
    BY <2>1, <2>2 DEF Prompt, Pending
<1>2. incomingQueue' \in Seq(Prompt)
  BY <1>1, QueueChanges DEF Sorted, PostToLoop
<1>3. QED
  BY <1>2 DEF Sorted, PostToLoop

LEMMA SortedWork == ASSUME TypeOK, Sorted, DoWork PROVE Sorted'
<1>1. /\ <<>> \in Seq(Prompt)
      /\ work_queue # <<>> => Head(work_queue) \in Prompt /\ Tail(work_queue) \in Seq(Prompt)
  BY QueueChanges DEF Sorted
<1>2. CASE DoWorkNotAllowed \/ DoWorkNothing
  BY <1>2 DEF DoWorkNotAllowed, DoWorkNothing, Sorted, queues
<1>3. CASE DoWorkReload
  BY <1>1, <1>3 DEF DoWorkReload, reloadWorkQueue, Sorted
<1>4. CASE DoWorkDelay
  <2>1. Delay[Head(work_queue).task] # 0
    BY <1>1, <1>4 DEF DoWorkDelay, PopWork, Prompt
  <2>2. QED
    BY <1>1, <1>4, <2>1 DEF DoWorkDelay, PopWork, addToDelayedWorkQueue, Sorted
<1>5. CASE DoWorkDefer
  <2>1. Head(work_queue) \in Deferrable
    BY <1>1, <1>5 DEF DoWorkDefer, PopWork, Prompt, Deferrable
  <2>2. deferredQueue' \in Seq(Deferrable)
    BY <1>5, <2>1, QueueChanges DEF DoWorkDefer, Sorted
  <2>3. QED
    BY <1>1, <1>5, <2>2 DEF DoWorkDefer, PopWork, Sorted
<1>6. CASE DoWorkRun
  BY <1>1, <1>6 DEF DoWorkRun, PopWork, Sorted
<1>7. QED
  BY <1>2, <1>3, <1>4, <1>5, <1>6 DEF DoWork

LEMMA SortedDelayed == ASSUME TypeOK, Sorted, DoDelayedWork PROVE Sorted'
<1>1. CASE DoDelayedNothing \/ DoDelayedNotYet
  BY <1>1 DEF DoDelayedNothing, DoDelayedNotYet, Sorted, queues
<1>2. ASSUME NEW top \in delayedWorkQueue, DoDelayedRun(top) PROVE Sorted'
  BY <1>2 DEF DoDelayedRun, PopDelayed, Sorted
<1>3. ASSUME NEW top \in delayedWorkQueue, DoDelayedDefer(top) PROVE Sorted'
  <2>1. [task |-> top.task, time |-> top.time] \in Deferrable
    BY <1>3 DEF DoDelayedDefer, TypeOK, Deferrable, Pending
  <2>2. deferredQueue' \in Seq(Deferrable)
    BY <1>3, <2>1, QueueChanges DEF DoDelayedDefer, Sorted
  <2>3. QED
    BY <1>3, <2>2 DEF DoDelayedDefer, PopDelayed, Sorted
<1>4. QED
  BY <1>1, <1>2, <1>3 DEF DoDelayedWork

LEMMA SortedStep == ASSUME TypeOK, Sorted, [Next]_vars PROVE Sorted'
<1>1. CASE (Pump /\ ~DoIdleRun) \/ SpuriousWake
  BY <1>1
  DEF Pump, DoIdleNothing, Sleep, SleepUntil, SleepNot, TimedOut, TimedWoken, ConsumeWork,
      SpuriousWake, queues, Sorted
<1>2. CASE DoIdleRun
  <2>1. Tail(deferredQueue) \in Seq(Deferrable)
    BY <1>2, QueueChanges DEF DoIdleRun, Sorted
  <2>2. QED
    BY <1>2, <2>1 DEF DoIdleRun, Sorted
<1>3. CASE NestedRun \/ LeaveRun \/ ReturnTask
  BY <1>3 DEF NestedRun, LeaveRun, ReturnTask, queues, Sorted
<1>4. CASE Destructor
  <2>1. \A S : <<>> \in Seq(S)
    BY EmptySeq
  <2>2. QED
    BY <1>4, <2>1
    DEF Destructor, DeletePendingTasks, DeleteAgain, WillDestroy, DestroyMembers, queues, Sorted
<1>5. ASSUME NEW p \in Thread, scheduleWork(p) \/ Notify(p) \/ \E t \in Task : PostToNobody(p, t)
      PROVE  Sorted'
  BY <1>5 DEF scheduleWork, Notify, PostToNobody, queues, Sorted
<1>6. CASE Tick \/ Destroyed \/ UNCHANGED vars
  BY <1>6 DEF Tick, Destroyed, vars, queues, Sorted
<1>7. QED
  BY <1>1, <1>2, <1>3, <1>4, <1>5, <1>6, SortedPosts, SortedWork, SortedDelayed
  DEF Next, LoopStep

LEMMA BelowRunTask ==
    ASSUME TypeOK, NestersBelow, pc # "task",
           NEW item, item.task \in Task, item.time \in Time,
           NEW from \in {"doWork", "doDelayedWork", "doIdleWork"}, runTask(item, from)
    PROVE  NestersBelow' /\ WorkIsGone'
<1>1. frames \in Seq(Frame)
  BY DEF TypeOK, Frame
<1>2. PICK f \in Frame : frames' = Append(frames, f)
  BY DEF runTask, Frame
<1>3. /\ Len(frames) \in Nat /\ DOMAIN frames = 1 .. Len(frames)
      /\ Len(frames') = Len(frames) + 1 /\ DOMAIN frames' = 1 .. Len(frames) + 1
      /\ \A i \in 1 .. Len(frames) : frames'[i] = frames[i]
  BY <1>1, <1>2, AppendProperties, LenProperties
<1>4. QED
  BY <1>3 DEF NestersBelow, WorkIsGone, runTask

LEMMA BelowReturn == ASSUME TypeOK, NestersBelow, ReturnTask PROVE NestersBelow' /\ WorkIsGone'
<1>1. frames \in Seq(Frame) /\ frames # <<>>
  BY DEF ReturnTask, TypeOK, Frame
<1>2. Len(frames) \in Nat \ {0} /\ DOMAIN frames = 1 .. Len(frames)
  BY <1>1, EmptySeq, LenProperties
<1>3. \A i \in 1 .. Len(frames) : frames[i] \in Frame
  BY <1>1, ElementOfSeq
<1>4. /\ frames' \in Seq(Frame)
      /\ Len(frames') = IF 1 <= Len(frames) - 1 THEN (Len(frames) - 1) - 1 + 1 ELSE 0
      /\ \A i \in 1 .. (Len(frames) - 1) - 1 + 1 : frames'[i] = frames[1 + i - 1]
  BY <1>2, <1>3, SubSeqProperties DEF ReturnTask
<1>5. /\ DOMAIN frames' = 1 .. Len(frames) - 1
      /\ \A i \in 1 .. Len(frames) - 1 : frames'[i] = frames[i]
  <2> DEFINE n == Len(frames)
             r == frames'
  <2>1. DOMAIN r = 1 .. Len(r)
    BY <1>4, LenProperties
  <2>2. /\ n \in Nat \ {0}
        /\ Len(r) = IF 1 <= n - 1 THEN (n - 1) - 1 + 1 ELSE 0
        /\ \A i \in 1 .. (n - 1) - 1 + 1 : r[i] = frames[1 + i - 1]
    BY <1>2, <1>4
  <2> HIDE DEF n, r
  <2>3. DOMAIN r = 1 .. n - 1 /\ \A i \in 1 .. n - 1 : r[i] = frames[i]
    BY <2>1, <2>2
  <2>4. QED
    BY <2>3 DEF n, r
<1>6. NestersBelow'
  BY <1>2, <1>5 DEF NestersBelow
<1>7. pc' \in {"leave", "delayed", "work"}
  BY DEF ReturnTask, AfterCall
<1>8. QED
  BY <1>6, <1>7 DEF WorkIsGone

LEMMA BelowStep ==
    ASSUME TypeOK, NestersBelow, WorkIsGone, [Next]_vars PROVE NestersBelow' /\ WorkIsGone'
<1>1. /\ work_queue # <<>> => Head(work_queue).task \in Task /\ Head(work_queue).time \in Time
      /\ deferredQueue # <<>> => Head(deferredQueue).task \in Task /\ Head(deferredQueue).time \in Time
  <2>1. /\ work_queue # <<>> => Head(work_queue) \in Pending
        /\ deferredQueue # <<>> => Head(deferredQueue) \in Pending
    BY QueueChanges DEF TypeOK
  <2>2. QED
    BY <2>1 DEF Pending
<1>2. CASE DoWork
  <2>1. CASE DoWorkRun
    BY <1>1, <2>1, BelowRunTask DEF DoWorkRun, PopWork
  <2>2. CASE DoWorkNotAllowed \/ DoWorkReload \/ DoWorkDelay \/ DoWorkDefer \/ DoWorkNothing
    BY <2>2
    DEF DoWorkNotAllowed, DoWorkReload, DoWorkDelay, DoWorkDefer, DoWorkNothing, PopWork,
        control, NestersBelow, WorkIsGone
  <2>3. QED
    BY <1>2, <2>1, <2>2 DEF DoWork
<1>3. CASE DoDelayedWork
  <2>1. ASSUME NEW top \in delayedWorkQueue, DoDelayedRun(top)
        PROVE  NestersBelow' /\ WorkIsGone'
    <3>1. top.task \in Task /\ top.time \in Time
      BY DEF TypeOK
    <3>2. QED
      BY <2>1, <3>1, BelowRunTask DEF DoDelayedRun, PopDelayed, HasDelayed
  <2>2. ASSUME NEW top \in delayedWorkQueue, DoDelayedDefer(top)
        PROVE  NestersBelow' /\ WorkIsGone'
    BY <2>2 DEF DoDelayedDefer, PopDelayed, HasDelayed, NestersBelow, WorkIsGone
  <2>3. CASE DoDelayedNothing \/ DoDelayedNotYet
    BY <2>3
    DEF DoDelayedNothing, DoDelayedNotYet, HasDelayed, NoDelayedRun, Goto, NestersBelow, WorkIsGone
  <2>4. QED
    BY <1>3, <2>1, <2>2, <2>3 DEF DoDelayedWork
<1>4. CASE DoIdleRun
  BY <1>1, <1>4, BelowRunTask DEF DoIdleRun
<1>5. CASE (Pump /\ ~DoIdleRun) \/ SpuriousWake
  BY <1>5
  DEF Pump, DoIdleNothing, Sleep, SleepUntil, SleepNot, TimedOut, TimedWoken, ConsumeWork,
      SpuriousWake, Awake, Goto, NestersBelow, WorkIsGone
<1>6. CASE NestedRun
  <2>1. DOMAIN frames = 1 .. Len(frames) /\ Len(frames) \in Nat
    BY LenProperties DEF TypeOK
  <2>2. QED
    BY <1>6, <2>1 DEF NestedRun, Current, Goto, NestersBelow, WorkIsGone
<1>7. CASE LeaveRun
  BY <1>7 DEF LeaveRun, Goto, NestersBelow, WorkIsGone
<1>8. CASE Destructor
  BY <1>8
  DEF Destructor, DeletePendingTasks, DeleteAgain, WillDestroy, DestroyMembers, queues, Goto,
      NestersBelow, WorkIsGone
<1>9. ASSUME NEW p \in Thread,
             \/ scheduleWork(p) \/ Notify(p)
             \/ \E t \in Task : PostToLoop(p, t) \/ PostToNobody(p, t)
      PROVE  NestersBelow' /\ WorkIsGone'
  BY <1>9
  DEF scheduleWork, Notify, Awake, PostToLoop, PostToNobody, queues, control,
      NestersBelow, WorkIsGone
<1>10. CASE Tick \/ Destroyed \/ UNCHANGED vars
  BY <1>10 DEF Tick, Destroyed, vars, queues, control, NestersBelow, WorkIsGone
<1>11. QED
  BY <1>2, <1>3, <1>4, <1>5, <1>6, <1>7, <1>8, <1>9, <1>10, BelowReturn DEF Next, LoopStep
-----------------------------------------------------------------------------
(* MessageLoop as an executor of its immediate tasks: one lemma per way in  *)
(* which the abstract executor moves.                                       *)

InOrder == ImmediateOf(work_queue \o incomingQueue)

ExecutorStep == Executor!Serve \/ \E n \in DOMAIN InOrder : Executor!GiveUp(n)

Elements(s) == {s[i] : i \in DOMAIN s}

\* The two parts of a sequence.
LEMMA ConcatParts ==
    ASSUME NEW S, NEW a \in Seq(S), NEW b \in Seq(S)
    PROVE  /\ a \o b \in Seq(S)
           /\ Elements(a \o b) = Elements(a) \cup Elements(b)
           /\ a # <<>> => Len(a) \in DOMAIN (a \o b)
           /\ {(a \o b)[i] : i \in 1 .. Len(a)} = Elements(a)
           /\ SubSeq(a \o b, Len(a) + 1, Len(a \o b)) = b
<1> DEFINE c == a \o b
           m == Len(a)
           n == Len(b)
<1>1. /\ m \in Nat /\ n \in Nat /\ DOMAIN a = 1 .. m /\ DOMAIN b = 1 .. n
      /\ c \in Seq(S) /\ Len(c) = m + n /\ DOMAIN c = 1 .. m + n
      /\ \A i \in 1 .. m + n : c[i] = IF i <= m THEN a[i] ELSE b[i - m]
      /\ a # <<>> => m # 0
  BY ConcatProperties, LenProperties, EmptySeq
<1>2. SubSeq(c, m + 1, m + n) = b
  <2>1. \A i \in m + 1 .. m + n : c[i] \in S
    BY <1>1, ElementOfSeq
  <2>2. /\ SubSeq(c, m + 1, m + n) \in Seq(S)
        /\ Len(SubSeq(c, m + 1, m + n)) =
              IF m + 1 <= m + n THEN (m + n) - (m + 1) + 1 ELSE 0
        /\ \A i \in 1 .. (m + n) - (m + 1) + 1 :
              SubSeq(c, m + 1, m + n)[i] = c[(m + 1) + i - 1]
    <3>1. m + 1 \in Int /\ m + n \in Int
      BY <1>1
    <3> HIDE DEF c, m, n
    <3>2. QED
      BY <2>1, <3>1, SubSeqProperties
  <2> DEFINE d == SubSeq(c, m + 1, m + n)
  <2> HIDE DEF c, m, n, d
  <2>3. Len(d) = n
    BY <1>1, <2>2 DEF d
  <2>4. ASSUME NEW i \in 1 .. n PROVE d[i] = b[i]
    <3>1. /\ i \in 1 .. (m + n) - (m + 1) + 1 /\ (m + 1) + i - 1 = m + i
          /\ m + i \in 1 .. m + n /\ ~(m + i <= m) /\ (m + i) - m = i
      BY <1>1
    <3>2. QED
      BY <1>1, <2>2, <3>1 DEF d
  <2>5. d \in Seq(S)
    BY <2>2 DEF d
  <2>6. d = b
    BY <2>3, <2>4, <2>5, SeqEqual DEF n
  <2>7. QED
    BY <2>6 DEF d
<1> HIDE DEF c, m, n
<1>3. \A i \in 1 .. m : i \in 1 .. m + n /\ c[i] = a[i]
  BY <1>1
<1>4. \A i \in 1 .. n : m + i \in 1 .. m + n /\ c[m + i] = b[i]
  BY <1>1
<1>5. Elements(c) = Elements(a) \cup Elements(b)
  <2>1. ASSUME NEW i \in 1 .. m + n PROVE c[i] \in Elements(a) \cup Elements(b)
    <3>1. CASE i <= m
      <4>1. i \in DOMAIN a /\ c[i] = a[i]
        BY <1>1, <2>1, <3>1
      <4>2. QED
        BY <4>1 DEF Elements
    <3>2. CASE ~(i <= m)
      <4>1. i - m \in DOMAIN b /\ c[i] = b[i - m]
        BY <1>1, <2>1, <3>2
      <4>2. QED
        BY <4>1 DEF Elements
    <3>3. QED
      BY <3>1, <3>2
  <2>2. \A i \in 1 .. m : a[i] \in Elements(c)
    BY <1>1, <1>3 DEF Elements
  <2>3. \A i \in 1 .. n : b[i] \in Elements(c)
    BY <1>1, <1>4 DEF Elements
  <2>4. QED
    BY <1>1, <2>1, <2>2, <2>3 DEF Elements
<1>6. {c[i] : i \in 1 .. m} = Elements(a)
  BY <1>1, <1>3 DEF Elements
<1>7. a # <<>> => m \in DOMAIN c
  BY <1>1
<1>8. QED
  BY <1>1, <1>2, <1>5, <1>6, <1>7 DEF c, m, n

LEMMA QueueInOrder ==
    ASSUME NEW w \in Seq(Pending), NEW i \in Seq(Pending)
    PROVE  /\ ImmediateOf(w \o i) = ImmediateOf(w) \o ImmediateOf(i)
           /\ ImmediateOf(w) \in Seq(Immediate) /\ ImmediateOf(i) \in Seq(Immediate)
           /\ ImmediateOf(w \o i) \in Seq(Immediate)
           /\ Elements(ImmediateOf(w)) = TasksOf(w) \cap Immediate
           /\ Elements(ImmediateOf(i)) = TasksOf(i) \cap Immediate
           /\ Elements(ImmediateOf(w \o i)) = (TasksOf(w) \cup TasksOf(i)) \cap Immediate
<1>1. \A x \in Pending : x.task \in Task
  BY DEF Pending
<1>2. /\ ImmediateOf(w) \in Seq(Immediate) /\ ImmediateOf(i) \in Seq(Immediate)
      /\ Elements(ImmediateOf(w)) = TasksOf(w) \cap Immediate
      /\ Elements(ImmediateOf(i)) = TasksOf(i) \cap Immediate
  BY <1>1, ImmediateOfTasks DEF Elements
<1>3. ImmediateOf(w \o i) = ImmediateOf(w) \o ImmediateOf(i)
  BY <1>1, ImmediateOfConcat
<1>4. QED
  BY <1>2, <1>3, ConcatParts

\* A task that was not posted is not known to the executor.
LEMMA NotPosted ==
    ASSUME IInv, NEW t \in Immediate \ posted PROVE t \in Executor!Unseen
<1>1. Executor!Waiting = (TasksOf(work_queue) \cup TasksOf(incomingQueue)) \cap Immediate
  BY QueueInOrder DEF Executor!Waiting, Elements, IInv, TypeOK
<1>2. QED
  BY <1>1 DEF Executor!Unseen, IInv, OnePlace, InQueues

LEMMA PostSubmits ==
    ASSUME IInv, NEW p \in Thread, NEW t \in Task, PostToLoop(p, t)
    PROVE  ExecutorStep \/ UNCHANGED Executor!vars
<1> DEFINE x == [task |-> t, time |-> calculateDelayedRuntime(t)]
<1>1. x \in Pending /\ x.task = t
  BY TaskAssumption, TimeAssumption
  DEF PostToLoop, calculateDelayedRuntime, Time, Null, IInv, TypeOK, Pending
<1>2. incomingQueue' = Append(incomingQueue, x)
  BY DEF PostToLoop
<1>3. work_queue \o incomingQueue \in Seq(Pending)
  BY ConcatProperties DEF IInv, TypeOK
<1>4. work_queue' \o incomingQueue' = Append(work_queue \o incomingQueue, x)
  BY <1>1, <1>2, ConcatAppend DEF PostToLoop, IInv, TypeOK
<1> HIDE DEF x
<1>5. InOrder' = IF t \in Immediate THEN Append(InOrder, t) ELSE InOrder
  BY <1>1, <1>3, <1>4, ImmediateOfAppend DEF Extended, InOrder
<1>6. UNCHANGED <<InFrames, done, dropped, attached>> /\ attached
  BY DEF PostToLoop, loopVars, InFrames
<1>7. CASE t \in Immediate
  <2>1. t \in Executor!Unseen
    BY <1>7, NotPosted DEF PostToLoop
  <2>2. Executor!Submit(t)
    BY <1>5, <1>6, <1>7, <2>1 DEF Executor!Submit, InOrder
  <2>3. QED
    BY <1>7, <2>2 DEF ExecutorStep, Executor!Serve
<1>8. CASE t \notin Immediate
  BY <1>5, <1>6, <1>8 DEF Executor!vars, InOrder
<1>9. QED
  BY <1>7, <1>8

LEMMA PostIsRefused ==
    ASSUME IInv, NEW p \in Thread, NEW t \in Task, PostToNobody(p, t)
    PROVE  ExecutorStep \/ UNCHANGED Executor!vars
<1>1. /\ UNCHANGED <<InOrder, InFrames, done, attached>> /\ ~attached
      /\ dropped' = dropped \cup {t}
  BY DEF PostToNobody, queues, loopVars, control, InOrder, InFrames
<1>2. CASE t \in Immediate
  <2>1. t \in Executor!Unseen
    BY <1>2, NotPosted DEF PostToNobody
  <2>2. Executor!Refuse(t)
    BY <1>1, <1>2, <2>1 DEF Executor!Refuse, InOrder
  <2>3. QED
    BY <1>2, <2>2 DEF ExecutorStep, Executor!Serve
<1>3. CASE t \notin Immediate
  BY <1>1, <1>3 DEF Executor!vars, InOrder
<1>4. QED
  BY <1>2, <1>3

\* work_queue_ loses its head; it was immediate or not.
LEMMA HeadInOrder ==
    ASSUME IInv, PopWork
    PROVE  IF Head(work_queue).task \in Immediate
           THEN InOrder # <<>> /\ Head(work_queue).task = Head(InOrder) /\ InOrder' = Tail(InOrder)
           ELSE InOrder' = InOrder
<1> DEFINE h == Head(work_queue).task
           t == ImmediateOf(Tail(work_queue)) \o ImmediateOf(incomingQueue)
<1>1. /\ Tail(work_queue) \in Seq(Pending) /\ Head(work_queue) \in Pending
      /\ work_queue \in Seq(Pending) /\ incomingQueue \in Seq(Pending)
  BY QueueChanges DEF PopWork, IInv, TypeOK
<1>2. InOrder' = t
  BY <1>1, QueueInOrder DEF PopWork, InOrder
<1>3. InOrder = ImmediateOf(work_queue) \o ImmediateOf(incomingQueue)
  BY <1>1, QueueInOrder DEF InOrder
<1>4. \A x \in Pending : x.task \in Task
  BY DEF Pending
<1>5. ImmediateOf(work_queue) = IF h \in Immediate THEN <<h>> \o ImmediateOf(Tail(work_queue))
                                                   ELSE ImmediateOf(Tail(work_queue))
  BY <1>1, <1>4, ImmediateOfHead DEF PopWork
<1>6. CASE h \in Immediate
  <2>1. /\ ImmediateOf(Tail(work_queue)) \in Seq(Immediate)
        /\ ImmediateOf(incomingQueue) \in Seq(Immediate)
        /\ <<h>> \in Seq(Immediate)
    <3>1. /\ ImmediateOf(Tail(work_queue)) \in Seq(Immediate)
          /\ ImmediateOf(incomingQueue) \in Seq(Immediate)
      BY <1>1, QueueInOrder
    <3>2. <<h>> \in Seq(Immediate)
      BY <1>6
    <3>3. QED
      BY <3>1, <3>2
  <2>2. InOrder = <<h>> \o t
    BY <1>3, <1>5, <1>6, <2>1, ConcatAssociative
  <2>3. t \in Seq(Immediate)
    BY <2>1, ConcatProperties
  <2>4. /\ <<h>> \o t \in Seq(Immediate) /\ Len(<<h>> \o t) = 1 + Len(t) /\ Len(t) \in Nat
        /\ \A i \in 1 .. 1 + Len(t) : (<<h>> \o t)[i] = IF i <= 1 THEN <<h>>[i] ELSE t[i - 1]
    BY <2>1, <2>3, ConcatProperties, LenProperties
  <2>5. SubSeq(<<h>> \o t, 2, Len(<<h>> \o t)) = t
    <3> DEFINE a == <<h>>
    <3>1. SubSeq(a \o t, Len(a) + 1, Len(a \o t)) = t
      <4>1. a \in Seq(Immediate) /\ t \in Seq(Immediate)
        BY <2>1, <2>3
      <4> HIDE DEF a, t
      <4>2. QED
        BY <4>1, ConcatParts
    <3>2. Len(a) + 1 = 2
      OBVIOUS
    <3>3. QED
      BY <3>1, <3>2
  <2> HIDE DEF t
  <2>6. <<h>> \o t # <<>>
    BY <2>4
  <2>7. Head(<<h>> \o t) = h
    BY <2>4, <2>6
  <2>8. Tail(<<h>> \o t) = t
    BY <2>4, <2>5, <2>6, TailIsSubSeq
  <2>9. QED
    BY <1>2, <1>6, <2>2, <2>6, <2>7, <2>8
<1>7. CASE h \notin Immediate
  BY <1>2, <1>3, <1>5, <1>7
<1>8. QED
  BY <1>6, <1>7

LEMMA WorkStarts ==
    ASSUME IInv, OrderInv, DoWork PROVE ExecutorStep \/ UNCHANGED Executor!vars
<1>1. CASE DoWorkNotAllowed \/ DoWorkNothing
  BY <1>1 DEF DoWorkNotAllowed, DoWorkNothing, queues, loopVars, history, Executor!vars, InFrames
<1>2. CASE DoWorkReload
  <2>1. work_queue' \o incomingQueue' = work_queue \o incomingQueue
    BY <1>2, ConcatEmptySeq DEF DoWorkReload, reloadWorkQueue, IInv, TypeOK
  <2>2. QED
    BY <1>2, <2>1 DEF DoWorkReload, loopVars, control, history, Executor!vars, InFrames
<1>3. ASSUME PopWork
      PROVE  /\ Head(work_queue) \in Prompt /\ Head(work_queue).task \in Task
             /\ Head(work_queue).time \in Time
             /\ Head(work_queue).task \notin InFrames
  <2>1. Head(work_queue) \in Prompt
    BY <1>3, QueueChanges DEF PopWork, OrderInv, Sorted
  <2>2. Head(work_queue).task \in TasksOf(work_queue)
    BY <1>3, TasksOfTail DEF PopWork, IInv, TypeOK
  <2>3. QED
    BY <2>1, <2>2 DEF Prompt, Pending, IInv, OnePlace, Apart
<1>4. CASE DoWorkDelay \/ DoWorkDefer
  <2>1. PopWork /\ Head(work_queue).task \notin Immediate
    BY <1>3, <1>4 DEF DoWorkDelay, DoWorkDefer, Prompt, Immediate
  <2>2. InOrder' = InOrder
    BY <2>1, HeadInOrder
  <2>3. UNCHANGED <<frames, done, dropped, attached>>
    BY <1>4 DEF DoWorkDelay, DoWorkDefer, loopVars, control, history
  <2>4. QED
    BY <2>2, <2>3 DEF Executor!vars, InOrder, InFrames
<1>5. CASE DoWorkRun
  <2> DEFINE h == Head(work_queue).task
  <2>1. PopWork /\ h \in Immediate
    BY <1>3, <1>5 DEF DoWorkRun, Prompt, Immediate
  <2>2. InOrder # <<>> /\ h = Head(InOrder) /\ InOrder' = Tail(InOrder)
    BY <2>1, HeadInOrder
  <2>3. InFrames' = InFrames \cup {h}
    BY <1>3, <1>5, RunTaskFrames DEF DoWorkRun, IInv, InFrames
  <2>4. Cardinality(InFrames \cap Immediate) < 1 + Cardinality(Nester)
    <3>1. InFrames \cap Immediate \subseteq Nester
      BY <2>1 DEF PopWork, OrderInv, NestersBelow, InFrames, TasksOf
    <3>2. IsFiniteSet(Nester)
      BY TaskAssumption
    <3>3. /\ Cardinality(InFrames \cap Immediate) <= Cardinality(Nester)
          /\ Cardinality(InFrames \cap Immediate) \in Nat /\ Cardinality(Nester) \in Nat
      BY <3>1, <3>2, FS_Subset, FS_CardinalityType
    <3>4. QED
      BY <3>3
  <2>5. Executor!Cardinality(InFrames \cap Immediate) < 1 + Cardinality(Nester)
    BY <2>4 DEF Cardinality, Executor!Cardinality
  <2>6. UNCHANGED <<done, dropped, attached>>
    BY <1>5 DEF DoWorkRun, history
  <2>7. Executor!Start
    BY <2>1, <2>2, <2>3, <2>5, <2>6 DEF Executor!Start, InOrder
  <2>8. QED
    BY <2>7 DEF ExecutorStep, Executor!Serve
<1>6. QED
  BY <1>1, <1>2, <1>4, <1>5 DEF DoWork

\* Delayed and deferred callbacks are none of the executor's.
LEMMA OthersRun ==
    ASSUME IInv, OrderInv, DoDelayedWork \/ DoIdleRun PROVE UNCHANGED Executor!vars
<1>1. ASSUME NEW item, item.task \in Task \ Immediate, item.time \in Time,
             item.task \notin InFrames,
             NEW from \in {"doWork", "doDelayedWork", "doIdleWork"}, runTask(item, from)
      PROVE  InFrames' \cap Immediate = InFrames \cap Immediate
  BY <1>1, RunTaskFrames DEF IInv, InFrames
<1>2. ASSUME NEW top \in delayedWorkQueue, DoDelayedRun(top) PROVE UNCHANGED Executor!vars
  <2>1. top.task \in Task \ Immediate /\ top.time \in Time /\ top.task \notin InFrames
    BY DEF IInv, TypeOK, OnePlace, Apart, DelayedTasks, OrderInv, Sorted, Immediate
  <2>2. InFrames' \cap Immediate = InFrames \cap Immediate
    BY <1>1, <1>2, <2>1 DEF DoDelayedRun
  <2>3. QED
    BY <1>2, <2>2 DEF DoDelayedRun, PopDelayed, history, Executor!vars
<1>3. ASSUME NEW top \in delayedWorkQueue, DoDelayedDefer(top) PROVE UNCHANGED Executor!vars
  BY <1>3 DEF DoDelayedDefer, PopDelayed, history, Executor!vars, InFrames
<1>4. CASE DoDelayedNothing \/ DoDelayedNotYet
  BY <1>4 DEF DoDelayedNothing, DoDelayedNotYet, NoDelayedRun, Goto, queues, history,
              Executor!vars, InFrames
<1>5. CASE DoIdleRun
  <2> DEFINE h == Head(deferredQueue)
  <2>1. h \in Deferrable /\ h.task \in TasksOf(deferredQueue)
    BY <1>5, QueueChanges, TasksOfTail DEF DoIdleRun, OrderInv, Sorted
  <2>2. h.task \in Task \ Immediate /\ h.time \in Time /\ h.task \notin InFrames
    BY <2>1 DEF Deferrable, Pending, Immediate, IInv, OnePlace, Apart
  <2>3. InFrames' \cap Immediate = InFrames \cap Immediate
    BY <1>1, <1>5, <2>2 DEF DoIdleRun
  <2>4. QED
    BY <1>5, <2>3 DEF DoIdleRun, history, Executor!vars
<1>6. QED
  BY <1>2, <1>3, <1>4, <1>5 DEF DoDelayedWork

LEMMA ReturnFinishes ==
    ASSUME IInv, ReturnTask PROVE ExecutorStep \/ UNCHANGED Executor!vars
<1>1. frames \in Seq(Frame) /\ frames # <<>> /\ Current \in Frame
  BY QueueChanges DEF ReturnTask, IInv, TypeOK, Frame, Current
<1>2. /\ InFrames = {Current.task} \cup InFrames'
      /\ Current.task \notin InFrames'
  BY <1>1, TasksOfFront DEF ReturnTask, Current, InFrames, IInv, OnePlace
<1>3. /\ done' = done \cup {Current.task}
      /\ UNCHANGED <<InOrder, dropped, attached>>
  BY DEF ReturnTask, queues, InOrder
<1>4. CASE Current.task \in Immediate
  <2>1. Executor!Finish(Current.task)
    BY <1>2, <1>3, <1>4 DEF Executor!Finish, InOrder
  <2>2. QED
    BY <1>4, <2>1 DEF ExecutorStep, Executor!Serve
<1>5. CASE Current.task \notin Immediate
  BY <1>2, <1>3, <1>5 DEF Executor!vars, InOrder
<1>6. QED
  BY <1>4, <1>5

\* The first n tasks of the queue are destroyed, the rest stays.
LEMMA DestroyGivesUp ==
    ASSUME NEW a \in Seq(Immediate), NEW b \in Seq(Immediate),
           InOrder = a \o b, InOrder' = b,
           dropped' \cap Immediate = (dropped \cap Immediate) \cup Elements(a),
           UNCHANGED <<InFrames, done, attached>>
    PROVE  ExecutorStep \/ UNCHANGED Executor!vars
<1>1. CASE a = <<>>
  <2>1. a \o b = b /\ Elements(a) = {}
    BY <1>1, ConcatEmptySeq DEF Elements
  <2>2. QED
    BY <2>1 DEF Executor!vars, InOrder
<1>2. CASE a # <<>>
  <2>1. /\ Len(a) \in DOMAIN InOrder
        /\ {InOrder[i] : i \in 1 .. Len(a)} = Elements(a)
        /\ SubSeq(InOrder, Len(a) + 1, Len(InOrder)) = b
    BY <1>2, ConcatParts
  <2>2. Executor!GiveUp(Len(a))
    BY <2>1 DEF Executor!GiveUp, InOrder
  <2>3. QED
    BY <2>1, <2>2 DEF ExecutorStep
<1>3. QED
  BY <1>1, <1>2

LEMMA DestructorGivesUp ==
    ASSUME IInv, OrderInv, Destructor PROVE ExecutorStep \/ UNCHANGED Executor!vars
<1> DEFINE w == ImmediateOf(work_queue)
           i == ImmediateOf(incomingQueue)
<1>1. /\ work_queue \in Seq(Pending) /\ incomingQueue \in Seq(Pending)
      /\ <<>> \in Seq(Pending) /\ <<>> \in Seq(Immediate)
  BY EmptySeq DEF IInv, TypeOK
<1>2. /\ w \in Seq(Immediate) /\ i \in Seq(Immediate) /\ InOrder = w \o i
      /\ Elements(w) = TasksOf(work_queue) \cap Immediate
      /\ Elements(i) = TasksOf(incomingQueue) \cap Immediate
  BY <1>1, QueueInOrder DEF InOrder
<1>3. <<>> \o <<>> = <<>> /\ <<>> \o incomingQueue = incomingQueue
  BY <1>1, ConcatEmptySeq
<1>4. i \o <<>> = i /\ <<>> \o i = i
  BY <1>2, ConcatEmptySeq
<1>5. CASE DeletePendingTasks
  <2>1. UNCHANGED <<InFrames, done, attached>> /\ work_queue' = <<>>
    BY <1>5 DEF DeletePendingTasks, Goto, loopVars, InFrames
  <2>2. DelayedTasks \cap Immediate = {} /\ TasksOf(deferredQueue) \cap Immediate = {}
    <3>1. DelayedTasks \cap Immediate = {}
      BY DEF DelayedTasks, OrderInv, Sorted, Immediate
    <3>2. ASSUME NEW k \in DOMAIN deferredQueue PROVE deferredQueue[k].task \notin Immediate
      <4>1. deferredQueue[k] \in Deferrable
        BY LenProperties, ElementOfSeq DEF OrderInv, Sorted
      <4>2. QED
        BY <4>1 DEF Deferrable, Immediate
    <3>3. QED
      BY <3>1, <3>2 DEF TasksOf
  <2>3. CASE work_queue = <<>>
    <3>1. /\ incomingQueue' = <<>>
          /\ dropped' = dropped \cup (TasksOf(incomingQueue) \cup DelayedTasks
                                          \cup TasksOf(deferredQueue))
      BY <1>5, <2>3 DEF DeletePendingTasks, Destroy
    <3>2. InOrder = i \o <<>> /\ InOrder' = <<>>
      BY <1>2, <1>3, <1>4, <2>1, <2>3, <3>1, ImmediateOfEmpty DEF InOrder
    <3>3. dropped' \cap Immediate = (dropped \cap Immediate) \cup Elements(i)
      BY <1>2, <2>2, <3>1
    <3>4. QED
      BY <1>1, <1>2, <2>1, <3>2, <3>3, DestroyGivesUp
  <2>4. CASE work_queue # <<>>
    <3>1. /\ incomingQueue' = incomingQueue
          /\ dropped' = dropped \cup (TasksOf(work_queue) \cup DelayedTasks
                                          \cup TasksOf(deferredQueue))
      BY <1>5, <2>4 DEF DeletePendingTasks, Destroy
    <3>2. InOrder' = i
      BY <1>3, <2>1, <3>1 DEF InOrder
    <3>3. dropped' \cap Immediate = (dropped \cap Immediate) \cup Elements(w)
      BY <1>2, <2>2, <3>1
    <3>4. QED
      BY <1>2, <2>1, <3>2, <3>3, DestroyGivesUp
  <2>5. QED
    BY <2>3, <2>4
<1>6. CASE DeleteAgain
  BY <1>6 DEF DeleteAgain, Goto, queues, loopVars, history, Executor!vars, InFrames
<1>7. CASE WillDestroy
  <2>1. UNCHANGED <<InOrder, InFrames, done, dropped>> /\ attached' = FALSE
    BY <1>7 DEF WillDestroy, Goto, queues, history, InOrder, InFrames
  <2>2. CASE attached
    <3>1. Executor!Close
      BY <2>1, <2>2 DEF Executor!Close, InOrder
    <3>2. QED
      BY <3>1 DEF ExecutorStep, Executor!Serve
  <2>3. CASE ~attached
    <3>1. attached' = attached
      BY <2>1, <2>3 DEF IInv, TypeOK
    <3>2. QED
      BY <2>1, <3>1 DEF Executor!vars, InOrder
  <2>4. QED
    BY <2>2, <2>3
<1>8. CASE DestroyMembers
  <2>1. /\ UNCHANGED <<InFrames, done, attached>>
        /\ work_queue = <<>> /\ work_queue' = <<>> /\ incomingQueue' = <<>>
        /\ dropped' = dropped \cup TasksOf(incomingQueue)
    BY <1>8 DEF DestroyMembers, Destroy, Goto, loopVars, InFrames, OrderInv, WorkIsGone
  <2>2. InOrder = i \o <<>> /\ InOrder' = <<>>
    BY <1>2, <1>3, <1>4, <2>1, ImmediateOfEmpty DEF InOrder
  <2>3. dropped' \cap Immediate = (dropped \cap Immediate) \cup Elements(i)
    BY <1>2, <2>1
  <2>4. QED
    BY <1>1, <1>2, <2>1, <2>2, <2>3, DestroyGivesUp
<1>9. QED
  BY <1>5, <1>6, <1>7, <1>8 DEF Destructor

LEMMA Simulates ==
    ASSUME IInv, OrderInv, [Next]_vars PROVE [ExecutorStep]_(Executor!vars)
<1>1. CASE (Pump /\ ~DoIdleRun) \/ SpuriousWake
  BY <1>1
  DEF Pump, DoIdleNothing, Sleep, SleepUntil, SleepNot, TimedOut, TimedWoken, ConsumeWork,
      SpuriousWake, Goto, queues, loopVars, history, Executor!vars, InFrames
<1>2. CASE NestedRun \/ LeaveRun
  BY <1>2 DEF NestedRun, LeaveRun, Goto, queues, loopVars, history, Executor!vars, InFrames
<1>3. ASSUME NEW p \in Thread, scheduleWork(p) \/ Notify(p) PROVE UNCHANGED Executor!vars
  BY <1>3 DEF scheduleWork, Notify, queues, loopVars, history, Executor!vars, InFrames
<1>4. CASE Tick \/ Destroyed \/ UNCHANGED vars
  BY <1>4 DEF Tick, Destroyed, vars, queues, loopVars, control, history, Executor!vars, InFrames
<1>5. QED
  BY <1>1, <1>2, <1>3, <1>4, PostSubmits, PostIsRefused, WorkStarts, OthersRun,
     ReturnFinishes, DestructorGivesUp
  DEF Next, LoopStep, Pump

\* MessageLoop is a FIFO executor of its immediate nestable tasks: however the
\* two queues are swapped, the loop is run again by its callbacks, and
\* whatever a quit or the destructor leaves over, a task is run once and in
\* the order of the posts, or destroyed.
THEOREM ImplementsExecutor == Spec => ImmediateInOrder
<1>1. Init => OrderInv
  BY InitOrderInv
<1>2. TypeOK /\ OrderInv /\ [Next]_vars => OrderInv'
  BY SortedStep, BelowStep DEF OrderInv
<1>3. Init => Executor!Init
  <2>1. <<>> \in Seq(Pending)
    BY EmptySeq
  <2>2. <<>> \o <<>> = <<>> /\ ImmediateOf(<<>>) = <<>>
    BY <2>1, ConcatEmptySeq, ImmediateOfEmpty
  <2>3. QED
    BY <2>2, TasksOfEmpty DEF Init, Executor!Init, InFrames
<1>4. IInv /\ OrderInv /\ [Next]_vars => [ExecutorStep]_(Executor!vars)
  BY Simulates
<1>5. IInv => TypeOK
  BY DEF IInv
<1>6. QED
  BY <1>1, <1>2, <1>3, <1>4, <1>5, Inductive, PTL
  DEF Spec, ImmediateInOrder, Executor!MayGiveUp, ExecutorStep, InOrder
=============================================================================
