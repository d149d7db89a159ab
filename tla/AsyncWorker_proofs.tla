------------------------- MODULE AsyncWorker_proofs -------------------------
(***************************************************************************)
(* AsyncWorker for any clients and any tasks: the type invariant, what     *)
(* stop promises, and that the worker implements FifoExecutor.             *)
(***************************************************************************)
EXTENDS AsyncWorker, SequenceTheorems, FiniteSetTheorems, TLAPS

\* running_ is true exactly between the first and the last step of run, and
\* an owner that has left stop or the destructor saw the thread ended.
WorkerIsSeen ==
    /\ running <=> worker \in {"woken", "asleep", "task"}
    /\ owner \in {"stopped", "deleted"} => ~ThreadRuns

Current == IF worker = "task" THEN {cur} ELSE {}

\* Only what was invoked is queued, run or dropped.
OnlyInvoked == Queued \cup Current \cup done \cup dropped \subseteq invoked

IInv == TypeOK /\ WorkerIsSeen /\ OnlyInvoked

LEMMA InitIInv == Init => IInv
<1> SUFFICES ASSUME Init PROVE IInv
  OBVIOUS
<1>1. work_queue \in Seq(Task)
  BY EmptySeq DEF Init
<1>2. TypeOK
  BY <1>1 DEF Init, TypeOK
<1>3. WorkerIsSeen /\ OnlyInvoked
  BY DEF Init, WorkerIsSeen, OnlyInvoked, Queued, Current, ThreadRuns
<1>4. QED
  BY <1>2, <1>3 DEF IInv

\* The queue after each of the ways it changes.
LEMMA QueueChanges ==
    ASSUME TypeOK
    PROVE  /\ <<>> \in Seq(Task)
           /\ \A t \in Task : Append(work_queue, t) \in Seq(Task)
           /\ work_queue # <<>> => Head(work_queue) \in Task /\ Tail(work_queue) \in Seq(Task)
BY EmptySeq, AppendProperties, HeadTailProperties DEF TypeOK

LEMMA TypeStep ==
    ASSUME TypeOK, [Next]_vars PROVE TypeOK'
<1>q. /\ <<>> \in Seq(Task)
      /\ \A t \in Task : Append(work_queue, t) \in Seq(Task)
      /\ work_queue # <<>> => Head(work_queue) \in Task /\ Tail(work_queue) \in Seq(Task)
  BY QueueChanges
<1> USE DEF TypeOK
<1>1. CASE start
  BY <1>1 DEF start, ThreadRuns, history
<1>2. ASSUME NEW next \in {"stopping", "deleting"}, stop(next) PROVE TypeOK'
  <2>1. Queued \subseteq Task
    BY DEF Queued
  <2>2. QED
    BY <1>q, <1>2, <2>1 DEF stop
<1>3. CASE StopReturns
  BY <1>3 DEF StopReturns, workerVars, history
<1>4. CASE Deleted
  <2>1. Queued \subseteq Task
    BY DEF Queued
  <2>2. QED
    BY <1>q, <1>4, <2>1 DEF Deleted
<1>5. ASSUME NEW c \in Thread, InvokeNotifies(c) PROVE TypeOK'
  BY <1>5 DEF InvokeNotifies, history
<1>6. ASSUME NEW c \in Thread, clearTasks(c) PROVE TypeOK'
  <2>1. Queued \subseteq Task
    BY DEF Queued
  <2>2. QED
    BY <1>q, <1>6, <2>1 DEF clearTasks
<1>7. ASSUME NEW c \in Thread, NEW t \in Task, invoke(c, t) PROVE TypeOK'
  BY <1>q, <1>7 DEF invoke
<1>8. CASE RunBegins \/ Wait \/ RunEnds \/ SpuriousWake
  BY <1>8 DEF RunBegins, Wait, RunEnds, SpuriousWake, history
<1>9. CASE Take
  BY <1>q, <1>9, TaskAssumption DEF Take, history
<1>10. CASE Return
  BY <1>10, TaskAssumption DEF Return
<1>11. CASE Gone \/ UNCHANGED vars
  BY <1>11 DEF Gone, vars, workerVars, history
<1>12. QED
  BY <1>1, <1>2, <1>3, <1>4, <1>5, <1>6, <1>7, <1>8, <1>9, <1>10, <1>11
  DEF Next, Run, Delete

LEMMA WorkerIsSeenStep ==
    ASSUME TypeOK, WorkerIsSeen, [Next]_vars PROVE WorkerIsSeen'
<1> USE DEF WorkerIsSeen, ThreadRuns, TypeOK
<1>1. CASE start
  BY <1>1 DEF start, Free
<1>2. ASSUME NEW next \in {"stopping", "deleting"}, stop(next) PROVE WorkerIsSeen'
  BY <1>2 DEF stop
<1>3. CASE StopReturns \/ Deleted
  BY <1>3 DEF StopReturns, Deleted, workerVars
<1>4. ASSUME NEW c \in Thread, InvokeNotifies(c) PROVE WorkerIsSeen'
  BY <1>4 DEF InvokeNotifies
<1>5. ASSUME NEW c \in Thread, NEW t \in Task, invoke(c, t) PROVE WorkerIsSeen'
  BY <1>5 DEF invoke
<1>6. ASSUME NEW c \in Thread, clearTasks(c) PROVE WorkerIsSeen'
  BY <1>6 DEF clearTasks
<1>7. CASE RunBegins \/ Wait \/ RunEnds \/ Take \/ Return \/ SpuriousWake
  BY <1>7 DEF RunBegins, Wait, RunEnds, Take, Return, SpuriousWake
<1>8. CASE Gone \/ UNCHANGED vars
  BY <1>8 DEF Gone, vars, workerVars
<1>9. QED
  BY <1>1, <1>2, <1>3, <1>4, <1>5, <1>6, <1>7, <1>8 DEF Next, Run, Delete

LEMMA OnlyInvokedStep ==
    ASSUME TypeOK, OnlyInvoked, [Next]_vars PROVE OnlyInvoked'
<1> USE DEF OnlyInvoked, Queued, Current
<1>1. CASE start \/ StopReturns \/ RunBegins \/ Wait \/ RunEnds \/ SpuriousWake
  BY <1>1 DEF start, StopReturns, RunBegins, Wait, RunEnds, SpuriousWake,
              history, workerVars, ThreadRuns
<1>2. ASSUME NEW next \in {"stopping", "deleting"}, stop(next) PROVE OnlyInvoked'
  BY <1>2 DEF stop
<1>3. CASE Deleted
  BY <1>3 DEF Deleted
<1>4. ASSUME NEW c \in Thread, InvokeNotifies(c) PROVE OnlyInvoked'
  BY <1>4 DEF InvokeNotifies, history
<1>5. ASSUME NEW c \in Thread, clearTasks(c) PROVE OnlyInvoked'
  BY <1>5 DEF clearTasks
<1>6. ASSUME NEW c \in Thread, NEW t \in Task, invoke(c, t) PROVE OnlyInvoked'
  <2>1. \A i \in DOMAIN Append(work_queue, t) :
            Append(work_queue, t)[i] \in Queued \cup {t}
    BY AppendProperties DEF TypeOK
  <2>2. QED
    BY <1>6, <2>1 DEF invoke
<1>7. CASE Take
  <2>1. /\ Head(work_queue) \in Queued
        /\ \A i \in DOMAIN Tail(work_queue) : Tail(work_queue)[i] \in Queued
    BY <1>7, HeadTailProperties, EmptySeq, LenProperties DEF Take, TypeOK
  <2>2. QED
    BY <1>7, <2>1 DEF Take, history
<1>8. CASE Return
  BY <1>8 DEF Return
<1>9. CASE Gone \/ UNCHANGED vars
  BY <1>9 DEF Gone, vars, workerVars, history
<1>10. QED
  BY <1>1, <1>2, <1>3, <1>4, <1>5, <1>6, <1>7, <1>8, <1>9 DEF Next, Run, Delete

THEOREM Inductive == Spec => []IInv
<1>1. Init => IInv
  BY InitIInv
<1>2. IInv /\ [Next]_vars => IInv'
  BY TypeStep, WorkerIsSeenStep, OnlyInvokedStep DEF IInv
<1>3. QED
  BY <1>1, <1>2, PTL DEF Spec

\* The variables of the worker keep their types.
THEOREM TypeCorrect == Spec => []TypeOK
<1>1. IInv => TypeOK
  BY DEF IInv
<1>2. QED
  BY <1>1, Inductive, PTL

\* When stop or the destructor has returned the thread has ended and
\* isRunning() is false, whatever clients and tasks did meanwhile.
THEOREM StopsForGood == Spec => []StopMeansStopped
<1>1. IInv => StopMeansStopped
  BY DEF IInv, StopMeansStopped, WorkerIsSeen, ThreadRuns, isRunning
<1>2. QED
  BY <1>1, Inductive, PTL

\* Once stop has set exit_, no step makes the worker take a task.
THEOREM StartsNothing == Spec => NothingStartsAfterStop
<1>1. [Next]_vars => [exit => cur' \in {cur, NoTask}]_vars
  <2> SUFFICES ASSUME Next, exit PROVE cur' \in {cur, NoTask}
    OBVIOUS
  <2>1. CASE Run
    BY <2>1 DEF Run, RunBegins, Wait, RunEnds, Take, Return
  <2>2. CASE \E c \in Thread : InvokeNotifies(c) \/ clearTasks(c)
                             \/ \E t \in Task : invoke(c, t)
    BY <2>2 DEF InvokeNotifies, clearTasks, invoke
  <2>3. CASE start \/ stop("stopping") \/ StopReturns \/ Delete \/ Deleted
    BY <2>3 DEF start, stop, StopReturns, Delete, Deleted, workerVars
  <2>4. CASE SpuriousWake \/ Gone
    BY <2>4 DEF SpuriousWake, Gone, vars, workerVars
  <2>5. QED
    BY <2>1, <2>2, <2>3, <2>4 DEF Next
<1>2. QED
  BY <1>1, PTL DEF Spec, NothingStartsAfterStop

-----------------------------------------------------------------------------
(* The refinement: one lemma per way in which the abstract executor moves. *)

ExecutorStep == Executor!Serve \/ \E n \in DOMAIN work_queue : Executor!GiveUp(n)

LEMMA InvokeSubmits ==
    ASSUME IInv, NEW c \in Thread, NEW t \in Task, invoke(c, t) PROVE ExecutorStep
<1>1. t \in Executor!Unseen
  BY DEF invoke, Executor!Unseen, Executor!Waiting, IInv, OnlyInvoked, Queued, Current
<1>2. Executor!Submit(t)
  BY <1>1 DEF invoke, Executor!Submit
<1>3. QED
  BY <1>2 DEF ExecutorStep, Executor!Serve

LEMMA TakeStarts ==
    ASSUME IInv, Take PROVE ExecutorStep
<1>1. Current = {} /\ Executor!Cardinality(Current) = 0
  BY FS_EmptySet DEF Take, Current, Cardinality, Executor!Cardinality
<1>2. Executor!Start
  BY <1>1 DEF Take, history, Executor!Start, Current
<1>3. QED
  BY <1>2 DEF ExecutorStep, Executor!Serve

LEMMA ReturnFinishes ==
    ASSUME IInv, Return PROVE ExecutorStep
<1>1. cur \in Task
  BY DEF Return, IInv, TypeOK
<1>2. Executor!Finish(cur)
  BY <1>1 DEF Return, Executor!Finish
<1>3. QED
  BY <1>1, <1>2 DEF ExecutorStep, Executor!Serve

\* The swap of stop, clearTasks and the destructor gives all waiting tasks up.
LEMMA EmptyingGivesUp ==
    ASSUME IInv, work_queue # <<>>,
           work_queue' = <<>>, dropped' = dropped \cup Queued, done' = done,
           Current' = Current
    PROVE  ExecutorStep
<1> DEFINE n == Len(work_queue)
<1>1. work_queue \in Seq(Task) /\ n \in Nat /\ DOMAIN work_queue = 1 .. n /\ n # 0
  BY EmptySeq, LenProperties DEF IInv, TypeOK
<1>2. n \in DOMAIN work_queue /\ Queued = {work_queue[i] : i \in 1 .. n}
  BY <1>1 DEF Queued
<1>3. SubSeq(work_queue, n + 1, n) = <<>>
  BY <1>1
<1>4. Executor!GiveUp(n)
  BY <1>2, <1>3 DEF Executor!GiveUp, Current
<1>5. QED
  BY <1>2, <1>4 DEF ExecutorStep

LEMMA Simulates ==
    ASSUME IInv, [Next]_vars PROVE [ExecutorStep]_(Executor!vars)
<1> USE DEF Executor!vars
<1>1. CASE start \/ StopReturns \/ RunBegins \/ Wait \/ RunEnds \/ SpuriousWake
  BY <1>1 DEF start, StopReturns, RunBegins, Wait, RunEnds, SpuriousWake,
              history, workerVars, ThreadRuns
<1>2. ASSUME NEW next \in {"stopping", "deleting"}, stop(next) PROVE [ExecutorStep]_(Executor!vars)
  <2>1. CASE work_queue = <<>>
    BY <1>2, <2>1 DEF stop, Queued
  <2>2. CASE work_queue # <<>>
    BY <1>2, <2>2, EmptyingGivesUp DEF stop, Current
  <2>3. QED
    BY <2>1, <2>2
<1>3. CASE Deleted
  <2>1. CASE work_queue = <<>>
    BY <1>3, <2>1 DEF Deleted, Queued
  <2>2. CASE work_queue # <<>>
    BY <1>3, <2>2, EmptyingGivesUp DEF Deleted, Current
  <2>3. QED
    BY <2>1, <2>2
<1>4. ASSUME NEW c \in Thread, InvokeNotifies(c) PROVE [ExecutorStep]_(Executor!vars)
  BY <1>4 DEF InvokeNotifies, history
<1>5. ASSUME NEW c \in Thread, clearTasks(c) PROVE [ExecutorStep]_(Executor!vars)
  BY <1>5, EmptyingGivesUp DEF clearTasks, Current
<1>6. CASE Gone \/ UNCHANGED vars
  BY <1>6 DEF Gone, vars, workerVars, history
<1>7. QED
  BY <1>1, <1>2, <1>3, <1>4, <1>5, <1>6, InvokeSubmits, TakeStarts, ReturnFinishes
  DEF Next, Run, Delete

\* AsyncWorker is a FIFO executor that runs one task at a time and may give
\* the waiting ones up: whatever the clients, start, stop, clearTasks and the
\* destructor do, a task is run once and in its turn, or dropped.
THEOREM ImplementsExecutor == Spec => InOrder
<1>1. Init => Executor!Init
  BY DEF Init, Executor!Init
<1>2. IInv /\ [Next]_vars => [ExecutorStep]_(Executor!vars)
  BY Simulates
<1>3. QED
  BY <1>1, <1>2, Inductive, PTL
  DEF Spec, InOrder, Executor!MayGiveUp, ExecutorStep
=============================================================================
