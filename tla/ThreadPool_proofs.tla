------------------------- MODULE ThreadPool_proofs -------------------------
(***************************************************************************)
(* ThreadPool for any finite set of workers, any clients and any tasks:    *)
(* the type invariant, the absence of lost wake-ups, the drain promised by *)
(* the destructor, and that every step of the pool is a step, or a         *)
(* stutter, of FifoExecutor.                                               *)
(***************************************************************************)
EXTENDS ThreadPool, SequenceTheorems, FiniteSetTheorems, TLAPS

Running == {cur[w] : w \in {x \in Worker : pc[x] = "run"}}

\* Where each accepted task is: queued, in a worker's hands, or finished.
Accounted == Elements(accepted) = Elements(tasks) \cup Running \cup finished

\* stop is the destructor's first step, a worker leaves only a stopped and
\* empty pool, and nobody sleeps once the destructor has woken everybody.
ExitedMeansEmpty ==
    /\ stop <=> (dtor # "no")
    /\ \A w \in Worker : pc[w] = "exited" => stop /\ tasks = <<>>
    /\ dtor \in {"joining", "done"} => Asleep = {}
    /\ dtor = "done" => \A w \in Worker : pc[w] = "exited"

IInv == TypeOK /\ Accounted /\ ExitedMeansEmpty /\ NoLostWakeup

\* Pushing a task adds exactly that task to the elements of a queue.
LEMMA ElementsAppend ==
    ASSUME NEW S, NEW s \in Seq(S), NEW e \in S
    PROVE  Elements(Append(s, e)) = Elements(s) \cup {e}
BY AppendProperties DEF Elements

\* Popping a task and putting it aside loses nothing.
LEMMA ElementsHeadTail ==
    ASSUME NEW S, NEW s \in Seq(S), s # <<>>
    PROVE  Elements(s) = {Head(s)} \cup Elements(Tail(s))
<1>1. /\ Head(s) = s[1] /\ Tail(s) \in Seq(S) /\ Len(Tail(s)) = Len(s) - 1
      /\ Len(s) \in Nat /\ Len(s) > 0
      /\ \A i \in 1 .. Len(Tail(s)) : Tail(s)[i] = s[i + 1]
  BY HeadTailProperties, EmptySeq, LenProperties
<1>2. DOMAIN s = 1 .. Len(s) /\ DOMAIN Tail(s) = 1 .. Len(s) - 1
  BY <1>1, LenProperties
<1>3. ASSUME NEW x \in Elements(s)
      PROVE  x \in {Head(s)} \cup Elements(Tail(s))
  <2>1. PICK i \in DOMAIN s : x = s[i]
    BY DEF Elements
  <2>2. CASE i = 1
    BY <1>1, <2>1, <2>2
  <2>3. CASE i # 1
    <3>1. i - 1 \in DOMAIN Tail(s) /\ Tail(s)[i - 1] = s[i]
      BY <1>1, <1>2, <2>1, <2>3
    <3>2. QED
      BY <2>1, <3>1 DEF Elements
  <2>4. QED
    BY <2>2, <2>3
<1>4. ASSUME NEW x \in {Head(s)} \cup Elements(Tail(s))
      PROVE  x \in Elements(s)
  <2>1. CASE x = Head(s)
    BY <1>1, <1>2, <2>1 DEF Elements
  <2>2. CASE x \in Elements(Tail(s))
    <3>1. PICK i \in DOMAIN Tail(s) : x = Tail(s)[i]
      BY <2>2 DEF Elements
    <3>2. i + 1 \in DOMAIN s /\ x = s[i + 1]
      BY <1>1, <1>2, <3>1
    <3>3. QED
      BY <3>2 DEF Elements
  <2>3. QED
    BY <1>4, <2>1, <2>2
<1>5. QED
  BY <1>3, <1>4

LEMMA InitIInv == Init => IInv
<1> SUFFICES ASSUME Init PROVE IInv
  OBVIOUS
<1>1. TypeOK
  <2>1. <<>> \in Seq(Task)
    BY EmptySeq
  <2>2. pc \in [Worker -> {"woken", "asleep", "run", "exited"}]
    BY DEF Init
  <2>3. /\ cur \in [Worker -> Task \cup {NoTask}]
        /\ \A w \in Worker : cur[w] # NoTask <=> pc[w] = "run"
    BY DEF Init
  <2>4. QED
    BY <2>1, <2>2, <2>3 DEF Init, TypeOK
<1>2. Accounted
  BY DEF Init, Accounted, Elements, Running
<1>3. ExitedMeansEmpty /\ NoLostWakeup
  BY DEF Init, ExitedMeansEmpty, NoLostWakeup
<1>4. QED
  BY <1>1, <1>2, <1>3 DEF IInv

LEMMA TypeStep ==
    ASSUME TypeOK, [Next]_vars PROVE TypeOK'
<1> USE DEF TypeOK
<1>1. CASE \E t \in Worker \cup Client : NotifyOne(t) \/ \E task \in Task : Enqueue(t, task)
  <2>1. ASSUME NEW t \in Worker \cup Client, NotifyOne(t) PROVE TypeOK'
    BY <2>1 DEF NotifyOne, Asleep
  <2>2. ASSUME NEW t \in Worker \cup Client, NEW task \in Task, Enqueue(t, task)
        PROVE  TypeOK'
    <3>1. Append(tasks, task) \in Seq(Task) /\ Append(accepted, task) \in Seq(Task)
      BY AppendProperties
    <3>2. CASE stop
      BY <2>2, <3>2 DEF Enqueue
    <3>3. CASE ~stop
      BY <2>2, <3>1, <3>3 DEF Enqueue
    <3>4. QED
      BY <3>2, <3>3
  <2>3. QED
    BY <1>1, <2>1, <2>2
<1>2. CASE \E w \in Worker : Wait(w) \/ SpuriousWake(w) \/ Take(w) \/ Return(w) \/ Exit(w)
  <2>1. ASSUME NEW w \in Worker, Wait(w) PROVE TypeOK'
    BY <2>1 DEF Wait
  <2>2. ASSUME NEW w \in Worker, SpuriousWake(w) PROVE TypeOK'
    BY <2>2 DEF SpuriousWake
  <2>3. ASSUME NEW w \in Worker, Take(w) PROVE TypeOK'
    <3>1. Head(tasks) \in Task /\ Tail(tasks) \in Seq(Task)
      BY <2>3, HeadTailProperties DEF Take
    <3>2. QED
      BY <2>3, <3>1, TaskAssumption DEF Take
  <2>4. ASSUME NEW w \in Worker, Return(w) PROVE TypeOK'
    BY <2>4, TaskAssumption DEF Return
  <2>5. ASSUME NEW w \in Worker, Exit(w) PROVE TypeOK'
    BY <2>5 DEF Exit
  <2>6. QED
    BY <1>2, <2>1, <2>2, <2>3, <2>4, <2>5
<1>3. CASE Stop
  BY <1>3 DEF Stop
<1>4. CASE NotifyAll
  BY <1>4 DEF NotifyAll, Asleep
<1>5. CASE Join
  BY <1>5 DEF Join
<1>6. CASE Destroyed \/ UNCHANGED vars
  BY <1>6 DEF Destroyed, vars, poolVars
<1>7. QED
  BY <1>1, <1>2, <1>3, <1>4, <1>5, <1>6 DEF Next

\* Each action moves a task from one place of Accounted to the next.
LEMMA AccountedStep ==
    ASSUME TypeOK, Accounted, [Next]_vars PROVE Accounted'
<1> USE DEF Accounted
<1>1. ASSUME NEW t \in Worker \cup Client, NotifyOne(t) PROVE Accounted'
  <2>1. Running' = Running
    BY <1>1 DEF NotifyOne, Running, Asleep, TypeOK
  <2>2. QED
    BY <1>1, <2>1 DEF NotifyOne, Elements
<1>2. ASSUME NEW t \in Worker \cup Client, NEW task \in Task, Enqueue(t, task)
      PROVE  Accounted'
  <2>1. Running' = Running
    BY <1>2 DEF Enqueue, Running
  <2>2. CASE stop
    BY <1>2, <2>1, <2>2 DEF Enqueue, Elements
  <2>3. CASE ~stop
    <3>1. /\ Elements(Append(tasks, task)) = Elements(tasks) \cup {task}
          /\ Elements(Append(accepted, task)) = Elements(accepted) \cup {task}
      BY ElementsAppend DEF TypeOK
    <3>2. /\ Elements(tasks)' = Elements(tasks) \cup {task}
          /\ Elements(accepted)' = Elements(accepted) \cup {task}
          /\ finished' = finished
      BY <1>2, <2>3, <3>1 DEF Enqueue, Elements
    <3>3. QED
      BY <2>1, <3>2
  <2>4. QED
    BY <2>2, <2>3
<1>3. ASSUME NEW w \in Worker, Wait(w) \/ SpuriousWake(w) \/ Exit(w)
      PROVE  Accounted'
  <2>1. Running' = Running
    BY <1>3 DEF Wait, SpuriousWake, Exit, Running, TypeOK
  <2>2. QED
    BY <1>3, <2>1 DEF Wait, SpuriousWake, Exit, Elements
<1>4. ASSUME NEW w \in Worker, Take(w) PROVE Accounted'
  <2>1. Running' = Running \cup {Head(tasks)}
    BY <1>4 DEF Take, Running, TypeOK
  <2>2. Elements(tasks) = {Head(tasks)} \cup Elements(Tail(tasks))
    BY <1>4, ElementsHeadTail DEF Take, TypeOK
  <2>3. Elements(tasks)' = Elements(Tail(tasks)) /\ Elements(accepted)' = Elements(accepted)
    BY <1>4 DEF Take, Elements
  <2>4. QED
    BY <1>4, <2>1, <2>2, <2>3 DEF Take
<1>5. ASSUME NEW w \in Worker, Return(w) PROVE Accounted'
  <2>1. Running' \cup {cur[w]} = Running
    BY <1>5 DEF Return, Running, TypeOK
  <2>2. Elements(tasks)' = Elements(tasks) /\ Elements(accepted)' = Elements(accepted)
    BY <1>5 DEF Return, Elements
  <2>3. QED
    BY <1>5, <2>1, <2>2 DEF Return
<1>6. ASSUME NotifyAll PROVE Accounted'
  <2>1. Running' = Running
    BY <1>6 DEF NotifyAll, Asleep, Running, TypeOK
  <2>2. QED
    BY <1>6, <2>1 DEF NotifyAll, Elements
<1>7. CASE Stop \/ Join \/ Destroyed \/ UNCHANGED vars
  BY <1>7 DEF Stop, Join, Destroyed, vars, poolVars, Elements, Running
<1>8. QED
  BY <1>1, <1>2, <1>3, <1>4, <1>5, <1>6, <1>7 DEF Next

LEMMA ExitedMeansEmptyStep ==
    ASSUME TypeOK, ExitedMeansEmpty, [Next]_vars PROVE ExitedMeansEmpty'
<1> USE DEF ExitedMeansEmpty, Asleep, TypeOK
<1>1. ASSUME NEW t \in Worker \cup Client, NotifyOne(t) PROVE ExitedMeansEmpty'
  BY <1>1 DEF NotifyOne
<1>2. ASSUME NEW t \in Worker \cup Client, NEW task \in Task, Enqueue(t, task)
      PROVE  ExitedMeansEmpty'
  BY <1>2 DEF Enqueue
<1>3. ASSUME NEW w \in Worker, Wait(w) PROVE ExitedMeansEmpty'
  BY <1>3 DEF Wait
<1>4. ASSUME NEW w \in Worker, SpuriousWake(w) PROVE ExitedMeansEmpty'
  BY <1>4 DEF SpuriousWake
<1>5. ASSUME NEW w \in Worker, Take(w) PROVE ExitedMeansEmpty'
  BY <1>5 DEF Take
<1>6. ASSUME NEW w \in Worker, Return(w) PROVE ExitedMeansEmpty'
  BY <1>6 DEF Return
<1>7. ASSUME NEW w \in Worker, Exit(w) PROVE ExitedMeansEmpty'
  BY <1>7 DEF Exit
<1>8. CASE Stop
  BY <1>8 DEF Stop
<1>9. CASE NotifyAll
  BY <1>9 DEF NotifyAll
<1>10. CASE Join
  BY <1>10 DEF Join
<1>11. CASE Destroyed \/ UNCHANGED vars
  BY <1>11 DEF Destroyed, vars, poolVars
<1>12. QED
  BY <1>1, <1>2, <1>3, <1>4, <1>5, <1>6, <1>7, <1>8, <1>9, <1>10, <1>11 DEF Next

\* Only a worker that finds the queue empty falls asleep, and a task is
\* pushed together with the debt of a notify.
LEMMA NoLostWakeupStep ==
    ASSUME TypeOK, ExitedMeansEmpty, NoLostWakeup, [Next]_vars
    PROVE  NoLostWakeup'
<1> USE DEF NoLostWakeup
<1>1. ASSUME NEW t \in Worker \cup Client, NotifyOne(t) PROVE NoLostWakeup'
  <2>1. CASE Asleep # {}
    BY <1>1, <2>1 DEF NotifyOne, Asleep, TypeOK
  <2>2. CASE Asleep = {} /\ tasks # <<>>
    <3>1. \A w \in Worker : pc[w] \in {"woken", "run"}
      BY <2>2 DEF Asleep, ExitedMeansEmpty, TypeOK
    <3>2. QED
      BY <1>1, <2>2, <3>1, WorkerAssumption DEF NotifyOne
  <2>3. QED
    BY <1>1, <2>1, <2>2 DEF NotifyOne
<1>2. ASSUME NEW t \in Worker \cup Client, NEW task \in Task, Enqueue(t, task)
      PROVE  NoLostWakeup'
  BY <1>2 DEF Enqueue
<1>3. ASSUME NEW w \in Worker, Wait(w) \/ Exit(w) PROVE NoLostWakeup'
  BY <1>3 DEF Wait, Exit
<1>4. ASSUME NEW w \in Worker, SpuriousWake(w) PROVE NoLostWakeup'
  BY <1>4 DEF SpuriousWake, TypeOK
<1>5. ASSUME NEW w \in Worker, Take(w) \/ Return(w) PROVE NoLostWakeup'
  BY <1>5 DEF Take, Return, TypeOK
<1>6. CASE Stop
  BY <1>6 DEF Stop
<1>7. CASE NotifyAll
  <2>1. CASE tasks # <<>>
    <3>1. \A w \in Worker : pc'[w] \in {"woken", "run"}
      BY <1>7, <2>1 DEF NotifyAll, Asleep, ExitedMeansEmpty, TypeOK
    <3>2. QED
      BY <3>1, WorkerAssumption
  <2>2. QED
    BY <1>7, <2>1 DEF NotifyAll
<1>8. CASE Join
  BY <1>8 DEF Join
<1>9. CASE Destroyed \/ UNCHANGED vars
  BY <1>9 DEF Destroyed, vars, poolVars
<1>10. QED
  BY <1>1, <1>2, <1>3, <1>4, <1>5, <1>6, <1>7, <1>8, <1>9 DEF Next

THEOREM Inductive == Spec => []IInv
<1>1. Init => IInv
  BY InitIInv
<1>2. IInv /\ [Next]_vars => IInv'
  BY TypeStep, AccountedStep, ExitedMeansEmptyStep, NoLostWakeupStep DEF IInv
<1>3. QED
  BY <1>1, <1>2, PTL DEF Spec

\* The variables of the pool keep their types, and a worker holds a task
\* exactly while it runs it.
THEOREM TypeCorrect == Spec => []TypeOK
<1>1. IInv => TypeOK
  BY DEF IInv
<1>2. QED
  BY <1>1, Inductive, PTL

\* For any number of workers, enqueue and the destructor leave no moment at
\* which all workers sleep over a queued task with no notify to come.
THEOREM WakeupsAreKept == Spec => []NoLostWakeup
<1>1. IInv => NoLostWakeup
  BY DEF IInv
<1>2. QED
  BY <1>1, Inductive, PTL

\* The destructor returns only after every accepted task has finished,
\* whatever the number of workers and whatever tasks enqueued meanwhile.
THEOREM DestructorDrains == Spec => []DestroyedMeansDrained
<1>1. IInv => DestroyedMeansDrained
  <2> SUFFICES ASSUME IInv, dtor = "done"
               PROVE  /\ finished = Elements(accepted)
                      /\ \A w \in Worker : pc[w] = "exited"
    BY DEF DestroyedMeansDrained
  <2>1. \A w \in Worker : pc[w] = "exited"
    BY DEF IInv, ExitedMeansEmpty
  <2>2. tasks = <<>>
    BY <2>1, WorkerAssumption DEF IInv, ExitedMeansEmpty
  <2>3. Running = {} /\ Elements(tasks) = {}
    BY <2>1, <2>2 DEF Running, Elements
  <2>4. QED
    BY <2>1, <2>3 DEF IInv, Accounted
<1>2. QED
  BY <1>1, Inductive, PTL

-----------------------------------------------------------------------------
(* The refinement needs to know that no task is in two places.             *)

Distinct ==
    /\ \A i, j \in DOMAIN tasks : tasks[i] = tasks[j] => i = j
    /\ Elements(tasks) \cap Running = {}
    /\ \A v, w \in Worker : pc[v] = "run" /\ pc[w] = "run" /\ cur[v] = cur[w] => v = w

LEMMA DistinctTake ==
    ASSUME TypeOK, Distinct, NEW w \in Worker, Take(w) PROVE Distinct'
<1>1. /\ Head(tasks) = tasks[1] /\ Len(tasks) \in Nat /\ DOMAIN tasks = 1 .. Len(tasks)
      /\ DOMAIN Tail(tasks) = 1 .. Len(tasks) - 1 /\ Len(tasks) > 0
      /\ \A i \in 1 .. Len(tasks) - 1 : Tail(tasks)[i] = tasks[i + 1]
  BY HeadTailProperties, EmptySeq, LenProperties DEF Take, TypeOK
<1>2. tasks' = Tail(tasks) /\ Head(tasks) \in Elements(tasks)
  <2>1. 1 \in DOMAIN tasks
    BY <1>1
  <2>2. QED
    BY <1>1, <2>1 DEF Take, Elements
<1>3. ASSUME NEW i \in DOMAIN Tail(tasks), NEW j \in DOMAIN Tail(tasks),
             Tail(tasks)[i] = Tail(tasks)[j]
      PROVE  i = j
  <2>1. i + 1 \in DOMAIN tasks /\ j + 1 \in DOMAIN tasks /\ tasks[i + 1] = tasks[j + 1]
    BY <1>1, <1>3
  <2>2. i + 1 = j + 1
    BY <2>1 DEF Distinct
  <2>3. QED
    BY <1>1, <2>2
<1>4. Head(tasks) \notin Elements(Tail(tasks)) /\ Elements(Tail(tasks)) \subseteq Elements(tasks)
  <2>1. ASSUME NEW i \in DOMAIN Tail(tasks)
        PROVE  Tail(tasks)[i] # Head(tasks) /\ Tail(tasks)[i] \in Elements(tasks)
    <3>1. i + 1 \in DOMAIN tasks /\ 1 \in DOMAIN tasks /\ i + 1 # 1
      BY <1>1
    <3>2. QED
      BY <1>1, <3>1 DEF Distinct, Elements
  <2>2. QED
    BY <2>1 DEF Elements
<1>5. Running' = Running \cup {Head(tasks)}
  BY DEF Take, Running, TypeOK
<1>6. \A v \in Worker : pc[v] = "run" => cur[v] # Head(tasks)
  BY <1>2 DEF Distinct, Running
<1>7. \A v, x \in Worker : pc'[v] = "run" /\ pc'[x] = "run" /\ cur'[v] = cur'[x] => v = x
  BY <1>6 DEF Take, Distinct, TypeOK
<1>8. Elements(tasks)' = Elements(Tail(tasks))
  BY <1>2 DEF Elements
<1>9. QED
  BY <1>2, <1>3, <1>4, <1>5, <1>7, <1>8 DEF Distinct

LEMMA DistinctEnqueue ==
    ASSUME TypeOK, Accounted, Distinct,
           NEW t \in Worker \cup Client, NEW task \in Task, Enqueue(t, task)
    PROVE  Distinct'
<1>1. Running' = Running
  BY DEF Enqueue, Running
<1>2. CASE stop
  BY <1>1, <1>2 DEF Enqueue, Distinct, Elements
<1>3. CASE ~stop
  <2>1. task \notin Elements(tasks) \cup Running
    BY DEF Enqueue, Accounted
  <2>2. tasks' = Append(tasks, task) /\ pc' = pc /\ cur' = cur
    BY <1>3 DEF Enqueue
  <2>3. /\ Len(tasks) \in Nat /\ DOMAIN tasks = 1 .. Len(tasks)
        /\ DOMAIN Append(tasks, task) = 1 .. Len(tasks) + 1
        /\ \A i \in 1 .. Len(tasks) : Append(tasks, task)[i] = tasks[i]
        /\ Append(tasks, task)[Len(tasks) + 1] = task
    BY AppendProperties, LenProperties DEF TypeOK
  <2>4. ASSUME NEW i \in DOMAIN Append(tasks, task), NEW j \in DOMAIN Append(tasks, task),
               Append(tasks, task)[i] = Append(tasks, task)[j]
        PROVE  i = j
    <3>1. \A k \in DOMAIN tasks : Append(tasks, task)[k] = tasks[k] /\ tasks[k] # task
      BY <2>1, <2>3 DEF Elements
    <3>2. \A k \in DOMAIN Append(tasks, task) :
             k \notin DOMAIN tasks => k = Len(tasks) + 1
      BY <2>3
    <3>3. \A k \in DOMAIN Append(tasks, task) :
             k \notin DOMAIN tasks => Append(tasks, task)[k] = task
      BY <2>3, <3>2
    <3>4. CASE i \in DOMAIN tasks /\ j \in DOMAIN tasks
      <4>1. tasks[i] = tasks[j]
        BY <2>4, <3>1, <3>4
      <4>2. QED
        BY <3>4, <4>1 DEF Distinct
    <3>5. CASE i \notin DOMAIN tasks /\ j \notin DOMAIN tasks
      BY <2>4, <3>2, <3>5
    <3>6. (i \in DOMAIN tasks) <=> (j \in DOMAIN tasks)
      BY <2>4, <3>1, <3>3
    <3>7. QED
      BY <3>4, <3>5, <3>6
  <2>5. Elements(tasks)' = Elements(tasks) \cup {task}
    <3>1. Elements(Append(tasks, task)) = Elements(tasks) \cup {task}
      BY ElementsAppend DEF TypeOK
    <3>2. Elements(tasks)' = Elements(Append(tasks, task))
      BY <2>2 DEF Elements
    <3>3. QED
      BY <3>1, <3>2
  <2>6. QED
    BY <1>1, <2>1, <2>2, <2>4, <2>5 DEF Distinct
<1>4. QED
  BY <1>2, <1>3

LEMMA DistinctKept ==
    ASSUME Distinct, tasks' = tasks,
           \A w \in Worker : pc'[w] = "run" => pc[w] = "run" /\ cur'[w] = cur[w]
    PROVE  Distinct'
<1>1. Running' \subseteq Running
  BY DEF Running
<1>2. Elements(tasks)' = Elements(tasks)
  BY DEF Elements
<1>3. QED
  BY <1>1, <1>2 DEF Distinct

LEMMA DistinctStep ==
    ASSUME TypeOK, Accounted, Distinct, [Next]_vars PROVE Distinct'
<1> USE DEF TypeOK
<1>1. ASSUME NEW t \in Worker \cup Client, NotifyOne(t) PROVE Distinct'
  BY <1>1, DistinctKept DEF NotifyOne, Asleep
<1>2. ASSUME NEW w \in Worker, Wait(w) \/ SpuriousWake(w) \/ Exit(w) PROVE Distinct'
  BY <1>2, DistinctKept DEF Wait, SpuriousWake, Exit
<1>3. ASSUME NEW w \in Worker, Return(w) PROVE Distinct'
  BY <1>3, DistinctKept DEF Return
<1>4. CASE NotifyAll
  BY <1>4, DistinctKept DEF NotifyAll, Asleep
<1>5. CASE Stop \/ Join \/ Destroyed \/ UNCHANGED vars
  BY <1>5, DistinctKept DEF Stop, Join, Destroyed, vars, poolVars
<1>6. QED
  BY <1>1, <1>2, <1>3, <1>4, <1>5, DistinctTake, DistinctEnqueue DEF Next

\* A worker that is not inside a task leaves room for one more.
LEMMA RoomForOne ==
    ASSUME NEW w \in Worker, pc[w] # "run"
    PROVE  Cardinality(Running) < Cardinality(Worker)
<1> DEFINE Busy == {x \in Worker : pc[x] = "run"}
           f == [x \in Busy |-> cur[x]]
<1>1. /\ IsFiniteSet(Worker \ {w}) /\ Cardinality(Worker \ {w}) = Cardinality(Worker) - 1
      /\ Cardinality(Worker) \in Nat
  BY WorkerAssumption, FS_RemoveElement, FS_CardinalityType
<1>2. Busy \in SUBSET (Worker \ {w})
  OBVIOUS
<1>3. IsFiniteSet(Busy) /\ Cardinality(Busy) <= Cardinality(Worker) - 1
  BY <1>1, <1>2, FS_Subset
<1>4. f \in Surjection(Busy, Running)
  BY DEF Surjection, Running
<1>5. IsFiniteSet(Running) /\ Cardinality(Running) <= Cardinality(Busy)
  BY <1>3, <1>4, FS_Surjection
<1>6. Cardinality(Busy) \in Nat /\ Cardinality(Running) \in Nat
  BY <1>3, <1>5, FS_CardinalityType
<1>7. QED
  BY <1>1, <1>3, <1>5, <1>6

LEMMA Simulates ==
    ASSUME IInv, Distinct, [Next]_vars
    PROVE  [Executor!Serve]_(Executor!vars)
<1>1. ASSUME NEW t \in Worker \cup Client, NotifyOne(t) PROVE UNCHANGED Executor!vars
  BY <1>1 DEF NotifyOne, Asleep, Executor!vars, IInv, TypeOK
<1>2. ASSUME NEW t \in Worker \cup Client, NEW task \in Task, Enqueue(t, task)
      PROVE  Executor!Submit(task) \/ Executor!Refuse(task)
  <2>1. task \in Executor!Unseen
    BY <1>2 DEF Enqueue, IInv, Accounted, Elements, Running, Executor!Unseen, Executor!Waiting
  <2>2. CASE stop
    BY <1>2, <2>1, <2>2 DEF Enqueue, Executor!Refuse
  <2>3. CASE ~stop
    BY <1>2, <2>1, <2>3 DEF Enqueue, Executor!Submit
  <2>4. QED
    BY <2>2, <2>3
<1>3. ASSUME NEW w \in Worker, Wait(w) \/ SpuriousWake(w) \/ Exit(w)
      PROVE  UNCHANGED Executor!vars
  BY <1>3 DEF Wait, SpuriousWake, Exit, Executor!vars, IInv, TypeOK
<1>4. ASSUME NEW w \in Worker, Take(w) PROVE Executor!Start
  <2>1. Executor!Cardinality(Running) < Cardinality(Worker)
    BY <1>4, RoomForOne DEF Take, Cardinality, Executor!Cardinality
  <2>2. Running' = Running \cup {Head(tasks)}
    BY <1>4 DEF Take, Running, IInv, TypeOK
  <2>3. QED
    BY <1>4, <2>1, <2>2 DEF Take, Running, Executor!Start
<1>5. ASSUME NEW w \in Worker, Return(w) PROVE Executor!Serve
  <2>1. cur[w] \in Task /\ cur[w] \in Running
    BY <1>5 DEF Return, IInv, TypeOK, Running
  <2>2. Running' = Running \ {cur[w]}
    BY <1>5 DEF Return, Running, IInv, TypeOK, Distinct
  <2>3. QED
    BY <1>5, <2>1, <2>2 DEF Return, Running, Executor!Finish, Executor!Serve
<1>6. CASE Stop
  <2>1. stop = FALSE /\ stop' = TRUE
    BY <1>6 DEF Stop, IInv, TypeOK, ExitedMeansEmpty
  <2>2. Running' = Running /\ UNCHANGED <<tasks, finished, refused>>
    BY <1>6 DEF Stop, Running
  <2>3. Executor!Close
    BY <2>1, <2>2 DEF Executor!Close, Running
  <2>4. QED
    BY <2>3 DEF Executor!Serve
<1>7. CASE NotifyAll
  BY <1>7 DEF NotifyAll, Asleep, Executor!vars, IInv, TypeOK
<1>8. CASE Join \/ Destroyed \/ UNCHANGED vars
  BY <1>8 DEF Join, Destroyed, vars, poolVars, Executor!vars
<1>9. ASSUME NEW t \in Worker \cup Client, NEW task \in Task, Enqueue(t, task)
      PROVE  Executor!Serve
  BY <1>2, <1>9 DEF Executor!Serve
<1>10. ASSUME NEW w \in Worker, Take(w) PROVE Executor!Serve
  BY <1>4, <1>10 DEF Executor!Serve
<1>11. QED
  BY <1>1, <1>3, <1>5, <1>6, <1>7, <1>8, <1>9, <1>10 DEF Next

\* Whatever the number of workers, the pool takes tasks in the order of
\* enqueue, runs each one once and never more at a time than it has threads,
\* and drops only what is enqueued after the destructor began.
THEOREM ImplementsExecutor == Spec => Executor!ServesInOrder
<1>1. Init => Executor!Init /\ Distinct
  BY DEF Init, Executor!Init, Distinct, Elements, Running
<1>2. IInv /\ Distinct /\ [Next]_vars => Distinct'
  BY DistinctStep DEF IInv
<1>3. IInv /\ Distinct /\ [Next]_vars => [Executor!Serve]_(Executor!vars)
  BY Simulates
<1>4. QED
  BY <1>1, <1>2, <1>3, Inductive, PTL DEF Spec, Executor!ServesInOrder
=============================================================================
