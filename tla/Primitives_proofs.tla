-------------------------- MODULE Primitives_proofs --------------------------
(***************************************************************************)
(* The components that MC_Primitives runs one at a time, for any number of *)
(* callers, streams, singletons, programs, posters, requests and tools:    *)
(* what a thread, a child process, the singletons of a program, a log, a   *)
(* pump, an HTTP client and a service leave behind and report.  An         *)
(* invariant of a component is kept by its own steps, and by those of the  *)
(* others because they leave its variables alone (Alone).                  *)
(***************************************************************************)
EXTENDS MC_Primitives, SequenceTheorems, WellFoundedInduction, TLAPS

\* A step is one of one component, and the others stand still.
LEMMA Alone ==
    ASSUME [Next]_vars
    PROVE  /\ E!Next \/ UNCHANGED eventVars
           /\ T!Next \/ UNCHANGED threadVars
           /\ A!Next \/ UNCHANGED exitVars
           /\ C!Next \/ UNCHANGED processVars
           /\ S!Next \/ UNCHANGED programVars
           /\ L!Next \/ UNCHANGED logVars
           /\ W!Next \/ UNCHANGED pumpVars
           /\ H!Next \/ UNCHANGED httpVars
           /\ V!Next \/ UNCHANGED serviceVars
           /\ R!Next \/ UNCHANGED watchVars
           /\ I!Next \/ UNCHANGED timerVars
BY DEF Next, vars, EventStep, ThreadStep, AtExitStep, ProcessStep, ProgramStep, LogStep, PumpStep,
       HttpStep, ServiceStep, WatchStep, TimerStep

LEMMA Safety == Spec => Init /\ [][Next]_vars
BY DEF Spec
-----------------------------------------------------------------------------
(* Thread: the lemmas of Thread_proofs, with the variables of this module. *)

TP == INSTANCE Thread_proofs WITH pc <- callerPc

\* One way of ending the thread is used, and nobody ends it while it starts.
OneWay == ~Eager /\ \A u \in Usages : \E e \in T!Ends : u \subseteq {e}

\* T and TP are the same definitions.
LEMMA SameThread ==
    /\ TP!ConstantsOK
    /\ OneWay => TP!OneWay
    /\ T!Init => TP!Init
    /\ T!Next => TP!Next
    /\ UNCHANGED threadVars => UNCHANGED TP!vars
<1>1. TP!ConstantsOK
  BY ConstantsOK DEF ConstantsOK, T!ConstantsOK, TP!ConstantsOK, T!Ends, TP!Ends
<1>2. OneWay => TP!OneWay
  BY DEF OneWay, TP!OneWay, T!Ends, TP!Ends
<1>3. T!Init => TP!Init
  BY DEF T!Init, TP!Init, T!Caller, TP!Caller
<1>4. T!Next => TP!Next
  BY DEF T!Next, TP!Next, T!ThreadStep, TP!ThreadStep, T!OwnerStep, TP!OwnerStep,
      T!StopSoonStep, TP!StopSoonStep, T!start, TP!start, T!TestRunning, TP!TestRunning,
      T!SpuriousWake, TP!SpuriousWake, T!StartReturns, TP!StartReturns, T!StopSoonChecks,
      TP!StopSoonChecks, T!StopSoonMarks, TP!StopSoonMarks, T!StopSoonPosts,
      TP!StopSoonPosts, T!StopSoonWakes, TP!StopSoonWakes, T!StopSoonReturns,
      TP!StopSoonReturns, T!AfterStopSoon, TP!AfterStopSoon, T!stopSoon, TP!stopSoon, T!stop,
      TP!stop, T!join, TP!join, T!Joined, TP!Joined, T!HelperMayAct, TP!HelperMayAct,
      T!HelperStops, TP!HelperStops, T!HelperQuits, TP!HelperQuits, T!BuildLoop,
      TP!BuildLoop, T!onBeforeThreadRunning, TP!onBeforeThreadRunning, T!SetRunning,
      TP!SetRunning, T!NotifyRunning, TP!NotifyRunning, T!LeaveRun, TP!LeaveRun,
      T!onAfterThreadRunning, TP!onAfterThreadRunning, T!ResetLoop, TP!ResetLoop, T!Unwind,
      TP!Unwind, T!Rest, TP!Rest, T!vars, TP!vars, T!object, TP!object, T!Goto, TP!Goto,
      T!Caller, TP!Caller
<1>5. UNCHANGED threadVars => UNCHANGED TP!vars
  BY DEF threadVars, TP!vars, TP!object
<1>6. QED
  BY <1>1, <1>2, <1>3, <1>4, <1>5

LEMMA ThreadInv ==
    ASSUME OneWay
    PROVE  Spec => []TP!IInv
<1>1. Init => TP!IInv
  BY SameThread, TP!InductiveInit DEF Init
<1>2. TP!IInv /\ [Next]_vars => TP!IInv'
  <2> SUFFICES ASSUME TP!IInv, [Next]_vars PROVE TP!IInv'
    OBVIOUS
  <2>1. TP!ConstantsOK /\ TP!OneWay /\ [TP!Next]_(TP!vars)
    BY SameThread, Alone
  <2>2. QED
    BY <2>1, TP!InductiveStep
<1>3. QED
  BY <1>1, <1>2, Safety, PTL

\* With one way of ending the thread, and nobody ending it while it starts,
\* messageLoop_ is never null between the test of stopSoon and the call of
\* postTask.  The loop may be gone before that call is over.
THEOREM LoopIsFound ==
    ASSUME OneWay
    PROVE  Spec => []StopFindsLoop
<1>1. TP!IInv => StopFindsLoop
  BY DEF TP!IInv, TP!MarkedIsAlive, StopFindsLoop, T!StopFindsLoop, TP!Caller, T!Caller
<1>2. QED
  BY <1>1, ThreadInv, PTL

\* However the thread is ended, start returns only after onBeforeThreadRunning
\* has returned for the delegate of this start.
THEOREM SetupIsWaitedFor == Spec => StartWaitsForSetup
<1> DEFINE SetUp == TP!TypeOK /\ TP!Reset /\ TP!SetUpSeen
<1>1. Init => SetUp
  BY SameThread, TP!InitTypes DEF Init, TP!Init, TP!SetUpSeen, TP!InStart, TP!Caller
<1>2. SetUp /\ [Next]_vars => SetUp'
  <2> SUFFICES ASSUME SetUp, [Next]_vars PROVE SetUp'
    OBVIOUS
  <2>1. TP!ConstantsOK /\ [TP!Next]_(TP!vars)
    BY SameThread, Alone
  <2>2. QED
    BY <2>1, TP!TypeStep, TP!ResetStep, TP!SetUpStep
<1>3. SetUp /\ [Next]_vars =>
        [T!StartReturns => main \notin {"born", "setup", "ready"} /\ setUpFor = delegate]_(T!vars)
  BY DEF TP!SetUpSeen, TP!InStart, TP!TypeOK, T!StartReturns
<1> HIDE DEF SetUp
<1>4. QED
  BY <1>1, <1>2, <1>3, Safety, PTL DEF StartWaitsForSetup, T!StartWaitsForSetup
-----------------------------------------------------------------------------
(* WinService: the operations of a service, one at a time. *)

\* What is known of the service while it handles o, which was asked for when
\* its status was as said: where it comes back to if the handler throws.
ServiceTells == status = did \/ (status = "START_PENDING" /\ did = "STOPPED")
Handles(o, was) ==
    /\ o = "start" => did = "STOPPED"
    /\ o = "stop" => was = did
    /\ o = "pause" => did = "RUNNING"
    /\ o = "continue" => did = "PAUSED"
    /\ o = "shutdown" => ServiceTells

ServiceOps == {"start", "stop", "pause", "continue", "shutdown"}

ServiceInv ==
    /\ op \in [V!ServiceThread -> ServiceOps \cup {"none"}]
    /\ original \in [V!ServiceThread -> V!States]
    /\ misused \in BOOLEAN
    /\ ~misused =>
        /\ V!Quiet => ServiceTells
        /\ \A v, w \in V!ServiceThread : op[v] # "none" /\ op[w] # "none" => v = w
        /\ \A w \in V!ServiceThread : op[w] # "none" => Handles(op[w], original[w])

\* An operation that begins at rest, as it may be asked for.
LEMMA BeginKeeps ==
    ASSUME ServiceInv, NEW w \in V!ServiceThread, NEW o \in ServiceOps, V!Begin(w, o),
           status \in V!States, did' = did,
           o = "start" => did = "STOPPED",
           o = "stop" => status # "START_PENDING" \/ did # "STOPPED"
    PROVE  ServiceInv'
<1>1. /\ op' = [op EXCEPT ![w] = o] /\ original' = [original EXCEPT ![w] = status]
      /\ status' = IF o = "shutdown" THEN status ELSE V!Pending[o]
      /\ misused' = (misused \/ ~V!Quiet \/ (o = "pause" /\ did # "RUNNING")
                                         \/ (o = "continue" /\ did # "PAUSED"))
  BY DEF V!Begin
<1>2. op'[w] = o /\ \A v \in V!ServiceThread \ {w} : op'[v] = op[v]
  BY <1>1 DEF ServiceInv
<1>3. original'[w] = status
  BY <1>1 DEF ServiceInv
<1>4. /\ op' \in [V!ServiceThread -> ServiceOps \cup {"none"}]
      /\ original' \in [V!ServiceThread -> V!States]
      /\ misused' \in BOOLEAN
  BY <1>1 DEF ServiceInv
<1>5. ASSUME ~misused'
      PROVE  /\ ~V!Quiet'
             /\ \A v \in V!ServiceThread : op'[v] # "none" => v = w
             /\ Handles(o, original[w])'
  <2>1. ~misused /\ V!Quiet /\ ServiceTells
    BY <1>1, <1>5 DEF ServiceInv
  <2>2. \A v \in V!ServiceThread : op'[v] # "none" => v = w
    BY <1>2, <2>1 DEF V!Quiet
  <2>3. ~V!Quiet'
    BY <1>2 DEF V!Quiet, ServiceOps
  <2>4. /\ o = "stop" => status = did
        /\ o = "pause" => did = "RUNNING"
        /\ o = "continue" => did = "PAUSED"
        /\ o = "shutdown" => status' = status
    BY <1>1, <1>5, <2>1 DEF ServiceTells
  <2>5. Handles(o, original[w])'
    BY <1>3, <2>1, <2>4 DEF Handles, ServiceTells
  <2>6. QED
    BY <2>2, <2>3, <2>5
<1>6. ASSUME ~misused', NEW v \in V!ServiceThread, op'[v] # "none"
      PROVE  Handles(op[v], original[v])'
  BY <1>2, <1>5, <1>6
<1>7. QED
  BY <1>4, <1>5, <1>6 DEF ServiceInv

\* The end of an operation, whether its handler has thrown or not.
LEMMA EndKeeps ==
    ASSUME ServiceInv, NEW w \in V!ServiceThread, NEW b \in BOOLEAN, V!End(w, b)
    PROVE  ServiceInv'
<1>1. /\ op[w] # "none" /\ op' = [op EXCEPT ![w] = "none"]
      /\ did' = IF b THEN V!Achieved(op[w]) ELSE did
      /\ status' = IF b THEN V!Achieved(op[w]) ELSE V!Restored(op[w], original[w])
      /\ UNCHANGED <<original, misused>>
  BY DEF V!End
<1>2. op[w] \in ServiceOps
  BY <1>1 DEF ServiceInv
<1>3. op'[w] = "none" /\ \A v \in V!ServiceThread \ {w} : op'[v] = op[v]
  BY <1>1 DEF ServiceInv
<1>4. /\ op' \in [V!ServiceThread -> ServiceOps \cup {"none"}]
      /\ original' \in [V!ServiceThread -> V!States]
      /\ misused' \in BOOLEAN
  BY <1>1 DEF ServiceInv
<1>5. ASSUME ~misused PROVE ServiceTells' /\ \A v \in V!ServiceThread : op'[v] = "none"
  <2>1. \A v \in V!ServiceThread : op'[v] = "none"
    BY <1>1, <1>3, <1>5 DEF ServiceInv
  <2>2. Handles(op[w], original[w])
    BY <1>1, <1>5 DEF ServiceInv
  <2>3. CASE b
    BY <1>1, <2>1, <2>3 DEF ServiceTells
  <2>4. CASE ~b
    BY <1>1, <1>2, <2>1, <2>2, <2>4 DEF Handles, V!Restored, ServiceOps, ServiceTells
  <2>5. QED
    BY <2>1, <2>3, <2>4
<1>6. QED
  BY <1>1, <1>4, <1>5 DEF ServiceInv

LEMMA ServiceStep1 ==
    ASSUME ServiceInv, status \in V!States, V!Next \/ UNCHANGED serviceVars
    PROVE  ServiceInv'
<1>1. CASE V!ServiceMain
  <2>1. CASE V!Begin("main", "start")
    BY <1>1, <2>1, BeginKeeps DEF V!ServiceMain, V!ServiceThread, ServiceOps
  <2>2. CASE status' = "STOPPED" /\ UNCHANGED <<op, original, misused>>
    BY <1>1, <2>2 DEF V!ServiceMain, ServiceInv, ServiceTells, V!Quiet
  <2>3. QED
    BY <1>1, <2>1, <2>2 DEF V!ServiceMain
<1>2. CASE V!Stop
  BY <1>2, BeginKeeps DEF V!Stop, V!ServiceThread, ServiceOps
<1>3. ASSUME NEW o \in {"pause", "continue", "shutdown"}, V!SystemControl(o) PROVE ServiceInv'
  BY <1>3, BeginKeeps DEF V!SystemControl, V!ServiceThread, ServiceOps
<1>4. ASSUME NEW t \in Tool, V!ControlService(t) PROVE ServiceInv'
  <2>1. CASE V!Begin("control", "stop") /\ V!Accepts
    BY <1>4, <2>1, BeginKeeps DEF V!ControlService, V!ServiceThread, ServiceOps, V!Accepts
  <2>2. CASE UNCHANGED <<status, op, original, misused>>
    BY <1>4, <2>2 DEF V!ControlService, ServiceInv, ServiceTells, Handles, V!Quiet
  <2>3. QED
    BY <1>4, <2>1, <2>2 DEF V!ControlService
<1>5. ASSUME NEW t \in Tool, V!StartServiceW(t) PROVE ServiceInv'
  BY <1>5 DEF V!StartServiceW, ServiceInv, ServiceTells, Handles, V!Quiet
<1>6. ASSUME NEW w \in V!ServiceThread, NEW b \in BOOLEAN, V!End(w, b) PROVE ServiceInv'
  BY <1>6, EndKeeps
<1>7. CASE UNCHANGED <<status, did, op, original, misused>>
  BY <1>7 DEF ServiceInv, ServiceTells, Handles, V!Quiet
<1>8. QED
  BY <1>1, <1>2, <1>3, <1>4, <1>5, <1>6, <1>7
  DEF V!Next, V!Handler, V!Removed, V!Sleeps, V!Install, V!QueryToStart, V!QueryToStop, V!Uninstall,
      V!Query, V!OnlyTools, V!Goes, V!ControlTimesOut, V!Poll, V!DeleteService, V!serviceVars,
      serviceVars

\* The status is one of the states.
LEMMA StatesKept ==
    ASSUME ServiceInv, status \in V!States, V!Next \/ UNCHANGED serviceVars
    PROVE  status' \in V!States
<1>1. \A o \in ServiceOps \ {"shutdown"} : V!Pending[o] \in V!States
  BY DEF ServiceOps, V!Pending, V!States
<1>2. ASSUME NEW w \in V!ServiceThread, NEW o \in ServiceOps, V!Begin(w, o)
      PROVE  status' \in V!States
  BY <1>1, <1>2 DEF V!Begin
<1>3. ASSUME NEW w \in V!ServiceThread, NEW b \in BOOLEAN, V!End(w, b)
      PROVE  status' \in V!States
  <2>1. op[w] \in ServiceOps /\ original[w] \in V!States
    BY <1>3 DEF V!End, ServiceInv
  <2>2. V!Achieved(op[w]) \in V!States
    BY <2>1 DEF ServiceOps, V!Achieved, V!States
  <2>3. V!Restored(op[w], original[w]) \in V!States
    BY <2>1 DEF ServiceOps, V!Restored, V!States
  <2>4. QED
    BY <1>3, <2>2, <2>3 DEF V!End
<1>4. {"STOPPED", "START_PENDING"} \subseteq V!States
  BY DEF V!States, V!Pending
<1>5. QED
  BY <1>2, <1>3, <1>4
  DEF V!Next, V!Handler, V!ServiceMain, V!Stop, V!SystemControl, V!Removed, V!Sleeps, V!Install,
      V!QueryToStart, V!QueryToStop, V!Uninstall, V!Query, V!OnlyTools, V!Goes, V!ControlService,
      V!StartServiceW, V!ControlTimesOut, V!Poll, V!DeleteService, V!serviceVars, serviceVars,
      V!ServiceThread, ServiceOps

LEMMA ServiceHolds == Spec => [](ServiceInv /\ status \in V!States)
<1>1. Init => ServiceInv /\ status \in V!States
  BY DEF Init, V!Init, ServiceInv, ServiceTells, V!States
<1>2. ServiceInv /\ status \in V!States /\ [Next]_vars => (ServiceInv /\ status \in V!States)'
  BY Alone, ServiceStep1, StatesKept
<1>3. QED
  BY <1>1, <1>2, Safety, PTL
-----------------------------------------------------------------------------
(* HttpClient: two threads that close the same handles. *)

\* What a thread may have left to close: every kind at most once, and only the
\* first of them closed already and about to be forgotten.
ACloseStep == [kind : H!Kind, shut : BOOLEAN]
CloseList(q) ==
    /\ q \in Seq(ACloseStep)
    /\ \A i \in DOMAIN q : i > 1 => ~q[i].shut
    /\ \A i, j \in DOMAIN q : q[i].kind = q[j].kind => i = j
Left(q) == {q[i].kind : i \in DOMAIN q}
HeadShut(q, k) == q # <<>> /\ Head(q).shut /\ Head(q).kind = k

LEMMA ClosesFacts ==
    /\ CloseList(H!Closes) /\ Left(H!Closes) = H!Kind
    /\ \A k : ~HeadShut(H!Closes, k) /\ ~HeadShut(<<>>, k)
    /\ CloseList(<<>>) /\ Left(<<>>) = {}
<1>1. /\ DOMAIN H!Closes = {1, 2, 3} /\ H!Closes \in Seq(ACloseStep)
      /\ H!Closes[1].kind = "request" /\ H!Closes[2].kind = "connect"
      /\ H!Closes[3].kind = "session" /\ \A i \in {1, 2, 3} : ~H!Closes[i].shut
  <2>1. 1 .. 3 = {1, 2, 3}
    OBVIOUS
  <2>2. \A k \in H!Kind : [kind |-> k, shut |-> FALSE] \in ACloseStep
    BY DEF ACloseStep
  <2>3. QED
    BY <2>1, <2>2 DEF H!Closes, H!Kind
<1>2. CloseList(H!Closes)
  BY <1>1 DEF CloseList
<1>3. Left(H!Closes) = H!Kind
  BY <1>1 DEF Left, H!Kind
<1>4. \A k : ~HeadShut(H!Closes, k) /\ ~HeadShut(<<>>, k)
  BY DEF HeadShut, H!Closes
<1>5. CloseList(<<>>) /\ Left(<<>>) = {}
  BY EmptySeq DEF CloseList, Left
<1>6. QED
  BY <1>2, <1>3, <1>4, <1>5

LEMMA CloseListFacts ==
    ASSUME NEW q, CloseList(q), q # <<>>
    PROVE  /\ Head(q).kind \in H!Kind /\ Head(q).kind \in Left(q)
           /\ CloseList(Tail(q)) /\ Left(Tail(q)) = Left(q) \ {Head(q).kind}
           /\ \A k : ~HeadShut(Tail(q), k)
           /\ CloseList([q EXCEPT ![1].shut = TRUE])
           /\ Left([q EXCEPT ![1].shut = TRUE]) = Left(q)
           /\ \A k : HeadShut([q EXCEPT ![1].shut = TRUE], k) <=> k = Head(q).kind
<1> DEFINE n == Len(q)
           t == Tail(q)
           r == [q EXCEPT ![1].shut = TRUE]
<1>1. /\ n \in Nat /\ n > 0 /\ DOMAIN q = 1 .. n /\ 1 \in DOMAIN q
      /\ \A i \in 1 .. n : q[i] \in ACloseStep
      /\ Head(q) = q[1] /\ q \in Seq(ACloseStep)
  BY LenProperties, EmptySeq, ElementOfSeq, HeadTailProperties DEF CloseList
<1>2. /\ t \in Seq(ACloseStep) /\ DOMAIN t = 1 .. n - 1
      /\ \A i \in 1 .. n - 1 : t[i] = q[i + 1]
  <2>1. t \in Seq(ACloseStep) /\ Len(t) = n - 1 /\ \A i \in 1 .. Len(t) : t[i] = q[i + 1]
    BY <1>1, HeadTailProperties
  <2>2. QED
    BY <2>1, LenProperties
<1>3. /\ r \in Seq(ACloseStep) /\ DOMAIN r = 1 .. n /\ r # <<>> /\ Head(r) = r[1]
      /\ r[1].kind = q[1].kind /\ r[1].shut
      /\ \A i \in 2 .. n : r[i] = q[i]
  <2>1. [q[1] EXCEPT !.shut = TRUE] \in ACloseStep
    BY <1>1 DEF ACloseStep
  <2>2. r \in Seq(ACloseStep) /\ Len(r) = n
    BY <1>1, <2>1, ExceptSeq
  <2>3. DOMAIN r = 1 .. n /\ r # <<>> /\ Head(r) = r[1]
    BY <1>1, <2>2, LenProperties, EmptySeq, HeadTailProperties
  <2>4. r[1] = [q[1] EXCEPT !.shut = TRUE] /\ \A i \in 2 .. n : r[i] = q[i]
    BY <1>1
  <2>5. r[1].kind = q[1].kind /\ r[1].shut
    BY <1>1, <2>4 DEF ACloseStep
  <2>6. QED
    BY <2>2, <2>3, <2>4, <2>5
<1> HIDE DEF n, t, r
<1>4. Head(q).kind \in H!Kind /\ Head(q).kind \in Left(q)
  BY <1>1 DEF ACloseStep, Left
<1>5. CloseList(t)
  <2>1. ASSUME NEW i \in DOMAIN t
        PROVE  i \in Nat /\ i + 1 \in DOMAIN q /\ i + 1 > 1 /\ t[i] = q[i + 1]
    BY <1>1, <1>2
  <2>2. \A i \in DOMAIN t : ~t[i].shut
    BY <2>1 DEF CloseList
  <2>3. ASSUME NEW i \in DOMAIN t, NEW j \in DOMAIN t, t[i].kind = t[j].kind PROVE i = j
    <3>1. i + 1 = j + 1
      BY <2>1, <2>3 DEF CloseList
    <3>2. QED
      BY <2>1, <3>1
  <2>4. QED
    BY <1>2, <2>2, <2>3 DEF CloseList
<1>6. Left(t) = Left(q) \ {Head(q).kind}
  <2>1. ASSUME NEW i \in DOMAIN t PROVE t[i].kind \in Left(q) \ {q[1].kind}
    <3>1. i + 1 \in DOMAIN q /\ i + 1 # 1 /\ t[i] = q[i + 1]
      BY <1>1, <1>2
    <3>2. QED
      BY <1>1, <3>1 DEF CloseList, Left
  <2>2. ASSUME NEW i \in DOMAIN q, i # 1 PROVE q[i].kind \in Left(t)
    <3>1. i - 1 \in DOMAIN t /\ (i - 1) + 1 = i
      BY <1>1, <1>2, <2>2
    <3>2. t[i - 1] = q[i]
      BY <1>2, <3>1
    <3>3. QED
      BY <3>1, <3>2 DEF Left
  <2>3. QED
    BY <1>1, <2>1, <2>2 DEF Left
<1>7. \A k : ~HeadShut(t, k)
  <2>1. ASSUME t # <<>> PROVE ~Head(t).shut
    <3>1. Head(t) = t[1] /\ 1 \in DOMAIN t
      <4>1. Len(t) \in Nat /\ Len(t) # 0 /\ DOMAIN t = 1 .. Len(t)
        BY <1>2, <2>1, LenProperties, EmptySeq
      <4>2. QED
        BY <4>1
    <3>2. 2 \in DOMAIN q /\ t[1] = q[2]
      BY <1>1, <1>2, <3>1
    <3>3. QED
      BY <3>1, <3>2 DEF CloseList
  <2>2. QED
    BY <2>1 DEF HeadShut
<1>8. \A i \in DOMAIN q : r[i].kind = q[i].kind /\ (i > 1 => r[i] = q[i])
  BY <1>1, <1>3
<1>9. CloseList(r) /\ Left(r) = Left(q)
  BY <1>1, <1>3, <1>8 DEF CloseList, Left
<1>10. \A k : HeadShut(r, k) <=> k = Head(q).kind
  BY <1>1, <1>3 DEF HeadShut
<1>11. QED
  BY <1>4, <1>5, <1>6, <1>7, <1>9, <1>10 DEF t, r

\* The step of doRequest that opens a handle of each kind.
OpensAt(k) == IF k = "session" THEN 1 ELSE IF k = "connect" THEN 3 ELSE 4
Both == {"request thread", "user"}
Codes == {"none", "undecided", "opened", "failed", "success", "USER_ABORT", "lasterror",
          "UNKNOWN_ERROR"}

HttpTypes ==
    /\ members \in [H!Kind -> Nat] /\ count \in Nat /\ step \in 0 .. 9 /\ code \in Codes
    /\ inCall \in BOOLEAN /\ abort_ \in BOOLEAN /\ cut \in BOOLEAN
    /\ DOMAIN handles = Both /\ \A w \in Both : CloseList(handles[w])
    /\ user \in {"idle", "aborting", "deleting", "deleting http", "gone"}

\* Every open handle is the one a member holds, unless a thread has just closed
\* it; the request thread forgets each kind before it has answered.
HandlesHeld ==
    /\ \A h \in open : \E k \in H!Kind : h = <<k, members[k]>> /\ members[k] # 0
    /\ \A w \in Both, k \in H!Kind : HeadShut(handles[w], k) => <<k, members[k]>> \notin open
    /\ step = 0 => \A k \in H!Kind \ Left(handles["request thread"]) : members[k] = 0

\* A kind that the request has yet to open has no handle, and nobody is about to
\* forget one.
NotYet(k) ==
    \/ code = "undecided" /\ 1 <= step /\ step <= OpensAt(k)
    \/ code = "opened" /\ 1 <= step /\ step < OpensAt(k)
NotYetOpened ==
    \A k \in H!Kind : NotYet(k) => members[k] = 0 /\ ~HeadShut(handles["user"], k)

\* Where the two threads may be.
HttpControl ==
    /\ inCall => code = "undecided"
    /\ code \in {"undecided", "opened", "failed"} => step # 0
    /\ code = "opened" => step \in {1, 3, 4}
    /\ code = "none" => step = 0
    /\ step # 0 => count # 0
    /\ step # 0 \/ code = "none" => handles["request thread"] = <<>>
    /\ user \in {"idle", "gone"} => handles["user"] = <<>>
    /\ user \in {"deleting http", "gone"} => code = "none"
    /\ user # "idle" \/ cut => abort_
    /\ code \in {"lasterror", "UNKNOWN_ERROR"} => ~cut

HttpInv == HttpTypes /\ HandlesHeld /\ NotYetOpened /\ HttpControl

LEMMA StepOpens ==
    ASSUME step \in 1 .. 9
    PROVE  /\ Len(H!Steps) = 9
           /\ H!Opens \in H!Kind \cup {"none"}
           /\ \A k \in H!Kind : H!Opens = k <=> step = OpensAt(k)
           /\ H!Opens # "none" => step \in {1, 3, 4}
<1>1. step \in {1, 2, 3, 4, 5, 6, 7, 8, 9}
  OBVIOUS
<1>2. /\ step = 1 => H!Opens = "session"
      /\ step = 3 => H!Opens = "connect"
      /\ step = 4 => H!Opens = "request"
      /\ step \notin {1, 3, 4} => H!Opens = "none"
  BY <1>1 DEF H!Opens, H!Steps
<1>3. Len(H!Steps) = 9
  BY DEF H!Steps
<1>4. OpensAt("session") = 1 /\ OpensAt("connect") = 3 /\ OpensAt("request") = 4
  BY DEF OpensAt
<1>5. H!Kind = {"session", "connect", "request"}
  BY DEF H!Kind
<1>6. CASE step \in {1, 3, 4}
  <2>1. \A k \in {"session", "connect", "request"} : H!Opens = k <=> step = OpensAt(k)
    BY <1>2, <1>4, <1>6
  <2>2. QED
    BY <1>2, <1>3, <1>5, <1>6, <2>1
<1>7. CASE step \notin {1, 3, 4}
  <2>1. \A k \in {"session", "connect", "request"} : H!Opens # k /\ step # OpensAt(k)
    BY <1>2, <1>4, <1>7
  <2>2. QED
    BY <1>2, <1>3, <1>5, <1>7, <2>1
<1>8. QED
  BY <1>6, <1>7

\* The steps of the request thread before its end.
LEMMA RequestKeeps ==
    ASSUME HttpInv, H!Enter \/ H!CallFails \/ H!CallSucceeds \/ H!TestOpened \/ H!Fails
    PROVE  HttpInv'
<1> USE DEF HttpInv
<1>0. /\ step \in 1 .. 9 /\ step \in Nat /\ step # 0
      /\ \A k \in H!Kind : OpensAt(k) \in {1, 3, 4}
  <2>1. step # 0
    BY DEF H!Enter, H!CallFails, H!CallSucceeds, H!TestOpened, H!Fails, HttpControl
  <2>2. step \in 0 .. 9
    BY DEF HttpTypes
  <2>3. \A k \in H!Kind : OpensAt(k) \in {1, 3, 4}
    BY DEF OpensAt, H!Kind
  <2>4. QED
    BY <2>1, <2>2, <2>3
<1>1. CASE H!Enter
  <2>1. /\ code = "undecided" /\ code' \in {"failed", "undecided"} /\ inCall' \in BOOLEAN
        /\ inCall' => code' = "undecided"
        /\ UNCHANGED <<members, open, abort_, dwGLE, count, step, handles, user, cut>>
    BY <1>1 DEF H!Enter, HttpTypes, HttpControl
  <2>2. HttpTypes' /\ HandlesHeld'
    BY <2>1 DEF HttpTypes, HandlesHeld, Codes
  <2>3. NotYetOpened'
    BY <2>1 DEF NotYetOpened, NotYet
  <2>4. HttpControl'
    BY <1>0, <2>1 DEF HttpControl
  <2>5. QED
    BY <2>2, <2>3, <2>4
<1>2. CASE H!CallFails
  <2>1. /\ inCall /\ code = "undecided" /\ inCall' = FALSE /\ code' = "failed"
        /\ UNCHANGED <<open, abort_, count, step, handles, user, cut>>
    BY <1>2 DEF H!CallFails, HttpControl
  <2>2. members' = members
    <3>1. ASSUME H!Opens # "none" PROVE members[H!Opens] = 0 /\ members' = [members EXCEPT ![H!Opens] = 0]
      <4>1. H!Opens \in H!Kind /\ NotYet(H!Opens)
        BY <1>0, <2>1, <3>1, StepOpens DEF NotYet
      <4>2. QED
        BY <1>2, <3>1, <4>1 DEF NotYetOpened, H!CallFails
    <3>2. H!Opens = "none" => members' = members
      BY <1>2 DEF H!CallFails
    <3>3. QED
      BY <3>1, <3>2 DEF HttpTypes
  <2>3. HttpTypes' /\ HandlesHeld'
    BY <2>1, <2>2 DEF HttpTypes, HandlesHeld, Codes
  <2>4. NotYetOpened' /\ HttpControl'
    BY <1>0, <2>1, <2>2 DEF NotYetOpened, NotYet, HttpControl
  <2>5. QED
    BY <2>3, <2>4
<1>3. CASE H!CallSucceeds
  <2>1. /\ inCall /\ code = "undecided" /\ inCall' = FALSE
        /\ UNCHANGED <<abort_, count, handles, user, cut>>
    BY <1>3 DEF H!CallSucceeds, HttpControl
  <2>2. CASE H!Opens = "none"
    <3>1. UNCHANGED <<members, open>> /\ code' \in {"success", "undecided"}
      BY <1>3, <2>2 DEF H!CallSucceeds
    <3>2. \/ code' = "undecided" /\ step < 9 /\ step' = step + 1
          \/ code' = "success" /\ step' = step
      <4>1. Len(H!Steps) = 9
        BY <1>0, StepOpens
      <4>2. step = 9 => code' = "success" /\ step' = step
        BY <1>3, <2>2, <4>1 DEF H!CallSucceeds
      <4>3. step # 9 => code' = "undecided" /\ step < 9 /\ step' = step + 1
        BY <1>0, <1>3, <2>2, <4>1 DEF H!CallSucceeds
      <4>4. QED
        BY <4>2, <4>3
    <3>3. step' \in 0 .. 9 /\ step' # 0
      BY <1>0, <3>2
    <3>4. HttpTypes'
      BY <2>1, <3>1, <3>3 DEF HttpTypes, Codes
    <3>5. HandlesHeld'
      BY <2>1, <3>1, <3>3 DEF HandlesHeld
    <3>6. NotYetOpened'
      <4>1. ASSUME NEW k \in H!Kind, NotYet(k)' PROVE NotYet(k)
        BY <1>0, <2>1, <3>1, <3>2, <4>1 DEF NotYet
      <4>2. QED
        BY <2>1, <3>1, <4>1 DEF NotYetOpened
    <3>7. HttpControl'
      BY <1>0, <2>1, <3>1, <3>3 DEF HttpControl
    <3>8. QED
      BY <3>4, <3>5, <3>6, <3>7
  <2>3. CASE H!Opens # "none"
    <3> DEFINE o == H!Opens
    <3>1. /\ o \in H!Kind /\ step = OpensAt(o) /\ step \in {1, 3, 4}
          /\ \A k \in H!Kind : k # o => step # OpensAt(k)
      BY <1>0, <2>3, StepOpens
    <3>2. /\ members' = [members EXCEPT ![o] = count] /\ open' = open \cup {<<o, count>>}
          /\ code' = "opened" /\ step' = step
      BY <1>3, <2>3 DEF H!CallSucceeds
    <3> HIDE DEF o
    <3>3. members'[o] = count /\ \A k \in H!Kind : k # o => members'[k] = members[k]
      BY <3>1, <3>2 DEF HttpTypes
    <3>4. members[o] = 0 /\ ~HeadShut(handles["user"], o)
      BY <2>1, <3>1, <1>0 DEF NotYetOpened, NotYet
    <3>5. HttpTypes'
      BY <2>1, <3>1, <3>2 DEF HttpTypes, Codes
    <3>6. HandlesHeld'
      <4>1. count # 0 /\ handles["request thread"] = <<>> /\ step # 0
        BY <1>0 DEF HttpControl
      <4>2. \A h \in open' : \E k \in H!Kind : h = <<k, members'[k]>> /\ members'[k] # 0
        <5>1. ASSUME NEW h \in open PROVE \E k \in H!Kind : h = <<k, members'[k]>> /\ members'[k] # 0
          <6>1. PICK k \in H!Kind : h = <<k, members[k]>> /\ members[k] # 0
            BY DEF HandlesHeld
          <6>2. k # o
            BY <3>4, <6>1
          <6>3. QED
            BY <3>3, <6>1, <6>2
        <5>2. QED
          BY <3>1, <3>2, <3>3, <4>1, <5>1
      <4>3. ASSUME NEW w \in Both, NEW k \in H!Kind, HeadShut(handles[w], k)
            PROVE  <<k, members'[k]>> \notin open'
        <5>1. k # o
          BY <3>4, <4>1, <4>3 DEF Both, HeadShut
        <5>2. members'[k] = members[k] /\ <<k, members[k]>> \notin open
          BY <3>3, <4>3, <5>1 DEF HandlesHeld
        <5>3. QED
          BY <3>2, <5>1, <5>2
      <4>4. QED
        BY <2>1, <3>2, <4>1, <4>2, <4>3 DEF HandlesHeld
    <3>7. NotYetOpened'
      <4>1. ASSUME NEW k \in H!Kind, NotYet(k)' PROVE k # o /\ NotYet(k)
        BY <1>0, <2>1, <3>1, <3>2, <4>1 DEF NotYet
      <4>2. QED
        BY <2>1, <3>3, <4>1 DEF NotYetOpened
    <3>8. HttpControl'
      BY <1>0, <2>1, <3>1, <3>2 DEF HttpControl
    <3>9. QED
      BY <3>5, <3>6, <3>7, <3>8
  <2>4. QED
    BY <2>2, <2>3
<1>4. CASE H!TestOpened
  <2>1. /\ code = "opened" /\ step \in {1, 3, 4}
        /\ UNCHANGED <<members, open, abort_, count, inCall, handles, user, cut>>
    BY <1>4 DEF H!TestOpened, HttpControl
  <2>2. \/ code' = "undecided" /\ step' = step + 1
        \/ code' = "failed" /\ step' = step
    BY <1>4 DEF H!TestOpened
  <2>3. step' \in 0 .. 9 /\ step' # 0 /\ code' \in {"undecided", "failed"}
    BY <2>1, <2>2
  <2>4. HttpTypes'
    BY <2>1, <2>3 DEF HttpTypes, Codes
  <2>5. HandlesHeld'
    BY <2>1, <2>3 DEF HandlesHeld
  <2>6. NotYetOpened'
    <3>1. ASSUME NEW k \in H!Kind, NotYet(k)' PROVE NotYet(k)
      BY <1>0, <2>1, <2>2, <3>1 DEF NotYet
    <3>2. QED
      BY <2>1, <3>1 DEF NotYetOpened
  <2>7. HttpControl'
    <3>1. ~inCall
      BY <2>1 DEF HttpControl
    <3>2. QED
      BY <1>0, <2>1, <2>3, <3>1 DEF HttpControl
  <2>8. QED
    BY <2>4, <2>5, <2>6, <2>7
<1>5. CASE H!Fails
  <2>1. /\ code = "failed"
        /\ UNCHANGED <<members, open, abort_, dwGLE, count, step, inCall, handles, user, cut>>
        /\ code' \in {"USER_ABORT", "lasterror", "UNKNOWN_ERROR"}
        /\ abort_ => code' = "USER_ABORT"
    BY <1>5 DEF H!Fails, H!checkErrorCode
  <2>2. HttpTypes' /\ HandlesHeld'
    BY <2>1 DEF HttpTypes, HandlesHeld, Codes
  <2>3. NotYetOpened'
    BY <2>1 DEF NotYetOpened, NotYet
  <2>4. HttpControl'
    BY <1>0, <2>1 DEF HttpControl
  <2>5. QED
    BY <2>2, <2>3, <2>4
<1>6. QED
  BY <1>1, <1>2, <1>3, <1>4, <1>5

\* The end of a request, and the user.
LEMMA OthersKeep ==
    ASSUME HttpInv,
           \/ H!StartClosing \/ H!Answer \/ H!request \/ H!Abort \/ H!Delete
           \/ H!Aborted \/ H!DeleteHttp \/ H!Deleted \/ UNCHANGED httpVars
    PROVE  HttpInv'
<1> USE ClosesFacts DEF HttpInv
<1>0. inCall => code = "undecided"
  BY DEF HttpControl
<1>1. CASE H!StartClosing
  <2>1. /\ code \in {"success", "USER_ABORT", "lasterror", "UNKNOWN_ERROR"}
        /\ step' = 0 /\ handles' = [handles EXCEPT !["request thread"] = H!Closes]
        /\ UNCHANGED <<members, open, abort_, dwGLE, count, inCall, code, user, cut>>
    BY <1>1 DEF H!StartClosing, H!Decided
  <2>2. /\ DOMAIN handles' = Both /\ handles'["request thread"] = H!Closes
        /\ handles'["user"] = handles["user"]
    BY <2>1 DEF HttpTypes, Both
  <2>3. HttpTypes'
    <3>1. \A w \in Both : CloseList(handles'[w])
      BY <2>2 DEF HttpTypes, Both
    <3>2. step' = 0 /\ step' \in 0 .. 9
      <4>1. step' = 0
        BY <2>1
      <4>2. QED
        BY <4>1
    <3>3. QED
      BY <2>1, <2>2, <3>1, <3>2 DEF HttpTypes
  <2>4. HandlesHeld'
    BY <2>1, <2>2 DEF HandlesHeld, Both
  <2>5. NotYetOpened' /\ HttpControl'
    BY <1>0, <2>1, <2>2 DEF NotYetOpened, NotYet, HttpControl
  <2>6. QED
    BY <2>3, <2>4, <2>5
<1>2. CASE H!Answer
  <2>1. /\ step = 0 /\ handles["request thread"] = <<>> /\ code' = "none"
        /\ code \in {"success", "USER_ABORT", "lasterror", "UNKNOWN_ERROR"}
        /\ UNCHANGED <<members, open, abort_, dwGLE, count, step, inCall, handles, user, cut>>
    BY <1>2 DEF H!Answer, H!Decided
  <2>2. HttpTypes'
    BY <2>1 DEF HttpTypes, Codes
  <2>3. HandlesHeld'
    BY <2>1 DEF HandlesHeld
  <2>4. NotYetOpened' /\ HttpControl'
    BY <1>0, <2>1 DEF NotYetOpened, NotYet, HttpControl
  <2>5. QED
    BY <2>2, <2>3, <2>4
<1>3. CASE H!request
  <2>1. /\ user = "idle" /\ code = "none" /\ count' = count + 1 /\ abort_' = FALSE
        /\ step' = 1 /\ code' = "undecided" /\ cut' = FALSE
        /\ UNCHANGED <<members, open, inCall, handles, user>>
    BY <1>3 DEF H!request, H!Running
  <2>2. /\ step = 0 /\ handles["request thread"] = <<>> /\ handles["user"] = <<>>
        /\ count' \in Nat /\ count' # 0 /\ ~inCall /\ step' \in 0 .. 9 /\ step' # 0
    <3>1. count \in Nat /\ step \in 0 .. 9
      BY DEF HttpTypes
    <3>2. step = 0 /\ handles["request thread"] = <<>> /\ handles["user"] = <<>>
      BY <2>1, <3>1 DEF HttpControl
    <3>3. count' \in Nat /\ count' # 0 /\ step' \in 0 .. 9 /\ step' # 0
      BY <2>1, <3>1
    <3>4. QED
      BY <1>0, <2>1, <3>2, <3>3
  <2>3. \A k \in H!Kind : members[k] = 0
    BY <2>2 DEF HandlesHeld
  <2>4. HttpTypes'
    BY <2>1, <2>2 DEF HttpTypes, Codes
  <2>5. HandlesHeld'
    BY <2>1, <2>2 DEF HandlesHeld
  <2>6. NotYetOpened'
    BY <2>1, <2>2, <2>3 DEF NotYetOpened
  <2>7. HttpControl'
    <3>1. code' = "undecided" /\ user' = "idle" /\ ~inCall' /\ ~cut'
      BY <2>1, <2>2
    <3>2. handles'["request thread"] = <<>> /\ handles'["user"] = <<>> /\ step' # 0 /\ count' # 0
      BY <2>1, <2>2
    <3>3. QED
      BY <3>1, <3>2 DEF HttpControl
  <2>8. QED
    BY <2>4, <2>5, <2>6, <2>7
<1>4. CASE H!Abort \/ H!Delete
  <2>1. /\ user = "idle" /\ user' \in {"aborting", "deleting"} /\ abort_' = TRUE
        /\ handles' = [handles EXCEPT !["user"] = H!Closes]
        /\ UNCHANGED <<members, open, dwGLE, count, step, inCall, code, cut>>
    BY <1>4 DEF H!Abort, H!Delete, H!abort
  <2>2. /\ DOMAIN handles' = Both /\ handles'["user"] = H!Closes
        /\ handles'["request thread"] = handles["request thread"]
    BY <2>1 DEF HttpTypes, Both
  <2>3. HttpTypes'
    BY <2>1, <2>2 DEF HttpTypes, Both
  <2>4. HandlesHeld'
    BY <2>1, <2>2 DEF HandlesHeld, Both
  <2>5. NotYetOpened' /\ HttpControl'
    BY <1>0, <2>1, <2>2 DEF NotYetOpened, NotYet, HttpControl
  <2>6. QED
    BY <2>3, <2>4, <2>5
<1>5. CASE H!DeleteHttp
  <2>1. /\ user = "deleting" /\ user' = "deleting http" /\ code = "none"
        /\ handles' = [handles EXCEPT !["user"] = H!Closes]
        /\ UNCHANGED <<members, open, abort_, dwGLE, count, step, inCall, code, cut>>
    BY <1>5 DEF H!DeleteHttp, H!Running
  <2>2. /\ DOMAIN handles' = Both /\ handles'["user"] = H!Closes
        /\ handles'["request thread"] = handles["request thread"]
    BY <2>1 DEF HttpTypes, Both
  <2>3. HttpTypes'
    BY <2>1, <2>2 DEF HttpTypes, Both
  <2>4. HandlesHeld'
    BY <2>1, <2>2 DEF HandlesHeld, Both
  <2>5. NotYetOpened' /\ HttpControl'
    BY <1>0, <2>1, <2>2 DEF NotYetOpened, NotYet, HttpControl
  <2>6. QED
    BY <2>3, <2>4, <2>5
<1>6. CASE H!Aborted \/ H!Deleted \/ UNCHANGED httpVars
  <2>1. /\ \/ user = "aborting" /\ handles["user"] = <<>> /\ user' = "idle"
           \/ user = "deleting http" /\ handles["user"] = <<>> /\ user' = "gone"
           \/ UNCHANGED user
        /\ UNCHANGED <<members, open, abort_, dwGLE, count, step, inCall, code, handles, cut>>
    BY <1>6 DEF H!Aborted, H!Deleted, httpVars
  <2>2. HttpTypes'
    BY <2>1 DEF HttpTypes
  <2>3. HandlesHeld' /\ NotYetOpened'
    BY <2>1 DEF HandlesHeld, NotYetOpened, NotYet
  <2>4. HttpControl'
    BY <2>1 DEF HttpControl
  <2>5. QED
    BY <2>2, <2>3, <2>4
<1>7. QED
  BY <1>1, <1>2, <1>3, <1>4, <1>5, <1>6

\* A close, of either thread.
LEMMA CloseKeeps ==
    ASSUME HttpInv, NEW who \in Both, H!CloseStep(who)
    PROVE  HttpInv'
<1> DEFINE q == handles[who]
           c == Head(q)
           k0 == c.kind
<1> USE DEF HttpInv
<1>1. /\ q # <<>> /\ CloseList(q)
      /\ UNCHANGED <<abort_, dwGLE, count, step, inCall, code, user>>
  BY DEF H!CloseStep, HttpTypes
<1>2. /\ k0 \in H!Kind /\ k0 \in Left(q)
      /\ CloseList(Tail(q)) /\ Left(Tail(q)) = Left(q) \ {k0}
      /\ \A k : ~HeadShut(Tail(q), k)
      /\ CloseList([q EXCEPT ![1].shut = TRUE])
      /\ Left([q EXCEPT ![1].shut = TRUE]) = Left(q)
      /\ \A k : HeadShut([q EXCEPT ![1].shut = TRUE], k) <=> k = k0
  BY <1>1, CloseListFacts
<1>3. /\ who = "request thread" => step = 0 /\ code # "none"
      /\ who = "user" => user \notin {"idle", "gone"} /\ abort_
  BY <1>1 DEF HttpControl
<1>4. CASE c.shut \/ members[k0] = 0
  <2>1. /\ handles' = [handles EXCEPT ![who] = Tail(q)] /\ UNCHANGED <<open, cut>>
        /\ members' = [members EXCEPT ![k0] = 0]
    <3>1. CASE c.shut
      BY <3>1 DEF H!CloseStep
    <3>2. CASE ~c.shut
      <4>1. /\ handles' = [handles EXCEPT ![who] = Tail(@)] /\ UNCHANGED <<open, cut, members>>
        BY <1>4, <3>2 DEF H!CloseStep
      <4>2. members = [members EXCEPT ![k0] = 0]
        BY <1>2, <1>4, <3>2 DEF HttpTypes
      <4>3. QED
        BY <4>1, <4>2
    <3>3. QED
      BY <3>1, <3>2
  <2>2. /\ DOMAIN handles' = Both /\ handles'[who] = Tail(q)
        /\ \A w \in Both : w # who => handles'[w] = handles[w]
    BY <2>1 DEF HttpTypes
  <2>3. /\ members' \in [H!Kind -> Nat] /\ members'[k0] = 0
        /\ \A k \in H!Kind : k # k0 => members'[k] = members[k]
    BY <1>2, <2>1 DEF HttpTypes
  <2>4. <<k0, members[k0]>> \notin open
    <3>1. CASE c.shut
      BY <1>1, <1>2, <3>1 DEF HandlesHeld, HeadShut
    <3>2. CASE members[k0] = 0
      BY <3>2 DEF HandlesHeld
    <3>3. QED
      BY <1>4, <3>1, <3>2
  <2> HIDE DEF q, c, k0
  <2>5. HttpTypes'
    BY <1>1, <1>2, <2>1, <2>2, <2>3 DEF HttpTypes
  <2>6. HandlesHeld'
    <3>1. ASSUME NEW h \in open PROVE \E k \in H!Kind : h = <<k, members'[k]>> /\ members'[k] # 0
      <4>1. PICK k \in H!Kind : h = <<k, members[k]>> /\ members[k] # 0
        BY DEF HandlesHeld
      <4>2. k # k0
        BY <2>4, <4>1
      <4>3. QED
        BY <2>3, <4>1, <4>2
    <3>2. ASSUME NEW w \in Both, NEW k \in H!Kind, HeadShut(handles'[w], k)
          PROVE  <<k, members'[k]>> \notin open
      <4>1. w # who /\ HeadShut(handles[w], k)
        BY <1>2, <2>2, <3>2
      <4>2. CASE k = k0
        BY <2>3, <3>1, <4>2
      <4>3. CASE k # k0
        BY <2>3, <4>1, <4>3 DEF HandlesHeld
      <4>4. QED
        BY <4>2, <4>3
    <3>3. ASSUME step = 0, NEW k \in H!Kind \ Left(handles'["request thread"])
          PROVE  members'[k] = 0
      <4>1. CASE k = k0
        BY <2>3, <4>1
      <4>2. CASE k # k0
        <5>1. k \notin Left(handles["request thread"])
          BY <1>2, <2>2, <3>3, <4>2 DEF Both, q
        <5>2. QED
          BY <2>3, <3>3, <4>2, <5>1 DEF HandlesHeld
      <4>3. QED
        BY <4>1, <4>2
    <3>4. step' = step /\ open' = open
      BY <1>1, <2>1
    <3>5. QED
      BY <3>1, <3>2, <3>3, <3>4 DEF HandlesHeld
  <2>7. NotYetOpened'
    <3>1. ASSUME NEW k \in H!Kind, NotYet(k)'
          PROVE  members'[k] = 0 /\ ~HeadShut(handles'["user"], k)
      <4>1. members[k] = 0 /\ ~HeadShut(handles["user"], k)
        BY <1>1, <3>1 DEF NotYetOpened, NotYet
      <4>2. QED
        BY <1>2, <2>2, <2>3, <4>1 DEF Both
    <3>2. QED
      BY <3>1 DEF NotYetOpened
  <2>8. HttpControl'
    <3>1. handles["request thread"] = <<>> => handles'["request thread"] = <<>>
      BY <1>1, <2>2 DEF Both, q
    <3>2. handles["user"] = <<>> => handles'["user"] = <<>>
      BY <1>1, <2>2 DEF Both, q
    <3>3. QED
      BY <1>1, <2>1, <3>1, <3>2 DEF HttpControl
  <2>9. QED
    BY <2>5, <2>6, <2>7, <2>8
<1>5. CASE ~c.shut /\ members[k0] # 0
  <2> DEFINE r == [q EXCEPT ![1].shut = TRUE]
  <2>1. /\ handles' = [handles EXCEPT ![who][1].shut = TRUE] /\ UNCHANGED members
        /\ open' = open \ {<<k0, members[k0]>>}
        /\ cut' = (cut \/ (who = "user" /\ code # "none" /\ ~H!Decided))
    BY <1>5 DEF H!CloseStep
  <2>2. /\ DOMAIN handles' = Both /\ handles'[who] = r
        /\ \A w \in Both : w # who => handles'[w] = handles[w]
    BY <2>1 DEF HttpTypes
  <2> HIDE DEF q, c, k0, r
  <2>3. /\ CloseList(r) /\ Left(r) = Left(q) /\ \A k : HeadShut(r, k) <=> k = k0
    BY <1>2 DEF r
  <2>4. cut' \in BOOLEAN
    BY <2>1 DEF HttpTypes
  <2>5. HttpTypes'
    BY <1>1, <2>1, <2>2, <2>3, <2>4 DEF HttpTypes
  <2>6. HandlesHeld'
    <3>1. \A h \in open' : \E k \in H!Kind : h = <<k, members[k]>> /\ members[k] # 0
      BY <2>1 DEF HandlesHeld
    <3>2. ASSUME NEW w \in Both, NEW k \in H!Kind, HeadShut(handles'[w], k)
          PROVE  <<k, members[k]>> \notin open'
      <4>1. CASE w = who
        BY <2>1, <2>2, <2>3, <3>2, <4>1
      <4>2. CASE w # who
        BY <2>1, <2>2, <3>2, <4>2 DEF HandlesHeld
      <4>3. QED
        BY <4>1, <4>2
    <3>3. Left(handles'["request thread"]) = Left(handles["request thread"])
      BY <2>2, <2>3 DEF Both, q
    <3>4. QED
      BY <1>1, <2>1, <3>1, <3>2, <3>3 DEF HandlesHeld
  <2>7. NotYetOpened'
    <3>1. ASSUME NEW k \in H!Kind, NotYet(k)'
          PROVE  members'[k] = 0 /\ ~HeadShut(handles'["user"], k)
      <4>1. members[k] = 0 /\ ~HeadShut(handles["user"], k)
        BY <1>1, <3>1 DEF NotYetOpened, NotYet
      <4>2. QED
        BY <1>5, <2>1, <2>2, <2>3, <4>1 DEF Both
    <3>2. QED
      BY <3>1 DEF NotYetOpened
  <2>8. HttpControl'
    <3>1. handles["request thread"] = <<>> => handles'["request thread"] = <<>>
      BY <1>1, <2>2 DEF Both, q
    <3>2. handles["user"] = <<>> => handles'["user"] = <<>>
      BY <1>1, <2>2 DEF Both, q
    <3>3. /\ cut' => cut \/ abort_
          /\ code \in {"lasterror", "UNKNOWN_ERROR"} /\ cut' => cut
      BY <1>3, <2>1 DEF H!Decided
    <3>4. QED
      BY <1>1, <3>1, <3>2, <3>3 DEF HttpControl
  <2>9. QED
    BY <2>5, <2>6, <2>7, <2>8
<1>6. QED
  BY <1>4, <1>5

LEMMA HttpHolds == Spec => []HttpInv
<1>1. Init => HttpInv
  <2> SUFFICES ASSUME H!Init PROVE HttpInv
    BY DEF Init
  <2>1. /\ members = [k \in H!Kind |-> 0] /\ open = {} /\ abort_ = FALSE /\ cut = FALSE
        /\ count = 0 /\ step = 0 /\ inCall = FALSE /\ code = "none" /\ user = "idle"
        /\ handles = [w \in Both |-> <<>>]
    BY DEF H!Init, Both
  <2>2. /\ \A w \in Both : handles[w] = <<>>
        /\ "user" \in Both /\ "request thread" \in Both /\ DOMAIN handles = Both
    BY <2>1 DEF Both
  <2>3. HttpTypes
    <3>1. \A w \in Both : CloseList(handles[w])
      BY <2>2, ClosesFacts
    <3>2. members \in [H!Kind -> Nat] /\ count \in Nat /\ step \in 0 .. 9
      BY <2>1
    <3>3. QED
      BY <2>1, <2>2, <3>1, <3>2 DEF HttpTypes, Codes
  <2>4. \A w \in Both, k \in H!Kind : members[k] = 0 /\ ~HeadShut(handles[w], k)
    BY <2>1, <2>2, ClosesFacts
  <2>5. HandlesHeld
    BY <2>1, <2>4 DEF HandlesHeld
  <2>6. NotYetOpened
    BY <2>2, <2>4 DEF NotYetOpened
  <2>7. HttpControl
    BY <2>1, <2>2 DEF HttpControl
  <2>8. QED
    BY <2>3, <2>5, <2>6, <2>7 DEF HttpInv
<1>2. HttpInv /\ [Next]_vars => HttpInv'
  <2> SUFFICES ASSUME HttpInv, [Next]_vars PROVE HttpInv'
    OBVIOUS
  <2>1. H!Next \/ UNCHANGED httpVars
    BY Alone
  <2>2. \/ \E w \in Both : H!CloseStep(w)
        \/ H!Enter \/ H!CallFails \/ H!CallSucceeds \/ H!TestOpened \/ H!Fails
        \/ H!StartClosing \/ H!Answer \/ H!request \/ H!Abort \/ H!Delete
        \/ H!Aborted \/ H!DeleteHttp \/ H!Deleted \/ UNCHANGED httpVars
    BY <2>1 DEF H!Next, H!RequestThread, H!User, H!UserGoesOn, H!httpVars, httpVars, Both
  <2>3. QED
    BY <2>2, RequestKeeps, OthersKeep, CloseKeeps
<1>3. QED
  BY <1>1, <1>2, Safety, PTL

\* The destructor leaves no handle open, and a request whose handles the user
\* closed under it is not answered as failed for another reason.
LEMMA HttpPromises == HttpInv => H!NoneLeft /\ H!AnsweredTruly
<1> SUFFICES ASSUME HttpInv PROVE H!NoneLeft /\ H!AnsweredTruly
  OBVIOUS
<1> USE DEF HttpInv
<1>1. ASSUME user = "gone" PROVE open = {}
  <2>1. code = "none" /\ step = 0 /\ handles["request thread"] = <<>>
    BY <1>1 DEF HttpControl
  <2>2. \A k \in H!Kind : members[k] = 0
    BY <2>1, ClosesFacts DEF HandlesHeld
  <2>3. QED
    BY <2>2 DEF HandlesHeld
<1>2. cut /\ H!Decided => code \in {"success", "USER_ABORT"}
  BY DEF HttpControl, H!Decided
<1>3. QED
  BY <1>1, <1>2 DEF H!NoneLeft, H!AnsweredTruly

\* A request that the user cut short is said to be aborted or was done, and a
\* tool's question about the service is answered by a state it was in.
THEOREM ToldTruly == Spec => []ReportedTruly
<1>1. HttpInv /\ ServiceInv /\ status \in V!States => ReportedTruly
  BY HttpPromises DEF ReportedTruly, ServiceInv, ServiceTells, V!StatusTells
<1>2. QED
  BY <1>1, HttpHolds, ServiceHolds, PTL
-----------------------------------------------------------------------------
(* AtExitManager: singletons that several threads build. *)

AFrame == [of : Singleton, asks : SUBSET Singleton, made : BOOLEAN]
ExitTypes ==
    /\ once \in [Singleton -> {"no", "running", "done"}]
    /\ instance \in [Singleton -> {"null", "live", "deleted"}]
    /\ frames \in [A!Thread -> Seq(AFrame)] /\ stack \in Seq(Singleton)
    /\ exit \in {"no", "processing", "destroying", "gone"} /\ manager \in BOOLEAN

\* A constructor under way holds its once_flag, and what it has been given is built.
Building(f) ==
    /\ once[f.of] = "running"
    /\ \A n \in Needs[f.of] : n \in f.asks \/ once[n] = "done"
    /\ f.made => f.asks = {}
Builds ==
    /\ \A t \in A!Thread : \A i \in DOMAIN frames[t] : Building(frames[t][i])
    /\ \A t, u \in A!Thread : \A i \in DOMAIN frames[t], j \in DOMAIN frames[u] :
        frames[t][i].of = frames[u][j].of => t = u /\ i = j

\* What a registered singleton uses was built before it was registered, so it
\* was registered before it.
Registered ==
    /\ \A i \in DOMAIN stack : \A n \in Needs[stack[i]] : once[n] = "done"
    /\ \A i, j \in DOMAIN stack : i < j => stack[j] \notin Needs[stack[i]]

\* The manager has every managed singleton that there is, but those which the
\* thread that made them is about to register.
Held(s) ==
    \/ \E i \in DOMAIN stack : stack[i] = s
    \/ \E t \in A!Thread : \E i \in DOMAIN frames[t] : frames[t][i].of = s /\ frames[t][i].made
LiveHeld == \A s \in Managed : instance[s] = "live" => Held(s)

ExitControl ==
    /\ exit \in {"destroying", "gone"} => \A t \in A!Thread : frames[t] = <<>>
    /\ exit # "no" => frames[Main] = <<>>
    /\ manager <=> exit # "gone"
    /\ exit = "gone" => stack = <<>>

ExitInv == ExitTypes /\ Builds /\ Registered /\ LiveHeld /\ ExitControl

\* What a step that deletes d leaves of its users.
Spared(d) ==
    /\ A!Holding(d) \subseteq IF exit = "processing" THEN Worker ELSE {}
    /\ \A u \in Managed : d \in Needs[u] /\ instance'[u] = "live" =>
          \E t \in A!Holding(d) : \E i \in DOMAIN frames[t] : frames[t][i].of = u

\* A sequence with one more, with one less, and with another last element.
LEMMA LastIn ==
    ASSUME NEW Elem, NEW q \in Seq(Elem)
    PROVE  /\ Len(q) \in Nat /\ DOMAIN q = 1 .. Len(q)
           /\ q # <<>> => Len(q) \in DOMAIN q
           /\ \A i \in DOMAIN q : q[i] \in Elem /\ i \in Nat /\ i <= Len(q)
<1>1. Len(q) \in Nat /\ DOMAIN q = 1 .. Len(q)
  BY LenProperties
<1>2. q # <<>> => Len(q) # 0
  BY EmptySeq
<1>3. \A i \in 1 .. Len(q) : q[i] \in Elem
  BY ElementOfSeq
<1>4. QED
  BY <1>1, <1>2, <1>3

LEMMA PushedOn ==
    ASSUME NEW Elem, NEW q \in Seq(Elem), NEW e \in Elem
    PROVE  LET p == Append(q, e) IN
           /\ p \in Seq(Elem) /\ Len(q) + 1 \in DOMAIN p /\ p[Len(q) + 1] = e
           /\ \A i \in DOMAIN q : i \in DOMAIN p /\ p[i] = q[i] /\ i < Len(q) + 1
           /\ \A i \in DOMAIN p : \/ i \in DOMAIN q
                                  \/ i = Len(q) + 1
<1> DEFINE p == Append(q, e)
<1>1. /\ p \in Seq(Elem) /\ Len(p) = Len(q) + 1 /\ p[Len(q) + 1] = e
      /\ \A i \in 1 .. Len(q) : p[i] = q[i]
  BY AppendProperties
<1>2. DOMAIN p = 1 .. Len(q) + 1 /\ Len(q) \in Nat /\ DOMAIN q = 1 .. Len(q)
  BY <1>1, LenProperties
<1> HIDE DEF p
<1>3. QED
  BY <1>1, <1>2 DEF p

LEMMA TakenOff ==
    ASSUME NEW Elem, NEW q \in Seq(Elem), q # <<>>
    PROVE  LET p == SubSeq(q, 1, Len(q) - 1) IN
           /\ p \in Seq(Elem)
           /\ \A i \in DOMAIN p : i \in DOMAIN q /\ p[i] = q[i] /\ i # Len(q) /\ i < Len(q)
           /\ \A i \in DOMAIN q : i \in DOMAIN p \/ i = Len(q)
<1> DEFINE p == SubSeq(q, 1, Len(q) - 1)
<1>1. Len(q) \in Nat /\ Len(q) > 0 /\ DOMAIN q = 1 .. Len(q)
  BY LenProperties, EmptySeq
<1>2. \A i \in 1 .. Len(q) - 1 : q[i] \in Elem
  BY <1>1, ElementOfSeq
<1>3. /\ p \in Seq(Elem) /\ DOMAIN p = 1 .. Len(q) - 1
      /\ \A i \in 1 .. Len(q) - 1 : p[i] = q[i]
  <2>1. p = [i \in 1 .. Len(q) - 1 |-> q[i]]
    BY <1>1
  <2>2. p \in Seq(Elem)
    BY <1>1, <1>2, <2>1, IsASeq
  <2>3. QED
    BY <2>1, <2>2
<1> HIDE DEF p
<1>4. QED
  BY <1>1, <1>3 DEF p

LEMMA TopReplaced ==
    ASSUME NEW Elem, NEW q \in Seq(Elem), q # <<>>, NEW e \in Elem
    PROVE  LET p == [q EXCEPT ![Len(q)] = e] IN
           /\ p \in Seq(Elem) /\ DOMAIN p = DOMAIN q
           /\ p[Len(q)] = e /\ \A i \in DOMAIN q : i # Len(q) => p[i] = q[i]
<1>1. Len(q) \in DOMAIN q /\ DOMAIN q = 1 .. Len(q)
  BY LastIn
<1>2. [q EXCEPT ![Len(q)] = e] \in Seq(Elem)
  BY <1>1, ExceptSeq
<1>3. QED
  BY <1>1, <1>2

\* instance() of a new singleton, by a thread or by a constructor.
LEMMA BuildsKeeps ==
    ASSUME ExitInv, NEW t \in A!Thread, NEW s \in Singleton, A!InstanceBuilds(t, s)
    PROVE  ExitInv'
<1> DEFINE q == frames[t]
           e == [of |-> s, asks |-> Needs[s], made |-> FALSE]
<1> USE DEF ExitInv
<1>1. /\ once[s] = "no" /\ once' = [once EXCEPT ![s] = "running"]
      /\ frames' = [frames EXCEPT ![t] = Append(q, e)]
      /\ UNCHANGED <<instance, stack, lock, manager, exit, processed>>
  BY DEF A!InstanceBuilds, A!Push, ExitTypes
<1>2. Needs[s] \subseteq Singleton
  BY ConstantsOK DEF ConstantsOK, A!ConstantsOK
<1>3. e \in AFrame /\ e.of = s /\ e.asks = Needs[s] /\ e.made = FALSE
  BY <1>2 DEF AFrame
<1>4. q \in Seq(AFrame)
  BY DEF ExitTypes
<1>5. /\ frames' \in [A!Thread -> Seq(AFrame)] /\ frames'[t] = Append(q, e)
      /\ \A u \in A!Thread : u # t => frames'[u] = frames[u]
  BY <1>1, <1>3, <1>4, PushedOn DEF ExitTypes
<1>6. \A u \in A!Thread : \A i \in DOMAIN frames[u] :
        i \in DOMAIN frames'[u] /\ frames'[u][i] = frames[u][i]
  <2>1. \A i \in DOMAIN q : i \in DOMAIN Append(q, e) /\ Append(q, e)[i] = q[i]
    BY <1>3, <1>4, PushedOn
  <2>2. QED
    BY <1>5, <2>1
<1>7. \A u \in A!Thread : \A i \in DOMAIN frames'[u] :
        \/ i \in DOMAIN frames[u] /\ frames'[u][i] = frames[u][i]
        \/ u = t /\ i = Len(q) + 1 /\ frames'[u][i] = e
  BY <1>3, <1>4, <1>5, PushedOn
<1> HIDE DEF q, e
<1>8. /\ once' \in [Singleton -> {"no", "running", "done"}] /\ once'[s] = "running"
      /\ \A n : once[n] = "done" => once'[n] = "done"
      /\ \A n : n # s /\ n \in Singleton => once'[n] = once[n]
  BY <1>1 DEF ExitTypes
<1>9. \A u \in A!Thread : \A i \in DOMAIN frames[u] : frames[u][i].of \in Singleton \ {s}
  <2>1. ASSUME NEW u \in A!Thread, NEW i \in DOMAIN frames[u]
        PROVE  frames[u][i].of \in Singleton \ {s}
    <3>1. frames[u][i] \in AFrame
      BY LastIn DEF ExitTypes
    <3>2. once[frames[u][i].of] = "running"
      BY DEF Builds, Building
    <3>3. QED
      BY <1>1, <3>1, <3>2 DEF AFrame
  <2>2. QED
    BY <2>1
<1>10. ExitTypes'
  BY <1>1, <1>5, <1>8 DEF ExitTypes
<1>11. Builds'
  <2>1. ASSUME NEW u \in A!Thread, NEW i \in DOMAIN frames'[u]
        PROVE  Building(frames[u][i])'
    <3>1. CASE i \in DOMAIN frames[u] /\ frames'[u][i] = frames[u][i]
      <4>1. Building(frames[u][i]) /\ frames[u][i].of # s /\ frames[u][i].of \in Singleton
        BY <1>9, <3>1 DEF Builds
      <4>2. QED
        BY <1>8, <3>1, <4>1 DEF Building
    <3>2. CASE frames'[u][i] = e
      BY <1>3, <1>8, <3>2 DEF Building
    <3>3. QED
      BY <1>7, <3>1, <3>2
  <2>2. ASSUME NEW u \in A!Thread, NEW v \in A!Thread,
               NEW i \in DOMAIN frames'[u], NEW j \in DOMAIN frames'[v],
               frames'[u][i].of = frames'[v][j].of
        PROVE  u = v /\ i = j
    <3>1. CASE frames'[u][i].of = s
      <4>1. u = t /\ i = Len(q) + 1
        BY <1>7, <1>9, <3>1
      <4>2. v = t /\ j = Len(q) + 1
        BY <1>7, <1>9, <2>2, <3>1
      <4>3. QED
        BY <4>1, <4>2
    <3>2. CASE frames'[u][i].of # s
      <4>1. /\ i \in DOMAIN frames[u] /\ frames'[u][i] = frames[u][i]
            /\ j \in DOMAIN frames[v] /\ frames'[v][j] = frames[v][j]
        BY <1>3, <1>7, <2>2, <3>2
      <4>2. QED
        BY <2>2, <4>1 DEF Builds
    <3>3. QED
      BY <3>1, <3>2
  <2>3. QED
    BY <2>1, <2>2 DEF Builds
<1>12. Registered'
  BY <1>1, <1>8 DEF Registered
<1>13. LiveHeld'
  BY <1>1, <1>6 DEF LiveHeld, Held
<1>14. ExitControl'
  <2>1. exit \in {"no", "processing"}
    BY DEF A!InstanceBuilds, A!MayAsk, A!InConstructor, ExitControl, ExitTypes
  <2>2. exit # "no" => t # Main
    BY DEF A!InstanceBuilds, A!MayAsk, A!InConstructor, ExitControl
  <2>3. exit # "no" => frames'[Main] = <<>>
    BY <1>5, <2>2 DEF ExitControl, A!Thread
  <2>4. QED
    BY <1>1, <2>1, <2>3 DEF ExitControl
<1>15. QED
  BY <1>10, <1>11, <1>12, <1>13, <1>14

\* A constructor goes on: it is given what it asked for, or returns.
LEMMA TopStep ==
    ASSUME ExitInv, NEW t \in A!Thread, frames[t] # <<>>, NEW e \in AFrame,
           e.of = A!Top(t).of, Building(e), A!Top(t).made => e.made,
           A!SetTop(t, e), UNCHANGED <<once, stack, lock, manager, exit, processed>>
    PROVE  /\ frames' \in [A!Thread -> Seq(AFrame)]
           /\ Builds' /\ Registered' /\ ExitControl'
           /\ \A s : Held(s) => Held(s)'
           /\ \E i \in DOMAIN frames'[t] : frames'[t][i] = e
<1> DEFINE q == frames[t]
<1> USE DEF ExitInv
<1>1. q \in Seq(AFrame) /\ q # <<>> /\ frames' = [frames EXCEPT ![t] = [q EXCEPT ![Len(q)] = e]]
  BY DEF ExitTypes, A!SetTop
<1>2. /\ frames' \in [A!Thread -> Seq(AFrame)] /\ frames'[t] = [q EXCEPT ![Len(q)] = e]
      /\ \A u \in A!Thread : u # t => frames'[u] = frames[u]
  BY <1>1, TopReplaced DEF ExitTypes
<1>3. \A u \in A!Thread : DOMAIN frames'[u] = DOMAIN frames[u]
  BY <1>1, <1>2, TopReplaced
<1>4. \A u \in A!Thread : \A i \in DOMAIN frames[u] :
        \/ frames'[u][i] = frames[u][i]
        \/ u = t /\ i = Len(q) /\ frames[u][i] = A!Top(t) /\ frames'[u][i] = e
  BY <1>1, <1>2, TopReplaced DEF A!Top
<1>5. \A u \in A!Thread : \A i \in DOMAIN frames[u] :
        /\ frames'[u][i].of = frames[u][i].of
        /\ frames[u][i].made => frames'[u][i].made
  BY <1>4
<1>6. \E i \in DOMAIN frames'[t] : frames'[t][i] = e
  BY <1>1, <1>2, <1>3, TopReplaced, LastIn
<1> HIDE DEF q
<1>7. Builds'
  <2>1. ASSUME NEW u \in A!Thread, NEW i \in DOMAIN frames'[u] PROVE Building(frames[u][i])'
    BY <1>3, <1>4 DEF Builds, Building
  <2>2. ASSUME NEW u \in A!Thread, NEW v \in A!Thread,
               NEW i \in DOMAIN frames'[u], NEW j \in DOMAIN frames'[v],
               frames'[u][i].of = frames'[v][j].of
        PROVE  u = v /\ i = j
    BY <1>3, <1>5, <2>2 DEF Builds
  <2>3. QED
    BY <2>1, <2>2 DEF Builds
<1>8. Registered'
  BY DEF Registered
<1>9. ExitControl'
  <2>1. exit \notin {"destroying", "gone"}
    BY DEF ExitControl
  <2>2. exit # "no" => t # Main
    BY DEF ExitControl
  <2>3. exit # "no" => frames'[Main] = <<>>
    BY <1>2, <2>2 DEF ExitControl, A!Thread
  <2>4. QED
    BY <2>1, <2>3 DEF ExitControl
<1>10. \A s : Held(s) => Held(s)'
  BY <1>3, <1>5 DEF Held
<1>11. QED
  BY <1>2, <1>6, <1>7, <1>8, <1>9, <1>10

LEMMA FoundKeeps ==
    ASSUME ExitInv, NEW t \in A!Thread, NEW s \in Singleton, A!InstanceFound(t, s)
    PROVE  ExitInv'
<1> DEFINE f == A!Top(t)
           e == [f EXCEPT !.asks = @ \ {s}]
<1> USE DEF ExitInv
<1>1. /\ once[s] = "done" /\ frames[t] # <<>> /\ ~f.made /\ A!SetTop(t, e)
      /\ UNCHANGED <<once, instance, stack, lock, manager, exit, processed>>
  BY DEF A!InstanceFound, A!InConstructor
<1>2. f \in AFrame /\ Building(f)
  <2>1. frames[t] \in Seq(AFrame)
    BY DEF ExitTypes
  <2>2. QED
    BY <1>1, <2>1, LastIn DEF A!Top, Builds
<1>3. e \in AFrame /\ e.of = f.of /\ e.asks = f.asks \ {s} /\ e.made = f.made
  BY <1>2 DEF AFrame
<1> HIDE DEF e, f
<1>4. Building(e)
  BY <1>1, <1>2, <1>3 DEF Building
<1>5. /\ frames' \in [A!Thread -> Seq(AFrame)] /\ Builds' /\ Registered' /\ ExitControl'
      /\ \A x : Held(x) => Held(x)'
  BY <1>1, <1>3, <1>4, TopStep DEF f
<1>6. ExitTypes' /\ LiveHeld'
  BY <1>1, <1>5 DEF ExitTypes, LiveHeld
<1>7. QED
  BY <1>5, <1>6

LEMMA ConstructedKeeps ==
    ASSUME ExitInv, NEW t \in A!Thread, A!Constructed(t)
    PROVE  ExitInv'
<1> DEFINE f == A!Top(t)
           e == [f EXCEPT !.made = TRUE]
<1> USE DEF ExitInv
<1>1. /\ frames[t] # <<>> /\ f.asks = {} /\ A!SetTop(t, e)
      /\ instance' = [instance EXCEPT ![f.of] = "live"]
      /\ UNCHANGED <<once, stack, lock, manager, exit, processed>>
  BY DEF A!Constructed, A!InConstructor
<1>2. f \in AFrame /\ Building(f)
  <2>1. frames[t] \in Seq(AFrame)
    BY DEF ExitTypes
  <2>2. QED
    BY <1>1, <2>1, LastIn DEF A!Top, Builds
<1>3. e \in AFrame /\ e.of = f.of /\ e.asks = f.asks /\ e.made = TRUE
  BY <1>2 DEF AFrame
<1> HIDE DEF e, f
<1>4. Building(e)
  BY <1>1, <1>2, <1>3 DEF Building
<1>5. /\ frames' \in [A!Thread -> Seq(AFrame)] /\ Builds' /\ Registered' /\ ExitControl'
      /\ \A x : Held(x) => Held(x)'
      /\ \E i \in DOMAIN frames'[t] : frames'[t][i] = e
  BY <1>1, <1>3, <1>4, TopStep DEF f
<1>6. ExitTypes'
  BY <1>1, <1>5 DEF ExitTypes
<1>7. ASSUME NEW s \in Managed, instance'[s] = "live" PROVE Held(s)'
  <2>1. CASE s = f.of
    BY <1>3, <1>5, <2>1 DEF Held
  <2>2. CASE s # f.of
    <3>1. instance[s] = "live"
      BY <1>1, <1>7, <2>2 DEF ExitTypes
    <3>2. QED
      BY <1>5, <3>1 DEF LiveHeld
  <2>3. QED
    BY <2>1, <2>2
<1>8. QED
  BY <1>5, <1>6, <1>7 DEF LiveHeld

\* The constructor on top has returned and its singleton is registered.
LEMMA RegisterKeeps ==
    ASSUME ExitInv, NEW t \in A!Thread, A!Register(t)
    PROVE  ExitInv'
<1> DEFINE q == frames[t]
           f == A!Top(t)
           s == f.of
           p == SubSeq(q, 1, Len(q) - 1)
<1> USE DEF ExitInv
<1>1. /\ q # <<>> /\ f.made /\ once' = [once EXCEPT ![s] = "done"]
      /\ frames' = [frames EXCEPT ![t] = p]
      /\ stack' = stack \/ (s \in Managed /\ manager /\ stack' = Append(stack, s))
      /\ s \in Managed /\ manager => stack' = Append(stack, s)
      /\ UNCHANGED <<instance, lock, manager, exit, processed>>
  BY DEF A!Register, ExitTypes
<1>2. /\ q \in Seq(AFrame) /\ f = q[Len(q)] /\ Len(q) \in DOMAIN q
      /\ f \in AFrame /\ s \in Singleton /\ Building(f)
  <2>1. q \in Seq(AFrame) /\ f = q[Len(q)]
    BY DEF ExitTypes, A!Top
  <2>2. Len(q) \in DOMAIN q /\ f \in AFrame
    BY <1>1, <2>1, LastIn
  <2>3. QED
    BY <2>1, <2>2 DEF Builds, AFrame
<1>3. /\ p \in Seq(AFrame)
      /\ \A i \in DOMAIN p : i \in DOMAIN q /\ p[i] = q[i] /\ i # Len(q)
      /\ \A i \in DOMAIN q : i \in DOMAIN p \/ i = Len(q)
  BY <1>1, <1>2, TakenOff
<1>4. /\ frames' \in [A!Thread -> Seq(AFrame)] /\ frames'[t] = p
      /\ \A u \in A!Thread : u # t => frames'[u] = frames[u]
  BY <1>1, <1>3 DEF ExitTypes
<1>5. \A u \in A!Thread : \A i \in DOMAIN frames'[u] :
        /\ i \in DOMAIN frames[u] /\ frames'[u][i] = frames[u][i]
        /\ ~(u = t /\ i = Len(q))
  BY <1>3, <1>4
<1>6. \A u \in A!Thread : \A i \in DOMAIN frames[u] :
        \/ i \in DOMAIN frames'[u] /\ frames'[u][i] = frames[u][i]
        \/ u = t /\ i = Len(q) /\ frames[u][i] = f
  BY <1>2, <1>3, <1>4
<1> HIDE DEF q, f, s, p
<1>7. /\ once' \in [Singleton -> {"no", "running", "done"}] /\ once'[s] = "done"
      /\ \A n : once[n] = "done" => once'[n] = "done"
      /\ \A n : n # s => once'[n] = once[n]
  BY <1>1, <1>2 DEF ExitTypes
<1>8. \A u \in A!Thread : \A i \in DOMAIN frames'[u] : frames[u][i].of # s
  <2>1. ASSUME NEW u \in A!Thread, NEW i \in DOMAIN frames'[u], frames[u][i].of = s PROVE FALSE
    <3>1. i \in DOMAIN frames[u] /\ ~(u = t /\ i = Len(q))
      BY <1>5
    <3>2. Len(q) \in DOMAIN frames[t] /\ frames[t][Len(q)].of = s
      BY <1>2 DEF q, s
    <3>3. u = t /\ i = Len(q)
      BY <2>1, <3>1, <3>2 DEF Builds
    <3>4. QED
      BY <3>1, <3>3
  <2>2. QED
    BY <2>1
<1>9. Builds'
  <2>1. ASSUME NEW u \in A!Thread, NEW i \in DOMAIN frames'[u] PROVE Building(frames[u][i])'
    <3>1. frames'[u][i] = frames[u][i] /\ Building(frames[u][i]) /\ frames[u][i].of # s
      BY <1>5, <1>8 DEF Builds
    <3>2. QED
      BY <1>7, <3>1 DEF Building
  <2>2. ASSUME NEW u \in A!Thread, NEW v \in A!Thread,
               NEW i \in DOMAIN frames'[u], NEW j \in DOMAIN frames'[v],
               frames'[u][i].of = frames'[v][j].of
        PROVE  u = v /\ i = j
    BY <1>5, <2>2 DEF Builds
  <2>3. QED
    BY <2>1, <2>2 DEF Builds
<1>10. /\ stack \in Seq(Singleton) /\ stack' \in Seq(Singleton)
       /\ \A i \in DOMAIN stack : i \in DOMAIN stack' /\ stack'[i] = stack[i] /\ i \in Nat
                                  /\ i < Len(stack) + 1
       /\ \A i \in DOMAIN stack' : \/ i \in DOMAIN stack
                                   \/ i = Len(stack) + 1 /\ stack'[i] = s
       /\ s \in Managed /\ manager => \E i \in DOMAIN stack' : stack'[i] = s
  <2>1. /\ stack \in Seq(Singleton) /\ Len(stack) \in Nat
        /\ \A i \in DOMAIN stack : i \in Nat /\ i < Len(stack) + 1
    <3>1. stack \in Seq(Singleton)
      BY DEF ExitTypes
    <3>2. /\ Len(stack) \in Nat
          /\ \A i \in DOMAIN stack : i \in Nat /\ i <= Len(stack)
      BY <3>1, LastIn
    <3>3. QED
      BY <3>1, <3>2
  <2>2. CASE stack' = stack /\ ~(s \in Managed /\ manager)
    BY <2>1, <2>2
  <2>3. CASE stack' = Append(stack, s)
    <3>1. /\ stack' \in Seq(Singleton) /\ Len(stack) + 1 \in DOMAIN stack'
          /\ stack'[Len(stack) + 1] = s
          /\ \A i \in DOMAIN stack : i \in DOMAIN stack' /\ stack'[i] = stack[i]
          /\ \A i \in DOMAIN stack' : i \in DOMAIN stack \/ i = Len(stack) + 1
      BY <1>2, <2>1, <2>3, PushedOn
    <3>2. QED
      BY <2>1, <3>1
  <2>4. QED
    BY <1>1, <2>2, <2>3
<1>11. ExitTypes'
  BY <1>1, <1>4, <1>7, <1>10 DEF ExitTypes
<1>12. Registered'
  <2>1. \A n \in Needs[s] : once[n] = "done"
    BY <1>1, <1>2 DEF Building, s
  <2>2. once[s] = "running"
    BY <1>2 DEF Building, s
  <2>3. ASSUME NEW i \in DOMAIN stack', NEW n \in Needs[stack'[i]] PROVE once'[n] = "done"
    BY <1>7, <1>10, <2>1, <2>3 DEF Registered
  <2>4. ASSUME NEW i \in DOMAIN stack', NEW j \in DOMAIN stack', i < j
        PROVE  stack'[j] \notin Needs[stack'[i]]
    <3>1. CASE i \in DOMAIN stack
      <4>1. stack'[i] = stack[i] /\ \A n \in Needs[stack[i]] : once[n] = "done"
        BY <1>10, <3>1 DEF Registered
      <4>2. CASE j \in DOMAIN stack
        BY <1>10, <2>4, <3>1, <4>2 DEF Registered
      <4>3. CASE stack'[j] = s
        BY <2>2, <4>1, <4>3
      <4>4. QED
        BY <1>10, <4>2, <4>3
    <3>2. CASE i = Len(stack) + 1
      <4>1. Len(stack) \in Nat
        BY <1>10, LastIn
      <4>2. j = Len(stack) + 1 \/ j < Len(stack) + 1
        BY <1>10
      <4>3. QED
        BY <1>10, <2>4, <3>2, <4>1, <4>2
    <3>3. QED
      BY <1>10, <3>1, <3>2
  <2>5. QED
    BY <2>3, <2>4 DEF Registered
<1>13. ExitControl'
  <2>1. exit \notin {"destroying", "gone"}
    BY <1>1 DEF ExitControl, q
  <2>2. exit # "no" => t # Main
    BY <1>1 DEF ExitControl, q
  <2>3. exit # "no" => frames'[Main] = <<>>
    BY <1>4, <2>2 DEF ExitControl, A!Thread
  <2>4. QED
    BY <1>1, <2>1, <2>3 DEF ExitControl
<1>14. ASSUME NEW x \in Managed, instance'[x] = "live" PROVE Held(x)'
  <2>1. manager
    BY <1>1 DEF ExitControl, q
  <2>2. Held(x)
    BY <1>1, <1>14 DEF LiveHeld
  <2>3. CASE \E i \in DOMAIN stack : stack[i] = x
    BY <1>10, <2>3 DEF Held
  <2>4. CASE \E u \in A!Thread : \E i \in DOMAIN frames[u] :
                frames[u][i].of = x /\ frames[u][i].made
    <3>1. PICK u \in A!Thread : \E i \in DOMAIN frames[u] : frames[u][i].of = x /\ frames[u][i].made
      BY <2>4
    <3>2. PICK i \in DOMAIN frames[u] : frames[u][i].of = x /\ frames[u][i].made
      BY <3>1
    <3>3. CASE i \in DOMAIN frames'[u] /\ frames'[u][i] = frames[u][i]
      BY <3>2, <3>3 DEF Held
    <3>4. CASE frames[u][i] = f
      <4>1. x = s
        BY <3>2, <3>4 DEF s
      <4>2. QED
        BY <1>1, <1>10, <1>14, <2>1, <4>1 DEF Held
    <3>5. QED
      BY <1>6, <3>3, <3>4
  <2>5. QED
    BY <2>2, <2>3, <2>4 DEF Held
<1>15. QED
  BY <1>9, <1>11, <1>12, <1>13, <1>14 DEF LiveHeld

\* The callback on top deletes a singleton that nobody left uses, but for those
\* that other threads are building.
LEMMA CallbackKeeps ==
    ASSUME ExitInv, A!RunCallback
    PROVE  /\ ExitInv'
           /\ \A d \in Singleton : instance[d] = "live" /\ instance'[d] = "deleted" => Spared(d)
<1> DEFINE n == Len(stack)
           top == stack[n]
<1> USE DEF ExitInv
<1>1. /\ stack \in Seq(Singleton) /\ stack # <<>> /\ exit \in {"processing", "destroying"}
      /\ instance' = [instance EXCEPT ![top] = "deleted"]
      /\ stack' = SubSeq(stack, 1, n - 1)
      /\ UNCHANGED <<once, frames, lock, manager, exit, processed>>
  BY DEF A!RunCallback, ExitTypes
<1>2. /\ stack' \in Seq(Singleton)
      /\ \A i \in DOMAIN stack' : i \in DOMAIN stack /\ stack'[i] = stack[i] /\ i < n
      /\ \A i \in DOMAIN stack : i \in DOMAIN stack' \/ i = n
      /\ n \in DOMAIN stack /\ top \in Singleton
  BY <1>1, TakenOff, LastIn
<1> HIDE DEF n, top
<1>3. ExitTypes'
  BY <1>1, <1>2 DEF ExitTypes
<1>4. Builds'
  BY <1>1 DEF Builds, Building
<1>5. Registered'
  BY <1>1, <1>2 DEF Registered
<1>6. ASSUME NEW s \in Managed, instance'[s] = "live" PROVE Held(s)'
  <2>1. s # top /\ instance[s] = "live"
    BY <1>1, <1>2, <1>6 DEF ExitTypes
  <2>2. \A i \in DOMAIN stack : stack[i] = s => i \in DOMAIN stack' /\ stack'[i] = s
    BY <1>2, <2>1 DEF top
  <2>3. QED
    BY <1>1, <2>1, <2>2 DEF LiveHeld, Held
<1>7. ExitControl'
  BY <1>1 DEF ExitControl
<1>8. ASSUME NEW d \in Singleton, instance[d] = "live", instance'[d] = "deleted"
      PROVE  Spared(d)
  <2>1. d = top
    BY <1>1, <1>8 DEF ExitTypes
  <2>2. A!Holding(d) \subseteq IF exit = "processing" THEN Worker ELSE {}
    <3>1. ASSUME NEW t \in A!Holding(d) PROVE t \in A!Thread /\ frames[t] # <<>>
      BY <3>1 DEF A!Holding
    <3>2. exit # "processing" => \A t \in A!Thread : frames[t] = <<>>
      BY <1>1 DEF ExitControl
    <3>3. frames[Main] = <<>>
      BY <1>1 DEF ExitControl
    <3>4. QED
      BY <3>1, <3>2, <3>3 DEF A!Thread
  <2>3. ASSUME NEW u \in Managed, d \in Needs[u], instance'[u] = "live"
        PROVE  \E t \in A!Holding(d) : \E i \in DOMAIN frames[t] : frames[t][i].of = u
    <3>1. u # top /\ instance[u] = "live"
      BY <1>1, <1>2, <2>3 DEF ExitTypes
    <3>2. ~ \E i \in DOMAIN stack : stack[i] = u
      <4> SUFFICES ASSUME NEW i \in DOMAIN stack, stack[i] = u PROVE FALSE
        OBVIOUS
      <4>1. i \in DOMAIN stack' /\ i < n
        BY <1>2, <3>1 DEF top
      <4>2. QED
        BY <1>2, <2>1, <2>3, <4>1 DEF Registered, top
    <3>3. PICK t \in A!Thread : \E i \in DOMAIN frames[t] : frames[t][i].of = u /\ frames[t][i].made
      BY <3>1, <3>2 DEF LiveHeld, Held
    <3>4. PICK i \in DOMAIN frames[t] : frames[t][i].of = u /\ frames[t][i].made
      BY <3>3
    <3>5. frames[t][i].asks = {}
      BY <3>4 DEF Builds, Building
    <3>6. t \in A!Holding(d)
      BY <2>3, <3>4, <3>5 DEF A!Holding
    <3>7. QED
      BY <3>4, <3>6
  <2>4. QED
    BY <2>2, <2>3 DEF Spared
<1>9. QED
  BY <1>3, <1>4, <1>5, <1>6, <1>7, <1>8 DEF LiveHeld

LEMMA ExitKeeps ==
    ASSUME ExitInv, \/ A!ProcessCallbacksNow \/ A!DestroyManager \/ A!CallbacksDone
                    \/ UNCHANGED exitVars
    PROVE  ExitInv' /\ UNCHANGED instance
<1> USE DEF ExitInv
<1>1. UNCHANGED <<once, instance, frames, stack>>
  BY DEF A!ProcessCallbacksNow, A!DestroyManager, A!CallbacksDone, exitVars
<1>2. /\ exit' \in {"no", "processing", "destroying", "gone"} /\ manager' \in BOOLEAN
  BY DEF A!ProcessCallbacksNow, A!DestroyManager, A!CallbacksDone, exitVars, ExitTypes
<1>3. ExitTypes'
  BY <1>1, <1>2 DEF ExitTypes
<1>4. Builds' /\ Registered' /\ LiveHeld'
  BY <1>1 DEF Builds, Building, Registered, LiveHeld, Held
<1>5. ExitControl'
  <2>1. CASE A!ProcessCallbacksNow
    BY <2>1 DEF A!ProcessCallbacksNow, ExitControl
  <2>2. CASE A!DestroyManager
    BY <2>2 DEF A!DestroyManager, A!Busy, A!Thread, ExitControl
  <2>3. CASE A!CallbacksDone
    BY <2>3 DEF A!CallbacksDone, ExitControl
  <2>4. CASE UNCHANGED exitVars
    BY <2>4 DEF exitVars, ExitControl
  <2>5. QED
    BY <2>1, <2>2, <2>3, <2>4
<1>6. QED
  BY <1>1, <1>3, <1>4, <1>5

LEMMA ExitStep ==
    ASSUME ExitInv, [Next]_vars
    PROVE  /\ ExitInv'
           /\ \A d \in Singleton : instance[d] = "live" /\ instance'[d] = "deleted" => Spared(d)
<1>1. A!Next \/ UNCHANGED exitVars
  BY Alone
<1>2. CASE \E t \in A!Thread : \/ A!Constructed(t) \/ A!Register(t)
                               \/ \E s \in Singleton : A!InstanceBuilds(t, s) \/ A!InstanceFound(t, s)
  <2>1. ExitInv'
    BY <1>2, BuildsKeeps, FoundKeeps, ConstructedKeeps, RegisterKeeps
  <2>2. instance' = instance \/ \E s : instance' = [instance EXCEPT ![s] = "live"]
    BY <1>2 DEF A!Constructed, A!Register, A!InstanceBuilds, A!InstanceFound
  <2>3. \A d \in Singleton : instance'[d] = "deleted" => instance[d] = "deleted"
    BY <2>2 DEF ExitInv, ExitTypes
  <2>4. QED
    BY <2>1, <2>3
<1>3. CASE A!RunCallback
  BY <1>3, CallbackKeeps
<1>4. CASE A!ProcessCallbacksNow \/ A!DestroyManager \/ A!CallbacksDone \/ UNCHANGED exitVars
  BY <1>4, ExitKeeps
<1>5. QED
  BY <1>1, <1>2, <1>3, <1>4 DEF A!Next, A!ExitStep, A!Gone, A!vars, exitVars

LEMMA ExitHolds == Spec => []ExitInv
<1>1. Init => ExitInv
  <2> SUFFICES ASSUME A!Init PROVE ExitInv
    BY DEF Init
  <2>1. frames \in [A!Thread -> Seq(AFrame)] /\ stack \in Seq(Singleton)
    BY EmptySeq DEF A!Init
  <2>2. /\ DOMAIN stack = {}
        /\ \A t \in A!Thread : frames[t] = <<>> /\ DOMAIN frames[t] = {}
    BY DEF A!Init
  <2>3. ExitTypes
    BY <2>1 DEF A!Init, ExitTypes
  <2>4. Builds /\ Registered
    BY <2>2 DEF Builds, Registered
  <2>5. LiveHeld /\ ExitControl
    <3>1. \A s \in Singleton : instance[s] = "null"
      BY DEF A!Init
    <3>2. Managed \subseteq Singleton
      BY ConstantsOK DEF ConstantsOK, A!ConstantsOK
    <3>3. LiveHeld
      BY <3>1, <3>2 DEF LiveHeld
    <3>4. ExitControl
      BY <2>2 DEF A!Init, ExitControl
    <3>5. QED
      BY <3>3, <3>4
  <2>6. QED
    BY <2>3, <2>4, <2>5 DEF ExitInv
<1>2. ExitInv /\ [Next]_vars => ExitInv'
  BY ExitStep
<1>3. QED
  BY <1>1, <1>2, Safety, PTL

\* A singleton is deleted after those that use it, whichever threads built them
\* and whatever uses what.  The only users that may lose it are those that other
\* threads are still constructing while Main is in ProcessCallbacksNow.
THEOREM DeletedInOrder == Spec => UsersGoFirst
<1>1. ExitInv /\ [Next]_vars =>
        [\A d \in Singleton : instance[d] = "live" /\ instance'[d] = "deleted" =>
            /\ A!Holding(d) \subseteq IF exit = "processing" THEN Worker ELSE {}
            /\ \A u \in Managed : d \in Needs[u] /\ instance'[u] = "live" =>
                  \E t \in A!Holding(d) : \E i \in DOMAIN frames[t] : frames[t][i].of = u]_(A!vars)
  BY ExitStep DEF Spared
<1>2. QED
  BY <1>1, ExitHolds, Safety, PTL DEF UsersGoFirst, A!UsersGoFirst
-----------------------------------------------------------------------------
\* WinTimer.tla has the lemmas.
LEMMA TimerHolds == Spec => []I!IInv
<1>1. I!ConstantsOK
  BY ConstantsOK DEF ConstantsOK
<1>2. Init => I!IInv
  BY <1>1, I!TimerInit DEF Init
<1>3. I!IInv /\ [Next]_vars => I!IInv'
  <2> SUFFICES ASSUME I!IInv, [Next]_vars PROVE I!IInv'
    OBVIOUS
  <2>1. [I!Next]_(I!timerVars)
    BY Alone DEF timerVars, I!timerVars
  <2>2. QED
    BY <1>1, <2>1, I!TimerStep
<1>4. QED
  BY <1>2, <1>3, Safety, PTL

\* With the manager gone no managed singleton is left, with the client gone no
\* handle, and after a stop that waited no callback of the timer.
THEOREM NothingIsLeft == Spec => []NoneLeft
<1>1. ExitInv => A!NoneLeft
  BY DEF ExitInv, LiveHeld, Held, ExitControl, A!NoneLeft
<1>2. ExitInv /\ HttpInv /\ I!IInv => NoneLeft
  BY <1>1, HttpPromises DEF NoneLeft, I!IInv
<1>3. QED
  BY <1>2, ExitHolds, HttpHolds, TimerHolds, PTL
-----------------------------------------------------------------------------
(* Process: what the child wrote, and its exit status. *)

\* As with the default buffer: one read takes all that a pipe holds.
BufferHoldsPipe == Cap <= BufferSize

PipeTypes ==
    /\ {pipe, written, delivered} \subseteq [Stream -> Nat]
    /\ holders \in [Stream -> SUBSET {"child", "heir"}]
    /\ polled \subseteq Stream /\ DOMAIN ready \subseteq Stream

\* Nothing is lost on the way, and no pipe holds more than a read takes.
Carried == \A s \in Stream : pipe[s] <= Cap /\ delivered[s] + pipe[s] = written[s]

\* The child has every stream until it ends: a stream that has lost its last
\* writer gets no other.
ChildWrites == \A s \in Stream : "child" \in holders[s] <=> child \in {"forked", "running"}

\* A stream that is not read any more is empty and has no writer, and one that
\* is about to be dropped is empty after this read.
Dropped ==
    /\ \A s \in Stream \ polled : holders[s] = {} /\ pipe[s] = 0
    /\ \A s \in DOMAIN ready : "HUP" \in ready[s] =>
        holders[s] = {} /\ ("IN" \notin ready[s] => pipe[s] = 0)

\* The status is there when the readers have been joined.
Joined == closed /\ owner \in {"idle", "waiting"} => polled = {}

ChildInv == PipeTypes /\ Carried /\ ChildWrites /\ Dropped /\ Joined

LEMMA ReadTakesAll ==
    ASSUME PipeTypes, Carried, BufferHoldsPipe, NEW s \in Stream, C!Read(s)
    PROVE  /\ {pipe, written, delivered}' \subseteq [Stream -> Nat]
           /\ pipe'[s] = 0 /\ Carried' /\ holders' = holders
           /\ \A r \in Stream : pipe[r] = 0 => pipe'[r] = 0
<1> DEFINE n == C!Least(pipe[s], BufferSize)
<1>1. Cap \in Nat /\ BufferSize \in Nat /\ Cap <= BufferSize
  BY ConstantsOK DEF ConstantsOK, C!ConstantsOK, BufferHoldsPipe
<1>2. /\ pipe \in [Stream -> Nat] /\ written \in [Stream -> Nat] /\ delivered \in [Stream -> Nat]
      /\ pipe[s] \in Nat /\ pipe[s] <= Cap
  BY DEF PipeTypes, Carried
<1>3. n = pipe[s]
  BY <1>1, <1>2 DEF C!Least
<1>4. /\ pipe' = [pipe EXCEPT ![s] = @ - n] /\ delivered' = [delivered EXCEPT ![s] = @ + n]
      /\ written' = written /\ holders' = holders
  BY DEF C!Read
<1> HIDE DEF n
<1>5. /\ pipe'[s] = 0 /\ delivered'[s] = delivered[s] + pipe[s]
      /\ \A r \in Stream : r # s => pipe'[r] = pipe[r] /\ delivered'[r] = delivered[r]
  BY <1>2, <1>3, <1>4
<1>6. pipe' \in [Stream -> Nat] /\ delivered' \in [Stream -> Nat]
  BY <1>2, <1>3, <1>4
<1>7. ASSUME NEW r \in Stream PROVE pipe'[r] <= Cap /\ delivered'[r] + pipe'[r] = written'[r]
  <2>1. pipe[r] <= Cap /\ delivered[r] + pipe[r] = written[r]
    BY DEF Carried
  <2>2. CASE r = s
    BY <1>1, <1>2, <1>4, <1>5, <2>1, <2>2
  <2>3. CASE r # s
    BY <1>4, <1>5, <2>1, <2>3
  <2>4. QED
    BY <2>2, <2>3
<1>8. QED
  BY <1>2, <1>4, <1>5, <1>6, <1>7 DEF Carried

\* The child, its heir and their output.
LEMMA ChildKeeps ==
    ASSUME ChildInv, \/ C!ChildRuns \/ C!LeaveHeir \/ C!ChildEnds \/ C!HeirEnds
                     \/ \E s \in Stream : C!Write(s)
    PROVE  ChildInv'
<1> USE DEF ChildInv
<1>1. /\ UNCHANGED <<polled, ready, closed, owner, delivered>>
  BY DEF C!ChildRuns, C!LeaveHeir, C!ChildEnds, C!HeirEnds, C!Write, C!object, C!streams
<1>2. Joined'
  BY <1>1 DEF Joined
<1>3. CASE C!ChildRuns
  <2>1. child = "forked" /\ child' = "running" /\ UNCHANGED <<pipe, written, holders>>
    BY <1>3 DEF C!ChildRuns, C!streams
  <2>2. QED
    BY <1>1, <1>2, <2>1 DEF PipeTypes, Carried, ChildWrites, Dropped
<1>4. CASE C!LeaveHeir
  <2>1. /\ child = "running" /\ UNCHANGED <<child, pipe, written>>
        /\ holders' = [s \in Stream |-> holders[s] \cup {"heir"}]
    BY <1>4 DEF C!LeaveHeir
  <2>2. \A s \in Stream : holders[s] # {} /\ ("child" \in holders'[s] <=> "child" \in holders[s])
    BY <2>1 DEF ChildWrites
  <2>3. PipeTypes' /\ Carried' /\ ChildWrites'
    BY <1>1, <2>1, <2>2 DEF PipeTypes, Carried, ChildWrites
  <2>4. Dropped'
    BY <1>1, <2>2 DEF Dropped, PipeTypes
  <2>5. QED
    BY <1>2, <2>3, <2>4
<1>5. CASE C!ChildEnds \/ C!HeirEnds
  <2>1. /\ UNCHANGED <<pipe, written>>
        /\ \/ /\ child = "running" /\ child' = "zombie"
              /\ holders' = [s \in Stream |-> holders[s] \ {"child"}]
           \/ /\ child' = child
              /\ holders' = [s \in Stream |-> holders[s] \ {"heir"}]
    BY <1>5 DEF C!ChildEnds, C!HeirEnds
  <2>2. PipeTypes' /\ Carried'
    BY <1>1, <2>1 DEF PipeTypes, Carried
  <2>3. ChildWrites'
    BY <2>1 DEF ChildWrites
  <2>4. \A s \in Stream : holders[s] = {} => holders'[s] = {}
    BY <2>1
  <2>5. Dropped'
    BY <1>1, <2>1, <2>4 DEF Dropped, PipeTypes
  <2>6. QED
    BY <1>2, <2>2, <2>3, <2>5
<1>6. ASSUME NEW s \in Stream, C!Write(s) PROVE ChildInv'
  <2>1. /\ holders[s] # {} /\ pipe[s] < Cap /\ UNCHANGED <<child, holders>>
        /\ pipe' = [pipe EXCEPT ![s] = @ + 1] /\ written' = [written EXCEPT ![s] = @ + 1]
    BY <1>6 DEF C!Write
  <2>2. /\ pipe \in [Stream -> Nat] /\ written \in [Stream -> Nat] /\ delivered \in [Stream -> Nat]
    BY DEF PipeTypes
  <2>3. /\ pipe'[s] = pipe[s] + 1 /\ written'[s] = written[s] + 1
        /\ \A r \in Stream : r # s => pipe'[r] = pipe[r] /\ written'[r] = written[r]
        /\ pipe' \in [Stream -> Nat] /\ written' \in [Stream -> Nat]
    BY <2>1, <2>2
  <2>4. PipeTypes'
    BY <1>1, <2>1, <2>2, <2>3 DEF PipeTypes
  <2>5. ASSUME NEW r \in Stream PROVE pipe'[r] <= Cap /\ delivered[r] + pipe'[r] = written'[r]
    <3>1. pipe[r] <= Cap /\ delivered[r] + pipe[r] = written[r] /\ Cap \in Nat
      BY ConstantsOK DEF ConstantsOK, C!ConstantsOK, Carried
    <3>2. CASE r = s
      BY <2>1, <2>2, <2>3, <3>1, <3>2
    <3>3. CASE r # s
      BY <2>3, <3>1, <3>3
    <3>4. QED
      BY <3>2, <3>3
  <2>6. Carried' /\ ChildWrites'
    BY <1>1, <2>1, <2>5 DEF Carried, ChildWrites
  <2>7. Dropped'
    BY <1>1, <2>1, <2>3 DEF Dropped, PipeTypes
  <2>8. QED
    BY <1>2, <2>4, <2>6, <2>7
<1>7. QED
  BY <1>3, <1>4, <1>5, <1>6

\* The readers, of either build.
LEMMA ReaderKeeps ==
    ASSUME ChildInv, BufferHoldsPipe, C!Reader
    PROVE  ChildInv'
<1> USE DEF ChildInv
<1>1. UNCHANGED <<child, closed, owner>>
  BY DEF C!Reader, C!Poll, C!Serve, C!ReadFile
<1>2. CASE C!Poll
  <2>1. ready' = [s \in polled |-> C!Events(s)] /\ UNCHANGED <<pipe, written, delivered, holders, polled>>
    BY <1>2 DEF C!Poll, C!streams
  <2>2. \A s \in polled : /\ "HUP" \in C!Events(s) => holders[s] = {}
                          /\ "IN" \notin C!Events(s) => ~(pipe[s] > 0)
    BY DEF C!Events
  <2>3. PipeTypes' /\ Carried' /\ ChildWrites' /\ Joined'
    BY <1>1, <2>1 DEF PipeTypes, Carried, ChildWrites, Joined
  <2>4. \A s \in polled : ~(pipe[s] > 0) => pipe[s] = 0
    BY DEF PipeTypes
  <2>5. Dropped'
    BY <2>1, <2>2, <2>4 DEF Dropped
  <2>6. QED
    BY <2>3, <2>5
<1>3. ASSUME NEW s \in Stream, C!Serve(s) PROVE ChildInv'
  <2>1. /\ s \in DOMAIN ready
        /\ IF "IN" \in ready[s] THEN C!Read(s) ELSE UNCHANGED <<pipe, written, delivered, holders>>
        /\ polled' = IF "HUP" \in ready[s] THEN polled \ {s} ELSE polled
        /\ ready' = [r \in DOMAIN ready \ {s} |-> ready[r]]
    BY <1>3 DEF C!Serve, C!streams
  <2>2. /\ {pipe, written, delivered}' \subseteq [Stream -> Nat] /\ Carried' /\ holders' = holders
        /\ "IN" \in ready[s] => pipe'[s] = 0
        /\ "IN" \notin ready[s] => pipe' = pipe
        /\ \A r \in Stream : pipe[r] = 0 => pipe'[r] = 0
    <3>1. CASE "IN" \in ready[s]
      BY <2>1, <3>1, ReadTakesAll
    <3>2. CASE "IN" \notin ready[s]
      BY <2>1, <3>2 DEF PipeTypes, Carried
    <3>3. QED
      BY <3>1, <3>2
  <2>3. PipeTypes' /\ ChildWrites' /\ Joined'
    BY <1>1, <2>1, <2>2 DEF PipeTypes, ChildWrites, Joined
  <2>4. ASSUME NEW r \in Stream \ polled' PROVE holders'[r] = {} /\ pipe'[r] = 0
    <3>1. CASE r \notin polled
      BY <2>2, <3>1 DEF Dropped
    <3>2. CASE r = s /\ "HUP" \in ready[s]
      BY <2>1, <2>2, <3>2 DEF Dropped
    <3>3. QED
      BY <2>1, <3>1, <3>2
  <2>5. ASSUME NEW r \in DOMAIN ready', "HUP" \in ready'[r]
        PROVE  holders'[r] = {} /\ ("IN" \notin ready'[r] => pipe'[r] = 0)
    BY <2>1, <2>2, <2>5 DEF Dropped, PipeTypes
  <2>6. QED
    BY <2>2, <2>3, <2>4, <2>5 DEF Dropped
<1>4. ASSUME NEW s \in Stream, C!ReadFile(s) PROVE ChildInv'
  <2>1. /\ ready' = ready
        /\ \/ C!Read(s) /\ polled' = polled
           \/ /\ C!Events(s) = {"HUP"} /\ polled' = polled \ {s}
              /\ UNCHANGED <<pipe, written, delivered, holders>>
    BY <1>4 DEF C!ReadFile, C!streams
  <2>2. CASE C!Read(s) /\ polled' = polled
    <3>1. /\ {pipe, written, delivered}' \subseteq [Stream -> Nat] /\ Carried' /\ holders' = holders
          /\ \A r \in Stream : pipe[r] = 0 => pipe'[r] = 0
      BY <2>2, ReadTakesAll
    <3>2. PipeTypes' /\ ChildWrites' /\ Joined'
      BY <1>1, <2>1, <2>2, <3>1 DEF PipeTypes, ChildWrites, Joined
    <3>3. Dropped'
      BY <2>1, <2>2, <3>1 DEF Dropped, PipeTypes
    <3>4. QED
      BY <3>1, <3>2, <3>3
  <2>3. CASE C!Events(s) = {"HUP"} /\ polled' = polled \ {s}
                /\ UNCHANGED <<pipe, written, delivered, holders>>
    <3>1. holders[s] = {} /\ ~(pipe[s] > 0)
      BY <2>3 DEF C!Events
    <3>2. pipe[s] = 0
      BY <3>1 DEF PipeTypes
    <3>3. PipeTypes' /\ Carried' /\ ChildWrites' /\ Joined'
      BY <1>1, <2>1, <2>3 DEF PipeTypes, Carried, ChildWrites, Joined
    <3>4. Dropped'
      BY <2>1, <2>3, <3>1, <3>2 DEF Dropped
    <3>5. QED
      BY <3>3, <3>4
  <2>4. QED
    BY <2>1, <2>2, <2>3
<1>5. QED
  BY <1>2, <1>3, <1>4 DEF C!Reader

\* The owner, and the threads that write, close and kill.
LEMMA OwnerKeeps ==
    ASSUME ChildInv,
           \/ C!ChildReads \/ C!PidReused \/ C!OwnerStep
           \/ C!getExitStatus \/ C!tryGetExitStatus \/ C!Destroy
           \/ C!write \/ C!WriteReturns \/ C!closeStdin \/ C!kill \/ C!killProcessTree
           \/ UNCHANGED processVars
    PROVE  ChildInv'
<1> USE DEF ChildInv
<1>1. /\ UNCHANGED <<pipe, written, delivered, holders, polled, ready>>
      /\ \/ UNCHANGED child
         \/ child \in {"zombie", "gone"} /\ child' = "gone"
  BY DEF C!ChildReads, C!PidReused, C!OwnerStep, C!Reap, C!SetClosed, C!CloseProcessHandle,
         C!close_fds, C!getExitStatus, C!tryGetExitStatus, C!Destroy, C!write, C!WriteReturns,
         C!closeStdin, C!kill, C!killProcessTree, processVars, C!streams, C!object
<1>2. PipeTypes' /\ Carried' /\ Dropped'
  BY <1>1 DEF PipeTypes, Carried, Dropped
<1>3. ChildWrites'
  BY <1>1 DEF ChildWrites
<1>4. \/ UNCHANGED closed /\ (owner' = owner \/ (owner = "idle" /\ owner' \in {"idle", "waiting"}))
      \/ owner' \notin {"idle", "waiting"}
      \/ polled = {}
  BY DEF C!ChildReads, C!PidReused, C!OwnerStep, C!Reap, C!SetClosed, C!CloseProcessHandle,
         C!close_fds, C!getExitStatus, C!tryGetExitStatus, C!Destroy, C!write, C!WriteReturns,
         C!closeStdin, C!kill, C!killProcessTree, processVars, C!streams, C!object, C!Return
<1>5. Joined'
  BY <1>1, <1>4 DEF Joined
<1>6. QED
  BY <1>2, <1>3, <1>5

LEMMA ChildHolds ==
    ASSUME BufferHoldsPipe
    PROVE  Spec => []ChildInv
<1>1. Init => ChildInv
  <2> SUFFICES ASSUME C!Init PROVE ChildInv
    BY DEF Init
  <2>1. /\ pipe \in [Stream -> Nat] /\ written = pipe /\ delivered = pipe
        /\ \A s \in Stream : pipe[s] = 0
        /\ DOMAIN ready = {} /\ owner = "idle"
        /\ Cap \in Nat
    BY ConstantsOK DEF ConstantsOK, C!ConstantsOK, C!Init
  <2>2. CASE child = "none"
    BY <2>1, <2>2 DEF C!Init, ChildInv, PipeTypes, Carried, ChildWrites, Dropped, Joined
  <2>3. CASE child # "none"
    <3>1. child \in {"forked", "running"} /\ polled = Stream /\ ~closed
      BY <2>3 DEF C!Init, C!OpenedChild
    <3>2. holders = [s \in Stream |-> {"child"}]
      BY <2>3 DEF C!Init
    <3>3. QED
      BY <2>1, <3>1, <3>2 DEF ChildInv, PipeTypes, Carried, ChildWrites, Dropped, Joined
  <2>4. QED
    BY <2>2, <2>3
<1>2. ChildInv /\ [Next]_vars => ChildInv'
  <2> SUFFICES ASSUME ChildInv, [Next]_vars PROVE ChildInv'
    OBVIOUS
  <2>1. C!Next \/ UNCHANGED processVars
    BY Alone
  <2>2. C!Rest => UNCHANGED processVars
    BY DEF C!Rest, C!vars, C!world, C!feed, C!streams, C!object, processVars
  <2>3. QED
    BY <2>1, <2>2, ChildKeeps, ReaderKeeps, OwnerKeeps DEF C!Next
<1>3. QED
  BY <1>1, <1>2, Safety, PTL

\* However its streams are shared, every byte that a child wrote has been given
\* to the callbacks when its status is, in both builds, when one read takes all
\* that a pipe holds.
THEOREM StatusComesLast ==
    ASSUME BufferHoldsPipe
    PROVE  Spec => []DeliveredBeforeStatus
<1>1. ChildInv => DeliveredBeforeStatus
  <2> SUFFICES ASSUME ChildInv, closed, owner = "idle" PROVE delivered = written
    BY DEF DeliveredBeforeStatus, C!DeliveredBeforeStatus
  <2>1. delivered \in [Stream -> Nat] /\ written \in [Stream -> Nat] /\ pipe \in [Stream -> Nat]
    BY DEF ChildInv, PipeTypes
  <2>2. \A s \in Stream : pipe[s] = 0 /\ delivered[s] + pipe[s] = written[s]
    BY DEF ChildInv, Joined, Dropped, Carried
  <2>3. \A s \in Stream : delivered[s] = written[s]
    BY <2>1, <2>2
  <2>4. QED
    BY <2>1, <2>3
<1>2. QED
  BY <1>1, ChildHolds, PTL
-----------------------------------------------------------------------------
(* SingletonProcess: a primary and those who tell it their command lines. *)

ProgramPlaces ==
    {"off", "events", "mapping", "open", "attach", "copy", "signal", "up", "closing"}
Idle == {"off", "up", "closing"}
Telling == {"open", "attach", "copy", "signal"}

ProgramTypes ==
    /\ programPc \in [Program -> ProgramPlaces]
    /\ isPrimary \in [Program -> BOOLEAN]
    /\ listener \in [Program -> {"waiting", "woken", "reading"}]
    /\ cml \in [Program -> Program \cup {Empty}]
    /\ viewed \subseteq mapped /\ buffer \in Program \cup {Empty} /\ set \in BOOLEAN
    /\ \A p \in expected : p \in Program /\ programPc[p] # "off" /\ ~isPrimary[p]

\* Only a primary with the event is woken.
Woken == \A p \in Program : listener[p] # "waiting" => S!Listener(p)

\* Where the command line of p is, between SetEvent and the callback.
OnlyWoken(q) == \A r \in Program : r # q => listener[r] = "waiting"
Told(p) ==
    \/ set /\ buffer = p /\ \A q \in Program : listener[q] = "waiting"
    \/ ~set /\ buffer = p /\ \E q \in Program : listener[q] = "woken" /\ OnlyWoken(q)
    \/ \E q \in Program : listener[q] = "reading" /\ cml[q] = p

\* Who is to be heard and has not been has the buffer and the event for itself.
ByItself(p) == \A q \in Program : q # p => programPc[q] \in Idle
OnItsWay(p) ==
    /\ ~isPrimary[p] /\ programPc[p] \in Telling \cup {"up"} /\ ByItself(p) /\ S!Attended
    /\ programPc[p] \in Telling => ~set /\ \A q \in Program : listener[q] = "waiting"
    /\ programPc[p] = "signal" => buffer = p
    /\ programPc[p] = "up" => Told(p)

HeardInv ==
    /\ ProgramTypes /\ Woken
    /\ \A p \in expected : p \in heard \/ OnItsWay(p)

\* Whoever listens goes on doing so, and nobody else begins to.
LEMMA StillAttended ==
    ASSUME S!Attended,
           \A p \in Program : S!Listener(p)' => S!Listener(p),
           \A p \in Program : S!Listener(p) => S!Listener(p)' /\ p \in callback' \cap viewed'
    PROVE  S!Attended'
BY DEF S!Attended

\* check of a program, on Windows.
LEMMA CheckKeeps ==
    ASSUME HeardInv, NEW p \in Program, S!Check(p)
    PROVE  HeardInv'
<1> USE DEF HeardInv
<1>1. /\ programPc[p] \in Telling \cup {"events", "mapping"}
      /\ UNCHANGED <<isPrimary, heard, callback, listener, cml>>
      /\ \E l \in Telling \cup {"mapping", "up"} : programPc' = [programPc EXCEPT ![p] = l]
      /\ startup \subseteq startup' /\ startup' \subseteq startup \cup {p}
      /\ viewed \subseteq viewed' /\ viewed' \subseteq mapped'
      /\ expected' \subseteq expected /\ buffer' \in {buffer, Empty, p}
      /\ set' = set \/ set' = TRUE
  BY DEF S!Check, S!CreateStartupEvent, S!CreateMapping, S!OpenStartupEvent, S!OpenMapping,
         S!CopyCommandLine, S!SetStartupEvent, S!Goto, S!answering, ProgramTypes, Telling
<1>2. /\ programPc' \in [Program -> ProgramPlaces]
      /\ programPc'[p] \in Telling \cup {"mapping", "up"}
      /\ \A q \in Program : q # p => programPc'[q] = programPc[q]
  BY <1>1 DEF ProgramTypes, ProgramPlaces, Telling
<1>3. ProgramTypes'
  <2>1. \A q \in expected' : q \in Program /\ programPc'[q] # "off" /\ ~isPrimary'[q]
    BY <1>1, <1>2 DEF ProgramTypes, Telling
  <2>2. buffer' \in Program \cup {Empty} /\ set' \in BOOLEAN
    BY <1>1 DEF ProgramTypes
  <2>3. QED
    BY <1>1, <1>2, <2>1, <2>2 DEF ProgramTypes
<1>4. programPc[p] \notin Idle /\ ~S!Listener(p)
  BY <1>1 DEF Idle, Telling, S!Listener
<1>5. \A q \in Program : q # p => (S!Listener(q) <=> S!Listener(q)')
  BY <1>1, <1>2 DEF S!Listener
<1>6. Woken'
  BY <1>1, <1>4, <1>5 DEF Woken
<1>7. ASSUME NEW q \in expected', q \notin heard' PROVE OnItsWay(q)'
  <2>1. OnItsWay(q) /\ q \in expected /\ q \in Program
    BY <1>1, <1>7 DEF ProgramTypes
  <2>2. q = p /\ programPc[p] \in Telling /\ ~isPrimary[p]
    <3>1. q = p
      BY <1>4, <2>1 DEF OnItsWay, ByItself
    <3>2. programPc[p] \in Telling \cup {"up"} /\ ~isPrimary[p]
      BY <2>1, <3>1 DEF OnItsWay
    <3>3. QED
      BY <1>1, <3>1, <3>2 DEF Telling
  <2>3. ByItself(p)'
    BY <1>2, <2>1, <2>2 DEF OnItsWay, ByItself
  <2>4. S!Attended'
    <3>1. ~S!Listener(p)'
      BY <1>1, <2>2 DEF S!Listener
    <3>2. \A r \in Program : S!Listener(r) => r \in callback \cap viewed
      BY <2>1 DEF OnItsWay, S!Attended
    <3>3. \A r \in Program : S!Listener(r) <=> S!Listener(r)'
      BY <1>4, <1>5, <3>1
    <3>4. S!Attended
      BY <2>1 DEF OnItsWay
    <3>5. QED
      BY <1>1, <3>2, <3>3, <3>4, StillAttended
  <2>5. ~set /\ \A r \in Program : listener[r] = "waiting"
    BY <2>1, <2>2 DEF OnItsWay
  <2>6. \/ programPc'[p] \in {"attach", "copy"} /\ set' = set
        \/ programPc'[p] = "signal" /\ set' = set /\ buffer' = p
        \/ programPc[p] = "signal" /\ programPc'[p] = "up" /\ set' = TRUE /\ buffer' = buffer
    <3>1. programPc \in [Program -> ProgramPlaces]
      BY DEF ProgramTypes
    <3>2. p \in expected'
      BY <1>7, <2>2
    <3>3. CASE S!CreateStartupEvent(p) \/ S!CreateMapping(p)
      BY <2>2, <3>3 DEF S!CreateStartupEvent, S!CreateMapping, Telling
    <3>4. CASE S!OpenStartupEvent(p)
      BY <3>1, <3>2, <3>4 DEF S!OpenStartupEvent, S!Goto
    <3>5. CASE S!OpenMapping(p)
      BY <3>1, <3>2, <3>5 DEF S!OpenMapping, S!Goto
    <3>6. CASE S!CopyCommandLine(p)
      BY <3>1, <3>6 DEF S!CopyCommandLine, S!Goto
    <3>7. CASE S!SetStartupEvent(p)
      BY <3>1, <3>7 DEF S!SetStartupEvent, S!Goto
    <3>8. QED
      BY <3>3, <3>4, <3>5, <3>6, <3>7 DEF S!Check
  <2>7. /\ programPc'[p] \in Telling \cup {"up"}
        /\ programPc'[p] \in Telling => ~set'
        /\ programPc'[p] = "signal" => buffer' = p
        /\ programPc'[p] = "up" => set' /\ buffer' = p
    BY <2>1, <2>2, <2>5, <2>6 DEF Telling, OnItsWay
  <2>8. QED
    BY <1>1, <2>2, <2>3, <2>4, <2>5, <2>7 DEF OnItsWay, Told
<1>8. QED
  BY <1>3, <1>6, <1>7

\* A start.
LEMMA StartKeeps ==
    ASSUME HeardInv, NEW p \in Program, S!CreateMutex(p) \/ S!flock(p)
    PROVE  HeardInv'
<1> USE DEF HeardInv
<1>1. PICK first \in BOOLEAN, l \in {"events", "open", "up"} :
        /\ programPc[p] = "off" /\ (~first => l = "open")
        /\ isPrimary' = [isPrimary EXCEPT ![p] = first]
        /\ programPc' = [programPc EXCEPT ![p] = l]
        /\ S!Start(p, ~first)
        /\ UNCHANGED <<startup, mapped, viewed, set, buffer, callback, listener, cml>>
  <2>1. CASE S!CreateMutex(p)
    <3>1. PICK first \in BOOLEAN :
            /\ isPrimary' = [isPrimary EXCEPT ![p] = first]
            /\ S!Goto(p, IF first THEN "events" ELSE "open")
            /\ S!Start(p, ~first)
      BY <2>1 DEF S!CreateMutex
    <3>2. CASE first
      BY <2>1, <3>1, <3>2 DEF S!CreateMutex, S!Goto, S!answering
    <3>3. CASE ~first
      BY <2>1, <3>1, <3>3 DEF S!CreateMutex, S!Goto, S!answering
    <3>4. QED
      BY <3>2, <3>3
  <2>2. CASE S!flock(p)
    BY <2>2 DEF S!flock, S!Goto, S!answering
  <2>3. QED
    BY <2>1, <2>2
<1>2. /\ programPc'[p] = l /\ isPrimary'[p] = first /\ isPrimary' \in [Program -> BOOLEAN]
      /\ programPc' \in [Program -> ProgramPlaces]
      /\ \A q \in Program : q # p => programPc'[q] = programPc[q] /\ isPrimary'[q] = isPrimary[q]
  BY <1>1 DEF ProgramTypes, ProgramPlaces
<1>3. /\ heard' = heard \ {p}
      /\ \/ expected' = (expected \cap heard) \ {p}
         \/ ~first /\ S!Quiet /\ S!Attended /\ expected' = ((expected \cap heard) \ {p}) \cup {p}
  BY <1>1 DEF S!Start
<1>4. ProgramTypes'
  <2>1. \A q \in expected' : q \in Program /\ programPc'[q] # "off" /\ ~isPrimary'[q]
    BY <1>1, <1>2, <1>3 DEF ProgramTypes
  <2>2. QED
    BY <1>1, <1>2, <2>1 DEF ProgramTypes
<1>5. Woken'
  BY <1>1, <1>2 DEF Woken, S!Listener
<1>6. ASSUME NEW q \in expected', q \notin heard' PROVE OnItsWay(q)'
  <2>1. q = p /\ ~first /\ S!Quiet /\ S!Attended
    BY <1>3, <1>6
  <2>2. ~isPrimary'[p] /\ programPc'[p] = "open"
    BY <1>1, <1>2, <2>1
  <2>3. /\ ByItself(p)' /\ ~set' /\ \A r \in Program : listener'[r] = "waiting"
    BY <1>1, <1>2, <2>1 DEF S!Quiet, ByItself, Idle
  <2>4. S!Attended'
    <3>1. ~S!Listener(p) /\ ~S!Listener(p)'
      BY <1>1, <2>2 DEF S!Listener
    <3>2. \A r \in Program : S!Listener(r) <=> S!Listener(r)'
      BY <1>1, <1>2, <3>1 DEF S!Listener
    <3>3. \A r \in Program : S!Listener(r) => r \in callback' \cap viewed'
      BY <1>1, <2>1 DEF S!Attended
    <3>4. QED
      BY <2>1, <3>2, <3>3, StillAttended
  <2>5. QED
    BY <2>1, <2>2, <2>3, <2>4 DEF OnItsWay, Telling
<1>7. QED
  BY <1>4, <1>5, <1>6

\* A callback is registered.
LEMMA CallbackRegistered ==
    ASSUME HeardInv, NEW p \in Program, S!registerSecondaryCallback(p)
    PROVE  HeardInv'
<1> USE DEF HeardInv
<1>1. /\ callback \subseteq callback'
      /\ UNCHANGED <<programPc, isPrimary, startup, mapped, viewed, set, buffer, listener, cml,
                     heard, expected>>
  BY DEF S!registerSecondaryCallback, S!kernel
<1>2. ProgramTypes' /\ Woken'
  BY <1>1 DEF ProgramTypes, Woken, S!Listener
<1>3. ASSUME NEW q \in expected, OnItsWay(q) PROVE OnItsWay(q)'
  <2>1. S!Attended'
    BY <1>1, <1>3 DEF OnItsWay, S!Attended, S!Listener
  <2>2. Told(q) => Told(q)'
    BY <1>1 DEF Told, OnlyWoken
  <2>3. QED
    BY <1>1, <1>3, <2>1, <2>2 DEF OnItsWay, ByItself
<1>4. QED
  BY <1>1, <1>2, <1>3

\* The listener takes the event, reads the buffer, and calls the callback.
LEMMA ListenKeeps ==
    ASSUME HeardInv, NEW p \in Program, S!Listen(p)
    PROVE  HeardInv'
<1> USE DEF HeardInv
<1>1. UNCHANGED <<programPc, isPrimary, startup, mapped, viewed, callback, expected>>
  BY DEF S!Listen, S!Wake, S!Read, S!Hear, S!kernel
<1>2. /\ listener' \in [Program -> {"waiting", "woken", "reading"}]
      /\ \A q \in Program : q # p => listener'[q] = listener[q] /\ cml'[q] = cml[q]
      /\ heard \subseteq heard'
  BY DEF S!Listen, S!Wake, S!Read, S!Hear, ProgramTypes
<1>3. S!Listener(p)
  BY DEF S!Listen, S!Wake, S!Read, S!Hear, Woken
<1>4. Woken'
  BY <1>1, <1>2, <1>3 DEF Woken, S!Listener
<1>5. ASSUME NEW q \in expected, q \notin heard' PROVE OnItsWay(q)'
  <2>1. OnItsWay(q)
    BY <1>2, <1>5
  <2>2. S!Attended' /\ ByItself(q)'
    BY <1>1, <2>1 DEF OnItsWay, S!Attended, S!Listener, ByItself
  <2>3. p \in callback \cap viewed
    BY <1>3, <2>1 DEF OnItsWay, S!Attended
  <2>4. programPc[q] = "up" /\ Told(q)
    <3>1. set \/ listener[p] # "waiting"
      BY DEF S!Listen, S!Wake, S!Read, S!Hear
    <3>2. QED
      BY <2>1, <3>1 DEF OnItsWay
  <2>5. Told(q)'
    <3>1. CASE S!Wake(p)
      <4>1. /\ set /\ set' = FALSE /\ listener[p] = "waiting" /\ listener'[p] = "woken"
            /\ UNCHANGED <<buffer, cml>>
        BY <2>3, <3>1 DEF S!Wake, ProgramTypes
      <4>2. CASE buffer = q /\ \A r \in Program : listener[r] = "waiting"
        BY <1>2, <4>1, <4>2 DEF Told, OnlyWoken
      <4>3. CASE \E r \in Program : listener[r] = "reading" /\ cml[r] = q
        BY <1>2, <4>1, <4>3 DEF Told
      <4>4. QED
        BY <2>4, <4>1, <4>2, <4>3 DEF Told
    <3>2. CASE S!Read(p)
      <4>1. /\ listener[p] = "woken" /\ listener'[p] = "reading" /\ cml'[p] = buffer
        BY <2>3, <3>2 DEF S!Read, ProgramTypes
      <4>2. CASE buffer = q
        BY <4>1, <4>2 DEF Told
      <4>3. CASE \E r \in Program : listener[r] = "reading" /\ cml[r] = q
        BY <1>2, <4>1, <4>3 DEF Told
      <4>4. QED
        BY <2>4, <4>2, <4>3 DEF Told
    <3>3. CASE S!Hear(p)
      <4>1. listener[p] = "reading" /\ heard' = heard \cup {cml[p]}
        BY <3>3 DEF S!Hear
      <4>2. PICK r \in Program : listener[r] = "reading" /\ cml[r] = q
        BY <2>4, <4>1 DEF Told, OnlyWoken
      <4>3. r # p
        BY <1>5, <4>1, <4>2
      <4>4. QED
        BY <1>2, <4>2, <4>3 DEF Told
    <3>4. QED
      BY <3>1, <3>2, <3>3 DEF S!Listen
  <2>6. QED
    BY <1>1, <2>1, <2>2, <2>4, <2>5 DEF OnItsWay, Telling
<1>6. ProgramTypes'
  <2>1. /\ cml' \in [Program -> Program \cup {Empty}] /\ buffer' \in Program \cup {Empty}
        /\ set' = set \/ set' = FALSE
    BY DEF S!Listen, S!Wake, S!Read, S!Hear, S!kernel, ProgramTypes
  <2>2. QED
    BY <1>1, <1>2, <2>1 DEF ProgramTypes
<1>7. QED
  BY <1>1, <1>4, <1>5, <1>6

\* The destructor and a crash.
LEMMA EndKeepsHeard ==
    ASSUME HeardInv, NEW p \in Program, S!Close(p) \/ S!End(p)
    PROVE  HeardInv'
<1> USE DEF HeardInv
<1>1. /\ programPc' \in [Program -> ProgramPlaces] /\ programPc'[p] \in {"closing", "off"}
      /\ isPrimary' \in [Program -> BOOLEAN]
      /\ listener' \in [Program -> {"waiting", "woken", "reading"}] /\ listener'[p] = "waiting"
      /\ cml' \in [Program -> Program \cup {Empty}]
      /\ \A q \in Program : q # p =>
            /\ programPc'[q] = programPc[q] /\ isPrimary'[q] = isPrimary[q]
            /\ listener'[q] = listener[q] /\ cml'[q] = cml[q]
            /\ (q \in startup' <=> q \in startup) /\ (q \in mapped' <=> q \in mapped)
            /\ (q \in viewed' <=> q \in viewed) /\ (q \in callback' <=> q \in callback)
  <2>1. CASE S!Close(p)
    BY <2>1 DEF S!Close, S!Goto, S!answering, ProgramTypes, ProgramPlaces
  <2>2. CASE S!End(p)
    BY <2>2 DEF S!End, S!Goto, ProgramTypes, ProgramPlaces
  <2>3. QED
    BY <2>1, <2>2
<1>2. /\ S!Ends(p) /\ heard' = heard /\ viewed' \subseteq mapped'
      /\ buffer' \in {buffer, Empty}
      /\ mapped' # {} => buffer' = buffer
      /\ set' \in BOOLEAN
      /\ startup' # {} /\ ~S!Listener(p) => (set' <=> set)
  <2>1. CASE S!Close(p)
    <3>1. set' = set \/ set' = (set /\ ~S!Listener(p))
      BY <2>1 DEF S!Close
    <3>2. set \in BOOLEAN
      BY DEF ProgramTypes
    <3>3. CASE S!Listener(p)
      BY <2>1, <3>1, <3>2, <3>3 DEF S!Close, S!answering, ProgramTypes
    <3>4. CASE ~S!Listener(p)
      <4>1. set' = set \/ set' = (set /\ TRUE)
        BY <3>1, <3>4, Zenon
      <4>2. set' \in BOOLEAN /\ (set' <=> set)
        BY <3>2, <4>1
      <4>3. QED
        BY <2>1, <4>2 DEF S!Close, S!answering, ProgramTypes
    <3>5. QED
      BY <3>3, <3>4
  <2>2. CASE S!End(p)
    <3>1. set' = (set /\ startup' # {})
      BY <2>2 DEF S!End
    <3>2. set' \in BOOLEAN /\ (startup' # {} => (set' <=> set))
      BY <3>1
    <3>3. QED
      BY <2>2, <3>2 DEF S!End, ProgramTypes
  <2>3. QED
    BY <2>1, <2>2
<1>3. /\ expected' \subseteq expected /\ p \notin expected'
      /\ isPrimary[p] => expected' \subseteq heard
  BY <1>2 DEF S!Ends, ProgramTypes
<1>4. ProgramTypes'
  BY <1>1, <1>2, <1>3 DEF ProgramTypes
<1>5. Woken'
  BY <1>1 DEF Woken, S!Listener
<1>6. ASSUME NEW q \in expected', q \notin heard' PROVE OnItsWay(q)'
  <2>1. OnItsWay(q) /\ q \in Program /\ q # p /\ ~isPrimary[p]
    BY <1>2, <1>3, <1>6 DEF ProgramTypes
  <2>2. ~S!Listener(p) /\ ~S!Listener(p)' /\ listener[p] = "waiting"
    BY <1>1, <2>1 DEF S!Listener, Woken, ProgramTypes
  <2>3. \A r \in Program : S!Listener(r) <=> S!Listener(r)'
    BY <1>1, <2>2 DEF S!Listener
  <2>4. S!Attended'
    <3>1. \A r \in Program : S!Listener(r) => r \in callback' \cap viewed'
      BY <1>1, <2>1, <2>2 DEF OnItsWay, S!Attended
    <3>2. QED
      BY <2>1, <2>3, <3>1, StillAttended DEF OnItsWay
  <2>5. (set' <=> set) /\ buffer' = buffer
    <3>1. startup' # {} /\ mapped' # {}
      BY <1>2, <2>4 DEF S!Attended, S!Listener
    <3>2. QED
      BY <1>2, <2>2, <3>1
  <2>6. Told(q) => Told(q)'
    BY <1>1, <2>2, <2>5 DEF Told, OnlyWoken
  <2>7. ByItself(q)'
    BY <1>1, <2>1 DEF OnItsWay, ByItself, Idle
  <2>8. QED
    BY <1>1, <2>1, <2>2, <2>4, <2>5, <2>6, <2>7 DEF OnItsWay
<1>7. QED
  BY <1>2, <1>3, <1>4, <1>5, <1>6

LEMMA HeardHolds == Spec => []HeardInv
<1>1. Init => HeardInv
  <2> SUFFICES ASSUME S!Init PROVE HeardInv
    BY DEF Init
  <2>1. QED
    BY DEF S!Init, HeardInv, ProgramTypes, ProgramPlaces, Woken
<1>2. HeardInv /\ [Next]_vars => HeardInv'
  <2> SUFFICES ASSUME HeardInv, [Next]_vars PROVE HeardInv'
    OBVIOUS
  <2>1. S!Next \/ UNCHANGED programVars
    BY Alone
  <2>2. CASE UNCHANGED programVars
    <3>1. UNCHANGED <<programPc, isPrimary, startup, mapped, viewed, set, buffer, callback,
                      listener, cml, heard, expected>>
      BY <2>2 DEF programVars
    <3>2. QED
      BY <3>1 DEF HeardInv, ProgramTypes, Woken, OnItsWay, ByItself, Told, OnlyWoken,
                  S!Attended, S!Listener
  <2>3. S!Rest => UNCHANGED programVars
    BY DEF S!Rest, S!vars, S!kernel, S!answering, programVars
  <2>4. QED
    BY <2>1, <2>2, <2>3, CheckKeeps, StartKeeps, CallbackRegistered, ListenKeeps, EndKeepsHeard
    DEF S!Next
<1>3. QED
  BY <1>1, <1>2, Safety, PTL

\* For any number of programs, whichever calls fail and whoever ends or starts
\* again: a secondary that starts while a listener waits that has a callback and
\* the buffer, and while no other start is under way, is heard or about to be.
THEOREM CommandLinesAreHeard == Spec => []SecondaryIsHeard
<1>1. HeardInv => SecondaryIsHeard
  BY DEF HeardInv, OnItsWay, Told, SecondaryIsHeard, S!SecondaryIsHeard
<1>2. QED
  BY <1>1, HeardHolds, PTL
-----------------------------------------------------------------------------
(* MessagePumpForWin: one message announces the work of the pump. *)

OuterPlaces == {"work", "delayed", "settle"}
InnerPlaces == {"handle", "resched", "rearm", "modal", "task"}
DeepPlaces == InnerPlaces \cup {"reset", "again", "dispatch", "timer"}
TopPlaces == OuterPlaces \cup {"foreign", "peek", "wait", "left"}

PumpTypes ==
    /\ workState \in {0, 1} /\ queue \in Seq({"work", "user"})
    /\ post \in [Poster -> {"idle", "exchange", "post", "undo"}]
    /\ pumpPc \in TopPlaces \cup DeepPlaces
    /\ places \in Seq(OuterPlaces \cup InnerPlaces)

\* A part of a turn of doRunLoop is the outermost of the places to return to, and
\* no other is one; work and delayed work go on only after a task has returned.
Nesting ==
    /\ places = <<>> <=> pumpPc \in TopPlaces
    /\ \A i \in DOMAIN places : places[i] \in OuterPlaces <=> i = 1
    /\ places # <<>> /\ places[1] \in {"delayed", "settle"} =>
        IF Len(places) = 1 THEN pumpPc = "task" ELSE places[2] = "task"
    /\ task # Null => pumpPc = "task" \/ \E i \in DOMAIN places : places[i] = "task"

Works(q) == \E i \in DOMAIN q : q[i] = "work"
Single(q) == \A i, j \in DOMAIN q : q[i] = "work" /\ q[j] = "work" => i = j
HasWork == Works(queue)
Announces(p) == post[p] \in {"post", "undo"}

\* workState_ is HAVE_WORK while there is exactly one of: a kMsgHaveWork, a
\* poster about to post it, the pump that has taken it.
OneAnnouncement ==
    /\ Single(queue)
    /\ \A p, r \in Poster : Announces(p) /\ Announces(r) => p = r
    /\ \A p \in Poster : Announces(p) => ~HasWork /\ pumpPc # "reset"
    /\ HasWork => pumpPc # "reset"
    /\ workState = 1 <=> HasWork \/ pumpPc = "reset" \/ \E p \in Poster : Announces(p)
    /\ \A p \in Poster : post[p] = "undo" => refused
    /\ held # "work"

\* The work there is will be heard of.
Covered ==
    \/ refused \/ HasWork \/ \E p \in Poster : post[p] \in {"exchange", "post"}
    \/ incomingQueue = <<>> /\ work_queue = <<>>

\* The pump ends a turn with work left only to begin another.
NoneForgotten ==
    /\ pumpPc \in {"delayed", "settle"} => more \/ Covered
    /\ pumpPc = "wait" => Covered

PumpInv == PumpTypes /\ Nesting /\ OneAnnouncement /\ NoneForgotten

LEMMA TailWorks ==
    ASSUME NEW q \in Seq({"work", "user"}), q # <<>>
    PROVE  /\ Tail(q) \in Seq({"work", "user"}) /\ Head(q) \in {"work", "user"}
           /\ Works(q) <=> Head(q) = "work" \/ Works(Tail(q))
           /\ Single(q) => Single(Tail(q)) /\ ~(Head(q) = "work" /\ Works(Tail(q)))
<1>1. /\ Tail(q) \in Seq({"work", "user"}) /\ Len(Tail(q)) = Len(q) - 1
      /\ \A i \in 1 .. Len(Tail(q)) : Tail(q)[i] = q[i + 1]
      /\ Head(q) = q[1] /\ Head(q) \in {"work", "user"}
  BY HeadTailProperties
<1>2. Len(q) \in Nat /\ Len(q) > 0 /\ DOMAIN q = 1 .. Len(q) /\ DOMAIN Tail(q) = 1 .. Len(q) - 1
  BY <1>1, LenProperties, EmptySeq
<1>3. \A i \in DOMAIN Tail(q) : i \in Nat /\ i + 1 \in DOMAIN q /\ i + 1 # 1 /\ Tail(q)[i] = q[i + 1]
  BY <1>1, <1>2
<1>4. \A i \in DOMAIN q : i # 1 => i - 1 \in DOMAIN Tail(q) /\ Tail(q)[i - 1] = q[i]
  BY <1>1, <1>2
<1>5. Works(q) <=> Head(q) = "work" \/ Works(Tail(q))
  <2>1. 1 \in DOMAIN q
    BY <1>2
  <2>2. Head(q) = "work" => Works(q)
    BY <1>1, <2>1 DEF Works
  <2>3. Works(Tail(q)) => Works(q)
    BY <1>3 DEF Works
  <2>4. Works(q) => Head(q) = "work" \/ Works(Tail(q))
    BY <1>1, <1>4 DEF Works
  <2>5. QED
    BY <2>2, <2>3, <2>4
<1>6. ASSUME Single(q) PROVE Single(Tail(q)) /\ ~(Head(q) = "work" /\ Works(Tail(q)))
  <2>1. ASSUME NEW i \in DOMAIN Tail(q), NEW j \in DOMAIN Tail(q),
               Tail(q)[i] = "work", Tail(q)[j] = "work"
        PROVE  i = j
    <3>1. i + 1 = j + 1
      BY <1>3, <1>6, <2>1 DEF Single
    <3>2. QED
      BY <1>3, <3>1
  <2>2. ASSUME Head(q) = "work", NEW i \in DOMAIN Tail(q), Tail(q)[i] = "work" PROVE FALSE
    <3>1. 1 \in DOMAIN q /\ q[1] = "work" /\ q[i + 1] = "work" /\ i + 1 \in DOMAIN q /\ i + 1 # 1
      BY <1>1, <1>2, <1>3, <2>2
    <3>2. QED
      BY <1>6, <3>1 DEF Single
  <2>3. QED
    BY <2>1, <2>2 DEF Single, Works
<1>7. QED
  BY <1>1, <1>5, <1>6

LEMMA AppendWorks ==
    ASSUME NEW q \in Seq({"work", "user"}), NEW x \in {"work", "user"}
    PROVE  /\ Append(q, x) \in Seq({"work", "user"})
           /\ Works(Append(q, x)) <=> Works(q) \/ x = "work"
           /\ Single(q) /\ (x = "work" => ~Works(q)) => Single(Append(q, x))
<1> DEFINE p == Append(q, x)
<1>1. /\ p \in Seq({"work", "user"}) /\ Len(q) + 1 \in DOMAIN p /\ p[Len(q) + 1] = x
      /\ \A i \in DOMAIN q : i \in DOMAIN p /\ p[i] = q[i] /\ i < Len(q) + 1
      /\ \A i \in DOMAIN p : i \in DOMAIN q \/ i = Len(q) + 1
  BY PushedOn
<1> HIDE DEF p
<1>2. Works(p) <=> Works(q) \/ x = "work"
  BY <1>1 DEF Works
<1>3. ASSUME Single(q), x = "work" => ~Works(q) PROVE Single(p)
  BY <1>1, <1>3 DEF Single, Works
<1>4. QED
  BY <1>1, <1>2, <1>3 DEF p

LEMMA Pushed ==
    ASSUME NEW Elem, NEW q \in Seq(Elem), NEW a \in Elem, NEW b \in Elem
    PROVE  /\ q \o <<a>> \in Seq(Elem) /\ q \o <<a, b>> \in Seq(Elem)
           /\ q \o <<a>> = Append(q, a)
           /\ q \o <<a, b>> = Append(Append(q, a), b)
<1>1. <<a>> \in Seq(Elem) /\ <<a, b>> \in Seq(Elem) /\ Len(q) \in Nat
  BY LenProperties
<1>2. q \o <<a>> \in Seq(Elem) /\ q \o <<a, b>> \in Seq(Elem)
  BY <1>1, ConcatProperties
<1>3. q \o <<a>> = Append(q, a)
  BY <1>1
<1>4. q \o <<a, b>> = Append(Append(q, a), b)
  BY <1>1
<1>5. QED
  BY <1>2, <1>3, <1>4

\* A place is added to those to return to, or two.
LEMMA GoesDeeper ==
    ASSUME PumpTypes, Nesting, pumpPc # "task", NEW a \in OuterPlaces \cup InnerPlaces,
           a \in OuterPlaces <=> pumpPc \in TopPlaces, pumpPc' \in DeepPlaces,
           \/ /\ places' = places \o <<a>>
              /\ a \in {"delayed", "settle"} => pumpPc' = "task"
              /\ task' = task \/ pumpPc' = "task"
           \/ \E b \in InnerPlaces :
              /\ places' = places \o <<a, b>>
              /\ a \in {"delayed", "settle"} => b = "task"
              /\ task' = task \/ b = "task"
    PROVE  places' \in Seq(OuterPlaces \cup InnerPlaces) /\ Nesting'
<1> DEFINE Elem == OuterPlaces \cup InnerPlaces
           n == Len(places)
<1>1. /\ places \in Seq(Elem) /\ n \in Nat /\ DOMAIN places = 1 .. n
      /\ pumpPc \in TopPlaces <=> n = 0
      /\ places = <<>> <=> n = 0
  BY LenProperties, EmptySeq DEF PumpTypes, Nesting
<1>2. pumpPc' \notin TopPlaces /\ (a \in OuterPlaces <=> n = 0)
  BY <1>1 DEF DeepPlaces, TopPlaces, InnerPlaces, OuterPlaces
<1>3. /\ n > 0 => /\ places[1] \in {"delayed", "settle"} => n > 1 /\ places[2] = "task"
      /\ \A i \in 1 .. n : places[i] \in OuterPlaces <=> i = 1
      /\ task # Null => \E i \in 1 .. n : places[i] = "task"
  BY <1>1 DEF Nesting
<1>4. ASSUME places' = places \o <<a>>,
             a \in {"delayed", "settle"} => pumpPc' = "task",
             task' = task \/ pumpPc' = "task"
      PROVE  places' \in Seq(Elem) /\ Nesting'
  <2>1. /\ places' \in Seq(Elem) /\ DOMAIN places' = 1 .. n + 1 /\ Len(places') = n + 1
        /\ places'[n + 1] = a /\ \A i \in 1 .. n : places'[i] = places[i]
    <3>1. places' = Append(places, a) /\ places' \in Seq(Elem)
      BY <1>1, <1>4, Pushed
    <3>2. /\ Len(Append(places, a)) = n + 1 /\ Append(places, a)[n + 1] = a
          /\ \A i \in 1 .. n : Append(places, a)[i] = places[i]
      BY <1>1, AppendProperties
    <3>3. QED
      BY <3>1, <3>2, LenProperties
  <2>2. places' # <<>>
    BY <1>1, <2>1, EmptySeq
  <2>3. \A i \in 1 .. n + 1 : places'[i] \in OuterPlaces <=> i = 1
    BY <1>1, <1>2, <1>3, <2>1
  <2>4. places'[1] \in {"delayed", "settle"} =>
            IF Len(places') = 1 THEN pumpPc' = "task" ELSE places'[2] = "task"
    <3>1. CASE n = 0
      BY <1>1, <1>4, <2>1, <3>1
    <3>2. CASE n > 0
      BY <1>1, <1>3, <2>1, <3>2
    <3>3. QED
      BY <1>1, <3>1, <3>2
  <2>5. task' # Null => pumpPc' = "task" \/ \E i \in 1 .. n + 1 : places'[i] = "task"
    BY <1>1, <1>3, <1>4, <2>1
  <2>6. QED
    BY <1>2, <2>1, <2>2, <2>3, <2>4, <2>5 DEF Nesting
<1>5. ASSUME NEW b \in InnerPlaces, places' = places \o <<a, b>>,
             a \in {"delayed", "settle"} => b = "task",
             task' = task \/ b = "task"
      PROVE  places' \in Seq(Elem) /\ Nesting'
  <2>1. /\ places' \in Seq(Elem) /\ DOMAIN places' = 1 .. n + 2 /\ Len(places') = n + 2
        /\ places'[n + 1] = a /\ places'[n + 2] = b
        /\ \A i \in 1 .. n : places'[i] = places[i]
    <3> DEFINE p == Append(places, a)
    <3>1. places' = Append(p, b) /\ places' \in Seq(Elem)
      BY <1>1, <1>5, Pushed
    <3>2. /\ p \in Seq(Elem) /\ Len(p) = n + 1 /\ p[n + 1] = a
          /\ \A i \in 1 .. n : p[i] = places[i]
      BY <1>1, AppendProperties
    <3> HIDE DEF p
    <3>3. /\ Len(places') = n + 2 /\ places'[n + 2] = b
          /\ \A i \in 1 .. n + 1 : places'[i] = p[i]
      BY <1>1, <3>1, <3>2, AppendProperties
    <3>4. DOMAIN places' = 1 .. n + 2
      BY <3>1, <3>3, LenProperties
    <3>5. QED
      BY <1>1, <3>1, <3>2, <3>3, <3>4
  <2>2. places' # <<>>
    BY <1>1, <2>1, EmptySeq
  <2>3. b \notin OuterPlaces
    BY DEF InnerPlaces, OuterPlaces
  <2>4. \A i \in 1 .. n + 2 : places'[i] \in OuterPlaces <=> i = 1
    BY <1>1, <1>2, <1>3, <2>1, <2>3
  <2>5. places'[1] \in {"delayed", "settle"} =>
            IF Len(places') = 1 THEN pumpPc' = "task" ELSE places'[2] = "task"
    <3>1. CASE n = 0
      BY <1>1, <1>5, <2>1, <3>1
    <3>2. CASE n > 0
      BY <1>1, <1>3, <2>1, <3>2
    <3>3. QED
      BY <1>1, <3>1, <3>2
  <2>6. task' # Null => \E i \in 1 .. n + 2 : places'[i] = "task"
    BY <1>1, <1>3, <1>5, <2>1
  <2>7. QED
    BY <1>2, <2>1, <2>2, <2>4, <2>5, <2>6 DEF Nesting
<1>6. QED
  BY <1>4, <1>5

\* The innermost place is returned to.
LEMMA ComesBack ==
    ASSUME PumpTypes, Nesting, pumpPc \notin TopPlaces, W!Return,
           IF pumpPc = "task" THEN task' = Null ELSE task' = task
    PROVE  /\ places' \in Seq(OuterPlaces \cup InnerPlaces) /\ Nesting'
           /\ pumpPc' \in OuterPlaces \cup InnerPlaces
           /\ pumpPc' \in {"delayed", "settle"} => pumpPc = "task"
<1> DEFINE Elem == OuterPlaces \cup InnerPlaces
           n == Len(places)
<1>1. /\ places \in Seq(Elem) /\ n \in Nat /\ n > 0 /\ DOMAIN places = 1 .. n /\ places # <<>>
  BY LenProperties, EmptySeq DEF PumpTypes, Nesting
<1>2. pumpPc' = places[n] /\ places' = SubSeq(places, 1, n - 1)
  BY DEF W!Return, W!Last, W!Front
<1>3. /\ places' \in Seq(Elem) /\ DOMAIN places' = 1 .. n - 1 /\ Len(places') = n - 1
      /\ \A i \in 1 .. n - 1 : places'[i] = places[i]
  <2>1. places' = [i \in 1 .. n - 1 |-> places[i]]
    BY <1>1, <1>2
  <2>2. \A i \in 1 .. n - 1 : places[i] \in Elem
    BY <1>1, ElementOfSeq
  <2>3. places' \in Seq(Elem)
    BY <1>1, <2>1, <2>2, IsASeq
  <2>4. DOMAIN places' = 1 .. n - 1
    BY <2>1
  <2>5. Len(places') = n - 1
    <3>1. Len(places') \in Nat /\ DOMAIN places' = 1 .. Len(places')
      BY <2>3, LenProperties
    <3>2. n - 1 \in Nat
      BY <1>1
    <3> HIDE DEF n
    <3>3. QED
      BY <2>4, <3>1, <3>2
  <2>6. QED
    BY <2>1, <2>3, <2>4, <2>5
<1>4. pumpPc' \in Elem
  BY <1>1, <1>2, ElementOfSeq
<1> HIDE DEF n
<1>5. /\ \A i \in 1 .. n : places[i] \in OuterPlaces <=> i = 1
      /\ places[1] \in {"delayed", "settle"} =>
            IF n = 1 THEN pumpPc = "task" ELSE places[2] = "task"
      /\ task # Null => pumpPc = "task" \/ \E i \in 1 .. n : places[i] = "task"
  BY <1>1 DEF Nesting, n
<1>6. pumpPc' \in OuterPlaces <=> n = 1
  BY <1>1, <1>2, <1>5
<1>7. pumpPc' \in TopPlaces <=> pumpPc' \in OuterPlaces
  BY <1>4 DEF TopPlaces, InnerPlaces, OuterPlaces
<1>8. places' = <<>> <=> n = 1
  BY <1>1, <1>3, EmptySeq
<1>9. \A i \in 1 .. n - 1 : places'[i] \in OuterPlaces <=> i = 1
  BY <1>1, <1>3, <1>5
<1>10. n > 1 /\ places'[1] \in {"delayed", "settle"} =>
            IF n - 1 = 1 THEN pumpPc' = "task" ELSE places'[2] = "task"
  <2>1. CASE n = 2
    BY <1>2, <1>3, <1>5, <2>1
  <2>2. CASE n > 2
    BY <1>1, <1>3, <1>5, <2>2
  <2>3. QED
    BY <1>1, <2>1, <2>2
<1>11. task' # Null => pumpPc' = "task" \/ \E i \in 1 .. n - 1 : places'[i] = "task"
  <2>1. ASSUME task' # Null PROVE \E i \in 1 .. n : places[i] = "task"
    BY <1>5, <2>1
  <2>2. \A i \in 1 .. n : i = n \/ i \in 1 .. n - 1
    BY <1>1
  <2>3. QED
    BY <1>2, <1>3, <2>1, <2>2
<1>12. Nesting'
  BY <1>1, <1>3, <1>6, <1>7, <1>8, <1>9, <1>10, <1>11 DEF Nesting
<1>13. pumpPc' \in {"delayed", "settle"} => pumpPc = "task"
  <2>1. pumpPc' \in {"delayed", "settle"} => n = 1 /\ places[1] \in {"delayed", "settle"}
    BY <1>2, <1>6 DEF OuterPlaces
  <2>2. QED
    BY <1>5, <2>1
<1>14. QED
  BY <1>3, <1>4, <1>12, <1>13

\* Nothing but the place changes.
LEMMA GoesOn ==
    ASSUME PumpTypes, Nesting, pumpPc # "task" \/ pumpPc' = pumpPc, UNCHANGED <<places, task>>,
           pumpPc' \in TopPlaces \cup DeepPlaces,
           pumpPc' \in TopPlaces <=> pumpPc \in TopPlaces
    PROVE  Nesting'
<1>1. task # Null => pumpPc' = "task" \/ \E i \in DOMAIN places : places[i] = "task"
  BY DEF Nesting
<1>2. QED
  BY <1>1 DEF Nesting

PumpAlone == <<queue, workState, held, refused, post>>

\* The pump moves on within a turn of doRunLoop, or in the handler of the timer.
LEMMA TurnKeeps ==
    ASSUME PumpInv,
           \/ W!run \/ W!PeekQuit \/ W!PeekNone \/ W!Leave \/ W!Settle \/ W!waitForWork
           \/ W!DoWorkReload \/ W!DoWorkDelay \/ W!DoDelayedNothing \/ W!DoDelayedNotYet
           \/ pumpPc = "work" /\ W!DoWorkNothing
    PROVE  PumpInv'
<1> USE DEF PumpInv
<1>1. /\ UNCHANGED <<PumpAlone, places, task>>
      /\ pumpPc # "reset" /\ pumpPc' # "reset" /\ pumpPc # "task"
      /\ pumpPc' \in TopPlaces \cup DeepPlaces
      /\ pumpPc' \in TopPlaces <=> pumpPc \in TopPlaces
  <2>1. CASE W!run \/ W!PeekQuit \/ W!PeekNone \/ W!Leave \/ W!waitForWork
    BY <2>1 DEF W!run, W!PeekQuit, W!PeekNone, W!Leave, W!waitForWork, W!Goto, W!pump, W!system,
            W!loop, W!world, PumpAlone, TopPlaces, OuterPlaces
  <2>2. CASE W!Settle
    BY <2>2 DEF W!Settle, W!Goto, W!pump, W!loop, W!world, PumpAlone, TopPlaces, OuterPlaces
  <2>3. CASE W!DoWorkReload \/ W!DoWorkDelay
    <3>1. /\ UNCHANGED <<PumpAlone, places, task, pumpPc>> /\ pumpPc \in {"work", "handle"}
      BY <2>3 DEF W!DoWorkReload, W!DoWorkDelay, W!InDoWork, W!pump, W!system, W!control, PumpAlone
    <3>2. QED
      BY <3>1 DEF PumpTypes
  <2>4. CASE W!DoDelayedNothing \/ W!DoDelayedNotYet
    <3>1. /\ UNCHANGED <<PumpAlone, places, task>>
          /\ \/ pumpPc = "delayed" /\ pumpPc' = "settle"
             \/ pumpPc = "timer" /\ pumpPc' = "rearm"
      BY <2>4 DEF W!DoDelayedNothing, W!DoDelayedNotYet, W!InDoDelayed, W!AfterDelayed, W!Goto,
              W!loop, PumpAlone
    <3>2. QED
      BY <3>1 DEF TopPlaces, OuterPlaces, DeepPlaces, InnerPlaces
  <2>5. CASE pumpPc = "work" /\ W!DoWorkNothing
    BY <2>5 DEF W!DoWorkNothing, W!Goto, W!pump, W!system, W!loop, W!world, PumpAlone, TopPlaces,
            OuterPlaces
  <2>6. QED
    BY <2>1, <2>2, <2>3, <2>4, <2>5
<1>2. PumpTypes' /\ Nesting'
  BY <1>1, GoesOn DEF PumpTypes, PumpAlone
<1>3. OneAnnouncement'
  BY <1>1 DEF OneAnnouncement, HasWork, Announces, PumpAlone
<1>4. NoneForgotten'
  <2>1. CASE W!run \/ W!PeekQuit \/ W!PeekNone \/ W!Leave \/ W!waitForWork
    BY <2>1 DEF W!run, W!PeekQuit, W!PeekNone, W!Leave, W!waitForWork, W!Goto, NoneForgotten
  <2>2. CASE W!Settle
    <3>1. /\ pumpPc = "settle" /\ more' = more /\ UNCHANGED <<incomingQueue, work_queue>>
          /\ pumpPc' \in {"left", "peek"} \/ (~more /\ pumpPc' = "wait")
      BY <2>2 DEF W!Settle, W!Goto, W!loop
    <3>2. QED
      BY <1>1, <3>1 DEF NoneForgotten, Covered, HasWork, PumpAlone
  <2>3. CASE W!DoWorkReload \/ W!DoWorkDelay
    BY <2>3 DEF W!DoWorkReload, W!DoWorkDelay, W!InDoWork, W!control, NoneForgotten
  <2>4. CASE W!DoDelayedNothing \/ W!DoDelayedNotYet
    <3>1. /\ UNCHANGED <<incomingQueue, work_queue, more>>
          /\ \/ pumpPc = "delayed" /\ pumpPc' = "settle"
             \/ pumpPc' = "rearm"
      BY <2>4 DEF W!DoDelayedNothing, W!DoDelayedNotYet, W!InDoDelayed, W!AfterDelayed, W!Goto,
              W!loop
    <3>2. QED
      BY <1>1, <3>1 DEF NoneForgotten, Covered, HasWork, PumpAlone
  <2>5. CASE pumpPc = "work" /\ W!DoWorkNothing
    <3>1. pumpPc' = "delayed" /\ UNCHANGED <<incomingQueue, work_queue>>
      BY <2>5 DEF W!DoWorkNothing, W!Goto, W!loop
    <3>2. task = Null
      <4>1. places = <<>>
        BY <2>5 DEF Nesting, TopPlaces, OuterPlaces
      <4>2. DOMAIN places = {}
        BY <4>1
      <4>3. QED
        BY <2>5, <4>2 DEF Nesting
    <3>3. incomingQueue = <<>> /\ work_queue = <<>>
      BY <2>5, <3>2 DEF W!DoWorkNothing
    <3>4. QED
      BY <3>1, <3>3 DEF NoneForgotten, Covered
  <2>6. QED
    BY <2>1, <2>2, <2>3, <2>4, <2>5
<1>5. QED
  BY <1>2, <1>3, <1>4

\* The place that was left for a task, a message or a modal loop is returned to.
LEMMA BackKeeps ==
    ASSUME PumpInv,
           \/ W!ReturnTask \/ W!Rearm \/ W!ModalEnds
           \/ pumpPc = "handle" /\ W!DoWorkNothing
    PROVE  PumpInv'
<1> USE DEF PumpInv
<1>1. /\ UNCHANGED PumpAlone /\ W!Return /\ pumpPc \in {"task", "rearm", "modal", "handle"}
      /\ IF pumpPc = "task" THEN task' = Null /\ W!Tell(TRUE) ELSE task' = task
  BY DEF W!ReturnTask, W!Rearm, W!ModalEnds, W!DoWorkNothing, W!pump, W!system, W!loop, PumpAlone
<1>2. pumpPc \notin TopPlaces /\ pumpPc # "reset"
  BY <1>1 DEF TopPlaces, OuterPlaces
<1>3. /\ places' \in Seq(OuterPlaces \cup InnerPlaces) /\ Nesting'
      /\ pumpPc' \in OuterPlaces \cup InnerPlaces
      /\ pumpPc' \in {"delayed", "settle"} => pumpPc = "task"
  BY <1>1, <1>2, ComesBack
<1>4. pumpPc' \notin {"reset", "wait"}
  BY <1>3 DEF OuterPlaces, InnerPlaces
<1>5. PumpTypes'
  BY <1>1, <1>3 DEF PumpTypes, PumpAlone, TopPlaces, DeepPlaces
<1>6. OneAnnouncement'
  BY <1>1, <1>2, <1>4 DEF OneAnnouncement, HasWork, Announces, PumpAlone
<1>7. pumpPc' \in {"delayed", "settle"} => more'
  <2>1. SUFFICES ASSUME pumpPc' \in {"delayed", "settle"} PROVE more'
    OBVIOUS
  <2>2. W!Tell(TRUE) /\ pumpPc' = W!Last(places)
    BY <1>1, <1>3, <2>1 DEF W!Return
  <2>3. QED
    BY <2>1, <2>2, Zenon DEF W!Tell
<1>8. NoneForgotten'
  BY <1>3, <1>4, <1>7 DEF NoneForgotten
<1>9. QED
  BY <1>3, <1>5, <1>6, <1>8

\* A task is run.
LEMMA RunKeeps ==
    ASSUME PumpInv, W!DoWorkRun \/ W!DoDelayedRun
    PROVE  PumpInv'
<1> USE DEF PumpInv
<1>1. /\ UNCHANGED PumpAlone
      /\ \E a \in OuterPlaces \cup InnerPlaces :
            /\ a \in OuterPlaces <=> pumpPc \in TopPlaces
            /\ \/ pumpPc' = "task" /\ places' = places \o <<a>>
               \/ pumpPc' = "modal" /\ places' = places \o <<a, "task">>
      /\ pumpPc \in {"work", "handle", "delayed", "timer"}
  <2>1. CASE W!DoWorkRun
    <3> DEFINE a == W!AfterTask
    <3>1. /\ UNCHANGED PumpAlone /\ pumpPc \in {"work", "handle"}
          /\ \/ pumpPc' = "task" /\ places' = places \o <<a>>
             \/ pumpPc' = "modal" /\ places' = places \o <<a, "task">>
      BY <2>1 DEF W!DoWorkRun, W!InDoWork, W!runTask, W!Push, W!pump, W!system, PumpAlone
    <3>2. /\ a \in OuterPlaces \cup InnerPlaces /\ (a \in OuterPlaces <=> pumpPc \in TopPlaces)
      BY <3>1 DEF W!AfterTask, TopPlaces, OuterPlaces, InnerPlaces
    <3>3. QED
      BY <3>1, <3>2
  <2>2. CASE W!DoDelayedRun
    <3> DEFINE a == W!AfterDelayed
    <3>1. /\ UNCHANGED PumpAlone /\ pumpPc \in {"delayed", "timer"}
          /\ \/ pumpPc' = "task" /\ places' = places \o <<a>>
             \/ pumpPc' = "modal" /\ places' = places \o <<a, "task">>
      BY <2>2 DEF W!DoDelayedRun, W!InDoDelayed, W!runTask, W!Push, PumpAlone
    <3>2. /\ a \in OuterPlaces \cup InnerPlaces /\ (a \in OuterPlaces <=> pumpPc \in TopPlaces)
      BY <3>1 DEF W!AfterDelayed, TopPlaces, OuterPlaces, InnerPlaces
    <3>3. QED
      BY <3>1, <3>2
  <2>3. QED
    BY <2>1, <2>2
<1>2. pumpPc' \in {"task", "modal"} /\ pumpPc' \in DeepPlaces /\ "task" \in InnerPlaces
  BY <1>1 DEF DeepPlaces, InnerPlaces
<1>3. /\ places' \in Seq(OuterPlaces \cup InnerPlaces) /\ Nesting'
  BY <1>1, <1>2, GoesDeeper
<1>4. PumpTypes'
  BY <1>1, <1>2, <1>3 DEF PumpTypes, PumpAlone
<1>5. OneAnnouncement'
  BY <1>1, <1>2 DEF OneAnnouncement, HasWork, Announces, PumpAlone
<1>6. NoneForgotten'
  BY <1>2 DEF NoneForgotten
<1>7. QED
  BY <1>3, <1>4, <1>5, <1>6

LEMMA MessageIs ==
    ASSUME PumpTypes
    PROVE  /\ queue # <<>> => W!Message = Head(queue) /\ W!Message \in {"work", "user"}
           /\ queue = <<>> => W!Message \in {"quit", "timer", "none"}
<1>1. queue # <<>> => Head(queue) \in {"work", "user"}
  BY TailWorks DEF PumpTypes
<1>2. QED
  BY <1>1 DEF W!Message

\* A message that does not announce work is taken out, and its window may open
\* a modal loop.
LEMMA UserKeeps ==
    ASSUME PumpInv, \/ W!PeekUser \/ W!PeekTimer \/ W!ModalTimer \/ W!ModalUser
                    \/ W!ForeignDispatch /\ W!Message = "user"
    PROVE  PumpInv'
<1> USE DEF PumpInv
<1>1. /\ UNCHANGED <<workState, held, refused, post, task>>
      /\ W!Message \in {"user", "timer"} /\ W!Taken
      /\ pumpPc \notin {"reset", "task"}
  BY DEF W!PeekUser, W!PeekTimer, W!ModalTimer, W!ModalUser, W!ForeignDispatch, W!pump, W!loop,
         W!world, W!control
<1>2. /\ pumpPc' \in {"work", "foreign", "modal", "timer"} \cap (TopPlaces \cup DeepPlaces)
      /\ \/ UNCHANGED places /\ (pumpPc' \in TopPlaces <=> pumpPc \in TopPlaces)
         \/ /\ pumpPc = "peek" /\ pumpPc' \in {"modal", "timer"} /\ places' = places \o <<"work">>
         \/ /\ pumpPc = "modal" /\ pumpPc' = "timer" /\ places' = places \o <<"modal">>
  <2>1. CASE W!PeekUser
    BY <2>1 DEF W!PeekUser, W!Goto, W!Push, TopPlaces, OuterPlaces, DeepPlaces, InnerPlaces
  <2>2. CASE W!PeekTimer
    BY <2>2 DEF W!PeekTimer, W!Push, DeepPlaces
  <2>3. CASE W!ModalTimer
    BY <2>3 DEF W!ModalTimer, W!Push, DeepPlaces
  <2>4. CASE W!ModalUser
    BY <2>4 DEF W!ModalUser, W!Goto, DeepPlaces, InnerPlaces
  <2>5. CASE W!ForeignDispatch
    BY <2>5 DEF W!ForeignDispatch, W!control, TopPlaces
  <2>6. QED
    BY <2>1, <2>2, <2>3, <2>4, <2>5
<1>3. /\ queue' \in Seq({"work", "user"}) /\ (Works(queue') <=> Works(queue))
      /\ Single(queue) => Single(queue')
  <2>1. CASE queue = <<>>
    BY <1>1, <2>1 DEF W!Taken, PumpTypes
  <2>2. CASE queue # <<>>
    <3>1. queue' = Tail(queue) /\ Head(queue) = "user"
      BY <1>1, <2>2, MessageIs DEF W!Taken
    <3>2. QED
      BY <2>2, <3>1, TailWorks DEF PumpTypes
  <2>3. QED
    BY <2>1, <2>2
<1>4. /\ places' \in Seq(OuterPlaces \cup InnerPlaces) /\ Nesting'
  <2>1. CASE UNCHANGED places /\ (pumpPc' \in TopPlaces <=> pumpPc \in TopPlaces)
    BY <1>1, <1>2, <2>1, GoesOn DEF PumpTypes
  <2>2. CASE /\ pumpPc = "peek" /\ pumpPc' \in {"modal", "timer"}
             /\ places' = places \o <<"work">>
    <3>1. pumpPc \in TopPlaces /\ "work" \in OuterPlaces /\ pumpPc' \in DeepPlaces
      BY <2>2 DEF TopPlaces, OuterPlaces, DeepPlaces, InnerPlaces
    <3>2. QED
      BY <1>1, <2>2, <3>1, GoesDeeper
  <2>3. CASE pumpPc = "modal" /\ pumpPc' = "timer" /\ places' = places \o <<"modal">>
    <3>1. /\ pumpPc \notin TopPlaces /\ "modal" \notin OuterPlaces /\ "modal" \in InnerPlaces
          /\ pumpPc' \in DeepPlaces
      BY <2>3 DEF TopPlaces, OuterPlaces, DeepPlaces, InnerPlaces
    <3>2. QED
      BY <1>1, <2>3, <3>1, GoesDeeper
  <2>4. QED
    BY <1>2, <2>1, <2>2, <2>3
<1>5. PumpTypes'
  BY <1>1, <1>2, <1>3, <1>4 DEF PumpTypes
<1>6. OneAnnouncement'
  BY <1>1, <1>2, <1>3 DEF OneAnnouncement, HasWork, Announces
<1>7. NoneForgotten'
  BY <1>2 DEF NoneForgotten
<1>8. QED
  BY <1>4, <1>5, <1>6, <1>7

\* The announcement is taken out: by the pump, and outside of run.
LEMMA WorkTaken ==
    ASSUME PumpInv, \/ W!PeekWork \/ W!ModalWork
                    \/ W!ForeignDispatch /\ W!Message = "work"
    PROVE  PumpInv'
<1> USE DEF PumpInv
<1>1. W!Message = "work" /\ UNCHANGED <<refused, post, task>> /\ pumpPc \in {"peek", "modal", "foreign"}
  BY DEF W!PeekWork, W!ModalWork, W!ForeignDispatch, W!loop, W!world
<1>2. /\ queue # <<>> /\ Head(queue) = "work" /\ Tail(queue) \in Seq({"work", "user"})
      /\ Works(queue) /\ ~Works(Tail(queue)) /\ Single(Tail(queue))
  <2>1. queue # <<>> /\ Head(queue) = "work"
    BY <1>1, MessageIs
  <2>2. QED
    BY <2>1, TailWorks DEF PumpTypes, OneAnnouncement
<1>3. /\ \A p \in Poster : ~Announces(p)
      /\ pumpPc # "reset" /\ workState = 1
  BY <1>2 DEF OneAnnouncement, HasWork
<1>4. CASE W!ForeignDispatch
  <2>1. /\ queue' = Tail(queue) /\ workState' = 0 /\ UNCHANGED <<pumpPc, places, held>>
        /\ pumpPc = "foreign"
    BY <1>1, <1>2, <1>4 DEF W!ForeignDispatch, W!Taken, W!control, W!READY
  <2>2. PumpTypes' /\ Nesting'
    BY <1>1, <1>2, <2>1 DEF PumpTypes, Nesting
  <2>3. OneAnnouncement'
    BY <1>1, <1>2, <1>3, <2>1 DEF OneAnnouncement, HasWork, Announces
  <2>4. NoneForgotten'
    BY <2>1 DEF NoneForgotten
  <2>5. QED
    BY <2>2, <2>3, <2>4
<1>5. CASE W!PeekWork \/ W!ModalWork
  <2> DEFINE rest == Tail(queue)
  <2>1. /\ workState' = workState /\ pumpPc' = "reset"
        /\ queue' = IF rest = <<>> THEN rest ELSE Tail(rest)
        /\ \/ pumpPc = "peek" /\ places' = places \o <<"work">>
           \/ pumpPc = "modal" /\ places' = places \o <<"modal", "handle">>
    BY <1>5 DEF W!PeekWork, W!ModalWork, W!Replace, W!Push, W!pump
  <2>2. held' = IF rest # <<>> THEN Head(rest)
               ELSE IF wmQuit THEN "quit" ELSE IF timer # 0 /\ timer <= now THEN "timer" ELSE "none"
    BY <1>5 DEF W!PeekWork, W!ModalWork, W!Replace
  <2>3. /\ queue' \in Seq({"work", "user"}) /\ ~Works(queue') /\ Single(queue') /\ held' # "work"
    <3>1. CASE rest = <<>>
      BY <1>2, <2>1, <2>2, <3>1
    <3>2. CASE rest # <<>>
      <4>1. /\ Tail(rest) \in Seq({"work", "user"}) /\ Head(rest) # "work" /\ ~Works(Tail(rest))
            /\ Single(Tail(rest))
        BY <1>2, <3>2, TailWorks
      <4>2. QED
        BY <2>1, <2>2, <3>2, <4>1
    <3>3. QED
      BY <3>1, <3>2
  <2>4. /\ places' \in Seq(OuterPlaces \cup InnerPlaces) /\ Nesting'
    <3>1. pumpPc' \in DeepPlaces
      BY <2>1 DEF DeepPlaces
    <3>2. CASE pumpPc = "peek" /\ places' = places \o <<"work">>
      <4>1. pumpPc \in TopPlaces /\ "work" \in OuterPlaces
        BY <3>2 DEF TopPlaces, OuterPlaces
      <4>2. QED
        BY <1>1, <3>1, <3>2, <4>1, GoesDeeper
    <3>3. CASE pumpPc = "modal" /\ places' = places \o <<"modal", "handle">>
      <4>1. /\ pumpPc \notin TopPlaces /\ "modal" \notin OuterPlaces /\ "modal" \in InnerPlaces
            /\ "handle" \in InnerPlaces
        BY <3>3 DEF TopPlaces, OuterPlaces, InnerPlaces
      <4>2. QED
        BY <1>1, <3>1, <3>3, <4>1, GoesDeeper
    <3>4. QED
      BY <2>1, <3>2, <3>3
  <2>5. PumpTypes'
    BY <1>1, <2>1, <2>3, <2>4 DEF PumpTypes, DeepPlaces
  <2>6. OneAnnouncement'
    BY <1>1, <1>3, <2>1, <2>3 DEF OneAnnouncement, HasWork, Announces
  <2>7. NoneForgotten'
    BY <2>1 DEF NoneForgotten
  <2>8. QED
    BY <2>4, <2>5, <2>6, <2>7
<1>6. QED
  BY <1>4, <1>5

\* What follows: the flag is put back, and the message behind it is handled.
LEMMA ResetKeeps ==
    ASSUME PumpInv, W!Reset \/ W!Dispatch
    PROVE  PumpInv'
<1> USE DEF PumpInv
<1>1. /\ UNCHANGED <<queue, refused, post, task>> /\ pumpPc \in {"reset", "dispatch"}
      /\ IF pumpPc = "reset" THEN workState' = 0 /\ held' = held
                             ELSE workState' = workState /\ held' = "none"
      /\ W!Return \/ (pumpPc' \in {"again", "timer", "modal"} /\ UNCHANGED places)
  BY DEF W!Reset, W!Dispatch, W!Goto, W!system, W!loop, W!world, W!READY
<1>2. pumpPc \notin TopPlaces /\ pumpPc # "task"
  BY <1>1 DEF TopPlaces, OuterPlaces
<1>3. /\ places' \in Seq(OuterPlaces \cup InnerPlaces) /\ Nesting'
      /\ pumpPc' \in TopPlaces \cup DeepPlaces /\ pumpPc' \notin {"reset", "delayed", "settle", "wait"}
  <2>1. CASE W!Return
    <3>1. /\ places' \in Seq(OuterPlaces \cup InnerPlaces) /\ Nesting'
          /\ pumpPc' \in OuterPlaces \cup InnerPlaces /\ pumpPc' \notin {"delayed", "settle"}
      BY <1>1, <1>2, <2>1, ComesBack
    <3>2. QED
      BY <3>1 DEF TopPlaces, DeepPlaces, OuterPlaces, InnerPlaces
  <2>2. CASE pumpPc' \in {"again", "timer", "modal"} /\ UNCHANGED places
    <3>1. pumpPc' \in DeepPlaces /\ pumpPc' \notin TopPlaces
      BY <2>2 DEF DeepPlaces, InnerPlaces, TopPlaces, OuterPlaces
    <3>2. QED
      BY <1>1, <1>2, <2>2, <3>1, GoesOn DEF PumpTypes
  <2>3. QED
    BY <1>1, <2>1, <2>2
<1>4. PumpTypes'
  BY <1>1, <1>3 DEF PumpTypes
<1>5. OneAnnouncement'
  BY <1>1, <1>3 DEF OneAnnouncement, HasWork, Announces, PumpTypes
<1>6. NoneForgotten'
  BY <1>3 DEF NoneForgotten
<1>7. QED
  BY <1>3, <1>4, <1>5, <1>6

\* The pump announces work to itself.
LEMMA RescheduleKeeps ==
    ASSUME PumpInv, W!Again \/ W!Resched
    PROVE  PumpInv'
<1> USE DEF PumpInv
<1>1. /\ UNCHANGED <<held, post, task>> /\ pumpPc \in {"again", "resched"} /\ W!scheduleWork
      /\ W!Return \/ (pumpPc' = "dispatch" /\ UNCHANGED places)
  BY DEF W!Again, W!Resched, W!Goto, W!loop, W!world
<1>2. pumpPc \notin TopPlaces /\ pumpPc # "task"
  BY <1>1 DEF TopPlaces, OuterPlaces
<1>3. /\ places' \in Seq(OuterPlaces \cup InnerPlaces) /\ Nesting'
      /\ pumpPc' \in TopPlaces \cup DeepPlaces /\ pumpPc' \notin {"reset", "delayed", "settle", "wait"}
  <2>1. CASE W!Return
    <3>1. /\ places' \in Seq(OuterPlaces \cup InnerPlaces) /\ Nesting'
          /\ pumpPc' \in OuterPlaces \cup InnerPlaces /\ pumpPc' \notin {"delayed", "settle"}
      BY <1>1, <1>2, <2>1, ComesBack
    <3>2. QED
      BY <3>1 DEF TopPlaces, DeepPlaces, OuterPlaces, InnerPlaces
  <2>2. CASE pumpPc' = "dispatch" /\ UNCHANGED places
    <3>1. pumpPc' \in DeepPlaces /\ pumpPc' \notin TopPlaces
      BY <2>2 DEF DeepPlaces, TopPlaces, OuterPlaces
    <3>2. QED
      BY <1>1, <1>2, <2>2, <3>1, GoesOn DEF PumpTypes
  <2>3. QED
    BY <1>1, <2>1, <2>2
<1>4. \/ /\ workState = 0 /\ workState' = 1 /\ queue' = Append(queue, "work") /\ UNCHANGED refused
      \/ /\ UNCHANGED <<workState, queue>> /\ (refused => refused')
  BY <1>1 DEF W!scheduleWork, W!READY, W!HAVE_WORK
<1>5. CASE workState = 0 /\ workState' = 1 /\ queue' = Append(queue, "work") /\ UNCHANGED refused
  <2>1. ~Works(queue) /\ \A p \in Poster : ~Announces(p)
    BY <1>5 DEF OneAnnouncement, HasWork
  <2>2. queue' \in Seq({"work", "user"}) /\ Works(queue') /\ Single(queue')
    BY <1>5, <2>1, AppendWorks DEF PumpTypes, OneAnnouncement
  <2>3. PumpTypes'
    BY <1>1, <1>3, <1>5, <2>2 DEF PumpTypes
  <2>4. OneAnnouncement'
    BY <1>1, <1>3, <1>5, <2>1, <2>2 DEF OneAnnouncement, HasWork, Announces
  <2>5. QED
    BY <1>3, <2>3, <2>4 DEF NoneForgotten
<1>6. CASE UNCHANGED <<workState, queue>> /\ (refused => refused')
  <2>1. PumpTypes'
    BY <1>1, <1>3, <1>6 DEF PumpTypes
  <2>2. OneAnnouncement'
    BY <1>1, <1>3, <1>6 DEF OneAnnouncement, HasWork, Announces
  <2>3. QED
    BY <1>3, <2>1, <2>2 DEF NoneForgotten
<1>7. QED
  BY <1>4, <1>5, <1>6

\* A poster takes its next step; other threads and the clock are no part of it.
LEMMA PostersKeep ==
    ASSUME PumpInv, NEW p \in Poster,
           \/ \E t \in Task : W!Post(p, t)
           \/ W!Exchange(p) \/ W!PostMessage(p) \/ W!Undo(p)
    PROVE  PumpInv'
<1> USE DEF PumpInv
<1>1. /\ UNCHANGED <<pumpPc, places, task, held, more, work_queue>>
      /\ \E x \in {"idle", "exchange", "post", "undo"} : post' = [post EXCEPT ![p] = x]
  BY DEF W!Post, W!Exchange, W!PostMessage, W!Undo, W!loop, W!control
<1>2. /\ post' \in [Poster -> {"idle", "exchange", "post", "undo"}]
      /\ \A r \in Poster : r # p => post'[r] = post[r]
  BY <1>1 DEF PumpTypes
<1>3. Nesting'
  BY <1>1 DEF Nesting
<1>4. CASE \E t \in Task : W!Post(p, t)
  <2>1. /\ UNCHANGED <<workState, queue, refused>> /\ post[p] = "idle"
        /\ post'[p] = IF incomingQueue = <<>> THEN "exchange" ELSE "idle"
    BY <1>4 DEF W!Post, W!pump, W!system, PumpTypes
  <2>2. PumpTypes'
    BY <1>1, <1>2, <2>1 DEF PumpTypes
  <2>3. \A r \in Poster : post'[r] \in {"post", "undo"} <=> post[r] \in {"post", "undo"}
    BY <1>2, <2>1
  <2>4. \A r \in Poster : post'[r] = "undo" => post[r] = "undo"
    BY <1>2, <2>1
  <2>5. OneAnnouncement'
    BY <1>1, <2>1, <2>3, <2>4 DEF OneAnnouncement, HasWork, Announces
  <2>6. Covered => Covered'
    <3>1. CASE incomingQueue = <<>>
      BY <2>1, <3>1 DEF Covered
    <3>2. CASE incomingQueue # <<>>
      BY <1>2, <2>1, <3>2 DEF Covered, HasWork
    <3>3. QED
      BY <3>1, <3>2
  <2>7. NoneForgotten'
    BY <1>1, <2>6 DEF NoneForgotten
  <2>8. QED
    BY <1>3, <2>2, <2>5, <2>7
<1>5. CASE W!Exchange(p)
  <2>1. /\ UNCHANGED <<queue, refused, incomingQueue>> /\ post[p] = "exchange" /\ workState' = 1
        /\ post'[p] = IF workState = 0 THEN "post" ELSE "idle"
    BY <1>5 DEF W!Exchange, W!system, W!loop, W!READY, W!HAVE_WORK, PumpTypes
  <2>2. PumpTypes'
    BY <1>1, <1>2, <2>1 DEF PumpTypes
  <2>3. CASE workState = 0
    <3>1. ~HasWork /\ pumpPc # "reset" /\ \A r \in Poster : ~Announces(r)
      BY <2>3 DEF OneAnnouncement
    <3>2. /\ ~HasWork' /\ Single(queue') /\ post'[p] = "post"
          /\ \A r \in Poster : post'[r] \in {"post", "undo"} <=> r = p
          /\ \A r \in Poster : post'[r] # "undo"
      BY <1>2, <2>1, <2>3, <3>1 DEF Announces, HasWork, OneAnnouncement
    <3>3. OneAnnouncement'
      BY <1>1, <2>1, <3>1, <3>2 DEF OneAnnouncement, Announces
    <3>4. Covered'
      BY <3>2 DEF Covered
    <3>5. QED
      BY <1>1, <1>3, <2>2, <3>3, <3>4 DEF NoneForgotten
  <2>4. CASE workState # 0
    <3>1. workState = 1 /\ post'[p] = "idle"
      BY <2>1, <2>4 DEF PumpTypes
    <3>2. /\ \A r \in Poster : post'[r] \in {"post", "undo"} <=> post[r] \in {"post", "undo"}
          /\ \A r \in Poster : post'[r] = "undo" => post[r] = "undo"
          /\ \A r \in Poster : post[r] = "post" => post'[r] = "post"
      BY <1>2, <2>1, <3>1
    <3>3. OneAnnouncement'
      BY <1>1, <2>1, <3>1, <3>2 DEF OneAnnouncement, HasWork, Announces
    <3>4. ASSUME pumpPc # "reset" PROVE Covered'
      <4>1. HasWork \/ \E r \in Poster : Announces(r)
        BY <3>1, <3>4 DEF OneAnnouncement
      <4>2. CASE HasWork
        BY <2>1, <4>2 DEF Covered, HasWork
      <4>3. CASE \E r \in Poster : Announces(r)
        <5>1. refused \/ \E r \in Poster : post[r] = "post"
          BY <4>3 DEF OneAnnouncement, Announces
        <5>2. QED
          BY <2>1, <3>2, <5>1 DEF Covered
      <4>4. QED
        BY <4>1, <4>2, <4>3
    <3>5. QED
      BY <1>1, <1>3, <2>2, <3>3, <3>4 DEF NoneForgotten
  <2>5. QED
    BY <2>3, <2>4
<1>6. CASE W!PostMessage(p)
  <2>1. /\ workState' = workState /\ incomingQueue' = incomingQueue /\ post[p] = "post"
        /\ \/ queue' = Append(queue, "work") /\ refused' = refused /\ post'[p] = "idle"
           \/ queue' = queue /\ refused' = TRUE /\ post'[p] = "undo"
    BY <1>6 DEF W!PostMessage, W!pump, W!loop, PumpTypes
  <2>2. /\ ~HasWork /\ pumpPc # "reset" /\ workState = 1
        /\ \A r \in Poster : Announces(r) <=> r = p
    BY <2>1 DEF OneAnnouncement, Announces
  <2>3. CASE queue' = Append(queue, "work") /\ refused' = refused /\ post'[p] = "idle"
    <3>1. queue' \in Seq({"work", "user"}) /\ Works(queue') /\ Single(queue')
      BY <2>2, <2>3, AppendWorks DEF PumpTypes, OneAnnouncement, HasWork
    <3>2. \A r \in Poster : post'[r] \notin {"post", "undo"}
      BY <1>2, <2>2, <2>3 DEF Announces
    <3>3. PumpTypes'
      BY <1>1, <1>2, <2>1, <2>3, <3>1 DEF PumpTypes
    <3>4. OneAnnouncement'
      BY <1>1, <2>1, <2>2, <3>1, <3>2 DEF OneAnnouncement, HasWork, Announces
    <3>5. Covered'
      BY <3>1 DEF Covered, HasWork
    <3>6. QED
      BY <1>1, <1>3, <3>3, <3>4, <3>5 DEF NoneForgotten
  <2>4. CASE queue' = queue /\ refused' = TRUE /\ post'[p] = "undo"
    <3>1. \A r \in Poster : post'[r] \in {"post", "undo"} <=> r = p
      BY <1>2, <2>2, <2>4 DEF Announces
    <3>2. PumpTypes'
      BY <1>1, <1>2, <2>1, <2>4 DEF PumpTypes
    <3>3. OneAnnouncement'
      BY <1>1, <2>1, <2>2, <2>4, <3>1 DEF OneAnnouncement, HasWork, Announces
    <3>4. Covered'
      BY <2>4 DEF Covered
    <3>5. QED
      BY <1>1, <1>3, <3>2, <3>3, <3>4 DEF NoneForgotten
  <2>5. QED
    BY <2>1, <2>3, <2>4
<1>7. CASE W!Undo(p)
  <2>1. /\ UNCHANGED <<queue, refused>> /\ post[p] = "undo" /\ workState' = 0 /\ post'[p] = "idle"
    BY <1>7 DEF W!Undo, W!system, W!READY, PumpTypes
  <2>2. /\ ~HasWork /\ pumpPc # "reset" /\ refused
        /\ \A r \in Poster : Announces(r) <=> r = p
    BY <2>1 DEF OneAnnouncement, Announces
  <2>3. \A r \in Poster : post'[r] \notin {"post", "undo"}
    BY <1>2, <2>1, <2>2 DEF Announces
  <2>4. PumpTypes'
    BY <1>1, <1>2, <2>1 DEF PumpTypes
  <2>5. OneAnnouncement'
    BY <1>1, <2>1, <2>2, <2>3 DEF OneAnnouncement, HasWork, Announces
  <2>6. Covered'
    BY <2>1, <2>2 DEF Covered
  <2>7. QED
    BY <1>1, <1>3, <2>4, <2>5, <2>6 DEF NoneForgotten
<1>8. QED
  BY <1>4, <1>5, <1>6, <1>7

\* Messages of others and the clock take no announcement away.
LEMMA PumpUndisturbed ==
    ASSUME PumpInv, W!UserPosts \/ W!Tick \/ UNCHANGED pumpVars
    PROVE  PumpInv'
<1> USE DEF PumpInv
<1>1. /\ UNCHANGED <<workState, held, refused, post, pumpPc, places, task, more, incomingQueue,
                     work_queue>>
      /\ UNCHANGED queue \/ queue' = Append(queue, "user")
  BY DEF W!UserPosts, W!Tick, pumpVars, W!pump, W!system, W!loop, W!control
<1>2. /\ queue' \in Seq({"work", "user"}) /\ (Works(queue') <=> Works(queue))
      /\ Single(queue) => Single(queue')
  <2> DEFINE longer == Append(queue, "user")
  <2>1. /\ longer \in Seq({"work", "user"}) /\ (Works(longer) <=> Works(queue))
        /\ Single(queue) => Single(longer)
    <3>1. "user" \in {"work", "user"} /\ "user" # "work" /\ queue \in Seq({"work", "user"})
      BY DEF PumpTypes
    <3>2. QED
      BY <3>1, AppendWorks
  <2> HIDE DEF longer
  <2>2. queue' = queue \/ queue' = longer
    BY <1>1 DEF longer
  <2>3. QED
    BY <2>1, <2>2 DEF PumpTypes
<1>3. PumpTypes' /\ Nesting'
  BY <1>1, <1>2 DEF PumpTypes, Nesting
<1>4. OneAnnouncement'
  BY <1>1, <1>2 DEF OneAnnouncement, HasWork, Announces
<1>5. NoneForgotten'
  BY <1>1, <1>2 DEF NoneForgotten, Covered, HasWork
<1>6. QED
  BY <1>3, <1>4, <1>5

LEMMA PumpHolds == Spec => []PumpInv
<1>1. Init => PumpInv
  <2> SUFFICES ASSUME W!Init PROVE PumpInv
    BY DEF Init
  <2>1. /\ workState = 0 /\ queue = <<>> /\ places = <<>> /\ pumpPc = "foreign" /\ task = Null
        /\ post = [p \in Poster |-> "idle"] /\ held = "none"
    BY DEF W!Init, W!READY
  <2>2. DOMAIN queue = {} /\ DOMAIN places = {}
    BY <2>1
  <2>3. PumpTypes
    BY <2>1 DEF PumpTypes, TopPlaces
  <2>4. Nesting
    BY <2>1, <2>2 DEF Nesting, TopPlaces
  <2>5. OneAnnouncement
    BY <2>1, <2>2 DEF OneAnnouncement, HasWork, Works, Single, Announces
  <2>6. QED
    BY <2>1, <2>3, <2>4, <2>5 DEF PumpInv, NoneForgotten
<1>2. PumpInv /\ [Next]_vars => PumpInv'
  <2> SUFFICES ASSUME PumpInv, [Next]_vars PROVE PumpInv'
    OBVIOUS
  <2>1. W!Next \/ UNCHANGED pumpVars
    BY Alone
  <2>2. CASE UNCHANGED pumpVars
    BY <2>2, PumpUndisturbed
  <2>3. CASE W!Pump \/ W!run \/ W!ModalEnds
    <3>1. W!DoWorkNothing => pumpPc \in {"work", "handle"}
      BY DEF W!DoWorkNothing, W!InDoWork
    <3>2. QED
      BY <2>3, <3>1, TurnKeeps, BackKeeps, RunKeeps, UserKeeps, WorkTaken, ResetKeeps,
         RescheduleKeeps DEF W!Pump
  <2>4. CASE W!ForeignDispatch
    <3>1. W!Message \in {"work", "user"}
      BY <2>4 DEF W!ForeignDispatch
    <3>2. QED
      BY <2>4, <3>1, UserKeeps, WorkTaken
  <2>5. CASE \E p \in Poster : W!Scheduling(p) \/ \E t \in Task : W!Post(p, t)
    BY <2>5, PostersKeep DEF W!Scheduling
  <2>6. CASE W!UserPosts \/ W!Tick
    BY <2>6, PumpUndisturbed
  <2>7. W!Rest => UNCHANGED pumpVars
    BY DEF W!Rest, W!vars, W!pump, W!system, W!loop, W!control, W!world, pumpVars
  <2>8. QED
    BY <2>1, <2>2, <2>3, <2>4, <2>5, <2>6, <2>7 DEF W!Next
<1>3. QED
  BY <1>1, <1>2, Safety, PTL

\* The pump goes to sleep with work posted only while the message that announces
\* it is in its queue or about to be, unless the system has refused to take it.
THEOREM SleepersAreWoken == Spec => []PumpWakes
<1>1. PumpInv => PumpWakes
  <2> SUFFICES ASSUME PumpInv PROVE PumpWakes
    OBVIOUS
  <2>1. HasWork => queue # <<>>
    BY DEF HasWork, Works
  <2>2. queue # <<>> => W!Message # "none"
    BY MessageIs DEF PumpInv
  <2>3. W!PumpWakes
    BY <2>1, <2>2 DEF PumpInv, NoneForgotten, Covered, W!PumpWakes
  <2>4. QED
    BY <2>3 DEF PumpWakes, W!OneWorkMessage, W!HAVE_WORK, PumpInv, OneAnnouncement
<1>2. QED
  BY <1>1, PumpHolds, PTL
-----------------------------------------------------------------------------
(* Logging: no two messages are the same, and no line is written over. *)

Lines(f) == DOMAIN files[f].text
Mentioned(m) == \E f \in DOMAIN files : \E i \in Lines(f) : files[f].text[i] = m

LogTypes ==
    /\ gLogFileNumber \in Int /\ gLogFileNumber >= -1 /\ today \in Nat /\ sent \in Nat
    /\ DOMAIN files \subseteq 0 .. gLogFileNumber
    /\ \A f \in DOMAIN files : files[f].written \in 0 .. today /\ files[f].text \in Seq(Nat)
    /\ gLogFile = -1 \/ gLogFile \in DOMAIN files
    /\ place \in [Logger -> {"idle", "asked", "message", "write", "done", "close"}]
    /\ mine \in [Logger -> Nat] /\ excused \in [Logger -> BOOLEAN]
    /\ \A o \in owed : o.day \in Nat

\* What is not written yet is not in a file.
MessagesDiffer ==
    /\ \A t \in Logger : mine[t] <= sent /\ (mine[t] = 0 <=> place[t] \in {"idle", "close"})
    /\ \A t, r \in Logger : mine[t] = mine[r] => t = r \/ mine[t] = 0
    /\ \A t \in Logger : place[t] \in {"asked", "message", "write"} => ~Mentioned(mine[t])
    /\ \A f \in DOMAIN files : \A i \in Lines(f) : files[f].text[i] \in 1 .. sent

LinesDiffer ==
    \A f, g \in DOMAIN files : \A i \in Lines(f), j \in Lines(g) :
        files[f].text[i] = files[g].text[j] => f = g /\ i = j

\* A thread about to write has been told to, unless the settings have changed.
SettingsHold ==
    \A t \in Logger : place[t] = "write" /\ ~excused[t] => "file" \in gLoggingDestination

\* A file that holds a message is as young as the message.
Paid(o) ==
    \/ MaxLogFileAge # 0 /\ o.day < today - MaxLogFileAge
    \/ \E f \in DOMAIN files :
        o.day <= files[f].written /\ \E i \in Lines(f) : files[f].text[i] = o.message
Debts == \A o \in owed : Paid(o)

LogInv == LogTypes /\ MessagesDiffer /\ LinesDiffer /\ SettingsHold /\ Debts

\* What is left of the files before a message is written.
Reopened(n, k, fs) ==
    /\ n \in Int /\ n >= gLogFileNumber
    /\ DOMAIN fs \subseteq 0 .. n
    /\ k = -1 \/ k \in DOMAIN fs
    /\ \A f \in DOMAIN fs : \/ f \in DOMAIN files /\ fs[f] = files[f]
                            \/ f \notin DOMAIN files /\ fs[f] = [written |-> today, text |-> <<>>]
    /\ \A f \in DOMAIN files : L!Old(f) \/ f \in DOMAIN fs

LEMMA FileReplaced ==
    ASSUME LogTypes, NEW destination, NEW fails \in BOOLEAN
    PROVE  \E n, k, fs :
            /\ L!initLoggingUnlocked(destination, fails) = [number |-> n, open |-> k, files |-> fs]
            /\ Reopened(n, k, fs)
            /\ "file" \in destination /\ ~fails => k # -1
<1> DEFINE N == gLogFileNumber + 1
           Young == {g \in DOMAIN files : ~L!Old(g)}
<1>1. /\ gLogFileNumber \in Int /\ gLogFileNumber >= -1 /\ N \in Int /\ N >= 0
      /\ N >= gLogFileNumber /\ N # -1 /\ N \in 0 .. N
      /\ DOMAIN files \subseteq 0 .. gLogFileNumber /\ DOMAIN files \subseteq 0 .. N
      /\ N \notin DOMAIN files
  BY DEF LogTypes
<1>2. CASE "file" \notin destination
  <2>1. L!initLoggingUnlocked(destination, fails)
            = [number |-> gLogFileNumber, open |-> -1, files |-> files]
    BY <1>2 DEF L!initLoggingUnlocked, L!None
  <2>2. Reopened(gLogFileNumber, -1, files)
    BY <1>1 DEF Reopened
  <2>3. QED
    BY <1>2, <2>1, <2>2
<1>3. CASE "file" \in destination /\ fails
  <2>1. L!initLoggingUnlocked(destination, fails)
            = [number |-> gLogFileNumber + 1, open |-> -1, files |-> files]
    BY <1>3 DEF L!initLoggingUnlocked, L!None
  <2>2. Reopened(gLogFileNumber + 1, -1, files)
    BY <1>1 DEF Reopened
  <2>3. QED
    BY <1>3, <2>1, <2>2
<1>4. CASE "file" \in destination /\ ~fails
  <2> DEFINE fs == L!Opened(N)
  <2>1. L!initLoggingUnlocked(destination, fails) = [number |-> N, open |-> N, files |-> fs]
    BY <1>4 DEF L!initLoggingUnlocked
  <2>2. /\ DOMAIN fs = Young \cup {N}
        /\ \A f \in DOMAIN fs :
            fs[f] = IF f = N THEN [written |-> today, text |-> <<>>] ELSE files[f]
    BY DEF L!Opened
  <2> HIDE DEF fs, N
  <2>3. Reopened(N, N, fs)
    <3>1. DOMAIN fs \subseteq 0 .. N /\ N \in DOMAIN fs
      BY <1>1, <2>2
    <3>2. \A f \in DOMAIN fs : \/ f \in DOMAIN files /\ fs[f] = files[f]
                               \/ f \notin DOMAIN files /\ fs[f] = [written |-> today, text |-> <<>>]
      BY <1>1, <2>2
    <3>3. \A f \in DOMAIN files : L!Old(f) \/ f \in DOMAIN fs
      BY <2>2
    <3>4. QED
      BY <1>1, <3>1, <3>2, <3>3 DEF Reopened
  <2>4. QED
    BY <1>1, <1>4, <2>1, <2>3
<1>5. QED
  BY <1>2, <1>3, <1>4

\* The files after a step: line l of file k is new and holds m, unless k is -1;
\* the others are those there were, in files that are not too old.
Grown(k, l, m) ==
    /\ DOMAIN files' \subseteq 0 .. gLogFileNumber'
    /\ \A f \in DOMAIN files' : files'[f].written \in 0 .. today /\ files'[f].text \in Seq(Nat)
    /\ \A f \in DOMAIN files' : \A i \in DOMAIN files'[f].text :
        \/ f = k /\ i = l /\ files'[f].text[i] = m
        \/ f \in DOMAIN files /\ i \in Lines(f) /\ files'[f].text[i] = files[f].text[i]
    /\ \A f \in DOMAIN files :
        \/ L!Old(f)
        \/ /\ f \in DOMAIN files' /\ files[f].written <= files'[f].written
           /\ \A i \in Lines(f) :
                i \in DOMAIN files'[f].text /\ files'[f].text[i] = files[f].text[i]

\* Without a message.
LEMMA ReopenedGrows ==
    ASSUME LogTypes, NEW n, NEW k, Reopened(n, k, files'), gLogFileNumber' = n
    PROVE  Grown(-1, 0, 0)
<1>1. \A f \in DOMAIN files' : \/ f \in DOMAIN files /\ files'[f] = files[f]
                               \/ files'[f] = [written |-> today, text |-> <<>>]
  BY DEF Reopened
<1>2. /\ DOMAIN files' \subseteq 0 .. gLogFileNumber' /\ today \in 0 .. today /\ <<>> \in Seq(Nat)
      /\ DOMAIN <<>> = {}
  BY DEF Reopened, LogTypes
<1>3. \A f \in DOMAIN files' : files'[f].written \in 0 .. today /\ files'[f].text \in Seq(Nat)
  <2> SUFFICES ASSUME NEW f \in DOMAIN files'
               PROVE  files'[f].written \in 0 .. today /\ files'[f].text \in Seq(Nat)
    OBVIOUS
  <2>1. CASE f \in DOMAIN files /\ files'[f] = files[f]
    BY <2>1 DEF LogTypes
  <2>2. CASE files'[f] = [written |-> today, text |-> <<>>]
    <3>1. files'[f].written = today /\ files'[f].text = <<>>
      BY <2>2
    <3>2. QED
      BY <1>2, <3>1
  <2>3. QED
    BY <1>1, <2>1, <2>2
<1>4. \A f \in DOMAIN files' : \A i \in DOMAIN files'[f].text :
        f \in DOMAIN files /\ i \in Lines(f) /\ files'[f].text[i] = files[f].text[i]
  BY <1>1, <1>2 DEF Lines
<1>5. \A f \in DOMAIN files :
        \/ L!Old(f)
        \/ /\ f \in DOMAIN files' /\ files[f].written <= files'[f].written
           /\ \A i \in Lines(f) :
                i \in DOMAIN files'[f].text /\ files'[f].text[i] = files[f].text[i]
  <2>1. \A f \in DOMAIN files : files[f].written <= files[f].written
    BY DEF LogTypes
  <2>2. \A f \in DOMAIN files : L!Old(f) \/ (f \in DOMAIN files' /\ files'[f] = files[f])
    BY DEF Reopened
  <2>3. QED
    BY <2>1, <2>2 DEF Lines
<1>6. QED
  BY <1>2, <1>3, <1>4, <1>5 DEF Grown

\* With one.
LEMMA WrittenGrows ==
    ASSUME LogTypes, NEW n, NEW k, NEW fs, Reopened(n, k, fs), k # -1, NEW m \in Nat,
           gLogFileNumber' = n,
           files' = [fs EXCEPT ![k] = [written |-> today, text |-> Append(fs[k].text, m)]]
    PROVE  \E l : /\ Grown(k, l, m)
                  /\ k \in DOMAIN files' /\ files'[k].written = today
                  /\ l \in DOMAIN files'[k].text /\ files'[k].text[l] = m
<1> DEFINE old == fs[k].text
           l == Len(old) + 1
<1>1. /\ k \in DOMAIN fs /\ DOMAIN files' = DOMAIN fs
      /\ files'[k] = [written |-> today, text |-> Append(old, m)]
      /\ \A f \in DOMAIN fs : f # k => files'[f] = fs[f]
  BY DEF Reopened
<1>2. \A f \in DOMAIN fs : \/ f \in DOMAIN files /\ fs[f] = files[f]
                           \/ f \notin DOMAIN files /\ fs[f] = [written |-> today, text |-> <<>>]
  BY DEF Reopened
<1>3. today \in 0 .. today /\ <<>> \in Seq(Nat) /\ DOMAIN <<>> = {}
  BY DEF LogTypes
<1>4. \A f \in DOMAIN fs : fs[f].written \in 0 .. today /\ fs[f].text \in Seq(Nat)
  <2> SUFFICES ASSUME NEW f \in DOMAIN fs
               PROVE  fs[f].written \in 0 .. today /\ fs[f].text \in Seq(Nat)
    OBVIOUS
  <2>1. CASE f \in DOMAIN files /\ fs[f] = files[f]
    BY <2>1 DEF LogTypes
  <2>2. CASE fs[f] = [written |-> today, text |-> <<>>]
    <3>1. fs[f].written = today /\ fs[f].text = <<>>
      BY <2>2
    <3>2. QED
      BY <1>3, <3>1
  <2>3. QED
    BY <1>2, <2>1, <2>2
<1>5. /\ Append(old, m) \in Seq(Nat) /\ l \in DOMAIN Append(old, m) /\ Append(old, m)[l] = m
      /\ \A i \in DOMAIN old : i \in DOMAIN Append(old, m) /\ Append(old, m)[i] = old[i]
      /\ \A i \in DOMAIN Append(old, m) : i \in DOMAIN old \/ i = l
  <2>1. old \in Seq(Nat)
    BY <1>1, <1>4
  <2> HIDE DEF old
  <2>2. QED
    BY <2>1, PushedOn
<1> HIDE DEF old, l
<1>6. \A f \in DOMAIN files' : files'[f].written \in 0 .. today /\ files'[f].text \in Seq(Nat)
  BY <1>1, <1>3, <1>4, <1>5
<1>7. \A f \in DOMAIN fs : \A i \in DOMAIN fs[f].text :
        f \in DOMAIN files /\ i \in Lines(f) /\ fs[f].text[i] = files[f].text[i]
  BY <1>2, <1>3 DEF Lines
<1>8. \A f \in DOMAIN files' : \A i \in DOMAIN files'[f].text :
        \/ f = k /\ i = l /\ files'[f].text[i] = m
        \/ f \in DOMAIN files /\ i \in Lines(f) /\ files'[f].text[i] = files[f].text[i]
  <2> SUFFICES ASSUME NEW f \in DOMAIN files', NEW i \in DOMAIN files'[f].text
               PROVE  \/ f = k /\ i = l /\ files'[f].text[i] = m
                      \/ f \in DOMAIN files /\ i \in Lines(f) /\ files'[f].text[i] = files[f].text[i]
    OBVIOUS
  <2>1. CASE f # k
    BY <1>1, <1>7, <2>1
  <2>2. CASE f = k
    <3>1. i \in DOMAIN Append(old, m) /\ files'[f].text[i] = Append(old, m)[i]
      BY <1>1, <2>2
    <3>2. i = l \/ (i \in DOMAIN fs[k].text /\ Append(old, m)[i] = fs[k].text[i])
      BY <1>5, <3>1 DEF old
    <3>3. QED
      BY <1>1, <1>5, <1>7, <2>2, <3>1, <3>2
  <2>3. QED
    BY <2>1, <2>2
<1>9. \A f \in DOMAIN files :
        \/ L!Old(f)
        \/ /\ f \in DOMAIN files' /\ files[f].written <= files'[f].written
           /\ \A i \in Lines(f) :
                i \in DOMAIN files'[f].text /\ files'[f].text[i] = files[f].text[i]
  <2> SUFFICES ASSUME NEW f \in DOMAIN files, ~L!Old(f)
               PROVE  /\ f \in DOMAIN files' /\ files[f].written <= files'[f].written
                      /\ \A i \in Lines(f) :
                            i \in DOMAIN files'[f].text /\ files'[f].text[i] = files[f].text[i]
    OBVIOUS
  <2>1. f \in DOMAIN fs /\ fs[f] = files[f] /\ files[f].written \in Nat /\ files[f].written <= today
    BY <1>2 DEF Reopened, LogTypes
  <2>2. CASE f # k
    BY <1>1, <2>1, <2>2 DEF Lines
  <2>3. CASE f = k
    <3>1. files'[f].written = today /\ files'[f].text = Append(old, m) /\ old = files[f].text
      BY <1>1, <2>1, <2>3 DEF old
    <3>2. QED
      BY <1>1, <1>5, <2>1, <3>1 DEF Lines
  <2>4. QED
    BY <2>2, <2>3
<1>10. DOMAIN files' \subseteq 0 .. gLogFileNumber'
  BY <1>1 DEF Reopened
<1>11. Grown(k, l, m)
  BY <1>6, <1>8, <1>9, <1>10 DEF Grown
<1>12. QED
  BY <1>1, <1>5, <1>11

\* What is paid stays paid, and a new line is like no other.
LEMMA FilesMayGrow ==
    ASSUME LogInv, NEW k, NEW l, NEW m, Grown(k, l, m), UNCHANGED <<today, sent>>,
           k = -1 \/ (m \in 1 .. sent /\ ~Mentioned(m))
    PROVE  /\ LinesDiffer' /\ \A o \in owed : Paid(o)'
           /\ \A f \in DOMAIN files' : \A i \in DOMAIN files'[f].text : files'[f].text[i] \in 1 .. sent
           /\ \A x \in Nat : Mentioned(x)' => Mentioned(x) \/ (k # -1 /\ x = m)
<1> DEFINE IsNew(f, i) == f = k /\ i = l /\ files'[f].text[i] = m
           IsOld(f, i) == f \in DOMAIN files /\ i \in Lines(f) /\ files'[f].text[i] = files[f].text[i]
<1>1. \A f \in DOMAIN files' : \A i \in DOMAIN files'[f].text : IsNew(f, i) \/ IsOld(f, i)
  BY DEF Grown
<1>2. k \in DOMAIN files' => m \in 1 .. sent /\ ~Mentioned(m) /\ k # -1
  <2>1. -1 \notin DOMAIN files'
    BY DEF Grown
  <2>2. QED
    BY <2>1
<1>3. \A f, i : IsOld(f, i) => Mentioned(files'[f].text[i])
  BY DEF Mentioned
<1>4. LinesDiffer'
  <2> SUFFICES ASSUME NEW f \in DOMAIN files', NEW g \in DOMAIN files',
                      NEW i \in DOMAIN files'[f].text, NEW j \in DOMAIN files'[g].text,
                      files'[f].text[i] = files'[g].text[j]
               PROVE  f = g /\ i = j
    BY DEF LinesDiffer, Lines
  <2>1. CASE IsOld(f, i) /\ IsOld(g, j)
    <3>1. /\ f \in DOMAIN files /\ i \in Lines(f) /\ g \in DOMAIN files /\ j \in Lines(g)
          /\ files[f].text[i] = files[g].text[j]
      BY <2>1
    <3>2. LinesDiffer
      BY DEF LogInv
    <3>3. QED
      BY <3>1, <3>2 DEF LinesDiffer
  <2>2. CASE IsNew(f, i) /\ IsNew(g, j)
    BY <2>2
  <2>3. CASE IsNew(f, i) /\ IsOld(g, j)
    <3>1. Mentioned(m)
      BY <1>3, <2>3
    <3>2. QED
      BY <1>2, <2>3, <3>1
  <2>4. CASE IsOld(f, i) /\ IsNew(g, j)
    <3>1. Mentioned(m)
      BY <1>3, <2>4
    <3>2. QED
      BY <1>2, <2>4, <3>1
  <2>5. QED
    BY <1>1, <2>1, <2>2, <2>3, <2>4
<1>5. \A f \in DOMAIN files' : \A i \in DOMAIN files'[f].text : files'[f].text[i] \in 1 .. sent
  BY <1>1, <1>2 DEF LogInv, MessagesDiffer
<1>6. ASSUME NEW x \in Nat, Mentioned(x)' PROVE Mentioned(x) \/ (k # -1 /\ x = m)
  <2>1. \E f \in DOMAIN files' : \E i \in DOMAIN files'[f].text : files'[f].text[i] = x
    BY <1>6 DEF Mentioned, Lines
  <2>2. QED
    BY <1>1, <1>2, <1>3, <2>1
<1>7. ASSUME NEW o \in owed PROVE Paid(o)'
  <2>1. /\ o.day \in Nat /\ MaxLogFileAge \in Nat /\ today \in Nat /\ today' = today
        /\ Paid(o)
    BY <1>7, ConstantsOK DEF LogInv, LogTypes, Debts, ConstantsOK, L!ConstantsOK
  <2>2. CASE MaxLogFileAge # 0 /\ o.day < today - MaxLogFileAge
    BY <2>1, <2>2 DEF Paid
  <2>3. CASE \E f \in DOMAIN files :
                o.day <= files[f].written /\ \E i \in Lines(f) : files[f].text[i] = o.message
    <3>1. PICK f \in DOMAIN files :
                o.day <= files[f].written /\ \E i \in Lines(f) : files[f].text[i] = o.message
      BY <2>3
    <3>2. files[f].written \in Nat
      BY DEF LogInv, LogTypes
    <3>3. CASE L!Old(f)
      <4>1. MaxLogFileAge # 0 /\ o.day < today - MaxLogFileAge
        BY <2>1, <3>1, <3>2, <3>3 DEF L!Old
      <4>2. QED
        BY <2>1, <4>1 DEF Paid
    <3>4. CASE ~L!Old(f)
      <4>1. /\ f \in DOMAIN files' /\ files[f].written <= files'[f].written
            /\ files'[f].written \in Nat
            /\ \A i \in Lines(f) :
                i \in DOMAIN files'[f].text /\ files'[f].text[i] = files[f].text[i]
        BY <3>4 DEF Grown
      <4>2. o.day <= files'[f].written
        BY <2>1, <3>1, <3>2, <4>1
      <4>3. QED
        BY <3>1, <4>1, <4>2 DEF Paid, Lines
    <3>5. QED
      BY <3>3, <3>4
  <2>4. QED
    BY <2>1, <2>2, <2>3 DEF Paid
<1>8. QED
  BY <1>4, <1>5, <1>6, <1>7

\* A thread moves on without the file: as it was, with its message left behind,
\* or with a new one.
LEMMA WriterMoves ==
    ASSUME LogInv, NEW t \in Logger, NEW l \in {"idle", "asked", "message", "write", "done", "close"},
           place' = [place EXCEPT ![t] = l],
           UNCHANGED <<gLogFileNumber, files, today, owed, gLoggingDestination>>,
           gLogFile' \in {gLogFile, -1},
           \/ /\ UNCHANGED <<sent, mine, excused>>
              /\ l \in {"idle", "close"} <=> place[t] \in {"idle", "close"}
              /\ l \in {"asked", "message", "write"} => place[t] \in {"asked", "message", "write"}
              /\ l = "write" => "file" \in gLoggingDestination
           \/ /\ UNCHANGED sent /\ l \in {"idle", "close"}
              /\ mine' = [mine EXCEPT ![t] = 0] /\ excused' = [excused EXCEPT ![t] = FALSE]
           \/ /\ sent' = sent + 1 /\ mine' = [mine EXCEPT ![t] = sent + 1] /\ UNCHANGED excused
              /\ l \in {"asked", "message"}
    PROVE  LogInv'
<1> USE DEF LogInv
<1>0. /\ sent \in Nat /\ sent' \in Nat /\ sent' >= sent /\ sent + 1 \in Nat
      /\ place \in [Logger -> {"idle", "asked", "message", "write", "done", "close"}]
      /\ mine \in [Logger -> Nat] /\ excused \in [Logger -> BOOLEAN]
  BY DEF LogTypes
<1>1. /\ sent \in Nat /\ sent' \in Nat /\ sent' >= sent
      /\ place' \in [Logger -> {"idle", "asked", "message", "write", "done", "close"}]
      /\ place'[t] = l /\ \A r \in Logger : r # t => place'[r] = place[r]
      /\ mine' \in [Logger -> Nat] /\ \A r \in Logger : r # t => mine'[r] = mine[r]
      /\ excused' \in [Logger -> BOOLEAN] /\ \A r \in Logger : r # t => excused'[r] = excused[r]
  <2>1. /\ place' \in [Logger -> {"idle", "asked", "message", "write", "done", "close"}]
        /\ place'[t] = l
    BY <1>0
  <2>2. \A r \in Logger : r # t => place'[r] = place[r]
    BY <1>0
  <2>3. mine' \in [Logger -> Nat] /\ \A r \in Logger : r # t => mine'[r] = mine[r]
    BY <1>0
  <2>4. excused' \in [Logger -> BOOLEAN] /\ \A r \in Logger : r # t => excused'[r] = excused[r]
    BY <1>0
  <2>5. QED
    BY <1>0, <2>1, <2>2, <2>3, <2>4
<1>2. LogTypes'
  BY <1>1 DEF LogTypes
<1>3. LinesDiffer' /\ Debts'
  BY DEF LinesDiffer, Lines, Debts, Paid
<1>4. SettingsHold'
  BY <1>1 DEF SettingsHold
<1>5. \A x : Mentioned(x)' <=> Mentioned(x)
  BY DEF Mentioned, Lines
<1>6. /\ \A f \in DOMAIN files' : \A i \in DOMAIN files'[f].text : files'[f].text[i] \in 1 .. sent'
  BY <1>1 DEF MessagesDiffer, Lines
<1>7. ~Mentioned(sent + 1)
  BY <1>1 DEF Mentioned, MessagesDiffer
<1>8. /\ mine'[t] \in {mine[t], 0, sent + 1}
      /\ mine'[t] = mine[t] => /\ mine[t] = 0 <=> l \in {"idle", "close"}
                               /\ l \in {"asked", "message", "write"} => ~Mentioned(mine[t])
      /\ mine'[t] = 0 => l \in {"idle", "close"}
      /\ mine'[t] = sent + 1 => l \notin {"idle", "close"} /\ sent' = sent + 1
  BY <1>1, <1>7 DEF LogTypes, MessagesDiffer
<1>9. \A r \in Logger : mine'[r] <= sent' /\ (mine'[r] = 0 <=> place'[r] \in {"idle", "close"})
  BY <1>1, <1>8 DEF LogTypes, MessagesDiffer
<1>10. \A r, q \in Logger : mine'[r] = mine'[q] => r = q \/ mine'[r] = 0
  BY <1>1, <1>8 DEF LogTypes, MessagesDiffer
<1>11. \A r \in Logger : place'[r] \in {"asked", "message", "write"} => ~Mentioned(mine'[r])
  BY <1>1, <1>7, <1>8 DEF LogTypes, MessagesDiffer
<1>12. MessagesDiffer'
  BY <1>5, <1>6, <1>9, <1>10, <1>11 DEF MessagesDiffer, Lines
<1>13. QED
  BY <1>2, <1>3, <1>4, <1>12

\* initLogging excuses the messages on their way.
LEMMA InitKeepsLines ==
    ASSUME LogInv, NEW t \in Logger, L!initLogging(t)
    PROVE  LogInv'
<1> USE DEF LogInv
<1>1. PICK destination \in Destinations, fails \in BOOLEAN :
        L!SetDisk(L!initLoggingUnlocked(destination, fails))
  BY DEF L!initLogging
<1>2. /\ excused' = [r \in Logger |-> mine[r] # 0]
      /\ UNCHANGED <<today, sent, mine, place, owed>>
  BY DEF L!initLogging, L!message
<1>3. PICK n, k, fs :
            /\ L!initLoggingUnlocked(destination, fails) = [number |-> n, open |-> k, files |-> fs]
            /\ Reopened(n, k, fs)
  BY FileReplaced
<1>4. gLogFileNumber' = n /\ gLogFile' = k /\ files' = fs
  BY <1>1, <1>3 DEF L!SetDisk
<1>5. Grown(-1, 0, 0)
  BY <1>3, <1>4, ReopenedGrows
<1>6. /\ LinesDiffer' /\ \A o \in owed : Paid(o)'
      /\ \A f \in DOMAIN files' : \A i \in DOMAIN files'[f].text : files'[f].text[i] \in 1 .. sent
      /\ \A x \in Nat : Mentioned(x)' => Mentioned(x)
  BY <1>2, <1>5, FilesMayGrow
<1>7. LogTypes'
  BY <1>2, <1>3, <1>4, <1>5 DEF LogTypes, Reopened, Grown
<1>8. MessagesDiffer'
  BY <1>2, <1>6 DEF LogTypes, MessagesDiffer, Lines
<1>9. SettingsHold'
  BY <1>2 DEF LogTypes, MessagesDiffer, SettingsHold
<1>10. Debts'
  BY <1>2, <1>6 DEF Debts
<1>11. QED
  BY <1>6, <1>7, <1>8, <1>9, <1>10

\* write and flush: the line is added to the file that is open then.
LEMMA LineAdded ==
    ASSUME NEW n, NEW k, NEW fs, NEW m, k # -1,
           L!SetDisk(L!Written([number |-> n, open |-> k, files |-> fs], m))
    PROVE  /\ gLogFileNumber' = n /\ gLogFile' = k
           /\ files' = [fs EXCEPT ![k] = [written |-> today, text |-> Append(fs[k].text, m)]]
BY DEF L!SetDisk, L!Written, L!None

LEMMA WriteKeepsLines ==
    ASSUME LogInv, NEW t \in Logger, L!WriteFile(t)
    PROVE  LogInv'
<1> USE DEF LogInv
<1> DEFINE m == mine[t]
<1>1. /\ place[t] = "write" /\ place' = [place EXCEPT ![t] = "done"]
      /\ UNCHANGED <<gLoggingDestination, today, sent, mine, excused>>
  BY DEF L!WriteFile, L!Goto, L!settings, L!world, L!message
<1>2. m \in 1 .. sent /\ ~Mentioned(m)
  BY <1>1 DEF LogTypes, MessagesDiffer
<1>3. PICK fails \in BOOLEAN :
        /\ fails => L!Full
        /\ L!SetDisk(L!Written(IF L!Full THEN L!initLoggingUnlocked(gLoggingDestination, fails)
                               ELSE [number |-> gLogFileNumber, open |-> gLogFile, files |-> files], m))
        /\ owed' = IF fails \/ excused[t] THEN owed
                   ELSE owed \cup {[message |-> m, day |-> today]}
  BY DEF L!WriteFile
<1>4. \E n, k, fs :
        /\ Reopened(n, k, fs)
        /\ L!SetDisk(L!Written([number |-> n, open |-> k, files |-> fs], m))
        /\ owed' # owed => k # -1
  <2>1. CASE L!Full
    <3>1. PICK n, k, fs :
            /\ L!initLoggingUnlocked(gLoggingDestination, fails)
                = [number |-> n, open |-> k, files |-> fs]
            /\ Reopened(n, k, fs)
            /\ "file" \in gLoggingDestination /\ ~fails => k # -1
      BY FileReplaced
    <3>2. L!SetDisk(L!Written([number |-> n, open |-> k, files |-> fs], m))
      BY <1>3, <2>1, <3>1
    <3>3. owed' # owed => k # -1
      BY <1>1, <1>3, <3>1 DEF SettingsHold
    <3>4. QED
      BY <3>1, <3>2, <3>3
  <2>2. CASE ~L!Full
    <3>1. Reopened(gLogFileNumber, gLogFile, files)
      BY DEF Reopened, LogTypes
    <3>2. gLogFile # -1
      BY <2>2 DEF L!Full, L!None
    <3>3. QED
      BY <1>3, <2>2, <3>1, <3>2
  <2>3. QED
    BY <2>1, <2>2
<1>5. PICK n, k, fs :
        /\ Reopened(n, k, fs)
        /\ L!SetDisk(L!Written([number |-> n, open |-> k, files |-> fs], m))
        /\ owed' # owed => k # -1
  BY <1>4
<1>6. gLogFileNumber' = n /\ gLogFile' = k /\ DOMAIN files' = DOMAIN fs
  BY <1>5 DEF L!SetDisk, L!Written, L!None
<1>7. \E a, l : /\ Grown(a, l, m)
                /\ owed' # owed => \E f \in DOMAIN files' :
                    files'[f].written = today /\ \E i \in DOMAIN files'[f].text : files'[f].text[i] = m
  <2>1. CASE k = -1
    <3>1. files' = fs
      BY <1>5, <2>1 DEF L!SetDisk, L!Written, L!None
    <3>2. Grown(-1, 0, 0)
      BY <1>5, <1>6, <3>1, ReopenedGrows
    <3>3. Grown(-1, 0, m)
      <4>1. -1 \notin DOMAIN files'
        BY <3>2 DEF Grown
      <4>2. QED
        BY <3>2, <4>1 DEF Grown
    <3>4. QED
      BY <1>5, <2>1, <3>3
  <2>2. CASE k # -1
    <3>1. files' = [fs EXCEPT ![k] = [written |-> today, text |-> Append(fs[k].text, m)]]
      BY <1>5, <2>2, LineAdded
    <3>2. m \in Nat
      BY <1>2
    <3> HIDE DEF m
    <3>3. LogTypes /\ Reopened(n, k, fs) /\ gLogFileNumber' = n
      BY <1>5, <1>6
    <3>4. \E l : /\ Grown(k, l, m)
                 /\ k \in DOMAIN files' /\ files'[k].written = today
                 /\ l \in DOMAIN files'[k].text /\ files'[k].text[l] = m
      <4> HIDE DEF LogInv
      <4>1. QED
        BY <2>2, <3>1, <3>2, <3>3, WrittenGrows
    <3>5. QED
      BY <3>4
  <2>3. QED
    BY <2>1, <2>2
<1>8. PICK a, l : /\ Grown(a, l, m)
                  /\ owed' # owed => \E f \in DOMAIN files' :
                        files'[f].written = today /\ \E i \in DOMAIN files'[f].text : files'[f].text[i] = m
  BY <1>7
<1>9. /\ LinesDiffer' /\ \A o \in owed : Paid(o)'
      /\ \A f \in DOMAIN files' : \A i \in DOMAIN files'[f].text : files'[f].text[i] \in 1 .. sent
      /\ \A x \in Nat : Mentioned(x)' => Mentioned(x) \/ x = m
  BY <1>1, <1>2, <1>8, FilesMayGrow
<1>10. LogTypes'
  <2>1. /\ gLogFileNumber' \in Int /\ gLogFileNumber' >= -1
        /\ gLogFile' = -1 \/ gLogFile' \in DOMAIN files'
        /\ DOMAIN files' \subseteq 0 .. gLogFileNumber'
    BY <1>5, <1>6 DEF LogTypes, Reopened
  <2>2. \A f \in DOMAIN files' : files'[f].written \in 0 .. today' /\ files'[f].text \in Seq(Nat)
    BY <1>1, <1>8 DEF Grown
  <2>3. \A o \in owed' : o.day \in Nat
    BY <1>3 DEF LogTypes
  <2>4. QED
    BY <1>1, <2>1, <2>2, <2>3 DEF LogTypes
<1>11. MessagesDiffer'
  <2>1. /\ place'[t] = "done" /\ \A r \in Logger : r # t => place'[r] = place[r]
    BY <1>1 DEF LogTypes
  <2>2. \A r \in Logger : mine[r] <= sent /\ (mine[r] = 0 <=> place'[r] \in {"idle", "close"})
    BY <1>1, <2>1 DEF MessagesDiffer
  <2>3. ASSUME NEW r \in Logger, place'[r] \in {"asked", "message", "write"}
        PROVE  ~Mentioned(mine[r])'
    <3>1. r # t /\ ~Mentioned(mine[r]) /\ mine[r] # 0 /\ mine[r] \in Nat
      BY <2>1, <2>3 DEF MessagesDiffer, LogTypes
    <3>2. mine[r] # m
      BY <3>1 DEF MessagesDiffer
    <3>3. \A x : x = mine[r] => ~Mentioned(x)'
      BY <1>9, <3>1, <3>2
    <3>4. QED
      BY <1>1, <3>3 DEF Mentioned, Lines
  <2>4. QED
    BY <1>1, <1>9, <2>2, <2>3 DEF MessagesDiffer, Lines, Mentioned
<1>12. SettingsHold'
  BY <1>1 DEF LogTypes, SettingsHold
<1>13. Debts'
  <2>1. CASE owed' = owed
    BY <1>9, <2>1 DEF Debts
  <2>2. CASE owed' # owed
    <3>1. owed' = owed \cup {[message |-> m, day |-> today]}
      BY <1>3, <2>2
    <3>2. \A o : o = [message |-> m, day |-> today] => Paid(o)'
      <4> SUFFICES ASSUME NEW o, o = [message |-> m, day |-> today] PROVE Paid(o)'
        OBVIOUS
      <4>1. o.message = m /\ o.day = today /\ today \in Nat
        BY DEF LogTypes
      <4>2. QED
        BY <1>1, <1>8, <2>2, <4>1 DEF Paid, Lines
    <3>3. QED
      BY <1>9, <3>1, <3>2 DEF Debts
  <2>3. QED
    BY <2>1, <2>2
<1>14. QED
  BY <1>9, <1>10, <1>11, <1>12, <1>13

LEMMA LogHolds == Spec => []LogInv
<1>1. Init => LogInv
  <2> SUFFICES ASSUME L!Init PROVE LogInv
    BY DEF Init
  <2>1. /\ gLogFileNumber = -1 /\ gLogFile = -1 /\ files = [f \in {} |-> {}] /\ today = 0
        /\ place = [t \in Logger |-> "idle"] /\ sent = 0 /\ mine = [t \in Logger |-> 0]
        /\ excused = [t \in Logger |-> FALSE] /\ owed = {}
    BY DEF L!Init, L!None
  <2>2. DOMAIN files = {}
    BY <2>1
  <2>3. LogTypes
    BY <2>1, <2>2 DEF LogTypes
  <2>4. MessagesDiffer
    BY <2>1, <2>2 DEF MessagesDiffer, Mentioned
  <2>5. LinesDiffer /\ SettingsHold /\ Debts
    BY <2>1, <2>2 DEF LinesDiffer, SettingsHold, Debts
  <2>6. QED
    BY <2>3, <2>4, <2>5 DEF LogInv
<1>2. LogInv /\ [Next]_vars => LogInv'
  <2> SUFFICES ASSUME LogInv, [Next]_vars PROVE LogInv'
    OBVIOUS
  <2> DEFINE Still == UNCHANGED <<gLogFileNumber, files, today, owed, gLoggingDestination>>
  <2>1. L!Next \/ UNCHANGED logVars
    BY Alone
  <2>2. CASE UNCHANGED logVars
    <3>1. Still /\ UNCHANGED <<gLogFile, place, sent, mine, excused>>
      BY <2>2 DEF logVars
    <3>2. QED
      BY <3>1 DEF LogInv, LogTypes, MessagesDiffer, LinesDiffer, SettingsHold, Debts, Paid, Lines,
                  Mentioned
  <2>3. ASSUME NEW t \in Logger, L!LOG(t) \/ L!CHECK(t) \/ L!shutdownLogging(t) PROVE LogInv'
    <3>1. PICK l \in {"asked", "message", "close"} :
            /\ place[t] = "idle" /\ place' = [place EXCEPT ![t] = l] /\ Still /\ gLogFile' = gLogFile
            /\ \/ l = "close" /\ UNCHANGED <<sent, mine, excused>>
               \/ /\ l # "close" /\ sent' = sent + 1 /\ mine' = [mine EXCEPT ![t] = sent + 1]
                  /\ UNCHANGED excused
      BY <2>3 DEF L!LOG, L!CHECK, L!shutdownLogging, L!Begin, L!Goto, L!settings, L!disk, L!world,
                  L!message
    <3>2. QED
      BY <3>1, WriterMoves
  <2>4. ASSUME NEW t \in Logger, L!Asked(t) \/ L!ToFile(t) \/ L!Done(t) \/ L!Close(t) PROVE LogInv'
    <3>1. L!Leave(t) \/ L!ToFile(t) \/ L!Close(t) \/ (L!Asked(t) /\ ~L!Leave(t))
      BY <2>4 DEF L!Done
    <3>2. PICK l \in {"idle", "message", "write", "done", "close"} :
            /\ place' = [place EXCEPT ![t] = l] /\ Still /\ gLogFile' \in {gLogFile, -1}
            /\ UNCHANGED sent
            /\ \/ /\ UNCHANGED <<mine, excused>>
                  /\ \/ place[t] = "asked" /\ l = "message"
                     \/ place[t] = "message" /\ l = "done"
                     \/ place[t] = "message" /\ l = "write" /\ "file" \in gLoggingDestination
                     \/ place[t] = "close" /\ l = "idle"
               \/ /\ l \in {"idle", "close"}
                  /\ mine' = [mine EXCEPT ![t] = 0] /\ excused' = [excused EXCEPT ![t] = FALSE]
      BY <2>4 DEF L!Asked, L!ToFile, L!Done, L!Close, L!Leave, L!Goto, L!settings, L!disk, L!world,
                  L!message, L!None
    <3>3. QED
      BY <3>2, WriterMoves
  <2>5. CASE L!DayPasses
    <3>1. /\ UNCHANGED <<gLogFileNumber, files, owed, gLoggingDestination, gLogFile, place, sent,
                         mine, excused>>
          /\ today' = today + 1 /\ today \in Nat /\ MaxLogFileAge \in Nat
      BY <2>5, ConstantsOK DEF L!DayPasses, L!settings, L!disk, L!message, LogInv, LogTypes,
                               ConstantsOK, L!ConstantsOK
    <3>2. LogTypes'
      BY <3>1 DEF LogInv, LogTypes
    <3>3. MessagesDiffer' /\ LinesDiffer' /\ SettingsHold'
      BY <3>1 DEF LogInv, MessagesDiffer, LinesDiffer, SettingsHold, Lines, Mentioned
    <3>4. ASSUME NEW o \in owed PROVE Paid(o)'
      <4>1. Paid(o) /\ o.day \in Nat
        BY <3>4 DEF LogInv, Debts, LogTypes
      <4>2. QED
        BY <3>1, <4>1 DEF Paid, Lines
    <3>5. Debts'
      BY <3>1, <3>4 DEF Debts
    <3>6. QED
      BY <3>2, <3>3, <3>5 DEF LogInv
  <2>6. L!Rest => UNCHANGED logVars
    BY DEF L!Rest, L!vars, L!settings, L!disk, L!world, L!message, logVars
  <2>7. QED
    BY <2>1, <2>2, <2>3, <2>4, <2>5, <2>6, InitKeepsLines, WriteKeepsLines DEF L!Next
<1>3. QED
  BY <1>1, <1>2, Safety, PTL

\* A message given to the log is in one line of one file until the file is old.
THEOREM LinesAreKept == Spec => []LoggedIsKept
<1>1. LogInv => LoggedIsKept
  <2> SUFFICES ASSUME LogInv, NEW o \in owed
               PROVE  \/ L!WrittenOnce(o.message)
                      \/ MaxLogFileAge # 0 /\ o.day < today - MaxLogFileAge
    BY DEF LoggedIsKept, L!LoggedIsKept
  <2>1. CASE \E f \in DOMAIN files : \E i \in Lines(f) : files[f].text[i] = o.message
    BY <2>1 DEF L!WrittenOnce, LogInv, LinesDiffer, Lines
  <2>2. QED
    BY <2>1 DEF LogInv, Debts, Paid
<1>2. QED
  BY <1>1, LogHolds, PTL
-----------------------------------------------------------------------------
(* The types: every component keeps its own, whichever of them moves. *)

\* A sequence is one over any set that holds its elements.
LEMMA SeqWithin ==
    ASSUME NEW Elem, NEW G, NEW q \in Seq(Elem), \A i \in 1 .. Len(q) : q[i] \in G
    PROVE  q \in Seq(G)
<1>1. Len(q) \in Nat /\ q = [i \in 1 .. Len(q) |-> q[i]]
  BY LenProperties
<1>2. QED
  BY <1>1, IsASeq

LEMMA EventTypes == Spec => []E!TypeOK
<1> USE DEF E!TypeOK
<1>1. Init => E!TypeOK
  BY DEF Init, E!Init
<1>2. E!TypeOK /\ [Next]_vars => E!TypeOK'
  <2> SUFFICES ASSUME E!TypeOK, E!Next \/ UNCHANGED eventVars PROVE E!TypeOK'
    BY Alone
  <2>1. ASSUME NEW s \in Setter, E!set(s) \/ E!unset(s) PROVE E!TypeOK'
    BY <2>1 DEF E!set, E!unset
  <2>2. ASSUME NEW s \in Setter, E!NotifyAll(s) PROVE E!TypeOK'
    BY <2>2 DEF E!NotifyAll
  <2>3. ASSUME NEW w \in Waiter, NEW b \in BOOLEAN, E!WaitBegins(w, b) PROVE E!TypeOK'
    BY <2>3 DEF E!WaitBegins
  <2>4. ASSUME NEW w \in Waiter, E!Test(w) \/ E!ReturnLate(w) PROVE E!TypeOK'
    BY <2>4 DEF E!Test, E!ReturnLate
  <2>5. ASSUME NEW w \in Waiter, E!Timeout(w) \/ E!SpuriousWake(w) PROVE E!TypeOK'
    BY <2>5 DEF E!Timeout, E!SpuriousWake
  <2>6. QED
    BY <2>1, <2>2, <2>3, <2>4, <2>5 DEF E!Next, eventVars
<1>3. QED
  BY <1>1, <1>2, Safety, PTL

LEMMA ThreadTypes == Spec => []T!TypeOK
<1> DEFINE Types == TP!TypeOK /\ TP!Reset
<1>1. Init => Types
  BY SameThread, TP!InitTypes DEF Init
<1>2. Types /\ [Next]_vars => Types'
  <2> SUFFICES ASSUME Types, [Next]_vars PROVE Types'
    OBVIOUS
  <2>1. TP!ConstantsOK /\ [TP!Next]_(TP!vars)
    BY SameThread, Alone
  <2>2. QED
    BY <2>1, TP!TypeStep, TP!ResetStep
<1>3. Types => T!TypeOK
  BY DEF TP!TypeOK, T!TypeOK, TP!Caller, T!Caller
<1> HIDE DEF Types
<1>4. QED
  BY <1>1, <1>2, <1>3, Safety, PTL

LEMMA ExitTypesHold == Spec => []A!TypeOK
<1> DEFINE Lock == lock \in A!Thread \cup {"nobody"} /\ processed \in 0 .. MaxProcess
<1>0. MaxProcess \in Nat /\ 0 \in 0 .. MaxProcess
  BY ConstantsOK DEF ConstantsOK, A!ConstantsOK
<1>1. Init => Lock
  BY <1>0 DEF Init, A!Init
<1>2. Lock /\ [Next]_vars => Lock'
  <2> SUFFICES ASSUME Lock, A!Next \/ UNCHANGED exitVars PROVE Lock'
    BY Alone
  <2>1. CASE A!ProcessCallbacksNow
    BY <1>0, <2>1 DEF A!ProcessCallbacksNow, A!Thread
  <2>2. CASE A!DestroyManager \/ A!CallbacksDone
    BY <2>2 DEF A!DestroyManager, A!CallbacksDone, A!Thread
  <2>3. CASE UNCHANGED <<lock, processed>>
    BY <2>3
  <2>4. QED
    BY <2>1, <2>2, <2>3
    DEF A!Next, A!ExitStep, A!RunCallback, A!Gone, A!vars, A!Constructed, A!Register,
        A!InstanceBuilds, A!InstanceFound, exitVars
<1>3. ExitInv /\ Lock => A!TypeOK
  BY DEF ExitInv, ExitTypes, AFrame, A!TypeOK
<1> HIDE DEF Lock
<1>4. QED
  BY <1>1, <1>2, <1>3, ExitHolds, Safety, PTL

LEMMA TimerTypes == Spec => []I!TypeOK
BY TimerHolds, PTL DEF I!IInv
-----------------------------------------------------------------------------
\* A handle that the closer or the notifier has, was given; the names of their
\* places are no handles.
LEMMA WatchTypes == Spec => []R!TypeOK
<1> DEFINE Given == R!TypeOK /\ (hkey \in Handle => hkey \in used) /\ (closer \in Handle => closer \in used)
<1>0. \A h \in Handle : h \notin {"idle", "join", Null}
  BY ConstantsOK DEF ConstantsOK, R!ConstantsOK
<1>1. Init => Given
  BY <1>0 DEF Init, R!Init, R!TypeOK
<1>2. Given /\ [Next]_vars => Given'
  <2> SUFFICES ASSUME Given, R!Next \/ UNCHANGED watchVars PROVE Given'
    BY Alone
  <2> USE DEF R!TypeOK
  <2>1. CASE R!open
    BY <2>1 DEF R!open
  <2>2. CASE R!watchForChange
    BY <2>2 DEF R!watchForChange
  <2>3. CASE R!closeBegins
    BY <1>0, <2>3 DEF R!closeBegins
  <2>4. CASE R!closeFrees \/ R!closeJoins
    BY <1>0, <2>4 DEF R!closeFrees, R!closeJoins
  <2>5. CASE R!Tests \/ R!Reads
    BY <2>5 DEF R!Tests, R!Reads
  <2>6. CASE R!Registers \/ R!Wakes \/ R!Changes
    BY <2>6 DEF R!Registers, R!Wakes, R!Changes
  <2>7. CASE UNCHANGED watchVars
    BY <2>7 DEF watchVars
  <2>8. QED
    BY <2>1, <2>2, <2>3, <2>4, <2>5, <2>6, <2>7
    DEF R!Next, R!Closer, R!Notifier, R!Done, R!watchVars, watchVars
<1>3. Given => R!TypeOK
  OBVIOUS
<1> HIDE DEF Given
<1>4. QED
  BY <1>1, <1>2, <1>3, Safety, PTL

LEMMA ServiceTypes == Spec => []V!TypeOK
<1> DEFINE ToolType == [task : {"start", "stop", "uninstall"},
                        at : {"idle", "ask", "controlling", "poll", "delete"}]
           Rest == /\ installed \in {"no", "yes", "marked"}
                   /\ did \in {"STOPPED", "RUNNING", "PAUSED"}
                   /\ toolPc \in [Tool -> ToolType] /\ commands \in 0 .. MaxCommands
<1>0. MaxCommands \in Nat /\ 0 \in 0 .. MaxCommands
  BY ConstantsOK DEF ConstantsOK, V!ConstantsOK
<1>1. Init => Rest
  <2>1. [task |-> "start", at |-> "idle"] \in ToolType
    OBVIOUS
  <2> HIDE DEF ToolType
  <2>2. QED
    BY <1>0, <2>1 DEF Init, V!Init
<1>2. ServiceInv /\ Rest /\ [Next]_vars => Rest'
  <2> SUFFICES ASSUME ServiceInv, Rest, V!Next \/ UNCHANGED serviceVars PROVE Rest'
    BY Alone
  <2>1. CASE V!ServiceMain \/ V!Removed \/ V!Sleeps \/ UNCHANGED serviceVars
    BY <2>1 DEF V!ServiceMain, V!Removed, V!Sleeps, V!serviceVars, serviceVars
  <2>2. CASE V!Stop \/ \E o \in {"pause", "continue", "shutdown"} : V!SystemControl(o)
    BY <1>0, <2>2 DEF V!Stop, V!SystemControl
  <2>3. ASSUME NEW w \in V!ServiceThread, NEW b \in BOOLEAN, V!End(w, b) PROVE Rest'
    <3>1. op[w] \in ServiceOps
      BY <2>3 DEF V!End, ServiceInv
    <3>2. V!Achieved(op[w]) \in {"STOPPED", "RUNNING", "PAUSED"}
      BY <3>1 DEF V!Achieved, ServiceOps
    <3>3. \A c \in ToolType : V!Answered(c) \in ToolType
      BY DEF V!Answered
    <3>4. toolPc' \in [Tool -> ToolType]
      BY <2>3, <3>3 DEF V!End
    <3>5. QED
      BY <2>3, <3>2, <3>4 DEF V!End
  <2>4. ASSUME NEW t \in Tool, \/ V!Install(t) \/ V!QueryToStart(t) \/ V!QueryToStop(t)
                               \/ V!Uninstall(t) \/ V!DeleteService(t)
        PROVE  Rest'
    BY <2>4 DEF V!Install, V!QueryToStart, V!QueryToStop, V!Uninstall, V!Query, V!OnlyTools, V!Asks,
                V!DeleteService, V!Go
  <2>5. ASSUME NEW t \in Tool, V!StartServiceW(t) \/ V!ControlService(t) PROVE Rest'
    BY <1>0, <2>5 DEF V!StartServiceW, V!ControlService, V!Go
  <2>6. ASSUME NEW t \in Tool, V!ControlTimesOut(t) \/ V!Poll(t) PROVE Rest'
    BY <2>6 DEF V!ControlTimesOut, V!Poll, V!OnlyTools, V!Go
  <2>7. QED
    BY <2>1, <2>2, <2>3, <2>4, <2>5, <2>6 DEF V!Next, V!Handler, V!Goes
<1>3. ServiceInv /\ status \in V!States /\ Rest => V!TypeOK
  BY DEF ServiceInv, ServiceOps, V!TypeOK, V!Pending
<1> HIDE DEF Rest
<1>4. QED
  BY <1>1, <1>2, <1>3, ServiceHolds, Safety, PTL

\* Three kinds, each at most once.
LEMMA CloseListIsShort == ASSUME NEW q, CloseList(q) PROVE Len(q) <= 3
<1>1. Len(q) \in Nat /\ DOMAIN q = 1 .. Len(q) /\ \A i \in DOMAIN q : q[i] \in ACloseStep
  BY LenProperties, ElementOfSeq DEF CloseList
<1>2. ASSUME Len(q) > 3 PROVE FALSE
  <2>1. {1, 2, 3, 4} \subseteq DOMAIN q
    BY <1>1, <1>2
  <2>2. \A i \in {1, 2, 3, 4} : q[i].kind \in H!Kind
    BY <1>1, <2>1 DEF ACloseStep
  <2>3. \A i, j \in {1, 2, 3, 4} : q[i].kind = q[j].kind => i = j
    BY <2>1 DEF CloseList
  <2> DEFINE k1 == q[1].kind
             k2 == q[2].kind
             k3 == q[3].kind
             k4 == q[4].kind
  <2>4. /\ k1 # k2 /\ k1 # k3 /\ k1 # k4 /\ k2 # k3 /\ k2 # k4 /\ k3 # k4
    BY <2>3
  <2>5. {k1, k2, k3, k4} \subseteq {"session", "connect", "request"}
    BY <2>2 DEF H!Kind
  <2> HIDE DEF k1, k2, k3, k4
  <2>6. QED
    BY <2>4, <2>5
<1>3. QED
  BY <1>1, <1>2

LEMMA HttpTypesHold == Spec => []H!TypeOK
<1> DEFINE Rest == /\ members \in [H!Kind -> 0 .. MaxRequests] /\ count \in 0 .. MaxRequests
                   /\ dwGLE \in {"none", "other", "cancelled"}
<1>0. MaxRequests \in Nat /\ 0 \in 0 .. MaxRequests
  BY ConstantsOK DEF ConstantsOK, H!ConstantsOK
<1>1. Init => Rest
  BY <1>0 DEF Init, H!Init
<1>2. Rest /\ [Next]_vars => Rest'
  <2> SUFFICES ASSUME Rest, H!Next \/ UNCHANGED httpVars PROVE Rest'
    BY Alone
  <2>1. CASE H!CallFails
    <3>1. members' = members \/ \E k : members' = [members EXCEPT ![k] = 0]
      BY <2>1 DEF H!CallFails
    <3>2. dwGLE' \in {"none", "other", "cancelled"} /\ count' = count
      BY <2>1 DEF H!CallFails
    <3>3. QED
      BY <1>0, <3>1, <3>2
  <2>2. CASE H!CallSucceeds
    <3>1. members' = members \/ \E k : members' = [members EXCEPT ![k] = count]
      BY <2>2 DEF H!CallSucceeds
    <3>2. dwGLE' = "none" /\ count' = count
      BY <2>2 DEF H!CallSucceeds
    <3>3. QED
      BY <3>1, <3>2
  <2>3. CASE H!TestOpened
    BY <2>3 DEF H!TestOpened
  <2>4. CASE H!request
    BY <1>0, <2>4 DEF H!request
  <2>5. ASSUME NEW w \in Both, H!CloseStep(w) PROVE Rest'
    <3>1. members' = members \/ \E k : members' = [members EXCEPT ![k] = 0]
      BY <2>5 DEF H!CloseStep
    <3>2. UNCHANGED <<count, dwGLE>>
      BY <2>5 DEF H!CloseStep
    <3>3. QED
      BY <1>0, <3>1, <3>2
  <2>6. CASE UNCHANGED <<members, count, dwGLE>>
    BY <2>6
  <2>7. QED
    BY <2>1, <2>2, <2>3, <2>4, <2>5, <2>6
    DEF H!Next, H!RequestThread, H!User, H!UserGoesOn, H!Enter, H!Fails, H!StartClosing, H!Answer,
        H!Abort, H!Delete, H!abort, H!Aborted, H!DeleteHttp, H!Deleted, H!httpVars, httpVars, Both
<1>3. HttpInv /\ Rest => H!TypeOK
  <2> SUFFICES ASSUME HttpInv, Rest PROVE H!TypeOK
    OBVIOUS
  <2>1. open \subseteq H!Kind \X (1 .. MaxRequests)
    <3>1. \A k \in H!Kind : members[k] # 0 => members[k] \in 1 .. MaxRequests
      BY <1>0
    <3>2. \A h \in open : \E k \in H!Kind : h = <<k, members[k]>> /\ members[k] # 0
      BY DEF HttpInv, HandlesHeld
    <3>3. QED
      BY <3>1, <3>2
  <2>2. \A w \in DOMAIN handles : Len(handles[w]) <= 3
    BY CloseListIsShort DEF HttpInv, HttpTypes
  <2>3. step \in 0 .. Len(H!Steps)
    BY DEF HttpInv, HttpTypes, H!Steps
  <2>4. H!Decided \/ code \in {"none", "undecided", "opened", "failed"}
    BY DEF HttpInv, HttpTypes, Codes, H!Decided
  <2>5. QED
    BY <2>1, <2>2, <2>3, <2>4 DEF HttpInv, HttpTypes, H!TypeOK
<1> HIDE DEF Rest
<1>4. QED
  BY <1>1, <1>2, <1>3, HttpHolds, Safety, PTL
-----------------------------------------------------------------------------
\* What a program has when it is about to set the event, or to fill the buffer;
\* an object without handles is gone, and what it held.
LEMMA ProgramTypesHold == Spec => []S!TypeOK
<1> DEFINE On == {p \in Program : programPc[p] # "off"}
           Objects ==
               /\ system \in Systems
               /\ named \cup startup \cup mapped \cup callback \cup locker \subseteq On
               /\ \A p \in Program : programPc[p] \in {"attach", "copy", "signal"} => p \in startup
               /\ \A p \in Program : programPc[p] = "copy" => p \in mapped
               /\ (startup = {} => ~set) /\ (mapped = {} => buffer = Empty)
               /\ heard \subseteq Program \cup {Empty}
               /\ \A p, q \in locker : p = q
           Counts == runs \in 0 .. MaxRuns /\ failures \in 0 .. MaxFailures
<1>0. MaxRuns \in Nat /\ MaxFailures \in Nat
  BY ConstantsOK DEF ConstantsOK, S!ConstantsOK
<1>1. Init => Objects /\ Counts
  <2> SUFFICES ASSUME S!Init PROVE Objects /\ Counts
    BY DEF Init
  <2>1. Objects
    BY DEF S!Init
  <2>2. Counts
    BY <1>0 DEF S!Init
  <2>3. QED
    BY <2>1, <2>2
<1>2. ProgramTypes /\ Objects /\ [Next]_vars => Objects'
  <2> SUFFICES ASSUME ProgramTypes, Objects, S!Next \/ UNCHANGED programVars PROVE Objects'
    BY Alone
  <2>0. programPc \in [Program -> ProgramPlaces]
    BY DEF ProgramTypes
  <2>1. ASSUME NEW p \in Program, S!CreateMutex(p) PROVE Objects'
    <3>1. /\ programPc[p] = "off" /\ named' \subseteq named \cup {p}
          /\ programPc' \in {[programPc EXCEPT ![p] = "events"], [programPc EXCEPT ![p] = "open"]}
          /\ heard' \subseteq heard
          /\ UNCHANGED <<system, startup, mapped, viewed, set, buffer, callback, locker>>
      BY <2>1 DEF S!CreateMutex, S!Goto, S!Start, S!answering
    <3>2. QED
      BY <2>0, <3>1
  <2>2. ASSUME NEW p \in Program, S!flock(p) PROVE Objects'
    BY <2>0, <2>2 DEF S!flock, S!Goto, S!Start, S!answering
  <2>3. ASSUME NEW p \in Program, S!CreateStartupEvent(p) \/ S!CreateMapping(p) PROVE Objects'
    BY <2>0, <2>3 DEF S!CreateStartupEvent, S!CreateMapping, S!Goto, S!answering
  <2>4. ASSUME NEW p \in Program, S!OpenStartupEvent(p) PROVE Objects'
    BY <2>0, <2>4 DEF S!OpenStartupEvent, S!Goto, S!answering
  <2>5. ASSUME NEW p \in Program, S!OpenMapping(p) PROVE Objects'
    BY <2>0, <2>5 DEF S!OpenMapping, S!Goto, S!answering
  <2>6. ASSUME NEW p \in Program, S!CopyCommandLine(p) \/ S!SetStartupEvent(p) PROVE Objects'
    BY <2>0, <2>6 DEF S!CopyCommandLine, S!SetStartupEvent, S!Goto, S!answering
  <2>7. ASSUME NEW p \in Program, S!registerSecondaryCallback(p) PROVE Objects'
    BY <2>0, <2>7 DEF S!registerSecondaryCallback, S!kernel
  <2>8. ASSUME NEW p \in Program, S!Listen(p) PROVE Objects'
    <3>1. /\ heard' \subseteq Program \cup {Empty}
          /\ set' = set \/ set' = FALSE
          /\ buffer' \in {buffer, Empty}
          /\ UNCHANGED <<system, programPc, named, startup, mapped, callback, locker>>
      BY <2>8 DEF S!Listen, S!Wake, S!Read, S!Hear, S!kernel, ProgramTypes
    <3>2. QED
      BY <3>1
  <2>9. ASSUME NEW p \in Program, S!Close(p) PROVE Objects'
    BY <2>0, <2>9 DEF S!Close, S!Goto, S!answering
  <2>10. ASSUME NEW p \in Program, S!End(p) PROVE Objects'
    BY <2>0, <2>10 DEF S!End, S!Goto
  <2>11. CASE UNCHANGED programVars
    BY <2>11 DEF programVars
  <2>12. QED
    BY <2>1, <2>2, <2>3, <2>4, <2>5, <2>6, <2>7, <2>8, <2>9, <2>10, <2>11
    DEF S!Next, S!Check, S!Rest, S!vars, S!kernel, S!answering, programVars
<1>3. Counts /\ [Next]_vars => Counts'
  <2> SUFFICES ASSUME Counts, S!Next \/ UNCHANGED programVars PROVE Counts'
    BY Alone
  <2>1. /\ runs' = runs \/ (runs < MaxRuns /\ runs' = runs + 1)
        /\ failures' = failures \/ (failures < MaxFailures /\ failures' = failures + 1)
    BY DEF S!Next, S!CreateMutex, S!flock, S!Check, S!CreateStartupEvent, S!CreateMapping,
           S!OpenStartupEvent, S!OpenMapping, S!CopyCommandLine, S!SetStartupEvent,
           S!registerSecondaryCallback, S!Listen, S!Wake, S!Read, S!Hear, S!Close, S!End,
           S!Start, S!Fail, S!Succeed, S!Rest, S!vars, programVars
  <2>2. QED
    BY <1>0, <2>1
<1>4. HeardInv /\ Objects /\ Counts => S!TypeOK
  BY DEF HeardInv, ProgramTypes, ProgramPlaces, S!TypeOK
<1>5. HeardInv => ProgramTypes
  BY DEF HeardInv
<1> HIDE DEF Objects, Counts
<1>6. QED
  BY <1>1, <1>2, <1>3, <1>4, <1>5, HeardHolds, Safety, PTL

\* The open file after a message: one more than it had, or the first of a new one.
LEMMA FileHasRoom ==
    ASSUME LogTypes, NEW t \in Logger, L!WriteFile(t),
           gLogFile # -1 => Len(files[gLogFile].text) <= MaxLogFileSize
    PROVE  gLogFile' # -1 => Len(files'[gLogFile'].text) <= MaxLogFileSize
<1> DEFINE same == [number |-> gLogFileNumber, open |-> gLogFile, files |-> files]
           N == gLogFileNumber + 1
<1>0. MaxLogFileSize \in Nat /\ MaxLogFileSize >= 1
  BY ConstantsOK DEF ConstantsOK, L!ConstantsOK
<1>1. PICK fails \in BOOLEAN :
        L!SetDisk(L!Written(IF L!Full THEN L!initLoggingUnlocked(gLoggingDestination, fails)
                                      ELSE same, mine[t]))
  BY DEF L!WriteFile
<1>2. CASE L!Full
  <2>1. CASE fails \/ "file" \notin gLoggingDestination
    <3>1. L!initLoggingUnlocked(gLoggingDestination, fails).open = -1
      BY <2>1 DEF L!initLoggingUnlocked, L!None
    <3>2. QED
      BY <1>1, <1>2, <3>1 DEF L!SetDisk, L!Written, L!None
  <2>2. CASE ~fails /\ "file" \in gLoggingDestination
    <3> DEFINE fs == L!Opened(N)
    <3>1. L!initLoggingUnlocked(gLoggingDestination, fails) = [number |-> N, open |-> N, files |-> fs]
      BY <2>2 DEF L!initLoggingUnlocked
    <3>2. N \in DOMAIN fs /\ fs[N].text = <<>>
      BY DEF L!Opened
    <3>3. N # -1
      BY DEF LogTypes
    <3> HIDE DEF fs, N
    <3>4. gLogFile' = N /\ files'[N].text = Append(<<>>, mine[t])
      BY <1>1, <1>2, <3>1, <3>2, <3>3, LineAdded
    <3>5. Len(Append(<<>>, mine[t])) = 1
      OBVIOUS
    <3>6. QED
      BY <1>0, <3>4, <3>5
  <2>3. QED
    BY <2>1, <2>2
<1>3. CASE ~L!Full
  <2>1. gLogFile # -1 /\ gLogFile \in DOMAIN files /\ ~(Len(files[gLogFile].text) >= MaxLogFileSize)
    BY <1>3 DEF L!Full, L!None, LogTypes
  <2>2. gLogFile' = gLogFile /\ files'[gLogFile].text = Append(files[gLogFile].text, mine[t])
    BY <1>1, <1>3, <2>1, LineAdded
  <2>3. files[gLogFile].text \in Seq(Nat)
    BY <2>1 DEF LogTypes
  <2>4. Len(files'[gLogFile].text) = Len(files[gLogFile].text) + 1 /\ Len(files[gLogFile].text) \in Nat
    BY <2>2, <2>3, LenProperties
  <2>5. QED
    BY <1>0, <2>1, <2>2, <2>4
<1>4. QED
  BY <1>2, <1>3

\* Every other file that is opened is empty.
LEMMA OpenedIsEmpty ==
    ASSUME LogTypes, NEW destination, NEW fails \in BOOLEAN,
           L!SetDisk(L!initLoggingUnlocked(destination, fails))
    PROVE  gLogFile' # -1 => Len(files'[gLogFile'].text) = 0
<1>1. CASE "file" \in destination /\ ~fails
  <2> DEFINE N == gLogFileNumber + 1
             fs == L!Opened(N)
  <2>1. L!initLoggingUnlocked(destination, fails) = [number |-> N, open |-> N, files |-> fs]
    BY <1>1 DEF L!initLoggingUnlocked
  <2>2. N \in DOMAIN fs /\ fs[N].text = <<>>
    BY DEF L!Opened
  <2> HIDE DEF fs, N
  <2>3. gLogFile' = N /\ files' = fs
    BY <2>1 DEF L!SetDisk
  <2>4. QED
    BY <2>2, <2>3
<1>2. CASE "file" \notin destination \/ fails
  BY <1>2 DEF L!initLoggingUnlocked, L!SetDisk, L!None
<1>3. QED
  BY <1>1, <1>2

LEMMA LogTypesHold == Spec => []L!TypeOK
<1> DEFINE Fits == gLogFile # -1 => Len(files[gLogFile].text) <= MaxLogFileSize
           Settings == /\ gLoggingDestination \subseteq {"file", "stdout"} /\ gMinLogLevel \in 0 .. 2
                       /\ inits \in 0 .. MaxInits /\ crashed \in BOOLEAN
                       /\ severity \in [Logger -> 0 .. 2] /\ closing \in [Logger -> BOOLEAN]
           Counts == /\ today \in 0 .. MaxDay /\ sent \in 0 .. MaxMessages
                     /\ owed \subseteq [message : 1 .. sent, day : 0 .. today]
           Types == Fits /\ Settings /\ Counts
<1>0. /\ {MaxInits, MaxDay, MaxMessages} \subseteq Nat
      /\ MaxLogFileSize \in Nat /\ Levels \subseteq 0 .. 2
      /\ Destinations \subseteq SUBSET {"file", "stdout"}
  BY ConstantsOK DEF ConstantsOK, L!ConstantsOK
<1>1. Init => Types
  <2>1. 0 \in 0 .. MaxInits /\ 0 \in 0 .. MaxDay /\ 0 \in 0 .. MaxMessages
    BY <1>0
  <2> SUFFICES ASSUME L!Init PROVE Types
    BY DEF Init
  <2>2. Fits /\ Settings
    <3>1. /\ gLoggingDestination = {"stdout"} /\ gMinLogLevel = 1 /\ gLogFile = -1 /\ inits = 0
          /\ crashed = FALSE /\ severity = [t \in Logger |-> 0] /\ closing = [t \in Logger |-> FALSE]
      BY DEF L!Init, L!INFO, L!ERROR, L!None
    <3>2. 0 \in 0 .. 2 /\ 1 \in 0 .. 2
      OBVIOUS
    <3>3. severity \in [Logger -> 0 .. 2] /\ closing \in [Logger -> BOOLEAN]
      BY <3>1, <3>2
    <3>4. Settings
      BY <2>1, <3>1, <3>2, <3>3
    <3>5. QED
      BY <3>1, <3>4
  <2>3. Counts
    BY <2>1 DEF L!Init
  <2>4. QED
    BY <2>2, <2>3
<1>2. LogInv /\ Types /\ [Next]_vars => Types'
  <2> SUFFICES ASSUME LogInv, Types, L!Next \/ UNCHANGED logVars PROVE Types'
    BY Alone
  <2>0. {0, 1, 2} = 0 .. 2 /\ LogTypes
    BY DEF LogInv
  <2>1. ASSUME NEW t \in Logger, L!LOG(t) \/ L!CHECK(t) \/ L!shutdownLogging(t) PROVE Types'
    <3>1. /\ UNCHANGED <<gLogFile, files, gLoggingDestination, gMinLogLevel, today, inits, crashed, owed>>
          /\ closing' = closing \/ closing' = [closing EXCEPT ![t] = TRUE]
          /\ \/ UNCHANGED <<sent, severity>>
             \/ /\ sent < MaxMessages /\ sent' = sent + 1
                /\ \E s \in 0 .. 2 : severity' = [severity EXCEPT ![t] = s]
      BY <2>0, <2>1 DEF L!LOG, L!CHECK, L!shutdownLogging, L!Begin, L!INFO, L!FATAL, L!settings,
                        L!disk, L!world, L!message
    <3>2. Fits' /\ Settings'
      BY <3>1
    <3>3. sent' \in 0 .. MaxMessages /\ 1 .. sent \subseteq 1 .. sent'
      BY <1>0, <3>1
    <3>4. Counts'
      BY <3>1, <3>3
    <3>5. QED
      BY <3>2, <3>4
  <2>2. ASSUME NEW t \in Logger, L!initLogging(t) PROVE Types'
    <3>1. PICK destination \in Destinations, level \in Levels, fails \in BOOLEAN :
            /\ gLoggingDestination' = destination /\ gMinLogLevel' = level
            /\ L!SetDisk(L!initLoggingUnlocked(destination, fails))
      BY <2>2 DEF L!initLogging
    <3>2. Fits'
      BY <1>0, <2>0, <3>1, OpenedIsEmpty
    <3>3. Settings' /\ Counts'
      BY <1>0, <2>2, <3>1 DEF L!initLogging, L!message
    <3>4. QED
      BY <3>2, <3>3
  <2>3. ASSUME NEW t \in Logger, L!WriteFile(t) PROVE Types'
    <3>1. Fits'
      BY <2>0, <2>3, FileHasRoom
    <3>2. /\ UNCHANGED <<gLoggingDestination, gMinLogLevel, today, inits, crashed, severity, closing, sent>>
          /\ owed' \subseteq owed \cup {[message |-> mine[t], day |-> today]}
          /\ place[t] = "write"
      BY <2>3 DEF L!WriteFile, L!settings, L!world, L!message
    <3>3. mine[t] \in 1 .. sent /\ today \in 0 .. today
      BY <3>2 DEF LogInv, LogTypes, MessagesDiffer
    <3>4. QED
      BY <3>1, <3>2, <3>3
  <2>4. ASSUME NEW t \in Logger, L!Asked(t) \/ L!ToFile(t) \/ L!Done(t) \/ L!Close(t) PROVE Types'
    <3>1. /\ UNCHANGED <<files, gLoggingDestination, gMinLogLevel, today, inits, sent, owed>>
          /\ gLogFile' \in {gLogFile, -1} /\ crashed' \in BOOLEAN
          /\ closing' = closing \/ closing' = [closing EXCEPT ![t] = FALSE]
          /\ severity' = severity \/ severity' = [severity EXCEPT ![t] = 0]
      BY <2>4 DEF L!Asked, L!ToFile, L!Done, L!Close, L!Leave, L!INFO, L!None, L!settings, L!disk,
                  L!world, L!message
    <3>2. QED
      BY <2>0, <3>1
  <2>5. CASE L!DayPasses
    <3>1. /\ UNCHANGED <<gLogFile, files, gLoggingDestination, gMinLogLevel, inits, crashed, severity,
                         closing, sent, owed>>
          /\ today < MaxDay /\ today' = today + 1
      BY <2>5 DEF L!DayPasses, L!settings, L!disk, L!message
    <3>2. today' \in 0 .. MaxDay /\ 0 .. today \subseteq 0 .. today'
      BY <1>0, <3>1
    <3>3. QED
      BY <3>1, <3>2
  <2>6. CASE UNCHANGED logVars
    BY <2>6 DEF logVars
  <2>7. QED
    BY <2>1, <2>2, <2>3, <2>4, <2>5, <2>6
    DEF L!Next, L!Rest, L!vars, L!settings, L!disk, L!world, L!message, logVars
<1>3. LogInv /\ Types => L!TypeOK
  <2> SUFFICES ASSUME LogInv, Types PROVE L!TypeOK
    OBVIOUS
  <2>1. 1 .. sent \subseteq L!Message
    BY <1>0 DEF L!Message
  <2>2. ASSUME NEW f \in DOMAIN files PROVE files[f].text \in Seq(L!Message)
    <3>1. /\ files[f].text \in Seq(Nat) /\ \A i \in Lines(f) : files[f].text[i] \in 1 .. sent
      BY DEF LogInv, LogTypes, MessagesDiffer
    <3>2. \A i \in 1 .. Len(files[f].text) : files[f].text[i] \in L!Message
      BY <2>1, <3>1, LenProperties DEF Lines
    <3>3. QED
      BY <3>1, <3>2, SeqWithin
  <2>3. mine \in [Logger -> 0 .. sent]
    <3>1. mine \in [Logger -> Nat] /\ sent \in Nat
      BY DEF LogInv, LogTypes
    <3>2. \A t \in Logger : mine[t] <= sent
      BY DEF LogInv, MessagesDiffer
    <3>3. \A t \in Logger : mine[t] \in 0 .. sent
      BY <3>1, <3>2
    <3>4. QED
      BY <3>1, <3>3
  <2>4. owed \subseteq [message : L!Message, day : 0 .. today]
    BY <2>1
  <2>5. gLogFileNumber \in Nat \cup {-1}
    BY DEF LogInv, LogTypes
  <2>6. QED
    BY <2>2, <2>3, <2>4, <2>5 DEF LogInv, LogTypes, L!TypeOK, L!INFO, L!FATAL, L!None
<1> HIDE DEF Types
<1>4. QED
  BY <1>1, <1>2, <1>3, LogHolds, Safety, PTL

\* What the readers change, and what the others do.
FlowTypes ==
    /\ PipeTypes /\ Carried /\ \A s \in Stream : written[s] <= MaxOutput
    /\ DOMAIN ready \subseteq polled /\ \A s \in DOMAIN ready : ready[s] \subseteq {"IN", "HUP"}
    /\ platform = "windows" => DOMAIN ready = {}
Flags ==
    /\ filter \in BOOLEAN /\ input \in BOOLEAN /\ closed \in BOOLEAN /\ stored \in BOOLEAN
    /\ writer = "in write" => input
ChildTypes ==
    /\ platform \in Platforms
    /\ child \in {"none", "forked", "running", "zombie", "gone"}
    /\ heir \in {"unborn", "running", "ended"} /\ pid \in {"nobody", "child", "other"}
    /\ inPipe \in 0 .. Cap /\ asked \in 0 .. MaxInput
    /\ writer \in {"idle", "in write"}
    /\ owner \in {"idle", "waiting", "reaped", "joining", "destroying", "destroyed"}
    /\ answer \in {"none", "status", "-1"} /\ hits \subseteq {"child", "other"}

\* A read takes no more than there is.
LEMMA ReadKeepsFlow ==
    ASSUME FlowTypes, NEW s \in Stream, C!Read(s)
    PROVE  /\ PipeTypes' \/ ~(polled' \subseteq Stream /\ DOMAIN ready' \subseteq Stream)
           /\ Carried' /\ written' = written
<1> DEFINE n == C!Least(pipe[s], BufferSize)
<1>1. BufferSize \in Nat /\ Cap \in Nat
  BY ConstantsOK DEF ConstantsOK, C!ConstantsOK
<1>2. /\ pipe \in [Stream -> Nat] /\ delivered \in [Stream -> Nat] /\ written \in [Stream -> Nat]
  BY DEF FlowTypes, PipeTypes
<1>3. n \in Nat /\ n <= pipe[s]
  BY <1>1, <1>2 DEF C!Least
<1>4. /\ pipe' = [pipe EXCEPT ![s] = @ - n] /\ delivered' = [delivered EXCEPT ![s] = @ + n]
      /\ written' = written /\ holders' = holders
  BY DEF C!Read
<1> HIDE DEF n
<1>5. /\ pipe'[s] = pipe[s] - n /\ delivered'[s] = delivered[s] + n
      /\ \A r \in Stream : r # s => pipe'[r] = pipe[r] /\ delivered'[r] = delivered[r]
  BY <1>2, <1>4
<1>6. pipe' \in [Stream -> Nat] /\ delivered' \in [Stream -> Nat]
  <2>1. pipe[s] - n \in Nat /\ delivered[s] + n \in Nat
    BY <1>2, <1>3
  <2>2. QED
    BY <1>2, <1>4, <2>1
<1>7. ASSUME NEW r \in Stream PROVE pipe'[r] <= Cap /\ delivered'[r] + pipe'[r] = written'[r]
  <2>1. pipe[r] <= Cap /\ delivered[r] + pipe[r] = written[r] /\ pipe[r] \in Nat /\ delivered[r] \in Nat
    BY <1>2 DEF FlowTypes, Carried
  <2>2. CASE r = s
    BY <1>1, <1>3, <1>4, <1>5, <2>1, <2>2
  <2>3. CASE r # s
    BY <1>4, <1>5, <2>1, <2>3
  <2>4. QED
    BY <2>2, <2>3
<1>8. Carried'
  BY <1>7 DEF Carried
<1>9. QED
  BY <1>2, <1>4, <1>6, <1>8 DEF FlowTypes, PipeTypes

LEMMA ReadersKeepTypes ==
    ASSUME FlowTypes, C!Reader
    PROVE  FlowTypes'
<1> USE DEF FlowTypes
<1>0. PipeTypes /\ Carried
  OBVIOUS
<1>1. CASE C!Poll
  <2>1. /\ platform = "posix" /\ ready' = [s \in polled |-> C!Events(s)]
        /\ UNCHANGED <<platform, pipe, written, delivered, holders, polled>>
    BY <1>1 DEF C!Poll, C!streams, C!world
  <2>2. \A s \in polled : C!Events(s) \subseteq {"IN", "HUP"}
    BY DEF C!Events
  <2>3. QED
    BY <2>1, <2>2 DEF PipeTypes, Carried
<1>2. ASSUME NEW s \in Stream, C!Serve(s) PROVE FlowTypes'
  <2>1. /\ s \in DOMAIN ready
        /\ C!Read(s) \/ UNCHANGED <<pipe, written, delivered, holders>>
        /\ polled' = polled \/ polled' = polled \ {s}
        /\ ready' = [r \in DOMAIN ready \ {s} |-> ready[r]]
        /\ platform' = platform
    BY <1>2 DEF C!Serve, C!streams, C!world
  <2>2. /\ polled' \subseteq Stream /\ DOMAIN ready' \subseteq polled'
        /\ DOMAIN ready' = DOMAIN ready \ {s}
        /\ \A r \in DOMAIN ready' : ready'[r] = ready[r]
    BY <2>1 DEF PipeTypes
  <2>3. PipeTypes' /\ Carried' /\ written' = written
    <3>1. CASE C!Read(s)
      BY <2>2, <3>1, ReadKeepsFlow
    <3>2. CASE UNCHANGED <<pipe, written, delivered, holders>>
      BY <2>2, <3>2 DEF PipeTypes, Carried
    <3>3. QED
      BY <2>1, <3>1, <3>2
  <2>4. QED
    BY <2>1, <2>2, <2>3
<1>3. ASSUME NEW s \in Stream, C!ReadFile(s) PROVE FlowTypes'
  <2>1. /\ platform = "windows" /\ UNCHANGED <<platform, ready>>
        /\ C!Read(s) \/ UNCHANGED <<pipe, written, delivered, holders>>
        /\ polled' = polled \/ polled' = polled \ {s}
    BY <1>3 DEF C!ReadFile, C!streams, C!world
  <2>2. polled' \subseteq Stream /\ DOMAIN ready' = {}
    BY <2>1 DEF PipeTypes
  <2>3. PipeTypes' /\ Carried' /\ written' = written
    <3>1. CASE C!Read(s)
      BY <2>2, <3>1, ReadKeepsFlow
    <3>2. CASE UNCHANGED <<pipe, written, delivered, holders>>
      BY <2>2, <3>2 DEF PipeTypes, Carried
    <3>3. QED
      BY <2>1, <3>1, <3>2
  <2>4. QED
    BY <2>1, <2>2, <2>3
<1>4. QED
  BY <1>1, <1>2, <1>3 DEF C!Reader

\* The child writes.
LEMMA WriteKeepsFlow ==
    ASSUME FlowTypes, NEW s \in Stream, C!Write(s)
    PROVE  FlowTypes'
<1> USE DEF FlowTypes
<1>1. /\ pipe[s] < Cap /\ C!MayWrite(s) /\ UNCHANGED <<platform, polled, ready, delivered, holders>>
      /\ pipe' = [pipe EXCEPT ![s] = @ + 1] /\ written' = [written EXCEPT ![s] = @ + 1]
  BY DEF C!Write, C!object, C!world
<1>2. /\ pipe \in [Stream -> Nat] /\ written \in [Stream -> Nat] /\ delivered \in [Stream -> Nat]
      /\ Cap \in Nat /\ MaxOutput \in Nat
  BY ConstantsOK DEF ConstantsOK, C!ConstantsOK, PipeTypes
<1>3. written[s] < MaxOutput
  BY <1>1, <1>2 DEF C!MayWrite
<1>4. /\ pipe'[s] = pipe[s] + 1 /\ written'[s] = written[s] + 1
      /\ \A r \in Stream : r # s => pipe'[r] = pipe[r] /\ written'[r] = written[r]
      /\ pipe' \in [Stream -> Nat] /\ written' \in [Stream -> Nat]
  BY <1>1, <1>2
<1>5. ASSUME NEW r \in Stream
      PROVE  pipe'[r] <= Cap /\ delivered'[r] + pipe'[r] = written'[r] /\ written'[r] <= MaxOutput
  <2>1. /\ pipe[r] <= Cap /\ delivered[r] + pipe[r] = written[r] /\ written[r] <= MaxOutput
        /\ pipe[r] \in Nat /\ delivered[r] \in Nat /\ written[r] \in Nat
    BY <1>2 DEF Carried
  <2>2. CASE r = s
    <3>1. /\ pipe'[r] = pipe[r] + 1 /\ written'[r] = written[r] + 1 /\ delivered'[r] = delivered[r]
          /\ pipe[r] < Cap /\ written[r] < MaxOutput
      BY <1>1, <1>3, <1>4, <2>2
    <3>2. QED
      BY <1>2, <2>1, <3>1
  <2>3. CASE r # s
    BY <1>1, <1>4, <2>1, <2>3
  <2>4. QED
    BY <2>2, <2>3
<1>6. PipeTypes' /\ Carried'
  BY <1>1, <1>2, <1>4, <1>5 DEF PipeTypes, Carried
<1>7. QED
  BY <1>1, <1>5, <1>6

\* The flags of the object.
LEMMA FlagsKept ==
    ASSUME Flags, C!Next
    PROVE  Flags'
<1>1. CASE C!Reader
  <2>1. UNCHANGED <<filter, input, closed, stored, writer>>
    BY <1>1 DEF C!Reader, C!Poll, C!Serve, C!ReadFile, C!world, C!feed
  <2>2. QED
    BY <2>1 DEF Flags
<1>2. CASE \/ C!ChildRuns \/ C!LeaveHeir \/ C!ChildEnds \/ C!HeirEnds \/ C!ChildReads \/ C!PidReused
           \/ C!getExitStatus \/ C!tryGetExitStatus \/ C!Destroy \/ C!kill \/ C!killProcessTree
           \/ C!Rest \/ \E s \in Stream : C!Write(s)
  <2>1. UNCHANGED <<filter, input, closed, stored, writer>>
    BY <1>2 DEF C!ChildRuns, C!LeaveHeir, C!ChildEnds, C!HeirEnds, C!ChildReads, C!PidReused,
                C!getExitStatus, C!tryGetExitStatus, C!Destroy, C!kill, C!killProcessTree,
                C!Rest, C!Write, C!vars, C!world, C!feed, C!object
  <2>2. QED
    BY <2>1 DEF Flags
<1>3. CASE C!Reap
  BY <1>3, Zenon DEF Flags, C!Reap, C!world, C!feed
<1>4. CASE C!SetClosed \/ C!CloseProcessHandle
  <2>1. closed' = TRUE /\ UNCHANGED <<filter, input, stored, writer>>
    BY <1>4 DEF C!SetClosed, C!CloseProcessHandle, C!world, C!feed
  <2>2. QED
    BY <2>1, Zenon DEF Flags
<1>5. CASE C!close_fds \/ C!closeStdin
  <2>1. input' = FALSE /\ writer = "idle" /\ UNCHANGED <<filter, closed, stored, writer>>
    BY <1>5 DEF C!close_fds, C!closeStdin, C!world, C!feed
  <2>2. "idle" # "in write"
    OBVIOUS
  <2>3. QED
    BY <2>1, <2>2, Zenon DEF Flags
<1>6. CASE C!write \/ C!WriteReturns
  <2>1. /\ input \/ writer' = "idle"
        /\ UNCHANGED <<filter, input, closed, stored>>
    BY <1>6 DEF C!write, C!WriteReturns, C!world, C!object
  <2>2. "idle" # "in write"
    OBVIOUS
  <2>3. QED
    BY <2>1, <2>2, Zenon DEF Flags
<1>7. QED
  BY <1>1, <1>2, <1>3, <1>4, <1>5, <1>6 DEF C!Next, C!OwnerStep

\* The pipe to the child.
LEMMA FeedMoves ==
    ASSUME inPipe \in 0 .. Cap, asked \in 0 .. MaxInput,
           C!ChildReads \/ C!write \/ C!WriteReturns \/ C!closeStdin
    PROVE  /\ inPipe' \in 0 .. Cap /\ asked' \in 0 .. MaxInput
           /\ writer' \in {writer, "idle", "in write"}
<1>1. Cap \in Nat /\ MaxInput \in Nat
  BY ConstantsOK DEF ConstantsOK, C!ConstantsOK
<1>2. \/ inPipe' = inPipe \/ (inPipe > 0 /\ inPipe' = inPipe - 1)
      \/ inPipe < Cap /\ inPipe' = inPipe + 1
  BY DEF C!ChildReads, C!closeStdin, C!write, C!WriteReturns, C!feed
<1>3. asked' = asked \/ (asked < MaxInput /\ asked' = asked + 1)
  BY DEF C!ChildReads, C!closeStdin, C!write, C!WriteReturns, C!feed
<1>4. writer' \in {writer, "idle", "in write"}
  BY DEF C!ChildReads, C!closeStdin, C!write, C!WriteReturns, C!feed
<1>5. inPipe' \in 0 .. Cap
  BY <1>1, <1>2
<1>6. asked' \in 0 .. MaxInput
  BY <1>1, <1>3
<1>7. QED
  BY <1>4, <1>5, <1>6

LEMMA ProcessTypes == Spec => []C!TypeOK
<1>0. /\ Platforms \subseteq {"posix", "windows"} /\ {Cap, MaxInput, MaxOutput} \subseteq Nat
      /\ 0 \in 0 .. Cap /\ 0 \in 0 .. MaxInput
  BY ConstantsOK DEF ConstantsOK, C!ConstantsOK
<1>1. Init => FlowTypes /\ Flags /\ ChildTypes
  <2> SUFFICES ASSUME C!Init PROVE FlowTypes /\ Flags /\ ChildTypes
    BY DEF Init
  <2>0. Flags
    <3>1. filter \in BOOLEAN /\ input = TRUE /\ closed \in BOOLEAN /\ stored = FALSE
      BY DEF C!Init
    <3>2. QED
      BY <3>1, Zenon DEF Flags
  <2>1. ChildTypes
    BY <1>0 DEF C!Init, C!OpenedChild, ChildTypes
  <2>2. /\ pipe = [s \in Stream |-> 0] /\ written = pipe /\ delivered = pipe /\ DOMAIN ready = {}
        /\ polled \subseteq Stream /\ holders \in [Stream -> SUBSET {"child", "heir"}]
    BY DEF C!Init
  <2>3. FlowTypes
    BY <1>0, <2>2 DEF FlowTypes, PipeTypes, Carried
  <2>4. QED
    BY <2>0, <2>1, <2>3
<1>9. Flags /\ [Next]_vars => Flags'
  <2>1. ASSUME Flags, UNCHANGED processVars PROVE Flags'
    <3>1. UNCHANGED <<filter, input, closed, stored, writer>>
      BY <2>1 DEF processVars
    <3>2. QED
      BY <2>1, <3>1 DEF Flags
  <2>2. QED
    BY <2>1, Alone, FlagsKept
<1>2. FlowTypes /\ ChildTypes /\ [Next]_vars => FlowTypes' /\ ChildTypes'
  <2> SUFFICES ASSUME FlowTypes, ChildTypes, C!Next \/ UNCHANGED processVars
               PROVE  FlowTypes' /\ ChildTypes'
    BY Alone
  <2> DEFINE Flow == <<platform, pipe, written, delivered, holders, polled, ready>>
             Own == <<platform, child, heir, pid, inPipe, asked, writer, owner, answer, hits>>
  <2>0. /\ UNCHANGED Flow => FlowTypes'
        /\ UNCHANGED Own => ChildTypes'
    <3>1. UNCHANGED Flow => FlowTypes'
      BY DEF FlowTypes, PipeTypes, Carried
    <3>2. UNCHANGED Own => ChildTypes'
      BY DEF ChildTypes
    <3>3. QED
      BY <3>1, <3>2
  <2>1. CASE C!Reader
    <3>1. UNCHANGED Own
      BY <2>1 DEF C!Reader, C!Poll, C!Serve, C!ReadFile, C!world, C!feed
    <3>2. QED
      BY <2>0, <2>1, <3>1, ReadersKeepTypes
  <2>2. ASSUME NEW s \in Stream, C!Write(s) PROVE FlowTypes' /\ ChildTypes'
    <3>1. UNCHANGED Own
      BY <2>2 DEF C!Write, C!world, C!feed, C!object
    <3>2. QED
      BY <2>0, <2>2, <3>1, WriteKeepsFlow
  <2>3. CASE C!LeaveHeir \/ C!ChildEnds \/ C!HeirEnds
    <3>1. /\ UNCHANGED <<platform, pipe, written, delivered, polled, ready>>
          /\ \/ holders' = [s \in Stream |-> holders[s] \cup {"heir"}]
             \/ holders' = [s \in Stream |-> holders[s] \ {"child"}]
             \/ holders' = [s \in Stream |-> holders[s] \ {"heir"}]
      BY <2>3 DEF C!LeaveHeir, C!ChildEnds, C!HeirEnds, C!world, C!object
    <3>2. holders' \in [Stream -> SUBSET {"child", "heir"}]
      BY <3>1 DEF FlowTypes, PipeTypes
    <3>3. FlowTypes'
      BY <3>1, <3>2 DEF FlowTypes, PipeTypes, Carried
    <3>4. ChildTypes'
      BY <2>3 DEF C!LeaveHeir, C!ChildEnds, C!HeirEnds, C!world, C!feed, C!object, ChildTypes
    <3>5. QED
      BY <3>3, <3>4
  <2>4. CASE C!ChildRuns \/ C!PidReused \/ C!Destroy \/ C!SetClosed
    <3>1. UNCHANGED Flow
      BY <2>4 DEF C!ChildRuns, C!PidReused, C!Destroy, C!SetClosed, C!world, C!streams, C!object
    <3>2. ChildTypes'
      BY <2>4 DEF C!ChildRuns, C!PidReused, C!Destroy, C!SetClosed, C!world, C!feed, C!object,
                  ChildTypes
    <3>3. QED
      BY <2>0, <3>1, <3>2
  <2>5. CASE C!Reap \/ C!CloseProcessHandle \/ C!close_fds
    <3>1. UNCHANGED Flow
      BY <2>5 DEF C!Reap, C!CloseProcessHandle, C!close_fds, C!world, C!streams
    <3>2. ChildTypes'
      BY <2>5 DEF C!Reap, C!CloseProcessHandle, C!close_fds, C!world, C!feed, ChildTypes
    <3>3. QED
      BY <2>0, <3>1, <3>2
  <2>6. CASE C!getExitStatus \/ C!tryGetExitStatus
    <3>1. UNCHANGED Flow
      BY <2>6 DEF C!getExitStatus, C!tryGetExitStatus, C!world, C!streams, C!object
    <3>2. ChildTypes'
      BY <2>6 DEF C!getExitStatus, C!tryGetExitStatus, C!Return, C!world, C!feed, C!object, ChildTypes
    <3>3. QED
      BY <2>0, <3>1, <3>2
  <2>7. CASE C!ChildReads \/ C!write \/ C!WriteReturns \/ C!closeStdin
    <3>1. UNCHANGED Flow
      BY <2>7 DEF C!ChildReads, C!write, C!WriteReturns, C!closeStdin, C!world, C!streams, C!object
    <3>2. /\ inPipe' \in 0 .. Cap /\ asked' \in 0 .. MaxInput
          /\ writer' \in {"idle", "in write"}
      <4>1. inPipe \in 0 .. Cap /\ asked \in 0 .. MaxInput /\ writer \in {"idle", "in write"}
        BY DEF ChildTypes
      <4>2. inPipe' \in 0 .. Cap /\ asked' \in 0 .. MaxInput /\ writer' \in {writer, "idle", "in write"}
        BY <2>7, <4>1, FeedMoves
      <4>3. QED
        BY <4>1, <4>2
    <3>3. UNCHANGED <<platform, child, heir, pid, owner, answer, hits>>
      BY <2>7 DEF C!ChildReads, C!closeStdin, C!write, C!WriteReturns, C!world
    <3>4. ChildTypes'
      BY <3>2, <3>3 DEF ChildTypes
    <3>5. QED
      BY <2>0, <3>1, <3>4
  <2>8. CASE C!kill \/ C!killProcessTree
    <3>1. UNCHANGED Flow
      BY <2>8 DEF C!kill, C!killProcessTree, C!world, C!streams, C!object
    <3>2. hits' \subseteq {"child", "other"}
      <4>1. C!HitById \subseteq {"child", "other"} /\ C!TreeHit \subseteq {"child", "other"}
        BY DEF C!TreeHit, C!HitById
      <4>2. hits' = hits \cup C!HitById \/ hits' = hits \cup C!TreeHit
        BY <2>8 DEF C!kill, C!killProcessTree
      <4>3. hits \subseteq {"child", "other"}
        BY DEF ChildTypes
      <4>4. QED
        BY <4>1, <4>2, <4>3
    <3>3. UNCHANGED <<platform, child, heir, pid, inPipe, asked, writer, owner, answer>>
      BY <2>8 DEF C!kill, C!killProcessTree, C!world, C!feed
    <3>4. ChildTypes'
      BY <3>2, <3>3 DEF ChildTypes
    <3>5. QED
      BY <2>0, <3>1, <3>4
  <2>9. CASE UNCHANGED processVars
    BY <2>0, <2>9 DEF processVars
  <2>10. QED
    BY <2>1, <2>2, <2>3, <2>4, <2>5, <2>6, <2>7, <2>8, <2>9
    DEF C!Next, C!OwnerStep, C!Rest, C!vars, C!world, C!feed, C!streams, C!object, processVars
<1>3. FlowTypes /\ Flags /\ ChildTypes => C!TypeOK
  <2> SUFFICES ASSUME FlowTypes, Flags, ChildTypes PROVE C!TypeOK
    OBVIOUS
  <2>0. /\ {input, closed, stored} \subseteq BOOLEAN /\ filter \in BOOLEAN
        /\ writer = "in write" => input
    BY Zenon DEF Flags
  <2>1. ASSUME NEW s \in Stream
        PROVE  /\ written[s] \in 0 .. MaxOutput /\ pipe[s] \in 0 .. Cap
               /\ delivered[s] + pipe[s] = written[s]
    BY <1>0 DEF FlowTypes, PipeTypes, Carried
  <2>2. QED
    BY <2>0, <2>1 DEF FlowTypes, PipeTypes, ChildTypes, C!TypeOK
<1>4. QED
  BY <1>1, <1>2, <1>9, <1>3, Safety, PTL

-----------------------------------------------------------------------------
(* The pump: one task runs at a time. *)

NoTask(q) == \A i \in DOMAIN q : q[i] # "task"
AtMostOne(q) == \A i, j \in DOMAIN q : q[i] = "task" /\ q[j] = "task" => i = j

\* The thread is in the one task that runs, or below it.
OneTask ==
    /\ pumpPc = "task" => task # Null /\ NoTask(places)
    /\ task = Null => NoTask(places)
    /\ AtMostOne(places)

Place == OuterPlaces \cup InnerPlaces

LEMMA PlaceAdded ==
    ASSUME NEW q \in Seq(Place), NEW a \in Place
    PROVE  /\ Append(q, a) \in Seq(Place)
           /\ NoTask(q) => AtMostOne(Append(q, a))
           /\ a # "task" => /\ NoTask(q) => NoTask(Append(q, a))
                            /\ AtMostOne(q) => AtMostOne(Append(q, a))
<1> DEFINE p == Append(q, a)
<1>1. /\ p \in Seq(Place) /\ p[Len(q) + 1] = a
      /\ \A i \in DOMAIN p : i = Len(q) + 1 \/ (i \in DOMAIN q /\ p[i] = q[i])
  BY PushedOn
<1> HIDE DEF p
<1>2. NoTask(q) => AtMostOne(p)
  BY <1>1 DEF NoTask, AtMostOne
<1>3. ASSUME a # "task" PROVE NoTask(q) => NoTask(p)
  BY <1>1, <1>3 DEF NoTask
<1>4. ASSUME a # "task" PROVE AtMostOne(q) => AtMostOne(p)
  BY <1>1, <1>4 DEF AtMostOne
<1>5. QED
  BY <1>1, <1>2, <1>3, <1>4 DEF p

LEMMA PlaceLeft ==
    ASSUME NEW q \in Seq(Place), q # <<>>
    PROVE  LET p == SubSeq(q, 1, Len(q) - 1) IN
           /\ NoTask(q) => NoTask(p) /\ q[Len(q)] # "task"
           /\ AtMostOne(q) => AtMostOne(p) /\ (q[Len(q)] = "task" => NoTask(p))
<1> DEFINE p == SubSeq(q, 1, Len(q) - 1)
<1>1. \A i \in DOMAIN p : i \in DOMAIN q /\ p[i] = q[i] /\ i # Len(q)
  BY TakenOff
<1>2. Len(q) \in DOMAIN q
  BY LastIn
<1> HIDE DEF p
<1>3. NoTask(q) => NoTask(p) /\ q[Len(q)] # "task"
  BY <1>1, <1>2 DEF NoTask
<1>4. AtMostOne(q) => AtMostOne(p) /\ (q[Len(q)] = "task" => NoTask(p))
  BY <1>1, <1>2 DEF AtMostOne, NoTask
<1>5. QED
  BY <1>3, <1>4 DEF p

\* How the place of the pump and the task that runs change.
Stays == UNCHANGED <<places, task>> /\ (UNCHANGED pumpPc \/ (pumpPc # "task" /\ pumpPc' # "task"))
Descends ==
    /\ UNCHANGED task /\ pumpPc # "task" /\ pumpPc' # "task"
    /\ \/ \E a \in {"work", "modal"} : places' = places \o <<a>>
       \/ places' = places \o <<"modal", "handle">>
Returns ==
    /\ W!Return /\ pumpPc \notin TopPlaces
    /\ IF pumpPc = "task" THEN task' = Null ELSE UNCHANGED task
Begins ==
    /\ task = Null /\ pumpPc # "task"
    /\ \E a \in {"delayed", "resched", "settle", "rearm"} :
        \/ pumpPc' = "task" /\ places' = places \o <<a>>
        \/ pumpPc' = "modal" /\ places' = places \o <<a, "task">>
    /\ W!DoWorkRun \/ W!DoDelayedRun

LEMMA PumpMoves ==
    ASSUME W!Next \/ UNCHANGED pumpVars
    PROVE  Stays \/ Descends \/ Returns \/ Begins
<1>1. CASE \/ W!run \/ W!PeekQuit \/ W!PeekNone \/ W!Leave \/ W!Settle \/ W!waitForWork
           \/ W!ModalUser \/ W!Again
  <2>1. Stays
    BY <1>1 DEF W!run, W!PeekQuit, W!PeekNone, W!Leave, W!Settle, W!waitForWork, W!ModalUser,
            W!Again, W!Goto, W!loop, Stays
  <2>2. QED
    BY <2>1
<1>2. CASE \/ W!DoWorkReload \/ W!DoWorkDelay \/ W!ForeignDispatch \/ W!UserPosts \/ W!Tick
           \/ \E p \in Poster : W!Scheduling(p) \/ \E t \in Task : W!Post(p, t)
  <2>1. Stays
    BY <1>2 DEF W!DoWorkReload, W!DoWorkDelay, W!ForeignDispatch, W!UserPosts, W!Tick,
            W!Scheduling, W!Exchange, W!PostMessage, W!Undo, W!Post, W!loop, W!control, Stays
  <2>2. QED
    BY <2>1
<1>3. CASE W!DoDelayedNothing \/ W!DoDelayedNotYet
  <2>1. Stays
    BY <1>3 DEF W!DoDelayedNothing, W!DoDelayedNotYet, W!InDoDelayed, W!AfterDelayed, W!Goto,
            W!loop, Stays
  <2>2. QED
    BY <2>1
<1>4. CASE W!DoWorkNothing
  <2>1. Stays \/ Returns
    BY <1>4 DEF W!DoWorkNothing, W!InDoWork, W!Goto, W!loop, Stays, Returns, TopPlaces, OuterPlaces
  <2>2. QED
    BY <2>1
<1>5. CASE W!PeekUser \/ W!PeekTimer \/ W!PeekWork \/ W!ModalWork \/ W!ModalTimer
  <2>1. Stays \/ Descends
    BY <1>5 DEF W!PeekUser, W!PeekTimer, W!PeekWork, W!ModalWork, W!ModalTimer, W!Replace, W!Goto,
            W!Push, W!loop, Stays, Descends
  <2>2. QED
    BY <2>1
<1>6. CASE W!Reset \/ W!Dispatch
  <2>1. Stays \/ Returns
    BY <1>6 DEF W!Reset, W!Dispatch, W!Goto, W!loop, Stays, Returns, TopPlaces, OuterPlaces
  <2>2. QED
    BY <2>1
<1>7. CASE W!ReturnTask \/ W!Rearm \/ W!Resched \/ W!ModalEnds
  <2>1. Returns
    BY <1>7 DEF W!ReturnTask, W!Rearm, W!Resched, W!ModalEnds, W!loop, Returns, TopPlaces,
            OuterPlaces
  <2>2. QED
    BY <2>1
<1>8. CASE W!DoWorkRun
  <2>1. Begins
    BY <1>8 DEF W!DoWorkRun, W!InDoWork, W!AfterTask, W!runTask, W!Push, Begins
  <2>2. QED
    BY <2>1
<1>9. CASE W!DoDelayedRun
  <2>1. Begins
    BY <1>9 DEF W!DoDelayedRun, W!InDoDelayed, W!AfterDelayed, W!runTask, W!Push, Begins
  <2>2. QED
    BY <2>1
<1>10. CASE W!Rest \/ UNCHANGED pumpVars
  <2>1. Stays
    BY <1>10 DEF W!Rest, W!vars, W!loop, W!control, pumpVars, Stays
  <2>2. QED
    BY <2>1
<1>11. QED
  BY <1>1, <1>2, <1>3, <1>4, <1>5, <1>6, <1>7, <1>8, <1>9, <1>10 DEF W!Next, W!Pump

LEMMA OneTaskKept ==
    ASSUME PumpTypes, Nesting, OneTask, Stays \/ Descends \/ Returns \/ Begins,
           Begins => task' # Null
    PROVE  OneTask'
<1> USE DEF OneTask
<1>1. places \in Seq(Place)
  BY DEF PumpTypes, Place
<1>2. CASE Stays
  BY <1>2 DEF Stays
<1>3. CASE Descends
  <2>1. ASSUME NEW a \in {"work", "modal"}, places' = places \o <<a>> PROVE OneTask'
    <3>1. places' = Append(places, a) /\ a # "task" /\ a \in Place
      BY <1>1, <2>1, Pushed DEF Place, OuterPlaces, InnerPlaces
    <3>2. (NoTask(places) => NoTask(places')) /\ AtMostOne(places')
      BY <1>1, <3>1, PlaceAdded
    <3>3. QED
      BY <1>3, <3>2 DEF Descends
  <2>2. ASSUME places' = places \o <<"modal", "handle">> PROVE OneTask'
    <3> DEFINE q == Append(places, "modal")
    <3>1. "modal" \in Place /\ "handle" \in Place
      BY DEF Place, OuterPlaces, InnerPlaces
    <3>2. places' = Append(q, "handle")
      BY <1>1, <2>2, <3>1, Pushed
    <3>3. q \in Seq(Place) /\ (NoTask(places) => NoTask(q)) /\ AtMostOne(q)
      BY <1>1, <3>1, PlaceAdded
    <3> HIDE DEF q
    <3>4. (NoTask(places) => NoTask(places')) /\ AtMostOne(places')
      BY <3>1, <3>2, <3>3, PlaceAdded
    <3>5. QED
      BY <1>3, <3>4 DEF Descends
  <2>3. QED
    BY <1>3, <2>1, <2>2 DEF Descends
<1>4. CASE Returns
  <2>1. places # <<>>
    BY <1>4 DEF Returns, Nesting
  <2>2. pumpPc' = places[Len(places)] /\ places' = SubSeq(places, 1, Len(places) - 1)
    BY <1>4 DEF Returns, W!Return, W!Last, W!Front
  <2>3. /\ NoTask(places) => NoTask(places') /\ pumpPc' # "task"
        /\ AtMostOne(places') /\ (pumpPc' = "task" => NoTask(places'))
    BY <1>1, <2>1, <2>2, PlaceLeft
  <2>4. QED
    BY <1>4, <2>3 DEF Returns
<1>5. CASE Begins
  <2>1. NoTask(places) /\ task' # Null
    BY <1>5 DEF Begins
  <2>2. ASSUME NEW a \in {"delayed", "resched", "settle", "rearm"},
               pumpPc' = "task", places' = places \o <<a>>
        PROVE  OneTask'
    <3>1. places' = Append(places, a) /\ a # "task" /\ a \in Place
      BY <1>1, <2>2, Pushed DEF Place, OuterPlaces, InnerPlaces
    <3>2. NoTask(places') /\ AtMostOne(places')
      BY <1>1, <2>1, <3>1, PlaceAdded
    <3>3. QED
      BY <2>1, <3>2
  <2>3. ASSUME NEW a \in {"delayed", "resched", "settle", "rearm"},
               pumpPc' = "modal", places' = places \o <<a, "task">>
        PROVE  OneTask'
    <3> DEFINE q == Append(places, a)
    <3>1. a # "task" /\ a \in Place /\ "task" \in Place
      BY DEF Place, OuterPlaces, InnerPlaces
    <3>2. places' = Append(q, "task")
      BY <1>1, <2>3, <3>1, Pushed
    <3>3. q \in Seq(Place) /\ NoTask(q)
      BY <1>1, <2>1, <3>1, PlaceAdded
    <3> HIDE DEF q
    <3>4. AtMostOne(places')
      BY <3>1, <3>2, <3>3, PlaceAdded
    <3>5. QED
      BY <2>1, <2>3, <3>4
  <2>4. QED
    BY <1>5, <2>2, <2>3 DEF Begins
<1>6. QED
  BY <1>2, <1>3, <1>4, <1>5

\* What is queued, runs and has run was posted.
Queued == [task : posted, due : Nat]
LoopTypes ==
    /\ posted \subseteq Task /\ ran \subseteq posted /\ task \in posted \cup {Null}
    /\ incomingQueue \in Seq(Queued) /\ work_queue \in Seq(Queued)
    /\ delayedWorkQueue \subseteq Queued

LEMMA SeqGrows ==
    ASSUME NEW Elem, NEW G, Elem \subseteq G, NEW q \in Seq(Elem)
    PROVE  q \in Seq(G)
BY ElementOfSeq, SeqWithin

\* The queue of delayed tasks has a first one.
LEMMA FirstIsDelayed ==
    ASSUME NEW D, NEW P, D \subseteq [task : P, due : Nat], D # {}
    PROVE  (CHOOSE x \in D : \A y \in D : x.due <= y.due) \in D
<1> DEFINE dues == {x.due : x \in D}
<1>1. dues \in SUBSET Nat /\ dues # {}
  OBVIOUS
<1>2. PICK m \in dues : \A n \in dues : ~ (<<n, m>> \in OpToRel(<, Nat))
  BY <1>1, WFMin, NatLessThanWellFounded
<1>3. PICK x \in D : x.due = m
  BY <1>2
<1>4. \A y \in D : x.due <= y.due
  <2> SUFFICES ASSUME NEW y \in D PROVE x.due <= y.due
    OBVIOUS
  <2>1. x.due \in Nat /\ y.due \in Nat /\ y.due \in dues
    OBVIOUS
  <2>2. ~ (y.due < x.due)
    BY <1>2, <1>3, <2>1 DEF OpToRel
  <2>3. QED
    BY <2>1, <2>2
<1>5. \E z \in D : \A y \in D : z.due <= y.due
  BY <1>4
<1>6. QED
  BY <1>5

\* The queues and the tasks change when a task is posted, moved or run.
LEMMA LoopMoves ==
    ASSUME W!Next \/ UNCHANGED pumpVars
    PROVE  \/ UNCHANGED <<W!loop, posted>>
           \/ W!ReturnTask \/ W!DoWorkReload \/ W!DoWorkDelay \/ W!DoWorkRun \/ W!DoDelayedRun
           \/ \E p \in Poster, t \in Task : W!Post(p, t)
<1>1. CASE \/ W!run \/ W!PeekUser \/ W!PeekTimer \/ W!PeekQuit \/ W!PeekNone \/ W!PeekWork
           \/ W!Reset \/ W!Again \/ W!Dispatch \/ W!Leave \/ W!Settle \/ W!waitForWork
  <2>1. UNCHANGED <<W!loop, posted>>
    BY <1>1 DEF W!run, W!PeekUser, W!PeekTimer, W!PeekQuit, W!PeekNone, W!PeekWork, W!Reset, W!Again,
            W!Dispatch, W!Leave, W!Settle, W!waitForWork, W!loop, W!world
  <2>2. QED
    BY <2>1
<1>2. CASE \/ W!DoWorkNothing \/ W!DoDelayedNothing \/ W!DoDelayedNotYet \/ W!Rearm \/ W!Resched
           \/ W!ModalWork \/ W!ModalTimer \/ W!ModalUser \/ W!ModalEnds \/ W!ForeignDispatch
  <2>1. UNCHANGED <<W!loop, posted>>
    BY <1>2 DEF W!DoWorkNothing, W!DoDelayedNothing, W!DoDelayedNotYet, W!Rearm, W!Resched,
            W!ModalWork, W!ModalTimer, W!ModalUser, W!ModalEnds, W!ForeignDispatch, W!loop, W!world
  <2>2. QED
    BY <2>1
<1>3. CASE \/ W!UserPosts \/ W!Tick \/ W!Rest \/ UNCHANGED pumpVars
           \/ \E p \in Poster : W!Scheduling(p)
  <2>1. UNCHANGED <<W!loop, posted>>
    BY <1>3 DEF W!UserPosts, W!Tick, W!Rest, W!Scheduling, W!Exchange, W!PostMessage, W!Undo, W!vars,
            W!loop, W!world, pumpVars
  <2>2. QED
    BY <2>1
<1>4. QED
  BY <1>1, <1>2, <1>3 DEF W!Next, W!Pump

\* The users and the clock.
World == now \in 1 .. MaxTime /\ users \in 0 .. MaxUser

LEMMA WorldKept ==
    ASSUME World, W!Next \/ UNCHANGED pumpVars
    PROVE  World'
<1>0. MaxTime \in Nat /\ MaxUser \in Nat
  BY ConstantsOK DEF ConstantsOK, W!ConstantsOK
<1>1. CASE \/ W!run \/ W!PeekUser \/ W!PeekTimer \/ W!PeekQuit \/ W!PeekNone \/ W!PeekWork
           \/ W!Reset \/ W!Again \/ W!Dispatch \/ W!Leave \/ W!Settle \/ W!waitForWork
  <2>1. UNCHANGED <<users, now>>
    BY <1>1 DEF W!run, W!PeekUser, W!PeekTimer, W!PeekQuit, W!PeekNone, W!PeekWork, W!Reset, W!Again,
            W!Dispatch, W!Leave, W!Settle, W!waitForWork, W!world
  <2>2. QED
    BY <2>1 DEF World
<1>2. CASE \/ W!DoWorkNothing \/ W!DoDelayedNothing \/ W!DoDelayedNotYet \/ W!Rearm \/ W!Resched
           \/ W!ModalWork \/ W!ModalTimer \/ W!ModalUser \/ W!ModalEnds \/ W!ForeignDispatch
  <2>1. UNCHANGED <<users, now>>
    BY <1>2 DEF W!DoWorkNothing, W!DoDelayedNothing, W!DoDelayedNotYet, W!Rearm, W!Resched,
            W!ModalWork, W!ModalTimer, W!ModalUser, W!ModalEnds, W!ForeignDispatch, W!world
  <2>2. QED
    BY <2>1 DEF World
<1>3. CASE \/ W!ReturnTask \/ W!DoWorkReload \/ W!DoWorkDelay \/ W!DoWorkRun \/ W!DoDelayedRun
           \/ W!Rest \/ UNCHANGED pumpVars
           \/ \E p \in Poster : W!Scheduling(p) \/ \E t \in Task : W!Post(p, t)
  <2>1. UNCHANGED <<users, now>>
    BY <1>3 DEF W!ReturnTask, W!DoWorkReload, W!DoWorkDelay, W!DoWorkRun, W!DoDelayedRun, W!Rest,
            W!Scheduling, W!Exchange, W!PostMessage, W!Undo, W!Post, W!vars, W!world, pumpVars
  <2>2. QED
    BY <2>1 DEF World
<1>4. CASE W!UserPosts \/ W!Tick
  <2>1. /\ users' = users \/ (users < MaxUser /\ users' = users + 1)
        /\ now' = now \/ (now < MaxTime /\ now' = now + 1)
    BY <1>4 DEF W!UserPosts, W!Tick
  <2>2. QED
    BY <1>0, <2>1 DEF World
<1>5. QED
  BY <1>1, <1>2, <1>3, <1>4 DEF W!Next, W!Pump

LEMMA LoopTypesKept ==
    ASSUME LoopTypes, OneTask, World, W!Next \/ UNCHANGED pumpVars
    PROVE  LoopTypes' /\ (Begins => task' # Null)
<1> USE DEF LoopTypes
<1>0. Null \notin Task /\ Delay \in [Task -> Nat] /\ now \in Nat
  BY ConstantsOK DEF ConstantsOK, W!ConstantsOK, World
<1>1. CASE UNCHANGED <<W!loop, posted>>
  <2>1. LoopTypes'
    BY <1>1 DEF W!loop, Queued
  <2>2. Begins => task' # Null
    <3>1. CASE W!DoWorkRun
      <4>1. work_queue # <<>> /\ work_queue' = Tail(work_queue) /\ work_queue' = work_queue
        BY <1>1, <3>1 DEF W!DoWorkRun, W!loop
      <4>2. Len(Tail(work_queue)) = Len(work_queue) - 1 /\ Len(work_queue) \in Nat
        BY <4>1, HeadTailProperties, LenProperties
      <4>3. QED
        BY <4>1, <4>2
    <3>2. CASE W!DoDelayedRun
      <4>1. /\ delayedWorkQueue # {} /\ delayedWorkQueue' = delayedWorkQueue
            /\ delayedWorkQueue' = delayedWorkQueue \ {W!Earliest}
        BY <1>1, <3>2 DEF W!DoDelayedRun, W!loop
      <4>2. W!Earliest \in delayedWorkQueue
        BY <4>1, FirstIsDelayed DEF W!Earliest, Queued
      <4>3. QED
        BY <4>1, <4>2
    <3>3. QED
      BY <3>1, <3>2 DEF Begins
  <2>3. QED
    BY <2>1, <2>2
<1>2. CASE W!ReturnTask
  <2>1. /\ pumpPc = "task" /\ task' = Null /\ ran' = ran \cup {task}
        /\ UNCHANGED <<incomingQueue, work_queue, delayedWorkQueue, posted>>
    BY <1>2 DEF W!ReturnTask, W!world
  <2>2. task \in posted
    BY <2>1 DEF OneTask
  <2>3. QED
    BY <2>1, <2>2 DEF Queued, Begins
<1>3. CASE W!DoWorkReload
  <2>1. /\ work_queue' = incomingQueue /\ incomingQueue' = <<>>
        /\ UNCHANGED <<delayedWorkQueue, task, ran, posted, pumpPc, places>>
    BY <1>3 DEF W!DoWorkReload, W!world, W!control
  <2>2. <<>> \in Seq(Queued)
    BY EmptySeq
  <2>3. pumpPc' \notin {"task", "modal"}
    BY <1>3, <2>1 DEF W!DoWorkReload, W!InDoWork
  <2>4. QED
    BY <2>1, <2>2, <2>3 DEF Queued, Begins
<1>4. CASE W!DoWorkDelay
  <2>1. /\ work_queue # <<>> /\ work_queue' = Tail(work_queue)
        /\ delayedWorkQueue' = delayedWorkQueue \cup {Head(work_queue)}
        /\ UNCHANGED <<incomingQueue, task, ran, posted, pumpPc>>
    BY <1>4 DEF W!DoWorkDelay, W!world, W!control
  <2>2. Head(work_queue) \in Queued /\ Tail(work_queue) \in Seq(Queued)
    BY <2>1, HeadTailProperties
  <2>3. pumpPc' \notin {"task", "modal"}
    BY <1>4, <2>1 DEF W!DoWorkDelay, W!InDoWork
  <2>4. QED
    BY <2>1, <2>2, <2>3 DEF Queued, Begins
<1>5. CASE W!DoWorkRun
  <2>1. /\ work_queue # <<>> /\ work_queue' = Tail(work_queue) /\ task' = Head(work_queue).task
        /\ UNCHANGED <<incomingQueue, delayedWorkQueue, ran, posted>>
    BY <1>5 DEF W!DoWorkRun, W!runTask, W!world
  <2>2. Head(work_queue) \in Queued /\ Tail(work_queue) \in Seq(Queued)
    BY <2>1, HeadTailProperties
  <2>3. task' \in posted
    BY <2>1, <2>2 DEF Queued
  <2>4. QED
    BY <1>0, <2>1, <2>2, <2>3 DEF Queued
<1>6. CASE W!DoDelayedRun
  <2>1. /\ delayedWorkQueue # {} /\ delayedWorkQueue' = delayedWorkQueue \ {W!Earliest}
        /\ task' = W!Earliest.task /\ UNCHANGED <<incomingQueue, work_queue, ran, posted>>
    BY <1>6 DEF W!DoDelayedRun, W!runTask, W!world
  <2>2. W!Earliest \in delayedWorkQueue
    BY <2>1, FirstIsDelayed DEF W!Earliest, Queued
  <2>3. task' \in posted
    BY <2>1, <2>2 DEF Queued
  <2>4. QED
    BY <1>0, <2>1, <2>3 DEF Queued
<1>7. ASSUME NEW p \in Poster, NEW t \in Task, W!Post(p, t)
      PROVE  LoopTypes' /\ (Begins => task' # Null)
  <2> DEFINE item == [task |-> t, due |-> IF Delay[t] = 0 THEN 0 ELSE now + Delay[t]]
  <2>1. /\ posted' = posted \cup {t} /\ incomingQueue' = Append(incomingQueue, item)
        /\ UNCHANGED <<work_queue, delayedWorkQueue, task, ran, work_queue>>
    BY <1>7 DEF W!Post
  <2>2. Queued \subseteq Queued' /\ item \in Queued'
    <3>1. Delay[t] \in Nat
      BY <1>0
    <3>2. (IF Delay[t] = 0 THEN 0 ELSE now + Delay[t]) \in Nat
      BY <1>0, <3>1
    <3>3. QED
      BY <2>1, <3>2 DEF Queued
  <2>3. incomingQueue \in Seq(Queued') /\ work_queue \in Seq(Queued')
    BY <2>2, SeqGrows
  <2>4. Append(incomingQueue, item) \in Seq(Queued')
    BY <2>2, <2>3, AppendProperties
  <2> HIDE DEF item
  <2>5. LoopTypes'
    BY <2>1, <2>2, <2>3, <2>4 DEF Queued
  <2>6. ~Begins
    <3>1. UNCHANGED <<work_queue, delayedWorkQueue, pumpPc>>
      BY <1>7 DEF W!Post, W!control
    <3>2. QED
      BY <1>7, <2>1, <3>1 DEF W!Post, W!control, Begins, W!DoWorkRun, W!InDoWork, W!DoDelayedRun, W!InDoDelayed
  <2>7. QED
    BY <2>5, <2>6
<1>8. QED
  BY <1>1, <1>2, <1>3, <1>4, <1>5, <1>6, <1>7, LoopMoves

\* The moments for which the pump waits.
Moments == delayedWorkTime \in Nat /\ timer \in Nat

LEMMA MomentsKept ==
    ASSUME Moments, LoopTypes, World, W!Next \/ UNCHANGED pumpVars
    PROVE  Moments'
<1> USE DEF Moments
<1>0. now \in Nat
  BY ConstantsOK DEF ConstantsOK, W!ConstantsOK, World
<1>1. CASE \/ W!run \/ W!PeekUser \/ W!PeekTimer \/ W!PeekQuit \/ W!PeekNone \/ W!PeekWork
           \/ W!Reset \/ W!Again \/ W!Dispatch \/ W!Leave \/ W!waitForWork
  <2>1. UNCHANGED <<delayedWorkTime, timer>>
    BY <1>1 DEF W!run, W!PeekUser, W!PeekTimer, W!PeekQuit, W!PeekNone, W!PeekWork, W!Reset, W!Again,
            W!Dispatch, W!Leave, W!waitForWork, W!Taken, W!Replace, W!pump, W!system
  <2>2. QED
    BY <2>1
<1>2. CASE \/ W!DoWorkNothing \/ W!Resched \/ W!DoWorkReload \/ W!DoWorkRun \/ W!ReturnTask
           \/ W!ModalWork \/ W!ModalTimer \/ W!ModalUser \/ W!ModalEnds \/ W!ForeignDispatch
  <2>1. UNCHANGED <<delayedWorkTime, timer>>
    BY <1>2 DEF W!DoWorkNothing, W!Resched, W!DoWorkReload, W!DoWorkRun, W!ReturnTask, W!ModalWork,
            W!ModalTimer, W!ModalUser, W!ModalEnds, W!ForeignDispatch, W!Taken, W!Replace, W!pump,
            W!system
  <2>2. QED
    BY <2>1
<1>3. CASE \/ W!UserPosts \/ W!Tick \/ W!Rest \/ UNCHANGED pumpVars
           \/ \E p \in Poster : W!Scheduling(p) \/ \E t \in Task : W!Post(p, t)
  <2>1. UNCHANGED <<delayedWorkTime, timer>>
    BY <1>3 DEF W!UserPosts, W!Tick, W!Rest, W!Scheduling, W!Exchange, W!PostMessage, W!Undo, W!Post,
            W!vars, W!pump, W!system, pumpVars
  <2>2. QED
    BY <2>1
<1>4. CASE W!Settle
  <2>1. delayedWorkTime' = delayedWorkTime /\ timer' \in {0, timer}
    BY <1>4 DEF W!Settle, W!pump
  <2>2. QED
    BY <2>1
<1>5. ASSUME NEW time \in Nat, W!scheduleDelayedWork(time) PROVE Moments'
  BY <1>0, <1>5 DEF W!scheduleDelayedWork
<1>6. CASE W!DoWorkDelay
  <2>1. Head(work_queue) \in Queued
    BY <1>6, HeadTailProperties DEF W!DoWorkDelay, LoopTypes
  <2>2. \/ W!scheduleDelayedWork(Head(work_queue).due)
        \/ UNCHANGED <<delayedWorkTime, timer>>
    BY <1>6 DEF W!DoWorkDelay
  <2>3. Head(work_queue).due \in Nat
    BY <2>1 DEF Queued
  <2>4. QED
    BY <1>5, <2>2, <2>3
<1>7. CASE W!Rearm
  <2>1. W!scheduleDelayedWork(delayedWorkTime) \/ UNCHANGED <<delayedWorkTime, timer>>
    BY <1>7 DEF W!Rearm
  <2>2. QED
    BY <1>5, <2>1
<1>8. CASE W!DoDelayedNothing \/ W!DoDelayedNotYet \/ W!DoDelayedRun
  <2>1. timer' \in {0, timer}
    BY <1>8 DEF W!DoDelayedNothing, W!DoDelayedNotYet, W!DoDelayedRun, W!TimerHeard
  <2>2. ASSUME delayedWorkQueue # {} PROVE W!Earliest.due \in Nat
    <3>1. W!Earliest \in Queued
      BY <2>2, FirstIsDelayed DEF LoopTypes, Queued, W!Earliest
    <3>2. QED
      BY <3>1 DEF Queued
  <2>3. CASE W!DoDelayedNothing \/ W!DoDelayedNotYet
    <3>1. delayedWorkTime' \in Nat
      BY <2>2, <2>3 DEF W!DoDelayedNothing, W!DoDelayedNotYet
    <3>2. QED
      BY <2>1, <3>1
  <2>4. CASE W!DoDelayedRun
    <3> DEFINE rest == delayedWorkQueue \ {W!Earliest}
               next == CHOOSE x \in rest : \A y \in rest : x.due <= y.due
    <3>1. delayedWorkTime' = IF rest = {} THEN delayedWorkTime ELSE next.due
      BY <2>4 DEF W!DoDelayedRun
    <3>2. rest \subseteq [task : posted, due : Nat]
      BY DEF LoopTypes, Queued
    <3> HIDE DEF rest
    <3>3. rest # {} => next \in rest
      BY <3>2, FirstIsDelayed
    <3> HIDE DEF next
    <3>4. rest # {} => next.due \in Nat
      BY <3>2, <3>3
    <3>5. delayedWorkTime' \in Nat
      BY <3>1, <3>4
    <3>6. QED
      BY <2>1, <3>5
  <2>5. QED
    BY <1>8, <2>3, <2>4
<1>9. QED
  BY <1>1, <1>2, <1>3, <1>4, <1>6, <1>7, <1>8 DEF W!Next, W!Pump

\* No message is posted to a full queue.
Room == Len(queue) <= Capacity

LEMMA RoomKept ==
    ASSUME Room, PumpTypes, W!Next \/ UNCHANGED pumpVars
    PROVE  Room'
<1>0. Len(queue) \in Nat /\ Capacity \in Nat /\ queue \in Seq({"work", "user"})
  BY ConstantsOK, LenProperties DEF ConstantsOK, W!ConstantsOK, PumpTypes
<1>1. CASE UNCHANGED queue
  BY <1>1 DEF Room
<1>2. ASSUME Len(queue) < Capacity, NEW m \in {"work", "user"}, queue' = Append(queue, m)
      PROVE  Room'
  <2>1. Len(queue') = Len(queue) + 1
    BY <1>0, <1>2, AppendProperties
  <2>2. QED
    BY <1>0, <1>2, <2>1 DEF Room
<1>3. ASSUME NEW q \in Seq({"work", "user"}), q # <<>>
      PROVE  Len(Tail(q)) = Len(q) - 1 /\ Len(q) \in Nat /\ Tail(q) \in Seq({"work", "user"})
  BY <1>3, HeadTailProperties, LenProperties
<1>4. ASSUME queue # <<>>, \/ queue' = Tail(queue)
                           \/ queue' = Tail(Tail(queue)) /\ Tail(queue) # <<>>
      PROVE  Room'
  <2>1. Len(Tail(queue)) = Len(queue) - 1 /\ Tail(queue) \in Seq({"work", "user"})
    BY <1>0, <1>3, <1>4
  <2>2. Len(queue') <= Len(queue)
    BY <1>0, <1>3, <1>4, <2>1
  <2>3. Len(queue') \in Int
    BY <1>0, <1>3, <1>4, <2>1
  <2>4. QED
    BY <1>0, <2>2, <2>3 DEF Room
<1>5. CASE \/ W!run \/ W!PeekQuit \/ W!PeekNone \/ W!Reset \/ W!Dispatch \/ W!Leave \/ W!Settle
           \/ W!waitForWork \/ W!ReturnTask \/ W!DoWorkNothing \/ W!DoWorkReload \/ W!DoWorkDelay
  <2>1. UNCHANGED queue
    BY <1>5 DEF W!run, W!PeekQuit, W!PeekNone, W!Reset, W!Dispatch, W!Leave, W!Settle, W!waitForWork,
            W!ReturnTask, W!DoWorkNothing, W!DoWorkReload, W!DoWorkDelay, W!system
  <2>2. QED
    BY <1>1, <2>1
<1>6. CASE \/ W!DoWorkRun \/ W!DoDelayedNothing \/ W!DoDelayedNotYet \/ W!DoDelayedRun \/ W!Rearm
           \/ W!ModalEnds \/ W!Tick \/ W!Rest \/ UNCHANGED pumpVars
           \/ \E p \in Poster : W!Exchange(p) \/ W!Undo(p) \/ \E t \in Task : W!Post(p, t)
  <2>1. UNCHANGED queue
    BY <1>6 DEF W!DoWorkRun, W!DoDelayedNothing, W!DoDelayedNotYet, W!DoDelayedRun, W!Rearm,
            W!ModalEnds, W!Tick, W!Rest, W!Exchange, W!Undo, W!Post, W!vars, W!system, pumpVars
  <2>2. QED
    BY <1>1, <2>1
<1>7. CASE \/ W!PeekUser \/ W!PeekTimer \/ W!ModalTimer \/ W!ModalUser \/ W!ForeignDispatch
  <2>1. W!Taken
    BY <1>7 DEF W!PeekUser, W!PeekTimer, W!ModalTimer, W!ModalUser, W!ForeignDispatch
  <2>2. QED
    BY <1>1, <1>4, <2>1 DEF W!Taken
<1>8. CASE W!PeekWork \/ W!ModalWork
  <2>1. W!Message = "work" /\ queue' = IF Tail(queue) = <<>> THEN Tail(queue) ELSE Tail(Tail(queue))
    BY <1>8 DEF W!PeekWork, W!ModalWork, W!Replace
  <2>2. queue # <<>>
    BY <2>1, MessageIs
  <2>3. QED
    BY <1>4, <2>1, <2>2
<1>9. CASE \/ W!Again \/ W!Resched \/ W!UserPosts \/ \E p \in Poster : W!PostMessage(p)
  <2>1. \/ UNCHANGED queue
        \/ Len(queue) < Capacity /\ \E m \in {"work", "user"} : queue' = Append(queue, m)
    BY <1>9 DEF W!Again, W!Resched, W!UserPosts, W!PostMessage, W!scheduleWork
  <2>2. QED
    BY <1>1, <1>2, <2>1
<1>10. QED
  BY <1>5, <1>6, <1>7, <1>8, <1>9 DEF W!Next, W!Pump, W!Scheduling

\* What the pump knows of quits, of more work and of refusals.
Signals ==
    should_quit \in BOOLEAN /\ wmQuit \in BOOLEAN /\ more \in BOOLEAN /\ refused \in BOOLEAN

LEMMA SignalsKept ==
    ASSUME Signals, W!Next \/ UNCHANGED pumpVars
    PROVE  Signals'
<1>1. CASE UNCHANGED <<should_quit, wmQuit, more, refused>>
  BY <1>1 DEF Signals
<1>2. CASE \/ W!run \/ W!Leave \/ W!Settle \/ W!waitForWork \/ W!DoWorkNothing \/ W!DoWorkReload
           \/ W!DoWorkDelay \/ W!DoWorkRun \/ W!DoDelayedNothing \/ W!DoDelayedNotYet
           \/ W!DoDelayedRun
  <2>1. UNCHANGED <<should_quit, wmQuit, more, refused>>
    BY <1>2 DEF W!run, W!Leave, W!Settle, W!waitForWork, W!DoWorkNothing, W!DoWorkReload,
            W!DoWorkDelay, W!DoWorkRun, W!DoDelayedNothing, W!DoDelayedNotYet, W!DoDelayedRun,
            W!pump, W!system, W!control
  <2>2. QED
    BY <1>1, <2>1
<1>3. CASE \/ W!Rearm \/ W!ModalEnds \/ W!Tick \/ W!Rest \/ UNCHANGED pumpVars
           \/ \E p \in Poster : W!Exchange(p) \/ W!Undo(p) \/ \E t \in Task : W!Post(p, t)
  <2>1. UNCHANGED <<should_quit, wmQuit, more, refused>>
    BY <1>3 DEF W!Rearm, W!ModalEnds, W!Tick, W!Rest, W!Exchange, W!Undo, W!Post, W!vars, W!pump,
            W!system, W!control, pumpVars
  <2>2. QED
    BY <1>1, <2>1
<1>4. CASE \/ W!PeekUser \/ W!PeekTimer \/ W!PeekWork \/ W!ModalWork \/ W!ModalTimer \/ W!ModalUser
           \/ W!ForeignDispatch
  <2>1. /\ UNCHANGED <<should_quit, refused>>
        /\ more' = TRUE \/ UNCHANGED more
    BY <1>4 DEF W!PeekUser, W!PeekTimer, W!PeekWork, W!ModalWork, W!ModalTimer, W!ModalUser,
            W!ForeignDispatch, W!pump, W!control
  <2>2. \E q : wmQuit' = (wmQuit /\ q # <<>>)
    <3>1. W!Taken \/ \E places_ : W!Replace(Tail(queue), places_)
      BY <1>4 DEF W!PeekUser, W!PeekTimer, W!PeekWork, W!ModalWork, W!ModalTimer, W!ModalUser,
              W!ForeignDispatch
    <3>2. QED
      BY <3>1, Zenon DEF W!Taken, W!Replace
  <2>3. wmQuit' \in BOOLEAN
    BY <2>2, Zenon
  <2>4. more' \in BOOLEAN
    BY <2>1, Zenon DEF Signals
  <2>5. should_quit' \in BOOLEAN /\ refused' \in BOOLEAN
    BY <2>1 DEF Signals
  <2>6. QED
    BY <2>3, <2>4, <2>5, Zenon DEF Signals
<1>5. CASE W!PeekQuit \/ W!PeekNone \/ W!Reset
  <2>1. /\ UNCHANGED <<wmQuit, refused>>
        /\ should_quit' = TRUE \/ UNCHANGED should_quit
        /\ more' = FALSE \/ UNCHANGED more
    BY <1>5 DEF W!PeekQuit, W!PeekNone, W!Reset, W!Tell, W!pump, W!system
  <2>2. QED
    BY <2>1, Zenon DEF Signals
<1>6. CASE W!Dispatch
  <2>1. /\ UNCHANGED refused /\ W!Tell(held # "quit")
        /\ should_quit' = (should_quit \/ held = "quit") /\ wmQuit' = (wmQuit \/ held = "quit")
    BY <1>6, Zenon DEF W!Dispatch
  <2>2. more' = (held # "quit") \/ UNCHANGED more
    BY <2>1, Zenon DEF W!Tell
  <2>3. QED
    BY <2>1, <2>2, Zenon DEF Signals
<1>7. CASE W!ReturnTask
  <2>1. /\ UNCHANGED refused /\ W!Tell(TRUE) /\ UNCHANGED W!system
        /\ should_quit' = (should_quit \/ task \in Quitter)
    BY <1>7, Zenon DEF W!ReturnTask
  <2>2. UNCHANGED wmQuit
    BY <2>1 DEF W!system
  <2>3. more' = TRUE \/ UNCHANGED more
    BY <2>1, Zenon DEF W!Tell
  <2>4. QED
    BY <2>1, <2>2, <2>3, Zenon DEF Signals
<1>8. CASE W!Again \/ W!Resched \/ W!UserPosts \/ \E p \in Poster : W!PostMessage(p)
  <2>1. /\ UNCHANGED <<should_quit, more>>
        /\ wmQuit' = TRUE \/ UNCHANGED wmQuit
        /\ refused' = TRUE \/ UNCHANGED refused
    BY <1>8 DEF W!Again, W!Resched, W!UserPosts, W!PostMessage, W!scheduleWork, W!pump, W!control
  <2>2. QED
    BY <2>1, Zenon DEF Signals
<1>9. QED
  BY <1>2, <1>3, <1>4, <1>5, <1>6, <1>7, <1>8 DEF W!Next, W!Pump, W!Scheduling

\* The message that replaces kMsgHaveWork.
HeldMessage == held \in {"none", "work", "user", "timer", "quit"}

LEMMA HeldKept ==
    ASSUME HeldMessage, PumpTypes, W!Next \/ UNCHANGED pumpVars
    PROVE  HeldMessage'
<1> USE DEF HeldMessage
<1>1. CASE \/ W!run \/ W!PeekUser \/ W!PeekTimer \/ W!PeekQuit \/ W!PeekNone \/ W!Reset \/ W!Again
           \/ W!Leave \/ W!Settle \/ W!waitForWork \/ W!ReturnTask
  <2>1. UNCHANGED held
    BY <1>1 DEF W!run, W!PeekUser, W!PeekTimer, W!PeekQuit, W!PeekNone, W!Reset, W!Again, W!Leave,
            W!Settle, W!waitForWork, W!ReturnTask
  <2>2. QED
    BY <2>1
<1>2. CASE \/ W!DoWorkNothing \/ W!DoWorkReload \/ W!DoWorkDelay \/ W!DoWorkRun \/ W!DoDelayedNothing
           \/ W!DoDelayedNotYet \/ W!DoDelayedRun \/ W!Rearm \/ W!Resched \/ W!ModalTimer
           \/ W!ModalUser \/ W!ModalEnds \/ W!ForeignDispatch
  <2>1. UNCHANGED held
    BY <1>2 DEF W!DoWorkNothing, W!DoWorkReload, W!DoWorkDelay, W!DoWorkRun, W!DoDelayedNothing,
            W!DoDelayedNotYet, W!DoDelayedRun, W!Rearm, W!Resched, W!ModalTimer, W!ModalUser,
            W!ModalEnds, W!ForeignDispatch, W!control
  <2>2. QED
    BY <2>1
<1>3. CASE \/ W!UserPosts \/ W!Tick \/ W!Rest \/ UNCHANGED pumpVars
           \/ \E p \in Poster : W!Scheduling(p) \/ \E t \in Task : W!Post(p, t)
  <2>1. UNCHANGED held
    BY <1>3 DEF W!UserPosts, W!Tick, W!Rest, W!Scheduling, W!Exchange, W!PostMessage, W!Undo, W!Post,
            W!vars, W!control, pumpVars
  <2>2. QED
    BY <2>1
<1>4. CASE W!Dispatch
  BY <1>4 DEF W!Dispatch
<1>5. CASE W!PeekWork \/ W!ModalWork
  <2> DEFINE rest == Tail(queue)
  <2>1. /\ W!Message = "work"
        /\ \/ rest # <<>> /\ held' = Head(rest)
           \/ held' \in {"quit", "timer", "none"}
    BY <1>5 DEF W!PeekWork, W!ModalWork, W!Replace
  <2>2. rest \in Seq({"work", "user"})
    BY <2>1, MessageIs, TailWorks DEF PumpTypes
  <2> HIDE DEF rest
  <2>3. rest # <<>> => Head(rest) \in {"work", "user"}
    BY <2>2, TailWorks
  <2>4. QED
    BY <2>1, <2>3
<1>6. QED
  BY <1>1, <1>2, <1>3, <1>4, <1>5 DEF W!Next, W!Pump

LEMMA PumpTypesHold == Spec => []W!TypeOK
<1> DEFINE Types == OneTask /\ LoopTypes /\ World /\ Moments /\ Room /\ Signals /\ HeldMessage
<1>1. Init => Types
  <2> SUFFICES ASSUME W!Init PROVE Types
    BY DEF Init
  <2>0. MaxTime \in Nat \ {0} /\ MaxUser \in Nat /\ Capacity \in Nat
    BY ConstantsOK DEF ConstantsOK, W!ConstantsOK
  <2>1. /\ places = <<>> /\ pumpPc = "foreign" /\ task = Null /\ ran = {} /\ posted = {}
        /\ incomingQueue = <<>> /\ work_queue = <<>> /\ delayedWorkQueue = {}
        /\ queue = <<>> /\ held = "none"
    BY DEF W!Init
  <2>2. delayedWorkTime = 0 /\ timer = 0 /\ users = 0 /\ now = 1
    BY DEF W!Init
  <2>3. Signals
    BY DEF W!Init, Signals
  <2>4. OneTask
    <3>1. DOMAIN places = {}
      BY <2>1
    <3>2. QED
      BY <2>1, <3>1 DEF OneTask, NoTask, AtMostOne
  <2>5. LoopTypes
    <3>1. <<>> \in Seq(Queued)
      BY EmptySeq
    <3>2. QED
      BY <2>1, <3>1 DEF LoopTypes
  <2>6. World /\ Moments
    BY <2>0, <2>2 DEF World, Moments
  <2>7. Room /\ HeldMessage
    <3>1. Len(queue) = 0
      BY <2>1
    <3>2. QED
      BY <2>0, <2>1, <3>1 DEF Room, HeldMessage
  <2>8. QED
    BY <2>3, <2>4, <2>5, <2>6, <2>7
<1>2. PumpInv /\ Types /\ [Next]_vars => Types'
  <2> SUFFICES ASSUME PumpInv, Types, [Next]_vars PROVE Types'
    OBVIOUS
  <2>1. W!Next \/ UNCHANGED pumpVars
    BY Alone
  <2>2. PumpTypes /\ Nesting
    BY DEF PumpInv
  <2>3. LoopTypes' /\ OneTask'
    BY <2>1, <2>2, LoopTypesKept, OneTaskKept, PumpMoves
  <2>4. QED
    BY <2>1, <2>2, <2>3, WorldKept, MomentsKept, RoomKept, SignalsKept, HeldKept
<1>3. PumpInv /\ Types => W!TypeOK
  <2> SUFFICES ASSUME PumpInv, Types PROVE W!TypeOK
    OBVIOUS
  <2>1. PumpTypes
    BY DEF PumpInv
  <2>2. posted \subseteq Task /\ Queued \subseteq W!Item
    BY DEF LoopTypes, Queued, W!Item
  <2>3. incomingQueue \in Seq(W!Item) /\ work_queue \in Seq(W!Item)
    BY <2>2, SeqGrows DEF LoopTypes
  <2>4. /\ {incomingQueue, work_queue} \subseteq Seq(W!Item) /\ delayedWorkQueue \subseteq W!Item
        /\ task \in Task \cup {Null} /\ ran \subseteq posted /\ posted \subseteq Task
    BY <2>2, <2>3 DEF LoopTypes
  <2>5. W!ToSet(places) \subseteq
          {"work", "delayed", "settle", "handle", "resched", "rearm", "modal", "task"}
    <3>1. \A i \in DOMAIN places : places[i] \in OuterPlaces \cup InnerPlaces
      BY <2>1, LastIn DEF PumpTypes
    <3>2. QED
      BY <3>1 DEF W!ToSet, OuterPlaces, InnerPlaces
  <2>6. /\ workState \in {W!READY, W!HAVE_WORK} /\ queue \in Seq({"work", "user"})
        /\ pumpPc \in {"foreign", "peek", "work", "delayed", "settle", "wait", "reset", "again",
                       "dispatch", "handle", "resched", "timer", "rearm", "modal", "task", "left"}
        /\ post \in [Poster -> {"idle", "exchange", "post", "undo"}]
    BY <2>1 DEF PumpTypes, W!READY, W!HAVE_WORK, TopPlaces, DeepPlaces, OuterPlaces, InnerPlaces
  <2>7. /\ delayedWorkTime \in Nat /\ timer \in Nat /\ Len(queue) <= Capacity
        /\ users \in 0 .. MaxUser /\ now \in 1 .. MaxTime
        /\ held \in {"none", "work", "user", "timer", "quit"}
    BY DEF Moments, Room, World, HeldMessage
  <2>8. /\ should_quit \in BOOLEAN /\ wmQuit \in BOOLEAN /\ more \in BOOLEAN /\ refused \in BOOLEAN
    BY Zenon DEF Signals
  <2>9. QED
    BY <2>4, <2>5, <2>6, <2>7, <2>8, Zenon DEF W!TypeOK
<1> HIDE DEF Types
<1>4. QED
  BY <1>1, <1>2, <1>3, PumpHolds, Safety, PTL

\* Whichever component is the subject.
Subjects ==
    {"event", "thread", "at exit", "process", "programs", "log", "pump", "http", "service",
     "registry", "timer"}

\* The state of every component that is run keeps its type, for any number of
\* callers, streams, singletons, programs, messages, posters, requests and tools.
THEOREM TypeCorrect == Spec => []TypeOK
<1>1. Init => subject \in Subjects
  BY DEF Init, Subjects
<1>2. subject \in Subjects /\ [Next]_vars => (subject \in Subjects)'
  BY DEF Next, vars, EventStep, ThreadStep, AtExitStep, ProcessStep, ProgramStep, LogStep, PumpStep,
         HttpStep, ServiceStep, WatchStep, TimerStep
<1> DEFINE All ==
      /\ E!TypeOK /\ T!TypeOK /\ A!TypeOK /\ C!TypeOK /\ S!TypeOK /\ L!TypeOK /\ W!TypeOK
      /\ H!TypeOK /\ V!TypeOK /\ R!TypeOK /\ I!TypeOK
<1>3. subject \in Subjects /\ All => TypeOK
  BY DEF Subjects, TypeOK
<1>4. Spec => []All
  BY EventTypes, ThreadTypes, ExitTypesHold, ProcessTypes, ProgramTypesHold, LogTypesHold,
     PumpTypesHold, HttpTypesHold, ServiceTypes, WatchTypes, TimerTypes, PTL
<1> HIDE DEF All
<1>5. QED
  BY <1>1, <1>2, <1>3, <1>4, Safety, PTL
=============================================================================
