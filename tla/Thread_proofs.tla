---------------------------- MODULE Thread_proofs ----------------------------
(***************************************************************************)
(* Thread for any number of starts: what is left of a stopped thread, that *)
(* start returns to a thread that is set up, and that stopSoon calls       *)
(* postTask through a pointer that is set, as long as the thread is ended  *)
(* in one way at a time.                                                   *)
(***************************************************************************)
EXTENDS Thread, TLAPS

\* Only one of the three ways of ending the thread is used, and nobody ends
\* it while start is under way.
OneWay == ~Eager /\ \A u \in Usages : \E e \in Ends : u \subseteq {e}

InStart == {"waiting", "woken", "started"}
InStopSoon == {"check", "mark", "post", "wake"}

\* running_ lasts from before the notify to the end of run, and a STOPPED
\* object has no thread.
Reset ==
    /\ running <=> main \in {"notify", "looping"}
    /\ state = "STOPPED" => main \in {"none", "exited"}

\* The thread leaves run only for a quit task, which dies with the loop; it
\* comes from stopSoon, which has marked the object, or from the helper.
QuitHasAuthor ==
    /\ main \in {"none", "born", "exited"} => ~quits
    /\ main \in {"left", "cleaned", "unwinding"} => quits
    /\ quits => state = "STOPPING" \/ "helper quits" \in usage

\* Who may be inside stopSoon, and that nobody is while Owner starts.
EndsAreKept ==
    /\ pc[Owner] \in InStopSoon => "owner stops" \in usage
    /\ pc[Owner] \in InStart => state = "STARTING"
    /\ pc[Helper] # "idle" => /\ pc[Helper] \in InStopSoon
                              /\ "helper stops" \in usage
                              /\ pc[Owner] \notin InStart

\* Inside stopSoon, past its test, no quit is posted yet and the loop lives.
MarkedIsAlive ==
    \A c \in Caller :
        /\ pc[c] \in {"mark", "post"} => messageLoop /\ ~quits
        /\ pc[c] = "post" => state = "STOPPING"

IInv == TypeOK /\ Reset /\ QuitHasAuthor /\ EndsAreKept /\ MarkedIsAlive

LEMMA InitTypes == ASSUME ConstantsOK, Init PROVE TypeOK /\ Reset
<1>1. 0 \in 0 .. 0 /\ 0 \in 0 .. MaxStarts
  BY DEF ConstantsOK
<1>2. QED
  BY <1>1 DEF Init, TypeOK, Reset

LEMMA TypeStep ==
    ASSUME ConstantsOK, TypeOK, [Next]_vars PROVE TypeOK'
<1> USE DEF TypeOK, object, Goto, Caller
<1>1. ASSUME NEW b \in BOOLEAN, start(b) PROVE TypeOK'
  <2>1. starts + 1 \in 0 .. MaxStarts /\ 0 .. starts \subseteq 0 .. starts + 1
        /\ 0 \in 0 .. starts + 1 /\ starts + 1 \in 0 .. starts + 1
    BY <1>1 DEF start, ConstantsOK
  <2>2. QED
    BY <1>1, <2>1 DEF start
<1>2. CASE TestRunning \/ SpuriousWake \/ StartReturns
  <2>1. CASE TestRunning
    BY <2>1 DEF TestRunning
  <2>2. CASE SpuriousWake
    BY <2>2 DEF SpuriousWake
  <2>3. CASE StartReturns
    BY <2>3 DEF StartReturns
  <2>4. QED
    BY <1>2, <2>1, <2>2, <2>3
<1>3. ASSUME NEW c \in Caller, StopSoonChecks(c) PROVE TypeOK'
  BY <1>3 DEF StopSoonChecks, AfterStopSoon
<1>4. ASSUME NEW c \in Caller, StopSoonMarks(c) PROVE TypeOK'
  BY <1>4 DEF StopSoonMarks
<1>5. ASSUME NEW c \in Caller, StopSoonPosts(c) PROVE TypeOK'
  <2>1. /\ quits' = TRUE /\ UNCHANGED <<usage, object, main, starts, setUpFor>>
        /\ call' \in {call, "none"}
    BY <1>5 DEF StopSoonPosts, StopSoonReturns
  <2>2. \E place \in {"join", "idle", "wake"} : pc' = [pc EXCEPT ![c] = place]
    BY <1>5 DEF StopSoonPosts, StopSoonReturns, AfterStopSoon
  <2>3. QED
    BY <2>1, <2>2
<1>w. ASSUME NEW c \in Caller, StopSoonWakes(c) PROVE TypeOK'
  BY <1>w DEF StopSoonWakes, StopSoonReturns, AfterStopSoon
<1>6. CASE stopSoon \/ stop \/ join
  BY <1>6 DEF stopSoon, stop, join
<1>7. CASE Joined
  <2>1. 0 \in 0 .. starts
    BY DEF ConstantsOK
  <2>2. QED
    BY <1>7, <2>1 DEF Joined
<1>8. CASE HelperStops \/ HelperQuits
  <2>1. CASE HelperStops
    BY <2>1 DEF HelperStops, HelperMayAct
  <2>2. CASE HelperQuits
    BY <2>2 DEF HelperQuits, HelperMayAct
  <2>3. QED
    BY <1>8, <2>1, <2>2
<1>9. CASE BuildLoop \/ onBeforeThreadRunning \/ SetRunning \/ LeaveRun
           \/ onAfterThreadRunning \/ ResetLoop \/ Unwind
  <2>1. CASE BuildLoop \/ onBeforeThreadRunning \/ SetRunning
    BY <2>1 DEF BuildLoop, onBeforeThreadRunning, SetRunning
  <2>2. CASE LeaveRun \/ onAfterThreadRunning
    BY <2>2 DEF LeaveRun, onAfterThreadRunning
  <2>3. CASE ResetLoop \/ Unwind
    BY <2>3 DEF ResetLoop, Unwind
  <2>4. QED
    BY <1>9, <2>1, <2>2, <2>3
<1>10. CASE NotifyRunning
  BY <1>10 DEF NotifyRunning
<1>11. CASE Rest \/ UNCHANGED vars
  <2>1. UNCHANGED vars
    BY <1>11 DEF Rest
  <2>2. QED
    BY <2>1 DEF vars
<1>12. QED
  BY <1>1, <1>2, <1>3, <1>4, <1>5, <1>6, <1>7, <1>8, <1>9, <1>10, <1>11, <1>w
  DEF Next, ThreadStep, OwnerStep, StopSoonStep

LEMMA ResetStep ==
    ASSUME TypeOK, Reset, [Next]_vars PROVE Reset'
<1> USE DEF TypeOK, Reset, object
<1>1. ASSUME NEW b \in BOOLEAN, start(b) PROVE Reset'
  BY <1>1 DEF start
<1>2. CASE TestRunning \/ SpuriousWake \/ StartReturns
  BY <1>2 DEF TestRunning, SpuriousWake, StartReturns
<1>3. ASSUME NEW c \in Caller,
             StopSoonChecks(c) \/ StopSoonMarks(c) \/ StopSoonPosts(c) \/ StopSoonWakes(c)
      PROVE  Reset'
  BY <1>3 DEF StopSoonChecks, StopSoonMarks, StopSoonPosts, StopSoonWakes
<1>4. CASE stopSoon \/ stop \/ join
  <2>1. UNCHANGED <<state, running, main>>
    BY <1>4 DEF stopSoon, stop, join
  <2>2. QED
    BY <2>1
<1>5. CASE Joined
  BY <1>5 DEF Joined
<1>6. CASE HelperStops \/ HelperQuits
  <2>1. UNCHANGED <<state, running, main>>
    BY <1>6 DEF HelperStops, HelperQuits
  <2>2. QED
    BY <2>1
<1>7. CASE ThreadStep
  BY <1>7 DEF ThreadStep, BuildLoop, onBeforeThreadRunning, SetRunning, NotifyRunning,
              LeaveRun, onAfterThreadRunning, ResetLoop, Unwind
<1>8. CASE Rest \/ UNCHANGED vars
  BY <1>8 DEF Rest, vars
<1>9. QED
  BY <1>1, <1>2, <1>3, <1>4, <1>5, <1>6, <1>7, <1>8
  DEF Next, OwnerStep, StopSoonStep, Caller

\* What one way of ending the thread excludes.
LEMMA OneAuthor ==
    ASSUME OneWay, TypeOK
    PROVE  /\ ~Eager
           /\ "owner stops" \in usage => "helper stops" \notin usage
                                         /\ "helper quits" \notin usage
           /\ "helper stops" \in usage => "helper quits" \notin usage
<1>1. ~Eager /\ usage \in Usages
  BY DEF OneWay, TypeOK
<1>2. PICK e \in Ends : usage \subseteq {e}
  BY <1>1 DEF OneWay
<1>3. \A f \in usage : f = e
  BY <1>2
<1>4. "owner stops" # "helper stops" /\ "owner stops" # "helper quits"
      /\ "helper stops" # "helper quits"
  OBVIOUS
<1>5. QED
  BY <1>1, <1>3, <1>4

\* A step of the thread keeps the three parts about its end.
LEMMA ThreadKeeps ==
    ASSUME ConstantsOK, OneWay, IInv, ThreadStep
    PROVE  QuitHasAuthor' /\ EndsAreKept' /\ MarkedIsAlive'
<1> USE DEF IInv, TypeOK, object, Caller, InStart, InStopSoon, ConstantsOK
<1>1. CASE NotifyRunning
  <2>1. /\ pc'[Helper] = pc[Helper]
        /\ pc'[Owner] \in InStart <=> pc[Owner] \in InStart
        /\ pc'[Owner] = pc[Owner] \/ pc'[Owner] = "woken"
    BY <1>1 DEF NotifyRunning
  <2>2. QuitHasAuthor'
    BY <1>1 DEF NotifyRunning, QuitHasAuthor
  <2>3. EndsAreKept'
    BY <1>1, <2>1 DEF NotifyRunning, EndsAreKept
  <2>4. MarkedIsAlive'
    BY <1>1, <2>1 DEF NotifyRunning, MarkedIsAlive
  <2>5. QED
    BY <2>2, <2>3, <2>4
<1>2. CASE \/ BuildLoop \/ onBeforeThreadRunning \/ SetRunning
           \/ LeaveRun \/ onAfterThreadRunning \/ ResetLoop \/ Unwind
  <2> USE DEF BuildLoop, onBeforeThreadRunning, SetRunning, LeaveRun,
              onAfterThreadRunning, ResetLoop, Unwind
  <2>1. QuitHasAuthor'
    <3>1. CASE BuildLoop \/ onBeforeThreadRunning \/ SetRunning
      <4>1. main' \in {"setup", "ready", "notify"} /\ UNCHANGED <<usage, state, quits>>
        BY <3>1
      <4>2. quits' => state' = "STOPPING" \/ "helper quits" \in usage'
        BY <4>1 DEF QuitHasAuthor
      <4>3. QED
        BY <4>1, <4>2 DEF QuitHasAuthor
    <3>2. CASE LeaveRun
      <4>1. quits /\ main' = "left" /\ UNCHANGED <<usage, state, quits>>
        BY <3>2
      <4>2. quits' /\ (state' = "STOPPING" \/ "helper quits" \in usage')
        BY <4>1 DEF QuitHasAuthor
      <4>3. QED
        BY <4>1, <4>2 DEF QuitHasAuthor
    <3>3. CASE onAfterThreadRunning
      BY <3>3 DEF QuitHasAuthor
    <3>4. CASE ResetLoop
      BY <3>4 DEF QuitHasAuthor
    <3>5. CASE Unwind
      BY <3>5 DEF QuitHasAuthor
    <3>6. QED
      BY <1>2, <3>1, <3>2, <3>3, <3>4, <3>5
  <2>2. EndsAreKept'
    BY <1>2 DEF EndsAreKept
  <2>3. MarkedIsAlive'
    BY <1>2 DEF MarkedIsAlive, QuitHasAuthor
  <2>4. QED
    BY <2>1, <2>2, <2>3
<1>3. QED
  BY <1>1, <1>2 DEF ThreadStep

\* So does a step of somebody inside stopSoon.
LEMMA StopSoonKeeps ==
    ASSUME ConstantsOK, OneWay, IInv, NEW c \in Caller, StopSoonStep(c)
    PROVE  QuitHasAuthor' /\ EndsAreKept' /\ MarkedIsAlive'
<1> USE DEF IInv, TypeOK, object, Caller, Goto, AfterStopSoon
<1>0. Owner # Helper
  BY DEF ConstantsOK
<1>1. pc[c] \in InStopSoon
  BY DEF StopSoonStep, StopSoonChecks, StopSoonMarks, StopSoonPosts, StopSoonWakes, InStopSoon
<1>2. /\ "helper quits" \notin usage
      /\ pc[Owner] \notin InStart
      /\ \A d \in Caller : d # c => pc[d] \notin InStopSoon
  BY <1>0, <1>1, OneAuthor DEF EndsAreKept, InStart, InStopSoon
<1>3. CASE StopSoonChecks(c)
  <2>1. /\ \A d \in Caller : d # c => pc'[d] = pc[d]
        /\ pc'[c] \in {"idle", "join", "mark"} /\ (c = Helper => pc'[c] # "join")
        /\ pc'[c] = "mark" => state # "STOPPING" /\ messageLoop
        /\ UNCHANGED <<usage, state, messageLoop, main, quits>>
    BY <1>0, <1>3 DEF StopSoonChecks
  <2>2. QED
    BY <1>0, <1>1, <1>2, <2>1
    DEF QuitHasAuthor, EndsAreKept, MarkedIsAlive, InStart, InStopSoon
<1>4. CASE StopSoonMarks(c)
  <2>1. /\ \A d \in Caller : d # c => pc'[d] = pc[d]
        /\ pc[c] = "mark" /\ pc'[c] = "post" /\ state' = "STOPPING"
        /\ UNCHANGED <<usage, messageLoop, main, quits>>
    BY <1>4 DEF StopSoonMarks
  <2>2. QED
    BY <1>0, <1>1, <1>2, <2>1
    DEF QuitHasAuthor, EndsAreKept, MarkedIsAlive, InStart, InStopSoon
<1>5. CASE StopSoonPosts(c)
  <2>1. /\ \A d \in Caller : d # c => pc'[d] = pc[d]
        /\ pc'[c] \in {"idle", "join", "wake"} /\ (c = Helper => pc'[c] # "join")
        /\ pc[c] = "post" /\ messageLoop /\ quits'
        /\ UNCHANGED <<usage, state, messageLoop, main>>
    BY <1>0, <1>5 DEF StopSoonPosts, StopSoonReturns
  <2>2. QED
    BY <1>0, <1>1, <1>2, <2>1
    DEF QuitHasAuthor, EndsAreKept, MarkedIsAlive, InStart, InStopSoon
<1>w. CASE StopSoonWakes(c)
  <2>1. /\ \A d \in Caller : d # c => pc'[d] = pc[d]
        /\ pc'[c] \in {"idle", "join"} /\ (c = Helper => pc'[c] # "join")
        /\ UNCHANGED <<usage, state, messageLoop, main, quits>>
    BY <1>0, <1>w DEF StopSoonWakes, StopSoonReturns
  <2>2. QED
    BY <1>0, <1>1, <1>2, <2>1
    DEF QuitHasAuthor, EndsAreKept, MarkedIsAlive, InStart, InStopSoon
<1>6. QED
  BY <1>3, <1>4, <1>5, <1>w DEF StopSoonStep

\* And every other step of Owner and of Helper.
LEMMA CallKeeps ==
    ASSUME ConstantsOK, OneWay, IInv,
           \/ \E b \in BOOLEAN : start(b)
           \/ TestRunning \/ SpuriousWake \/ StartReturns
           \/ stopSoon \/ stop \/ join \/ Joined
           \/ HelperStops \/ HelperQuits
    PROVE  QuitHasAuthor' /\ EndsAreKept' /\ MarkedIsAlive'
<1> USE DEF IInv, TypeOK, object, Caller, Goto, InStart, InStopSoon,
            QuitHasAuthor, EndsAreKept, MarkedIsAlive
<1>0. Owner # Helper
  BY DEF ConstantsOK
<1>1. ASSUME NEW b \in BOOLEAN, start(b)
      PROVE  QuitHasAuthor' /\ EndsAreKept' /\ MarkedIsAlive'
  <2>1. pc[Helper] = "idle" /\ pc' = [pc EXCEPT ![Owner] = "woken"]
        /\ main \in {"none", "exited"} /\ main' = "born" /\ state' = "STARTING"
        /\ UNCHANGED <<usage, messageLoop, quits>>
    BY <1>1, OneAuthor DEF start
  <2>2. QED
    BY <1>0, <2>1
<1>2. CASE TestRunning \/ SpuriousWake
  <2>1. /\ pc'[Helper] = pc[Helper]
        /\ pc[Owner] \in InStart /\ pc'[Owner] \in InStart
        /\ UNCHANGED <<usage, state, messageLoop, main, quits>>
    BY <1>0, <1>2 DEF TestRunning, SpuriousWake
  <2>2. QED
    BY <1>0, <2>1
<1>3. CASE StartReturns
  <2>1. pc[Helper] = "idle"
    BY <1>0, <1>3 DEF StartReturns
  <2>2. QED
    BY <1>0, <1>3, <2>1 DEF StartReturns
<1>4. CASE stopSoon \/ stop
  <2>1. /\ pc'[Helper] = pc[Helper] /\ pc'[Owner] = "check"
        /\ "owner stops" \in usage
        /\ UNCHANGED <<usage, state, messageLoop, main, quits>>
    BY <1>0, <1>4 DEF stopSoon, stop
  <2>2. QED
    BY <1>0, <2>1
<1>5. CASE join
  BY <1>0, <1>5 DEF join
<1>6. CASE Joined
  <2>1. main = "exited" /\ ~messageLoop /\ ~quits
    BY <1>6 DEF Joined
  <2>2. QED
    BY <1>0, <1>6, <2>1 DEF Joined
<1>7. CASE HelperStops
  BY <1>0, <1>7, OneAuthor DEF HelperStops, HelperMayAct
<1>8. CASE HelperQuits
  BY <1>0, <1>8, OneAuthor DEF HelperQuits, HelperMayAct
<1>9. QED
  BY <1>1, <1>2, <1>3, <1>4, <1>5, <1>6, <1>7, <1>8

LEMMA InductiveInit == ASSUME ConstantsOK, Init PROVE IInv
<1>1. TypeOK /\ Reset
  BY InitTypes
<1>2. QED
  BY <1>1 DEF Init, IInv, QuitHasAuthor, EndsAreKept, MarkedIsAlive, Caller, InStart, InStopSoon

LEMMA InductiveStep == ASSUME ConstantsOK, OneWay, IInv, [Next]_vars PROVE IInv'
<1>1. TypeOK' /\ Reset'
  BY TypeStep, ResetStep DEF IInv
<1>2. CASE Rest \/ UNCHANGED vars
  <2>1. UNCHANGED <<usage, state, messageLoop, main, pc, quits>>
    BY <1>2 DEF Rest, vars, object
  <2>2. QED
    BY <1>1, <2>1 DEF IInv, QuitHasAuthor, EndsAreKept, MarkedIsAlive
<1>3. CASE Next /\ ~Rest
  <2>1. QuitHasAuthor' /\ EndsAreKept' /\ MarkedIsAlive'
    BY <1>3, ThreadKeeps, StopSoonKeeps, CallKeeps DEF Next, OwnerStep, Caller
  <2>2. QED
    BY <1>1, <2>1 DEF IInv
<1>4. QED
  BY <1>2, <1>3

LEMMA Inductive ==
    ASSUME ConstantsOK, OneWay
    PROVE  Spec => []IInv
<1>1. Init => IInv
  BY InductiveInit
<1>2. IInv /\ [Next]_vars => IInv'
  BY InductiveStep
<1>3. QED
  BY <1>1, <1>2, PTL DEF Spec

\* Whichever ways of ending the thread are used, and whenever: an object that
\* says STOPPED after join has nothing left of its thread (thread.h:60).
THEOREM StoppedIsReset ==
    ASSUME ConstantsOK
    PROVE  Spec => []StoppedMeansReset
<1>1. Init => TypeOK /\ Reset
  BY InitTypes
<1>2. TypeOK /\ Reset /\ [Next]_vars => (TypeOK /\ Reset)'
  BY TypeStep, ResetStep
<1>3. TypeOK /\ Reset => StoppedMeansReset
  BY DEF TypeOK, Reset, StoppedMeansReset
<1>4. QED
  BY <1>1, <1>2, <1>3, PTL DEF Spec

\* With one way of ending the thread, and nobody ending it while it starts,
\* messageLoop_ is never null between the test of stopSoon and the call of
\* postTask.  The loop may be gone before that call is over.
THEOREM LoopIsFound ==
    ASSUME ConstantsOK, OneWay
    PROVE  Spec => []StopFindsLoop
<1>1. IInv => StopFindsLoop
  BY DEF IInv, MarkedIsAlive, StopFindsLoop
<1>2. QED
  BY <1>1, Inductive, PTL

\* Inside start: the delegate was set up once the thread is past that, and
\* running_, once it was true, was this thread's.
SetUpSeen ==
    /\ pc[Owner] \in InStart /\ main \notin {"born", "setup"} => setUpFor = delegate
    /\ pc[Owner] = "started" => main \notin {"born", "setup", "ready"}

LEMMA SetUpStep ==
    ASSUME ConstantsOK, TypeOK, Reset, SetUpSeen, [Next]_vars PROVE SetUpSeen'
<1> USE DEF TypeOK, object, SetUpSeen, InStart, Caller
<1>0. Owner # Helper
  BY DEF ConstantsOK
<1>1. ASSUME NEW b \in BOOLEAN, start(b) PROVE SetUpSeen'
  BY <1>1 DEF start, Goto
<1>2. CASE TestRunning
  BY <1>2 DEF TestRunning, Goto, Reset
<1>3. CASE SpuriousWake \/ StartReturns
  BY <1>3 DEF SpuriousWake, StartReturns, Goto
<1>4. ASSUME NEW c \in Caller, StopSoonStep(c) PROVE SetUpSeen'
  <2>1. /\ pc'[Owner] = pc[Owner] \/ pc'[Owner] \notin InStart
        /\ UNCHANGED <<main, delegate, setUpFor>>
    BY <1>4 DEF StopSoonStep, StopSoonChecks, StopSoonMarks, StopSoonPosts, StopSoonWakes,
                StopSoonReturns, AfterStopSoon, Goto
  <2>2. QED
    BY <2>1
<1>5. CASE stopSoon \/ stop \/ join
  <2>1. pc'[Owner] \in {"check", "join"}
    BY <1>5 DEF stopSoon, stop, join, Goto
  <2>2. QED
    BY <2>1
<1>6. CASE Joined
  BY <1>6 DEF Joined, Goto
<1>7. CASE HelperStops \/ HelperQuits
  <2>1. pc'[Owner] = pc[Owner] /\ UNCHANGED <<main, delegate, setUpFor>>
    BY <1>0, <1>7 DEF HelperStops, HelperQuits, Goto
  <2>2. QED
    BY <2>1
<1>8. CASE NotifyRunning
  BY <1>8 DEF NotifyRunning
<1>9. CASE \/ BuildLoop \/ onBeforeThreadRunning \/ SetRunning \/ LeaveRun
           \/ onAfterThreadRunning \/ ResetLoop \/ Unwind
  <2>1. UNCHANGED <<pc, delegate>>
    BY <1>9 DEF BuildLoop, onBeforeThreadRunning, SetRunning, LeaveRun, onAfterThreadRunning,
                ResetLoop, Unwind
  <2>2. \/ setUpFor' = setUpFor /\ main \notin {"born", "setup"}
           /\ main' \notin {"born", "setup", "ready"}
        \/ main' = "setup" /\ main = "born"
        \/ main' = "ready" /\ main = "setup" /\ setUpFor' = delegate
    BY <1>9 DEF BuildLoop, onBeforeThreadRunning, SetRunning, LeaveRun, onAfterThreadRunning,
                ResetLoop, Unwind
  <2>3. QED
    BY <2>1, <2>2
<1>10. CASE Rest \/ UNCHANGED vars
  BY <1>10 DEF Rest, vars
<1>11. QED
  BY <1>1, <1>2, <1>3, <1>4, <1>5, <1>6, <1>7, <1>8, <1>9, <1>10
  DEF Next, ThreadStep, OwnerStep, StopSoonStep

\* However the thread is ended, start returns only after onBeforeThreadRunning
\* has returned for the delegate of this start (thread.h:53).
THEOREM SetupIsWaitedFor ==
    ASSUME ConstantsOK
    PROVE  Spec => StartWaitsForSetup
<1>1. Init => TypeOK /\ Reset /\ SetUpSeen
  BY InitTypes DEF Init, SetUpSeen, InStart, Caller
<1>2. TypeOK /\ Reset /\ SetUpSeen /\ [Next]_vars => (TypeOK /\ Reset /\ SetUpSeen)'
  BY TypeStep, ResetStep, SetUpStep
<1>3. TypeOK /\ Reset /\ SetUpSeen /\ [Next]_vars =>
        [StartReturns => main \notin {"born", "setup", "ready"} /\ setUpFor = delegate]_vars
  BY DEF SetUpSeen, StartReturns, InStart, TypeOK
<1>4. QED
  BY <1>1, <1>2, <1>3, PTL DEF Spec, StartWaitsForSetup
=============================================================================
