------------------------------- MODULE Thread -------------------------------
(***************************************************************************)
(* Thread (src/thread.cpp): a thread that owns a MessageLoop on its stack. *)
(* Owner starts, stops, joins and restarts it; Helper is any other thread  *)
(* that ends it, as the tests do, with Thread::stopSoon or with            *)
(* taskRunner()->postQuit().  The loop itself is MessageLoop.tla: here it  *)
(* runs until a quit task is in its queue.                                 *)
(*                                                                         *)
(* main is the place of the thread in threadMain:                          *)
(*   none       no thread                                                  *)
(*   born       started, the loop not yet built                            *)
(*   setup      messageLoop_ is set, onBeforeThreadRunning is next         *)
(*   ready      running_ is about to become true                           *)
(*   notify     it is true, notify_one is next                             *)
(*   looping    inside MessageLoop::run                                    *)
(*   left       running_ is false, onAfterThreadRunning is next            *)
(*   cleaned    messageLoop_ is about to become null                       *)
(*   unwinding  it is null, ~MessageLoop runs                              *)
(*   exited     the thread may be joined                                   *)
(* pc is the place of Owner and of Helper:                                 *)
(*   idle       outside the object                                         *)
(*   waiting    in start, running_ found false                             *)
(*   woken      in start, about to test running_                           *)
(*   started    in start, about to set state_ to STARTED                   *)
(*   check, mark, post   in stopSoon: lines 28, 31 and 33                  *)
(*   wake       in the post of line 33, the quit task is in the queue and  *)
(*              the queue's lock released: pump_ is read next              *)
(*   join       in join                                                    *)
(***************************************************************************)
EXTENDS Naturals

CONSTANTS
    Owner, Helper,
    Usages,     \* ways to end the thread, one of which is followed: sets of Ends
    Eager,      \* Helper may act while Owner is inside start
    MaxStarts   \* bound on the calls of start

Ends == {"owner stops", "helper stops", "helper quits"}

ConstantsOK ==
    /\ Owner # Helper
    /\ Usages \subseteq SUBSET Ends /\ Eager \in BOOLEAN
    /\ MaxStarts \in Nat

Caller == {Owner, Helper}

VARIABLES
    usage,          \* the way that is followed
    state,          \* state_
    running,        \* running_
    messageLoop,    \* messageLoop_ is not null
    delegate,       \* delegate_: 0 for null, else the number of its start
    main, pc,
    quits,          \* a quit task is in the loop's queue
    call,           \* what Owner is in: "start" | "stop" | "stopSoon" | "join"
    starts,         \* calls of start so far
    setUpFor        \* history: the delegate given to onBeforeThreadRunning

object == <<state, running, messageLoop, delegate>>
vars == <<usage, object, main, pc, quits, call, starts, setUpFor>>

TypeOK ==
    /\ usage \in Usages
    /\ state \in {"STARTING", "STARTED", "STOPPING", "STOPPED"}
    /\ running \in BOOLEAN /\ messageLoop \in BOOLEAN /\ quits \in BOOLEAN
    /\ starts \in 0 .. MaxStarts
    /\ delegate \in 0 .. starts /\ setUpFor \in 0 .. starts
    /\ main \in {"none", "born", "setup", "ready", "notify", "looping", "left",
                 "cleaned", "unwinding", "exited"}
    /\ pc \in [Caller -> {"idle", "waiting", "woken", "started", "check", "mark",
                          "post", "wake", "join"}]
    /\ call \in {"none", "start", "stop", "stopSoon", "join"}
    /\ messageLoop = (main \notin {"none", "born", "unwinding", "exited"})

Init ==
    /\ usage \in Usages
    /\ state = "STOPPED" /\ running = FALSE /\ messageLoop = FALSE
    /\ delegate = 0 /\ setUpFor = 0
    /\ main = "none" /\ pc = [c \in Caller |-> "idle"]
    /\ quits = FALSE /\ call = "none" /\ starts = 0

Goto(c, l) == pc' = [pc EXCEPT ![c] = l]
-----------------------------------------------------------------------------
(* Owner: start. *)

\* A std::thread that is still joinable may not be assigned to.
start(withDelegate) ==
    /\ Eager \/ pc[Helper] = "idle"
    /\ pc[Owner] = "idle" /\ state = "STOPPED" /\ ~messageLoop
    /\ main \in {"none", "exited"} /\ starts < MaxStarts
    /\ starts' = starts + 1
    /\ delegate' = IF withDelegate THEN starts' ELSE 0
    /\ state' = "STARTING"
    /\ main' = "born"
    /\ call' = "start"
    /\ Goto(Owner, "woken")
    /\ UNCHANGED <<usage, running, messageLoop, quits, setUpFor>>

\* while (!running_) wait, under runningLock_.
TestRunning ==
    /\ pc[Owner] = "woken"
    /\ Goto(Owner, IF running THEN "started" ELSE "waiting")
    /\ UNCHANGED <<usage, object, main, quits, call, starts, setUpFor>>

SpuriousWake ==
    /\ pc[Owner] = "waiting"
    /\ Goto(Owner, "woken")
    /\ UNCHANGED <<usage, object, main, quits, call, starts, setUpFor>>

StartReturns ==
    /\ pc[Owner] = "started"
    /\ state' = "STARTED"
    /\ call' = "none"
    /\ Goto(Owner, "idle")
    /\ UNCHANGED <<usage, running, messageLoop, delegate, main, quits, starts, setUpFor>>
-----------------------------------------------------------------------------
(* stopSoon, by Owner (also inside stop) or by Helper. *)

\* Where Owner goes after the stopSoon part of its call.
AfterStopSoon(c) == IF c = Owner /\ call = "stop" THEN "join" ELSE "idle"

StopSoonChecks_LoopOnly(c) ==
    /\ pc[c] = "check"
    /\ Goto(c, IF ~messageLoop THEN AfterStopSoon(c) ELSE "mark")
    /\ call' = IF c = Owner /\ pc'[c] = "idle" THEN "none" ELSE call
    /\ UNCHANGED <<usage, object, main, quits, starts, setUpFor>>

StopSoonChecks(c) ==
    /\ pc[c] = "check"
    /\ Goto(c, IF state = "STOPPING" \/ ~messageLoop THEN AfterStopSoon(c) ELSE "mark")
    /\ call' = IF c = Owner /\ pc'[c] = "idle" THEN "none" ELSE call
    /\ UNCHANGED <<usage, object, main, quits, starts, setUpFor>>

StopSoonMarks(c) ==
    /\ pc[c] = "mark"
    /\ state' = "STOPPING"
    /\ Goto(c, "post")
    /\ UNCHANGED <<usage, running, messageLoop, delegate, main, quits, call, starts, setUpFor>>

\* stopSoon returns, to its caller or to stop.
StopSoonReturns(c) ==
    /\ Goto(c, AfterStopSoon(c))
    /\ call' = IF c = Owner /\ pc'[c] = "idle" THEN "none" ELSE call

StopSoonPosts_Nothing(c) ==
    /\ pc[c] = "post" /\ messageLoop
    /\ StopSoonReturns(c) \/ (Goto(c, "wake") /\ UNCHANGED call)
    /\ UNCHANGED <<usage, object, main, quits, starts, setUpFor>>

\* messageLoop_ is used again, for a postTask that the task runner's lock does
\* not cover; null here is undefined behaviour, and no step.  From now on the
\* thread may quit, and the loop end.  Whoever finds the queue empty wakes it.
StopSoonPosts(c) ==
    /\ pc[c] = "post" /\ messageLoop
    /\ quits' = TRUE
    /\ StopSoonReturns(c) \/ (Goto(c, "wake") /\ UNCHANGED call)
    /\ UNCHANGED <<usage, object, main, starts, setUpFor>>

\* addToIncomingQueue takes pump_ from the loop.  If that is gone, this is
\* undefined behaviour; the model goes on as if its memory were still there.
StopSoonWakes(c) ==
    /\ pc[c] = "wake"
    /\ StopSoonReturns(c)
    /\ UNCHANGED <<usage, object, main, quits, starts, setUpFor>>
-----------------------------------------------------------------------------
(* Owner: stopSoon, stop and join, the destructor being a stop. *)

stopSoon ==
    /\ "owner stops" \in usage
    /\ pc[Owner] = "idle"
    /\ call' = "stopSoon"
    /\ Goto(Owner, "check")
    /\ UNCHANGED <<usage, object, main, quits, starts, setUpFor>>

stop ==
    /\ "owner stops" \in usage
    /\ pc[Owner] = "idle" /\ state # "STOPPED"
    /\ call' = "stop"
    /\ Goto(Owner, "check")
    /\ UNCHANGED <<usage, object, main, quits, starts, setUpFor>>

join ==
    /\ pc[Owner] = "idle" /\ state # "STOPPED"
    /\ call' = "join"
    /\ Goto(Owner, "join")
    /\ UNCHANGED <<usage, object, main, quits, starts, setUpFor>>

\* The thread has ended; stop also forgets the delegate.
Joined ==
    /\ pc[Owner] = "join" /\ main = "exited"
    /\ state' = "STOPPED"
    /\ delegate' = IF call = "stop" THEN 0 ELSE delegate
    /\ call' = "none"
    /\ Goto(Owner, "idle")
    /\ UNCHANGED <<usage, running, messageLoop, main, quits, starts, setUpFor>>
-----------------------------------------------------------------------------
(* Helper has the object from a delegate or a task, so it acts on a thread *)
(* that has been set up.                                                   *)

HelperMayAct ==
    /\ pc[Helper] = "idle" /\ messageLoop /\ main # "setup"
    /\ Eager \/ state # "STARTING"

HelperStops ==
    /\ "helper stops" \in usage
    /\ HelperMayAct
    /\ Goto(Helper, "check")
    /\ UNCHANGED <<usage, object, main, quits, call, starts, setUpFor>>

\* taskRunner()->postQuit(): the runner outlives the loop.
HelperQuits ==
    /\ "helper quits" \in usage
    /\ HelperMayAct
    /\ quits' = TRUE
    /\ UNCHANGED <<usage, object, main, pc, call, starts, setUpFor>>
-----------------------------------------------------------------------------
(* threadMain. *)

\* The loop is built and messageLoop_ set.
BuildLoop ==
    /\ main = "born"
    /\ main' = "setup" /\ messageLoop' = TRUE
    /\ UNCHANGED <<usage, state, running, delegate, pc, quits, call, starts, setUpFor>>

onBeforeThreadRunning ==
    /\ main = "setup"
    /\ main' = "ready" /\ setUpFor' = delegate
    /\ UNCHANGED <<usage, object, pc, quits, call, starts>>

SetRunning ==
    /\ main = "ready"
    /\ main' = "notify" /\ running' = TRUE
    /\ UNCHANGED <<usage, state, messageLoop, delegate, pc, quits, call, starts, setUpFor>>

NotifyRunning ==
    /\ main = "notify"
    /\ main' = "looping"
    /\ pc' = [pc EXCEPT ![Owner] = IF @ = "waiting" THEN "woken" ELSE @]
    /\ UNCHANGED <<usage, object, quits, call, starts, setUpFor>>

LeaveRun_StillRunning ==
    /\ main = "looping" /\ quits
    /\ main' = "left" /\ UNCHANGED running
    /\ UNCHANGED <<usage, state, messageLoop, delegate, pc, quits, call, starts, setUpFor>>

\* run returns after the quit task, and running_ is reset.
LeaveRun ==
    /\ main = "looping" /\ quits
    /\ main' = "left" /\ running' = FALSE
    /\ UNCHANGED <<usage, state, messageLoop, delegate, pc, quits, call, starts, setUpFor>>

onAfterThreadRunning ==
    /\ main = "left"
    /\ main' = "cleaned"
    /\ UNCHANGED <<usage, object, pc, quits, call, starts, setUpFor>>

ResetLoop_Forgotten ==
    /\ main = "cleaned"
    /\ main' = "unwinding"
    /\ UNCHANGED <<usage, object, pc, quits, call, starts, setUpFor>>

ResetLoop ==
    /\ main = "cleaned"
    /\ main' = "unwinding" /\ messageLoop' = FALSE
    /\ UNCHANGED <<usage, state, running, delegate, pc, quits, call, starts, setUpFor>>

\* ~MessageLoop destroys what is left in the queue, quit tasks included.
Unwind ==
    /\ main = "unwinding"
    /\ main' = "exited" /\ quits' = FALSE
    /\ UNCHANGED <<usage, object, pc, call, starts, setUpFor>>
-----------------------------------------------------------------------------
ThreadStep ==
    \/ BuildLoop \/ onBeforeThreadRunning \/ SetRunning \/ NotifyRunning
    \/ LeaveRun \/ onAfterThreadRunning \/ ResetLoop \/ Unwind

StopSoonStep(c) ==
    \/ StopSoonChecks(c) \/ StopSoonMarks(c) \/ StopSoonPosts(c) \/ StopSoonWakes(c)

OwnerStep == TestRunning \/ StartReturns \/ StopSoonStep(Owner) \/ Joined

\* The loop may serve for ever, and Owner be done with an ended thread.
Rest == main \in {"looping", "exited"} /\ UNCHANGED vars

Next ==
    \/ ThreadStep \/ OwnerStep \/ StopSoonStep(Helper)
    \/ SpuriousWake
    \/ (\E b \in BOOLEAN : start(b)) \/ stopSoon \/ stop \/ join
    \/ HelperStops \/ HelperQuits
    \/ Rest

\* Threads get the processor; nobody is obliged to call anything.
Fairness == WF_vars(ThreadStep) /\ WF_vars(OwnerStep) /\ WF_vars(StopSoonStep(Helper))

Spec == Init /\ [][Next]_vars /\ Fairness
-----------------------------------------------------------------------------
\* "After this method returns, the Thread object is completely reset"
\* (thread.h:60): with state_ STOPPED nothing of the last thread is left, not
\* even a late write of running_ or messageLoop_.
StoppedMeansReset ==
    state = "STOPPED" => main \in {"none", "exited"} /\ ~running /\ ~messageLoop

\* Whoever has checked messageLoop_ in stopSoon still finds it set when it
\* calls postTask through it: nobody else has made the thread quit meanwhile.
\* It says nothing of the rest of that call (PostEndsBeforeLoop).
StopFindsLoop == \A c \in Caller : pc[c] \in {"mark", "post"} => messageLoop

\* "We can't receive messages anymore" (thread.cpp:111): when the loop has been
\* destroyed, nobody is still inside a post to it.
PostEndsBeforeLoop == main = "exited" => \A c \in Caller : pc[c] # "wake"

\* start returns only when this thread, not an earlier one, has been set up:
\* onBeforeThreadRunning has returned for the delegate of this start.
StartWaitsForSetup ==
    [][StartReturns => main \notin {"born", "setup", "ready"} /\ setUpFor = delegate]_vars

\* "Starts the thread" (thread.h:53): start returns.
StartEnds == call = "start" ~> call # "start"

\* "Signals the thread to exit and returns once the thread has exited"
\* (thread.h:59).
StopEnds == call = "stop" ~> call # "stop"
=============================================================================
