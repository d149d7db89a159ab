---------------------------- MODULE MC_Primitives ----------------------------
(* Components that do not interact: one of them, the subject, is chosen at  *)
(* the start of a behaviour, and the others never move.                     *)
EXTENDS Naturals

CONSTANTS
    Waiter, Setter,                             \* of Event
    Owner, Helper, Usages, Eager, MaxStarts,    \* of Thread
    Singleton, Managed, Main, Worker, MaxProcess, \* of AtExit
    log, conf, net,
    Stream, Platforms, Cap, BufferSize, MaxOutput, MaxInput, \* of Process
    Program, Systems, Empty, MaxRuns, MaxFailures, \* of SingletonProcess
    Logger, Destinations, Levels, MaxLogFileSize, MaxLogFileAge, MaxMessages, MaxInits, MaxDay,
    Poster, Task, Modal, Quitter, Capacity, Null, MaxUser, MaxTime, \* of MessagePumpWin
    modal, soon, later, quit,
    MaxRequests,                                \* of HttpClient
    Tool, MaxCommands,                          \* of WinService
    Handle,                                     \* of RegistryWatch
    MaxTimers, MaxCallbacks                     \* of WinTimer

VARIABLES
    subject,
    is_set, notifying, waiterPc, timed,
    usage, state, running, messageLoop, delegate, main, callerPc, quits, call,
    starts, setUpFor,
    once, instance, frames, stack, lock, manager, exit, processed,
    platform, child, heir, filter, pid, pipe, written, delivered, holders, polled, ready,
    input, inPipe, asked, writer, closed, stored, owner, answer, hits,
    system, programPc, isPrimary, named, startup, mapped, viewed, set, buffer, callback, listener,
    cml, heard, locker, runs, failures, expected,
    gLoggingDestination, gMinLogLevel, gLogFileNumber, gLogFile, files, today, inits, crashed,
    place, severity, closing, sent, mine, excused, owed,
    workState, delayedWorkTime, should_quit, queue, wmQuit, timer, incomingQueue, work_queue,
    delayedWorkQueue, task, pumpPc, places, held, more, post, ran, posted, refused, users, now,
    members, open, abort_, dwGLE, count, step, inCall, code, handles, user, cut,
    installed, status, did, op, original, toolPc, commands, misused,
    hkey, freed, event, closer, notifier, watched, used,
    m_hTimer, timerQueue, inCallback, stopper, unwaited

\* net uses log and conf, conf uses log.
Needs ==
    [s \in Singleton |-> CASE s = net -> {log, conf} [] s = conf -> {log} [] OTHER -> {}]

\* The ways the tests and comments end a Thread, one at a time.
Disciplined == {{"owner stops"}, {"helper stops"}, {"helper quits"}}

\* The log goes to a file or to stderr.
FileOrStderr == {{"file"}, {"stdout"}}

Delay == [t \in Task |-> CASE t = soon -> 1 [] t = later -> 2 [] OTHER -> 0]

E == INSTANCE Event WITH pc <- waiterPc
T == INSTANCE Thread WITH pc <- callerPc
A == INSTANCE AtExit
C == INSTANCE Process
S == INSTANCE SingletonProcess WITH pc <- programPc
L == INSTANCE Logging WITH Thread <- Logger
W == INSTANCE MessagePumpWin WITH pc <- pumpPc, frames <- places, running <- task
H == INSTANCE HttpClient WITH closing <- handles
V == INSTANCE WinService WITH pc <- toolPc
R == INSTANCE RegistryWatch WITH owner <- closer
I == INSTANCE WinTimer

ASSUME ConstantsOK ==
    /\ T!ConstantsOK /\ A!ConstantsOK
    /\ C!ConstantsOK /\ S!ConstantsOK /\ L!ConstantsOK /\ W!ConstantsOK
    /\ H!ConstantsOK /\ V!ConstantsOK /\ R!ConstantsOK /\ I!ConstantsOK

eventVars == <<is_set, notifying, waiterPc, timed>>
threadVars ==
    <<usage, state, running, messageLoop, delegate, main, callerPc, quits, call, starts, setUpFor>>
exitVars == <<once, instance, frames, stack, lock, manager, exit, processed>>
processVars ==
    <<platform, child, heir, filter, pid, pipe, written, delivered, holders, polled, ready,
      input, inPipe, asked, writer, closed, stored, owner, answer, hits>>
programVars ==
    <<system, programPc, isPrimary, named, startup, mapped, viewed, set, buffer, callback, listener,
      cml, heard, locker, runs, failures, expected>>
logVars ==
    <<gLoggingDestination, gMinLogLevel, gLogFileNumber, gLogFile, files, today, inits, crashed,
      place, severity, closing, sent, mine, excused, owed>>
pumpVars ==
    <<workState, delayedWorkTime, should_quit, queue, wmQuit, timer, incomingQueue, work_queue,
      delayedWorkQueue, task, pumpPc, places, held, more, post, ran, posted, refused, users, now>>
httpVars == <<members, open, abort_, dwGLE, count, step, inCall, code, handles, user, cut>>
serviceVars == <<installed, status, did, op, original, toolPc, commands, misused>>
watchVars == <<hkey, freed, event, closer, notifier, watched, used>>
timerVars == <<m_hTimer, timerQueue, inCallback, stopper, unwaited>>

vars ==
    <<subject, eventVars, threadVars, exitVars, processVars, programVars, logVars, pumpVars,
      httpVars, serviceVars, watchVars, timerVars>>

Init ==
    /\ subject \in {"event", "thread", "at exit", "process", "programs", "log", "pump",
                   "http", "service", "registry", "timer"}
    /\ E!Init /\ T!Init /\ A!Init /\ L!Init /\ W!Init
    /\ C!Init /\ S!Init /\ H!Init /\ V!Init /\ R!Init /\ I!Init
    /\ subject # "event" => ~is_set
    /\ subject # "thread" => usage = {"owner stops"}
    /\ subject # "process" => platform = "posix" /\ child = "none" /\ ~filter
    /\ subject # "programs" => system = "posix"

EventStep ==
    /\ subject = "event" /\ E!Next
    /\ UNCHANGED <<subject, threadVars, exitVars, processVars, programVars, logVars,
                   pumpVars, httpVars, serviceVars, watchVars, timerVars>>
ThreadStep ==
    /\ subject = "thread" /\ T!Next
    /\ UNCHANGED <<subject, eventVars, exitVars, processVars, programVars, logVars,
                   pumpVars, httpVars, serviceVars, watchVars, timerVars>>
AtExitStep ==
    /\ subject = "at exit" /\ A!Next
    /\ UNCHANGED <<subject, eventVars, threadVars, processVars, programVars, logVars,
                   pumpVars, httpVars, serviceVars, watchVars, timerVars>>
ProcessStep ==
    /\ subject = "process" /\ C!Next
    /\ UNCHANGED <<subject, eventVars, threadVars, exitVars, programVars, logVars,
                   pumpVars, httpVars, serviceVars, watchVars, timerVars>>
ProgramStep ==
    /\ subject = "programs" /\ S!Next
    /\ UNCHANGED <<subject, eventVars, threadVars, exitVars, processVars, logVars,
                   pumpVars, httpVars, serviceVars, watchVars, timerVars>>
LogStep ==
    /\ subject = "log" /\ L!Next
    /\ UNCHANGED <<subject, eventVars, threadVars, exitVars, processVars, programVars,
                   pumpVars, httpVars, serviceVars, watchVars, timerVars>>
PumpStep ==
    /\ subject = "pump" /\ W!Next
    /\ UNCHANGED <<subject, eventVars, threadVars, exitVars, processVars, programVars,
                   logVars, httpVars, serviceVars, watchVars, timerVars>>
HttpStep ==
    /\ subject = "http" /\ H!Next
    /\ UNCHANGED <<subject, eventVars, threadVars, exitVars, processVars, programVars,
                   logVars, pumpVars, serviceVars, watchVars, timerVars>>
ServiceStep ==
    /\ subject = "service" /\ V!Next
    /\ UNCHANGED <<subject, eventVars, threadVars, exitVars, processVars, programVars,
                   logVars, pumpVars, httpVars, watchVars, timerVars>>
WatchStep ==
    /\ subject = "registry" /\ R!Next
    /\ UNCHANGED <<subject, eventVars, threadVars, exitVars, processVars, programVars,
                   logVars, pumpVars, httpVars, serviceVars, timerVars>>
TimerStep ==
    /\ subject = "timer" /\ I!Next
    /\ UNCHANGED <<subject, eventVars, threadVars, exitVars, processVars, programVars,
                   logVars, pumpVars, httpVars, serviceVars, watchVars>>

Next ==
    \/ EventStep \/ ThreadStep \/ AtExitStep \/ ProcessStep \/ ProgramStep \/ LogStep \/ PumpStep
    \/ HttpStep \/ ServiceStep \/ WatchStep \/ TimerStep

\* The fairness of the components that have a liveness property.
Fairness ==
    /\ \A s \in Setter : WF_eventVars(subject = "event" /\ E!NotifyAll(s))
    /\ \A w \in Waiter :
        /\ WF_eventVars(subject = "event" /\ E!Test(w))
        /\ WF_eventVars(subject = "event" /\ E!Timeout(w))
        /\ WF_eventVars(subject = "event" /\ E!ReturnLate(w))
    /\ WF_threadVars(subject = "thread" /\ T!ThreadStep)
    /\ WF_threadVars(subject = "thread" /\ T!OwnerStep)
    /\ WF_threadVars(subject = "thread" /\ T!StopSoonStep(Helper))
    /\ \A t \in A!Thread : WF_exitVars(subject = "at exit" /\ A!BuildStep(t))
    /\ WF_exitVars(subject = "at exit" /\ A!ExitStep)
    /\ WF_exitVars(subject = "at exit" /\ A!DestroyManager)
    /\ WF_processVars(subject = "process" /\ C!Reader)
    /\ WF_processVars(subject = "process" /\ C!WriteReturns)
    /\ WF_processVars(subject = "process" /\ owner # "idle" /\ C!OwnerStep)
    /\ WF_httpVars(subject = "http" /\ H!RequestThread)
    /\ WF_httpVars(subject = "http" /\ H!UserGoesOn)
    /\ WF_serviceVars(subject = "service" /\ V!ServiceMain)
    /\ \A w \in V!ServiceThread :
        WF_serviceVars(subject = "service" /\ \E succeeds \in BOOLEAN : V!End(w, succeeds))
    /\ \A t \in Tool : WF_serviceVars(subject = "service" /\ V!Goes(t))
    /\ WF_watchVars(subject = "registry" /\ R!Closer)
    /\ WF_watchVars(subject = "registry" /\ R!Notifier)
    /\ WF_timerVars(subject = "timer" /\ I!stopReturns)
    /\ \A t \in I!Timer : WF_timerVars(subject = "timer" /\ I!CallbackReturns(t))

Spec == Init /\ [][Next]_vars /\ Fairness
-----------------------------------------------------------------------------
TypeOK ==
    CASE subject = "event" -> E!TypeOK
      [] subject = "thread" -> T!TypeOK
      [] subject = "at exit" -> A!TypeOK
      [] subject = "process" -> C!TypeOK
      [] subject = "programs" -> S!TypeOK
      [] subject = "log" -> L!TypeOK
      [] subject = "pump" -> W!TypeOK
      [] subject = "http" -> H!TypeOK
      [] subject = "service" -> V!TypeOK
      [] subject = "registry" -> R!TypeOK
      [] subject = "timer" -> I!TypeOK

\* Stated in Event.tla.
SetReleases == E!SetReleases

\* Stated in Thread.tla.
StopFindsLoop == T!StopFindsLoop
StartWaitsForSetup == T!StartWaitsForSetup

\* Stated in Thread.tla, HttpClient.tla, WinService.tla, RegistryWatch.tla and
\* WinTimer.tla: what waits for another thread to stop returns.
StopEnds == T!StopEnds /\ H!DeletionEnds /\ V!UninstallEnds /\ R!CloseEnds /\ I!StopEnds

\* Stated in AtExit.tla.
UsersGoFirst == A!UsersGoFirst

\* Stated in AtExit.tla, HttpClient.tla and WinTimer.tla: the singletons, the
\* handles and the callbacks that are left in the end.
NoneLeft == A!NoneLeft /\ H!NoneLeft /\ I!NoneLeft

\* Stated in HttpClient.tla and WinService.tla: what the callback and the service
\* control manager are told is true.
ReportedTruly == H!AnsweredTruly /\ V!StatusTells

\* Stated in Process.tla.
DeliveredBeforeStatus == C!DeliveredBeforeStatus
EndsWithChild == C!EndsWithChild

\* Stated in SingletonProcess.tla.
SecondaryIsHeard == S!SecondaryIsHeard

\* Stated in Logging.tla.
LoggedIsKept == L!LoggedIsKept

\* Stated in MessagePumpWin.tla.
PumpWakes == W!OneWorkMessage /\ W!PumpWakes
TimerForEarliest == W!TimerForEarliest
=============================================================================
