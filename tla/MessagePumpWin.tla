--------------------------- MODULE MessagePumpWin ---------------------------
(***************************************************************************)
(* MessagePumpForWin (src/message_loop/message_pump_win.cpp), the pump of  *)
(* a thread with windows, and what MessageLoop does when the pump calls    *)
(* it.  Work is announced by a message in the queue of the thread, delayed *)
(* work by a timer, so that a modal loop of the system, opened by a task   *)
(* or by a window, still lets them reach the pump.                         *)
(*                                                                         *)
(* pc is the place of the thread of the pump:                              *)
(*   foreign    not in run; a message box may dispatch its messages        *)
(*   peek, work, delayed, settle, wait   the parts of a turn of doRunLoop  *)
(*   reset, again, dispatch   the parts of processPumpReplacementMessage   *)
(*              once the message that replaces kMsgHaveWork was taken      *)
(*   handle, resched   in handleWorkMessage: doWork, scheduleWork          *)
(*   timer, rearm      in handleTimerMessage                               *)
(*   modal      a loop of the system dispatches the messages               *)
(*   task       a task is about to return                                  *)
(*   left       run has returned                                           *)
(* frames holds the places to return to, the innermost last.               *)
(***************************************************************************)
EXTENDS Integers, Sequences, FiniteSets, SequencesExt

CONSTANTS
    Poster,
    Task,
    Delay,          \* of each task, in ticks, 0 for none
    Modal,          \* the tasks that run a modal loop
    Quitter,        \* the tasks that call quit
    Capacity,       \* messages the queue takes
    Null,
    MaxUser,        \* bound: messages of others
    MaxTime         \* bound: ticks

ConstantsOK ==
    /\ Delay \in [Task -> Nat] /\ Modal \subseteq Task /\ Quitter \subseteq Task
    /\ Null \notin Task
    /\ {Capacity, MaxUser} \subseteq Nat /\ MaxTime \in Nat \ {0}

VARIABLES
    workState,      \* workState_
    delayedWorkTime,\* delayedWorkTime_, 0 for TimePoint()
    should_quit,
    queue,          \* posted messages: "work" and "user"
    wmQuit,         \* a WM_QUIT is pending
    timer,          \* when WM_TIMER comes, 0 if it is not set
    incomingQueue, work_queue, delayedWorkQueue,    \* of MessageLoop
    running,        \* the task that runs, or Null: nestableTasksAllowed_
    pc, frames,
    held,           \* the message that replaces kMsgHaveWork
    more,           \* more_work_is_plausible
    post,           \* the place of each poster
    ran,            \* tasks that have run
    posted, refused,\* history: tasks posted; PostMessage has failed
    users, now

pump == <<workState, delayedWorkTime, should_quit>>
system == <<queue, wmQuit, timer>>
loop == <<incomingQueue, work_queue, delayedWorkQueue, running, ran>>
control == <<pc, frames, held, more>>
world == <<posted, users, now>>
vars == <<pump, system, loop, control, post, refused, world>>

READY == 0
HAVE_WORK == 1

Item == [task : Task, due : Nat]

TypeOK ==
    /\ workState \in {READY, HAVE_WORK} /\ delayedWorkTime \in Nat /\ should_quit \in BOOLEAN
    /\ queue \in Seq({"work", "user"}) /\ Len(queue) <= Capacity /\ wmQuit \in BOOLEAN
    /\ timer \in Nat
    /\ {incomingQueue, work_queue} \subseteq Seq(Item) /\ delayedWorkQueue \subseteq Item
    /\ running \in Task \cup {Null}
    /\ pc \in {"foreign", "peek", "work", "delayed", "settle", "wait", "reset", "again", "dispatch",
               "handle", "resched", "timer", "rearm", "modal", "task", "left"}
    /\ ToSet(frames) \subseteq {"work", "delayed", "settle", "handle", "resched", "rearm", "modal", "task"}
    /\ held \in {"none", "work", "user", "timer", "quit"} /\ more \in BOOLEAN
    /\ post \in [Poster -> {"idle", "exchange", "post", "undo"}]
    /\ ran \subseteq posted /\ posted \subseteq Task /\ refused \in BOOLEAN
    /\ users \in 0 .. MaxUser /\ now \in 1 .. MaxTime

Init ==
    /\ workState = READY /\ delayedWorkTime = 0 /\ should_quit = FALSE
    /\ queue = <<>> /\ wmQuit = FALSE /\ timer = 0
    /\ incomingQueue = <<>> /\ work_queue = <<>> /\ delayedWorkQueue = {}
    /\ running = Null /\ ran = {}
    /\ pc = "foreign" /\ frames = <<>> /\ held = "none" /\ more = FALSE
    /\ post = [p \in Poster |-> "idle"]
    /\ posted = {} /\ refused = FALSE /\ users = 0 /\ now = 1
-----------------------------------------------------------------------------
(* The messages of the thread. *)

\* What PeekMessage finds: posted messages, then WM_QUIT, then WM_TIMER.
Message ==
    CASE queue # <<>> -> Head(queue)
      [] queue = <<>> /\ wmQuit -> "quit"
      [] queue = <<>> /\ ~wmQuit /\ timer # 0 /\ timer <= now -> "timer"
      [] OTHER -> "none"

\* PM_REMOVE; a timer stays set until it is killed.
Taken ==
    /\ queue' = IF queue = <<>> THEN queue ELSE Tail(queue)
    /\ wmQuit' = (wmQuit /\ queue # <<>>)
    /\ UNCHANGED timer

Push(places) == frames' = frames \o places
Return == pc' = Last(frames) /\ frames' = Front(frames)
Goto(place) == pc' = place /\ UNCHANGED frames

\* What a call comes back with counts in doRunLoop; the handlers discard it.
Tell(result) ==
    more' = IF Last(frames) \in {"work", "delayed", "settle"} THEN result ELSE more

\* scheduleWork on the thread that takes the messages: no one else acts on
\* HAVE_WORK, so that it is one step.
scheduleWork ==
    IF workState # READY THEN UNCHANGED <<workState, queue, refused>>
    ELSE IF Len(queue) < Capacity
    THEN workState' = HAVE_WORK /\ queue' = Append(queue, "work") /\ UNCHANGED refused
    ELSE refused' = TRUE /\ UNCHANGED <<workState, queue>>

\* SetTimer, for a moment that is not past.
scheduleDelayedWork(time) ==
    /\ delayedWorkTime' = time
    /\ timer' = IF time < now THEN now ELSE time
-----------------------------------------------------------------------------
(* A turn of doRunLoop. *)

run ==
    /\ pc = "foreign"
    /\ Goto("peek")
    /\ UNCHANGED <<pump, system, loop, held, more, post, refused, world>>

\* processNextWindowsMessage; a window that gets a message may open a modal
\* loop.
PeekUser ==
    /\ pc = "peek" /\ Message = "user"
    /\ Taken /\ more' = TRUE
    /\ \/ Goto("work")
       \/ pc' = "modal" /\ Push(<<"work">>)
    /\ UNCHANGED <<pump, loop, held, post, refused, world>>

PeekTimer ==
    /\ pc = "peek" /\ Message = "timer"
    /\ Taken /\ more' = TRUE
    /\ pc' = "timer" /\ Push(<<"work">>)
    /\ UNCHANGED <<pump, loop, held, post, refused, world>>

\* WM_QUIT is posted again.
PeekQuit ==
    /\ pc = "peek" /\ Message = "quit"
    /\ should_quit' = TRUE /\ more' = FALSE
    /\ Goto("work")
    /\ UNCHANGED <<workState, delayedWorkTime, system, loop, held, post, refused, world>>

PeekNone ==
    /\ pc = "peek" /\ Message = "none"
    /\ more' = FALSE
    /\ Goto("work")
    /\ UNCHANGED <<pump, system, loop, held, post, refused, world>>

\* kMsgHaveWork is dropped, and the message behind it taken at once.
Replace(rest, after) ==
    /\ held' = IF rest # <<>> THEN Head(rest)
               ELSE IF wmQuit THEN "quit" ELSE IF timer # 0 /\ timer <= now THEN "timer" ELSE "none"
    /\ queue' = IF rest = <<>> THEN rest ELSE Tail(rest)
    /\ wmQuit' = (wmQuit /\ rest # <<>>)
    /\ pc' = "reset" /\ Push(after)
    /\ UNCHANGED timer

PeekWork ==
    /\ pc = "peek" /\ Message = "work"
    /\ Replace(Tail(queue), <<"work">>)
    /\ UNCHANGED <<pump, loop, more, post, refused, world>>

Reset_WhenReplaced ==
    /\ pc = "reset"
    /\ workState' = IF held = "none" THEN workState ELSE READY
    /\ IF held = "none" THEN Return /\ Tell(FALSE)
                        ELSE Goto("again") /\ UNCHANGED more
    /\ UNCHANGED <<delayedWorkTime, should_quit, system, loop, held, post, refused, world>>

Reset ==
    /\ pc = "reset"
    /\ workState' = READY
    /\ IF held = "none" THEN Return /\ Tell(FALSE)
                        ELSE Goto("again") /\ UNCHANGED more
    /\ UNCHANGED <<delayedWorkTime, should_quit, system, loop, held, post, refused, world>>

Again ==
    /\ pc = "again"
    /\ scheduleWork
    /\ Goto("dispatch")
    /\ UNCHANGED <<delayedWorkTime, should_quit, wmQuit, timer, loop, held, more, post, world>>

\* processMessageHelper for the message held.
Dispatch ==
    /\ pc = "dispatch"
    /\ held' = "none"
    /\ Tell(held # "quit")
    /\ should_quit' = (should_quit \/ held = "quit")
    /\ wmQuit' = (wmQuit \/ held = "quit")
    /\ CASE held = "timer" -> Goto("timer")
         [] held = "user" -> (Return \/ Goto("modal"))
         [] OTHER -> Return
    /\ UNCHANGED <<workState, delayedWorkTime, queue, timer, loop, post, refused, world>>

\* should_quit is tested after each part.
Leave ==
    /\ pc \in {"work", "delayed"} /\ should_quit
    /\ Goto("left")
    /\ UNCHANGED <<pump, system, loop, held, more, post, refused, world>>

\* Idle work aside, the next turn or the wait.  The timer is killed when the
\* delayed work was done.
Settle ==
    /\ pc = "settle"
    /\ timer' = IF more /\ delayedWorkTime = 0 THEN 0 ELSE timer
    /\ Goto(IF should_quit THEN "left" ELSE IF more THEN "peek" ELSE "wait")
    /\ UNCHANGED <<pump, queue, wmQuit, loop, held, more, post, refused, world>>

\* MsgWaitForMultipleObjectsEx, without a timeout.
waitForWork ==
    /\ pc = "wait" /\ Message # "none"
    /\ Goto("peek")
    /\ UNCHANGED <<pump, system, loop, held, more, post, refused, world>>
-----------------------------------------------------------------------------
(* The delegate. *)

\* A task is run; one with a modal loop dispatches messages before its end.
runTask(task, after) ==
    /\ running' = task
    /\ IF task \in Modal THEN pc' = "modal" /\ Push(<<after, "task">>)
                         ELSE pc' = "task" /\ Push(<<after>>)

ReturnTask ==
    /\ pc = "task"
    /\ running' = Null /\ ran' = ran \cup {running}
    /\ should_quit' = (should_quit \/ running \in Quitter)
    /\ Tell(TRUE)
    /\ Return
    /\ UNCHANGED <<workState, delayedWorkTime, system, incomingQueue, work_queue, delayedWorkQueue,
                   held, post, refused, world>>

\* Where doWork is called, and what follows when it has run a task.
InDoWork == (pc = "work" /\ ~should_quit) \/ pc = "handle"
AfterTask == IF pc = "work" THEN "delayed" ELSE "resched"

\* Nothing to run, or a task runs already.
DoWorkNothing ==
    /\ InDoWork /\ (running # Null \/ (work_queue = <<>> /\ incomingQueue = <<>>))
    /\ IF pc = "work" THEN Goto("delayed") ELSE Return
    /\ UNCHANGED <<pump, system, loop, held, more, post, refused, world>>

DoWorkReload ==
    /\ InDoWork /\ running = Null /\ work_queue = <<>> /\ incomingQueue # <<>>
    /\ work_queue' = incomingQueue /\ incomingQueue' = <<>>
    /\ UNCHANGED <<pump, system, delayedWorkQueue, running, ran, control, post, refused, world>>

\* The pump hears of a delayed task if it is the only one.
DoWorkDelay ==
    /\ InDoWork /\ running = Null /\ work_queue # <<>> /\ Head(work_queue).due # 0
    /\ work_queue' = Tail(work_queue)
    /\ delayedWorkQueue' = delayedWorkQueue \cup {Head(work_queue)}
    /\ IF delayedWorkQueue = {} THEN scheduleDelayedWork(Head(work_queue).due)
                                ELSE UNCHANGED <<delayedWorkTime, timer>>
    /\ UNCHANGED <<workState, should_quit, queue, wmQuit, incomingQueue, running, ran, control,
                   post, refused, world>>

DoWorkRun ==
    /\ InDoWork /\ running = Null /\ work_queue # <<>> /\ Head(work_queue).due = 0
    /\ work_queue' = Tail(work_queue)
    /\ runTask(Head(work_queue).task, AfterTask)
    /\ UNCHANGED <<pump, system, incomingQueue, delayedWorkQueue, ran, held, more, post, refused, world>>

\* doDelayedWork(&delayedWorkTime_); what is due is told by the clock, the
\* cached one only spares reading it.
InDoDelayed == (pc = "delayed" /\ ~should_quit) \/ pc = "timer"
AfterDelayed == IF pc = "delayed" THEN "settle" ELSE "rearm"

Earliest == CHOOSE x \in delayedWorkQueue : \A y \in delayedWorkQueue : x.due <= y.due

\* handleTimerMessage kills the timer first.
TimerHeard == timer' = IF pc = "timer" THEN 0 ELSE timer

DoDelayedNothing ==
    /\ InDoDelayed /\ (running # Null \/ delayedWorkQueue = {})
    /\ delayedWorkTime' = 0 /\ TimerHeard
    /\ Goto(AfterDelayed)
    /\ UNCHANGED <<workState, should_quit, queue, wmQuit, loop, held, more, post, refused, world>>

DoDelayedNotYet ==
    /\ InDoDelayed /\ running = Null /\ delayedWorkQueue # {} /\ Earliest.due > now
    /\ delayedWorkTime' = Earliest.due /\ TimerHeard
    /\ Goto(AfterDelayed)
    /\ UNCHANGED <<workState, should_quit, queue, wmQuit, loop, held, more, post, refused, world>>

\* The time of the last one stays behind.
DoDelayedRun ==
    /\ InDoDelayed /\ running = Null /\ delayedWorkQueue # {} /\ Earliest.due <= now
    /\ LET rest == delayedWorkQueue \ {Earliest}
       IN  /\ delayedWorkQueue' = rest
           /\ delayedWorkTime' = IF rest = {} THEN delayedWorkTime
                                 ELSE (CHOOSE x \in rest : \A y \in rest : x.due <= y.due).due
    /\ TimerHeard
    /\ runTask(Earliest.task, AfterDelayed)
    /\ UNCHANGED <<workState, should_quit, queue, wmQuit, incomingQueue, work_queue, ran, held, more,
                   post, refused, world>>

\* The end of handleTimerMessage.
Rearm ==
    /\ pc = "rearm"
    /\ IF delayedWorkTime # 0 THEN scheduleDelayedWork(delayedWorkTime)
                              ELSE UNCHANGED <<delayedWorkTime, timer>>
    /\ Return
    /\ UNCHANGED <<workState, should_quit, queue, wmQuit, loop, held, more, post, refused, world>>

\* The end of handleWorkMessage, when doWork has run a task.
Resched ==
    /\ pc = "resched"
    /\ scheduleWork
    /\ Return
    /\ UNCHANGED <<delayedWorkTime, should_quit, wmQuit, timer, loop, held, more, post, world>>
-----------------------------------------------------------------------------
(* Loops of the system: onMessage. *)

ModalWork ==
    /\ pc = "modal" /\ Message = "work"
    /\ Replace(Tail(queue), <<"modal", "handle">>)
    /\ UNCHANGED <<pump, loop, more, post, refused, world>>

ModalTimer ==
    /\ pc = "modal" /\ Message = "timer"
    /\ Taken
    /\ pc' = "timer" /\ Push(<<"modal">>)
    /\ UNCHANGED <<pump, loop, held, more, post, refused, world>>

ModalUser ==
    /\ pc = "modal" /\ Message = "user"
    /\ Taken
    /\ Goto("modal")
    /\ UNCHANGED <<pump, loop, held, more, post, refused, world>>

\* The user closes it, or it has met WM_QUIT and posted it again.
ModalEnds ==
    /\ pc = "modal"
    /\ Return
    /\ UNCHANGED <<pump, system, loop, held, more, post, refused, world>>

\* Outside of run only the flag is put back.
ForeignDispatch ==
    /\ pc = "foreign" /\ Message \in {"work", "user"}
    /\ Taken
    /\ workState' = IF Message = "work" THEN READY ELSE workState
    /\ UNCHANGED <<delayedWorkTime, should_quit, loop, control, post, refused, world>>
-----------------------------------------------------------------------------
(* Other threads, users, the clock. *)

\* addToIncomingQueue: only the post that finds the queue empty goes on.
Post(p, task) ==
    /\ post[p] = "idle" /\ task \notin posted
    /\ posted' = posted \cup {task}
    /\ incomingQueue' = Append(incomingQueue,
          [task |-> task, due |-> IF Delay[task] = 0 THEN 0 ELSE now + Delay[task]])
    /\ post' = [post EXCEPT ![p] = IF incomingQueue = <<>> THEN "exchange" ELSE "idle"]
    /\ UNCHANGED <<pump, system, work_queue, delayedWorkQueue, running, ran, control, refused, users, now>>

Exchange_Unchecked(p) ==
    /\ post[p] = "exchange"
    /\ workState' = HAVE_WORK
    /\ post' = [post EXCEPT ![p] = "post"]
    /\ UNCHANGED <<delayedWorkTime, should_quit, system, loop, control, refused, world>>

\* scheduleWork on another thread.
Exchange(p) ==
    /\ post[p] = "exchange"
    /\ workState' = HAVE_WORK
    /\ post' = [post EXCEPT ![p] = IF workState = READY THEN "post" ELSE "idle"]
    /\ UNCHANGED <<delayedWorkTime, should_quit, system, loop, control, refused, world>>

PostMessage(p) ==
    /\ post[p] = "post"
    /\ IF Len(queue) < Capacity
       THEN /\ queue' = Append(queue, "work")
            /\ post' = [post EXCEPT ![p] = "idle"]
            /\ UNCHANGED refused
       ELSE /\ post' = [post EXCEPT ![p] = "undo"]
            /\ refused' = TRUE
            /\ UNCHANGED queue
    /\ UNCHANGED <<pump, wmQuit, timer, loop, control, world>>

Undo(p) ==
    /\ post[p] = "undo"
    /\ workState' = READY
    /\ post' = [post EXCEPT ![p] = "idle"]
    /\ UNCHANGED <<delayedWorkTime, should_quit, system, loop, control, refused, world>>

UserPosts ==
    /\ users < MaxUser
    /\ users' = users + 1
    /\ \/ Len(queue) < Capacity /\ queue' = Append(queue, "user") /\ UNCHANGED wmQuit
       \/ wmQuit' = TRUE /\ UNCHANGED queue
    /\ UNCHANGED <<pump, timer, loop, control, post, refused, posted, now>>

Tick ==
    /\ now < MaxTime
    /\ now' = now + 1
    /\ UNCHANGED <<pump, system, loop, control, post, refused, posted, users>>

Pump ==
    \/ PeekUser \/ PeekTimer \/ PeekQuit \/ PeekNone \/ PeekWork \/ Reset \/ Again \/ Dispatch
    \/ Leave \/ Settle \/ waitForWork
    \/ ReturnTask \/ DoWorkNothing \/ DoWorkReload \/ DoWorkDelay \/ DoWorkRun
    \/ DoDelayedNothing \/ DoDelayedNotYet \/ DoDelayedRun \/ Rearm \/ Resched
    \/ ModalWork \/ ModalTimer \/ ModalUser

Scheduling(p) == Exchange(p) \/ PostMessage(p) \/ Undo(p)

\* The pump waits for messages; after run it does nothing.
Rest == pc \in {"wait", "left"} /\ UNCHANGED vars

Next ==
    \/ run \/ Pump \/ ModalEnds \/ ForeignDispatch
    \/ \E p \in Poster : Scheduling(p) \/ \E task \in Task : Post(p, task)
    \/ UserPosts \/ Tick
    \/ Rest

\* Threads go on, and a modal loop is ended some day.
Fairness ==
    /\ WF_vars(run) /\ WF_vars(Pump) /\ SF_vars(ModalEnds)
    /\ \A p \in Poster : WF_vars(Scheduling(p))

Spec == Init /\ [][Next]_vars /\ Fairness
-----------------------------------------------------------------------------
\* The assertions at lines 304 and 308: behind the kMsgHaveWork that is
\* replaced there is no second one, and the flag is still set.
OneWorkMessage == pc = "reset" => held # "work" /\ workState = HAVE_WORK

\* "Make sure the MessagePump does some work for us" (line 38): while the pump
\* sleeps, no task waits for it, unless a message or the announcement by its
\* poster is still to come; a full queue aside, as the comment above line 49 says.
PumpWakes ==
    pc = "wait" /\ (incomingQueue # <<>> \/ work_queue # <<>>) =>
        Message # "none" \/ refused \/ \E p \in Poster : post[p] \in {"exchange", "post"}

\* "If we changed the topmost task, then it is time to reschedule"
\* (message_loop.cpp:260): while the pump sleeps and nothing is about to wake
\* it, the timer is set for the earliest delayed task.
TimerForEarliest ==
    pc = "wait" /\ Message = "none" /\ (\A p \in Poster : post[p] = "idle") /\ delayedWorkQueue # {} =>
        timer # 0 /\ timer <= Earliest.due
=============================================================================
