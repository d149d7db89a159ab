------------------------------- MODULE WinTimer -------------------------------
(* WinTimerBase (win/timer.cpp): an owner that starts, stops and deletes a    *)
(* timer whose callbacks run on the threads of the timer queue, several at a  *)
(* time. The queue is external; a timer of it is called by its number. A      *)
(* callback that stops its own timer is not modelled.                         *)
EXTENDS Naturals, TLAPS

CONSTANTS
    MaxTimers,      \* how often start creates a timer
    MaxCallbacks    \* callbacks of one timer at a time

ConstantsOK == MaxTimers \in Nat /\ MaxCallbacks \in Nat \ {0}

VARIABLES
    m_hTimer,       \* 0 is NULL
    timerQueue,     \* of each timer: "new", "once", "periodic", "fired" or "deleted"
    inCallback,     \* callbacks of each timer that are under way
    stopper,        \* the owner: "idle", "waiting" inside stop(true), or "gone" with the object
    unwaited        \* timers that stop(false) has deleted

timerVars == <<m_hTimer, timerQueue, inCallback, stopper, unwaited>>

Timer == 1..MaxTimers
Live(t) == timerQueue[t] \in {"once", "periodic"}

start(bOnce) ==
    /\ stopper = "idle" /\ m_hTimer = 0
    /\ \E t \in Timer :
        /\ timerQueue[t] = "new" /\ \A s \in Timer : s < t => timerQueue[s] # "new"
        /\ m_hTimer' = t
        /\ timerQueue' = [timerQueue EXCEPT ![t] = IF bOnce THEN "once" ELSE "periodic"]
    /\ UNCHANGED <<inCallback, stopper, unwaited>>

\* DeleteTimerQueueTimer takes the timer out at once, and waits if it is told to.
stop(bWait) ==
    /\ stopper = "idle" /\ m_hTimer # 0
    /\ timerQueue' = [timerQueue EXCEPT ![m_hTimer] = "deleted"]
    /\ IF bWait
       THEN stopper' = "waiting" /\ UNCHANGED <<m_hTimer, unwaited>>
       ELSE m_hTimer' = 0 /\ unwaited' = unwaited \cup {m_hTimer} /\ UNCHANGED stopper
    /\ UNCHANGED inCallback

stopReturns ==
    /\ stopper = "waiting" /\ inCallback[m_hTimer] = 0
    /\ m_hTimer' = 0 /\ stopper' = "idle"
    /\ UNCHANGED <<timerQueue, inCallback, unwaited>>

\* The destructor stops nothing: a user who has waited in each stop may call it.
Delete ==
    /\ stopper = "idle" /\ m_hTimer = 0 /\ unwaited = {}
    /\ stopper' = "gone"
    /\ UNCHANGED <<m_hTimer, timerQueue, inCallback, unwaited>>

TimerProc(t) ==
    /\ Live(t) /\ inCallback[t] < MaxCallbacks
    /\ inCallback' = [inCallback EXCEPT ![t] = @ + 1]
    /\ timerQueue' = IF timerQueue[t] = "once" THEN [timerQueue EXCEPT ![t] = "fired"] ELSE timerQueue
    /\ UNCHANGED <<m_hTimer, stopper, unwaited>>

CallbackReturns(t) ==
    /\ inCallback[t] > 0
    /\ inCallback' = [inCallback EXCEPT ![t] = @ - 1]
    /\ UNCHANGED <<m_hTimer, timerQueue, stopper, unwaited>>

Rest == (stopper = "gone" \/ \A t \in Timer : timerQueue[t] # "new") /\ UNCHANGED timerVars

Init ==
    /\ m_hTimer = 0 /\ stopper = "idle" /\ unwaited = {}
    /\ timerQueue = [t \in Timer |-> "new"] /\ inCallback = [t \in Timer |-> 0]

Next ==
    \/ \E b \in BOOLEAN : start(b) \/ stop(b)
    \/ stopReturns \/ Delete \/ Rest
    \/ \E t \in Timer : TimerProc(t) \/ CallbackReturns(t)

TypeOK ==
    /\ m_hTimer \in 0..MaxTimers /\ unwaited \subseteq Timer
    /\ timerQueue \in [Timer -> {"new", "once", "periodic", "fired", "deleted"}]
    /\ inCallback \in [Timer -> 0..MaxCallbacks]
    /\ stopper \in {"idle", "waiting", "gone"}

\* A stop(true) that has returned leaves no callback behind, under way or to come,
\* whatever was started and stopped before, and one that uses the object has not
\* begun when the object is gone. A stop(false) leaves those that had begun, and a
\* stop(true) after it finds no timer to wait for.
NoneLeft ==
    /\ \A t \in Timer : Live(t) => t = m_hTimer
    /\ \A t \in Timer : inCallback[t] > 0 => t = m_hTimer \/ t \in unwaited
    /\ stopper = "gone" => \A t \in Timer : inCallback[t] = 0 /\ ~Live(t)

\* stop(true) returns once the callbacks have.
StopEnds == stopper = "waiting" ~> stopper # "waiting"

-----------------------------------------------------------------------------
\* While stop(true) waits its timer is out of the queue, and the owner who deletes
\* the object has nothing left that he did not wait for.
Handed ==
    /\ stopper = "waiting" => m_hTimer \in Timer /\ timerQueue[m_hTimer] = "deleted"
    /\ stopper = "gone" => m_hTimer = 0 /\ unwaited = {}

IInv == TypeOK /\ Handed /\ NoneLeft

LEMMA TimerInit == ASSUME ConstantsOK, Init PROVE IInv
  BY DEF ConstantsOK, Init, IInv, TypeOK, Handed, NoneLeft, Live, Timer

LEMMA TimerStep == ASSUME ConstantsOK, IInv, [Next]_timerVars PROVE IInv'
<1> USE DEF ConstantsOK, IInv, TypeOK, Handed, NoneLeft, Live, Timer
<1>1. ASSUME NEW b \in BOOLEAN, start(b) PROVE IInv'
  BY <1>1 DEF start
<1>2. ASSUME NEW b \in BOOLEAN, stop(b) PROVE IInv'
  <2> USE <1>2 DEF stop
  <2>1. m_hTimer \in Timer
    OBVIOUS
  <2>2. timerQueue' \in [Timer -> {"new", "once", "periodic", "fired", "deleted"}]
    OBVIOUS
  <2>3. timerQueue'[m_hTimer] = "deleted" /\ \A t \in Timer : ~Live(t)'
    BY <2>1
  <2>4. CASE b
    <3>1. stopper' = "waiting" /\ m_hTimer' = m_hTimer /\ unwaited' = unwaited
      BY <2>4
    <3> QED BY <2>1, <2>2, <2>3, <3>1
  <2>5. CASE ~b
    <3>1. m_hTimer' = 0 /\ unwaited' = unwaited \cup {m_hTimer} /\ stopper' = stopper
      BY <2>5
    <3> QED BY <2>1, <2>2, <2>3, <3>1
  <2> QED BY <2>4, <2>5
<1>3. CASE stopReturns
  BY <1>3 DEF stopReturns
<1>4. CASE Delete
  BY <1>4 DEF Delete
<1>5. ASSUME NEW t \in Timer, TimerProc(t) PROVE IInv'
  BY <1>5 DEF TimerProc
<1>6. ASSUME NEW t \in Timer, CallbackReturns(t) PROVE IInv'
  BY <1>6 DEF CallbackReturns
<1>7. CASE Rest \/ UNCHANGED timerVars
  BY <1>7 DEF Rest, timerVars
<1> QED BY <1>1, <1>2, <1>3, <1>4, <1>5, <1>6, <1>7 DEF Next

\* What a stop that waits promises (timer.cpp:46), for any number of timers and of
\* callbacks at a time: no callback uses a timer that was stopped so, or deleted.
THEOREM StoppedIsQuiet ==
    ASSUME ConstantsOK
    PROVE  Init /\ [][Next]_timerVars => []NoneLeft
<1>1. Init => IInv
  BY TimerInit
<1>2. IInv /\ [Next]_timerVars => IInv'
  BY TimerStep
<1>3. IInv => NoneLeft
  BY DEF IInv
<1> QED BY <1>1, <1>2, <1>3, PTL
=============================================================================
