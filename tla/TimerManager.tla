---------------------------- MODULE TimerManager ----------------------------
(***************************************************************************)
(* TimerManager (src/timer_manager.cpp): one worker thread, a table of     *)
(* timers, a queue of due times and a stack of ids to reuse, all under m_. *)
(* The worker calls a handler with the mutex released, so that add and     *)
(* remove, from other threads or from the handler itself, run in between,  *)
(* those of other threads also between the unlock and the call.            *)
(*                                                                         *)
(* A critical section is one action; the notify_all that add, remove and   *)
(* destory make after the unlock is another (signalling).  Ids start at 1  *)
(* here, at 0 in the code.  A Timer is one call of add; handle is the id   *)
(* that call returned, which the caller may pass to remove at any time.    *)
(***************************************************************************)
EXTENDS Integers, Sequences, FiniteSets, SequencesExt

CONSTANTS
    Worker,     \* the worker thread
    Client,     \* other threads
    Timer,      \* the calls of add
    Delay,      \* Timer -> when, relative to the call; negative is the past
    Period,     \* Timer -> period, 0 for a one-shot timer
    MaxTime     \* bound of the clock

ASSUME ThreadAssumption == Worker \notin Client
ASSUME TimerAssumption == Delay \in [Timer -> Int] /\ Period \in [Timer -> Nat]
ASSUME TimeAssumption == MaxTime \in Nat

Thread == Client \cup {Worker}

VARIABLES
    events,         \* the table: id -> [timer, period, valid]
    time_events,    \* due times, earliest first, equal ones in order of insertion
    free_ids,       \* stack of ids, top last
    done,           \* done_
    pc,             \* of the worker: "none" | "check" | "wait" | "waitUntil" | "taken" (unlocked,
                    \* the handler not yet called) | "handler" | "exited"
    te,             \* the event the worker took, or waits for
    signalling,     \* threads between the unlock and the notify_all
    owner,          \* destory: "no" | "notify" | "join" | "destroyed"
    now,
    handle,         \* history: timer -> id returned by add, 0 before
    fired,          \* history: timer -> number of handler calls
    removed,        \* history: timers cancelled by remove
    late            \* history: those cancelled when taken, that are still to be called

tables == <<events, time_events, free_ids>>
history == <<handle, fired, removed, late>>
vars == <<tables, done, pc, te, signalling, owner, now, history>>

Ids == DOMAIN events
Event == [next : Int, ref : Nat]
ScheduledIds == {time_events[i].ref : i \in DOMAIN time_events}
FreeIds == {free_ids[i] : i \in DOMAIN free_ids}
InHandler == IF pc \in {"taken", "handler"} THEN {te.ref} ELSE {}

TypeOK ==
    /\ events \in Seq([timer : Timer, period : Nat, valid : BOOLEAN])
    /\ time_events \in Seq(Event)
    /\ \A i, j \in DOMAIN time_events : i < j => time_events[i].next <= time_events[j].next
    /\ free_ids \in Seq(Nat)
    /\ done \in BOOLEAN
    /\ pc \in {"none", "check", "wait", "waitUntil", "taken", "handler", "exited"}
    /\ te \in Event
    /\ signalling \subseteq Thread
    /\ owner \in {"no", "notify", "join", "destroyed"}
    /\ done <=> owner # "no"
    /\ now \in Nat
    /\ handle \in [Timer -> Nat]
    /\ fired \in [Timer -> Nat]
    /\ removed \subseteq Timer /\ late \subseteq Timer

Init ==
    /\ events = <<>> /\ time_events = <<>> /\ free_ids = <<>>
    /\ done = FALSE
    /\ pc = "none"
    /\ te = [next |-> 0, ref |-> 0]
    /\ signalling = {}
    /\ owner = "no"
    /\ now = 0
    /\ handle = [t \in Timer |-> 0]
    /\ fired = [t \in Timer |-> 0]
    /\ removed = {} /\ late = {}

\* Starts the worker.
init ==
    /\ pc = "none" /\ owner = "no"
    /\ pc' = "check"
    /\ UNCHANGED <<tables, done, te, signalling, owner, now, history>>

\* A thread that may call add or remove: not inside a call, the handler's
\* thread only from the handler, and the others only before destory.
MayCall(c) ==
    /\ c \notin signalling
    /\ IF c = Worker THEN pc = "handler" ELSE owner = "no"

\* The upper bound of e in a sorted queue: how many events are not later.
upper_bound(q, e) ==
    CHOOSE n \in 0 .. Len(q) :
        /\ \A i \in 1 .. n : q[i].next <= e.next
        /\ \A i \in n + 1 .. Len(q) : q[i].next > e.next

insert_Last(q, e) == Append(q, e)

\* multiset::insert: behind the events that are not later.
insert(q, e) == InsertAt(q, upper_bound(q, e) + 1, e)

\* Entry of the table for a call t of add.
TimerData(t) == [timer |-> t, period |-> Period[t], valid |-> TRUE]

AddNew(c, t) ==
    /\ free_ids = <<>>
    /\ events' = Append(events, TimerData(t))
    /\ handle' = [handle EXCEPT ![t] = Len(events) + 1]
    /\ UNCHANGED free_ids

AddReused_Keeps(c, t) ==
    /\ free_ids # <<>>
    /\ LET id == free_ids[Len(free_ids)] IN
       /\ events' = [events EXCEPT ![id] = TimerData(t)]
       /\ handle' = [handle EXCEPT ![t] = id]
    /\ UNCHANGED free_ids

AddReused(c, t) ==
    /\ free_ids # <<>>
    /\ LET id == free_ids[Len(free_ids)] IN
       /\ events' = [events EXCEPT ![id] = TimerData(t)]
       /\ handle' = [handle EXCEPT ![t] = id]
    /\ free_ids' = SubSeq(free_ids, 1, Len(free_ids) - 1)

add(c, t) ==
    /\ MayCall(c)
    /\ handle[t] = 0
    /\ now + Delay[t] <= MaxTime
    /\ AddNew(c, t) \/ AddReused(c, t)
    /\ time_events' = insert(time_events, [next |-> now + Delay[t], ref |-> handle'[t]])
    /\ signalling' = signalling \cup {c}
    /\ UNCHANGED <<done, pc, te, owner, now, fired, removed, late>>

\* What remove(id) returns.
RemoveResult(id) == events # <<>> /\ id <= Len(events)

\* Where find_if finds the event of an id.
find(id) ==
    CHOOSE i \in DOMAIN time_events :
        time_events[i].ref = id /\ \A j \in 1 .. i - 1 : time_events[j].ref # id

\* The timer of id, if there still is one, is cancelled.
Cancel(id) ==
    LET t == IF events[id].valid THEN {events[id].timer} ELSE {} IN
    /\ removed' = removed \cup t
    /\ late' = IF pc = "taken" /\ te.ref = id THEN late \cup t ELSE late

remove_AlwaysFrees(c, id) ==
    /\ MayCall(c)
    /\ RemoveResult(id)
    /\ events' = [events EXCEPT ![id].valid = FALSE]
    /\ time_events' = IF id \in ScheduledIds THEN RemoveAt(time_events, find(id)) ELSE time_events
    /\ free_ids' = Append(free_ids, id)
    /\ Cancel(id)
    /\ signalling' = signalling \cup {c}
    /\ UNCHANGED <<done, pc, te, owner, now, handle, fired>>

\* The id is free again only if it was scheduled; in its own handler it is not.
remove(c, id) ==
    /\ MayCall(c)
    /\ RemoveResult(id)
    /\ events' = [events EXCEPT ![id].valid = FALSE]
    /\ IF id \in ScheduledIds
       THEN /\ time_events' = RemoveAt(time_events, find(id))
            /\ free_ids' = Append(free_ids, id)
       ELSE UNCHANGED <<time_events, free_ids>>
    /\ Cancel(id)
    /\ signalling' = signalling \cup {c}
    /\ UNCHANGED <<done, pc, te, owner, now, handle, fired>>

Notified_OnlyWait == IF pc = "wait" THEN "check" ELSE pc

\* cond_.notify_all(): the worker, if it waits, runs its loop again.
Notified == IF pc \in {"wait", "waitUntil"} THEN "check" ELSE pc

NotifyAll(c) ==
    /\ c \in signalling
    /\ signalling' = signalling \ {c}
    /\ pc' = Notified
    /\ UNCHANGED <<tables, done, te, owner, now, history>>
-----------------------------------------------------------------------------
(* The worker: one turn of the loop of run. *)

Exit ==
    /\ pc = "check" /\ done
    /\ pc' = "exited"
    /\ UNCHANGED <<tables, done, te, signalling, owner, now, history>>

Wait ==
    /\ pc = "check" /\ ~done
    /\ time_events = <<>>
    /\ pc' = "wait"
    /\ UNCHANGED <<tables, done, te, signalling, owner, now, history>>

WaitUntil ==
    /\ pc = "check" /\ ~done
    /\ time_events # <<>> /\ Head(time_events).next > now
    /\ pc' = "waitUntil"
    /\ te' = Head(time_events)
    /\ UNCHANGED <<tables, done, signalling, owner, now, history>>

\* A due event is taken from the queue, and the mutex released.
Take ==
    /\ pc = "check" /\ ~done
    /\ time_events # <<>> /\ Head(time_events).next <= now
    /\ te' = Head(time_events)
    /\ time_events' = Tail(time_events)
    /\ pc' = "taken"
    /\ UNCHANGED <<events, free_ids, done, signalling, owner, now, history>>

\* The handler is called, without the mutex and without another look at valid.
Call ==
    /\ pc = "taken"
    /\ pc' = "handler"
    /\ LET t == events[te.ref].timer IN
       /\ fired' = [fired EXCEPT ![t] = @ + 1]
       /\ late' = late \ {t}
    /\ UNCHANGED <<tables, done, te, signalling, owner, now, handle, removed>>

HandlerReturns_AlwaysAgain ==
    /\ pc = "handler" /\ Worker \notin signalling
    /\ LET e == events[te.ref] IN
       IF e.valid
       THEN /\ time_events' = insert(time_events, [te EXCEPT !.next = @ + e.period])
            /\ UNCHANGED <<events, free_ids>>
       ELSE /\ events' = [events EXCEPT ![te.ref].valid = FALSE]
            /\ free_ids' = Append(free_ids, te.ref)
            /\ UNCHANGED time_events
    /\ pc' = "check"
    /\ UNCHANGED <<done, te, signalling, owner, now, history>>

\* The handler returns, or throws an std::exception, which is swallowed.  A
\* periodic timer nobody removed is due one period after its last due time.
HandlerReturns ==
    /\ pc = "handler" /\ Worker \notin signalling
    /\ LET e == events[te.ref] IN
       IF e.valid /\ e.period > 0
       THEN /\ time_events' = insert(time_events, [te EXCEPT !.next = @ + e.period])
            /\ UNCHANGED <<events, free_ids>>
       ELSE /\ events' = [events EXCEPT ![te.ref].valid = FALSE]
            /\ free_ids' = Append(free_ids, te.ref)
            /\ UNCHANGED time_events
    /\ pc' = "check"
    /\ UNCHANGED <<done, te, signalling, owner, now, history>>

Timeout ==
    /\ pc = "waitUntil" /\ te.next <= now
    /\ pc' = "check"
    /\ UNCHANGED <<tables, done, te, signalling, owner, now, history>>

SpuriousWake ==
    /\ pc \in {"wait", "waitUntil"}
    /\ pc' = "check"
    /\ UNCHANGED <<tables, done, te, signalling, owner, now, history>>
-----------------------------------------------------------------------------
(* destory, by the owner of the manager. *)

DestoryBegin ==
    /\ owner = "no" /\ signalling \subseteq {Worker}
    /\ done' = TRUE
    /\ owner' = "notify"
    /\ UNCHANGED <<tables, pc, te, signalling, now, history>>

DestoryNotify ==
    /\ owner = "notify"
    /\ owner' = "join"
    /\ pc' = Notified
    /\ UNCHANGED <<tables, done, te, signalling, now, history>>

\* The worker has ended, or was never started.
DestoryJoin ==
    /\ owner = "join" /\ pc \in {"exited", "none"}
    /\ owner' = "destroyed"
    /\ events' = <<>> /\ time_events' = <<>> /\ free_ids' = <<>>
    /\ UNCHANGED <<done, pc, te, signalling, now, history>>
-----------------------------------------------------------------------------
Tick ==
    /\ now < MaxTime
    /\ now' = now + 1
    /\ UNCHANGED <<tables, done, pc, te, signalling, owner, history>>

Destroyed == owner = "destroyed" /\ UNCHANGED vars

WorkerStep == Exit \/ Wait \/ WaitUntil \/ Take \/ Call \/ HandlerReturns \/ Timeout

Next ==
    \/ init
    \/ \E c \in Thread :
          \/ \E t \in Timer : add(c, t) \/ (handle[t] # 0 /\ remove(c, handle[t]))
          \/ NotifyAll(c)
    \/ WorkerStep \/ SpuriousWake
    \/ DestoryBegin \/ DestoryNotify \/ DestoryJoin
    \/ Tick \/ Destroyed

\* The threads inside the manager get the processor and time passes; a handler
\* returns however often it calls remove (hence strong fairness).  Nobody has
\* to call add, remove or destory.
Fairness ==
    /\ WF_vars(WorkerStep) /\ SF_vars(HandlerReturns)
    /\ \A c \in Thread : WF_vars(NotifyAll(c))
    /\ WF_vars(DestoryNotify) /\ WF_vars(DestoryJoin)
    /\ WF_vars(Tick)

Spec == Init /\ [][Next]_vars /\ Fairness
-----------------------------------------------------------------------------
\* Every id is in one place: waiting in the queue, in the handler that runs,
\* or free for reuse, and in each at most once.  run reads events_[te.ref]
\* after the handler, when add and remove have used the tables.  The entries of
\* free ids are invalid, those of scheduled ids valid: nothing removed stays
\* scheduled, nothing scheduled is given away.
IdsPartitioned ==
    /\ Ids = ScheduledIds \cup InHandler \cup FreeIds
    /\ Len(events) = Len(time_events) + Cardinality(InHandler) + Len(free_ids)
    /\ \A id \in ScheduledIds : events[id].valid
    /\ \A id \in FreeIds : ~events[id].valid

\* The worker sleeps at most to the earliest due time, or a notify is to come.
NoLostWakeup ==
    signalling = {} /\ owner # "notify" =>
        /\ pc = "wait" => time_events = <<>> /\ ~done
        /\ pc = "waitUntil" => ~done /\
              (time_events # <<>> => te.next <= Head(time_events).next)

\* A timer that was removed is not called, even if remove ran inside of its
\* handler, but for this: if the worker had taken its event and not yet called
\* it, that one call is still to come (remove does not wait for it).  And a
\* one-shot timer is called at most once.
FiredAsAsked ==
    [][\A t \in Timer : fired'[t] # fired[t] =>
          /\ t \in removed => t \in late /\ t \notin late'
          /\ Period[t] = 0 => fired[t] = 0]_vars

\* Every one-shot timer that is not removed fires, unless the manager is
\* destroyed or was never started.
OneShotFires ==
    \A t \in Timer : Period[t] = 0 /\ handle[t] # 0 /\ pc # "none"
                        ~> fired[t] > 0 \/ t \in removed \/ done
=============================================================================
