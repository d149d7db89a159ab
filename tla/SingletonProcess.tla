-------------------------- MODULE SingletonProcess --------------------------
(***************************************************************************)
(* SingletonProcess (src/singleton_process.cpp): programs that agree on a  *)
(* name find out which of them came first.  Windows: a named event that    *)
(* the first one creates, a second event and a shared buffer through which *)
(* the others send it their command lines.  POSIX: a lock on a file.  The  *)
(* build that is followed is chosen at the start.  Any of the calls that   *)
(* create and open these objects may fail.  A program may end or crash at  *)
(* any point, and be started again; the kernel then closes what it had     *)
(* open, and a named object is gone with its last handle.                  *)
(*                                                                         *)
(* pc is the place of a program in check (Windows) and after:              *)
(*   off        not started                                                *)
(*   events     primary, between the creation of the two events            *)
(*   mapping    primary, the file mapping is next                          *)
(*   open       secondary, it opens the startup event next                 *)
(*   attach     secondary, it opens the mapping next                       *)
(*   copy       secondary, the buffer is cleared and it copies next        *)
(*   signal     secondary, it sets the startup event next                  *)
(*   up         check has returned                                         *)
(*   closing    in the destructor, after CloseHandle(mutex_)               *)
(* listener is the place of the thread that a primary starts in check: it  *)
(* waits for the startup event, was woken by it, or has read the buffer.   *)
(***************************************************************************)
EXTENDS Naturals

CONSTANTS
    Program,
    Systems,    \* the builds considered, of "posix" and "windows"
    Empty,      \* the buffer of zeros
    MaxRuns,    \* bound on the starts of all programs
    MaxFailures \* bound on the calls that fail in them

ConstantsOK ==
    /\ Systems \subseteq {"posix", "windows"}
    /\ Empty \notin Program /\ {MaxRuns, MaxFailures} \subseteq Nat

VARIABLES
    system,
    pc,
    isPrimary,      \* isPrimary_
    named,          \* windows: who has a handle of the event named uniqueName_
    startup,        \* ... of the startup event
    mapped,         \* ... of the shared buffer
    viewed,         \* ... and it is mapped into memory
    set,            \* the startup event is set
    buffer,         \* whose command line is in the shared buffer, or Empty
    callback,       \* primaries whose cb_ is not empty
    listener,
    cml,            \* secondaryCML of the listener
    heard,          \* programs whose last command line the callback was given
    locker,         \* posix: who has the lock, a set of at most one
    runs,
    failures,       \* calls that failed so far
    expected        \* history: the programs that have to be heard (see Start)

kernel == <<named, startup, mapped, viewed, set, buffer, locker>>
answering == <<callback, listener, cml>>
vars == <<system, pc, isPrimary, kernel, answering, heard, runs, failures, expected>>

TypeOK ==
    /\ system \in Systems /\ set \in BOOLEAN /\ expected \subseteq Program
    /\ pc \in [Program -> {"off", "events", "mapping", "open", "attach", "copy", "signal", "up",
                           "closing"}]
    /\ isPrimary \in [Program -> BOOLEAN]
    /\ named \cup startup \cup mapped \cup callback \subseteq {p \in Program : pc[p] # "off"}
    /\ viewed \subseteq mapped
    /\ (startup = {} => ~set) /\ (mapped = {} => buffer = Empty)
    /\ listener \in [Program -> {"waiting", "woken", "reading"}]
    /\ cml \in [Program -> Program \cup {Empty}]
    /\ buffer \in Program \cup {Empty} /\ heard \subseteq Program \cup {Empty}
    /\ locker \subseteq {p \in Program : pc[p] # "off"} /\ \A p, q \in locker : p = q
    /\ runs \in 0 .. MaxRuns /\ failures \in 0 .. MaxFailures

Init ==
    /\ system \in Systems
    /\ pc = [p \in Program |-> "off"] /\ isPrimary = [p \in Program |-> TRUE]
    /\ named = {} /\ startup = {} /\ mapped = {} /\ viewed = {} /\ locker = {}
    /\ set = FALSE /\ buffer = Empty /\ heard = {}
    /\ callback = {} /\ listener = [p \in Program |-> "waiting"]
    /\ cml = [p \in Program |-> Empty]
    /\ runs = 0 /\ failures = 0 /\ expected = {}

Goto(p, l) == pc' = [pc EXCEPT ![p] = l]
-----------------------------------------------------------------------------
\* The primary's listener, which can be woken when the event was created.
Listener(p) == pc[p] = "up" /\ isPrimary[p] /\ p \in startup

\* There is a listener, and all there are have a callback and the buffer.
Attended ==
    /\ \E p \in Program : Listener(p)
    /\ \A p \in Program : Listener(p) => p \in callback \cap viewed

\* No program is in check and none is being heard.
Quiet ==
    /\ \A p \in Program : pc[p] \in {"off", "up", "closing"} /\ listener[p] = "waiting"
    /\ ~set

\* Who starts as a secondary while somebody listens and no other start is under
\* way is to be heard; another start before it was, a failure of its own calls and
\* the end of a primary take that away.
Start(p, asSecondary) ==
    /\ runs' = runs + 1
    /\ heard' = heard \ {p}
    /\ expected' = ((expected \cap heard) \ {p})
                     \cup IF asSecondary /\ Quiet /\ Attended THEN {p} ELSE {}

(* check. *)

Fail == failures < MaxFailures /\ failures' = failures + 1
Succeed == UNCHANGED failures

\* CreateEvent creates the event or opens it, in one step of the kernel.  It
\* may fail: with ERROR_ACCESS_DENIED the program takes itself for a secondary,
\* with another error for the primary.
CreateMutex(p) ==
    /\ system = "windows" /\ pc[p] = "off" /\ runs < MaxRuns
    /\ \E first \in BOOLEAN :
        /\ \/ Succeed /\ first = (named = {}) /\ named' = named \cup {p}
           \/ Fail /\ UNCHANGED named
        /\ isPrimary' = [isPrimary EXCEPT ![p] = first]
        /\ Goto(p, IF first THEN "events" ELSE "open")
        /\ Start(p, ~first)
    /\ UNCHANGED <<system, startup, mapped, viewed, set, buffer, locker, answering>>

\* Failures are asserted against in a debug build, where the program ends; the
\* release build goes on without the object.
CreateStartupEvent(p) ==
    /\ pc[p] = "events"
    /\ \/ Succeed /\ startup' = startup \cup {p}
       \/ Fail /\ UNCHANGED startup
    /\ Goto(p, "mapping")
    /\ UNCHANGED <<system, isPrimary, named, mapped, viewed, set, buffer, locker, answering, heard,
                   runs, expected>>

\* The listener starts at once.
CreateMapping(p) ==
    /\ pc[p] = "mapping"
    /\ \/ Succeed /\ mapped' = mapped \cup {p} /\ viewed' = viewed \cup {p}
       \/ Fail /\ mapped' \in {mapped, mapped \cup {p}} /\ UNCHANGED viewed
    /\ Goto(p, "up")
    /\ UNCHANGED <<system, isPrimary, named, startup, set, buffer, locker, answering, heard,
                   runs, expected>>

\* Without the event nothing more is done.
OpenStartupEvent(p) ==
    /\ pc[p] = "open"
    /\ \/ /\ startup # {} /\ Succeed /\ startup' = startup \cup {p}
          /\ Goto(p, "attach")
          /\ UNCHANGED expected
       \/ /\ IF startup = {} THEN Succeed ELSE Fail
          /\ Goto(p, "up")
          /\ expected' = expected \ {p}
          /\ UNCHANGED startup
    /\ UNCHANGED <<system, isPrimary, named, mapped, viewed, set, buffer, locker, answering, heard,
                   runs>>

\* The buffer is cleared when it could be mapped; the event is set in any case.
OpenMapping(p) ==
    /\ pc[p] = "attach"
    /\ \/ /\ mapped # {} /\ Succeed /\ mapped' = mapped \cup {p} /\ viewed' = viewed \cup {p}
          /\ buffer' = Empty
          /\ Goto(p, "copy")
          /\ UNCHANGED expected
       \/ /\ IF mapped = {} THEN Succeed /\ UNCHANGED mapped
                            ELSE Fail /\ mapped' \in {mapped, mapped \cup {p}}
          /\ Goto(p, "signal")
          /\ expected' = expected \ {p}
          /\ UNCHANGED <<viewed, buffer>>
    /\ UNCHANGED <<system, isPrimary, named, startup, set, locker, answering, heard, runs>>

CopyCommandLine_AfterSignal(p) ==
    /\ pc[p] = "copy"
    /\ set' = TRUE /\ UNCHANGED buffer
    /\ Goto(p, "signal")
    /\ UNCHANGED <<system, isPrimary, named, startup, mapped, viewed, locker, answering, heard,
                   runs, failures, expected>>

CopyCommandLine(p) ==
    /\ pc[p] = "copy"
    /\ buffer' = p
    /\ Goto(p, "signal")
    /\ UNCHANGED <<system, isPrimary, named, startup, mapped, viewed, set, locker, answering, heard,
                   runs, failures, expected>>

SetStartupEvent(p) ==
    /\ pc[p] = "signal"
    /\ set' = TRUE
    /\ Goto(p, "up")
    /\ UNCHANGED <<system, isPrimary, named, startup, mapped, viewed, buffer, locker, answering,
                   heard, runs, failures, expected>>

\* POSIX: the lock may be refused, and the program is primary all the same.
flock(p) ==
    /\ system = "posix" /\ pc[p] = "off" /\ runs < MaxRuns
    /\ locker' = IF locker = {} THEN {p} ELSE locker
    /\ isPrimary' = [isPrimary EXCEPT ![p] = TRUE]
    /\ Goto(p, "up")
    /\ Start(p, FALSE)
    /\ UNCHANGED <<system, named, startup, mapped, viewed, set, buffer, failures, answering>>
-----------------------------------------------------------------------------
\* One registered before check is one registered when check returns: cb_ is only
\* looked at by the listener, and only the primary has one.
registerSecondaryCallback(p) ==
    /\ system = "windows" /\ pc[p] = "up" /\ isPrimary[p] /\ p \notin callback
    /\ callback' = callback \cup {p}
    /\ UNCHANGED <<system, pc, isPrimary, kernel, listener, cml, heard, runs, failures, expected>>

(* The listener. *)

\* The event resets itself.  Without a callback that is all.
Wake(p) ==
    /\ Listener(p) /\ listener[p] = "waiting" /\ set
    /\ set' = FALSE
    /\ listener' = [listener EXCEPT ![p] = IF p \in callback THEN "woken" ELSE @]
    /\ UNCHANGED <<system, pc, isPrimary, named, startup, mapped, viewed, buffer, locker, callback,
                   cml, heard, runs, failures, expected>>

Read(p) ==
    /\ listener[p] = "woken"
    /\ listener' = [listener EXCEPT ![p] = "reading"]
    /\ cml' = [cml EXCEPT ![p] = IF p \in viewed THEN buffer ELSE Empty]
    /\ UNCHANGED <<system, pc, isPrimary, kernel, callback, heard, runs, failures, expected>>

\* The buffer is cleared and the callback called.
Hear(p) ==
    /\ listener[p] = "reading"
    /\ listener' = [listener EXCEPT ![p] = "waiting"]
    /\ cml' = [cml EXCEPT ![p] = Empty]
    /\ buffer' = IF p \in viewed THEN Empty ELSE buffer
    /\ heard' = heard \cup {cml[p]}
    /\ UNCHANGED <<system, pc, isPrimary, named, startup, mapped, viewed, set, locker, callback,
                   runs, failures, expected>>

Listen(p) == Wake(p) \/ Read(p) \/ Hear(p)
-----------------------------------------------------------------------------
Ends(p) ==
    expected' = IF isPrimary[p] THEN expected \cap heard ELSE expected \ {p}

\* The destructor waits for the listener, which may still take the event and
\* then finds exit_ set.
Close(p) ==
    /\ system = "windows" /\ pc[p] = "up" /\ listener[p] = "waiting"
    /\ named' = named \ {p}
    /\ set' \in {set, set /\ ~Listener(p)}
    /\ Goto(p, "closing")
    /\ Ends(p)
    /\ UNCHANGED <<system, isPrimary, startup, mapped, viewed, buffer, locker, answering, heard, runs,
                   failures>>

\* The rest of the destructor, or a crash: an object without handles is gone.
End(p) ==
    /\ pc[p] # "off"
    /\ Goto(p, "off")
    /\ isPrimary' = [isPrimary EXCEPT ![p] = TRUE]
    /\ named' = named \ {p} /\ startup' = startup \ {p}
    /\ mapped' = mapped \ {p} /\ viewed' = viewed \ {p}
    /\ locker' = locker \ {p}
    /\ set' = (set /\ startup' # {})
    /\ buffer' = IF mapped' = {} THEN Empty ELSE buffer
    /\ callback' = callback \ {p}
    /\ listener' = [listener EXCEPT ![p] = "waiting"] /\ cml' = [cml EXCEPT ![p] = Empty]
    /\ Ends(p)
    /\ UNCHANGED <<system, heard, runs, failures>>

Check(p) ==
    \/ CreateStartupEvent(p) \/ CreateMapping(p)
    \/ OpenStartupEvent(p) \/ OpenMapping(p) \/ CopyCommandLine(p) \/ SetStartupEvent(p)

\* Nobody is obliged to start or to end.
Rest == (\A p \in Program : pc[p] \in {"off", "up"}) /\ UNCHANGED vars

Next ==
    \/ \E p \in Program :
          \/ CreateMutex(p) \/ flock(p) \/ Check(p)
          \/ registerSecondaryCallback(p) \/ Listen(p) \/ Close(p) \/ End(p)
    \/ Rest

\* Whoever is not ended goes on.
Fairness == \A p \in Program : WF_vars(Check(p)) /\ WF_vars(Listen(p))

Spec == Init /\ [][Next]_vars /\ Fairness
-----------------------------------------------------------------------------
\* "When the second process starts, SecondaryCallback is called with its
\* command line" (singleton_process.h:51): whoever starts while a listener waits
\* that has a callback and the buffer, and while no other start is under way, is
\* heard or about to be.  That holds of every generation of programs: after the
\* primary has ended and the last handle is closed, the next one is the primary.
SecondaryIsHeard ==
    \A p \in expected : pc[p] = "up" =>
        \/ p \in heard
        \/ buffer = p /\ (set \/ \E q \in Program : listener[q] = "woken")
        \/ \E q \in Program : listener[q] = "reading" /\ cml[q] = p
=============================================================================
