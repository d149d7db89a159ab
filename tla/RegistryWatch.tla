---------------------------- MODULE RegistryWatch ----------------------------
(* Registry (win/registry.cpp): the thread that watches a key, and close. The *)
(* registry of the system, which wakes the thread, is external; a handle that *)
(* was closed is not given again while the model runs.                        *)
CONSTANTS
    Handle, \* the handles the system gives, each once
    Null

\* A handle is neither a place nor Null.
ConstantsOK == Handle \cap {"idle", "join", "none", "test", "read", "wait", "ended", Null} = {}

VARIABLES
    hkey, freed,    \* hkey_; the handles that were closed
    event,          \* hChangeEvent_: "none", "unset" or "set"
    owner,          \* what the owner does: "idle" or a step of close
    notifier,       \* NotifyWaitThreadProc: "none" when there is no hNotifyThread_
    watched,        \* the handle whose change sets the event
    used            \* handles given so far

watchVars == <<hkey, freed, event, owner, notifier, watched, used>>

\* open, after the close that it begins with.
open ==
    /\ owner = "idle" /\ hkey = Null /\ notifier = "none"
    /\ \E h \in Handle \ used : hkey' = h /\ used' = used \cup {h}
    /\ UNCHANGED <<freed, event, owner, notifier, watched>>

\* The event is never given back: a Registry watches once.
watchForChange ==
    /\ owner = "idle" /\ hkey # Null /\ event = "none"
    /\ event' = "unset" /\ notifier' = "test"
    /\ UNCHANGED <<hkey, freed, owner, watched, used>>

closeBegins ==
    /\ owner = "idle" /\ (hkey # Null \/ notifier # "none")
    /\ hkey' = Null
    /\ owner' = IF hkey = Null THEN "join" ELSE hkey
    /\ UNCHANGED <<freed, event, notifier, watched, used>>

\* RegCloseKey: whoever waits for a change of that handle is woken (external).
closeFrees ==
    /\ owner \in Handle
    /\ freed' = freed \cup {owner}
    /\ event' = IF watched = owner THEN "set" ELSE event
    /\ owner' = "join"
    /\ UNCHANGED <<hkey, notifier, watched, used>>

closeJoins ==
    /\ owner = "join" /\ notifier \in {"none", "ended"}
    /\ notifier' = "none" /\ owner' = "idle"
    /\ UNCHANGED <<hkey, freed, event, watched, used>>

\* The thread reads hkey_ for the test and once more for the call.
Tests ==
    /\ notifier = "test"
    /\ notifier' = IF hkey = Null THEN "ended" ELSE "read"
    /\ UNCHANGED <<hkey, freed, event, owner, watched, used>>

Reads ==
    /\ notifier = "read"
    /\ notifier' = IF hkey = Null THEN "ended" ELSE hkey
    /\ UNCHANGED <<hkey, freed, event, owner, watched, used>>

Registers ==
    /\ notifier \in Handle
    /\ notifier' = IF notifier \in freed THEN "ended" ELSE "wait"
    /\ watched' = IF notifier \in freed THEN watched ELSE notifier
    /\ UNCHANGED <<hkey, freed, event, owner, used>>

Wakes ==
    /\ notifier = "wait" /\ event = "set"
    /\ event' = "unset" /\ watched' = Null
    /\ notifier' = "test"       \* OnChange does nothing, and is not virtual
    /\ UNCHANGED <<hkey, freed, owner, used>>

\* Somebody writes to the key.
Changes ==
    /\ watched # Null /\ watched \notin freed /\ event = "unset"
    /\ event' = "set"
    /\ UNCHANGED <<hkey, freed, owner, notifier, watched, used>>

Init ==
    /\ hkey = Null /\ freed = {} /\ event = "none" /\ owner = "idle" /\ notifier = "none"
    /\ watched = Null /\ used = {}

Closer == closeFrees \/ closeJoins
Notifier == Tests \/ Reads \/ Registers \/ Wakes

\* The handles are used up.
Done == owner = "idle" /\ hkey = Null /\ used = Handle /\ notifier = "none" /\ UNCHANGED watchVars

Next == open \/ watchForChange \/ closeBegins \/ Closer \/ Notifier \/ Changes \/ Done

TypeOK ==
    /\ hkey \in Handle \cup {Null} /\ freed \subseteq used /\ used \subseteq Handle
    /\ event \in {"none", "unset", "set"}
    /\ owner \in Handle \cup {"idle", "join"}
    /\ notifier \in Handle \cup {"none", "test", "read", "wait", "ended"}
    /\ watched \in Handle \cup {Null}

\* close returns: the thread that waits for a change of the key without a limit
\* is woken by the closing of the key, whatever it was doing at that moment.
CloseEnds == owner # "idle" ~> owner = "idle"

=============================================================================
