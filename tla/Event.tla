------------------------------- MODULE Event -------------------------------
(***************************************************************************)
(* Event (src/event.cpp): a manual-reset event.  set and unset write the   *)
(* flag under set_lock_ and notify after the unlock; wait tests the flag   *)
(* under the lock, with or without a timeout.  A waiter is "testing" when  *)
(* it holds the lock and evaluates the predicate, "asleep" inside the      *)
(* condition variable, "late" when its time is over but the lock not yet   *)
(* taken back.                                                             *)
(***************************************************************************)
EXTENDS Naturals, FiniteSets

CONSTANTS
    Waiter,     \* threads that call wait
    Setter      \* threads that call set and unset

VARIABLES
    is_set,
    notifying,  \* setters between the unlock and the notify_all
    pc,         \* waiter -> "idle" | "testing" | "asleep" | "late" | "true" | "false"
    timed       \* waiter -> its wait has a timeout

vars == <<is_set, notifying, pc, timed>>

TypeOK ==
    /\ is_set \in BOOLEAN
    /\ notifying \subseteq Setter
    /\ pc \in [Waiter -> {"idle", "testing", "asleep", "late", "true", "false"}]
    /\ timed \in [Waiter -> BOOLEAN]
    /\ \A w \in Waiter : pc[w] = "late" => timed[w]

Init ==
    /\ is_set \in BOOLEAN
    /\ notifying = {}
    /\ pc = [w \in Waiter |-> "idle"]
    /\ timed = [w \in Waiter |-> FALSE]

set(s) ==
    /\ s \notin notifying
    /\ is_set' = TRUE
    /\ notifying' = notifying \cup {s}
    /\ UNCHANGED <<pc, timed>>

unset(s) ==
    /\ s \notin notifying
    /\ is_set' = FALSE
    /\ notifying' = notifying \cup {s}
    /\ UNCHANGED <<pc, timed>>

NotifyAll_One(s) ==
    /\ s \in notifying
    /\ notifying' = notifying \ {s}
    /\ \/ \E w \in Waiter : pc[w] = "asleep" /\ pc' = [pc EXCEPT ![w] = "testing"]
       \/ (\A w \in Waiter : pc[w] # "asleep") /\ UNCHANGED pc
    /\ UNCHANGED <<is_set, timed>>

NotifyAll(s) ==
    /\ s \in notifying
    /\ notifying' = notifying \ {s}
    /\ pc' = [w \in Waiter |-> IF pc[w] = "asleep" THEN "testing" ELSE pc[w]]
    /\ UNCHANGED <<is_set, timed>>

WaitBegins(w, withTimeout) ==
    /\ pc[w] \in {"idle", "true", "false"}
    /\ pc' = [pc EXCEPT ![w] = "testing"]
    /\ timed' = [timed EXCEPT ![w] = withTimeout]
    /\ UNCHANGED <<is_set, notifying>>

\* The predicate, and with it the result.
Test(w) ==
    /\ pc[w] = "testing"
    /\ pc' = [pc EXCEPT ![w] = IF is_set THEN "true" ELSE "asleep"]
    /\ UNCHANGED <<is_set, notifying, timed>>

Timeout_Untimed(w) ==
    /\ pc[w] = "asleep"
    /\ pc' = [pc EXCEPT ![w] = "late"]
    /\ UNCHANGED <<is_set, notifying, timed>>

\* The time is over, also a time of 0 after a first test.
Timeout(w) ==
    /\ pc[w] = "asleep" /\ timed[w]
    /\ pc' = [pc EXCEPT ![w] = "late"]
    /\ UNCHANGED <<is_set, notifying, timed>>

\* With the lock again: the flag decides, however late.
ReturnLate(w) ==
    /\ pc[w] = "late"
    /\ pc' = [pc EXCEPT ![w] = IF is_set THEN "true" ELSE "false"]
    /\ UNCHANGED <<is_set, notifying, timed>>

SpuriousWake(w) ==
    /\ pc[w] = "asleep"
    /\ pc' = [pc EXCEPT ![w] = "testing"]
    /\ UNCHANGED <<is_set, notifying, timed>>

Next ==
    \/ \E s \in Setter : set(s) \/ unset(s) \/ NotifyAll(s)
    \/ \E w \in Waiter :
          \/ \E b \in BOOLEAN : WaitBegins(w, b)
          \/ Test(w) \/ Timeout(w) \/ ReturnLate(w) \/ SpuriousWake(w)

\* Nobody has to call anything; whoever is inside a call goes on, and a time
\* that was given ends.
Fairness ==
    /\ \A s \in Setter : WF_vars(NotifyAll(s))
    /\ \A w \in Waiter : WF_vars(Test(w)) /\ WF_vars(Timeout(w)) /\ WF_vars(ReturnLate(w))

Spec == Init /\ [][Next]_vars /\ Fairness
-----------------------------------------------------------------------------
\* An event that is set and stays so releases every waiter.
SetReleases ==
    \A w \in Waiter : pc[w] = "asleep" /\ is_set ~> pc[w] \in {"true", "false"} \/ ~is_set
=============================================================================
