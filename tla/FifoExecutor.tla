---------------------------- MODULE FifoExecutor ----------------------------
(***************************************************************************)
(* What the task runners of the library promise, with no lock, thread or   *)
(* condition variable in sight: a task handed over is taken in the order   *)
(* of the hand-overs, each task has exactly one fate (it runs once, or it  *)
(* is given up without running), and an executor that never gives tasks    *)
(* up serves every one of them.  ThreadPool, AsyncWorker and MessageLoop   *)
(* are each shown to implement it.                                         *)
(***************************************************************************)
EXTENDS Naturals, Sequences, FiniteSets

CONSTANTS
    Task,       \* the callbacks that may ever be handed over
    Width       \* how many may run at once

VARIABLES
    queue,      \* accepted and not yet taken, oldest first
    running,    \* taken, the callback has not returned
    done,       \* the callback returned
    gone,       \* refused, or given up without running
    open        \* submissions are still accepted

vars == <<queue, running, done, gone, open>>

Waiting == {queue[i] : i \in DOMAIN queue}

Unseen == Task \ (Waiting \cup running \cup done \cup gone)

Init ==
    /\ queue = <<>>
    /\ running = {}
    /\ done = {}
    /\ gone = {}
    /\ open = TRUE

Submit(t) ==
    /\ open
    /\ t \in Unseen
    /\ queue' = Append(queue, t)
    /\ UNCHANGED <<running, done, gone, open>>

Refuse(t) ==
    /\ ~open
    /\ t \in Unseen
    /\ gone' = gone \cup {t}
    /\ UNCHANGED <<queue, running, done, open>>

Start ==
    /\ queue # <<>>
    /\ Cardinality(running) < Width
    /\ running' = running \cup {Head(queue)}
    /\ queue' = Tail(queue)
    /\ UNCHANGED <<done, gone, open>>

Finish(t) ==
    /\ t \in running
    /\ running' = running \ {t}
    /\ done' = done \cup {t}
    /\ UNCHANGED <<queue, gone, open>>

\* The oldest n of those still waiting are given up at once.
GiveUp(n) ==
    /\ n \in DOMAIN queue
    /\ gone' = gone \cup {queue[i] : i \in 1 .. n}
    /\ queue' = SubSeq(queue, n + 1, Len(queue))
    /\ UNCHANGED <<running, done, open>>

Close ==
    /\ open
    /\ open' = FALSE
    /\ UNCHANGED <<queue, running, done, gone>>

Serve == Start \/ (\E t \in Task : Submit(t) \/ Refuse(t) \/ Finish(t)) \/ Close

\* An executor that may give tasks up (AsyncWorker, MessageLoop).
MayGiveUp == Init /\ [][Serve \/ \E n \in DOMAIN queue : GiveUp(n)]_vars

\* One that gives up none of the tasks it accepted (ThreadPool).
ServesInOrder == Init /\ [][Serve]_vars

\* And that gets to each of them in the end.
ServesAll ==
    /\ ServesInOrder
    /\ WF_vars(Start)
    /\ \A t \in Task : WF_vars(Finish(t))
=============================================================================
