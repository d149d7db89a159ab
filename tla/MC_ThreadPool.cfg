\* Two workers, one client and three tasks: a task can enqueue another one
\* while the second worker sleeps, drains or has exited.
SPECIFICATION Spec
CONSTANTS
    Worker = {w1, w2}
    Client = {c1}
    Task = {t1, t2, t3}
    NoTask = NoTask
INVARIANTS
    TypeOK
    NoLostWakeup
    DestroyedMeansDrained
PROPERTIES
    ServesAll
    DestructorReturns
