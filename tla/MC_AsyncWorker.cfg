\* Two clients and three tasks: enough for a task to invoke another one while
\* the owner stops, restarts or deletes the worker.
SPECIFICATION Spec
CONSTANTS
    Worker = Worker
    Client = {c1, c2}
    Task = {t1, t2, t3}
    NoTask = NoTask
INVARIANTS
    TypeOK
    StopMeansStopped
PROPERTIES
    InOrder
    ServesUntilStop
    StopReturnsAtLast
