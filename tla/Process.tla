------------------------------- MODULE Process -------------------------------
(***************************************************************************)
(* Process (src/process.cpp): a child process, the pipes to its standard   *)
(* streams, and the threads that read them.  Owner asks for the exit       *)
(* status and destroys the object, other threads write to the child, close *)
(* its input and kill it.  Both builds are modelled, the one that is       *)
(* followed is chosen at the start: "posix" (one reader that polls,        *)
(* waitpid) and "windows" (a reader per stream, a process handle).         *)
(*                                                                         *)
(* Bytes come in chunks and only their number is kept.  The child may      *)
(* leave its streams to an heir, a process of its own that outlives it.    *)
(*                                                                         *)
(* owner is the place of Owner: idle, waiting (for the end of the child),  *)
(* reaped (waitpid has returned, closed_ is not yet set), joining (in      *)
(* close_fds), destroying (in close_fds for the destructor), destroyed.    *)
(***************************************************************************)
EXTENDS Naturals

CONSTANTS
    Stream,         \* the streams that are read, "out" and "err"
    Platforms,      \* the builds considered
    Cap,            \* chunks a pipe holds
    BufferSize,     \* config_.buffer_size, in chunks
    MaxOutput,      \* bound: chunks written to the streams
    MaxInput        \* bound: calls of write

ConstantsOK ==
    /\ Stream \subseteq {"out", "err"} /\ Platforms \subseteq {"posix", "windows"}
    /\ {Cap, BufferSize} \subseteq Nat \ {0} /\ {MaxOutput, MaxInput} \subseteq Nat

VARIABLES
    platform,
    child,          \* "none" (open failed), "forked", "running", "zombie", "gone"
    heir,           \* "unborn", "running", "ended"
    filter,         \* the child ends only at the end of its input
    pid,            \* whose data_.id is now: "nobody", "child", "other"
    pipe, written, delivered,   \* chunks per stream: in the pipe, ever written, read
    holders,        \* who may write to each stream
    polled,         \* streams still polled, or whose reader still reads
    ready,          \* posix: the revents of the streams not served in this round
    input,          \* stdin_fd_ is not null
    inPipe,         \* chunks in the pipe to the child
    asked,          \* calls of write so far
    writer,         \* "in write", with stdin_mutex_, or "idle"
    closed,         \* closed_
    stored,         \* data_.exit_status holds the status of the child
    owner,
    answer,         \* the last status returned: "none", "status", "-1"
    hits            \* whom kill and killProcessTree have hit: "child", "other"

world == <<platform, filter>>
feed == <<inPipe, asked, writer>>
streams == <<pipe, written, delivered, holders>>
object == <<polled, ready, input, closed, stored>>
vars == <<world, feed, child, heir, pid, streams, object, owner, answer, hits>>

TypeOK ==
    /\ platform \in Platforms /\ filter \in BOOLEAN
    /\ child \in {"none", "forked", "running", "zombie", "gone"}
    /\ heir \in {"unborn", "running", "ended"}
    /\ pid \in {"nobody", "child", "other"}
    /\ \A s \in Stream :
        /\ written[s] \in 0 .. MaxOutput /\ pipe[s] \in 0 .. Cap
        /\ delivered[s] + pipe[s] = written[s]
    /\ holders \in [Stream -> SUBSET {"child", "heir"}]
    /\ polled \subseteq Stream
    /\ DOMAIN ready \subseteq polled /\ \A s \in DOMAIN ready : ready[s] \subseteq {"IN", "HUP"}
    /\ {input, closed, stored} \subseteq BOOLEAN
    /\ inPipe \in 0 .. Cap /\ asked \in 0 .. MaxInput
    /\ writer \in {"idle", "in write"} /\ (writer = "in write" => input)
    /\ owner \in {"idle", "waiting", "reaped", "joining", "destroying", "destroyed"}
    /\ answer \in {"none", "status", "-1"}
    /\ hits \subseteq {"child", "other"}

\* open fails, or the child is there; CreateProcess returns a running one.
OpenedChild == {"none", IF platform = "posix" THEN "forked" ELSE "running"}

\* After the constructor: open, and async_read.
Init ==
    /\ platform \in Platforms /\ filter \in BOOLEAN
    /\ child \in OpenedChild
    /\ heir = "unborn"
    /\ pid = IF child = "none" THEN "nobody" ELSE "child"
    /\ pipe = [s \in Stream |-> 0] /\ written = pipe /\ delivered = pipe
    /\ holders = [s \in Stream |-> IF child = "none" THEN {} ELSE {"child"}]
    /\ polled = IF child = "none" THEN {} ELSE Stream
    /\ ready = [s \in {} |-> {}]
    /\ input = TRUE /\ inPipe = 0 /\ asked = 0 /\ writer = "idle"
    /\ closed = (child = "none") /\ stored = FALSE
    /\ owner = "idle" /\ answer = "none" /\ hits = {}
-----------------------------------------------------------------------------
(* The child and its heir. *)

\* setpgid(0, 0), then the program.
ChildRuns ==
    /\ child = "forked"
    /\ child' = "running"
    /\ UNCHANGED <<world, feed, heir, pid, streams, object, owner, answer, hits>>

\* Both streams together stay within the bound.
MayWrite(s) ==
    \A r \in Stream : written[s] + (IF r = s THEN 0 ELSE written[r]) < MaxOutput

Write(s) ==
    /\ holders[s] # {} /\ child # "forked"
    /\ pipe[s] < Cap /\ MayWrite(s)
    /\ pipe' = [pipe EXCEPT ![s] = @ + 1]
    /\ written' = [written EXCEPT ![s] = @ + 1]
    /\ UNCHANGED <<world, feed, child, heir, pid, delivered, holders, object, owner, answer, hits>>

LeaveHeir ==
    /\ child = "running" /\ heir = "unborn"
    /\ heir' = "running"
    /\ holders' = [s \in Stream |-> holders[s] \cup {"heir"}]
    /\ UNCHANGED <<world, feed, child, pid, pipe, written, delivered, object, owner, answer, hits>>

\* A filter waits for the end of its input, or a signal.
ChildEnds ==
    /\ child = "running"
    /\ filter => (~input /\ inPipe = 0) \/ "child" \in hits
    /\ child' = "zombie"
    /\ holders' = [s \in Stream |-> holders[s] \ {"child"}]
    /\ UNCHANGED <<world, feed, heir, pid, pipe, written, delivered, object, owner, answer, hits>>

ChildReads ==
    /\ child = "running" \/ heir = "running"
    /\ inPipe > 0 /\ inPipe' = inPipe - 1
    /\ UNCHANGED <<world, asked, writer, child, heir, pid, streams, object, owner, answer, hits>>

HeirEnds ==
    /\ heir = "running"
    /\ heir' = "ended"
    /\ holders' = [s \in Stream |-> holders[s] \ {"heir"}]
    /\ UNCHANGED <<world, feed, child, pid, pipe, written, delivered, object, owner, answer, hits>>

\* A number is free again when neither a process nor a process group has it.
PidReused ==
    /\ pid = "nobody" /\ child = "gone" /\ heir # "running"
    /\ pid' = "other"
    /\ UNCHANGED <<world, feed, child, heir, streams, object, owner, answer, hits>>
-----------------------------------------------------------------------------
(* The readers. *)

Least(m, n) == IF m < n THEN m ELSE n

\* One read of at most BufferSize chunks, handed to the callback.
Read(s) ==
    LET n == Least(pipe[s], BufferSize)
    IN  /\ pipe' = [pipe EXCEPT ![s] = @ - n]
        /\ delivered' = [delivered EXCEPT ![s] = @ + n]
        /\ UNCHANGED <<written, holders>>

Events(s) == (IF pipe[s] > 0 THEN {"IN"} ELSE {}) \cup (IF holders[s] = {} THEN {"HUP"} ELSE {})

\* poll returns when one of the descriptors has an event.
Poll ==
    /\ platform = "posix" /\ DOMAIN ready = {}
    /\ \E s \in polled : Events(s) # {}
    /\ ready' = [s \in polled |-> Events(s)]
    /\ UNCHANGED <<world, feed, child, heir, pid, streams, polled, input, closed, stored, owner, answer, hits>>

Serve_HupFirst(s) ==
    /\ s \in DOMAIN ready /\ (s = "err" => "out" \notin DOMAIN ready)
    /\ IF ready[s] = {"IN"} THEN Read(s) ELSE UNCHANGED streams
    /\ polled' = IF "HUP" \in ready[s] THEN polled \ {s} ELSE polled
    /\ ready' = [r \in DOMAIN ready \ {s} |-> ready[r]]
    /\ UNCHANGED <<world, feed, child, heir, pid, input, closed, stored, owner, answer, hits>>

Serve_NeverDropped(s) ==
    /\ s \in DOMAIN ready /\ (s = "err" => "out" \notin DOMAIN ready)
    /\ IF "IN" \in ready[s] THEN Read(s) ELSE UNCHANGED streams
    /\ polled' = IF ready[s] = {"HUP"} /\ s = "out" THEN polled \ {s} ELSE polled
    /\ ready' = [r \in DOMAIN ready \ {s} |-> ready[r]]
    /\ UNCHANGED <<world, feed, child, heir, pid, input, closed, stored, owner, answer, hits>>

\* The round over the descriptors: a hung up one is dropped after one read.
Serve(s) ==
    /\ s \in DOMAIN ready /\ (s = "err" => "out" \notin DOMAIN ready)
    /\ IF "IN" \in ready[s] THEN Read(s) ELSE UNCHANGED streams
    /\ polled' = IF "HUP" \in ready[s] THEN polled \ {s} ELSE polled
    /\ ready' = [r \in DOMAIN ready \ {s} |-> ready[r]]
    /\ UNCHANGED <<world, feed, child, heir, pid, input, closed, stored, owner, answer, hits>>

\* ReadFile waits for data or for the end of the last writer.
ReadFile(s) ==
    /\ platform = "windows" /\ s \in polled
    /\ \/ pipe[s] > 0 /\ Read(s) /\ UNCHANGED polled
       \/ Events(s) = {"HUP"} /\ polled' = polled \ {s} /\ UNCHANGED streams
    /\ UNCHANGED <<world, feed, child, heir, pid, ready, input, closed, stored, owner, answer, hits>>
-----------------------------------------------------------------------------
(* Owner: getExitStatus, tryGetExitStatus, the destructor. *)

Return(status) == owner' = "idle" /\ answer' = status

\* Without a child there is no status; a reaped one has left its status behind.
getExitStatus ==
    /\ owner = "idle"
    /\ IF child = "none" THEN Return("-1")
       ELSE IF platform = "posix" /\ child = "gone"
            THEN Return(IF stored THEN "status" ELSE "-1")
            ELSE owner' = "waiting" /\ UNCHANGED answer
    /\ UNCHANGED <<world, feed, child, heir, pid, streams, object, hits>>

\* waitpid(data_.id): the number is free from now on.
Reap ==
    /\ platform = "posix" /\ owner \in {"waiting", "idle"} /\ child = "zombie"
    /\ child' = "gone" /\ pid' = "nobody"
    /\ stored' = TRUE /\ answer' = "status"
    /\ owner' = "reaped"
    /\ UNCHANGED <<world, feed, heir, streams, polled, ready, input, closed, hits>>

SetClosed ==
    /\ owner = "reaped"
    /\ closed' = TRUE
    /\ owner' = "joining"
    /\ UNCHANGED <<world, feed, child, heir, pid, streams, polled, ready, input, stored, answer, hits>>

\* The handle keeps the number until it is closed, under close_mutex_.  Once
\* it is closed the calls that use it fail, and it is closed again.
CloseProcessHandle ==
    /\ platform = "windows" /\ owner \in {"waiting", "idle"} /\ child \in {"zombie", "gone"}
    /\ answer' = IF child = "zombie" THEN "status" ELSE "-1"
    /\ child' = "gone" /\ pid' = IF child = "zombie" THEN "nobody" ELSE pid
    /\ closed' = TRUE
    /\ owner' = "joining"
    /\ UNCHANGED <<world, feed, heir, streams, polled, ready, input, stored, hits>>

\* tryGetExitStatus is Reap or CloseProcessHandle from idle, or finds the child
\* reaped, as getExitStatus does; else it changes nothing.
tryGetExitStatus ==
    /\ owner = "idle" /\ platform = "posix" /\ child = "gone"
    /\ Return(IF stored THEN "status" ELSE "-1")
    /\ UNCHANGED <<world, feed, child, heir, pid, streams, object, hits>>

Destroy ==
    /\ owner = "idle"
    /\ owner' = "destroying"
    /\ UNCHANGED <<world, feed, child, heir, pid, streams, object, answer, hits>>

\* close_fds: the readers are joined, then the three descriptors closed.
close_fds ==
    /\ owner \in {"joining", "destroying"} /\ polled = {} /\ DOMAIN ready = {}
    /\ writer = "idle" /\ input' = FALSE
    /\ owner' = IF owner = "joining" THEN "idle" ELSE "destroyed"
    /\ UNCHANGED <<world, feed, child, heir, pid, streams, polled, ready, closed, stored, answer, hits>>
-----------------------------------------------------------------------------
(* Other threads, while the object lives. *)

Alive == owner \notin {"destroying", "destroyed"}

write ==
    /\ Alive /\ input /\ writer = "idle" /\ asked < MaxInput
    /\ writer' = "in write" /\ asked' = asked + 1
    /\ UNCHANGED <<world, inPipe, child, heir, pid, streams, object, owner, answer, hits>>

\* The call of the system returns when there is room, or an error when nobody
\* holds the other end (a program that has not ignored SIGPIPE ends here).
WriteReturns ==
    /\ writer = "in write" /\ writer' = "idle"
    /\ IF child \in {"forked", "running"} \/ heir = "running"
       THEN inPipe < Cap /\ inPipe' = inPipe + 1
       ELSE UNCHANGED inPipe
    /\ UNCHANGED <<world, asked, child, heir, pid, streams, object, owner, answer, hits>>

closeStdin ==
    /\ Alive /\ input /\ writer = "idle"
    /\ input' = FALSE
    /\ UNCHANGED <<world, feed, child, heir, pid, streams, polled, ready, closed, stored, owner, answer, hits>>

\* A signal to one that has ended and is not reaped has no effect.
HitById ==
    IF pid = "other" THEN {"other"}
    ELSE IF child \in {"forked", "running"} THEN {"child"} ELSE {}

kill ==
    /\ Alive /\ child # "none" /\ ~closed
    /\ hits' = hits \cup HitById
    /\ UNCHANGED <<world, feed, child, heir, pid, streams, object, owner, answer>>

\* The group of the child exists once the child runs; Windows ends those whose
\* parent has the number, and the child by its handle.
TreeHit == IF child = "forked" THEN {} ELSE HitById

killProcessTree ==
    /\ Alive /\ child # "none" /\ ~closed
    /\ hits' = hits \cup TreeHit
    /\ UNCHANGED <<world, feed, child, heir, pid, streams, object, owner, answer>>
-----------------------------------------------------------------------------
Reader == Poll \/ (\E s \in Stream : Serve(s) \/ ReadFile(s))
OwnerStep == Reap \/ SetClosed \/ CloseProcessHandle \/ close_fds

\* Nothing need follow an answer, and a child may run for ever.
Rest == owner \in {"idle", "waiting", "joining", "destroying", "destroyed"} /\ UNCHANGED vars

Next ==
    \/ ChildRuns \/ (\E s \in Stream : Write(s)) \/ LeaveHeir \/ ChildEnds \/ HeirEnds
    \/ ChildReads
    \/ PidReused
    \/ Reader \/ OwnerStep
    \/ getExitStatus \/ tryGetExitStatus \/ Destroy
    \/ write \/ WriteReturns \/ closeStdin \/ kill \/ killProcessTree
    \/ Rest

\* The threads of the object go on; the child need not.
Fairness == WF_vars(Reader) /\ WF_vars(WriteReturns) /\ WF_vars(owner # "idle" /\ OwnerStep)

Spec == Init /\ [][Next]_vars /\ Fairness
-----------------------------------------------------------------------------
\* Every byte the child wrote has been handed to the callbacks when the status
\* is returned, given a buffer no smaller than a pipe, as the default one is:
\* a hung up descriptor is read once more and never again.
DeliveredBeforeStatus ==
    closed /\ owner = "idle" => delivered = written

\* Once the child and its heir have ended, getExitStatus, tryGetExitStatus and
\* the destructor return.
EndsWithChild ==
    child \in {"zombie", "gone"} /\ heir # "running" /\ owner \notin {"idle", "destroyed"}
        ~> owner \in {"idle", "destroyed"}
=============================================================================
