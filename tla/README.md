# TLA+ models of ashe

ashe is a C++11 utility library: a concurrent core (thread pool, worker, message
loop, timers, threads, events, exit of the process), wrappers of processes,
files and Windows facilities, and a large body of functions on texts, bytes and
addresses. This directory holds TLA+ modules of these, the TLC configurations
that check them, and TLAPS proofs about the core.

Every module is translated from the code under `src/`. `PROJECT.json` maps each
definition to the lines it stands for, lists each run with its properties, a
mutation of the code that each property detects, and the hazards of the code
with the properties that watch them.

## 1. Inventory

### Parts, their state and their operations

| part | state | operations | threads |
|---|---|---|---|
| `ThreadPool` (thread_pool.h/.cpp) | `tasks`, `stop`, workers, one mutex and condition | `enqueue`, the worker loop, the destructor | workers, callers of `enqueue` (tasks included), the owner |
| `AsyncWorker` (async_worker.h/.cpp) | `work_queue_`, `exit_`, `running_`, the future of the thread | `start`, `stop`, `invoke`, `clearTasks`, `isRunning`, the destructor | one worker, clients (the running task included), the owner |
| `MessageLoop`, `MessageLoopTaskRunner`, `MessagePumpDefault` (message_loop/) | `incomingQueue_` under its lock; `work_queue_`, `delayedWorkQueue_`, `deferredNonNestableWorkQueue_` of the loop thread; `have_work_`, `keepRunning_`, `delayed_work_time_` of the pump; `loop_` of the runner under a shared lock | four kinds of post, `postQuit`, `run` (nested too), `doWork`, `doDelayedWork`, `doIdleWork`, the destructor | the loop thread, any number of posters |
| `MessagePumpForWin` (message_pump_win.h/.cpp) | `workState_`, `delayedWorkTime_`, the queue of messages and the timer of its window | `scheduleWork`, `scheduleDelayedWork`, the run loop, the handlers of its messages | the pump's thread (also inside modal loops of the system), posters |
| `TimerManager` (timer_manager.h/.cpp) | `events_`, `time_events_`, `free_ids_`, `done_` under `m_` | `init`, `add`, `remove`, the worker loop, `destory` | one worker that runs handlers, clients, handlers |
| `WinTimerBase` (win/timer) | `m_hTimer` | `start`, `stop` (waiting or not), the destructor, the callbacks | the owner, pool threads |
| `Event` (event.h/.cpp) | `is_set_` | `set`, `unset`, `wait` (with and without a time) | any |
| `Thread` (thread.h/.cpp) | `state_`, `running_`, `messageLoop_`, `delegate_`, the thread | `start`, `stop`, `stopSoon`, `join`, `threadMain`, a task's quit | the owner, the thread, helpers |
| `AtExitManager`, `SingletonClass` (at_exit.h/.cpp, singleton_class.h) | `stack_` under `m_`, `g_top_manager`; per class a `once_flag` and an instance | `Instance`, `RegisterCallback`, `ProcessCallbacksNow`, `~AtExitManager` | any; the main thread has the manager on its stack |
| `Process` (process.h/.cpp) | the pid, `closed_`, the pipes, the reader threads | `open`, `write`, `closeStdin`, `getExitStatus`, `tryGetExitStatus`, `kill`, `killProcessTree` | callers, the readers, the child and what it leaves behind |
| `SingletonProcess` (singleton_process.h/.cpp) | lock file, or two named events, a shared buffer and a listener | `check`, `isPrimary`, the destructor | several programs, which may crash |
| `Logging` (logging.h/.cpp) | the log file and its settings, the file under `gLogFileLock` | `initLogging`, `shutdownLogging`, one message, rotation | any |
| `HttpClient`, `Http` (win/http_client, win/http) | three handles, `abort_`, the last error | `request`, `abort`, the destructor | the thread of a request, the user |
| `ServiceBase`, `ServiceUtil` (win/service_base.h, win/service_util) | `m_status`, the state of the service manager | the handlers, which may throw; install, start, stop, uninstall | control threads of the service, tools |
| `Registry` (win/registry) | `hkey_`, `hChangeEvent_`, the notify thread | open, close, watch; values and trees of keys | the owner, the notify thread |
| `File` (file.h/.cpp) | `f_` with its position under a mutex | `open`, `close`, seeks, `readFrom`, `writeFrom`, `fileSize`, `readAll` | any |
| `BufferQueue` (buffer_queue.h/.cpp) | a doubly linked list of allocated elements, two counters | pushes and pops at both ends, `popDataCrossElement`, `removeData`, `clear` | any, under one recursive mutex |
| `MemoryPool` (memory_pool.h) | the data list and the free list, threaded through the block headers | `allocate`, `deallocate`, move, destructor | any, each under the mutex of its pool; a move does not take that of its source |
| `Configor` (configor.h/.cpp) | the tree of elements, its file | get and set of elements and values, save, reload | any, under one recursive mutex |
| `EnvVar` (win/env_variable) | the value read when the object was made | `cut`, `paste`, `set`, `unset`; `PathAdd`, `PathRemove` | - |
| functions | none | encodings, digests, ciphers, versions, texts, command lines, paths, IP addresses, shell links, dates, helpers on processes and settings | - |
| the rest | none of its own | single queries of the system, character sets, Windows shell wrappers, vendored headers | - |

### How they interact

- `Thread` has a `MessageLoop` on the stack of its thread; `stopSoon` posts a
  quit task into it by `messageLoop_->postTask`, past the task runner and its
  lock. `Thread.tla` reduces the loop to "it runs until a quit is queued", which
  is what `MessageLoop.tla` shows of it (`QuitIsPrompt`, `EveryTaskSettled`).
- `MessageLoopTaskRunner` outlives the loop; posting and destroying the loop
  meet at `loopLock_`, which posters hold shared through the whole post.
- The pump and the loop call each other: the pump calls the three delegate
  functions, posters call the pump's `scheduleWork`, and the loop tells the
  pump the next delayed time. `MessagePumpWin.tla` has its own reduced loop:
  one queue of immediate and one of delayed tasks.
- `SingletonClass` registers its deletion with the innermost `AtExitManager`.
- `Rsa` uses the encodings and the splitting of texts, and so do the modules;
  `SingletonProcess` (Windows) has a listener thread of its own; nothing else of
  the library uses `ThreadPool`, `AsyncWorker`, `TimerManager` or the structures.

### What is hard, and what would make it correct

- *Notify after unlock* (all runners): between the unlock and the notify a
  waiter may sleep over a non-empty queue. Correct: no wake-up is ever lost.
- *Callbacks without the lock* (`TimerManager`, all runners): the callback may
  call back into the object, and other threads act meanwhile. Correct: the
  tables agree again when the lock is taken back, and nothing cancelled runs.
- *Only the first post wakes the loop*: correct only if every later task is
  found by the wake-up of the first; on Windows the wake-up is one message that
  a modal loop may take.
- *Cached time and a next time that is set in three places* (`MessageLoop`):
  correct if no task runs early and the pump never sleeps past a due time.
- *Destruction* with tasks queued, callbacks that post from their destructors,
  posters, callbacks or a request under way: correct if every callback has
  exactly one fate and no thread touches what is gone.
- *A level used as an event* (`Thread::running_`): correct if `start` sees it.
- *Handles closed under their user* (`HttpClient::abort`, `Registry::close`):
  correct if whoever waits is woken and nothing stays open.
- *Other programs* (`Process`, `SingletonProcess`, services): output before the
  status, the end of the child, a second start that is heard, a status that is
  true although handlers throw.
- *Reuse of ids* (`TimerManager`, process ids) and *of blocks* (`MemoryPool`):
  correct if an id or a block has one owner.
- *Order of exit*: a singleton is deleted after its users, whichever threads
  built them.
- *Two halves of one format* (encodings, ciphers, ini files, registry values,
  command lines): correct if what one half writes the other reads back, at
  every length around the boundaries.

## 2. Modules

| module | models | state and actions |
|---|---|---|
| `FifoExecutor` | nothing of the code: what a task runner promises | accept, start in order, finish, give up, close |
| `ThreadPool` | `ThreadPool` | one action per critical section; `inEnqueue` holds the callers between unlock and notify; `pc` of a worker tells sleeping from testing the predicate |
| `AsyncWorker` | `AsyncWorker` | the same style; `owner` is the place of the thread that calls start, stop and the destructor |
| `MessageLoop`, `MC_MessageLoop` | loop, task runner and default pump together | `pc` is the place in `MessagePumpDefault::run`, `frames` the stack of callbacks (a nested `run` pushes on it), `post` the place of each poster inside `addToIncomingQueue` |
| `MessagePumpWin` | the pump of a thread with windows | `pc` and `frames` as above; `queue`, `timer` and modal loops of the system are external |
| `TimerManager`, `MC_TimerManager` | `TimerManager` | `pc` is the worker's place in the turn of `run`, `signalling` the threads before their notify |
| `Event`, `Thread`, `AtExit`, `Process`, `SingletonProcess`, `Logging`, `HttpClient`, `WinService`, `RegistryWatch`, `WinTimer` | the component of that name | one action per critical section, or per access to shared data where there is no lock |
| `MC_Primitives` | composes these ten and `MessagePumpWin` | picks one of them, its `subject`, per behaviour |
| `ByteDeque` | nothing of the code: what `BufferQueue` promises | pieces in and out at both ends, data across pieces |
| `BufferQueue`, `MemoryPool`, `Configor`, `FileIO` | the component | a call is an action; a call on a file that seeks and transfers is two |
| `Digests`, `Transforms`, `Aes`, `Rsa`, `Codecs`, `StringUtil`, `IPAddress`, `CmdLineParser`, `Paths`, `ShellLink`, `Registry`, `EnvVariable`, `TimeUtil`, `WinUtil` | functions | operators, a set of inputs, and what must hold of each input |
| `MC_Structures` | composes these eighteen | one `subject` per behaviour; a function has its `input` chosen at the start |
| `ThreadPool_proofs`, `AsyncWorker_proofs`, `Thread_proofs`, `MessageLoop_proofs`, `TimerManager_proofs` | - | proofs about the module of that name (those about `WinTimer` are in it) |
| `Primitives_proofs` | - | proofs of what `MC_Primitives` checks of its subjects |
| `LinkedLists` | `BufferQueue` and `MemoryPool` side by side | proofs about the lists of both; `MC_Structures` extends it |

Conventions. A critical section is one action, code that touches only data of
its own thread is joined to a neighbouring critical section, and what happens
outside of a lock, a notify above all, is an action of its own. Giving up a
mutex inside a condition variable is a place of `pc`, and every wait may return
spuriously. What the system does (pipes, handles, the service manager, the
registry, stdio) is external and as liberal as its documentation. Where code
has a Windows and a POSIX build, both are modelled and one is chosen at the
start. A name with a suffix after an underscore (`Take_Newest`) is a mutation
of the definition without it; no specification uses it.

### Notes on single models

**MessageLoop.** Sequence numbers are kept and order equal times, but the
wrap-around of the number (an `int` compared by difference) is beyond the bounds.
`doWork` is one action per turn of its loops. The destructor's rounds
(`message_loop.cpp:46-60`) are `DeletePendingTasks` and `DeleteAgain`: a round
calls `deletePendingTasks` twice, and the second call decides whether there is
another one. It looks at the three queues the first call has just emptied, and
what a destroyed callback posts goes to `incomingQueue_`; so it finds nothing, the
first of the (at most 100) rounds is the last, and the rest of `incomingQueue_` is
destroyed with the members, unrun (`DestroyMembers`). `NoLostWakeup` and `SleepsOnlyWhenIdle` speak about the outermost
`run`: inside a nested one `nestableTasksAllowed_` is false and the pump
rightly ignores its queues.

**MessagePumpWin.** A timer that fires inside a modal loop opened by a task is
killed and not armed again before the loop has ended; `PumpWakes` speaks of the
state in which the thread sleeps and nothing would wake it.

**TimerManager.** `IdsPartitioned` joins the table to the queue: a free id is
not valid, a valid one is scheduled or in the worker's hands. A caller that
removes its timer after it has fired may cancel whichever timer got the id; the
model allows it and counts that timer as removed. `run` unlocks before it calls
the handler (`Take`, then `Call`): a `remove` in between returns true, and that
one call still comes. `FiredAsAsked` allows just that, which `late` records. The
storage of `events_`, which `add` may move under the running handler, is not
modelled.

**Thread.** `stopSoon` tests `messageLoop_` at one line and uses it at another.
If two threads end the same `Thread`, or a quit is posted by a task while the
owner is inside `stopSoon`, the pointer may be gone in between. The constant
`Usages` is the discipline the tests follow: one way of ending a thread at a
time; `StopFindsLoop` is true of it, and false without it. The post itself is two
steps, `StopSoonPosts` and `StopSoonWakes`: it holds no lock that keeps the loop,
and reads `pump_` after the quit is visible, under any discipline too late
(`PostEndsBeforeLoop`, an expected violation). `NoPostIntoDestroyed` of
`MessageLoop` is about posts through the task runner. On Windows `stop` goes on to
ask `messageLoop_` for its type, in the same window; that line, and the WM_QUIT
that follows, are left out. `Eager` lets the
helper act before `start` has returned.

**AtExit.** The lock is held while callbacks run, so a destructor that asks for
a singleton which registers itself deadlocks; destructors here use only what
their constructors used, which exists. `UsersGoFirst` then depends on the
registration being inside `call_once`. It says which users of a deleted singleton
may be left: only one that a thread other than main is still constructing, or has
not registered yet, while main is in `ProcessCallbacksNow`. The code does not
wait for such a constructor, and it then goes on with a deleted object; a caller
that processes callbacks has to know that no other thread is building.

**Event.** A `set` followed at once by `unset` may be missed by a waiter that
is asleep: the header promises nothing else for a manual-reset event.
`SetReleases` is about an event that stays set.

**Process.** One thread asks for the status, as the class has no lock for two.
On POSIX `waitpid` frees the pid before `closed_` is set, so a `kill` in between
may reach another process; the window is in the model, no property forbids it.
A hung-up descriptor is read once more and then forgotten, which loses nothing
when the buffer is as large as the pipe, as the default one is (`Cap` =
`BufferSize`); a smaller buffer loses output. `EndsWithChild` speaks of a child
whose heir has ended too: one that keeps a pipe open keeps the reader, and the
thread that joins it.

**SingletonProcess.** On POSIX the assignment after a failed `flock` makes every
program the primary one. On Windows any call that creates or opens an object may
fail (the release build goes on, a debug build ends at the assertion), and `cb_`
may be empty: the listener then takes the event and leaves the buffer.
`SecondaryIsHeard` is about the programs in `expected`, which start as a
secondary while no other start is under way and a listener waits that has its
event, its view and a callback (`Attended`), and whose own calls succeed. Two
that start together write one buffer and set one event, and the primary reports
one, or a mixture. A secondary that outlives the primary keeps the named event:
the next program takes itself for a secondary too, and nobody hears it until all
the older ones have ended; the one after that is the primary again. The
assignment to `cb_` races with the listener that calls it; `End` at any point
stands for what that may do.

**Logging.** `tellp` of a closed or failed stream is -1, which the cast makes
larger than any size: each later message opens a new file, also after
`shutdownLogging`. `LoggedIsKept` excuses only messages in files old enough to be removed.

**HttpClient.** An `abort` before `openSession` has run closes nothing, and the
request opens its handles after it; the two threads may close one handle twice,
which WinHTTP refuses. `AnsweredTruly`: a request whose handles were closed under
it has done its work or is said to be aborted; `NoneLeft`: the destructor leaves
no handle open.

**WinService.** A handler that throws has the state it found restored. With two
operations at once (a stop of the service's own thread beside a control) the
later one restores a pending state, and the status is wrong for good: `misused`
marks that, and a pause or continue that does not fit the service; the two
properties are about one fitting operation at a time.

**RegistryWatch.** `hChangeEvent_` is never given back, so an object watches
once; `OnChange` is not virtual and does nothing.

**WinTimer.** A timer is deleted by a user whose stops have all waited. A
callback that stops its own timer is left out: it may find the handle not yet
stored, and the owner's later `stop(true)` waits for nobody.

**BufferQueue.** Bytes are numbers and the pieces have 1, 2 and 3 of them.
`malloc` fails when the addresses are used up. The value returned by
`removeData` (which counts one element too many when everything is removed) is
not modelled.

**MemoryPool.** `lent` and `returned` are what users hold and gave back, kept
apart from the links, so that the links can be compared with them. A move locks
only the pool assigned to (memory_pool.h:150; :133 for the constructor), so it is
two steps: it reads the heads of its source, and writes those of both. That
nobody uses the source in between is left to the callers, and is the assumption
`~SourceShared` of the run and of the theorem. Without it `LinksHold` is false:
with `SourceShared` = TRUE, TLC finds a block allocated from the source between
the two steps, which ends in neither list and which no destructor frees.

**Configor.** The file is the sequence of words and delimiters written. Reading
a missing element or value creates it without saving (`dirty`); a reload brings
back what was saved last. The scanner loops on an unclosed `[`, and a save
truncates the file before it writes: neither is reached, since only files that
the object wrote are read.

**FileIO.** Callers seek or give a place when they change between reading and
writing, as stdio demands. A failing `fclose` keeps `f_` in the code and does
not happen here.

### Notes on the functions

A function is an operator, checked on every input of a set that surrounds the
boundaries of its code. Two kinds of statement are made of it: `RoundTrips` (one
half undoes the other) and `AgreesWithReference` (what is computed step by step
is what a definition says, or, for ciphers and digests, a published answer).

- *Scaled down:* `Digests` (blocks of 8 bytes, words of 2, counters that wrap
  at a small `W`; the sequence of padded blocks stands for the digest), `Rsa`
  (`Width` = 2^17 values for a `long long`, six primes), the buffers of
  `Paths` and `WinUtil`. *Not scaled:* `Aes` (AES-128 on bytes), `Transforms`
  (words of 32 and 64 bits as bits), `IPAddress` (128 bits), `TimeUtil`.
- `StringUtil`: the narrow and the wide form of a function are the same code.
  `StrSplit` by an empty delimiter does not end and is not asked; `StrReplace`
  ignores its offset. `Codecs`: `HexDecode` takes letters up to `z` as digits;
  base64 for URLs pads with `.`, which the comment of the header does not say.
- `Digests`: `SHA1::transform` shares one static workspace, so two threads that
  hash at once spoil each other; the models are of one. `SHA512` counts the bits
  in 32 of the 128 bits of the length (sha512.cpp:149-164), so of a message of
  2^29 bytes and more it is not the digest of the standard. Its blocks
  are compared with those of the standard at every length but for the high word
  of the length, and in that word while the count fits (up to 15 bytes as scaled).
- `Aes`: a text of whole blocks gets no padding, since the
  buffer has no room for a block more; the decoder takes its last bytes for
  padding only if they look like it. `AesRoundTrips` says for which texts the
  decoder gives back the text.
- `Rsa`: a test for overflow after the overflow is undefined, and `folded`
  is the build in which the compiler takes it for true: `RsaRoundTrips` holds of
  that build while no product overflows, and run `rsa_overflow` shows it fail. An
  index may pass the end of the table of primes, and the test `temp == -1` of the
  decoder is never true.
- `ShellLink`: `load` reads front to back and never follows an offset; the
  console block takes 32 bytes for a name of 64 and one field twice, so blocks
  after it are misread; a text of no length is an error; a second `load` keeps
  what the first one set and the second file does not have. `saveAs` does
  nothing.
- `Registry`: `DeleteKey` enumerates in the view of the process and deletes in
  the one it is told; `getExpandSZValue` looks into the 32-bit view unless the key was opened for
  the other; `getMultiSZValue` appends to what the caller had and stops at an empty text.
- `EnvVariable`: each write puts back what the object read when it was made, so
  that what another one wrote since is lost;
  `cut("")`, and `PathRemove("")` of an empty value, do not end and are not asked
  (`CutEnds`, `RemoveEnds`); each call leaks the key it opened.
- `TimeUtil`: on POSIX the nanoseconds of the clock are returned as the part
  below the second and the fields of `tm` without 1900 and 1 added;
  `UTCToTimeStamp` takes the date for a local one and leaves `tm_isdst` unset.
- `WinUtil`: a process that cannot be opened counts as one of 64 bits;
  `KillProcessTree` ends the direct children only; on POSIX an id of 0 or below
  signals whole groups; `IsRunningAsElevation` ignores its argument.
- `Paths`: `Path("") + "a"` is `/a`; `MakePath` fails on what another process has
  made meanwhile, and has no `return` for macOS.

## 3. Runs

| run | instance | what it shows |
|---|---|---|
| `thread_pool` | 2 workers, 1 client, 3 tasks | `TypeOK`; `NoLostWakeup`; `DestroyedMeansDrained`; `ServesAll`: the pool implements `FifoExecutor`, fairness included; `DestructorReturns` |
| `async_worker` | 2 clients, 3 tasks | `StopMeansStopped`, `InOrder` (implements `FifoExecutor` with giving up), `ServesUntilStop`, `StopReturnsAtLast` |
| `message_loop` | 1 poster, 5 tasks: immediate, delayed, delayed and non-nestable, idle (non-nestable, quits), nesting; 3 ticks | `OneFate`, `NoLostWakeup`, `SleepsOnlyWhenIdle`, `NoPostIntoDestroyed`, `ImmediateInOrder` (implements `FifoExecutor` for immediate tasks), `QuitIsPrompt` (until a callback runs the loop again), `EveryTaskSettled` (unless a nested run never ends) |
| `message_loop_timed_wait` | 2 tasks | expected violation: a post between `doWork` and the timed wait is not noticed before the next delayed task is due |
| `message_loop_deferred` | a non-nestable and a nesting task | expected violation: `doIdleWork` runs a deferred non-nestable task inside a nested loop |
| `windows_pump_timer` | `MC_Primitives` with 1 poster and 2 delayed tasks for the pump, and the least of the other subjects | expected violation: the pump for Windows sleeps past a delayed task posted after, but due before another |
| `timer_manager` | 1 client, 3 timers: already due, due later, periodic; 2 ticks | `IdsPartitioned`, `NoLostWakeup`, `FiredAsAsked`, `OneShotFires` |
| `primitives` | eleven subjects, below | see below |
| `thread_eager_quit` | 1 start, a helper that quits early | expected violation: `start` misses the time during which `running_` is true, and waits for ever |
| `thread_stop_posts` | 1 start, the owner alone | expected violation: the loop ends while `stopSoon` is inside its post |
| `structures` | 19 subjects, below | see below |
| `rsa_overflow` | keys of six primes | expected violation: built so that the test for overflow is dropped, `RSA` does not decrypt what it encrypted |

`primitives`, by subject:

| subject | instance | properties |
|---|---|---|
| event | 2 waiters, 2 setters | `SetReleases` |
| thread | 2 starts, three ways to end | `StopFindsLoop`, `StartWaitsForSetup`, `StopEnds` |
| at exit | 2 workers and main, a chain of three singletons, one `ProcessCallbacksNow` | `UsersGoFirst`, `NoneLeft` |
| process | both builds, 2 streams, 2 chunks each way | `DeliveredBeforeStatus`, `EndsWithChild` |
| programs | both builds, 3 programs, 3 starts, one failing call, crashes | `SecondaryIsHeard` |
| log | 2 threads, 2 messages, files of 1 message, 2 days | `LoggedIsKept` |
| pump | 2 posters, a modal task, a delayed task and one that quits, a queue of 2 messages | `PumpWakes` |
| http | 2 requests, an abort at any moment | `ReportedTruly`, `NoneLeft`, `StopEnds` |
| service | 2 tools, 3 commands, handlers that throw | `ReportedTruly`, `StopEnds` |
| registry | 2 handles | `StopEnds` |
| timer | 3 timers, 2 callbacks of one at a time | `NoneLeft`, `StopEnds` |

`structures`, by subject: queue (3 addresses, requests up to 6 bytes) with
`LinksHold` and `ActsAsDeque` (implements `ByteDeque`); pool (2 pools, 3 blocks)
with `LinksHold`; config (4 elements and values) with `RoundTrips`; file (2
threads, 2 bytes) with `AgreesWithReference`; and the fifteen functions digest,
text, version, ip, codec, line, aes, rsa, path, transform, link, registry, env,
time and util with `RoundTrips` and `AgreesWithReference` as far as the module
has one or the other.

`TypeOK` of every module with processes is checked in its run. The six
expected violations are the entries of "findings" in `PROJECT.json`, each with
the sentence of the repository it contradicts.

**Known without a run.** `AsyncWorker`: after `stop` a new `start` serves nothing,
for `exit_` is never reset. `TimerManager`: `remove` says true of a timer that has
fired. On POSIX, every `SingletonProcess` is primary. The functions disagree with
their headers in four places, which the properties neither assert nor cover:

- time_util.h:102 promises of `UTCToTimeStamp` the time since 1970-01-01 UTC. It
  calls `mktime`, which takes a date for one of the zone, with `tm_isdst` unset
  (time_util.cpp:171-183). `TimeRoundTrips` asks for the stamp where the zone is
  that of UTC and the stray flag clear, and elsewhere for differences only.
- time_util.h:87-95 promises of `GetLocalTime` and `GetUTCTime` the current time.
  On POSIX they hand `tm` on with its years from 1900 and its months from 0, and
  give the nanoseconds of the clock to `localtime` as its seconds
  (time_util.cpp:92-110, `ClockTime`). `TimeAgrees` is about Windows.
- process_util.h:64 promises of `GetCurrentExePath` the path of the program. When
  the last error was that of too small a buffer before the call, the buffer grows
  until memory is exhausted and the call fails (process_util.cpp:209).
  `UtilRoundTrips` is about a last error that is clear.
- shellink_parser.h:637-745 describes the console block of a shortcut.
  `ReadConsole` reads 28 bytes less than there are (shellink_parser.cpp:454-557),
  so that what follows is refused or misread. `LinkRoundTrips` asks of such a file
  for the texts before its blocks.

The notes above name the others.

**Why the bounds are enough to be interesting.** Two workers let one sleep
while the other takes; three tasks let a task submit another one while a third
is queued. One poster suffices for the loop because callbacks on the loop thread
post too, so two threads are inside a post at once, and the first-post rule
needs only a queue that is empty or not. Two delays of different length posted
in the wrong order exercise the time the pump is told. Three timers are the
least with which an id is freed, reused and freed again while a periodic one is
in its handler. Three list elements are the least with an inner one; requests
of up to six bytes reach past one, two and all three pieces. `MaxTime` bounds
the clocks: a task or timer that would be due later is not accepted, and every
delay and one period fit. `MaxStarts` = 2 lets what one life of a thread leaves
behind meet the next; `MaxProcess` = 1 lets the manager be used again after its
callbacks have run. `MaxRequests` = 2 lets a request meet handles of the one
before it; three programs and starts (`MaxRuns`) let a secondary come while
another one ends, and a primary and its secondary be followed by a third program. Two handles let a registry object be used again.
`MaxTimers` = 3 lets a started timer meet one that was stopped without waiting.
`Cap`, `BufferSize`, `MaxOutput` and `MaxInput` make a pipe fill while the child
has more to write. `MaxLogFileSize` = 1 makes each second message rotate.
`Capacity` = 2 makes the queue of messages fill. `MaxLength` = 2 makes a write end
at, before and behind the end of the file.

**Deadlock** is checked in every run; the steps named `Destroyed`, `Gone`,
`Rest`, `Done`, `AllGone` and `Returned` are the places where a system has
rightly come to an end.

**Fairness.** A thread that can take its next step does so (weak fairness per
thread), tasks, handlers and callbacks return, time passes. No caller is
obliged to call anything, and no wake-up is spurious by obligation. The return
of a timer handler gets strong fairness because a handler that calls `remove`
again and again disables its return in between, yet is assumed to end. The
condition variables are not assumed to be fair: `notify_one` picks any waiter.
Outside of the program nothing is assumed of a child (which may run for ever),
of the network or of other programs, except that a call of the system which
nobody waits for returns: the readers of a pipe, a closed handle, the service
manager's timeout of a handler, and the callbacks of a timer go on.

## 4. Proofs

What TLC checks on a small instance holds for every value of the constants
where TLAPS proves it. The only assumptions are those the modules name
(`ConstantsOK`: the worker set is finite and not empty, thread identities are
distinct, "no task" is not a task, bounds are numbers), and three that a theorem
states itself: `OneWay`, `BufferHoldsPipe` and the absence of nested runs.

Each inductive invariant was checked by TLC on an instance before it was proved,
but for the two of `LinkedLists`: they say that a sequence exists, or name a sum
of any length, and of these TLC checks what follows, `LinksHold`.

**`ThreadPool_proofs`.** The inductive invariant `IInv` is the conjunction of

- `TypeOK`;
- `Accounted`: an accepted task is queued, in a worker's hands, or finished,
  which is what relates the destructor's end to the history of `enqueue`;
- `ExitedMeansEmpty`: `stop` is set exactly from the first step of the
  destructor on, a worker leaves only a stopped and empty pool, and nobody
  sleeps once everybody was woken. Without it the join says nothing of the
  queue: a worker might enqueue after the others left, and here it is shown
  that the pool refuses then;
- `NoLostWakeup`, which is inductive with the rest: the worker whose sleep
  would break it tests an empty queue, and the notify that leaves `inEnqueue`
  wakes somebody if anybody sleeps.

`Inductive`, `TypeCorrect`, `WakeupsAreKept` and `DestructorDrains` follow.
`ImplementsExecutor` maps the pool to `FifoExecutor`, step by step: it proves
the safety part `ServesInOrder` of the property `ServesAll`. It needs
`Distinct` (no task is queued or run twice) and counts the busy workers, so
that a worker with free hands leaves room for one more task (`RoomForOne`).

**`AsyncWorker_proofs`.** `TypeOK` together with `WorkerIsSeen` (`running_` is
true exactly between the first and the last step of `run`, and the owner that
has left `stop` saw the thread ended) and `OnlyInvoked` (what is queued, run
or dropped was invoked) is inductive. `TypeCorrect` and
`StopsForGood` (`StopMeansStopped`) are its consequences, and `StartsNothing`
(nothing is taken from the queue once the exit flag is set) follows from the
guards of the steps that change `cur`. `ImplementsExecutor` is `InOrder`: every
step maps to a step of `FifoExecutor` with one server, giving up included.

**`Thread_proofs`.** `StoppedIsReset` and `LoopIsFound` are proved for every
number of starts; the second assumes `OneWay`, that the thread is ended in one
of the three ways at a time, as the tests do, and by nobody while `start` is
under way, while the first holds whatever the ways. The invariant `IInv` is
the conjunction of `TypeOK`, `Reset`
(`running_` and `STOPPED` against the place of the thread), `QuitHasAuthor`
(the thread leaves `run` only for a quit task, and the task comes from a
`stopSoon` that has marked the object, or from the helper's `postQuit`),
`EndsAreKept` (who may be inside `stopSoon`) and `MarkedIsAlive` (past the test
of `stopSoon` the loop lives and no quit is posted yet). The property alone is
not inductive: the loop stays alive only because nobody else may post the quit.
`LoopIsFound` says nothing of the time after its own quit is visible.


**`WinTimer`** has its theorem in its own module. `StoppedIsQuiet` proves
`NoneLeft` for any number of timers and of callbacks at a time. The invariant
adds `Handed` to it: while `stop(true)` waits, its timer is still the one in
`m_hTimer` and out of the queue, and an object that is deleted has no timer that
nobody waited for. Without that, a timer deleted by the stop could not be told
from one that was forgotten.

**`MessageLoop_proofs`** is about any tasks, posters, delays and nesting. `IInv`
is the conjunction of

- `TypeOK`, and `Numbered`: a delayed task has a time and a number that was given;
- `OuterIsAllowed`: while no task is being run, tasks are allowed. Without it
  `doWork` could return false with its queues full;
- `PostIsTold`: from the turn in which `doWork` has found nothing until the sleep,
  a task in `incomingQueue_` is told by `have_work_` or is about to be, and a pump
  that waits over `have_work_` has a notify to come;
- `NothingLeft`, by the place of the pump in its turn: the queues that the parts
  already done have emptied, and `delayedWorkTime_` as they have left it;
- `OnePlace`: the places a task can be in are disjoint, and it is in one once;
- `NoPostIntoDestroyed`.

`TypeCorrect`, `WakeupsAreKept`, `SleepIsEarned` and `MembersMayGo` follow.
`NothingLostNorDoubled` counts: that the sizes of the queues add up to the number
of posted tasks follows from `OnePlace` by lemmas on the cardinality of what a
queue holds. `NothingAfterQuit` is about a loop that no callback has run
again, so far: a nested run takes the quit for itself. What was started is running
or done (`RunsAreKept`), so if no such callback was started by now, none was
before.

`ImplementsExecutor` is `ImmediateInOrder`, step by step, for any number of
posters, of tasks and of callbacks that run the loop again. The abstract queue is
`ImmediateOf(work_queue \o incomingQueue)`, a recursive function of the two
queues. The lemmas on it say what it makes of an empty, a longer and a shorter
queue and of two queues in a row; they use `GrowingSequences`, induction for a set of
sequences, which follows from the least number of a set and so needs no operator
as a parameter. `OrderInv` is added to `IInv`: `Sorted`, the time of a task
in the first two queues tells whether it has a delay, so that no immediate
nestable task gets into the other two and `doDelayedWork` and `doIdleWork` are
stutters; `NestersBelow`, the callbacks under the one that runs are inside
`MessageLoop::run`, so that no more than one of each of them and the one on top
run at once; and `WorkIsGone`, the destructor leaves its rounds with `work_queue_`
empty. A post is a hand-over or a refusal, the swap of the two queues a
stutter, a round of the destructor gives up the oldest of the queue.

**`TimerManager_proofs`.** `IInv` is the conjunction of `TypeOK`, `OnePlace` (an
index of `events_` is in the queue, in the handler or in `free_ids_`, once),
`EntryIsOfCall` (an entry of the table is that of the last call of `add` that
returned its id), `ScheduledMayFire` (what is scheduled was not removed, and a
one-shot timer in the queue has not fired), `TakenMayFire` (nor was what the
worker has taken and not yet called, unless `late`) and `NoLostWakeup`.
`IdsPartitioned` counts the same places. `FiredAsAsked` is an action property
and needs `TakenMayFire` of the state before: an id that is used again must not
call on behalf of its former owner.

**`Thread_proofs`** has `SetupIsWaitedFor` too: whatever ends the thread, `start`
returns only when the delegate has set the loop up in this life of the thread.

**`Primitives_proofs`** states its theorems of the composition, so that they name
what the run `primitives` checks. `Alone` says that a step of one subject leaves
the variables of the others as they are; `Thread_proofs` and `WinTimer` are
instantiated, and the invariants of the others are here:

- `ToldTruly` (`ReportedTruly`). `HttpInv`: which handles are open follows from
  the step of the request and from what the abort has closed (`HandlesHeld`,
  `NotYetOpened`); a thread that met a closed handle has the code of it.
  For a service, the status told, the operation under way and what it will
  restore agree unless two operations overlapped.
- `DeletedInOrder` (`UsersGoFirst`), for the dependencies that `MC_Primitives`
  gives the singletons and for any threads. `ExitInv`: a singleton is built by one
  thread, which asks for all it uses first (`Builds`), so that what a registered
  singleton uses was registered before it (`Registered`); and what lives is
  registered, or about to be by the thread that made it (`LiveHeld`). So a user that
  is left when a singleton is deleted is being constructed, and only while
  `ProcessCallbacksNow` runs, in another thread (`Spared`).
- `NothingIsLeft` (`NoneLeft`) of the singletons, the handles and the timers.
- `StatusComesLast` (`DeliveredBeforeStatus`) under `BufferHoldsPipe` (`Cap <=
  BufferSize`), which the default buffer satisfies and without which it is
  false. `ChildInv`: what was written is delivered, in the pipe or in the hands
  of the reader, and a reader gives up a pipe only when it is empty and nobody
  can write to it (`Dropped`); the status waits for the readers (`Joined`).
- `CommandLinesAreHeard` (`SecondaryIsHeard`) for any number of programs, starts
  and failing calls. `HeardInv`: whoever is expected and was not heard yet has
  the buffer and the event for itself (`OnItsWay`): no other program is inside
  `check`, there is a listener, every listener has a callback and the buffer and
  waits until the event is set, and then the command line is in the buffer with
  the event, with the listener that took the event, or in `secondaryCML` (`Told`).
- `SleepersAreWoken` (`PumpWakes`). `PumpInv`: `OneAnnouncement`, the flag
  `workState_` is `HAVE_WORK` while there is exactly one of a message in the
  queue, a poster about to post it, and the pump that has just taken it;
  `NoneForgotten`, from `doWork` on a turn that will not be repeated has left
  no task behind that nothing announces; and `Nesting`, which tells
  to what a task, a message box or the handler of a message returns: a part of
  a turn goes on after `doWork` only if the loop is not inside a task.
- `LinesAreKept` (`LoggedIsKept`). `LogInv`: messages differ, what is not written
  yet is in no file (`MessagesDiffer`), so lines differ (`LinesDiffer`); a new
  file has a number that none has; a thread about to write was told to, unless
  the settings changed (`SettingsHold`); and the file that holds a message is
  as young as the message (`Debts`), so it is not removed too early.
- `LoopIsFound` (`StopFindsLoop`) under `OneWay`, and `SetupIsWaitedFor`, of `Thread`.
- `TypeCorrect` (`TypeOK`) of whichever component is run, by a lemma each; it
  says more than the types where a component counts something. Of `Process`: each
  byte written is delivered or in its pipe, and a pipe holds no more than its
  capacity, for a buffer of any size (`FlowTypes`). Of `Logging`: the open file is
  not longer than its limit (`FileHasRoom`). Of the pump: what was queued, runs
  or has run was posted (`LoopTypes`), which needs that one task runs at a time,
  also below modal loops: `OneTask`, the thread is in the task named by
  `running`, or returns to it once; and no message is put into a full queue
  (`Room`).

**`LinkedLists`** is about any finite memory, any non-empty pieces and any pools.
`Listed` says of a sequence that it is a doubly linked list from its first
element on, by both links of each. Its lemmas are what both components do to a
list: `PutFirst`, `PutLast` and `Unlinked` of any element. Each asks only for
the links that have to change and for the others to be kept, so it holds of two
lists in the same memory. `WalkOfList` shows that the walk over `next` sees
exactly that sequence: `Chain` stops after as many elements as there are
addresses, which is enough because a list has none twice (`ListCount`).

- `PoolsHoldBlocks` (the half of `LinksHold` on `MemoryPool`). `PoolInv`: the
  lists of a pool hold (`Holds`) the blocks its users have and the blocks given
  back; no block is in two lists (`Apart`), without which linking a block
  into one list might cut another; and what a move has read of its source is
  still so (`MoveInv`), which is where `~SourceShared` is used.
- `ListIsWhole` (the half on `BufferQueue`). `QueueInv`: the chain is `Listed`,
  `element_num_` is its length, and `total_data_size_` the sum of the sizes of
  its pieces (`Shape`); a loop that runs has a first element and something left
  to take (`QueueTypes`). The sum is a recursive function; that it grows by what
  is put at either end is shown by the least number for which it does not
  (`TotalAppend`, `TotalCons`).
- `LinksAlwaysHold` (`LinksHold`) joins the two.
- `QueueIsDeque` (`ActsAsDeque`) is the refinement, action by action
  (`Simulates`): a push or a pop puts or takes the sequence of pieces where
  `ByteDeque` does; a turn of a loop is a `Take` or a `Remove` of `Portion` bytes,
  which is never more than the first piece has and never none.

**Only model-checked.**

- Liveness (a property of fairness, which the prover does not treat):
  `ServesUntilStop`, `StopReturnsAtLast`, `DestructorReturns`, the fair half of
  `ServesAll`, `EveryTaskSettled`, `OneShotFires`, `SetReleases`, `StopEnds`,
  `EndsWithChild`.
- `RoundTrips` and `AgreesWithReference`: their modules declare recursive
  operators, and what a function computes from a sequence is a matter of
  induction over data.

## 5. Not modelled

- `ScopedObject`, `ThreadChecker`, the Windows critical section: one assignment
  or one comparison each, and no property relates two of them.
- HTTP utilities: setters and getters of the records of a request and of an
  answer, and one test of a prefix.
- Conversion of character sets: one call of the platform's converter each.
- System information, Windows shell and system wrappers: single calls of the
  system, or short sequences of them, without state.
- Windows icons: straight-line decoding of a format that is told elsewhere.
- Vendored headers (filesystem, optional, xorstr, the test framework) and
  preprocessor definitions.

Partly modelled: `IPAddress` (reading and printing call `inet_pton` and
`inet_ntop`), the pump for Windows (a nested `run`, a dispatcher and the creation
of the window are left out), `WinTimer` (a callback that stops its own timer),
and the helpers on processes and settings (creation, elevation and privileges
are calls of the system).

The remaining parts of the models that are smaller than the code are named in
the notes of section 2.

## 6. Plan

Next: the safety half of `SetReleases` and `StopEnds`, of `Event` and
`RegistryWatch`, for any number of waiters and handles.
