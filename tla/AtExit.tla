------------------------------- MODULE AtExit -------------------------------
(***************************************************************************)
(* SingletonClass<T, releaseAtExitManager> and AtExitManager               *)
(* (singleton_class.h, at_exit.cpp).  Threads ask for singletons; the      *)
(* constructor of one may ask for others (Needs), and its destructor may   *)
(* use those again.  Instance() builds once under std::call_once and, for  *)
(* Managed ones, registers the deletion; Main runs the registered          *)
(* callbacks, with ProcessCallbacksNow and in ~AtExitManager.              *)
(*                                                                         *)
(* frames[t] is the stack of constructors thread t is in, outermost first: *)
(* [of, asks, made] with the singletons still to be asked for, and whether *)
(* new T() has returned.                                                   *)
(***************************************************************************)
EXTENDS Naturals, Sequences, FiniteSets

CONSTANTS
    Singleton,
    Needs,      \* singleton -> those its constructor and destructor use
    Managed,    \* those with releaseAtExitManager
    Main,       \* the thread that has the AtExitManager on its stack
    Worker,     \* other threads
    MaxProcess  \* bound on the calls of ProcessCallbacksNow

ConstantsOK ==
    /\ Main \notin Worker
    /\ Needs \in [Singleton -> SUBSET Singleton] /\ Managed \subseteq Singleton
    /\ MaxProcess \in Nat

Thread == Worker \cup {Main}

VARIABLES
    once,       \* singleton -> its once_flag: "no" | "running" | "done"
    instance,   \* singleton -> "null" | "live" | "deleted"
    frames,
    stack,      \* stack_ of the manager: singletons, top last
    lock,       \* holder of m_, or "nobody"
    manager,    \* g_top_manager is not null
    exit,       \* Main: "no" | "processing" | "destroying" | "gone"
    processed   \* calls of ProcessCallbacksNow so far

vars == <<once, instance, frames, stack, lock, manager, exit, processed>>

TypeOK ==
    /\ once \in [Singleton -> {"no", "running", "done"}]
    /\ instance \in [Singleton -> {"null", "live", "deleted"}]
    /\ \A t \in Thread :
          frames[t] \in Seq([of : Singleton, asks : SUBSET Singleton, made : BOOLEAN])
    /\ stack \in Seq(Singleton)
    /\ lock \in Thread \cup {"nobody"}
    /\ manager \in BOOLEAN
    /\ exit \in {"no", "processing", "destroying", "gone"}
    /\ processed \in 0 .. MaxProcess

Init ==
    /\ once = [s \in Singleton |-> "no"] /\ instance = [s \in Singleton |-> "null"]
    /\ frames = [t \in Thread |-> <<>>]
    /\ stack = <<>> /\ lock = "nobody"
    /\ manager = TRUE /\ exit = "no" /\ processed = 0
-----------------------------------------------------------------------------
(* Instance. *)

Top(t) == frames[t][Len(frames[t])]
InConstructor(t) == frames[t] # <<>> /\ ~Top(t).made
Push(t, s) == frames' = [frames EXCEPT ![t] =
                  Append(@, [of |-> s, asks |-> Needs[s], made |-> FALSE])]
SetTop(t, f) == frames' = [frames EXCEPT ![t] = [@ EXCEPT ![Len(@)] = f]]

\* Who may call Instance(): the constructor on top of the stack of t, or t
\* outside of all constructors and before the manager goes.
MayAsk(t, s) ==
    IF InConstructor(t)
    THEN s \in Top(t).asks
    ELSE frames[t] = <<>> /\ exit \in IF t = Main THEN {"no"} ELSE {"no", "processing"}

\* The first call builds.
InstanceBuilds(t, s) ==
    /\ MayAsk(t, s) /\ once[s] = "no"
    /\ once' = [once EXCEPT ![s] = "running"]
    /\ Push(t, s)
    /\ UNCHANGED <<instance, stack, lock, manager, exit, processed>>

InstanceFound_Unfinished(t, s) ==
    /\ MayAsk(t, s) /\ (once[s] = "done" \/ instance[s] # "null") /\ InConstructor(t)
    /\ SetTop(t, [Top(t) EXCEPT !.asks = @ \ {s}])
    /\ UNCHANGED <<once, instance, stack, lock, manager, exit, processed>>

\* A later call, or one that waited in call_once, returns the pointer.  Only
\* for a constructor does the model need the step.
InstanceFound(t, s) ==
    /\ MayAsk(t, s) /\ once[s] = "done" /\ InConstructor(t)
    /\ SetTop(t, [Top(t) EXCEPT !.asks = @ \ {s}])
    /\ UNCHANGED <<once, instance, stack, lock, manager, exit, processed>>

\* new T() returns and instance is set.
Constructed(t) ==
    /\ InConstructor(t) /\ Top(t).asks = {}
    /\ instance' = [instance EXCEPT ![Top(t).of] = "live"]
    /\ SetTop(t, [Top(t) EXCEPT !.made = TRUE])
    /\ UNCHANGED <<once, stack, lock, manager, exit, processed>>

Register_WhenFree(t) ==
    /\ frames[t] # <<>> /\ Top(t).made
    /\ LET s == Top(t).of IN
       /\ stack' = IF s \in Managed /\ manager /\ lock = "nobody" THEN Append(stack, s) ELSE stack
       /\ once' = [once EXCEPT ![s] = "done"]
    /\ frames' = [frames EXCEPT ![t] = SubSeq(@, 1, Len(@) - 1)]
    /\ UNCHANGED <<instance, lock, manager, exit, processed>>

\* RegisterCallback, when there is a manager, under m_; then call_once ends.
Register(t) ==
    /\ frames[t] # <<>> /\ Top(t).made
    /\ LET s == Top(t).of IN
       /\ IF s \in Managed /\ manager
          THEN lock = "nobody" /\ stack' = Append(stack, s)
          ELSE UNCHANGED stack
       /\ once' = [once EXCEPT ![s] = "done"]
    /\ frames' = [frames EXCEPT ![t] = SubSeq(@, 1, Len(@) - 1)]
    /\ UNCHANGED <<instance, lock, manager, exit, processed>>
-----------------------------------------------------------------------------
(* Main: ProcessCallbacksNow and the destructor. *)

Busy == \E t \in Thread : frames[t] # <<>>

\* Other threads may be inside constructors: Register waits for the lock.
ProcessCallbacksNow ==
    /\ exit = "no" /\ frames[Main] = <<>> /\ processed < MaxProcess
    /\ lock = "nobody"
    /\ lock' = Main /\ exit' = "processing" /\ processed' = processed + 1
    /\ UNCHANGED <<once, instance, frames, stack, manager>>

\* ~AtExitManager, when no other thread uses singletons any more.
DestroyManager ==
    /\ exit = "no" /\ ~Busy
    /\ lock = "nobody"
    /\ lock' = Main /\ exit' = "destroying"
    /\ UNCHANGED <<once, instance, frames, stack, manager, processed>>

\* The callback on top deletes its instance, and is popped after that.
RunCallback ==
    /\ exit \in {"processing", "destroying"} /\ stack # <<>>
    /\ instance' = [instance EXCEPT ![stack[Len(stack)]] = "deleted"]
    /\ stack' = SubSeq(stack, 1, Len(stack) - 1)
    /\ UNCHANGED <<once, frames, lock, manager, exit, processed>>

CallbacksDone ==
    /\ exit \in {"processing", "destroying"} /\ stack = <<>>
    /\ lock' = "nobody"
    /\ manager' = (exit = "processing")
    /\ exit' = IF exit = "processing" THEN "no" ELSE "gone"
    /\ UNCHANGED <<once, instance, frames, stack, processed>>
-----------------------------------------------------------------------------
BuildStep(t) ==
    \/ Constructed(t) \/ Register(t)
    \/ \E s \in Singleton : InConstructor(t) /\ (InstanceBuilds(t, s) \/ InstanceFound(t, s))

ExitStep == RunCallback \/ CallbacksDone

Gone == exit = "gone" /\ UNCHANGED vars

Next ==
    \/ \E t \in Thread :
          \/ Constructed(t) \/ Register(t)
          \/ \E s \in Singleton : InstanceBuilds(t, s) \/ InstanceFound(t, s)
    \/ ProcessCallbacksNow \/ DestroyManager \/ ExitStep
    \/ Gone

\* Threads get the processor and main returns in the end.
Fairness ==
    /\ \A t \in Thread : WF_vars(BuildStep(t))
    /\ WF_vars(ExitStep)
    /\ WF_vars(DestroyManager)

Spec == Init /\ [][Next]_vars /\ Fairness
-----------------------------------------------------------------------------
\* The threads that are inside a constructor which has been given d.
Holding(d) ==
    {t \in Thread : \E i \in DOMAIN frames[t] :
        d \in Needs[frames[t][i].of] \ frames[t][i].asks}

\* A singleton is deleted after those that use it, whichever threads built the
\* one and the others: callbacks run in the reverse order of their registration,
\* and call_once ends after the registration.  What the code does not wait for is
\* a user that another thread is still constructing, or has not registered yet,
\* while Main is in ProcessCallbacksNow: that one may lose what it was given.
\* Nobody else does, and with no such constructor no user is left.
UsersGoFirst ==
    [][\A d \in Singleton : instance[d] = "live" /\ instance'[d] = "deleted" =>
          /\ Holding(d) \subseteq IF exit = "processing" THEN Worker ELSE {}
          /\ \A u \in Managed : d \in Needs[u] /\ instance'[u] = "live" =>
                \E t \in Holding(d) : \E i \in DOMAIN frames[t] : frames[t][i].of = u]_vars

\* With the manager gone, no managed singleton is left.
NoneLeft == exit = "gone" => \A s \in Managed : instance[s] # "live"
=============================================================================
