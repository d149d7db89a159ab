----------------------------- MODULE WinService -----------------------------
(* A Windows service (src/include/ashe/win/service_base.h) and the tools that *)
(* install, start, stop and uninstall it (src/src/win/service_util.cpp). The  *)
(* On... handlers of the service succeed or throw.                            *)
(*                                                                            *)
(* The service control manager is external: it has one control at a time      *)
(* handled, refuses all but a shutdown when the service is stopped or has     *)
(* reported that it is starting or stopping, gives up on a handler after 30   *)
(* seconds, and removes a deleted service when it has stopped.                *)
EXTENDS Naturals

CONSTANTS Tool, MaxCommands

ConstantsOK == MaxCommands \in Nat

VARIABLES
    installed,  \* "no", "yes", or "marked" for deletion
    status,     \* m_status.dwCurrentState, as the manager has it
    did,        \* what the handlers that succeeded have made of the service
    op,         \* of each thread of the service: the operation it is in
    original,   \* dwOriginalState of Stop
    pc,         \* of each tool
    commands,   \* controls and starts so far
    misused     \* history: two operations overlapped, or one was asked for a
                \* service that was already as asked

serviceVars == <<installed, status, did, op, original, pc, commands, misused>>

\* ServiceMain; ServiceCtrlHandler; the code of the service, which may call Stop.
ServiceThread == {"main", "control", "own"}
Pending ==
    [start |-> "START_PENDING", stop |-> "STOP_PENDING", pause |-> "PAUSE_PENDING",
     continue |-> "CONTINUE_PENDING"]
States == {"STOPPED", "RUNNING", "PAUSED"} \cup {Pending[o] : o \in DOMAIN Pending}

Quiet == \A w \in ServiceThread : op[w] = "none"
Accepts == status \notin {"STOPPED", "START_PENDING", "STOP_PENDING"}

-----------------------------------------------------------------------------
\* The service

\* The operation o begins on thread w, and reports what is pending.
Begin(w, o) ==
    /\ op[w] = "none"
    /\ op' = [op EXCEPT ![w] = o]
    /\ original' = [original EXCEPT ![w] = status]
    /\ status' = IF o = "shutdown" THEN status ELSE Pending[o]
    /\ misused' = (misused \/ ~Quiet \/ (o = "pause" /\ did # "RUNNING")
                                     \/ (o = "continue" /\ did # "PAUSED"))

\* What the service is when the handler of o has succeeded.
Achieved(o) ==
    CASE o \in {"start", "continue"} -> "RUNNING" [] o = "pause" -> "PAUSED"
      [] o \in {"stop", "shutdown"} -> "STOPPED"

\* A mutant: a service that could not stop is said to be running.
Restored_StillRunning(o, was) ==
    CASE o = "start" -> "STOPPED" [] o \in {"stop", "pause"} -> "RUNNING"
      [] o = "continue" -> "PAUSED" [] o = "shutdown" -> status

\* What it reports when the handler has thrown.
Restored(o, was) ==
    CASE o = "start" -> "STOPPED" [] o = "stop" -> was
      [] o = "pause" -> "RUNNING" [] o = "continue" -> "PAUSED"
      [] o = "shutdown" -> status

\* The tool that waits for the control goes on with what ControlService says.
Answered(c) == [c EXCEPT !.at = IF c.task = "uninstall" THEN "poll" ELSE "idle"]

\* The handler returns or throws, and the status that follows is reported.
End(w, succeeds) ==
    /\ op[w] # "none"
    /\ op' = [op EXCEPT ![w] = "none"]
    /\ did' = IF succeeds THEN Achieved(op[w]) ELSE did
    /\ status' = IF succeeds THEN Achieved(op[w]) ELSE Restored(op[w], original[w])
    /\ pc' = IF w # "control" THEN pc
             ELSE [t \in Tool |-> IF pc[t].at = "controlling" THEN Answered(pc[t]) ELSE pc[t]]
    /\ UNCHANGED <<installed, original, commands, misused>>

\* ServiceMain: without a handler the service never starts.
ServiceMain ==
    /\ status = "START_PENDING" /\ op["main"] = "none" /\ did = "STOPPED" /\ Quiet
    /\ \/ Begin("main", "start")
       \/ status' = "STOPPED" /\ UNCHANGED <<op, original, misused>>
    /\ UNCHANGED <<installed, did, pc, commands>>

\* The service stops itself, for instance when its work has failed.
Stop ==
    /\ status # "STOPPED" /\ did # "STOPPED" /\ commands < MaxCommands
    /\ commands' = commands + 1
    /\ Begin("own", "stop")
    /\ UNCHANGED <<installed, did, pc>>

\* ServiceCtrlHandler, for the controls that no modelled tool sends.
SystemControl(o) ==
    /\ status # "STOPPED" /\ commands < MaxCommands
    /\ o # "shutdown" => Accepts
    /\ commands' = commands + 1
    /\ Begin("control", o)
    /\ UNCHANGED <<installed, did, pc>>

Handler == \E w \in ServiceThread, succeeds \in BOOLEAN : End(w, succeeds)

-----------------------------------------------------------------------------
\* The tools

At(t, a) == pc[t].at = a
Go(t, a) == pc' = [pc EXCEPT ![t].at = a]
Asks(t, task, a) == pc' = [pc EXCEPT ![t] = [task |-> task, at |-> a]]
OnlyTools == UNCHANGED <<installed, status, did, op, original, commands, misused>>

Install(t) ==
    /\ At(t, "idle") /\ installed = "no"
    /\ installed' = "yes"
    /\ UNCHANGED <<status, did, op, original, pc, commands, misused>>

\* ServiceUtil::Start and Stop look at the status before they ask for anything.
Query(t) == At(t, "idle") /\ installed # "no" /\ OnlyTools
QueryToStart(t) == Query(t) /\ status = "STOPPED" /\ Asks(t, "start", "ask")
QueryToStop(t) == Query(t) /\ status = "RUNNING" /\ Asks(t, "stop", "ask")
Uninstall(t) == Query(t) /\ Asks(t, "uninstall", "ask")

StartServiceW(t) ==
    /\ At(t, "ask") /\ pc[t].task = "start" /\ Go(t, "idle")
    /\ IF installed = "yes" /\ status = "STOPPED" /\ Quiet /\ commands < MaxCommands
       THEN status' = "START_PENDING" /\ did' = "STOPPED" /\ commands' = commands + 1
       ELSE UNCHANGED <<status, did, commands>>
    /\ UNCHANGED <<installed, op, original, misused>>

\* ControlService of a stop: the call waits for the handler to be free.
ControlService(t) ==
    /\ At(t, "ask") /\ pc[t].task \in {"stop", "uninstall"}
    /\ IF Accepts /\ installed # "no" /\ commands < MaxCommands
       THEN /\ Begin("control", "stop") /\ Go(t, "controlling")
            /\ commands' = commands + 1
       ELSE /\ Go(t, IF pc[t].task = "uninstall" THEN "delete" ELSE "idle")
            /\ UNCHANGED <<status, op, original, misused, commands>>
    /\ UNCHANGED <<installed, did>>

\* The handler took too long: ControlService has failed.
ControlTimesOut(t) ==
    /\ At(t, "controlling")
    /\ Go(t, IF pc[t].task = "uninstall" THEN "delete" ELSE "idle")
    /\ OnlyTools

Poll(t) ==
    /\ At(t, "poll") /\ status # "STOP_PENDING"
    /\ Go(t, IF status = "STOPPED" THEN "delete" ELSE "idle")
    /\ OnlyTools

\* Sleep(200), which nothing ends when the status stays as it is.
Sleeps == status = "STOP_PENDING" /\ (\E t \in Tool : At(t, "poll")) /\ UNCHANGED serviceVars

DeleteService(t) ==
    /\ At(t, "delete") /\ Go(t, "idle")
    /\ installed' = IF installed = "yes" THEN "marked" ELSE installed
    /\ UNCHANGED <<status, did, op, original, commands, misused>>

\* The manager removes what is marked once it has stopped and nobody has it open.
Removed ==
    /\ installed = "marked" /\ status = "STOPPED" /\ Quiet
    /\ \A t \in Tool : At(t, "idle")
    /\ installed' = "no"
    /\ UNCHANGED <<status, did, op, original, pc, commands, misused>>

Goes(t) == ControlService(t) \/ Poll(t) \/ DeleteService(t) \/ StartServiceW(t)

-----------------------------------------------------------------------------
Init ==
    /\ installed = "no" /\ status = "STOPPED" /\ did = "STOPPED"
    /\ op = [w \in ServiceThread |-> "none"]
    /\ original = [w \in ServiceThread |-> "STOPPED"]
    /\ pc = [t \in Tool |-> [task |-> "start", at |-> "idle"]]
    /\ commands = 0 /\ misused = FALSE

Next ==
    \/ ServiceMain \/ Stop \/ Handler \/ Removed \/ Sleeps
    \/ \E o \in {"pause", "continue", "shutdown"} : SystemControl(o)
    \/ \E t \in Tool :
        \/ Install(t) \/ QueryToStart(t) \/ QueryToStop(t) \/ Uninstall(t)
        \/ Goes(t) \/ ControlTimesOut(t)

\* Handlers return, and a tool goes on with what it has begun.
Spec ==
    /\ Init /\ [][Next]_serviceVars
    /\ WF_serviceVars(ServiceMain)
    /\ \A w \in ServiceThread : WF_serviceVars(\E succeeds \in BOOLEAN : End(w, succeeds))
    /\ \A t \in Tool : WF_serviceVars(Goes(t))

TypeOK ==
    /\ installed \in {"no", "yes", "marked"} /\ status \in States
    /\ did \in {"STOPPED", "RUNNING", "PAUSED"}
    /\ op \in [ServiceThread -> DOMAIN Pending \cup {"none", "shutdown"}]
    /\ original \in [ServiceThread -> States]
    /\ pc \in [Tool -> [task : {"start", "stop", "uninstall"},
                        at : {"idle", "ask", "controlling", "poll", "delete"}]]
    /\ commands \in 0..MaxCommands /\ misused \in BOOLEAN

\* Whatever handlers have thrown, a service at rest is what it says it is ("Tell
\* SCM that the service is still paused."), or has not begun to start. Two
\* operations at once can break this: the later one restores a pending status.
StatusTells ==
    Quiet /\ ~misused => status = did \/ (status = "START_PENDING" /\ did = "STOPPED")

\* Uninstall, which polls while the stop is pending, returns.
UninstallEnds ==
    \A t \in Tool : At(t, "poll") ~> At(t, "idle") \/ misused
=============================================================================
