----------------------------- MODULE HttpClient -----------------------------
(* HttpClient (src/src/win/http_client.cpp) over Http (src/src/win/http.cpp): *)
(* one request at a time, done on a thread of its own, which the user of the *)
(* client may abort by closing the handles under it. Nothing is locked: a    *)
(* handle is tested and used, or closed and forgotten, in separate steps.    *)
(*                                                                           *)
(* WinHTTP is external: a call may fail at any time, it fails when the       *)
(* handle it uses is closed, also while the call is waiting, and closing a   *)
(* handle that is closed does nothing.                                       *)
EXTENDS Naturals, Sequences

CONSTANT MaxRequests

ConstantsOK == MaxRequests \in Nat \ {0}

VARIABLES
    members,    \* hSession_, hConnect_ and hRequest_; 0, or the request it was opened for
    open,       \* the handles WinHTTP has open, with the number of their request
    abort_, dwGLE,
    count,      \* requests so far
    step,       \* where doRequest is, in Steps; 0 when it is not running
    inCall,     \* it waits for WinHTTP
    code,       \* what the request ends with
    closing,    \* of the thread of the request and of the user: the closes to do
    user,
    cut         \* history: the user closed a handle before the code was decided

httpVars ==
    <<members, open, abort_, dwGLE, count, step, inCall, code, closing, user, cut>>

Kind == {"session", "connect", "request"}

\* The calls of doRequest in order, each with the handle that it uses and the
\* one that it opens. Only the headers are asked for without a test of it.
Steps ==
    <<[uses |-> "none", opens |-> "session"], [uses |-> "session", opens |-> "none"],
      [uses |-> "session", opens |-> "connect"], [uses |-> "connect", opens |-> "request"],
      [uses |-> "request", opens |-> "none"],       \* setAllowRedirect, setRequestHeader
      [uses |-> "request", opens |-> "none"],       \* sendRequest
      [uses |-> "request", opens |-> "none"],       \* receiveResponse
      [uses |-> "request", opens |-> "none"],       \* getResponseHeaders
      [uses |-> "request", opens |-> "none"]>>      \* getResponseBody, saveResponseBodyToFile
Headers == 8

\* These fail too without an error of WinHTTP: an empty header is refused, the
\* file of the body is not opened or written.
Untold == {5, 9}

Uses == Steps[step].uses
Opens == Steps[step].opens
Usable(kind) == kind # "none" => members[kind] # 0 /\ <<kind, members[kind]>> \in open

\* closeRequest, closeConnection, closeSession: [kind, shut] with shut between
\* WinHttpCloseHandle and the assignment of NULL.
Closes == <<[kind |-> "request", shut |-> FALSE], [kind |-> "connect", shut |-> FALSE],
            [kind |-> "session", shut |-> FALSE]>>

-----------------------------------------------------------------------------
\* The thread of the request

\* Http::openX, sendRequest and so on: without the handle they fail at once,
\* and dwGLE_ stays as it is.
Enter ==
    /\ step # 0 /\ ~inCall /\ code = "undecided"
    /\ IF Uses # "none" /\ step # Headers /\ members[Uses] = 0
       THEN code' = "failed" /\ UNCHANGED inCall
       ELSE inCall' = TRUE /\ UNCHANGED code
    /\ UNCHANGED <<members, open, abort_, dwGLE, count, step, closing, user, cut>>

CallFails ==
    /\ inCall
    /\ inCall' = FALSE
    /\ code' = "failed"
    /\ dwGLE' \in {"other"} \cup (IF Usable(Uses) THEN {} ELSE {"cancelled"})
                            \cup (IF step \in Untold THEN {"none"} ELSE {})
    /\ members' = IF Opens = "none" THEN members ELSE [members EXCEPT ![Opens] = 0]
    /\ UNCHANGED <<open, abort_, count, step, closing, user, cut>>

\* An opened handle is stored; it is read again by the test of its opening.
CallSucceeds ==
    /\ inCall /\ Usable(Uses)
    /\ inCall' = FALSE
    /\ IF Opens = "none"
       THEN UNCHANGED <<members, open>>
       ELSE /\ members' = [members EXCEPT ![Opens] = count]
            /\ open' = open \cup {<<Opens, count>>}
    /\ dwGLE' = "none"
    /\ code' = IF Opens # "none" THEN "opened"
               ELSE IF step = Len(Steps) THEN "success" ELSE "undecided"
    /\ step' = IF Opens = "none" /\ step < Len(Steps) THEN step + 1 ELSE step
    /\ UNCHANGED <<abort_, count, closing, user, cut>>

\* dwGLE_ = h ? 0 : GetLastError(); return !!h: the user may have set it to
\* NULL since, and then the last error is that of no call.
TestOpened ==
    /\ code = "opened"
    /\ IF members[Opens] # 0
       THEN code' = "undecided" /\ step' = step + 1 /\ UNCHANGED dwGLE
       ELSE code' = "failed" /\ dwGLE' \in {"none", "other"} /\ UNCHANGED step
    /\ UNCHANGED <<members, open, abort_, count, inCall, closing, user, cut>>

checkErrorCode ==
    IF dwGLE = "cancelled" \/ abort_ THEN "USER_ABORT"
    ELSE IF dwGLE # "none" THEN "lasterror" ELSE "UNKNOWN_ERROR"

Fails ==
    /\ code = "failed"
    /\ code' = checkErrorCode
    /\ UNCHANGED
        <<members, open, abort_, dwGLE, count, step, inCall, closing, user, cut>>

Decided == code \in {"success", "USER_ABORT", "lasterror", "UNKNOWN_ERROR"}

StartClosing ==
    /\ step # 0 /\ Decided
    /\ step' = 0
    /\ closing' = [closing EXCEPT !["request thread"] = Closes]
    /\ UNCHANGED <<members, open, abort_, dwGLE, count, inCall, code, user, cut>>

\* The callback is called, and the future is ready when it returns.
Answer ==
    /\ step = 0 /\ Decided /\ closing["request thread"] = <<>>
    /\ code' = "none"
    /\ UNCHANGED <<members, open, abort_, dwGLE, count, step, inCall, closing, user, cut>>

\* One of the closes that are left to do.
CloseStep(who) ==
    LET c == Head(closing[who]) IN
    /\ closing[who] # <<>>
    /\ IF c.shut
       THEN /\ members' = [members EXCEPT ![c.kind] = 0]
            /\ closing' = [closing EXCEPT ![who] = Tail(@)]
            /\ UNCHANGED <<open, cut>>
       ELSE IF members[c.kind] = 0
       THEN /\ closing' = [closing EXCEPT ![who] = Tail(@)]
            /\ UNCHANGED <<members, open, cut>>
       ELSE /\ open' = open \ {<<c.kind, members[c.kind]>>}
            /\ closing' = [closing EXCEPT ![who][1].shut = TRUE]
            /\ cut' = (cut \/ (who = "user" /\ code # "none" /\ ~Decided))
            /\ UNCHANGED members
    /\ UNCHANGED <<abort_, dwGLE, count, step, inCall, code, user>>

RequestThread ==
    \/ Enter \/ CallFails \/ CallSucceeds \/ TestOpened \/ Fails
    \/ StartClosing \/ Answer \/ CloseStep("request thread")

-----------------------------------------------------------------------------
\* The user

\* request: refused while the future of the last one is not ready.
Running == code # "none"
request ==
    /\ user = "idle" /\ ~Running /\ count < MaxRequests
    /\ count' = count + 1
    /\ abort_' = FALSE
    /\ step' = 1
    /\ code' = "undecided"
    /\ cut' = FALSE
    /\ UNCHANGED <<members, open, dwGLE, inCall, closing, user>>

abort(next) ==
    /\ abort_' = TRUE
    /\ closing' = [closing EXCEPT !["user"] = Closes]
    /\ user' = next
    /\ UNCHANGED <<members, open, dwGLE, count, step, inCall, code, cut>>

Abort == user = "idle" /\ abort("aborting")
Aborted ==
    /\ user = "aborting" /\ closing["user"] = <<>>
    /\ user' = "idle"
    /\ UNCHANGED <<members, open, abort_, dwGLE, count, step, inCall, code, closing, cut>>

\* The destructor: an abort, the end of the request, the closes of ~Http.
Delete == user = "idle" /\ abort("deleting")
DeleteHttp ==
    /\ user = "deleting" /\ closing["user"] = <<>> /\ ~Running
    /\ user' = "deleting http"
    /\ closing' = [closing EXCEPT !["user"] = Closes]
    /\ UNCHANGED <<members, open, abort_, dwGLE, count, step, inCall, code, cut>>
Deleted ==
    /\ user = "deleting http" /\ closing["user"] = <<>>
    /\ user' = "gone"
    /\ UNCHANGED <<members, open, abort_, dwGLE, count, step, inCall, code, closing, cut>>

UserGoesOn == CloseStep("user") \/ Aborted \/ DeleteHttp \/ Deleted
User == request \/ Abort \/ Delete \/ UserGoesOn

-----------------------------------------------------------------------------
Init ==
    /\ members = [k \in Kind |-> 0] /\ open = {}
    /\ abort_ = FALSE /\ dwGLE = "none"
    /\ count = 0 /\ step = 0 /\ inCall = FALSE /\ code = "none"
    /\ closing = [w \in {"request thread", "user"} |-> <<>>]
    /\ user = "idle" /\ cut = FALSE

\* When the client is deleted nothing is left to do.
Next == RequestThread \/ User \/ (user = "gone" /\ UNCHANGED httpVars)

\* A call of WinHTTP returns at the latest when its timeout is over, and the
\* user finishes what it has begun.
Spec == Init /\ [][Next]_httpVars /\ WF_httpVars(RequestThread) /\ WF_httpVars(UserGoesOn)

TypeOK ==
    /\ members \in [Kind -> 0..MaxRequests] /\ open \subseteq Kind \X (1..MaxRequests)
    /\ abort_ \in BOOLEAN /\ dwGLE \in {"none", "other", "cancelled"}
    /\ count \in 0..MaxRequests /\ step \in 0..Len(Steps) /\ inCall \in BOOLEAN
    /\ Decided \/ code \in {"none", "undecided", "opened", "failed"}
    /\ \A w \in DOMAIN closing : Len(closing[w]) <= 3
    /\ user \in {"idle", "aborting", "deleting", "deleting http", "gone"}
    /\ cut \in BOOLEAN

\* ~HttpClient leaves no handle open, whichever of the two threads found the
\* handles of the last request, or of one an abort came too early for.
NoneLeft == user = "gone" => open = {}

\* A request whose handles the user closed under it did its work or is said to
\* be aborted (t_http.cpp, get_cancel), also where the thread only met the NULL.
AnsweredTruly == cut /\ Decided => code \in {"success", "USER_ABORT"}

\* The destructor, which waits for the request, returns.
DeletionEnds == user = "deleting" ~> user = "gone"
=============================================================================
