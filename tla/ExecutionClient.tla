--------------------------- MODULE ExecutionClient ---------------------------
(***************************************************************************)
(* The execution side of the playground, apps/web/components/              *)
(* playground.tsx: run, stop, the events of the execution's WebSocket, and *)
(* leaving the page, on top of the route that creates the execution.       *)
(*                                                                         *)
(* The browser has one thread; an action is one callback. A run is         *)
(* identified with its request, and so are its AbortController and its     *)
(* socket, which outlive it: an old request is answered and an old socket  *)
(* closes while a newer run is on the screen.                              *)
(***************************************************************************)
EXTENDS ExecutionRoute

CONSTANT ReportedEnds   \* the phases in which the service completes an execution

VARIABLES
    \* refs of the component
    phase,              \* executionPhaseRef
    requestRef,         \* executionRequestAbortRef
    socketRef,          \* executionSocketRef
    expectedClose,      \* expectedSocketCloseRef
    pingTimer,          \* the socket pingTimerRef pings
    mounted,
    \* the browser
    aborted,            \* the requests whose AbortController was aborted
    settled,            \* the requests whose promise is settled
    readyState,         \* of the socket of a run
    \* the execution service, as far as its socket shows it
    execution,
    terminated,         \* the runs that were sent terminate
    \* history: the last run, and who wrote to the phase and the terminal since
    current,
    writers

refs == <<phase, requestRef, socketRef, expectedClose, pingTimer, mounted>>
browser == <<aborted, settled, readyState>>
service == <<execution, terminated>>
history == <<current, writers>>
vars == <<route, refs, browser, service, history>>

ActivePhases == {"creating", "queued", "compiling", "running"}
EndPhases == {"compile_failed", "exited", "timed_out", "resource_limited",
              "cancelled", "sandbox_violation"}

ASSUME ReportsAssumption == ReportedEnds \subseteq EndPhases

\* What the service reports: its ExecutionPhase.
ReportedPhases == (ActivePhases \ {"creating"}) \cup ReportedEnds

-----------------------------------------------------------------------------
(* Parts of the handlers.                                                  *)

updateExecutionPhase(r, p) ==
    /\ phase' = p
    /\ writers' = writers \cup {r}
    /\ UNCHANGED current

\* Mutant of closeSocket: the reference is dropped, the socket stays open.
forgetSocket == readyState

\* closeExecutionSocket, on the socket and the references it clears.
closeSocket ==
    [r \in Executions |->
        IF r = socketRef /\ readyState[r] \in {"connecting", "open"}
        THEN "closing" ELSE readyState[r]]

closeExecutionSocket ==
    /\ pingTimer' = None
    /\ socketRef' = None
    /\ readyState' = closeSocket

\* Mutant of onclose: an unexpected end is not shown.
oncloseSilent(r) ==
    IF socketRef # r
    THEN UNCHANGED <<refs, history>>
    ELSE /\ pingTimer' = None
         /\ socketRef' = None
         /\ expectedClose' = FALSE
         /\ UNCHANGED <<phase, history, requestRef, mounted>>

\* socket.onclose: only the current socket is heard; an unexpected end of an active
\* run is shown.
onclose(r) ==
    IF socketRef # r
    THEN UNCHANGED <<refs, history>>
    ELSE /\ pingTimer' = None
         /\ socketRef' = None
         /\ expectedClose' = FALSE
         /\ IF ~expectedClose /\ phase \in ActivePhases
            THEN updateExecutionPhase(r, "disconnected")
            ELSE UNCHANGED <<phase, history>>
         /\ UNCHANGED <<requestRef, mounted>>

-----------------------------------------------------------------------------
(* The user.                                                               *)

\* run: unless a run is active, the socket of the last one is closed and a request
\* is sent.
Run ==
    LET r == CHOOSE x \in Executions : http[x] = "none"
    IN  /\ mounted
        /\ phase \notin ActivePhases
        /\ \E x \in Executions : http[x] = "none"
        /\ closeExecutionSocket
        /\ expectedClose' = FALSE
        /\ phase' = "creating"
        /\ requestRef' = r
        /\ http' = [http EXCEPT ![r] = "sent"]
        /\ current' = r
        /\ writers' = {r}
        /\ UNCHANGED <<mounted, aborted, settled, service, identity, cookie, store, admitted>>

\* stop, from the button that an active run shows.
Stop ==
    /\ mounted
    /\ phase \in ActivePhases
    /\ IF phase = "creating"
       THEN /\ aborted' = aborted \cup ({requestRef} \ {None})
            /\ updateExecutionPhase(current, "cancelled")
            /\ UNCHANGED terminated
       ELSE /\ IF socketRef # None /\ readyState[socketRef] = "open"
               THEN terminated' = terminated \cup {socketRef} /\ UNCHANGED <<phase, history>>
               ELSE updateExecutionPhase(current, "cancelled") /\ UNCHANGED terminated
            /\ UNCHANGED aborted
    /\ UNCHANGED <<route, requestRef, socketRef, expectedClose, pingTimer, mounted,
                   settled, readyState, execution>>

\* The page is left: the cleanup of the effect.
Unmount ==
    /\ mounted
    /\ mounted' = FALSE
    /\ aborted' = aborted \cup ({requestRef} \ {None})
    /\ closeExecutionSocket
    /\ expectedClose' = (expectedClose \/ closeSocket # readyState)
    /\ UNCHANGED <<route, phase, requestRef, settled, service, history>>

-----------------------------------------------------------------------------
(* The request.                                                            *)

\* The rest of run after createExecution, with the promise fulfilled: unless the
\* run was stopped or another one has begun, the socket is opened.
Created(r) ==
    /\ r \notin settled
    /\ http[r] = "ok"
    /\ answered(r)
    /\ settled' = settled \cup {r}
    /\ IF r \in aborted \/ requestRef # r
       THEN UNCHANGED <<socketRef, readyState>>
       ELSE socketRef' = r /\ readyState' = [readyState EXCEPT ![r] = "connecting"]
    /\ requestRef' = IF requestRef = r THEN None ELSE requestRef
    /\ UNCHANGED <<http, identity, store, admitted, phase, expectedClose, pingTimer, mounted,
                   aborted, service, history>>

\* Mutant of rejected: the run's own request is not compared.
rejectedAlways(r, p) ==
    /\ updateExecutionPhase(r, p)
    /\ requestRef' = IF requestRef = r THEN None ELSE requestRef

\* Mutant of rejected: an error of the request is not shown.
rejectedQuietly(r, p) ==
    /\ requestRef' = IF requestRef = r THEN None ELSE requestRef
    /\ UNCHANGED <<phase, history>>

\* The catch and finally of run.
rejected(r, p) ==
    IF requestRef = r
    THEN updateExecutionPhase(r, p) /\ requestRef' = None
    ELSE UNCHANGED <<phase, requestRef, history>>

\* The promise is rejected: the route refused, or the network failed.
CreateFails(r) ==
    /\ r \in Executions \ (settled \cup aborted)
    /\ \/ http[r] = "refused" /\ answered(r)
       \/ http[r] # "none" /\ UNCHANGED cookie
    /\ settled' = settled \cup {r}
    /\ rejected(r, "disconnected")
    /\ UNCHANGED <<http, identity, store, admitted, socketRef, expectedClose, pingTimer,
                   mounted, aborted, readyState, service>>

\* fetch rejects with an AbortError; the server goes on with the request.
CreateAborted(r) ==
    /\ r \in aborted \ settled
    /\ settled' = settled \cup {r}
    /\ rejected(r, "cancelled")
    /\ UNCHANGED <<route, socketRef, expectedClose, pingTimer, mounted, aborted,
                   readyState, service>>

-----------------------------------------------------------------------------
(* The socket. Events of one that is not the current one change nothing.   *)

SocketOpens(r) ==
    /\ readyState[r] = "connecting"
    /\ readyState' = [readyState EXCEPT ![r] = "open"]
    /\ UNCHANGED <<route, refs, aborted, settled, service, history>>

\* The close event: the upgrade failed, the server or the network ended the
\* connection, or the browser's own close is complete. The service ends the
\* execution of a socket that is gone.
SocketCloses(r) ==
    /\ readyState[r] \in {"connecting", "open", "closing"}
    /\ readyState' = [readyState EXCEPT ![r] = "closed"]
    /\ execution' = [execution EXCEPT ![r] = "over"]
    /\ onclose(r)
    /\ UNCHANGED <<route, aborted, settled, terminated>>

receiving(r) == readyState[r] = "open" /\ socketRef = r

\* handleExecutionEvent, case hello: ours, or not the session that was created.
Hello(r, ours) ==
    /\ receiving(r)
    /\ execution[r] = "none"
    /\ execution' = [execution EXCEPT ![r] = "hello"]
    /\ IF ours
       THEN pingTimer' = r /\ UNCHANGED <<phase, readyState, history>>
       ELSE /\ updateExecutionPhase(r, "disconnected")
            /\ readyState' = [readyState EXCEPT ![r] = "closing"]
            /\ UNCHANGED pingTimer
    /\ UNCHANGED <<route, requestRef, socketRef, expectedClose, mounted, aborted, settled,
                   terminated>>

\* What a worker may report after what: the phases in their order, and some twice.
valid_transition(from, to) ==
    from = to \/ <<from, to>> \in {<<"queued", "compiling">>, <<"compiling", "running">>}

\* The service reports the queue after its hello, the phases of the worker, and one
\* end phase when it completes the session, which it may do at any time.
follows(e, p) ==
    \/ e = "hello" /\ p = "queued"
    \/ e \in ActivePhases /\ valid_transition(e, p)
    \/ e \notin {"none", "over"} /\ p \in EndPhases

\* case phase: what the service reports is shown.
Phase(r, p) ==
    /\ receiving(r)
    /\ follows(execution[r], p)
    /\ execution' = [execution EXCEPT ![r] = p]
    /\ updateExecutionPhase(r, p)
    /\ UNCHANGED <<route, requestRef, socketRef, expectedClose, pingTimer, mounted,
                   browser, terminated>>

\* case exit, getExitPhase: complete_session sends it behind an end phase.
Exit(r, p) ==
    /\ receiving(r)
    /\ execution[r] \in EndPhases
    /\ execution' = [execution EXCEPT ![r] = "over"]
    /\ updateExecutionPhase(r, p)
    /\ expectedClose' = TRUE
    /\ pingTimer' = None
    /\ UNCHANGED <<route, requestRef, socketRef, mounted, browser, terminated>>

\* case error: the service may go on with the execution, and does after a message
\* it could not handle.
Error(r) ==
    /\ receiving(r)
    /\ execution[r] \notin {"none", "over"}
    /\ updateExecutionPhase(r, "disconnected")
    /\ UNCHANGED <<route, requestRef, socketRef, expectedClose, pingTimer, mounted,
                   browser, service>>

\* compiler_output and binary frames go to the terminal.
Output(r) ==
    /\ receiving(r)
    /\ writers' = writers \cup {r}
    /\ UNCHANGED <<route, refs, browser, service, current>>

-----------------------------------------------------------------------------
Init ==
    /\ RouteInit
    /\ phase = "idle"
    /\ requestRef = None /\ socketRef = None /\ pingTimer = None
    /\ expectedClose = FALSE
    /\ mounted = TRUE
    /\ aborted = {} /\ settled = {}
    /\ readyState = [r \in Executions |-> "none"]
    /\ execution = [r \in Executions |-> "none"]
    /\ terminated = {}
    /\ current = None
    /\ writers = {}

User == Run \/ Stop \/ Unmount

Server == Route /\ UNCHANGED <<refs, browser, service, history>>

Clock == TimePasses /\ UNCHANGED <<refs, browser, service, history>>

Settle(r) == Created(r) \/ CreateFails(r) \/ CreateAborted(r)

Ends(r) == SocketCloses(r) \/ \E p \in ReportedEnds : Exit(r, p)

Next ==
    \/ User
    \/ Server
    \/ Clock
    \/ \E r \in Executions :
          \/ Settle(r) \/ SocketOpens(r) \/ Ends(r) \/ Error(r) \/ Output(r)
          \/ \E ours \in BOOLEAN : Hello(r, ours)
          \/ \E p \in ReportedPhases : Phase(r, p)

Spec == Init /\ [][Next]_vars

\* An execution in the queue that nobody stops: neither the service nor the page has
\* a deadline for it, and the pings keep its socket open.
waits(r) == readyState[r] = "open" /\ execution[r] = "queued" /\ r \notin terminated

\* The route answers (its call of the service has a timeout), a settled promise runs
\* its continuation, and a socket ends: a connection that is not made or is closed by
\* the page, and an execution that is with a worker, is stopped or is over.
Fairness ==
    /\ WF_vars(Server)
    /\ \A r \in Executions : WF_vars(Settle(r)) /\ WF_vars(~waits(r) /\ Ends(r))

FairSpec == Spec /\ Fairness

-----------------------------------------------------------------------------
(* Properties.                                                             *)

\* The type of the route's, the component's and the service's state.
TypeOK ==
    /\ RouteTypeOK
    /\ phase \in {"idle", "disconnected"} \cup ActivePhases \cup EndPhases
    /\ {requestRef, socketRef, pingTimer, current} \subseteq Executions \cup {None}
    /\ {expectedClose, mounted} \subseteq BOOLEAN
    /\ aborted \subseteq Executions /\ settled \subseteq Executions
    /\ readyState \in [Executions -> {"none", "connecting", "open", "closing", "closed"}]
    /\ terminated \subseteq Executions /\ writers \subseteq Executions

\* Only the latest run writes to the screen: neither the late answer of an earlier
\* request, nor its failure or abort, nor the close event of an earlier socket
\* changes the phase or the terminal of the run that followed.
OnlyCurrentRun == writers \subseteq {current}

\* A socket that connects or is open belongs to the current run and is the one
\* that is referenced, pinged and closed; none survives a new run or the page.
OneSocket ==
    /\ \A r \in Executions : readyState[r] \in {"connecting", "open"} =>
           r = socketRef /\ r = current /\ mounted
    /\ pingTimer \in {None, socketRef}

\* While the screen says that a run is active, there is a request or a socket whose
\* end will change that.
ActiveHasCause ==
    phase \in ActivePhases /\ mounted =>
        \/ requestRef = current /\ current \notin settled
        \/ socketRef = current /\ readyState[current] # "closed"

\* Every run ends on the screen, unless it is one that waits in the queue for ever and
\* is never stopped: the end of the request, of the socket, of the execution, and a
\* stop that reached the service all lead out of the active phases.
RunEnds ==
    \/ \E r \in Executions : <>[]waits(r)
    \/ (phase \in ActivePhases /\ mounted) ~> (phase \notin ActivePhases \/ ~mounted)

\* stop ends the request in preparation or the execution in progress: after it the
\* screen does not come back to an active phase without a new run.
StopStops ==
    [][phase = "cancelled" /\ phase' \in ActivePhases => current' # current]_vars

=============================================================================
