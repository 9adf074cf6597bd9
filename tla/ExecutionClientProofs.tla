----------------------- MODULE ExecutionClientProofs -----------------------
(* Proofs about the runs of the playground, for any number of runs and any    *)
(* limits of the route: only the latest run writes to the screen, it has the  *)
(* only socket, an active phase has something that will end it, and the       *)
(* limiter keeps the rate of executions that are let pass.                    *)
EXTENDS ExecutionClient, FiniteSetTheorems, TLAPS

-----------------------------------------------------------------------------
(* The page.                                                               *)

Executions0 == Executions \cup {None}

\* An execution as its socket shows it.
ServiceStates == {"none", "hello", "over"} \cup ActivePhases \cup EndPhases

\* The types that the steps of the page need of their own state.
PageType ==
    /\ http \in [Executions -> {"none", "sent", "body", "upstream", "ok", "refused"}]
    /\ phase \in {"idle", "disconnected"} \cup ActivePhases \cup EndPhases
    /\ requestRef \in Executions0 /\ socketRef \in Executions0 /\ pingTimer \in Executions0
    /\ current \in Executions0
    /\ expectedClose \in BOOLEAN /\ mounted \in BOOLEAN
    /\ aborted \subseteq Executions /\ settled \subseteq Executions
    /\ readyState \in [Executions -> {"none", "connecting", "open", "closing", "closed"}]
    /\ execution \in [Executions -> ServiceStates]

\* The references belong to the latest run, whose request comes before its socket.
RefsInv ==
    /\ requestRef \in {None, current} /\ socketRef \in {None, current}
    /\ requestRef # None => socketRef = None
    /\ writers \subseteq {current}

\* A request that is not sent yet can be neither aborted nor settled; one that is
\* aborted is not on the screen as active any more.
RequestsInv ==
    /\ \A r \in aborted \cup settled : http[r] # "none"
    /\ requestRef # None => http[requestRef] # "none"
    /\ requestRef # None /\ ~mounted => requestRef \in aborted
    /\ requestRef \in aborted /\ mounted => phase \notin ActivePhases

\* A close is expected only of a socket whose execution has ended on the screen.
CloseInv ==
    mounted /\ expectedClose =>
        /\ phase \notin ActivePhases
        /\ requestRef = None
        /\ socketRef # None => execution[socketRef] = "over"

PageInv == PageType /\ RefsInv /\ RequestsInv /\ CloseInv /\ OneSocket /\ ActiveHasCause

LEMMA PageInit == Init => PageInv
<1> SUFFICES ASSUME Init PROVE PageInv
  OBVIOUS
<1> USE DEF Init, RouteInit
<1>1. PageType  BY Zenon DEF PageType, Executions0, ServiceStates
<1>2. RefsInv /\ RequestsInv /\ CloseInv /\ OneSocket /\ ActiveHasCause
  BY DEF RefsInv, RequestsInv, CloseInv, OneSocket, ActiveHasCause, ActivePhases
<1> QED BY <1>1, <1>2 DEF PageInv

\* The route goes on with requests that were sent, and touches nothing of the page.
LEMMA RouteStep ==
    ASSUME PageInv, Server \/ Clock
    PROVE  PageInv'
<1>1. /\ http' \in [Executions -> {"none", "sent", "body", "upstream", "ok", "refused"}]
      /\ \A r \in Executions : http[r] # "none" => http'[r] # "none"
  BY DEF PageInv, PageType, Server, Clock, Route, PostArrives, PostInvalid, BodyInvalid, BodyRead,
         UpstreamAnswers, TimePasses
<1>2. UNCHANGED <<refs, browser, service, history>>  BY DEF Server, Clock
<1> USE <1>1, <1>2 DEF refs, browser, service, history, PageInv
<1>3. PageType'  BY DEF PageType
<1>4. RefsInv' /\ CloseInv' /\ OneSocket' /\ ActiveHasCause'
  BY DEF RefsInv, CloseInv, OneSocket, ActiveHasCause
<1>5. RequestsInv'
  BY DEF RequestsInv, PageType, Executions0
<1> QED BY <1>3, <1>4, <1>5

\* run starts from a screen without an active run, and from a request never sent.
LEMMA RunStep ==
    ASSUME PageInv, Run
    PROVE  PageInv'
<1>1. PICK r \in Executions :
          /\ http[r] = "none" /\ mounted /\ phase \notin ActivePhases
          /\ closeExecutionSocket /\ expectedClose' = FALSE /\ phase' = "creating"
          /\ requestRef' = r /\ http' = [http EXCEPT ![r] = "sent"]
          /\ current' = r /\ writers' = {r}
          /\ UNCHANGED <<mounted, aborted, settled, execution>>
  BY Zenon DEF Run, service
<1>2. \A t \in Executions :
          readyState'[t] = IF t = socketRef /\ readyState[t] \in {"connecting", "open"}
                           THEN "closing" ELSE readyState[t]
  BY <1>1 DEF closeExecutionSocket, closeSocket
<1>3. pingTimer' = None /\ socketRef' = None  BY <1>1 DEF closeExecutionSocket
<1>4. r # None  BY NoneAssumption
<1>5. \A t \in Executions : readyState'[t] \notin {"connecting", "open"}
  BY <1>2 DEF PageInv, OneSocket
<1>6. r \notin aborted /\ r \notin settled  BY <1>1 DEF PageInv, RequestsInv
<1>7. PageType'
  BY <1>1, <1>2, <1>3, Zenon DEF PageInv, PageType, Executions0, ActivePhases, closeExecutionSocket,
                          closeSocket
<1>8. RefsInv'  BY <1>1, <1>3 DEF RefsInv
<1>9. RequestsInv'
  BY <1>1, <1>6 DEF RequestsInv, PageInv, PageType
<1>10. CloseInv' /\ OneSocket' /\ ActiveHasCause'
  BY <1>1, <1>3, <1>5, <1>6 DEF CloseInv, OneSocket, ActiveHasCause
<1> QED BY <1>7, <1>8, <1>9, <1>10 DEF PageInv

\* stop either shows the end of the run itself or leaves the screen alone.
LEMMA StopStep ==
    ASSUME PageInv, Stop
    PROVE  PageInv'
<1>1. /\ mounted /\ phase \in ActivePhases
      /\ \/ phase' = "cancelled" /\ writers' = writers \cup {current}
         \/ UNCHANGED <<phase, writers>>
      /\ \/ phase' = "cancelled" /\ aborted' = aborted \cup ({requestRef} \ {None})
         \/ UNCHANGED aborted
      /\ UNCHANGED <<http, requestRef, socketRef, expectedClose, pingTimer, mounted, settled,
                     readyState, execution, current>>
  BY DEF Stop, updateExecutionPhase, history, route
<1>2. "cancelled" \notin ActivePhases /\ "cancelled" \in EndPhases
  BY DEF ActivePhases, EndPhases
<1>3. PageType'  BY <1>1, <1>2 DEF PageInv, PageType, Executions0
<1>4. RefsInv' /\ CloseInv' /\ OneSocket'
  BY <1>1, <1>2 DEF PageInv, RefsInv, CloseInv, OneSocket
<1>5. RequestsInv'  BY <1>1, <1>2 DEF PageInv, RequestsInv
<1>6. ActiveHasCause'  BY <1>1, <1>2 DEF PageInv, ActiveHasCause
<1> QED BY <1>3, <1>4, <1>5, <1>6 DEF PageInv

\* Leaving the page aborts the request and closes the socket.
LEMMA UnmountStep ==
    ASSUME PageInv, Unmount
    PROVE  PageInv'
<1>1. /\ ~mounted' /\ aborted' = aborted \cup ({requestRef} \ {None})
      /\ pingTimer' = None /\ socketRef' = None /\ expectedClose' \in BOOLEAN
      /\ UNCHANGED <<http, phase, requestRef, settled, execution, current, writers>>
  BY DEF Unmount, closeExecutionSocket, route, service, history, PageInv, PageType
<1>2. /\ readyState' \in [Executions -> {"none", "connecting", "open", "closing", "closed"}]
      /\ \A t \in Executions : readyState'[t] \notin {"connecting", "open"}
  BY DEF Unmount, closeExecutionSocket, closeSocket, PageInv, PageType, OneSocket
<1>3. mounted' = FALSE  BY DEF Unmount
<1>4. PageType'  BY <1>1, <1>2, <1>3, Zenon DEF PageInv, PageType, Executions0
<1>5. RefsInv' /\ CloseInv' /\ OneSocket' /\ ActiveHasCause'
  BY <1>1, <1>2 DEF PageInv, RefsInv, CloseInv, OneSocket, ActiveHasCause
<1>6. RequestsInv'  BY <1>1 DEF PageInv, RequestsInv
<1> QED BY <1>4, <1>5, <1>6 DEF PageInv

\* The answer to a request opens a socket only for the run that is on the screen.
LEMMA CreatedStep ==
    ASSUME PageInv, NEW r \in Executions, Created(r)
    PROVE  PageInv'
<1>1. /\ http[r] = "ok" /\ settled' = settled \cup {r}
      /\ requestRef' = IF requestRef = r THEN None ELSE requestRef
      /\ UNCHANGED <<http, phase, expectedClose, pingTimer, mounted, aborted, execution, current,
                     writers>>
  BY DEF Created, service, history
<1>2. r # None  BY NoneAssumption
<1>3. CASE r \in aborted \/ requestRef # r
  <2>1. UNCHANGED <<socketRef, readyState>>  BY <1>3 DEF Created
  <2>2. PageType'  BY <1>1, <2>1 DEF PageInv, PageType, Executions0
  <2>3. RefsInv' /\ CloseInv' /\ OneSocket'
    BY <1>1, <2>1 DEF PageInv, RefsInv, CloseInv, OneSocket
  <2>4. RequestsInv'  BY <1>1, NoneAssumption DEF PageInv, RequestsInv, PageType
  <2>5. ActiveHasCause'
    BY <1>1, <1>2, <1>3, <2>1 DEF PageInv, RefsInv, RequestsInv, ActiveHasCause
  <2> QED BY <2>2, <2>3, <2>4, <2>5 DEF PageInv
<1>4. CASE r \notin aborted /\ requestRef = r
  <2>1. socketRef' = r /\ readyState' = [readyState EXCEPT ![r] = "connecting"]
    BY <1>4 DEF Created
  <2>2. current = r /\ mounted /\ socketRef = None
    BY <1>2, <1>4 DEF PageInv, RefsInv, RequestsInv
  <2>3. PageType'  BY <1>1, <2>1 DEF PageInv, PageType, Executions0
  <2>4. RefsInv'  BY <1>1, <1>4, <2>1, <2>2 DEF PageInv, RefsInv
  <2>5. RequestsInv'  BY <1>1, <1>4, NoneAssumption DEF PageInv, RequestsInv, PageType
  <2>6. CloseInv'  BY <1>1, <1>2, <1>4 DEF PageInv, CloseInv
  <2>7. OneSocket'
    BY <1>1, <2>1, <2>2 DEF PageInv, PageType, OneSocket
  <2>8. ActiveHasCause'  BY <1>1, <2>1, <2>2 DEF PageInv, PageType, ActiveHasCause
  <2> QED BY <2>3, <2>4, <2>5, <2>6, <2>7, <2>8 DEF PageInv
<1> QED BY <1>3, <1>4

\* A request that fails or is aborted shows its end only while it is the current one.
LEMMA RejectedStep ==
    ASSUME PageInv, NEW r \in Executions, CreateFails(r) \/ CreateAborted(r)
    PROVE  PageInv'
<1>1. PICK p \in {"disconnected", "cancelled"} : rejected(r, p)
  BY DEF CreateFails, CreateAborted
<1>2. /\ http[r] # "none" /\ settled' = settled \cup {r}
      /\ UNCHANGED <<http, socketRef, expectedClose, pingTimer, mounted, aborted, readyState,
                     execution>>
  BY DEF CreateFails, CreateAborted, PageInv, RequestsInv, service, route
<1>3. p \notin ActivePhases /\ p \in {"disconnected"} \cup EndPhases
  BY DEF ActivePhases, EndPhases
<1>4. r # None  BY NoneAssumption
<1>5. CASE requestRef = r
  <2>1. /\ phase' = p /\ writers' = writers \cup {r} /\ requestRef' = None /\ UNCHANGED current
    BY <1>1, <1>5 DEF rejected, updateExecutionPhase
  <2>2. PageType'  BY <1>2, <1>3, <2>1 DEF PageInv, PageType, Executions0
  <2>3. RefsInv' /\ CloseInv' /\ OneSocket' /\ ActiveHasCause'
    BY <1>2, <1>3, <1>4, <1>5, <2>1
       DEF PageInv, RefsInv, CloseInv, OneSocket, ActiveHasCause
  <2>4. RequestsInv'  BY <1>2, <1>3, <2>1 DEF PageInv, RequestsInv
  <2> QED BY <2>2, <2>3, <2>4 DEF PageInv
<1>6. CASE requestRef # r
  <2>1. UNCHANGED <<phase, requestRef, current, writers>>
    BY <1>1, <1>6 DEF rejected, history
  <2>2. PageType'  BY <1>2, <2>1 DEF PageInv, PageType
  <2>3. RefsInv' /\ CloseInv' /\ OneSocket'
    BY <1>2, <2>1 DEF PageInv, RefsInv, CloseInv, OneSocket
  <2>4. RequestsInv'  BY <1>2, <2>1 DEF PageInv, RequestsInv
  <2>5. ActiveHasCause'  BY <1>2, <1>6, <2>1 DEF PageInv, ActiveHasCause
  <2> QED BY <2>2, <2>3, <2>4, <2>5 DEF PageInv
<1> QED BY <1>5, <1>6

\* The events of a socket that opens or closes.
LEMMA OpensStep ==
    ASSUME PageInv, NEW r \in Executions, SocketOpens(r)
    PROVE  PageInv'
<1>1. /\ readyState[r] = "connecting" /\ readyState' = [readyState EXCEPT ![r] = "open"]
      /\ UNCHANGED <<http, phase, requestRef, socketRef, expectedClose, pingTimer, mounted,
                     aborted, settled, execution, current, writers>>
  BY DEF SocketOpens, route, refs, service, history
<1>2. PageType'  BY <1>1 DEF PageInv, PageType
<1>3. RefsInv' /\ RequestsInv' /\ CloseInv'
  BY <1>1 DEF PageInv, RefsInv, RequestsInv, CloseInv
<1>4. OneSocket' /\ ActiveHasCause'
  BY <1>1 DEF PageInv, PageType, OneSocket, ActiveHasCause
<1> QED BY <1>2, <1>3, <1>4 DEF PageInv

LEMMA ClosesStep ==
    ASSUME PageInv, NEW r \in Executions, SocketCloses(r)
    PROVE  PageInv'
<1>1. /\ readyState' = [readyState EXCEPT ![r] = "closed"]
      /\ execution' = [execution EXCEPT ![r] = "over"]
      /\ onclose(r)
      /\ UNCHANGED <<http, aborted, settled>>
  BY DEF SocketCloses, route
<1>2. r # None  BY NoneAssumption
<1>3. CASE socketRef # r
  <2>1. UNCHANGED <<phase, requestRef, socketRef, expectedClose, pingTimer, mounted, current,
                    writers>>
    BY <1>1, <1>3 DEF onclose, refs, history
  <2>2. PageType'  BY <1>1, <2>1 DEF PageInv, PageType, ServiceStates
  <2>3. RefsInv' /\ RequestsInv'
    BY <1>1, <2>1 DEF PageInv, RefsInv, RequestsInv
  <2>4. CloseInv'
    BY <1>1, <1>3, <2>1 DEF PageInv, PageType, Executions0, CloseInv
  <2>5. OneSocket'  BY <1>1, <2>1 DEF PageInv, PageType, OneSocket
  <2>6. ActiveHasCause'
    BY <1>1, <1>3, <2>1 DEF PageInv, PageType, ActiveHasCause, Executions0
  <2> QED BY <2>2, <2>3, <2>4, <2>5, <2>6 DEF PageInv
<1>4. CASE socketRef = r
  <2>1. /\ pingTimer' = None /\ socketRef' = None /\ expectedClose' = FALSE
        /\ UNCHANGED <<requestRef, mounted, current>>
        /\ \/ phase' = "disconnected" /\ writers' = writers \cup {r}
           \/ (expectedClose \/ phase \notin ActivePhases) /\ UNCHANGED <<phase, writers>>
    BY <1>1, <1>4 DEF onclose, updateExecutionPhase, history
  <2>2. "disconnected" \notin ActivePhases  BY DEF ActivePhases
  <2>3. requestRef = None /\ current = r  BY <1>2, <1>4 DEF PageInv, RefsInv
  <2>4. mounted' => phase' \notin ActivePhases
    BY <2>1, <2>2 DEF PageInv, CloseInv
  <2>5. PageType'  BY <1>1, <2>1, Zenon DEF PageInv, PageType, ServiceStates, Executions0
  <2>6. RefsInv'  BY <2>1, <2>3 DEF PageInv, RefsInv
  <2>7. RequestsInv'  BY <1>1, <2>1, <2>3, <2>4 DEF PageInv, RequestsInv
  <2>8. CloseInv' /\ ActiveHasCause'  BY <2>1, <2>4 DEF CloseInv, ActiveHasCause
  <2>9. OneSocket'  BY <1>1, <1>4, <2>1 DEF PageInv, PageType, OneSocket
  <2> QED BY <2>5, <2>6, <2>7, <2>8, <2>9 DEF PageInv
<1> QED BY <1>3, <1>4

\* A message of the current socket: it may show a phase that is not active, or an
\* active one while the execution goes on.
LEMMA MessageStep ==
    ASSUME PageInv, NEW r \in Executions, receiving(r),
           execution' \in [Executions -> ServiceStates],
           phase' \in {phase, "disconnected"} \cup ActivePhases \cup EndPhases,
           phase' \in ActivePhases =>
               ~expectedClose' /\ (phase' = phase \/ readyState'[r] = "open"),
           pingTimer' \in {pingTimer, r, None},
           expectedClose' \in BOOLEAN,
           mounted /\ expectedClose' => execution'[r] = "over" /\ phase' \notin ActivePhases,
           \/ UNCHANGED readyState
           \/ readyState' = [readyState EXCEPT ![r] = "closing"],
           writers' \subseteq writers \cup {r},
           UNCHANGED <<http, requestRef, socketRef, mounted, aborted, settled, current>>
    PROVE  PageInv'
<1>1. socketRef = r /\ readyState[r] = "open" /\ r # None
  BY NoneAssumption DEF receiving
<1>2. requestRef = None /\ current = r  BY <1>1 DEF PageInv, RefsInv
<1>3. PageType'  BY <1>1 DEF PageInv, PageType, Executions0
<1>4. RefsInv'  BY <1>1, <1>2 DEF PageInv, RefsInv
<1>5. RequestsInv'  BY <1>2, NoneAssumption DEF PageInv, RequestsInv, PageType
<1>6. CloseInv'  BY <1>1, <1>2 DEF CloseInv
<1>7. OneSocket'  BY <1>1 DEF PageInv, PageType, OneSocket
<1>8. ActiveHasCause'
  BY <1>1, <1>2 DEF PageInv, PageType, ActiveHasCause
<1> QED BY <1>3, <1>4, <1>5, <1>6, <1>7, <1>8 DEF PageInv

\* A phase is reported only before the end of the execution.
LEMMA PhaseReported ==
    ASSUME NEW p \in ReportedPhases, NEW e, follows(e, p)
    PROVE  e # "over" /\ p \in ActivePhases \cup EndPhases
<1>1. e # "over"  BY DEF follows, ActivePhases
<1>2. p \in ActivePhases \cup EndPhases  BY ReportsAssumption DEF ReportedPhases
<1> QED BY <1>1, <1>2

LEMMA EventsStep ==
    ASSUME PageInv, NEW r \in Executions,
           \/ \E ours \in BOOLEAN : Hello(r, ours)
           \/ \E p \in ReportedPhases : Phase(r, p)
           \/ \E p \in ReportedEnds : Exit(r, p)
           \/ Error(r)
           \/ Output(r)
    PROVE  PageInv'
<1> USE DEF PageInv
<1>1. receiving(r)  BY DEF Hello, Phase, Exit, Error, Output
<1>2. mounted /\ socketRef = r  BY <1>1 DEF receiving, OneSocket
<1>3. /\ phase \in ActivePhases => ~expectedClose
      /\ execution[r] # "over" => ~expectedClose
  BY <1>2, NoneAssumption DEF CloseInv
<1>4. "disconnected" \notin ActivePhases /\ EndPhases \cap ActivePhases = {}
  BY DEF ActivePhases, EndPhases
<1>5. execution \in [Executions -> ServiceStates]
      /\ expectedClose \in BOOLEAN
  BY DEF PageType
<1>6. expectedClose => execution[r] = "over" /\ phase \notin ActivePhases
  BY <1>2, NoneAssumption DEF CloseInv
<1>7. ASSUME NEW ours \in BOOLEAN, Hello(r, ours) PROVE PageInv'
  <2>1. /\ execution[r] = "none" /\ execution' = [execution EXCEPT ![r] = "hello"]
        /\ pingTimer' \in {pingTimer, r}
        /\ \/ UNCHANGED <<phase, readyState, writers>>
           \/ /\ phase' = "disconnected" /\ writers' = writers \cup {r}
              /\ readyState' = [readyState EXCEPT ![r] = "closing"]
        /\ UNCHANGED <<http, requestRef, socketRef, expectedClose, mounted, aborted, settled,
                       current>>
    BY <1>7 DEF Hello, updateExecutionPhase, history, route
  <2>2. ~expectedClose  BY <1>3, <2>1
  <2>3. execution' \in [Executions -> ServiceStates]
    BY <1>5, <2>1 DEF ServiceStates
  <2> QED BY <1>1, <1>4, <1>5, <2>1, <2>2, <2>3, MessageStep
<1>8. ASSUME NEW p \in ReportedPhases, Phase(r, p) PROVE PageInv'
  <2>1. /\ execution' = [execution EXCEPT ![r] = p]
        /\ phase' = p /\ writers' = writers \cup {r}
        /\ UNCHANGED <<http, requestRef, socketRef, expectedClose, pingTimer, mounted, aborted,
                       settled, readyState, current>>
    BY <1>8 DEF Phase, updateExecutionPhase, browser, route
  <2>2. execution[r] # "over" /\ p \in ActivePhases \cup EndPhases
    BY <1>8, PhaseReported DEF Phase
  <2>3. execution' \in [Executions -> ServiceStates]
    BY <1>5, <2>1, <2>2 DEF ServiceStates
  <2>4. ~expectedClose' /\ readyState'[r] = "open"
    BY <1>1, <1>3, <2>1, <2>2 DEF receiving
  <2> QED BY <1>1, <1>5, <2>1, <2>2, <2>3, <2>4, MessageStep
<1>9. ASSUME NEW p \in ReportedEnds, Exit(r, p) PROVE PageInv'
  <2>1. /\ execution' = [execution EXCEPT ![r] = "over"] /\ phase' = p
        /\ writers' = writers \cup {r} /\ expectedClose' = TRUE /\ pingTimer' = None
        /\ UNCHANGED <<http, requestRef, socketRef, mounted, aborted, settled, readyState, current>>
    BY <1>9 DEF Exit, updateExecutionPhase, browser, route
  <2>2. p \in EndPhases /\ p \notin ActivePhases  BY <1>4, ReportsAssumption
  <2>3. /\ execution' \in [Executions -> ServiceStates]
        /\ execution'[r] = "over"
    BY <1>5, <2>1 DEF ServiceStates
  <2> QED BY <1>1, <2>1, <2>2, <2>3, MessageStep
<1>10. CASE Error(r) \/ Output(r)
  <2>1. /\ phase' \in {phase, "disconnected"} /\ writers' = writers \cup {r}
        /\ UNCHANGED <<http, requestRef, socketRef, expectedClose, pingTimer, mounted, aborted,
                       settled, readyState, execution, current>>
    BY <1>10 DEF Error, Output, updateExecutionPhase, browser, route, refs, service
  <2> QED BY <1>1, <1>3, <1>4, <1>5, <1>6, <2>1, MessageStep
<1> QED BY <1>7, <1>8, <1>9, <1>10

LEMMA PageNext == PageInv /\ [Next]_vars => PageInv'
<1> SUFFICES ASSUME PageInv, [Next]_vars PROVE PageInv'
  OBVIOUS
<1>1. CASE User  BY <1>1, RunStep, StopStep, UnmountStep DEF User
<1>2. CASE Server \/ Clock  BY <1>2, RouteStep
<1>3. ASSUME NEW r \in Executions,
             \/ Settle(r) \/ SocketOpens(r) \/ Ends(r) \/ Error(r) \/ Output(r)
             \/ \E ours \in BOOLEAN : Hello(r, ours)
             \/ \E p \in ReportedPhases : Phase(r, p)
      PROVE  PageInv'
  BY <1>3, CreatedStep, RejectedStep, OpensStep, ClosesStep, EventsStep DEF Settle, Ends
<1>4. CASE UNCHANGED vars
  <2> USE <1>4 DEF vars, route, refs, browser, service, history, PageInv
  <2>1. PageType'  BY DEF PageType
  <2>2. RefsInv' /\ RequestsInv' /\ CloseInv' /\ OneSocket' /\ ActiveHasCause'
    BY DEF RefsInv, RequestsInv, CloseInv, OneSocket, ActiveHasCause
  <2> QED BY <2>1, <2>2
<1> QED BY <1>1, <1>2, <1>3, <1>4 DEF Next

-----------------------------------------------------------------------------
\* The inductive invariant of the page.
THEOREM PageInductive == Spec => []PageInv
  BY PageInit, PageNext, PTL DEF Spec

\* Neither the late answer, failure or abort of an earlier request nor an earlier
\* socket changes the phase or the terminal of the run that followed.
THEOREM CurrentRunWrites == Spec => []OnlyCurrentRun
<1>1. PageInv => OnlyCurrentRun  BY DEF PageInv, RefsInv, OnlyCurrentRun
<1> QED BY <1>1, PageInductive, PTL

\* The socket that connects or is open is the one the page refers to and will close.
THEOREM SocketReferenced == Spec => []OneSocket
<1>1. PageInv => OneSocket  BY DEF PageInv
<1> QED BY <1>1, PageInductive, PTL

\* A phase that keeps the user from a new run has a request or a socket behind it.
THEOREM ActivePhaseCaused == Spec => []ActiveHasCause
<1>1. PageInv => ActiveHasCause  BY DEF PageInv
<1> QED BY <1>1, PageInductive, PTL

-----------------------------------------------------------------------------
(* One rule of the limiter.                                                *)

Entries == [count : Nat \ {0}, left : 0..Hour]

StoreOK(st) ==
    /\ IsFiniteSet(DOMAIN st) /\ Cardinality(DOMAIN st) <= MaxRateLimitEntries
    /\ \A k \in DOMAIN st : st[k] \in Entries

WindowOpen(st, k) == k \in DOMAIN st /\ st[k].left > 0

\* A rule leaves the entries of other keys alone, up to the expired ones.
Passes(st, next, k) ==
    /\ k \in DOMAIN next => k \in DOMAIN st /\ next[k] = st[k]
    /\ k \in DOMAIN st /\ k \notin DOMAIN next => st[k].left = 0

\* A rule counts in the window of its key or opens a new one, unless it is refused
\* for lack of room.
Counts(st, next, rule, allowed) ==
    \/ /\ ~allowed /\ ~WindowOpen(st, rule.key) /\ rule.key \notin DOMAIN next
    \/ /\ rule.key \in DOMAIN next
       /\ next[rule.key] = IF WindowOpen(st, rule.key)
                           THEN [count |-> st[rule.key].count + 1, left |-> st[rule.key].left]
                           ELSE [count |-> 1, left |-> rule.window]
       /\ allowed <=> next[rule.key].count <= rule.limit

LEMMA KeysKept ==
    ASSUME NEW st, StoreOK(st), NEW sweep \in BOOLEAN
    PROVE  /\ keysKept(st, sweep) \subseteq DOMAIN st /\ IsFiniteSet(keysKept(st, sweep))
           /\ Cardinality(keysKept(st, sweep)) \in Nat
           /\ Cardinality(keysKept(st, sweep)) <= MaxRateLimitEntries
           /\ \A k \in DOMAIN st : k \in keysKept(st, sweep) \/ st[k].left = 0
<1>1. /\ keysKept(st, sweep) \subseteq DOMAIN st
      /\ \A k \in DOMAIN st : k \in keysKept(st, sweep) \/ st[k].left = 0
  BY DEF keysKept, cleanupExpiredEntries, Expired
<1>2. IsFiniteSet(DOMAIN st) /\ Cardinality(DOMAIN st) <= MaxRateLimitEntries
  BY DEF StoreOK
<1>3. /\ IsFiniteSet(keysKept(st, sweep))
      /\ Cardinality(keysKept(st, sweep)) <= Cardinality(DOMAIN st)
  BY <1>1, <1>2, FS_Subset
<1>4. Cardinality(keysKept(st, sweep)) \in Nat /\ Cardinality(DOMAIN st) \in Nat
  BY <1>2, <1>3, FS_CardinalityType
<1> QED BY <1>1, <1>2, <1>3, <1>4, RateLimitAssumption

LEMMA CountedEntry ==
    ASSUME NEW st, StoreOK(st), NEW sweep \in BOOLEAN, NEW rule, rule.window \in 1..Hour
    PROVE  /\ countedEntry(st, keysKept(st, sweep), rule) \in Entries
           /\ countedEntry(st, keysKept(st, sweep), rule)
                = IF WindowOpen(st, rule.key)
                  THEN [count |-> st[rule.key].count + 1, left |-> st[rule.key].left]
                  ELSE [count |-> 1, left |-> rule.window]
<1>1. /\ keysKept(st, sweep) \subseteq DOMAIN st
      /\ \A k \in DOMAIN st : k \in keysKept(st, sweep) \/ st[k].left = 0
  BY KeysKept
<1>2. CASE WindowOpen(st, rule.key)
  <2>1. /\ rule.key \in DOMAIN st /\ st[rule.key] \in Entries
        /\ rule.key \in keysKept(st, sweep) /\ st[rule.key].left # 0
    BY <1>1, <1>2, RouteAssumption DEF WindowOpen, StoreOK, Entries
  <2> QED BY <1>2, <2>1 DEF countedEntry, Expired, Entries
<1>3. CASE ~WindowOpen(st, rule.key)
  <2>1. rule.key \in keysKept(st, sweep) => st[rule.key].left = 0
    BY <1>1, <1>3 DEF WindowOpen, StoreOK, Entries
  <2> QED BY <1>3, <2>1 DEF countedEntry, Expired, Entries
<1> QED BY <1>2, <1>3

LEMMA RuleCharged ==
    ASSUME NEW st, StoreOK(st), NEW sweep \in BOOLEAN, NEW rule, rule.window \in 1..Hour,
           rule.limit \in Nat
    PROVE  LET result == consumeRateLimit(st, rule, sweep)
           IN  /\ StoreOK(result.store) /\ result.allowed \in BOOLEAN
               /\ Counts(st, result.store, rule, result.allowed)
               /\ \A k : k # rule.key => Passes(st, result.store, k)
<1> DEFINE kept == keysKept(st, sweep)
           entry == countedEntry(st, kept, rule)
           result == consumeRateLimit(st, rule, sweep)
<1>1. /\ kept \subseteq DOMAIN st /\ IsFiniteSet(kept) /\ Cardinality(kept) \in Nat
      /\ Cardinality(kept) <= MaxRateLimitEntries
      /\ \A k \in DOMAIN st : k \in kept \/ st[k].left = 0
  BY KeysKept
<1>2. /\ entry \in Entries
      /\ entry = IF WindowOpen(st, rule.key)
                 THEN [count |-> st[rule.key].count + 1, left |-> st[rule.key].left]
                 ELSE [count |-> 1, left |-> rule.window]
  BY CountedEntry
<1>3. \A k \in DOMAIN st : st[k] \in Entries  BY DEF StoreOK
<1>4. CASE refusesKey(kept, rule.key)
  <2>1. result = [store |-> [k \in kept |-> st[k]], allowed |-> FALSE]
    BY <1>4 DEF consumeRateLimit
  <2>2. rule.key \notin kept  BY <1>4 DEF refusesKey
  <2> HIDE DEF kept, result
  <2>3. DOMAIN result.store = kept /\ result.allowed = FALSE
        /\ \A k \in kept : result.store[k] = st[k]
    BY <2>1
  <2>4. StoreOK(result.store)  BY <1>1, <1>3, <2>3 DEF StoreOK
  <2>5. ~WindowOpen(st, rule.key)
    BY <1>1, <1>3, <2>2 DEF WindowOpen, Entries
  <2>6. \A k : Passes(st, result.store, k)  BY <1>1, <2>3 DEF Passes
  <2>7. Counts(st, result.store, rule, result.allowed)
    BY <2>2, <2>3, <2>5 DEF Counts
  <2> QED BY <2>3, <2>4, <2>6, <2>7, Zenon DEF result
<1>5. CASE ~refusesKey(kept, rule.key)
  <2>1. result = [store |-> [k \in kept \cup {rule.key} |-> IF k = rule.key THEN entry ELSE st[k]],
                  allowed |-> entry.count <= rule.limit]
    BY <1>5 DEF consumeRateLimit
  <2>2. rule.key \in kept \/ Cardinality(kept) < MaxRateLimitEntries
    BY <1>1, <1>5, RateLimitAssumption DEF refusesKey
  <2>3. /\ IsFiniteSet(kept \cup {rule.key})
        /\ Cardinality(kept \cup {rule.key}) =
              IF rule.key \in kept THEN Cardinality(kept) ELSE Cardinality(kept) + 1
    BY <1>1, FS_AddElement
  <2> HIDE DEF kept, result, entry
  <2>4. /\ DOMAIN result.store = kept \cup {rule.key}
        /\ result.store[rule.key] = entry
        /\ \A k \in kept : k # rule.key => result.store[k] = st[k]
    <3>1. result.store =
             [k \in kept \cup {rule.key} |-> IF k = rule.key THEN entry ELSE st[k]]
      BY <2>1, Zenon
    <3> QED BY <3>1
  <2>9. result.allowed = (entry.count <= rule.limit)  BY <2>1, Zenon
  <2>10. result.allowed \in BOOLEAN /\ (result.allowed <=> entry.count <= rule.limit)
    <3>1. (entry.count <= rule.limit) \in BOOLEAN  OBVIOUS
    <3> QED BY <2>9, <3>1, Zenon
  <2>5. Cardinality(kept \cup {rule.key}) <= MaxRateLimitEntries
    BY <1>1, <2>2, <2>3, RateLimitAssumption
  <2>6. StoreOK(result.store)
    BY <1>1, <1>2, <1>3, <2>3, <2>4, <2>5 DEF StoreOK
  <2>7. \A k : k # rule.key => Passes(st, result.store, k)
    BY <1>1, <2>4 DEF Passes
  <2>8. Counts(st, result.store, rule, result.allowed)
    BY <1>2, <2>4, <2>10 DEF Counts
  <2> QED BY <2>10, <2>6, <2>7, <2>8 DEF result
<1> QED BY <1>4, <1>5

-----------------------------------------------------------------------------
(* The executions that were let pass, by their age.                        *)

Ages == {Never} \cup 0..Hour

PassedIn(adm, S) == {r \in Executions : adm[r] \in S}

AdmittedOK(adm) == adm \in [Executions -> Ages] /\ IsFiniteSet(PassedIn(adm, 0..Hour))

LEMMA Fewer ==
    ASSUME NEW A, NEW B, IsFiniteSet(B), A \subseteq B
    PROVE  /\ IsFiniteSet(A) /\ Cardinality(A) \in Nat /\ Cardinality(B) \in Nat
           /\ Cardinality(A) <= Cardinality(B)
  BY FS_Subset, FS_CardinalityType

LEMMA OneMore ==
    ASSUME NEW A, NEW B, NEW r, IsFiniteSet(B), A \subseteq B \cup {r}
    PROVE  /\ IsFiniteSet(A) /\ Cardinality(A) \in Nat /\ Cardinality(B) \in Nat
           /\ Cardinality(A) <= Cardinality(B) + 1
<1>1. IsFiniteSet(B \cup {r}) /\ Cardinality(B \cup {r}) \in {Cardinality(B), Cardinality(B) + 1}
  BY FS_AddElement
<1>2. /\ IsFiniteSet(A) /\ Cardinality(A) \in Nat /\ Cardinality(B \cup {r}) \in Nat
      /\ Cardinality(A) <= Cardinality(B \cup {r})
  BY <1>1, Fewer
<1>3. Cardinality(B) \in Nat  BY FS_CardinalityType
<1> QED BY <1>1, <1>2, <1>3

LEMMA TwoParts ==
    ASSUME NEW A, NEW B, NEW C, IsFiniteSet(B), IsFiniteSet(C), A \subseteq B \cup C
    PROVE  Cardinality(A) \in Nat /\ Cardinality(A) <= Cardinality(B) + Cardinality(C)
<1>1. /\ IsFiniteSet(B \cup C)
      /\ Cardinality(B \cup C) = Cardinality(B) + Cardinality(C) - Cardinality(B \cap C)
  BY FS_Union
<1>2. IsFiniteSet(B \cap C)  BY FS_Intersection
<1>3. Cardinality(B) \in Nat /\ Cardinality(C) \in Nat /\ Cardinality(B \cap C) \in Nat
  BY <1>2, FS_CardinalityType
<1>4. Cardinality(A) \in Nat /\ Cardinality(A) <= Cardinality(B \cup C)
      /\ Cardinality(B \cup C) \in Nat
  BY <1>1, Fewer
<1> QED BY <1>1, <1>3, <1>4

LEMMA PassedFinite ==
    ASSUME NEW adm, AdmittedOK(adm), NEW S \in SUBSET Nat
    PROVE  IsFiniteSet(PassedIn(adm, S)) /\ Cardinality(PassedIn(adm, S)) \in Nat
<1>1. PassedIn(adm, S) \subseteq PassedIn(adm, 0..Hour)
  BY DEF AdmittedOK, PassedIn, Ages, Never
<1> QED BY <1>1, Fewer DEF AdmittedOK

\* An execution is let pass now.
LEMMA LetPass ==
    ASSUME NEW adm, AdmittedOK(adm), NEW r \in Executions, NEW next,
           next = [adm EXCEPT ![r] = 0]
    PROVE  /\ AdmittedOK(next)
           /\ \A S \in SUBSET Nat : /\ PassedIn(next, S) \subseteq PassedIn(adm, S) \cup {r}
                                    /\ 0 \notin S => PassedIn(next, S) \subseteq PassedIn(adm, S)
<1>1. next \in [Executions -> Ages]  BY RouteAssumption DEF AdmittedOK, Ages
<1>2. \A x \in Executions : next[x] = IF x = r THEN 0 ELSE adm[x]  BY DEF AdmittedOK
<1>3. \A S \in SUBSET Nat : /\ PassedIn(next, S) \subseteq PassedIn(adm, S) \cup {r}
                            /\ 0 \notin S => PassedIn(next, S) \subseteq PassedIn(adm, S)
  BY <1>2 DEF PassedIn
<1>4. 0..Hour \in SUBSET Nat  BY RouteAssumption
<1>5. IsFiniteSet(PassedIn(next, 0..Hour))
  BY <1>3, <1>4, OneMore, Zenon DEF AdmittedOK
<1> QED BY <1>1, <1>3, <1>5, Zenon DEF AdmittedOK

\* All of them grow older.
LEMMA GrowOlder ==
    ASSUME NEW adm, AdmittedOK(adm), NEW next,
           next = [r \in Executions |-> IF adm[r] \in {Never, Hour} THEN adm[r] ELSE adm[r] + 1]
    PROVE  /\ AdmittedOK(next)
           /\ \A n \in 0..Hour : PassedIn(next, 0..n - 1) \subseteq PassedIn(adm, 0..n - 2)
           /\ \A m \in 1..Hour, n \in 0..Hour :
                  PassedIn(next, m..n - 1) \subseteq PassedIn(adm, m - 1..n - 2)
           /\ PassedIn(next, {0}) = {}
<1>0. Hour \in Nat \ {0}  BY RouteAssumption
<1>1. \A r \in Executions : /\ adm[r] \in Ages
                            /\ next[r] = IF adm[r] \in {Never, Hour} THEN adm[r] ELSE adm[r] + 1
  BY DEF AdmittedOK
<1>2. \A r \in Executions : \/ next[r] = Never /\ adm[r] = Never
                            \/ next[r] = Hour /\ adm[r] = Hour
                            \/ next[r] \in 1..Hour /\ adm[r] = next[r] - 1
  BY <1>0, <1>1 DEF Ages, Never
<1>3. next \in [Executions -> Ages]
  <2>1. \A r \in Executions : next[r] \in Ages  BY <1>0, <1>2 DEF Ages
  <2> QED BY <2>1
<1>4. PassedIn(next, 0..Hour) \subseteq PassedIn(adm, 0..Hour)
  BY <1>0, <1>2 DEF PassedIn, Never
<1>5. AdmittedOK(next)  BY <1>3, <1>4, Fewer, Zenon DEF AdmittedOK
<1>6. ASSUME NEW n \in 0..Hour, NEW r \in PassedIn(next, 0..n - 1)
      PROVE  r \in PassedIn(adm, 0..n - 2)
  <2>1. r \in Executions /\ next[r] \in 0..n - 1  BY <1>6 DEF PassedIn
  <2>2. adm[r] \in 0..n - 2  BY <1>0, <1>2, <2>1 DEF Never
  <2> QED BY <2>1, <2>2 DEF PassedIn
<1>7. ASSUME NEW m \in 1..Hour, NEW n \in 0..Hour, NEW r \in PassedIn(next, m..n - 1)
      PROVE  r \in PassedIn(adm, m - 1..n - 2)
  <2>1. r \in Executions /\ next[r] \in m..n - 1  BY <1>7 DEF PassedIn
  <2>2. adm[r] \in m - 1..n - 2  BY <1>0, <1>2, <2>1 DEF Never
  <2> QED BY <2>1, <2>2 DEF PassedIn
<1>8. PassedIn(next, {0}) = {}  BY <1>0, <1>2 DEF PassedIn, Never
<1> QED BY <1>5, <1>6, <1>7, <1>8

-----------------------------------------------------------------------------
(* What a window knows of the executions that were let pass.               *)

\* An open one has counted all since it began, the first of them at its very beginning,
\* and the last window left fewer than the limit that are not older than a window.
OpenInv(e, adm, W, L) ==
    /\ e.left <= W
    /\ Cardinality(PassedIn(adm, 0..W - e.left)) <= e.count
    /\ Cardinality(PassedIn(adm, 0..W - e.left)) <= L
    /\ Cardinality(PassedIn(adm, 0..W - e.left - 1)) < e.count
    /\ Cardinality(PassedIn(adm, 0..W - e.left - 1)) < L
    /\ Cardinality(PassedIn(adm, W - e.left + 1..W - 1)) < L

ClosedInv(adm, W, L) ==
    Cardinality(PassedIn(adm, 0..W - 1)) < L /\ PassedIn(adm, {0}) = {}

WindowInv(st, adm, k, W, L) ==
    IF WindowOpen(st, k) THEN OpenInv(st[k], adm, W, L) ELSE ClosedInv(adm, W, L)

\* Requests that are counted and, up to the limit, let pass.
LEMMA OpenCounts ==
    ASSUME NEW adm, AdmittedOK(adm), NEW W \in 1..Hour, NEW L \in Nat \ {0}, NEW e \in Entries,
           e.left > 0, OpenInv(e, adm, W, L), NEW f, f = [count |-> e.count + 1, left |-> e.left]
    PROVE  /\ f.left > 0 /\ OpenInv(f, adm, W, L)
           /\ \A r \in Executions :
                  f.count <= L => OpenInv(f, [adm EXCEPT ![r] = 0], W, L)
<1> DEFINE s == W - e.left
<1>1. /\ e.count \in Nat \ {0} /\ e.left \in Nat /\ Hour \in Nat /\ W \in Nat
      /\ f.count = e.count + 1 /\ f.left = e.left
  BY RouteAssumption DEF Entries
<1>2. s \in 0..W - 1 /\ e.left <= W  BY <1>1 DEF OpenInv
<1>3. /\ 0..s \in SUBSET Nat /\ 0..s - 1 \in SUBSET Nat /\ s + 1..W - 1 \in SUBSET Nat
  BY <1>1, <1>2
<1> DEFINE a == PassedIn(adm, 0..s)  b == PassedIn(adm, 0..s - 1)
           c == PassedIn(adm, s + 1..W - 1)
<1>4. /\ IsFiniteSet(a) /\ IsFiniteSet(b) /\ IsFiniteSet(c)
      /\ Cardinality(a) \in Nat /\ Cardinality(b) \in Nat /\ Cardinality(c) \in Nat
  BY <1>3, PassedFinite, Zenon
<1>5. /\ Cardinality(a) <= e.count /\ Cardinality(a) <= L
      /\ Cardinality(b) < e.count /\ Cardinality(b) < L /\ Cardinality(c) < L
  BY DEF OpenInv
<1>6. OpenInv(f, adm, W, L)
  <2> HIDE DEF a, b, c
  <2>1. Cardinality(a) <= f.count /\ Cardinality(b) < f.count  BY <1>1, <1>4, <1>5
  <2> QED BY <1>1, <1>2, <1>5, <2>1 DEF OpenInv, a, b, c
<1>7. ASSUME NEW r \in Executions, f.count <= L
      PROVE  OpenInv(f, [adm EXCEPT ![r] = 0], W, L)
  <2> DEFINE next == [adm EXCEPT ![r] = 0]
             a2 == PassedIn(next, 0..s)  b2 == PassedIn(next, 0..s - 1)
             c2 == PassedIn(next, s + 1..W - 1)
  <2>1. /\ a2 \subseteq a \cup {r} /\ b2 \subseteq b \cup {r}
        /\ c2 \subseteq c
    <3>1. 0 \notin s + 1..W - 1  BY <1>2
    <3>2. \A S \in SUBSET Nat :
             /\ PassedIn(next, S) \subseteq PassedIn(adm, S) \cup {r}
             /\ 0 \notin S => PassedIn(next, S) \subseteq PassedIn(adm, S)
      BY LetPass, Zenon
    <3> HIDE DEF next, s
    <3> QED BY <1>3, <3>1, <3>2, Zenon
  <2> HIDE DEF a, b, c, a2, b2, c2, s
  <2>3. /\ Cardinality(a2) \in Nat /\ Cardinality(b2) \in Nat /\ Cardinality(c2) \in Nat
        /\ Cardinality(a2) <= Cardinality(a) + 1 /\ Cardinality(b2) <= Cardinality(b) + 1
        /\ Cardinality(c2) <= Cardinality(c)
    BY <1>4, <2>1, OneMore, Fewer, Zenon
  <2>4. Cardinality(a2) <= f.count /\ Cardinality(a2) <= L /\ Cardinality(c2) < L
    BY <1>1, <1>4, <1>5, <1>7, <2>3
  <2>5. Cardinality(b2) < f.count /\ Cardinality(b2) < L
    BY <1>1, <1>4, <1>5, <1>7, <2>3
  <2> QED BY <1>1, <1>2, <2>4, <2>5 DEF OpenInv, a2, b2, c2, s
<1>8. f.left > 0  BY <1>1
<1> QED BY <1>6, <1>7, <1>8, Zenon

\* The first request of a window.
LEMMA WindowOpens ==
    ASSUME NEW adm, AdmittedOK(adm), NEW W \in 1..Hour, NEW L \in Nat \ {0}, ClosedInv(adm, W, L),
           NEW f, f = [count |-> 1, left |-> W]
    PROVE  /\ f.left > 0 /\ OpenInv(f, adm, W, L)
           /\ \A r \in Executions : OpenInv(f, [adm EXCEPT ![r] = 0], W, L)
<1>1. W \in Nat /\ W > 0 /\ f.count = 1 /\ f.left = W /\ W - f.left = 0
  BY RouteAssumption
<1>2. ASSUME NEW next, NEW r,
             PassedIn(next, {0}) \subseteq {r},
             PassedIn(next, 1..W - 1) \subseteq PassedIn(adm, 1..W - 1)
      PROVE  OpenInv(f, next, W, L)
  <2>1. PassedIn(next, 0..0 - 1) = {}  BY DEF PassedIn
  <2>2. PassedIn(next, 0..0) = PassedIn(next, {0})
    <3>1. 0..0 = {0}  OBVIOUS
    <3> QED BY <3>1
  <2>3. PassedIn(next, 1..W - 1) \subseteq PassedIn(adm, 0..W - 1)
    BY <1>2 DEF PassedIn
  <2>4. IsFiniteSet(PassedIn(adm, 0..W - 1)) /\ Cardinality(PassedIn(adm, 0..W - 1)) \in Nat
    BY <1>1, PassedFinite
  <2>5. /\ Cardinality(PassedIn(next, 1..W - 1)) \in Nat
        /\ Cardinality(PassedIn(next, 1..W - 1)) <= Cardinality(PassedIn(adm, 0..W - 1))
    BY <2>3, <2>4, Fewer
  <2>6. Cardinality(PassedIn(next, 1..W - 1)) < L
    BY <2>4, <2>5 DEF ClosedInv
  <2>7. Cardinality(PassedIn(next, 0..0)) <= 1 /\ Cardinality(PassedIn(next, 0..0)) \in Nat
    <3>1. Cardinality({}) = 0 /\ IsFiniteSet({})  BY FS_EmptySet
    <3>2. PassedIn(next, 0..0) \subseteq {} \cup {r}  BY <1>2, <2>2
    <3>3. /\ Cardinality(PassedIn(next, 0..0)) \in Nat
          /\ Cardinality(PassedIn(next, 0..0)) <= Cardinality({}) + 1
      BY <3>1, <3>2, OneMore, Zenon
    <3> QED BY <3>1, <3>3
  <2>8. Cardinality(PassedIn(next, 0..0 - 1)) = 0  BY <2>1, FS_EmptySet
  <2>9. W - f.left + 1 = 1 /\ W - f.left - 1 = 0 - 1  BY <1>1
  <2> QED BY <1>1, <2>6, <2>7, <2>8, <2>9 DEF OpenInv
<1>3. OpenInv(f, adm, W, L)
  <2>1. PassedIn(adm, {0}) \subseteq {0}  BY DEF ClosedInv
  <2> QED BY <1>2, <2>1
<1>4. ASSUME NEW r \in Executions PROVE OpenInv(f, [adm EXCEPT ![r] = 0], W, L)
  <2> DEFINE next == [adm EXCEPT ![r] = 0]
  <2>0. \A S \in SUBSET Nat :
           /\ PassedIn(next, S) \subseteq PassedIn(adm, S) \cup {r}
           /\ 0 \notin S => PassedIn(next, S) \subseteq PassedIn(adm, S)
    BY LetPass, Zenon
  <2> HIDE DEF next
  <2>1. {0} \in SUBSET Nat /\ 1..W - 1 \in SUBSET Nat /\ 0 \notin 1..W - 1  BY <1>1
  <2>2. /\ PassedIn(next, {0}) \subseteq PassedIn(adm, {0}) \cup {r}
        /\ PassedIn(next, 1..W - 1) \subseteq PassedIn(adm, 1..W - 1)
    BY <2>0, <2>1
  <2>3. PassedIn(next, {0}) \subseteq {r}  BY <2>2 DEF ClosedInv
  <2> QED BY <1>2, <2>2, <2>3, Zenon DEF next
<1>5. f.left > 0  BY <1>1
<1> QED BY <1>3, <1>4, <1>5, Zenon

\* Other rules leave the window alone; its own rule counts.
LEMMA WindowPassed ==
    ASSUME NEW st, NEW next, StoreOK(st), StoreOK(next), NEW adm, NEW k, NEW W, NEW L,
           WindowInv(st, adm, k, W, L), Passes(st, next, k)
    PROVE  WindowInv(next, adm, k, W, L)
<1>0. ~(0 > 0)  OBVIOUS
<1>1. WindowOpen(next, k) <=> WindowOpen(st, k)  BY <1>0, Zenon DEF WindowOpen, Passes
<1>2. WindowOpen(next, k) => next[k] = st[k]  BY DEF WindowOpen, Passes
<1> QED BY <1>1, <1>2 DEF WindowInv

LEMMA WindowCounts ==
    ASSUME NEW st, NEW next, StoreOK(st), NEW adm, AdmittedOK(adm), NEW rule,
           rule.window \in 1..Hour, rule.limit \in Nat \ {0},
           WindowInv(st, adm, rule.key, rule.window, rule.limit),
           NEW allowed \in BOOLEAN, Counts(st, next, rule, allowed)
    PROVE  /\ WindowInv(next, adm, rule.key, rule.window, rule.limit)
           /\ \A r \in Executions : allowed =>
                  WindowInv(next, [adm EXCEPT ![r] = 0], rule.key, rule.window, rule.limit)
<1> DEFINE k == rule.key  W == rule.window  L == rule.limit
<1>1. CASE ~allowed /\ ~WindowOpen(st, k) /\ k \notin DOMAIN next
  BY <1>1 DEF WindowInv, WindowOpen
<1>2. CASE /\ k \in DOMAIN next
           /\ next[k] = IF WindowOpen(st, k)
                        THEN [count |-> st[k].count + 1, left |-> st[k].left]
                        ELSE [count |-> 1, left |-> W]
           /\ allowed <=> next[k].count <= L
  <2>1. CASE WindowOpen(st, k)
    <3>1. /\ st[k] \in Entries /\ st[k].left > 0 /\ OpenInv(st[k], adm, W, L)
          /\ next[k] = [count |-> st[k].count + 1, left |-> st[k].left]
      BY <1>2, <2>1 DEF WindowInv, WindowOpen, StoreOK
    <3>3. /\ next[k].left > 0 /\ OpenInv(next[k], adm, W, L)
          /\ \A r \in Executions :
                 next[k].count <= L => OpenInv(next[k], [adm EXCEPT ![r] = 0], W, L)
      BY <3>1, OpenCounts
    <3> QED BY <1>2, <3>3, Zenon DEF WindowInv, WindowOpen
  <2>2. CASE ~WindowOpen(st, k)
    <3>1. ClosedInv(adm, W, L) /\ next[k] = [count |-> 1, left |-> W]
      BY <1>2, <2>2 DEF WindowInv
    <3>3. /\ next[k].left > 0 /\ OpenInv(next[k], adm, W, L)
          /\ \A r \in Executions : OpenInv(next[k], [adm EXCEPT ![r] = 0], W, L)
      BY <3>1, WindowOpens
    <3> QED BY <1>2, <3>3, Zenon DEF WindowInv, WindowOpen
  <2> QED BY <2>1, <2>2
<1> QED BY <1>1, <1>2 DEF Counts

\* Time passes.
LEMMA OpenElapses ==
    ASSUME NEW adm, AdmittedOK(adm), NEW next,
           next = [r \in Executions |-> IF adm[r] \in {Never, Hour} THEN adm[r] ELSE adm[r] + 1],
           NEW W \in 1..Hour, NEW L \in Nat \ {0}, NEW e \in Entries, e.left > 0,
           OpenInv(e, adm, W, L), NEW f, f = [count |-> e.count, left |-> e.left - 1]
    PROVE  IF f.left > 0 THEN OpenInv(f, next, W, L) ELSE ClosedInv(next, W, L)
<1> DEFINE s == W - e.left
<1>1. /\ e.count \in Nat \ {0} /\ e.left \in Nat /\ Hour \in Nat /\ W \in Nat /\ W <= Hour
      /\ f.count = e.count /\ f.left = e.left - 1
  BY RouteAssumption DEF Entries
<1>2. s \in 0..W - 1 /\ e.left <= W  BY <1>1 DEF OpenInv
<1>3. /\ AdmittedOK(next)
      /\ \A n \in 0..Hour : PassedIn(next, 0..n - 1) \subseteq PassedIn(adm, 0..n - 2)
      /\ \A m \in 1..Hour, n \in 0..Hour :
             PassedIn(next, m..n - 1) \subseteq PassedIn(adm, m - 1..n - 2)
      /\ PassedIn(next, {0}) = {}
  BY GrowOlder
<1> DEFINE a == PassedIn(adm, 0..s)  b == PassedIn(adm, 0..s - 1)
           c == PassedIn(adm, s + 1..W - 1)
<1>4. /\ 0..s \in SUBSET Nat /\ 0..s - 1 \in SUBSET Nat /\ s + 1..W - 1 \in SUBSET Nat
  BY <1>1, <1>2
<1>5. /\ IsFiniteSet(a) /\ IsFiniteSet(b) /\ IsFiniteSet(c)
      /\ Cardinality(a) \in Nat /\ Cardinality(b) \in Nat /\ Cardinality(c) \in Nat
  BY <1>4, PassedFinite, Zenon
<1>6. /\ Cardinality(a) <= e.count /\ Cardinality(a) <= L
      /\ Cardinality(b) < e.count /\ Cardinality(b) < L /\ Cardinality(c) < L
  BY DEF OpenInv
<1>7. CASE f.left > 0
  <2> DEFINE a2 == PassedIn(next, 0..s + 1)  b2 == PassedIn(next, 0..s)
             c2 == PassedIn(next, s + 2..W - 1)
  <2>1. s + 1 \in 0..W - 1 /\ W - f.left = s + 1  BY <1>1, <1>2, <1>7
  <2>2. a2 \subseteq a /\ b2 \subseteq b
    <3>1. /\ s + 2 \in 0..Hour /\ (s + 2) - 1 = s + 1 /\ (s + 2) - 2 = s
          /\ s + 1 \in 0..Hour /\ (s + 1) - 1 = s /\ (s + 1) - 2 = s - 1
      BY <1>1, <2>1
    <3> HIDE DEF s
    <3>2. /\ PassedIn(next, 0..(s + 2) - 1) \subseteq PassedIn(adm, 0..(s + 2) - 2)
          /\ PassedIn(next, 0..(s + 1) - 1) \subseteq PassedIn(adm, 0..(s + 1) - 2)
      BY <1>3, <3>1
    <3> QED BY <3>1, <3>2
  <2>3. c2 \subseteq c
    <3>1. s + 2 \in 1..Hour /\ W \in 0..Hour /\ (s + 2) - 1 = s + 1  BY <1>1, <2>1
    <3> HIDE DEF s
    <3>2. PassedIn(next, s + 2..W - 1) \subseteq PassedIn(adm, (s + 2) - 1..W - 2)
      BY <1>3, <3>1
    <3>3. PassedIn(adm, s + 1..W - 2) \subseteq c  BY <1>1 DEF PassedIn
    <3> QED BY <3>1, <3>2, <3>3
  <2> HIDE DEF a, b, c, a2, b2, c2
  <2>4. /\ Cardinality(a2) \in Nat /\ Cardinality(b2) \in Nat /\ Cardinality(c2) \in Nat
        /\ Cardinality(a2) <= Cardinality(a) /\ Cardinality(b2) <= Cardinality(b)
        /\ Cardinality(c2) <= Cardinality(c)
    BY <1>5, <2>2, <2>3, Fewer
  <2>5. /\ Cardinality(a2) <= f.count /\ Cardinality(a2) <= L
        /\ Cardinality(b2) < f.count /\ Cardinality(b2) < L /\ Cardinality(c2) < L
    BY <1>1, <1>5, <1>6, <2>4
  <2>6. f.left <= W /\ W - f.left - 1 = s /\ W - f.left + 1 = s + 2  BY <1>1, <1>2, <2>1
  <2> HIDE DEF s
  <2> QED BY <1>7, <2>1, <2>5, <2>6 DEF OpenInv, a2, b2, c2
<1>8. CASE ~(f.left > 0)
  <2>1. s = W - 1 /\ s - 1 = W - 2 /\ W \in 0..Hour  BY <1>1, <1>2, <1>8
  <2>2. PassedIn(next, 0..W - 1) \subseteq b
    <3>1. PassedIn(next, 0..W - 1) \subseteq PassedIn(adm, 0..W - 2)  BY <1>3, <2>1
    <3> HIDE DEF s
    <3> QED BY <2>1, <3>1
  <2> HIDE DEF b
  <2>3. /\ Cardinality(PassedIn(next, 0..W - 1)) \in Nat
        /\ Cardinality(PassedIn(next, 0..W - 1)) <= Cardinality(b)
    BY <1>5, <2>2, Fewer
  <2>4. Cardinality(PassedIn(next, 0..W - 1)) < L
    <3>1. L \in Nat /\ \A x, y, z \in Nat : x <= y /\ y < z => x < z  OBVIOUS
    <3> QED BY <1>5, <1>6, <2>3, <3>1, Zenon
  <2> QED BY <1>3, <1>8, <2>4 DEF ClosedInv
<1> QED BY <1>7, <1>8

LEMMA ClosedElapses ==
    ASSUME NEW adm, AdmittedOK(adm), NEW next,
           next = [r \in Executions |-> IF adm[r] \in {Never, Hour} THEN adm[r] ELSE adm[r] + 1],
           NEW W \in 1..Hour, NEW L \in Nat \ {0}, ClosedInv(adm, W, L)
    PROVE  ClosedInv(next, W, L)
<1>1. W \in 0..Hour /\ W \in Nat  BY RouteAssumption
<1>2. PassedIn(next, 0..W - 1) \subseteq PassedIn(adm, 0..W - 2) /\ PassedIn(next, {0}) = {}
  BY <1>1, GrowOlder
<1>3. PassedIn(adm, 0..W - 2) \subseteq PassedIn(adm, 0..W - 1)  BY <1>1 DEF PassedIn
<1>4. 0..W - 1 \in SUBSET Nat  BY <1>1
<1>5. IsFiniteSet(PassedIn(adm, 0..W - 1)) /\ Cardinality(PassedIn(adm, 0..W - 1)) \in Nat
  BY <1>4, PassedFinite
<1>6. PassedIn(next, 0..W - 1) \subseteq PassedIn(adm, 0..W - 1)  BY <1>2, <1>3
<1>7. /\ Cardinality(PassedIn(next, 0..W - 1)) \in Nat
      /\ Cardinality(PassedIn(next, 0..W - 1)) <= Cardinality(PassedIn(adm, 0..W - 1))
  BY <1>5, <1>6, Fewer
<1> QED BY <1>2, <1>5, <1>7 DEF ClosedInv

LEMMA WindowElapses ==
    ASSUME NEW st, StoreOK(st), NEW adm, AdmittedOK(adm), NEW next,
           next = [r \in Executions |-> IF adm[r] \in {Never, Hour} THEN adm[r] ELSE adm[r] + 1],
           NEW k, NEW W \in 1..Hour, NEW L \in Nat \ {0}, WindowInv(st, adm, k, W, L)
    PROVE  WindowInv(elapse(st), next, k, W, L)
<1>1. /\ DOMAIN elapse(st) = DOMAIN st
      /\ k \in DOMAIN st =>
            elapse(st)[k] = [st[k] EXCEPT !.left = IF @ = 0 THEN 0 ELSE @ - 1]
  BY DEF elapse
<1>2. CASE WindowOpen(st, k)
  <2>1. k \in DOMAIN st /\ st[k] \in Entries /\ st[k].left > 0 /\ OpenInv(st[k], adm, W, L)
    BY <1>2 DEF WindowOpen, StoreOK, WindowInv
  <2>2. elapse(st)[k] = [count |-> st[k].count, left |-> st[k].left - 1]
    BY <1>1, <2>1, RouteAssumption DEF Entries
  <2>3. IF elapse(st)[k].left > 0
        THEN OpenInv(elapse(st)[k], next, W, L) ELSE ClosedInv(next, W, L)
    BY <2>1, <2>2, OpenElapses
  <2> QED BY <1>1, <2>1, <2>3 DEF WindowInv, WindowOpen
<1>3. CASE ~WindowOpen(st, k)
  <2>1. ClosedInv(next, W, L)  BY <1>3, ClosedElapses DEF WindowInv
  <2>2. ~WindowOpen(elapse(st), k)
    BY <1>1, <1>3, RouteAssumption DEF WindowOpen, StoreOK, Entries
  <2> QED BY <2>1, <2>2 DEF WindowInv
<1> QED BY <1>2, <1>3

LEMMA StoreElapses ==
    ASSUME NEW st, StoreOK(st)
    PROVE  StoreOK(elapse(st))
<1>1. /\ DOMAIN elapse(st) = DOMAIN st
      /\ \A k \in DOMAIN st :
            elapse(st)[k] = [st[k] EXCEPT !.left = IF @ = 0 THEN 0 ELSE @ - 1]
  BY DEF elapse
<1>2. \A k \in DOMAIN st : elapse(st)[k] \in Entries
  BY <1>1, RouteAssumption DEF StoreOK, Entries
<1> QED BY <1>1, <1>2 DEF StoreOK

-----------------------------------------------------------------------------
(* The rules of a request, one after the other.                            *)

uncharged == [store |-> store, allowed |-> TRUE]

\* consumeRateLimits charges the rules of its list in their order.
LEMMA RulesInOrder ==
    ASSUME NEW rules, NEW sweep, Len(rules) \in {2, 3}
    PROVE  LET first == chargedAfter(uncharged, rules[1], sweep)
               second == chargedAfter(first, rules[2], sweep)
               third == chargedAfter(second, rules[3], sweep)
           IN  consumeRateLimits(rules, sweep) = IF Len(rules) = 2 THEN second ELSE third
<1>0. \A i \in 0..Len(rules) : i \in {0, 1, 2, 3}
  <2>1. \A n \in {2, 3} : \A i \in 0..n : i = 0 \/ i = 1 \/ i = 2 \/ i = 3  OBVIOUS
  <2> QED BY <2>1, Zenon
<1> DEFINE first == chargedAfter(uncharged, rules[1], sweep)
           second == chargedAfter(first, rules[2], sweep)
           third == chargedAfter(second, rules[3], sweep)
           after(f, i) == IF i = 0 THEN uncharged
                          ELSE CHOOSE result \in {chargedAfter(before, rules[i], sweep) :
                                                   before \in {f[i - 1]}} : TRUE
           body(f) == [i \in 0..Len(rules) |-> after(f, i)]
           charged == CHOOSE f : f = body(f)
           steps == [i \in 0..Len(rules) |-> IF i = 0 THEN uncharged
                                             ELSE IF i = 1 THEN first
                                             ELSE IF i = 2 THEN second ELSE third]
<1>1. consumeRateLimits(rules, sweep) = charged[Len(rules)]
  BY DEF consumeRateLimits, uncharged
<1>2. ASSUME NEW f, NEW i, i # 0
      PROVE  after(f, i) = chargedAfter(f[i - 1], rules[i], sweep)
  <2>1. {chargedAfter(before, rules[i], sweep) : before \in {f[i - 1]}}
           = {chargedAfter(f[i - 1], rules[i], sweep)}
    OBVIOUS
  <2>2. \A x : (CHOOSE y \in {x} : TRUE) = x  OBVIOUS
  <2> QED BY <1>2, <2>1, <2>2
<1>3. \A f : after(f, 0) = uncharged  OBVIOUS
<1> HIDE DEF after, first, second, third
<1>4. steps = body(steps)
  <2>1. \A i \in 0..Len(rules) : steps[i] = after(steps, i)
    <3> SUFFICES ASSUME NEW i \in 0..Len(rules) PROVE steps[i] = after(steps, i)
      OBVIOUS
    <3>1. CASE i = 0  BY <1>3, <3>1
    <3>2. CASE i = 1  BY <1>2, <3>2 DEF first
    <3>3. CASE i = 2  BY <1>2, <3>3 DEF second
    <3>4. CASE i = 3  BY <1>2, <3>4 DEF third
    <3> HIDE DEF steps
    <3> QED BY <1>0, <3>1, <3>2, <3>3, <3>4
  <2> QED BY <2>1
<1>5. charged = body(charged)
  <2>1. \E f : f = body(f)  BY <1>4, Zenon
  <2> QED BY <2>1, Zenon
<1> HIDE DEF charged
<1>6. \A i \in 0..Len(rules) : charged[i] = after(charged, i)  BY <1>5
<1>7. charged[0] = uncharged  BY <1>3, <1>6
<1>8. charged[1] = first  BY <1>2, <1>6, <1>7 DEF first
<1>9. charged[2] = second  BY <1>2, <1>6, <1>8 DEF second
<1>10. Len(rules) = 3 => charged[3] = third  BY <1>2, <1>6, <1>9 DEF third
<1>11. consumeRateLimits(rules, sweep) = IF Len(rules) = 2 THEN second ELSE third
  BY <1>1, <1>9, <1>10, Zenon
<1> QED BY <1>11, Zenon DEF first, second, third

minuteKey == <<"minute", "ip">>
hourKey == <<"hour", "ip">>

\* The inductive invariant of the route.
RateInv ==
    /\ StoreOK(store) /\ AdmittedOK(admitted)
    /\ WindowInv(store, admitted, minuteKey, Minute, CreateLimit)
    /\ WindowInv(store, admitted, hourKey, Hour, HourLimit)

\* One rule behind others.
LEMMA RuleAfter ==
    ASSUME NEW before, NEW rule, NEW sweep \in BOOLEAN, StoreOK(before.store),
           before.allowed \in BOOLEAN, rule.window \in 1..Hour, rule.limit \in Nat
    PROVE  LET after == chargedAfter(before, rule, sweep)
           IN  /\ StoreOK(after.store) /\ after.allowed \in BOOLEAN
               /\ after.allowed => before.allowed
               /\ \E allowed \in BOOLEAN : /\ Counts(before.store, after.store, rule, allowed)
                                           /\ after.allowed => allowed
               /\ \A k : k # rule.key => Passes(before.store, after.store, k)
<1> DEFINE result == consumeRateLimit(before.store, rule, sweep)
           after == chargedAfter(before, rule, sweep)
<1>1. /\ StoreOK(result.store) /\ result.allowed \in BOOLEAN
      /\ Counts(before.store, result.store, rule, result.allowed)
      /\ \A k : k # rule.key => Passes(before.store, result.store, k)
  BY RuleCharged, Zenon
<1>2. after = [store |-> result.store, allowed |-> before.allowed /\ result.allowed]
  BY Zenon DEF chargedAfter
<1> HIDE DEF result, after
<1>3. after.store = result.store /\ after.allowed = (before.allowed /\ result.allowed)
  BY <1>2, Zenon
<1>4. /\ after.allowed \in BOOLEAN
      /\ after.allowed => before.allowed
      /\ after.allowed => result.allowed
  BY <1>1, <1>3, Zenon
<1> QED BY <1>1, <1>3, <1>4, Zenon DEF after

\* The limits in front of the body count in windows of their own.
LEMMA ArrivesRate ==
    ASSUME RateInv, NEW r \in Executions, NEW sweep \in BOOLEAN, PostArrives(r, sweep)
    PROVE  RateInv'
<1> DEFINE rules == requestRules(getVisitorIdentity(r))
           first == chargedAfter(uncharged, rules[1], sweep)
           second == chargedAfter(first, rules[2], sweep)
<1>1. /\ Len(rules) = 2
      /\ \A i \in 1..2 : /\ rules[i].window \in 1..Hour /\ rules[i].limit \in Nat
                         /\ rules[i].key \notin {minuteKey, hourKey}
  BY RouteAssumption DEF requestRules, minuteKey, hourKey
<1>2. consumeRateLimits(rules, sweep) = second
  <2> HIDE DEF rules
  <2>1. Len(rules) \in {2, 3} /\ Len(rules) = 2  BY <1>1
  <2> QED BY <2>1, RulesInOrder
<1>3. store' = second.store /\ UNCHANGED admitted  BY <1>2 DEF PostArrives
<1>4. uncharged.store = store /\ uncharged.allowed \in BOOLEAN  BY DEF uncharged
<1>5. StoreOK(store)  BY DEF RateInv
<1> HIDE DEF rules
<1>6. /\ StoreOK(first.store) /\ first.allowed \in BOOLEAN
      /\ \A k : k # rules[1].key => Passes(store, first.store, k)
  <2>1. rules[1].window \in 1..Hour /\ rules[1].limit \in Nat  BY <1>1
  <2>2. StoreOK(uncharged.store)  BY <1>4, <1>5
  <2> QED BY <1>4, <2>1, <2>2, RuleAfter, Zenon
<1> HIDE DEF first
<1>7. /\ StoreOK(second.store)
      /\ \A k : k # rules[2].key => Passes(first.store, second.store, k)
  <2>1. rules[2].window \in 1..Hour /\ rules[2].limit \in Nat  BY <1>1
  <2> QED BY <1>6, <2>1, RuleAfter, Zenon
<1> HIDE DEF second
<1>8. ASSUME NEW k \in {minuteKey, hourKey}, NEW W, NEW L, WindowInv(store, admitted, k, W, L)
      PROVE  WindowInv(second.store, admitted, k, W, L)
  <2>1. k # rules[1].key /\ k # rules[2].key  BY <1>1
  <2>2. WindowInv(first.store, admitted, k, W, L)
    BY <1>5, <1>6, <1>8, <2>1, WindowPassed
  <2> QED BY <1>6, <1>7, <2>1, <2>2, WindowPassed
<1>9. /\ WindowInv(second.store, admitted, minuteKey, Minute, CreateLimit)
      /\ WindowInv(second.store, admitted, hourKey, Hour, HourLimit)
  BY <1>8 DEF RateInv
<1> QED BY <1>3, <1>7, <1>9 DEF RateInv

\* The rules of a creation.
LEMMA CreateRules ==
    ASSUME NEW id, NEW rules, rules = createRules(id)
    PROVE  /\ Len(rules) = 3
           /\ rules[1].key = <<"minute", id>> /\ rules[2].key = minuteKey
           /\ rules[3].key = hourKey
           /\ rules[1].window = Minute /\ rules[2].window = Minute /\ rules[3].window = Hour
           /\ rules[1].limit = CreateLimit /\ rules[2].limit = CreateLimit
           /\ rules[3].limit = HourLimit
  BY DEF createRules, minuteKey, hourKey

LEMMA RuleBounds ==
    /\ Minute \in 1..Hour /\ Hour \in 1..Hour
    /\ CreateLimit \in Nat \ {0} /\ HourLimit \in Nat \ {0}
  BY RouteAssumption

LEMMA FirstThree == 1 \in 1..3 /\ 2 \in 1..3 /\ 3 \in 1..3 /\ 1..3 = {1, 2, 3}
  OBVIOUS

\* A valid body is counted in both windows of the address, and let pass only if both allow it.
LEMMA ReadRate ==
    ASSUME RateInv, NEW r \in Executions, NEW sweep \in BOOLEAN, BodyRead(r, sweep),
           identity[r] \in Executions \cup {None}
    PROVE  RateInv'
<1> DEFINE rules == createRules(identity[r])
           first == chargedAfter(uncharged, rules[1], sweep)
           second == chargedAfter(first, rules[2], sweep)
           third == chargedAfter(second, rules[3], sweep)
<1>0. "ip" # identity[r]  BY NoneAssumption DEF None
<1>1. /\ Len(rules) = 3
      /\ \A i \in 1..3 : rules[i].window \in 1..Hour /\ rules[i].limit \in Nat \ {0}
      /\ rules[1].key \notin {minuteKey, hourKey}
      /\ rules[2].key = minuteKey /\ rules[2].window = Minute /\ rules[2].limit = CreateLimit
      /\ rules[3].key = hourKey /\ rules[3].window = Hour /\ rules[3].limit = HourLimit
  <2>2. <<"minute", identity[r]>> \notin {minuteKey, hourKey}  BY <1>0 DEF minuteKey, hourKey
  <2>3. /\ Len(rules) = 3
        /\ rules[1].key = <<"minute", identity[r]>> /\ rules[2].key = minuteKey
        /\ rules[3].key = hourKey
        /\ rules[1].window = Minute /\ rules[2].window = Minute /\ rules[3].window = Hour
        /\ rules[1].limit = CreateLimit /\ rules[2].limit = CreateLimit
        /\ rules[3].limit = HourLimit
    BY CreateRules, Zenon
  <2> HIDE DEF rules
  <2>4. \A i \in {1, 2, 3} : rules[i].window \in 1..Hour /\ rules[i].limit \in Nat \ {0}
    BY <2>3, RuleBounds, Zenon
  <2> QED BY <2>2, <2>3, <2>4, FirstThree, Zenon
<1>2. consumeRateLimits(rules, sweep) = third
  <2> HIDE DEF rules
  <2>1. Len(rules) \in {2, 3} /\ Len(rules) # 2  BY <1>1
  <2> QED BY <2>1, RulesInOrder
<1>3. /\ store' = third.store
      /\ admitted' = [admitted EXCEPT ![r] = IF third.allowed THEN 0 ELSE @]
  BY <1>2 DEF BodyRead
<1>4. uncharged.store = store /\ uncharged.allowed \in BOOLEAN  BY DEF uncharged
<1>5. StoreOK(store) /\ AdmittedOK(admitted)  BY DEF RateInv
<1>6. minuteKey # hourKey  BY DEF minuteKey, hourKey
<1> HIDE DEF rules
<1>7. /\ StoreOK(first.store) /\ first.allowed \in BOOLEAN
      /\ \A k : k # rules[1].key => Passes(store, first.store, k)
  <2>1. rules[1].window \in 1..Hour /\ rules[1].limit \in Nat  BY <1>1
  <2>2. StoreOK(uncharged.store)  BY <1>4, <1>5
  <2> QED BY <1>4, <2>1, <2>2, RuleAfter, Zenon
<1> HIDE DEF first
<1>8. /\ StoreOK(second.store) /\ second.allowed \in BOOLEAN
      /\ \A k : k # minuteKey => Passes(first.store, second.store, k)
      /\ \E allowed \in BOOLEAN : /\ Counts(first.store, second.store, rules[2], allowed)
                                  /\ second.allowed => allowed
  <2>1. rules[2].window \in 1..Hour /\ rules[2].limit \in Nat /\ rules[2].key = minuteKey
    BY <1>1
  <2> QED BY <1>7, <2>1, RuleAfter, Zenon
<1> HIDE DEF second
<1>9. /\ StoreOK(third.store) /\ third.allowed \in BOOLEAN
      /\ third.allowed => second.allowed
      /\ \A k : k # hourKey => Passes(second.store, third.store, k)
      /\ \E allowed \in BOOLEAN : /\ Counts(second.store, third.store, rules[3], allowed)
                                  /\ third.allowed => allowed
  <2>1. rules[3].window \in 1..Hour /\ rules[3].limit \in Nat /\ rules[3].key = hourKey
    BY <1>1
  <2> QED BY <1>8, <2>1, RuleAfter, Zenon
<1> HIDE DEF third
<1>10. /\ WindowInv(first.store, admitted, minuteKey, Minute, CreateLimit)
       /\ WindowInv(first.store, admitted, hourKey, Hour, HourLimit)
  BY <1>1, <1>5, <1>7, WindowPassed DEF RateInv
<1>11. admitted' = admitted \/ (third.allowed /\ admitted' = [admitted EXCEPT ![r] = 0])
  <2>1. CASE third.allowed  BY <1>3, <2>1
  <2>2. CASE ~third.allowed
    <3>1. [admitted EXCEPT ![r] = @] = admitted  BY <1>5 DEF AdmittedOK
    <3> QED BY <1>3, <2>2, <3>1
  <2> QED BY <2>1, <2>2
<1>12. WindowInv(third.store, admitted', minuteKey, Minute, CreateLimit)
  <2>1. /\ WindowInv(second.store, admitted, minuteKey, Minute, CreateLimit)
        /\ second.allowed =>
              WindowInv(second.store, [admitted EXCEPT ![r] = 0], minuteKey, Minute, CreateLimit)
    <3>1. PICK allowed \in BOOLEAN : /\ Counts(first.store, second.store, rules[2], allowed)
                                     /\ second.allowed => allowed
      BY <1>8
    <3>2. /\ rules[2].window \in 1..Hour /\ rules[2].limit \in Nat \ {0}
          /\ WindowInv(first.store, admitted, rules[2].key, rules[2].window, rules[2].limit)
      BY <1>1, <1>10, FirstThree, Zenon
    <3>3. /\ WindowInv(second.store, admitted, rules[2].key, rules[2].window, rules[2].limit)
          /\ allowed => WindowInv(second.store, [admitted EXCEPT ![r] = 0],
                                  rules[2].key, rules[2].window, rules[2].limit)
      BY <1>5, <1>7, <3>1, <3>2, WindowCounts, Zenon
    <3> QED BY <1>1, <3>1, <3>3
  <2>2. WindowInv(second.store, admitted', minuteKey, Minute, CreateLimit)
    BY <1>9, <1>11, <2>1
  <2> QED BY <1>6, <1>8, <1>9, <2>2, WindowPassed
<1>13. WindowInv(third.store, admitted', hourKey, Hour, HourLimit)
  <2>1. WindowInv(second.store, admitted, hourKey, Hour, HourLimit)
    BY <1>6, <1>7, <1>8, <1>10, WindowPassed
  <2>2. /\ WindowInv(third.store, admitted, hourKey, Hour, HourLimit)
        /\ third.allowed =>
              WindowInv(third.store, [admitted EXCEPT ![r] = 0], hourKey, Hour, HourLimit)
    <3>1. PICK allowed \in BOOLEAN : /\ Counts(second.store, third.store, rules[3], allowed)
                                     /\ third.allowed => allowed
      BY <1>9
    <3>2. /\ rules[3].window \in 1..Hour /\ rules[3].limit \in Nat \ {0}
          /\ WindowInv(second.store, admitted, rules[3].key, rules[3].window, rules[3].limit)
      BY <1>1, <2>1, FirstThree, Zenon
    <3>3. /\ WindowInv(third.store, admitted, rules[3].key, rules[3].window, rules[3].limit)
          /\ allowed => WindowInv(third.store, [admitted EXCEPT ![r] = 0],
                                  rules[3].key, rules[3].window, rules[3].limit)
      BY <1>5, <1>8, <3>1, <3>2, WindowCounts, Zenon
    <3> QED BY <1>1, <3>1, <3>3
  <2> QED BY <1>11, <2>2
<1>14. AdmittedOK(admitted')  BY <1>5, <1>11, LetPass
<1> QED BY <1>3, <1>9, <1>12, <1>13, <1>14 DEF RateInv

LEMMA ElapseRate ==
    ASSUME RateInv, TimePasses
    PROVE  RateInv'
<1>1. /\ store' = elapse(store)
      /\ admitted' = [r \in Executions |->
             IF admitted[r] \in {Never, Hour} THEN admitted[r] ELSE admitted[r] + 1]
  BY DEF TimePasses
<1>2. /\ {Minute, Hour} \subseteq 1..Hour /\ {CreateLimit, HourLimit} \subseteq Nat \ {0}
  BY RouteAssumption
<1>3. AdmittedOK(admitted')  BY <1>1, GrowOlder DEF RateInv
<1>4. StoreOK(elapse(store))  BY StoreElapses DEF RateInv
<1>5. /\ WindowInv(elapse(store), admitted', minuteKey, Minute, CreateLimit)
      /\ WindowInv(elapse(store), admitted', hourKey, Hour, HourLimit)
  BY <1>1, <1>2, WindowElapses DEF RateInv
<1> QED BY <1>1, <1>3, <1>4, <1>5 DEF RateInv

LEMMA RateInit == Init => RateInv
<1> SUFFICES ASSUME Init PROVE RateInv
  OBVIOUS
<1>1. store = <<>> /\ admitted = [r \in Executions |-> Never]  BY DEF Init, RouteInit
<1>2. \A S \in SUBSET Nat : PassedIn(admitted, S) = {}  BY <1>1 DEF PassedIn, Never
<1>3. IsFiniteSet({}) /\ Cardinality({}) = 0  BY FS_EmptySet
<1>4. StoreOK(store)
  <2>1. DOMAIN store = {}  BY <1>1
  <2> QED BY <1>3, <2>1, RateLimitAssumption DEF StoreOK
<1>5. AdmittedOK(admitted)
  <2>1. 0..Hour \in SUBSET Nat  BY RouteAssumption
  <2> QED BY <1>1, <1>2, <1>3, <2>1, Zenon DEF AdmittedOK, Ages
<1>6. \A k : ~WindowOpen(store, k)  BY <1>1 DEF WindowOpen
<1>7. ClosedInv(admitted, Minute, CreateLimit) /\ ClosedInv(admitted, Hour, HourLimit)
  <2>1. /\ 0..Minute - 1 \in SUBSET Nat /\ 0..Hour - 1 \in SUBSET Nat /\ {0} \in SUBSET Nat
        /\ 0 < CreateLimit /\ 0 < HourLimit
    BY RouteAssumption
  <2> QED BY <1>2, <1>3, <2>1, Zenon DEF ClosedInv
<1> QED BY <1>4, <1>5, <1>6, <1>7 DEF RateInv, WindowInv

-----------------------------------------------------------------------------
(* The steps of the route and of the page.                                 *)

\* What the types need beside PageType: the screen leaves idle with the first run.
RestType ==
    /\ identity \in [Executions -> Executions0] /\ cookie \in Executions0
    /\ terminated \subseteq Executions /\ writers \subseteq Executions
    /\ current = None => phase = "idle"

LEMMA RestStep == PageInv /\ PageInv' /\ RestType /\ [Next]_vars => RestType'
<1> SUFFICES ASSUME PageInv, PageInv', RestType, [Next]_vars PROVE RestType'
  OBVIOUS
<1>0. /\ current \in Executions0 /\ socketRef \in Executions0
      /\ requestRef \in {None, current} /\ socketRef \in {None, current}
      /\ None \notin Executions /\ "idle" \notin ActivePhases
  BY NoneAssumption DEF PageInv, PageType, RefsInv, ActivePhases
<1> USE DEF RestType, Executions0
<1>1. CASE Run
  <2>1. PICK r \in Executions : current' = r /\ writers' = {r}  BY <1>1, Zenon DEF Run
  <2>2. UNCHANGED <<identity, cookie, terminated>>  BY <1>1 DEF Run, service
  <2> QED BY <1>0, <2>1, <2>2
<1>2. CASE Stop
  <2>1. current \in Executions  BY <1>0, <1>2 DEF Stop
  <2>2. UNCHANGED <<identity, cookie, current>>
    BY <1>2 DEF Stop, route, updateExecutionPhase, history
  <2>3. terminated' \subseteq Executions
    BY <1>0, <1>2 DEF Stop
  <2>4. writers' \subseteq Executions
    BY <1>2, <2>1 DEF Stop, updateExecutionPhase, history
  <2> QED BY <1>0, <2>1, <2>2, <2>3, <2>4
<1>3. CASE Unmount  BY <1>3 DEF Unmount, route, service, history
<1>4. CASE Server
  <2>1. UNCHANGED <<cookie, terminated, writers, current, phase>>
    BY <1>4 DEF Server, Route, PostArrives, PostInvalid, BodyInvalid, BodyRead, UpstreamAnswers,
                refs, service, history
  <2>2. identity' \in [Executions -> Executions0]
    BY <1>4 DEF Server, Route, PostArrives, PostInvalid, BodyInvalid, BodyRead, UpstreamAnswers,
                getVisitorIdentity
  <2> QED BY <2>1, <2>2
<1>5. CASE Clock  BY <1>5 DEF Clock, TimePasses, refs, service, history
<1>6. ASSUME NEW r \in Executions,
             \/ Settle(r) \/ SocketOpens(r) \/ Ends(r) \/ Error(r) \/ Output(r)
             \/ \E ours \in BOOLEAN : Hello(r, ours)
             \/ \E p \in ReportedPhases : Phase(r, p)
      PROVE  RestType'
  <2>1. UNCHANGED <<identity, terminated, current>>
    BY <1>6 DEF Settle, Created, CreateFails, CreateAborted, rejected, SocketOpens, Ends,
                SocketCloses, onclose, Exit, Error, Output, Hello, Phase, updateExecutionPhase,
                route, service, history, browser
  <2>2. cookie' \in Executions0
    BY <1>6 DEF Settle, Created, CreateFails, CreateAborted, answered, SocketOpens, Ends,
                SocketCloses, Exit, Error, Output, Hello, Phase, route
  <2>3. writers' \subseteq writers \cup {r}
    BY <1>6 DEF Settle, Created, CreateFails, CreateAborted, rejected, SocketOpens, Ends,
                SocketCloses, onclose, Exit, Error, Output, Hello, Phase, updateExecutionPhase,
                history
  <2>4. current = None => UNCHANGED phase
    <3> SUFFICES ASSUME current = None PROVE UNCHANGED phase
      OBVIOUS
    <3>1. requestRef # r /\ socketRef # r  BY <1>0
    <3> QED BY <1>6, <3>1
            DEF Settle, Created, CreateFails, CreateAborted, rejected, SocketOpens, Ends,
                SocketCloses, onclose, Exit, Error, Output, Hello, Phase, receiving, refs
  <2> QED BY <2>1, <2>2, <2>3, <2>4
<1>7. CASE UNCHANGED vars  BY <1>7 DEF vars, route, refs, service, history
<1> QED BY <1>1, <1>2, <1>3, <1>4, <1>5, <1>6, <1>7 DEF Next, User

LEMMA RateStep == RestType /\ RateInv /\ [Next]_vars => RateInv'
<1> SUFFICES ASSUME RestType, RateInv, [Next]_vars PROVE RateInv'
  OBVIOUS
<1>1. CASE Server
  <2>1. PICK r \in Executions :
           \/ \E sweep \in BOOLEAN : PostArrives(r, sweep)
           \/ PostInvalid(r)
           \/ BodyInvalid(r)
           \/ \E sweep \in BOOLEAN : BodyRead(r, sweep)
           \/ \E heard \in BOOLEAN : UpstreamAnswers(r, heard)
    BY <1>1 DEF Server, Route
  <2>2. CASE \E sweep \in BOOLEAN : PostArrives(r, sweep)  BY <2>2, ArrivesRate
  <2>3. CASE \E sweep \in BOOLEAN : BodyRead(r, sweep)
    <3>1. identity[r] \in Executions \cup {None}  BY DEF RestType, Executions0
    <3> QED BY <2>3, <3>1, ReadRate
  <2>4. CASE PostInvalid(r) \/ BodyInvalid(r) \/ \E heard \in BOOLEAN : UpstreamAnswers(r, heard)
    BY <2>4 DEF PostInvalid, BodyInvalid, UpstreamAnswers, RateInv
  <2> QED BY <2>1, <2>2, <2>3, <2>4
<1>2. CASE Clock  BY <1>2, ElapseRate DEF Clock
<1>3. ASSUME UNCHANGED <<store, admitted>> PROVE RateInv'
  BY <1>3 DEF RateInv
<1>4. CASE User  BY <1>3, <1>4 DEF User, Run, Stop, Unmount, route
<1>5. ASSUME NEW r \in Executions,
             \/ Settle(r) \/ SocketOpens(r) \/ Ends(r) \/ Error(r) \/ Output(r)
             \/ \E ours \in BOOLEAN : Hello(r, ours)
             \/ \E p \in ReportedPhases : Phase(r, p)
      PROVE  RateInv'
  <2>1. UNCHANGED <<store, admitted>>
    BY <1>5 DEF Settle, Created, CreateFails, CreateAborted, SocketOpens, Ends, SocketCloses,
                Exit, Error, Output, Hello, Phase, route
  <2> QED BY <1>3, <2>1
<1>6. CASE UNCHANGED vars  BY <1>3, <1>6 DEF vars, route
<1> QED BY <1>1, <1>2, <1>4, <1>5, <1>6 DEF Next

LEMMA RateInvariant == Spec => [](PageInv /\ RestType /\ RateInv)
<1>1. Init => RestType
  BY DEF Init, RouteInit, RestType, Executions0
<1> QED BY <1>1, RestStep, RateInit, RateStep, PageInit, PageNext, PTL DEF Spec

\* However requests, refusals and the sweeps of a full store interleave, in any minute fewer
\* than twice CreateLimit executions are let pass for an address, and in any hour fewer than
\* twice HourLimit: a window's first request is at its very beginning.
THEOREM CreationRateKept == Spec => []CreationRate
<1>1. ASSUME NEW W \in 1..Hour, NEW L \in Nat \ {0}, NEW k, StoreOK(store),
             AdmittedOK(admitted), WindowInv(store, admitted, k, W, L)
      PROVE  Cardinality(PassedIn(admitted, 0..W - 1)) < 2 * L
  <2>0. W \in Nat /\ 0..W - 1 \in SUBSET Nat  BY RouteAssumption
  <2>1. CASE WindowOpen(store, k)
    <3> DEFINE s == W - store[k].left
               a == PassedIn(admitted, 0..s)  c == PassedIn(admitted, s + 1..W - 1)
    <3>1. store[k] \in Entries /\ OpenInv(store[k], admitted, W, L)
      BY <1>1, <2>1 DEF WindowOpen, WindowInv, StoreOK
    <3>b. Hour \in Nat  BY RouteAssumption
    <3>c. store[k].left \in 0..Hour  BY <3>1 DEF Entries
    <3>d. store[k].left <= W  BY <3>1, Zenon DEF OpenInv
    <3>0. store[k].left \in Nat /\ store[k].left <= W  BY <3>b, <3>c, <3>d
    <3>a. s \in 0..W  BY <2>0, <3>0
    <3>2. s \in 0..W /\ Cardinality(a) <= L /\ Cardinality(c) < L
      BY <3>1, <3>a, Zenon DEF OpenInv
    <3>3. PassedIn(admitted, 0..W - 1) \subseteq a \cup c
      <4>1. \A x \in 0..W - 1 : x \in 0..s \/ x \in s + 1..W - 1  BY <2>0, <3>a
      <4> HIDE DEF s
      <4> QED BY <4>1, Zenon DEF PassedIn
    <3>4. 0..s \in SUBSET Nat /\ s + 1..W - 1 \in SUBSET Nat
      <4>1. \A t \in 0..W : 0..t \in SUBSET Nat /\ t + 1..W - 1 \in SUBSET Nat  BY <2>0
      <4> HIDE DEF s
      <4> QED BY <3>a, <4>1, Zenon
    <3>5. /\ IsFiniteSet(a) /\ IsFiniteSet(c) /\ Cardinality(a) \in Nat /\ Cardinality(c) \in Nat
      BY <1>1, <3>4, PassedFinite, Zenon
    <3> HIDE DEF s, a, c
    <3>6. /\ Cardinality(PassedIn(admitted, 0..W - 1)) \in Nat
          /\ Cardinality(PassedIn(admitted, 0..W - 1)) <= Cardinality(a) + Cardinality(c)
      BY <3>3, <3>5, TwoParts
    <3> QED BY <3>2, <3>5, <3>6
  <2>2. CASE ~WindowOpen(store, k)
    <3>1. Cardinality(PassedIn(admitted, 0..W - 1)) \in Nat  BY <1>1, <2>0, PassedFinite
    <3> QED BY <1>1, <2>2, <3>1 DEF WindowInv, ClosedInv
  <2> QED BY <2>1, <2>2
<1>2. RateInv => CreationRate
  <2> SUFFICES ASSUME RateInv PROVE CreationRate
    OBVIOUS
  <2> DEFINE within(t) == {r \in Executions : admitted[r] # Never /\ admitted[r] < t}
  <2>1. ASSUME NEW t \in 1..Hour PROVE within(t) = PassedIn(admitted, 0..t - 1)
    <3>1. Hour \in Nat /\ admitted \in [Executions -> Ages]
      BY RouteAssumption DEF RateInv, AdmittedOK
    <3>2. \A r \in Executions :
             (admitted[r] # Never /\ admitted[r] < t) <=> admitted[r] \in 0..t - 1
      BY <3>1 DEF Ages, Never
    <3> QED BY <3>2 DEF PassedIn
  <2>2. Minute \in 1..Hour /\ Hour \in 1..Hour /\ {CreateLimit, HourLimit} \subseteq Nat \ {0}
    BY RouteAssumption
  <2>3. /\ Cardinality(PassedIn(admitted, 0..Minute - 1)) < 2 * CreateLimit
        /\ Cardinality(PassedIn(admitted, 0..Hour - 1)) < 2 * HourLimit
    BY <1>1, <2>2 DEF RateInv
  <2>4. within(Minute) = PassedIn(admitted, 0..Minute - 1)
        /\ within(Hour) = PassedIn(admitted, 0..Hour - 1)
    BY <2>1, <2>2
  <2> QED BY <2>3, <2>4, Zenon DEF CreationRate
<1> QED BY <1>2, RateInvariant, PTL

\* The types of the route's, the component's and the service's state; the limiter's store
\* never holds more than MAX_RATE_LIMIT_ENTRIES.
THEOREM TypeCorrect == Spec => []TypeOK
<1>1. PageInv /\ RestType /\ RateInv => TypeOK
  <2> SUFFICES ASSUME PageInv, RestType, RateInv PROVE TypeOK
    OBVIOUS
  <2>1. RouteTypeOK
    <3>1. /\ Cardinality(DOMAIN store) <= MaxRateLimitEntries
          /\ \A k \in DOMAIN store : store[k].count \in Nat /\ store[k].left \in 0..Hour
      BY DEF RateInv, StoreOK, Entries
    <3> QED BY <3>1 DEF RouteTypeOK, PageInv, PageType, RestType, Executions0, RateInv, AdmittedOK,
                       Ages
  <2> QED BY <2>1 DEF TypeOK, PageInv, PageType, RestType, Executions0
<1> QED BY <1>1, RateInvariant, PTL

=============================================================================
