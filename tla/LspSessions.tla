---------------------------- MODULE LspSessions ----------------------------
(***************************************************************************)
(* The LSP service: the sessions of apps/lsp/src/session-manager.ts, the   *)
(* HTTP request that creates one (app.ts), the WebSocket upgrade that      *)
(* claims it (websocket.ts), the readiness probe (health.ts) and the       *)
(* shutdown of the process (index.ts).                                     *)
(*                                                                         *)
(* The service is one JavaScript event loop, so an action is what runs     *)
(* between two awaits, or one callback. What the loop waits for (a file    *)
(* operation, a timer, a child process, a socket) is an action of its own. *)
(* Time passes in ticks: a timer holds the ticks that are left, fires at   *)
(* 0, and no tick passes over one that is due.                             *)
(***************************************************************************)
EXTENDS Integers, FiniteSets

CONSTANTS
    Sessions,               \* the session ids randomUUID will return
    Visitors,
    Ips,
    VisitorOf,              \* the visitorId and the clientIp of the request that
    IpOf,                   \* creates a session
    MaxSessions,
    MaxSessionsPerVisitor,
    MaxSessionsPerIp,
    TicketTtl,              \* the three deadlines of a session, in ticks
    IdleTtl,
    AbsoluteTtl

ASSUME LspLimitsAssumption ==
    /\ IsFiniteSet(Sessions)
    /\ VisitorOf \in [Sessions -> Visitors]
    /\ IpOf \in [Sessions -> Ips]
    /\ MaxSessions \in Nat \ {0}
    /\ MaxSessionsPerVisitor \in Nat \ {0}
    /\ MaxSessionsPerIp \in Nat \ {0}

ASSUME LspDeadlinesAssumption ==
    /\ TicketTtl \in Nat \ {0}
    /\ IdleTtl \in Nat \ {0}
    /\ AbsoluteTtl \in Nat \ {0}

VARIABLES
    request,          \* where the POST that creates a session stands
    session,          \* #sessions, with what each session owns
    pendingCount,     \* the reservations of #reserve
    pendingVisitors,
    pendingIps,
    shutdown,         \* the steps of index.ts' shutdown; "serving" before it
    awaited,          \* the sessions whose cleanup manager.shutdown awaits
    health            \* #ready and #checking of the probe

vars == <<request, session, pendingCount, pendingVisitors, pendingIps,
          shutdown, awaited, health>>

pending == <<pendingCount, pendingVisitors, pendingIps>>

\* A timer that was cleared.
Off == -1

-----------------------------------------------------------------------------
(* A session: its SessionState ("absent" before it enters the map), its    *)
(* timers, its socket, its clangd, the cleanup that runs for it, and       *)
(* whether its workspace exists. A session is in the map #sessions exactly *)
(* while it is waiting, authorized or connected.                           *)

Absent == [state |-> "absent", ticket |-> Off, idle |-> Off, absolute |-> Off,
           socket |-> "none", clangd |-> "none", cleanup |-> "none",
           workspace |-> FALSE]

InMap(r) == r.state \in {"waiting", "authorized", "connected"}

Active == {s \in Sessions : InMap(session[s])}

\* createSession between #reserve and #release.
Creating == {s \in Sessions : request[s] \in {"mkdir", "write", "rm"}}

shuttingDown == shutdown # "serving"

\* #createManagedSession: a waiting session with its three timers armed.
createManagedSession(r) ==
    [r EXCEPT !.state = "waiting", !.ticket = TicketTtl, !.idle = IdleTtl,
              !.absolute = AbsoluteTtl]

\* Mutant of performCleanup: the workspace is removed under a running clangd.
cleanupWithoutStop(r) ==
    [r EXCEPT !.state = "disposing", !.ticket = Off, !.idle = Off, !.absolute = Off,
              !.socket = IF @ = "open" THEN "closing" ELSE @,
              !.cleanup = "rm"]

\* #performCleanup up to its first await, with the start of stopChildProcess:
\* the session leaves the map, its timers are cleared, its socket is closed and
\* a clangd that is still running is sent SIGTERM.
performCleanup(r) ==
    [r EXCEPT !.state = "disposing", !.ticket = Off, !.idle = Off, !.absolute = Off,
              !.socket = IF @ = "open" THEN "closing" ELSE @,
              !.cleanup = IF r.clangd = "running" THEN "term" ELSE "rm"]

\* closeSession: a session that is not in the map, or is being cleaned up, is
\* left alone.
closeSession(r) == IF InMap(r) THEN performCleanup(r) ELSE r

\* Mutant of authorizeWebSocket: the idle timer is cleared with the ticket's.
authorizeWithoutIdle(r) ==
    [r EXCEPT !.state = "authorized", !.ticket = Off, !.idle = Off]

\* The end of authorizeWebSocket: the ticket is consumed.
authorizeWebSocket(r) ==
    [r EXCEPT !.state = "authorized", !.ticket = Off, !.idle = IdleTtl]

\* attachWebSocket: clangd is started and connected to the socket. A spawn that
\* fails reports its error event before anything else runs; without stdio
\* streams the session is closed at once.
attachWebSocket(r, spawned) ==
    LET connected == [r EXCEPT !.state = "connected", !.socket = "open",
                               !.idle = IdleTtl,
                               !.clangd = IF spawned = "error" THEN "exited" ELSE "running"]
    IN  IF spawned = "started" THEN connected ELSE closeSession(connected)

-----------------------------------------------------------------------------
(* POST /internal/sessions.                                                *)

\* The checks before the body is read: the readiness of clangd and of the
\* manager. A request that fails them is answered and changes nothing.
PostSession(s) ==
    /\ request[s] = "none"
    /\ health.ready
    /\ ~shuttingDown
    /\ request' = [request EXCEPT ![s] = "body"]
    /\ UNCHANGED <<session, pending, shutdown, awaited, health>>

\* The sessions and the reservations of one visitor and of one address.
countByVisitor(v) == Cardinality({t \in Active : VisitorOf[t] = v})
countByIp(i) == Cardinality({t \in Active : IpOf[t] = i})

\* Mutant of limited: one more for each visitor.
limitedBeyond(s) ==
    \/ shuttingDown
    \/ Cardinality(Active) + pendingCount >= MaxSessions
    \/ countByVisitor(VisitorOf[s]) + pendingVisitors[VisitorOf[s]] > MaxSessionsPerVisitor
    \/ countByIp(IpOf[s]) + pendingIps[IpOf[s]] >= MaxSessionsPerIp

\* #reserve refuses: 503 at the overall limit and at shutdown, 429 at the two
\* others.
limited(s) ==
    \/ shuttingDown
    \/ Cardinality(Active) + pendingCount >= MaxSessions
    \/ countByVisitor(VisitorOf[s]) + pendingVisitors[VisitorOf[s]] >= MaxSessionsPerVisitor
    \/ countByIp(IpOf[s]) + pendingIps[IpOf[s]] >= MaxSessionsPerIp

\* The body turns out not to be a session request, or createSession's #reserve
\* throws.
RefuseSession(s) ==
    /\ request[s] = "body"
    /\ request' = [request EXCEPT ![s] = "answered"]
    /\ UNCHANGED <<session, pending, shutdown, awaited, health>>

\* createSession up to its first await: the place is reserved before the
\* workspace is made.
ReserveSession(s) ==
    /\ request[s] = "body"
    /\ ~limited(s)
    /\ request' = [request EXCEPT ![s] = "mkdir"]
    /\ pendingCount' = pendingCount + 1
    /\ pendingVisitors' = [pendingVisitors EXCEPT ![VisitorOf[s]] = @ + 1]
    /\ pendingIps' = [pendingIps EXCEPT ![IpOf[s]] = @ + 1]
    /\ UNCHANGED <<session, shutdown, awaited, health>>

\* mkdir has made the workspace; the files are being written.
WorkspaceMade(s) ==
    /\ request[s] = "mkdir"
    /\ request' = [request EXCEPT ![s] = "write"]
    /\ session' = [session EXCEPT ![s].workspace = TRUE]
    /\ UNCHANGED <<pending, shutdown, awaited, health>>

\* Mutant of release: the address is counted down twice.
releaseTwice(s) ==
    /\ pendingCount' = pendingCount - 1
    /\ pendingVisitors' = [pendingVisitors EXCEPT ![VisitorOf[s]] = @ - 1]
    /\ pendingIps' = [pendingIps EXCEPT ![IpOf[s]] = @ - 2]

\* #release, in the finally of createSession.
release(s) ==
    /\ pendingCount' = pendingCount - 1
    /\ pendingVisitors' = [pendingVisitors EXCEPT ![VisitorOf[s]] = @ - 1]
    /\ pendingIps' = [pendingIps EXCEPT ![IpOf[s]] = @ - 1]

\* The files are written: the session enters the map and gives its reservation
\* back in the same step.
SessionCreated(s) ==
    /\ request[s] = "write"
    /\ request' = [request EXCEPT ![s] = "answered"]
    /\ session' = [session EXCEPT ![s] = createManagedSession(@)]
    /\ release(s)
    /\ UNCHANGED <<shutdown, awaited, health>>

\* mkdir or a writeFile rejects: the catch removes what was made.
CreateFails(s) ==
    /\ request[s] \in {"mkdir", "write"}
    /\ request' = [request EXCEPT ![s] = "rm"]
    /\ UNCHANGED <<session, pending, shutdown, awaited, health>>

\* The rm of the catch has ended; the reservation is given back and the
\* request answered with 500.
CreateAbandoned(s) ==
    /\ request[s] = "rm"
    /\ request' = [request EXCEPT ![s] = "answered"]
    /\ session' = [session EXCEPT ![s].workspace = FALSE]
    /\ release(s)
    /\ UNCHANGED <<shutdown, awaited, health>>

-----------------------------------------------------------------------------
(* The WebSocket upgrade.                                                  *)

\* verify of the ticket service, on the ticket that issue made for this session: it is
\* good until its time has run out.
verify(r) == r.ticket > 0

\* The checks of authorizeWebSocket: a request that fails one is refused with 401,
\* 404, 409 or 410 and changes nothing. The ticket is good for a session that waits.
ticketAccepted(r) == r.state = "waiting" /\ verify(r)

\* An upgrade with a valid handshake and the session's ticket. verifyClient, the
\* upgrade and the attachment run in one go; the upgrade stops half way when the
\* connection is already gone or the WebSocket server is closing.
Upgrade(s, completed, spawned) ==
    /\ shutdown \notin {"http", "stopped", "exited"}
    /\ ticketAccepted(session[s])
    /\ completed => shutdown \in {"serving", "sessions"}
    /\ session' = [session EXCEPT ![s] =
           IF completed
           THEN attachWebSocket(authorizeWebSocket(@), spawned)
           ELSE [authorizeWebSocket(@) EXCEPT !.socket = "aborted"]]
    /\ UNCHANGED <<request, pending, shutdown, awaited, health>>

\* wsClientError: a malformed handshake that carries the session's unused ticket
\* discards the session.
discardSessionAfterInvalidHandshake(s) ==
    /\ shutdown \notin {"http", "stopped", "exited"}
    /\ ticketAccepted(session[s])
    /\ session' = [session EXCEPT ![s] = closeSession(@)]
    /\ UNCHANGED <<request, pending, shutdown, awaited, health>>

\* The close event of the socket: of a session's WebSocket, or of a connection
\* whose authorization is still pending.
SocketClosed(s) ==
    /\ session[s].socket \in {"open", "closing", "aborted"}
    /\ session' = [session EXCEPT ![s] = closeSession([@ EXCEPT !.socket = "closed"])]
    /\ UNCHANGED <<request, pending, shutdown, awaited, health>>

\* The error event of the socket, and a violation the adapter reports: the
\* session is closed while the socket still is open.
SessionFails(s) ==
    /\ session[s].socket = "open"
    /\ session[s].state = "connected"
    /\ session' = [session EXCEPT ![s] = closeSession(@)]
    /\ UNCHANGED <<request, pending, shutdown, awaited, health>>

\* Mutant of touchSession: a message prolongs the absolute deadline too.
touchDeadlines(s) ==
    /\ session[s].socket = "open"
    /\ session[s].state = "connected"
    /\ session' = [session EXCEPT ![s].idle = IdleTtl, ![s].absolute = AbsoluteTtl]
    /\ UNCHANGED <<request, pending, shutdown, awaited, health>>

\* #touchSession, called for every message in either direction.
touchSession(s) ==
    /\ session[s].socket = "open"
    /\ session[s].state = "connected"
    /\ session' = [session EXCEPT ![s].idle = IdleTtl]
    /\ UNCHANGED <<request, pending, shutdown, awaited, health>>

-----------------------------------------------------------------------------
(* The child process and the cleanup.                                      *)

\* stopChildProcess waits no longer for a clangd that has exited.
waitEnded(r) ==
    [r EXCEPT !.clangd = "exited",
              !.cleanup = IF r.cleanup \in {"term", "kill"} THEN "rm" ELSE r.cleanup]

\* clangd exits by itself or by a signal: an exit event closes the session, and
\* ends the wait of stopChildProcess.
ClangdExits(s) ==
    /\ session[s].clangd \in {"running", "killed"}
    /\ session' = [session EXCEPT ![s] = closeSession(waitEnded(@))]
    /\ UNCHANGED <<request, pending, shutdown, awaited, health>>

\* Mutant of GraceElapsed: no SIGKILL for a clangd that ignores SIGTERM.
GraceWithoutKill(s) ==
    /\ session[s].cleanup \in {"term", "kill"}
    /\ session' = [session EXCEPT ![s].cleanup = IF @ = "term" THEN "kill" ELSE "rm"]
    /\ UNCHANGED <<request, pending, shutdown, awaited, health>>

\* PROCESS_SHUTDOWN_GRACE_MS has passed after SIGTERM, and again after SIGKILL.
GraceElapsed(s) ==
    /\ session[s].cleanup \in {"term", "kill"}
    /\ session' = [session EXCEPT ![s] =
           IF @.cleanup = "term"
           THEN [@ EXCEPT !.clangd = "killed", !.cleanup = "kill"]
           ELSE [@ EXCEPT !.cleanup = "rm"]]
    /\ UNCHANGED <<request, pending, shutdown, awaited, health>>

\* The rm at the end of #performCleanup.
WorkspaceRemoved(s) ==
    /\ session[s].cleanup = "rm"
    /\ session' = [session EXCEPT ![s].cleanup = "done", ![s].workspace = FALSE]
    /\ UNCHANGED <<request, pending, shutdown, awaited, health>>

-----------------------------------------------------------------------------
(* Timers, the probe and the shutdown.                                     *)

\* A timer of the session is due.
due(r) == 0 \in {r.ticket, r.idle, r.absolute}

elapse(timer) == IF timer = Off THEN Off ELSE timer - 1

\* One tick passes, for every timer that is armed.
Tick ==
    /\ shutdown # "exited"
    /\ \A s \in Sessions : ~due(session[s])
    /\ session' = [s \in Sessions |-> [session[s] EXCEPT
           !.ticket = elapse(@), !.idle = elapse(@), !.absolute = elapse(@)]]
    /\ UNCHANGED <<request, pending, shutdown, awaited, health>>

\* A timer of #scheduleClose fires.
TimerFires(s) ==
    /\ shutdown # "exited"
    /\ due(session[s])
    /\ session' = [session EXCEPT ![s] = closeSession(@)]
    /\ UNCHANGED <<request, pending, shutdown, awaited, health>>

\* check() of the probe: the interval starts one unless one is under way; stop()
\* clears the interval and lets a running check end.
ProbeStarts ==
    /\ ~shuttingDown
    /\ ~health.checking
    /\ health' = [health EXCEPT !.checking = TRUE]
    /\ UNCHANGED <<request, session, pending, shutdown, awaited>>

\* clangd --version has exited, failed to start or been killed by the timeout.
ProbeEnds(ready) ==
    /\ shutdown # "exited"
    /\ health.checking
    /\ health' = [ready |-> ready, checking |-> FALSE]
    /\ UNCHANGED <<request, session, pending, shutdown, awaited>>

\* SIGTERM or SIGINT: the first one stops the probe and closes every session in
\* the map, whose cleanups manager.shutdown awaits.
Shutdown ==
    /\ shutdown = "serving"
    /\ shutdown' = "sessions"
    /\ awaited' = Active
    /\ session' = [s \in Sessions |-> closeSession(session[s])]
    /\ UNCHANGED <<request, pending, health>>

\* The later steps: the WebSocket server closes once its sockets are closed, the
\* HTTP server once its requests are answered and its connections gone.
ShutdownContinues ==
    /\ \/ /\ shutdown = "sessions"
          /\ \A s \in awaited : session[s].cleanup = "done"
          /\ shutdown' = "websockets"
       \/ /\ shutdown = "websockets"
          /\ \A s \in Sessions : session[s].socket \notin {"open", "closing"}
          /\ shutdown' = "http"
       \/ /\ shutdown = "http"
          /\ \A s \in Sessions : /\ request[s] \in {"none", "answered"}
                                 /\ session[s].socket # "aborted"
          /\ shutdown' = "stopped"
    /\ UNCHANGED <<request, session, pending, awaited, health>>

\* Nothing keeps the event loop alive any more: the timers of #scheduleClose are
\* unref'ed, child processes and file operations are not.
ProcessExits ==
    /\ shutdown = "stopped"
    /\ \A s \in Sessions : /\ session[s].clangd \notin {"running", "killed"}
                           /\ session[s].cleanup \in {"none", "done"}
    /\ ~health.checking
    /\ shutdown' = "exited"
    /\ UNCHANGED <<request, session, pending, awaited, health>>

-----------------------------------------------------------------------------
Init ==
    /\ request = [s \in Sessions |-> "none"]
    /\ session = [s \in Sessions |-> Absent]
    /\ pendingCount = 0
    /\ pendingVisitors = [v \in Visitors |-> 0]
    /\ pendingIps = [i \in Ips |-> 0]
    /\ shutdown = "serving"
    /\ awaited = {}
    /\ health = [ready |-> TRUE, checking |-> FALSE]

\* The steps the file system, the child processes and the timers owe a session.
Internal(s) ==
    \/ WorkspaceMade(s)
    \/ SessionCreated(s)
    \/ CreateFails(s)
    \/ CreateAbandoned(s)
    \/ GraceElapsed(s)
    \/ WorkspaceRemoved(s)
    \/ TimerFires(s)

External(s) ==
    \/ PostSession(s)
    \/ RefuseSession(s)
    \/ ReserveSession(s)
    \/ \E completed \in BOOLEAN, spawned \in {"started", "error", "no_streams"} :
           Upgrade(s, completed, spawned)
    \/ discardSessionAfterInvalidHandshake(s)
    \/ SocketClosed(s)
    \/ SessionFails(s)
    \/ touchSession(s)
    \/ ClangdExits(s)

Next ==
    \/ \E s \in Sessions : Internal(s) \/ External(s)
    \/ Tick
    \/ ProbeStarts
    \/ \E ready \in BOOLEAN : ProbeEnds(ready)
    \/ Shutdown
    \/ ShutdownContinues
    \/ ProcessExits

Spec == Init /\ [][Next]_vars

\* Timers fire, promises settle, time passes, and a process that was sent SIGKILL
\* ends. Nothing is assumed of clients, of upgrades, or of a clangd that was
\* asked politely.
Fairness ==
    /\ WF_vars(Tick)
    /\ \A s \in Sessions :
           /\ WF_vars(Internal(s))
           /\ WF_vars(session[s].clangd = "killed" /\ ClangdExits(s))

FairSpec == Spec /\ Fairness

-----------------------------------------------------------------------------
(* Properties.                                                             *)

Timer(ttl) == {Off} \cup 0..ttl

\* The type of the state; no reservation is given back that was not made.
TypeOK ==
    /\ request \in [Sessions -> {"none", "body", "mkdir", "write", "rm", "answered"}]
    /\ session \in [Sessions ->
           [state : {"absent", "waiting", "authorized", "connected", "disposing"},
            ticket : Timer(TicketTtl), idle : Timer(IdleTtl), absolute : Timer(AbsoluteTtl),
            socket : {"none", "aborted", "open", "closing", "closed"},
            clangd : {"none", "running", "killed", "exited"},
            cleanup : {"none", "term", "kill", "rm", "done"},
            workspace : BOOLEAN]]
    /\ pendingCount \in Nat
    /\ pendingVisitors \in [Visitors -> Nat]
    /\ pendingIps \in [Ips -> Nat]
    /\ shutdown \in {"serving", "sessions", "websockets", "http", "stopped", "exited"}
    /\ awaited \subseteq Sessions
    /\ health \in [ready : BOOLEAN, checking : BOOLEAN]

\* The limits of #reserve hold over the sessions in the map and the sessions that
\* are still being created, although a creation awaits file operations between
\* the check and its entry in the map: overall, per visitor and per address.
SessionLimits ==
    LET held == Active \cup Creating
    IN  /\ Cardinality(held) <= MaxSessions
        /\ \A v \in Visitors :
               Cardinality({s \in held : VisitorOf[s] = v}) <= MaxSessionsPerVisitor
        /\ \A i \in Ips : Cardinality({s \in held : IpOf[s] = i}) <= MaxSessionsPerIp

\* The place of a session in the pool its limits guard, by the request that creates
\* it and by its record, and those limits.
PlaceOf(q, r) ==
    IF q \in {"none", "body"} THEN "free"
    ELSE IF q \in {"mkdir", "write", "rm"} THEN "taken"
    ELSE IF InMap(r) THEN "used" ELSE "given_back"

place == [s \in Sessions |-> PlaceOf(request[s], session[s])]

Limits ==
    {[members |-> Sessions, max |-> MaxSessions]}
    \cup {[members |-> {s \in Sessions : VisitorOf[s] = v}, max |-> MaxSessionsPerVisitor] :
             v \in Visitors}
    \cup {[members |-> {s \in Sessions : IpOf[s] = i}, max |-> MaxSessionsPerIp] : i \in Ips}

Pool == INSTANCE SessionPool WITH Items <- Sessions, Limits <- Limits, place <- place

\* createSession, the upgrade, the deadlines and the shutdown implement the pool: a
\* place is taken under all three limits before the first await, goes over to the
\* session without ever being free in between, and is given back once.
ImplementsPool == Pool!PoolSpec

\* Nothing a session made is left without an owner. A clangd runs only for a
\* connected session or under a cleanup that is stopping it, and outlives the
\* cleanup only once it was sent SIGKILL; a workspace exists only for a creation,
\* for a session in the map or under a cleanup that will remove it. Of the sessions the
\* shutdown awaited, nothing is left when the process ends.
ResourcesOwned ==
    \A s \in Sessions :
        LET r == session[s]
        IN  /\ s \in awaited /\ shutdown = "exited" => ~r.workspace /\ r.clangd \in {"none", "exited"}
            /\ r.clangd = "running" => r.state = "connected" \/ r.cleanup = "term"
            /\ r.workspace => \/ request[s] \in {"write", "rm"}
                              \/ InMap(r)
                              \/ r.cleanup \in {"term", "kill", "rm"}
            /\ r.state = "disposing" <=> r.cleanup # "none"

\* No session stays without something that ends it. Every session in the map has
\* its absolute deadline; one that waits has its ticket's; one that was authorized
\* and not attached has a socket whose close event is still to come; a connected
\* one has its idle deadline.
DeadlineArmed ==
    \A s \in Active :
        LET r == session[s]
        IN  /\ r.absolute # Off /\ r.idle # Off
            /\ r.state = "waiting" => r.ticket # Off
            /\ r.state = "authorized" => r.socket = "aborted"

\* The order of the SessionStates.
Rank == [absent |-> 0, waiting |-> 1, authorized |-> 2, connected |-> 3, disposing |-> 4]

\* A ticket opens one connection in the life of a session and no activity
\* prolongs that life: a session never returns to an earlier state, clangd is
\* started once, when the ticket is consumed, and the absolute deadline only
\* comes nearer.
LifetimeBounded ==
    [][\A s \in Sessions :
           LET r == session[s]
               n == session'[s]
           IN  /\ Rank[n.state] >= Rank[r.state]
               /\ InMap(r) /\ InMap(n) => n.absolute <= r.absolute
               /\ n.clangd = "running" /\ r.clangd # "running"
                     => r.state = "waiting" /\ r.ticket > 0 /\ r.clangd = "none"]_vars

\* Disconnection, the idle deadline and the absolute deadline all end in the
\* removal of clangd and of the workspace, whatever clangd does with SIGTERM and
\* however the creation ends; only the exit of the process comes before it.
EventuallyRemoved ==
    \A s \in Sessions :
        session[s].workspace \/ session[s].clangd = "running"
        ~> \/ ~session[s].workspace /\ session[s].clangd \in {"none", "exited"}
           \/ shutdown = "exited"

=============================================================================
