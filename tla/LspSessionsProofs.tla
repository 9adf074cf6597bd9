------------------------- MODULE LspSessionsProofs -------------------------
(* Proofs about the sessions of the LSP service, for any number of sessions,  *)
(* visitors and addresses, any limits and any deadlines: what a session owns, *)
(* the limits, and that the service implements a pool of places.              *)
EXTENDS LspSessions, FiniteSetTheorems, TLAPS

-----------------------------------------------------------------------------
(* One session.                                                            *)

Requests == {"none", "body", "mkdir", "write", "rm", "answered"}

SessionRecord ==
    [state : {"absent", "waiting", "authorized", "connected", "disposing"},
     ticket : Timer(TicketTtl), idle : Timer(IdleTtl), absolute : Timer(AbsoluteTtl),
     socket : {"none", "aborted", "open", "closing", "closed"},
     clangd : {"none", "running", "killed", "exited"},
     cleanup : {"none", "term", "kill", "rm", "done"},
     workspace : BOOLEAN]

\* What a session owns in each of its states, and what will end it, by the state q of
\* the request that creates it and its own record r.
RecordInv(q, r) ==
    /\ r \in SessionRecord
    /\ q # "answered" => r.state = "absent"
    /\ r.state \in {"absent", "waiting"} => r.socket = "none" /\ r.clangd = "none"
    /\ r.state = "disposing" <=> r.cleanup # "none"
    /\ r.clangd = "running" => r.state = "connected" \/ r.cleanup = "term"
    /\ r.workspace => \/ q \in {"write", "rm"}
                      \/ InMap(r)
                      \/ r.cleanup \in {"term", "kill", "rm"}
    /\ InMap(r) => r.absolute # Off /\ r.idle # Off
    /\ r.state = "waiting" => r.ticket # Off
    /\ r.state = "authorized" => r.socket = "aborted"

\* The deadlines are positive, so an armed timer differs from a cleared one.
LEMMA Timers ==
    /\ TicketTtl \in Timer(TicketTtl) /\ IdleTtl \in Timer(IdleTtl)
    /\ AbsoluteTtl \in Timer(AbsoluteTtl)
    /\ TicketTtl # Off /\ IdleTtl # Off /\ AbsoluteTtl # Off
    /\ Off \in Timer(TicketTtl) /\ Off \in Timer(IdleTtl) /\ Off \in Timer(AbsoluteTtl)
  BY LspDeadlinesAssumption DEF Timer, Off

\* #performCleanup leaves a session of the map with everything it owns under the
\* cleanup.
LEMMA CleanupRecord ==
    ASSUME NEW q, NEW r, RecordInv(q, r), InMap(r)
    PROVE  /\ RecordInv(q, performCleanup(r))
           /\ performCleanup(r).state = "disposing"
           /\ performCleanup(r).clangd = r.clangd
           /\ ~InMap(performCleanup(r))
  BY Timers DEF RecordInv, SessionRecord, InMap, performCleanup

LEMMA CloseRecord ==
    ASSUME NEW q, NEW r, RecordInv(q, r)
    PROVE  /\ RecordInv(q, closeSession(r))
           /\ ~InMap(closeSession(r))
           /\ closeSession(r).clangd = r.clangd
           /\ InMap(r) => closeSession(r).state = "disposing"
           /\ ~InMap(r) => closeSession(r) = r
  BY CleanupRecord DEF closeSession

\* A creation that has ended with its files written.
LEMMA CreatedRecord ==
    ASSUME NEW r, RecordInv("write", r)
    PROVE  /\ RecordInv("answered", createManagedSession(r))
           /\ createManagedSession(r).state = "waiting"
           /\ createManagedSession(r).clangd = "none"
  BY Timers DEF RecordInv, SessionRecord, InMap, createManagedSession

\* Both ways an upgrade may end.
LEMMA UpgradeRecord ==
    ASSUME NEW q, NEW r, RecordInv(q, r), r.state = "waiting", NEW spawned
    PROVE  LET a == [authorizeWebSocket(r) EXCEPT !.socket = "aborted"]
               n == attachWebSocket(authorizeWebSocket(r), spawned)
           IN  /\ RecordInv(q, a) /\ a.state = "authorized"
               /\ a.absolute = r.absolute /\ a.clangd = "none"
               /\ RecordInv(q, n) /\ n.state \in {"connected", "disposing"}
               /\ InMap(n) => n.absolute = r.absolute
<1> DEFINE a == [authorizeWebSocket(r) EXCEPT !.socket = "aborted"]
           c == [authorizeWebSocket(r) EXCEPT
                    !.state = "connected", !.socket = "open", !.idle = IdleTtl,
                    !.clangd = IF spawned = "error" THEN "exited" ELSE "running"]
           n == attachWebSocket(authorizeWebSocket(r), spawned)
<1>1. /\ RecordInv(q, a) /\ a.state = "authorized"
      /\ a.absolute = r.absolute /\ a.clangd = "none"
  BY Timers DEF RecordInv, SessionRecord, InMap, authorizeWebSocket
<1>2. /\ RecordInv(q, c) /\ c.state = "connected" /\ c.absolute = r.absolute
  BY Timers DEF RecordInv, SessionRecord, InMap, authorizeWebSocket
<1>3. n = IF spawned = "started" THEN c ELSE closeSession(c)
  BY DEF attachWebSocket
<1> HIDE DEF a, c, n
<1>4. /\ RecordInv(q, n) /\ n.state \in {"connected", "disposing"}
      /\ InMap(n) => n.absolute = r.absolute
  BY <1>2, <1>3, CloseRecord DEF InMap
<1> QED BY <1>1, <1>4 DEF a, n

-----------------------------------------------------------------------------
(* All sessions.                                                           *)

RecordsInv ==
    /\ request \in [Sessions -> Requests]
    /\ session \in [Sessions -> SessionRecord]
    /\ \A s \in Sessions : RecordInv(request[s], session[s])

\* What a step may do to the record of a session: it becomes n from r.
RecordStep(r, n) ==
    /\ Rank[n.state] >= Rank[r.state]
    /\ InMap(r) /\ InMap(n) => n.absolute <= r.absolute
    /\ n.clangd = "running" /\ r.clangd # "running"
          => r.state = "waiting" /\ r.ticket > 0 /\ r.clangd = "none"
    /\ r.cleanup = "done" => n.cleanup = "done" /\ n.clangd \in {r.clangd, "exited"}

RecordSteps == \A s \in Sessions : RecordStep(session[s], session'[s])

\* Nothing happens to a record that stays, and closing one only disposes of it.
LEMMA StepKinds ==
    ASSUME NEW q, NEW r, RecordInv(q, r)
    PROVE  /\ RecordStep(r, r)
           /\ RecordStep(r, closeSession(r))
<1>1. r.state \in {"absent", "waiting", "authorized", "connected", "disposing"}
      /\ r.absolute \in Int
  BY LspDeadlinesAssumption DEF RecordInv, SessionRecord, Timer, Off
<1>2. r.cleanup = "done" => ~InMap(r)  BY DEF RecordInv, InMap
<1> QED BY <1>1, <1>2, CloseRecord DEF RecordStep, Rank, InMap

\* A change that leaves the state and the deadline of a session alone and starts no clangd.
LEMMA SameLife ==
    ASSUME NEW q, NEW r, RecordInv(q, r), NEW n,
           n.state = r.state, n.absolute = r.absolute,
           n.clangd \in {r.clangd, "killed"},
           r.cleanup = "done" => n.cleanup = "done" /\ n.clangd = r.clangd
    PROVE  RecordStep(r, n)
<1>1. r.state \in {"absent", "waiting", "authorized", "connected", "disposing"}
      /\ r.absolute \in Int
  BY LspDeadlinesAssumption DEF RecordInv, SessionRecord, Timer, Off
<1> QED BY <1>1 DEF RecordStep, Rank

\* A step that changes the record and the request of one session.
LEMMA OneRecord ==
    ASSUME RecordsInv, NEW s \in Sessions, NEW q \in Requests, NEW n,
           request' = [request EXCEPT ![s] = q],
           session' = [session EXCEPT ![s] = n],
           RecordInv(q, n), RecordStep(session[s], n)
    PROVE  RecordsInv' /\ RecordSteps
<1>1. n \in SessionRecord  BY DEF RecordInv
<1>2. ASSUME NEW t \in Sessions
      PROVE  RecordInv(request'[t], session'[t]) /\ RecordStep(session[t], session'[t])
  <2>1. CASE t = s  BY <2>1 DEF RecordsInv
  <2>2. CASE t # s
    <3>1. request'[t] = request[t] /\ session'[t] = session[t]
      BY <2>2 DEF RecordsInv
    <3> QED BY <3>1, StepKinds DEF RecordsInv
  <2> QED BY <2>1, <2>2
<1> QED BY <1>1, <1>2 DEF RecordsInv, RecordSteps

\* A step that changes the record of one session alone.
LEMMA OneSession ==
    ASSUME RecordsInv, NEW s \in Sessions, NEW n, UNCHANGED request,
           session' = [session EXCEPT ![s] = n],
           RecordInv(request[s], n), RecordStep(session[s], n)
    PROVE  RecordsInv' /\ RecordSteps
<1>1. request' = [request EXCEPT ![s] = request[s]] /\ request[s] \in Requests
  BY DEF RecordsInv
<1> QED BY <1>1, OneRecord

\* A step that closes a session.
LEMMA OneClosed ==
    ASSUME RecordsInv, NEW s \in Sessions, UNCHANGED request,
           session' = [session EXCEPT ![s] = closeSession(session[s])]
    PROVE  RecordsInv' /\ RecordSteps
<1>1. RecordInv(request[s], session[s])  BY DEF RecordsInv
<1> QED BY <1>1, CloseRecord, StepKinds, OneSession

\* A step that changes the request of one session alone.
LEMMA OneRequest ==
    ASSUME RecordsInv, NEW s \in Sessions, NEW q \in Requests, UNCHANGED session,
           request' = [request EXCEPT ![s] = q],
           RecordInv(q, session[s])
    PROVE  RecordsInv' /\ RecordSteps
<1>1. session' = [session EXCEPT ![s] = session[s]] /\ RecordInv(request[s], session[s])
  BY DEF RecordsInv
<1> QED BY <1>1, OneRecord, StepKinds

LEMMA SameRecords ==
    ASSUME RecordsInv, UNCHANGED <<request, session>>
    PROVE  RecordsInv' /\ RecordSteps
  BY StepKinds DEF RecordsInv, RecordSteps

LEMMA RecordsInit == Init => RecordsInv
<1> SUFFICES ASSUME Init PROVE RecordsInv
  OBVIOUS
<1>1. RecordInv("none", Absent)
  BY Timers DEF RecordInv, SessionRecord, InMap, Absent
<1> QED BY <1>1 DEF Init, RecordsInv, RecordInv, Requests

\* The steps of the creation of a session.
LEMMA CreationRecords ==
    ASSUME RecordsInv, NEW s \in Sessions,
           \/ PostSession(s) \/ RefuseSession(s) \/ ReserveSession(s) \/ WorkspaceMade(s)
           \/ SessionCreated(s) \/ CreateFails(s) \/ CreateAbandoned(s)
    PROVE  RecordsInv' /\ RecordSteps
<1>1. RecordInv(request[s], session[s])  BY DEF RecordsInv
<1>2. CASE PostSession(s)
  <2>1. RecordInv("body", session[s])
    BY <1>1, <1>2 DEF PostSession, RecordInv
  <2> QED BY <1>2, <2>1, OneRequest DEF PostSession, Requests
<1>3. CASE RefuseSession(s)
  <2>1. RecordInv("answered", session[s])
    BY <1>1, <1>3 DEF RefuseSession, RecordInv
  <2> QED BY <1>3, <2>1, OneRequest DEF RefuseSession, Requests
<1>4. CASE ReserveSession(s)
  <2>1. RecordInv("mkdir", session[s])
    BY <1>1, <1>4 DEF ReserveSession, RecordInv
  <2> QED BY <1>4, <2>1, OneRequest DEF ReserveSession, Requests
<1>5. CASE WorkspaceMade(s)
  <2> DEFINE n == [session[s] EXCEPT !.workspace = TRUE]
  <2>1. session' = [session EXCEPT ![s] = n]
    BY <1>5 DEF WorkspaceMade, RecordsInv
  <2>2. RecordInv("write", n)
    BY <1>1, <1>5 DEF WorkspaceMade, RecordInv, SessionRecord, InMap
  <2>3. /\ n.state = session[s].state /\ n.absolute = session[s].absolute
        /\ n.clangd = session[s].clangd
        /\ session[s].cleanup = "done" => n.cleanup = "done"
    BY <1>1 DEF RecordInv, SessionRecord
  <2> HIDE DEF n
  <2>4. RecordStep(session[s], n)  BY <1>1, <2>3, SameLife
  <2> QED BY <1>5, <2>1, <2>2, <2>4, OneRecord DEF WorkspaceMade, Requests
<1>6. CASE SessionCreated(s)
  <2>1. RecordInv("write", session[s])  BY <1>1, <1>6 DEF SessionCreated
  <2>2. session[s].state = "absent" /\ session[s].cleanup = "none"
    BY <2>1 DEF RecordInv
  <2>3. RecordStep(session[s], createManagedSession(session[s]))
    BY <2>1, <2>2, CreatedRecord DEF RecordStep, Rank, InMap
  <2> QED BY <1>6, <2>1, <2>3, CreatedRecord, OneRecord DEF SessionCreated, Requests
<1>7. CASE CreateFails(s)
  <2>1. RecordInv("rm", session[s])
    BY <1>1, <1>7 DEF CreateFails, RecordInv
  <2> QED BY <1>7, <2>1, OneRequest DEF CreateFails, Requests
<1>8. CASE CreateAbandoned(s)
  <2> DEFINE n == [session[s] EXCEPT !.workspace = FALSE]
  <2>1. session' = [session EXCEPT ![s] = n]
    BY <1>8 DEF CreateAbandoned, RecordsInv
  <2>2. RecordInv("answered", n)
    BY <1>1, <1>8 DEF CreateAbandoned, RecordInv, SessionRecord, InMap
  <2>3. /\ n.state = session[s].state /\ n.absolute = session[s].absolute
        /\ n.clangd = session[s].clangd
        /\ session[s].cleanup = "done" => n.cleanup = "done"
    BY <1>1 DEF RecordInv, SessionRecord
  <2> HIDE DEF n
  <2>4. RecordStep(session[s], n)  BY <1>1, <2>3, SameLife
  <2> QED BY <1>8, <2>1, <2>2, <2>4, OneRecord DEF CreateAbandoned, Requests
<1> QED BY <1>2, <1>3, <1>4, <1>5, <1>6, <1>7, <1>8

\* The steps of the socket and of the deadlines.
LEMMA SocketRecords ==
    ASSUME RecordsInv, NEW s \in Sessions,
           \/ \E completed \in BOOLEAN, spawned \in {"started", "error", "no_streams"} :
                  Upgrade(s, completed, spawned)
           \/ discardSessionAfterInvalidHandshake(s) \/ SocketClosed(s) \/ SessionFails(s)
           \/ touchSession(s) \/ TimerFires(s)
    PROVE  RecordsInv' /\ RecordSteps
<1>1. RecordInv(request[s], session[s])  BY DEF RecordsInv
<1>2. ASSUME NEW completed \in BOOLEAN, NEW spawned, Upgrade(s, completed, spawned)
      PROVE  RecordsInv' /\ RecordSteps
  <2> DEFINE r == session[s]
             a == [authorizeWebSocket(r) EXCEPT !.socket = "aborted"]
             n == attachWebSocket(authorizeWebSocket(r), spawned)
  <2>1. /\ r.state = "waiting" /\ r.ticket > 0 /\ r.clangd = "none" /\ r.absolute \in Int
        /\ r.cleanup = "none"
    BY <1>1, <1>2, LspDeadlinesAssumption
       DEF Upgrade, ticketAccepted, verify, RecordInv, SessionRecord, Timer, Off
  <2>2. /\ RecordInv(request[s], a) /\ a.state = "authorized"
        /\ a.absolute = r.absolute /\ a.clangd = "none"
        /\ RecordInv(request[s], n) /\ n.state \in {"connected", "disposing"}
        /\ InMap(n) => n.absolute = r.absolute
    BY <1>1, <2>1, UpgradeRecord
  <2>3. session' = [session EXCEPT ![s] = IF completed THEN n ELSE a] /\ UNCHANGED request
    BY <1>2 DEF Upgrade, RecordsInv
  <2> HIDE DEF a, n
  <2>4. RecordStep(r, a) /\ RecordStep(r, n)
    BY <2>1, <2>2 DEF RecordStep, Rank
  <2> QED BY <2>2, <2>3, <2>4, OneSession
<1>3. CASE SocketClosed(s)
  <2> DEFINE c == [session[s] EXCEPT !.socket = "closed"]
  <2>1. session' = [session EXCEPT ![s] = closeSession(c)] /\ UNCHANGED request
    BY <1>3 DEF SocketClosed, RecordsInv
  <2>2. CASE InMap(session[s])
    <3>1. closeSession(c) = performCleanup(c)  BY <2>2 DEF closeSession, InMap, RecordsInv, SessionRecord
    <3>2. /\ RecordInv(request[s], performCleanup(c))
          /\ performCleanup(c).state = "disposing" /\ performCleanup(c).clangd = session[s].clangd
      BY <1>1, <2>2, Timers DEF RecordInv, SessionRecord, InMap, performCleanup
    <3>3. RecordStep(session[s], performCleanup(c))
      BY <1>1, <2>2, <3>2 DEF RecordStep, Rank, InMap, RecordInv, SessionRecord
    <3> QED BY <2>1, <3>1, <3>2, <3>3, OneSession
  <2>3. CASE ~InMap(session[s])
    <3>1. closeSession(c) = c  BY <2>3 DEF closeSession, InMap, RecordsInv, SessionRecord
    <3>2. RecordInv(request[s], c) /\ RecordStep(session[s], c)
      BY <1>1, <1>3, <2>3 DEF RecordInv, SessionRecord, InMap, RecordStep, Rank, SocketClosed
    <3> QED BY <2>1, <3>1, <3>2, OneSession
  <2> QED BY <2>2, <2>3
<1>4. CASE touchSession(s)
  <2> DEFINE n == [session[s] EXCEPT !.idle = IdleTtl]
  <2>1. session' = [session EXCEPT ![s] = n] /\ UNCHANGED request
    BY <1>4 DEF touchSession, RecordsInv
  <2>2. RecordInv(request[s], n)
    BY <1>1, Timers DEF RecordInv, SessionRecord, InMap
  <2>3. /\ n.state = session[s].state /\ n.absolute = session[s].absolute
        /\ n.clangd = session[s].clangd /\ n.cleanup = session[s].cleanup
    BY <1>1 DEF RecordInv, SessionRecord
  <2> HIDE DEF n
  <2>4. RecordStep(session[s], n)  BY <1>1, <2>3, SameLife
  <2> QED BY <2>1, <2>2, <2>4, OneSession
<1>5. CASE discardSessionAfterInvalidHandshake(s) \/ SessionFails(s) \/ TimerFires(s)
  BY <1>5, OneClosed DEF discardSessionAfterInvalidHandshake, SessionFails, TimerFires, RecordsInv
<1> QED BY <1>2, <1>3, <1>4, <1>5

\* The steps of clangd and of the cleanup.
LEMMA CleanupRecords ==
    ASSUME RecordsInv, NEW s \in Sessions,
           ClangdExits(s) \/ GraceElapsed(s) \/ WorkspaceRemoved(s)
    PROVE  RecordsInv' /\ RecordSteps
<1>1. RecordInv(request[s], session[s])  BY DEF RecordsInv
<1>2. CASE ClangdExits(s)
  <2> DEFINE r == session[s]
             c == waitEnded(r)
  <2>1. session' = [session EXCEPT ![s] = closeSession(c)] /\ UNCHANGED request
    BY <1>2 DEF ClangdExits, RecordsInv
  <2>2. RecordInv(request[s], c)
    BY <1>1, <1>2 DEF RecordInv, SessionRecord, InMap, ClangdExits, waitEnded
  <2>3. /\ c.state = r.state /\ c.absolute = r.absolute /\ c.clangd = "exited"
        /\ r.cleanup = "done" => c.cleanup = "done"
    BY <1>1 DEF RecordInv, SessionRecord, waitEnded
  <2> HIDE DEF c
  <2>4. RecordStep(r, closeSession(c))
    <3>1. /\ InMap(r) => closeSession(c).state = "disposing"
          /\ ~InMap(r) => closeSession(c).state = r.state
          /\ closeSession(c).clangd = "exited" /\ ~InMap(closeSession(c))
          /\ ~InMap(r) => closeSession(c).cleanup = c.cleanup
      BY <2>2, <2>3, CloseRecord DEF InMap
    <3>2. /\ r.state \in {"absent", "waiting", "authorized", "connected", "disposing"}
          /\ r.cleanup = "done" => ~InMap(r)
      BY <1>1 DEF RecordInv, SessionRecord, InMap
    <3> QED BY <2>3, <3>1, <3>2 DEF RecordStep, Rank
  <2> QED BY <2>1, <2>2, <2>4, CloseRecord, OneSession
<1>3. CASE GraceElapsed(s)
  <2> DEFINE r == session[s]
             n == IF r.cleanup = "term" THEN [r EXCEPT !.clangd = "killed", !.cleanup = "kill"]
                                        ELSE [r EXCEPT !.cleanup = "rm"]
  <2>1. session' = [session EXCEPT ![s] = n] /\ UNCHANGED request
    BY <1>3 DEF GraceElapsed, RecordsInv
  <2>2. RecordInv(request[s], n)
    BY <1>1, <1>3 DEF GraceElapsed, RecordInv, SessionRecord, InMap
  <2>3. /\ n.state = r.state /\ n.absolute = r.absolute /\ n.clangd \in {r.clangd, "killed"}
        /\ r.cleanup # "done"
    BY <1>1, <1>3 DEF RecordInv, SessionRecord, GraceElapsed
  <2> HIDE DEF n
  <2>4. RecordStep(r, n)  BY <1>1, <2>3, SameLife
  <2> QED BY <2>1, <2>2, <2>4, OneSession
<1>4. CASE WorkspaceRemoved(s)
  <2> DEFINE n == [session[s] EXCEPT !.cleanup = "done", !.workspace = FALSE]
  <2>1. session' = [session EXCEPT ![s] = n] /\ UNCHANGED request
    BY <1>4 DEF WorkspaceRemoved, RecordsInv
  <2>2. RecordInv(request[s], n)
    BY <1>1, <1>4 DEF WorkspaceRemoved, RecordInv, SessionRecord, InMap
  <2>3. /\ n.state = session[s].state /\ n.absolute = session[s].absolute
        /\ n.clangd = session[s].clangd
        /\ session[s].cleanup = "done" => n.cleanup = "done"
    BY <1>1 DEF RecordInv, SessionRecord
  <2> HIDE DEF n
  <2>4. RecordStep(session[s], n)  BY <1>1, <2>3, SameLife
  <2> QED BY <2>1, <2>2, <2>4, OneSession
<1> QED BY <1>2, <1>3, <1>4

\* A tick brings the deadlines nearer and clears none.
LEMMA TickRecords ==
    ASSUME RecordsInv, Tick
    PROVE  RecordsInv' /\ RecordSteps
<1> DEFINE n(s) == [session[s] EXCEPT !.ticket = elapse(session[s].ticket),
                                      !.idle = elapse(session[s].idle),
                                      !.absolute = elapse(session[s].absolute)]
<1>1. ASSUME NEW s \in Sessions
      PROVE  session'[s] = n(s) /\ request'[s] = request[s]
  BY <1>1 DEF Tick, RecordsInv
<1>2. ASSUME NEW s \in Sessions
      PROVE  RecordInv(request[s], n(s)) /\ RecordStep(session[s], n(s))
  <2> DEFINE r == session[s]
  <2>1. RecordInv(request[s], r)  BY DEF RecordsInv
  <2>2. r.ticket # 0 /\ r.idle # 0 /\ r.absolute # 0
    BY DEF Tick, due
  <2>3. /\ elapse(r.ticket) \in Timer(TicketTtl) /\ elapse(r.idle) \in Timer(IdleTtl)
        /\ elapse(r.absolute) \in Timer(AbsoluteTtl)
        /\ r.ticket # Off => elapse(r.ticket) # Off
        /\ r.idle # Off => elapse(r.idle) # Off
        /\ r.absolute # Off => elapse(r.absolute) # Off /\ elapse(r.absolute) <= r.absolute
    BY <2>1, <2>2, LspDeadlinesAssumption DEF RecordInv, SessionRecord, Timer, Off, elapse
  <2>4. RecordInv(request[s], n(s))
    BY <2>1, <2>3 DEF RecordInv, SessionRecord, InMap
  <2>5. /\ n(s).state = r.state /\ n(s).clangd = r.clangd /\ n(s).cleanup = r.cleanup
        /\ n(s).absolute = elapse(r.absolute)
    BY <2>1 DEF RecordInv, SessionRecord
  <2>6. r.state \in {"absent", "waiting", "authorized", "connected", "disposing"}
    BY <2>1 DEF RecordInv, SessionRecord
  <2>7. InMap(r) => r.absolute # Off  BY <2>1 DEF RecordInv
  <2> HIDE DEF n
  <2>8. RecordStep(r, n(s))
    BY <2>3, <2>5, <2>6, <2>7 DEF RecordStep, Rank
  <2> QED BY <2>4, <2>8
<1>3. session' \in [Sessions -> SessionRecord]
  <2>1. \A s \in Sessions : n(s) \in SessionRecord  BY <1>2 DEF RecordInv
  <2> QED BY <2>1 DEF Tick
<1>4. request' \in [Sessions -> Requests]  BY DEF Tick, RecordsInv
<1> HIDE DEF n
<1> QED BY <1>1, <1>2, <1>3, <1>4 DEF RecordsInv, RecordSteps

\* A shutdown closes every session of the map.
LEMMA ShutdownRecords ==
    ASSUME RecordsInv, Shutdown
    PROVE  RecordsInv' /\ RecordSteps
<1>1. ASSUME NEW s \in Sessions
      PROVE  /\ session'[s] = closeSession(session[s]) /\ request'[s] = request[s]
             /\ RecordInv(request[s], closeSession(session[s]))
             /\ RecordStep(session[s], closeSession(session[s]))
  BY CloseRecord, StepKinds DEF Shutdown, RecordsInv
<1>2. session' \in [Sessions -> SessionRecord]
  BY <1>1 DEF Shutdown, RecordInv
<1>3. request' \in [Sessions -> Requests]  BY DEF Shutdown, RecordsInv
<1> QED BY <1>1, <1>2, <1>3 DEF RecordsInv, RecordSteps

LEMMA RecordsNext == RecordsInv /\ [Next]_vars => RecordsInv' /\ RecordSteps
<1> SUFFICES ASSUME RecordsInv, [Next]_vars PROVE RecordsInv' /\ RecordSteps
  OBVIOUS
<1>1. ASSUME NEW s \in Sessions, Internal(s) \/ External(s)
      PROVE  RecordsInv' /\ RecordSteps
  BY <1>1, CreationRecords, SocketRecords, CleanupRecords DEF Internal, External
<1>2. CASE Tick  BY <1>2, TickRecords
<1>3. CASE Shutdown  BY <1>3, ShutdownRecords
<1>4. CASE ProbeStarts \/ \E ready \in BOOLEAN : ProbeEnds(ready)
  BY <1>4, SameRecords DEF ProbeStarts, ProbeEnds
<1>5. CASE ShutdownContinues \/ ProcessExits
  BY <1>5, SameRecords DEF ShutdownContinues, ProcessExits
<1>6. CASE UNCHANGED vars  BY <1>6, SameRecords DEF vars
<1> QED BY <1>1, <1>2, <1>3, <1>4, <1>5, <1>6 DEF Next

LEMMA RecordsInductive == Spec => []RecordsInv
<1>1. RecordsInv /\ [Next]_vars => RecordsInv'  BY RecordsNext
<1> QED BY <1>1, RecordsInit, PTL DEF Spec

-----------------------------------------------------------------------------
(* The reservations.                                                       *)

Group(S, f, g) == {s \in S : f[s] = g}

\* The counters of #reserve and #release are exactly the creations under way.
PendingInv ==
    /\ pendingCount = Cardinality(Creating)
    /\ pendingVisitors = [v \in Visitors |-> Cardinality(Group(Creating, VisitorOf, v))]
    /\ pendingIps = [i \in Ips |-> Cardinality(Group(Creating, IpOf, i))]

LEMMA GroupAdded ==
    ASSUME NEW S, IsFiniteSet(S), NEW s, s \notin S, NEW f, NEW g
    PROVE  Cardinality(Group(S \cup {s}, f, g)) =
               IF f[s] = g THEN Cardinality(Group(S, f, g)) + 1 ELSE Cardinality(Group(S, f, g))
<1>1. IsFiniteSet(Group(S, f, g)) /\ s \notin Group(S, f, g)
  BY FS_Subset DEF Group
<1>2. Group(S \cup {s}, f, g) = IF f[s] = g THEN Group(S, f, g) \cup {s} ELSE Group(S, f, g)
  BY DEF Group
<1> HIDE DEF Group
<1> QED BY <1>1, <1>2, FS_AddElement

LEMMA GroupRemoved ==
    ASSUME NEW S, IsFiniteSet(S), NEW s \in S, NEW f, NEW g
    PROVE  Cardinality(Group(S \ {s}, f, g)) =
               IF f[s] = g THEN Cardinality(Group(S, f, g)) - 1 ELSE Cardinality(Group(S, f, g))
<1>1. IsFiniteSet(Group(S, f, g)) /\ (f[s] = g => s \in Group(S, f, g))
  BY FS_Subset DEF Group
<1>2. Group(S \ {s}, f, g) = IF f[s] = g THEN Group(S, f, g) \ {s} ELSE Group(S, f, g)
  BY DEF Group
<1> HIDE DEF Group
<1> QED BY <1>1, <1>2, FS_RemoveElement

LEMMA CreatingFinite == IsFiniteSet(Creating) /\ Creating \subseteq Sessions
  BY LspLimitsAssumption, FS_Subset DEF Creating

LEMMA PendingInit == Init => PendingInv
<1> SUFFICES ASSUME Init PROVE PendingInv
  OBVIOUS
<1>1. Creating = {}  BY DEF Init, Creating
<1>2. \A f, g : Group(Creating, f, g) = {}  BY <1>1 DEF Group
<1> QED BY <1>1, <1>2, FS_EmptySet DEF Init, PendingInv

\* A step that leaves the counters and the creations alone.
LEMMA PendingSame ==
    ASSUME PendingInv, UNCHANGED pending, Creating' = Creating
    PROVE  PendingInv'
  BY DEF PendingInv, pending, Group

LEMMA PendingReserved ==
    ASSUME PendingInv, RecordsInv, NEW s \in Sessions, ReserveSession(s)
    PROVE  PendingInv'
<1>1. s \notin Creating /\ Creating' = Creating \cup {s}
  BY DEF ReserveSession, Creating, RecordsInv
<1>2. Cardinality(Creating') = Cardinality(Creating) + 1
  BY <1>1, CreatingFinite, FS_AddElement
<1>3. \A f, g : Cardinality(Group(Creating', f, g)) =
          IF f[s] = g THEN Cardinality(Group(Creating, f, g)) + 1
                      ELSE Cardinality(Group(Creating, f, g))
  BY <1>1, CreatingFinite, GroupAdded
<1>4. /\ pendingCount' = pendingCount + 1
      /\ pendingVisitors' = [pendingVisitors EXCEPT ![VisitorOf[s]] = @ + 1]
      /\ pendingIps' = [pendingIps EXCEPT ![IpOf[s]] = @ + 1]
      /\ VisitorOf[s] \in Visitors /\ IpOf[s] \in Ips
  BY LspLimitsAssumption DEF ReserveSession
<1>5. pendingCount' = Cardinality(Creating')  BY <1>2, <1>4 DEF PendingInv
<1>6. pendingVisitors' = [v \in Visitors |-> Cardinality(Group(Creating', VisitorOf, v))]
  BY <1>3, <1>4 DEF PendingInv
<1>7. pendingIps' = [i \in Ips |-> Cardinality(Group(Creating', IpOf, i))]
  BY <1>3, <1>4 DEF PendingInv
<1> QED BY <1>5, <1>6, <1>7 DEF PendingInv, Group

LEMMA PendingReleased ==
    ASSUME PendingInv, RecordsInv, NEW s \in Creating, release(s), Creating' = Creating \ {s}
    PROVE  PendingInv'
<1>2. Cardinality(Creating') = Cardinality(Creating) - 1
  BY CreatingFinite, FS_RemoveElement
<1>3. \A f, g : Cardinality(Group(Creating', f, g)) =
          IF f[s] = g THEN Cardinality(Group(Creating, f, g)) - 1
                      ELSE Cardinality(Group(Creating, f, g))
  BY CreatingFinite, GroupRemoved
<1>4. /\ pendingCount' = pendingCount - 1
      /\ pendingVisitors' = [pendingVisitors EXCEPT ![VisitorOf[s]] = @ - 1]
      /\ pendingIps' = [pendingIps EXCEPT ![IpOf[s]] = @ - 1]
      /\ VisitorOf[s] \in Visitors /\ IpOf[s] \in Ips
  BY LspLimitsAssumption, CreatingFinite DEF release
<1>5. pendingCount' = Cardinality(Creating')  BY <1>2, <1>4 DEF PendingInv
<1>6. pendingVisitors' = [v \in Visitors |-> Cardinality(Group(Creating', VisitorOf, v))]
  BY <1>3, <1>4 DEF PendingInv
<1>7. pendingIps' = [i \in Ips |-> Cardinality(Group(Creating', IpOf, i))]
  BY <1>3, <1>4 DEF PendingInv
<1> QED BY <1>5, <1>6, <1>7 DEF PendingInv, Group

\* The other steps of a creation stay inside it or outside it.
LEMMA PendingNext == RecordsInv /\ PendingInv /\ [Next]_vars => PendingInv'
<1> SUFFICES ASSUME RecordsInv, PendingInv, [Next]_vars PROVE PendingInv'
  OBVIOUS
<1>1. ASSUME NEW s \in Sessions, Internal(s) \/ External(s)
      PROVE  PendingInv'
  <2>1. CASE ReserveSession(s)  BY <2>1, PendingReserved
  <2>2. CASE SessionCreated(s) \/ CreateAbandoned(s)
    <3>1. s \in Creating /\ Creating' = Creating \ {s} /\ release(s)
      BY <2>2 DEF SessionCreated, CreateAbandoned, Creating, RecordsInv
    <3> QED BY <3>1, PendingReleased
  <2>3. CASE PostSession(s) \/ RefuseSession(s) \/ WorkspaceMade(s) \/ CreateFails(s)
    <3>1. Creating' = Creating /\ UNCHANGED pending
      BY <2>3 DEF PostSession, RefuseSession, WorkspaceMade, CreateFails, Creating, RecordsInv
    <3> QED BY <3>1, PendingSame
  <2>4. CASE UNCHANGED <<request, pending>>
    <3>1. Creating' = Creating  BY <2>4 DEF Creating
    <3> QED BY <2>4, <3>1, PendingSame
  <2> QED
    BY <1>1, <2>1, <2>2, <2>3, <2>4
       DEF Internal, External, Upgrade, discardSessionAfterInvalidHandshake, SocketClosed,
           SessionFails, touchSession, ClangdExits, GraceElapsed, WorkspaceRemoved, TimerFires
<1>2. CASE UNCHANGED <<request, pending>>
  <2>1. Creating' = Creating  BY <1>2 DEF Creating
  <2> QED BY <1>2, <2>1, PendingSame
<1> QED
  BY <1>1, <1>2 DEF Next, Tick, ProbeStarts, ProbeEnds, Shutdown, ShutdownContinues,
                    ProcessExits, vars, pending

-----------------------------------------------------------------------------
(* The shutdown.                                                           *)

\* The sessions the shutdown awaits are being cleaned up; they have been once it has
\* gone past them, and their clangd has ended when the process does.
ShutdownInv ==
    /\ shutdown \in {"serving", "sessions", "websockets", "http", "stopped", "exited"}
    /\ awaited \subseteq Sessions
    /\ health \in [ready : BOOLEAN, checking : BOOLEAN]
    /\ shutdown = "serving" => awaited = {}
    /\ \A s \in awaited :
           /\ session[s].state = "disposing"
           /\ shutdown \notin {"serving", "sessions"} => session[s].cleanup = "done"
           /\ shutdown = "exited" => session[s].clangd \in {"none", "exited"}

LEMMA ShutdownInit == Init => ShutdownInv
  BY DEF Init, ShutdownInv

\* Whatever happens to the sessions, what the shutdown waited for stays done.
LEMMA ShutdownKept ==
    ASSUME RecordsInv', RecordSteps, ShutdownInv, UNCHANGED <<shutdown, awaited>>,
           health' \in [ready : BOOLEAN, checking : BOOLEAN]
    PROVE  ShutdownInv'
<1>1. ASSUME NEW s \in awaited
      PROVE  /\ session'[s].state = "disposing"
             /\ session[s].cleanup = "done" =>
                    session'[s].cleanup = "done" /\ session'[s].clangd \in {session[s].clangd, "exited"}
  <2>1. s \in Sessions /\ session[s].state = "disposing"  BY DEF ShutdownInv
  <2>2. RecordStep(session[s], session'[s]) /\ session'[s] \in SessionRecord
    BY <2>1 DEF RecordSteps, RecordsInv
  <2>3. session'[s].state \in {"absent", "waiting", "authorized", "connected", "disposing"}
    BY <2>2 DEF SessionRecord
  <2> QED BY <2>1, <2>2, <2>3 DEF RecordStep, Rank
<1> QED BY <1>1 DEF ShutdownInv

LEMMA ShutdownNext ==
    RecordsInv /\ ShutdownInv /\ [Next]_vars => ShutdownInv'
<1> SUFFICES ASSUME RecordsInv, ShutdownInv, [Next]_vars PROVE ShutdownInv'
  OBVIOUS
<1>1. RecordsInv' /\ RecordSteps  BY RecordsNext
<1>2. ASSUME NEW s \in Sessions, Internal(s) \/ External(s)
      PROVE  UNCHANGED <<shutdown, awaited, health>>
  BY <1>2
     DEF Internal, External, PostSession, RefuseSession, ReserveSession, WorkspaceMade,
         SessionCreated, CreateFails, CreateAbandoned, Upgrade,
         discardSessionAfterInvalidHandshake, SocketClosed, SessionFails, touchSession,
         ClangdExits, GraceElapsed, WorkspaceRemoved, TimerFires
<1>3. CASE UNCHANGED <<shutdown, awaited, health>>
  BY <1>1, <1>3, ShutdownKept DEF ShutdownInv
<1>4. CASE ProbeStarts \/ \E ready \in BOOLEAN : ProbeEnds(ready)
  <2>1. CASE ProbeStarts
    <3>1. health.ready \in BOOLEAN /\ health' = [ready |-> health.ready, checking |-> TRUE]
      BY <2>1 DEF ProbeStarts, ShutdownInv
    <3>2. health' \in [ready : BOOLEAN, checking : BOOLEAN]  BY <3>1
    <3> QED BY <1>1, <2>1, <3>2, ShutdownKept DEF ProbeStarts
  <2>2. ASSUME NEW ready \in BOOLEAN, ProbeEnds(ready) PROVE ShutdownInv'
    <3>1. health' = [ready |-> ready, checking |-> FALSE]  BY <2>2 DEF ProbeEnds
    <3>2. health' \in [ready : BOOLEAN, checking : BOOLEAN]  BY <3>1
    <3> QED BY <1>1, <2>2, <3>2, ShutdownKept DEF ProbeEnds
  <2> QED BY <1>4, <2>1, <2>2
<1>5. CASE Shutdown
  <2>1. ASSUME NEW s \in Active
        PROVE  s \in Sessions /\ session'[s].state = "disposing"
    <3>1. s \in Sessions /\ InMap(session[s])  BY DEF Active
    <3>2. session'[s] = closeSession(session[s])  BY <1>5, <3>1 DEF Shutdown
    <3>3. RecordInv(request[s], session[s])  BY <3>1 DEF RecordsInv
    <3> QED BY <3>1, <3>2, <3>3, CloseRecord
  <2> QED BY <1>5, <2>1 DEF Shutdown, ShutdownInv
<1>6. CASE ShutdownContinues
  BY <1>6 DEF ShutdownContinues, ShutdownInv
<1>7. CASE ProcessExits
  <2>1. \A s \in awaited : session[s].clangd \in {"none", "exited"}
    BY <1>7 DEF ProcessExits, ShutdownInv, RecordsInv, SessionRecord
  <2> QED BY <1>7, <2>1 DEF ProcessExits, ShutdownInv
<1> QED BY <1>2, <1>3, <1>4, <1>5, <1>6, <1>7 DEF Next, Tick, vars

-----------------------------------------------------------------------------
(* The theorems.                                                           *)

SessionsInv == RecordsInv /\ PendingInv /\ ShutdownInv

\* The inductive invariant of the service.
THEOREM SessionsInductive == Spec => []SessionsInv
<1>1. Init => SessionsInv
  BY RecordsInit, PendingInit, ShutdownInit DEF SessionsInv
<1>2. SessionsInv /\ [Next]_vars => SessionsInv'
  BY RecordsNext, PendingNext, ShutdownNext DEF SessionsInv
<1> QED BY <1>1, <1>2, PTL DEF Spec

\* No reservation that #release gives back was not made by #reserve, for any number of
\* sessions and whatever happens between the two; every field of a session stays in its
\* range.
THEOREM TypeCorrect == Spec => []TypeOK
<1>1. SessionsInv => TypeOK
  <2> SUFFICES ASSUME SessionsInv PROVE TypeOK
    OBVIOUS
  <2>1. /\ request \in [Sessions -> Requests] /\ session \in [Sessions -> SessionRecord]
    BY DEF SessionsInv, RecordsInv
  <2>2. Cardinality(Creating) \in Nat /\ \A f, g : Cardinality(Group(Creating, f, g)) \in Nat
    BY CreatingFinite, FS_Subset, FS_CardinalityType DEF Group
  <2>3. /\ pendingCount \in Nat /\ pendingVisitors \in [Visitors -> Nat]
        /\ pendingIps \in [Ips -> Nat]
    BY <2>2 DEF SessionsInv, PendingInv
  <2> QED BY <2>1, <2>3 DEF TypeOK, Requests, SessionRecord, SessionsInv, ShutdownInv
<1> QED BY <1>1, SessionsInductive, PTL

\* What createSession, attachWebSocket and #performCleanup make is owned in every state.
THEOREM ResourcesAlwaysOwned == Spec => []ResourcesOwned
<1>1. SessionsInv => ResourcesOwned
  <2> SUFFICES ASSUME SessionsInv, NEW s \in Sessions
               PROVE  LET r == session[s]
                      IN  /\ s \in awaited /\ shutdown = "exited"
                                => ~r.workspace /\ r.clangd \in {"none", "exited"}
                          /\ r.clangd = "running" => r.state = "connected" \/ r.cleanup = "term"
                          /\ r.workspace => \/ request[s] \in {"write", "rm"}
                                            \/ InMap(r)
                                            \/ r.cleanup \in {"term", "kill", "rm"}
                          /\ r.state = "disposing" <=> r.cleanup # "none"
    BY DEF ResourcesOwned
  <2>1. RecordInv(request[s], session[s])  BY DEF SessionsInv, RecordsInv
  <2>2. s \in awaited /\ shutdown = "exited" =>
            /\ session[s].state = "disposing" /\ session[s].cleanup = "done"
            /\ session[s].clangd \in {"none", "exited"}
    BY DEF SessionsInv, ShutdownInv
  <2> QED BY <2>1, <2>2 DEF RecordInv, InMap
<1> QED BY <1>1, SessionsInductive, PTL

\* A session in the map always has an armed deadline or a close event that ends it.
THEOREM DeadlineAlwaysArmed == Spec => []DeadlineArmed
<1>1. SessionsInv => DeadlineArmed
  BY DEF SessionsInv, RecordsInv, DeadlineArmed, Active, RecordInv
<1> QED BY <1>1, SessionsInductive, PTL

\* A session only goes forward through its states, starts clangd once, with its ticket,
\* and never has its absolute deadline moved away.
THEOREM LifetimeAlwaysBounded == Spec => LifetimeBounded
<1>1. SessionsInv /\ [Next]_vars =>
          [\A s \in Sessions :
               LET r == session[s]
                   n == session'[s]
               IN  /\ Rank[n.state] >= Rank[r.state]
                   /\ InMap(r) /\ InMap(n) => n.absolute <= r.absolute
                   /\ n.clangd = "running" /\ r.clangd # "running"
                         => r.state = "waiting" /\ r.ticket > 0 /\ r.clangd = "none"]_vars
  BY RecordsNext DEF SessionsInv, RecordSteps, RecordStep
<1> QED BY <1>1, SessionsInductive, PTL DEF Spec, LifetimeBounded

-----------------------------------------------------------------------------
(* The service implements the pool of places.                              *)

LEMMA Places ==
    /\ place = [s \in Sessions |-> PlaceOf(request[s], session[s])]
    /\ place' = [s \in Sessions |-> PlaceOf(request'[s], session'[s])]
  BY DEF place, PlaceOf, InMap

\* The places that are held are the sessions in the map and those being created.
LEMMA HeldPlaces ==
    ASSUME RecordsInv
    PROVE  /\ Pool!Held = Active \cup Creating
           /\ Active \cap Creating = {}
           /\ IsFiniteSet(Active)
<1>1. \A s \in Sessions : InMap(session[s]) => request[s] = "answered"
  BY DEF RecordsInv, RecordInv, InMap
<1>2. \A s \in Sessions : place[s] = PlaceOf(request[s], session[s])  BY Places
<1>3. \A s \in Sessions : PlaceOf(request[s], session[s]) \in {"taken", "used"}
                              <=> s \in Active \cup Creating
  BY <1>1 DEF PlaceOf, Active, Creating, RecordsInv, Requests
<1>4. Pool!Held = Active \cup Creating
  BY <1>2, <1>3 DEF Pool!Held, Active, Creating
<1>5. Active \cap Creating = {}  BY <1>1 DEF Active, Creating
<1>6. IsFiniteSet(Active)  BY LspLimitsAssumption, FS_Subset DEF Active
<1> QED BY <1>4, <1>5, <1>6

\* A step of one session's request moves one place.
LEMMA OnePlace ==
    ASSUME RecordsInv, NEW s \in Sessions, NEW q, NEW n,
           request' = [request EXCEPT ![s] = q],
           session' = [session EXCEPT ![s] = n]
    PROVE  place' = [place EXCEPT ![s] = PlaceOf(q, n)]
<1>1. \A t \in Sessions : PlaceOf(request'[t], session'[t]) =
                              IF t = s THEN PlaceOf(q, n) ELSE PlaceOf(request[t], session[t])
  BY DEF RecordsInv
<1> QED BY <1>1, Places

\* A step that leaves the requests alone and brings no session into the map gives
\* back the places of those that leave it.
LEMMA PlacesGivenBack ==
    ASSUME RecordsInv, UNCHANGED request,
           \A s \in Sessions : InMap(session'[s]) => InMap(session[s])
    PROVE  Pool!PoolNext
<1> DEFINE S == {s \in Sessions : InMap(session[s]) /\ ~InMap(session'[s])}
<1>1. \A s \in Sessions : InMap(session[s]) => request[s] = "answered"
  BY DEF RecordsInv, RecordInv, InMap
<1>2. S \subseteq Pool!Held  BY HeldPlaces DEF Active
<1>3. \A s \in Sessions : PlaceOf(request'[s], session'[s]) =
                              IF s \in S THEN "given_back" ELSE PlaceOf(request[s], session[s])
  BY <1>1 DEF PlaceOf
<1>4. place' = [s \in Sessions |-> IF s \in S THEN "given_back" ELSE place[s]]
  BY <1>3, Places
<1>5. S \in SUBSET Sessions  OBVIOUS
<1> HIDE DEF S
<1>6. Pool!GiveBack(S)  BY <1>2, <1>4 DEF Pool!GiveBack
<1> QED BY <1>5, <1>6 DEF Pool!PoolNext

\* No step but the end of a creation brings a session into the map.
LEMMA NoneEnters ==
    ASSUME RecordsInv, RecordsInv', RecordSteps, NEW s \in Sessions,
           \/ \E completed \in BOOLEAN, spawned \in {"started", "error", "no_streams"} :
                  Upgrade(s, completed, spawned)
           \/ discardSessionAfterInvalidHandshake(s) \/ SocketClosed(s) \/ SessionFails(s)
           \/ touchSession(s) \/ TimerFires(s)
           \/ ClangdExits(s) \/ GraceElapsed(s) \/ WorkspaceRemoved(s)
    PROVE  \A t \in Sessions : InMap(session'[t]) => InMap(session[t])
<1>1. \A t \in Sessions : t # s => session'[t] = session[t]
  BY DEF Upgrade, discardSessionAfterInvalidHandshake, SocketClosed, SessionFails, touchSession,
         TimerFires, ClangdExits, GraceElapsed, WorkspaceRemoved, RecordsInv
<1>2. RecordInv(request[s], session[s]) /\ RecordStep(session[s], session'[s])
  BY DEF RecordsInv, RecordSteps
<1>3. session[s].state = "disposing" => ~InMap(session'[s])
  BY <1>2 DEF RecordStep, Rank, InMap
<1>4. session[s].state = "absent" => ~InMap(session'[s])
  <2>1. CASE TimerFires(s) \/ discardSessionAfterInvalidHandshake(s) \/ SessionFails(s)
    <3>1. session'[s] = closeSession(session[s])
      BY <2>1 DEF TimerFires, discardSessionAfterInvalidHandshake, SessionFails, RecordsInv
    <3> QED BY <1>2, <3>1, CloseRecord
  <2>2. CASE session[s].state # "absent"  BY <2>2
  <2> QED
    BY <1>2, <2>1, <2>2
       DEF RecordInv, Upgrade, ticketAccepted, SocketClosed, touchSession, ClangdExits,
           GraceElapsed, WorkspaceRemoved
<1>5. session[s].state \in {"absent", "disposing"} \/ InMap(session[s])
  BY <1>2 DEF RecordInv, SessionRecord, InMap
<1> QED BY <1>1, <1>3, <1>4, <1>5

\* The pool counts as the service does.
LEMMA PoolCounts == \A S : Pool!Cardinality(S) = Cardinality(S)
  BY DEF Pool!Cardinality, Cardinality

\* The sum of two disjoint parts of a limit.
LEMMA HeldCount ==
    ASSUME RecordsInv, NEW M
    PROVE  Cardinality(Pool!Held \cap M) = Cardinality(Active \cap M) + Cardinality(Creating \cap M)
<1>1. Pool!Held \cap M = (Active \cap M) \cup (Creating \cap M)  BY HeldPlaces
<1>2. (Active \cap M) \cap (Creating \cap M) = {}  BY HeldPlaces
<1>3. IsFiniteSet(Active \cap M) /\ IsFiniteSet(Creating \cap M)
  BY HeldPlaces, CreatingFinite, FS_Subset
<1>4. /\ Cardinality(Active \cap M) \in Nat /\ Cardinality(Creating \cap M) \in Nat
  BY <1>3, FS_CardinalityType
<1>5. Cardinality((Active \cap M) \cup (Creating \cap M)) =
          Cardinality(Active \cap M) + Cardinality(Creating \cap M) - Cardinality({})
  BY <1>2, <1>3, FS_Union
<1>6. Cardinality({}) = 0  BY FS_EmptySet
<1>7. ASSUME NEW a \in Nat, NEW b \in Nat, NEW c, c = a + b - Cardinality({})
      PROVE  c = a + b
  BY <1>6, <1>7
<1> QED BY <1>1, <1>4, <1>5, <1>7

\* #reserve, which counts sessions and reservations apart, finds a free place exactly
\* when every limit has one.
LEMMA ReserveTakes ==
    ASSUME SessionsInv, NEW s \in Sessions, ReserveSession(s)
    PROVE  Pool!Take(s)
<1> USE DEF SessionsInv
<1>1. place[s] = "free"
  <2>1. PlaceOf(request[s], session[s]) = "free"  BY DEF ReserveSession, PlaceOf
  <2> QED BY <2>1, Places
<1>2. place' = [place EXCEPT ![s] = "taken"]
  <2>1. request' = [request EXCEPT ![s] = "mkdir"] /\ session' = [session EXCEPT ![s] = session[s]]
    BY DEF ReserveSession, RecordsInv
  <2>2. PlaceOf("mkdir", session[s]) = "taken"  BY DEF PlaceOf
  <2>3. place' = [place EXCEPT ![s] = PlaceOf("mkdir", session[s])]
    BY <2>1, OnePlace
  <2> QED BY <2>2, <2>3
<1>3. /\ VisitorOf[s] \in Visitors /\ IpOf[s] \in Ips
      /\ MaxSessions \in Nat /\ MaxSessionsPerVisitor \in Nat /\ MaxSessionsPerIp \in Nat
  BY LspLimitsAssumption
<1>4. /\ pendingCount = Cardinality(Creating)
      /\ pendingVisitors[VisitorOf[s]] = Cardinality(Group(Creating, VisitorOf, VisitorOf[s]))
      /\ pendingIps[IpOf[s]] = Cardinality(Group(Creating, IpOf, IpOf[s]))
  BY <1>3 DEF PendingInv
<1>5. \A S \in SUBSET Active : Cardinality(S) \in Nat
  BY HeldPlaces, FS_Subset, FS_CardinalityType
<1>6. \A S \in SUBSET Creating : Cardinality(S) \in Nat
  BY CreatingFinite, FS_Subset, FS_CardinalityType
<1>7. ASSUME NEW l \in Limits, s \in l.members
      PROVE  Cardinality(Pool!Held \cap l.members) < l.max
  <2>1. CASE l = [members |-> Sessions, max |-> MaxSessions]
    <3>1. Active \cap l.members = Active /\ Creating \cap l.members = Creating /\ l.max = MaxSessions
      BY <2>1, CreatingFinite DEF Active
    <3>2. Cardinality(Active) + Cardinality(Creating) < MaxSessions
      BY <1>3, <1>4, <1>5, <1>6 DEF ReserveSession, limited
    <3> QED BY <3>1, <3>2, HeldCount
  <2>2. ASSUME NEW v \in Visitors,
               l = [members |-> {t \in Sessions : VisitorOf[t] = v}, max |-> MaxSessionsPerVisitor]
        PROVE  Cardinality(Pool!Held \cap l.members) < l.max
    <3>1. /\ v = VisitorOf[s] /\ l.max = MaxSessionsPerVisitor
          /\ Active \cap l.members = {t \in Active : VisitorOf[t] = v}
          /\ Creating \cap l.members = Group(Creating, VisitorOf, v)
      BY <1>7, <2>2, CreatingFinite DEF Active, Group
    <3>2. Cardinality({t \in Active : VisitorOf[t] = v})
              + Cardinality(Group(Creating, VisitorOf, v)) < MaxSessionsPerVisitor
      <4>1. /\ Cardinality({t \in Active : VisitorOf[t] = v}) \in Nat
            /\ Cardinality(Group(Creating, VisitorOf, v)) \in Nat
        BY <1>5, <1>6 DEF Group
      <4>2. ~(countByVisitor(v) + pendingVisitors[v] >= MaxSessionsPerVisitor)
        BY <3>1 DEF ReserveSession, limited
      <4> QED BY <1>3, <1>4, <3>1, <4>1, <4>2 DEF countByVisitor
    <3> QED BY <3>1, <3>2, HeldCount
  <2>3. ASSUME NEW i \in Ips,
               l = [members |-> {t \in Sessions : IpOf[t] = i}, max |-> MaxSessionsPerIp]
        PROVE  Cardinality(Pool!Held \cap l.members) < l.max
    <3>1. /\ i = IpOf[s] /\ l.max = MaxSessionsPerIp
          /\ Active \cap l.members = {t \in Active : IpOf[t] = i}
          /\ Creating \cap l.members = Group(Creating, IpOf, i)
      BY <1>7, <2>3, CreatingFinite DEF Active, Group
    <3>2. Cardinality({t \in Active : IpOf[t] = i})
              + Cardinality(Group(Creating, IpOf, i)) < MaxSessionsPerIp
      <4>1. /\ Cardinality({t \in Active : IpOf[t] = i}) \in Nat
            /\ Cardinality(Group(Creating, IpOf, i)) \in Nat
        BY <1>5, <1>6 DEF Group
      <4>2. ~(countByIp(i) + pendingIps[i] >= MaxSessionsPerIp)
        BY <3>1 DEF ReserveSession, limited
      <4> QED BY <1>3, <1>4, <3>1, <4>1, <4>2 DEF countByIp
    <3> QED BY <3>1, <3>2, HeldCount
  <2> QED BY <2>1, <2>2, <2>3 DEF Limits
<1> QED BY <1>1, <1>2, <1>7, PoolCounts DEF Pool!Take

\* Every step of the service is a step of the pool.
LEMMA PoolSteps == SessionsInv /\ [Next]_vars => [Pool!PoolNext]_place
<1> SUFFICES ASSUME SessionsInv, [Next]_vars PROVE [Pool!PoolNext]_place
  OBVIOUS
<1>1. RecordsInv /\ RecordsInv' /\ RecordSteps  BY RecordsNext DEF SessionsInv
<1>2. ASSUME NEW s \in Sessions, Internal(s) \/ External(s)
      PROVE  [Pool!PoolNext]_place
  <2>1. /\ RecordInv(request[s], session[s])
        /\ place[s] = PlaceOf(request[s], session[s])
    BY <1>1, Places DEF RecordsInv
  <2>2. CASE ReserveSession(s)  BY <2>2, ReserveTakes DEF Pool!PoolNext
  <2>3. CASE RefuseSession(s)
    <3>1. /\ request' = [request EXCEPT ![s] = "answered"]
          /\ session' = [session EXCEPT ![s] = session[s]]
          /\ request[s] = "body"
      BY <1>1, <2>3 DEF RefuseSession, RecordsInv
    <3>2. place' = [place EXCEPT ![s] = PlaceOf("answered", session[s])]
      BY <1>1, <3>1, OnePlace
    <3>3. /\ PlaceOf("answered", session[s]) = "given_back"
          /\ PlaceOf(request[s], session[s]) = "free"
      BY <2>1, <3>1 DEF PlaceOf, InMap, RecordInv
    <3>4. Pool!Refuse(s)  BY <2>1, <3>2, <3>3 DEF Pool!Refuse
    <3> QED BY <3>4 DEF Pool!PoolNext
  <2>4. CASE SessionCreated(s)
    <3> DEFINE n == createManagedSession(session[s])
    <3>1. /\ request' = [request EXCEPT ![s] = "answered"]
          /\ session' = [session EXCEPT ![s] = n]
          /\ request[s] = "write"
      BY <1>1, <2>4 DEF SessionCreated, RecordsInv
    <3>2. n.state = "waiting"  BY <2>1, <3>1, CreatedRecord
    <3> HIDE DEF n
    <3>3. place' = [place EXCEPT ![s] = PlaceOf("answered", n)]
      BY <1>1, <3>1, OnePlace
    <3>4. PlaceOf("answered", n) = "used" /\ PlaceOf(request[s], session[s]) = "taken"
      BY <3>1, <3>2 DEF PlaceOf, InMap
    <3>5. Pool!Use(s)  BY <2>1, <3>3, <3>4 DEF Pool!Use
    <3> QED BY <3>5 DEF Pool!PoolNext
  <2>5. CASE CreateAbandoned(s)
    <3> DEFINE n == [session[s] EXCEPT !.workspace = FALSE]
    <3>1. /\ request' = [request EXCEPT ![s] = "answered"]
          /\ session' = [session EXCEPT ![s] = n]
          /\ request[s] = "rm"
      BY <1>1, <2>5 DEF CreateAbandoned, RecordsInv
    <3>2. n.state = "absent"  BY <2>1, <3>1 DEF RecordInv, SessionRecord
    <3> HIDE DEF n
    <3>3. place' = [place EXCEPT ![s] = PlaceOf("answered", n)]
      BY <1>1, <3>1, OnePlace
    <3>4. PlaceOf("answered", n) = "given_back"
      BY <3>2 DEF PlaceOf, InMap
    <3>5. {s} \subseteq Pool!Held  BY <1>1, <3>1, HeldPlaces DEF Creating
    <3>6. place' = [t \in Sessions |-> IF t \in {s} THEN "given_back" ELSE place[t]]
      BY <3>3, <3>4, Places
    <3>7. Pool!GiveBack({s})  BY <3>5, <3>6 DEF Pool!GiveBack
    <3> QED BY <3>7 DEF Pool!PoolNext
  <2>6. CASE PostSession(s)
    <3>1. /\ request' = [request EXCEPT ![s] = "body"]
          /\ session' = [session EXCEPT ![s] = session[s]]
          /\ request[s] = "none"
      BY <1>1, <2>6 DEF PostSession, RecordsInv
    <3>2. place' = [place EXCEPT ![s] = PlaceOf("body", session[s])]
      BY <1>1, <3>1, OnePlace
    <3>3. PlaceOf("body", session[s]) = place[s]
      BY <2>1, <3>1 DEF PlaceOf
    <3> QED BY <3>2, <3>3, Places
  <2>7. CASE WorkspaceMade(s) \/ CreateFails(s)
    <3>0. PICK q \in {"write", "rm"} :
              \E n : /\ request' = [request EXCEPT ![s] = q]
                     /\ session' = [session EXCEPT ![s] = n]
      BY <1>1, <2>7 DEF WorkspaceMade, CreateFails, RecordsInv
    <3>1. PICK n : request' = [request EXCEPT ![s] = q] /\ session' = [session EXCEPT ![s] = n]
      BY <3>0
    <3>2. place' = [place EXCEPT ![s] = PlaceOf(q, n)]
      BY <1>1, <3>1, OnePlace
    <3>3. PlaceOf(q, n) = "taken" /\ PlaceOf(request[s], session[s]) = "taken"
      BY <2>7 DEF PlaceOf, WorkspaceMade, CreateFails
    <3> QED BY <2>1, <3>2, <3>3, Places
  <2>8. CASE \/ \E completed \in BOOLEAN, spawned \in {"started", "error", "no_streams"} :
                    Upgrade(s, completed, spawned)
             \/ discardSessionAfterInvalidHandshake(s) \/ SocketClosed(s) \/ SessionFails(s)
             \/ touchSession(s) \/ TimerFires(s)
             \/ ClangdExits(s) \/ GraceElapsed(s) \/ WorkspaceRemoved(s)
    <3>1. UNCHANGED request
      BY <2>8 DEF Upgrade, discardSessionAfterInvalidHandshake, SocketClosed, SessionFails,
                  touchSession, TimerFires, ClangdExits, GraceElapsed, WorkspaceRemoved
    <3>2. \A t \in Sessions : InMap(session'[t]) => InMap(session[t])
      BY <1>1, <2>8, NoneEnters
    <3> QED BY <1>1, <3>1, <3>2, PlacesGivenBack
  <2> QED BY <1>2, <2>2, <2>3, <2>4, <2>5, <2>6, <2>7, <2>8 DEF Internal, External
<1>3. CASE Tick
  <2>1. UNCHANGED request  BY <1>3 DEF Tick
  <2>2. ASSUME NEW s \in Sessions PROVE session'[s].state = session[s].state
    <3>1. session'[s] = [session[s] EXCEPT !.ticket = elapse(session[s].ticket),
                                           !.idle = elapse(session[s].idle),
                                           !.absolute = elapse(session[s].absolute)]
      BY <1>3 DEF Tick
    <3>2. session[s] \in SessionRecord  BY <1>1 DEF RecordsInv
    <3> QED BY <3>1, <3>2 DEF SessionRecord
  <2> QED BY <1>1, <2>1, <2>2, PlacesGivenBack DEF InMap
<1>4. CASE Shutdown
  <2>1. UNCHANGED request  BY <1>4 DEF Shutdown
  <2>2. ASSUME NEW s \in Sessions PROVE ~InMap(session'[s])
    <3>1. session'[s] = closeSession(session[s])  BY <1>4 DEF Shutdown
    <3>2. RecordInv(request[s], session[s])  BY <1>1 DEF RecordsInv
    <3> QED BY <3>1, <3>2, CloseRecord
  <2> QED BY <1>1, <2>1, <2>2, PlacesGivenBack
<1>5. CASE UNCHANGED <<request, session>>
  BY <1>5, Places
<1> QED
  BY <1>2, <1>3, <1>4, <1>5 DEF Next, ProbeStarts, ProbeEnds, ShutdownContinues, ProcessExits, vars

\* The creation of sessions, the upgrade, the deadlines and the shutdown implement the
\* pool of places, for every number of sessions and all limits.
THEOREM SessionsImplementPool == Spec => ImplementsPool
<1>1. Init => Pool!PoolInit
  <2> SUFFICES ASSUME Init PROVE Pool!PoolInit
    OBVIOUS
  <2>1. \A s \in Sessions : PlaceOf(request[s], session[s]) = "free"
    BY DEF Init, PlaceOf
  <2> QED BY <2>1, Places DEF Pool!PoolInit
<1> QED BY <1>1, PoolSteps, SessionsInductive, PTL DEF Spec, ImplementsPool, Pool!PoolSpec

\* A limit and what is held of it.
WithinLimits == \A l \in Limits : Cardinality(Pool!Held \cap l.members) <= l.max

\* No step of the pool goes beyond a limit: only Take adds a place, under the limits.
LEMMA PoolWithinLimits ==
    ASSUME RecordsInv, WithinLimits, [Pool!PoolNext]_place
    PROVE  WithinLimits'
<1> SUFFICES ASSUME NEW l \in Limits
             PROVE  Cardinality(Pool!Held' \cap l.members) <= l.max
  BY DEF WithinLimits, Limits
<1> DEFINE H == Pool!Held \cap l.members
           K == Pool!Held' \cap l.members
<1>1. l.max \in Nat  BY LspLimitsAssumption DEF Limits
<1>2. IsFiniteSet(H) /\ Cardinality(H) \in Nat /\ Cardinality(H) <= l.max
  <2>1. IsFiniteSet(Pool!Held)
    BY LspLimitsAssumption, FS_Subset DEF Pool!Held
  <2>2. IsFiniteSet(H)  BY <2>1, FS_Subset
  <2> QED BY <2>2, FS_CardinalityType DEF WithinLimits
<1>3. CASE Pool!Held' \subseteq Pool!Held
  <2>1. K \in SUBSET H  BY <1>3
  <2>2. Cardinality(K) <= Cardinality(H) /\ Cardinality(K) \in Nat
    BY <1>2, <2>1, FS_Subset, FS_CardinalityType
  <2> HIDE DEF H, K
  <2>3. Cardinality(K) <= l.max  BY <1>1, <1>2, <2>2
  <2> QED BY <2>3 DEF K
<1>4. ASSUME NEW s \in Sessions, Pool!Take(s)
      PROVE  Cardinality(K) <= l.max
  <2>1. Pool!Held' = Pool!Held \cup {s}
    BY <1>4, Places DEF Pool!Take, Pool!Held
  <2>2. CASE s \in l.members
    <3>1. K = H \cup {s}  BY <2>1, <2>2
    <3>2. Cardinality(H) < l.max  BY <1>4, <2>2, PoolCounts DEF Pool!Take
    <3> HIDE DEF H, K
    <3>3. Cardinality(K) \in {Cardinality(H), Cardinality(H) + 1}
      BY <1>2, <3>1, FS_AddElement
    <3> QED BY <1>1, <1>2, <3>2, <3>3
  <2>3. CASE s \notin l.members
    <3>1. K = H  BY <2>1, <2>3
    <3> QED BY <1>2, <3>1
  <2> QED BY <2>2, <2>3
<1>5. ASSUME NEW s \in Sessions, Pool!Use(s) \/ Pool!Refuse(s)
      PROVE  Pool!Held' \subseteq Pool!Held
  BY <1>5, Places DEF Pool!Use, Pool!Refuse, Pool!Held
<1>6. ASSUME NEW S, Pool!GiveBack(S)
      PROVE  Pool!Held' \subseteq Pool!Held
  BY <1>6 DEF Pool!GiveBack, Pool!Held
<1>7. CASE UNCHANGED place
  BY <1>3, <1>7 DEF Pool!Held
<1> QED BY <1>3, <1>4, <1>5, <1>6, <1>7 DEF Pool!PoolNext

\* The three limits of #reserve hold in every state, over the sessions in the map and
\* those being created together.
THEOREM LimitsRespected == Spec => []SessionLimits
<1>1. Init => WithinLimits
  <2> SUFFICES ASSUME Init PROVE WithinLimits
    OBVIOUS
  <2>1. \A s \in Sessions : PlaceOf(request[s], session[s]) = "free"
    BY DEF Init, PlaceOf
  <2>2. Pool!Held = {}  BY <2>1, Places DEF Pool!Held
  <2>3. \A l \in Limits : l.max \in Nat  BY LspLimitsAssumption DEF Limits
  <2>4. Cardinality({}) = 0  BY FS_EmptySet
  <2>5. \A l \in Limits : Pool!Held \cap l.members = {}  BY <2>2
  <2> QED BY <2>3, <2>4, <2>5 DEF WithinLimits
<1>2. SessionsInv /\ WithinLimits /\ [Next]_vars => WithinLimits'
  BY PoolSteps, PoolWithinLimits DEF SessionsInv
<1>3. SessionsInv /\ WithinLimits => SessionLimits
  <2> SUFFICES ASSUME SessionsInv, WithinLimits PROVE SessionLimits
    OBVIOUS
  <2> DEFINE held == Active \cup Creating
  <2>1. held = Pool!Held /\ held \subseteq Sessions
    BY HeldPlaces, CreatingFinite DEF SessionsInv, Active
  <2>2. Cardinality(held) <= MaxSessions
    <3> DEFINE l == [members |-> Sessions, max |-> MaxSessions]
    <3>1. l \in Limits  BY DEF Limits
    <3>2. held \cap l.members = held  BY <2>1
    <3> QED BY <2>1, <3>1, <3>2 DEF WithinLimits
  <2>3. ASSUME NEW v \in Visitors
        PROVE  Cardinality({s \in held : VisitorOf[s] = v}) <= MaxSessionsPerVisitor
    <3> DEFINE l == [members |-> {s \in Sessions : VisitorOf[s] = v},
                     max |-> MaxSessionsPerVisitor]
    <3>1. l \in Limits  BY DEF Limits
    <3>2. held \cap l.members = {s \in held : VisitorOf[s] = v}  BY <2>1
    <3> QED BY <2>1, <3>1, <3>2 DEF WithinLimits
  <2>4. ASSUME NEW i \in Ips
        PROVE  Cardinality({s \in held : IpOf[s] = i}) <= MaxSessionsPerIp
    <3> DEFINE l == [members |-> {s \in Sessions : IpOf[s] = i}, max |-> MaxSessionsPerIp]
    <3>1. l \in Limits  BY DEF Limits
    <3>2. held \cap l.members = {s \in held : IpOf[s] = i}  BY <2>1
    <3> QED BY <2>1, <3>1, <3>2 DEF WithinLimits
  <2> QED BY <2>2, <2>3, <2>4 DEF SessionLimits
<1> QED BY <1>1, <1>2, <1>3, SessionsInductive, PTL DEF Spec

=============================================================================
