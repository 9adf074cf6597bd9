----------------------------- MODULE ExecutorApi -----------------------------
(***************************************************************************)
(* The shared state of executor-api (state.rs) and the tasks that work on  *)
(* it: one WebSocket task per session (http.rs), one stream task per       *)
(* worker connection (grpc.rs), the dispatcher and the maintenance loop.   *)
(*                                                                         *)
(* Every lock of AppState is held only for one step here, so an action is  *)
(* what a task does between two lock acquisitions; everything the code     *)
(* does after releasing a lock is a later step of the same task.  The      *)
(* workers' messages are arbitrary: the stream task takes whatever a       *)
(* connection may send.                                                    *)
(***************************************************************************)
EXTENDS Naturals, FiniteSets, Sequences, Queues

CONSTANTS
    Sessions,            \* execution ids (Uuid::new_v4, never reused)
    Workers,             \* worker_ids
    Conns,               \* connection ids (Uuid::new_v4, never reused)
    Visitors, Ips,
    VisitorOf, IpOf,     \* the visitor_id and client_ip of a session
    Dispatcher,          \* the task run_dispatcher
    Maintenance,         \* the task run_maintenance
    NONE,                \* Option::None
    SessionCapacity, QueueCapacity, GlobalConcurrency,
    VisitorConcurrency, IpConcurrency,
    ChannelCapacity,     \* mpsc::channel(64) towards a worker
    ReportedPhases,      \* phases a worker reports in this instance
    ReportedReasons,     \* exit reasons a worker reports in this instance
    Inputs               \* what else browsers, workers and the transport do in it

Threads == Sessions \cup Conns \cup {Dispatcher, Maintenance}

ASSUME ConstantsAssumption ==
    /\ IsFiniteSet(Sessions) /\ IsFiniteSet(Workers)
    /\ VisitorOf \in [Sessions -> Visitors]
    /\ IpOf \in [Sessions -> Ips]
    /\ Sessions \cap Conns = {}
    /\ Dispatcher \notin Sessions \cup Conns
    /\ Maintenance \notin Sessions \cup Conns
    /\ Dispatcher # Maintenance
    /\ NONE \notin Sessions \cup Workers \cup Conns
    /\ {SessionCapacity, QueueCapacity, GlobalConcurrency, VisitorConcurrency,
        IpConcurrency, ChannelCapacity} \subseteq Nat \ {0}

-----------------------------------------------------------------------------
(* Phases and exit reasons *)

ExecutionPhase == {"queued", "compiling", "running", "compile_failed", "exited",
                   "timed_out", "resource_limited", "cancelled",
                   "sandbox_violation"}

ExitReason == {"completed", "compile_failed", "timed_out", "resource_limited",
               "cancelled", "sandbox_violation", "internal_error"}

ASSUME InputsAssumption ==
    /\ ReportedPhases \subseteq ExecutionPhase
    /\ ReportedReasons \subseteq ExitReason
    /\ Inputs \subseteq {"stdin", "resize", "terminate", "lagged", "rate",
                         "hello_failed", "heartbeat", "output", "stream_ended",
                         "refused", "receiver_dropped", "expiry", "silence", "tick"}

valid_transition(from, to) ==
    \/ from = "queued" /\ to = "compiling"
    \/ from = "compiling" /\ to \in {"compile_failed", "running", "timed_out",
                                     "resource_limited", "cancelled"}
    \/ from = "running" /\ to \in {"exited", "timed_out", "resource_limited",
                                   "cancelled", "sandbox_violation"}
    \/ from = to

phase_for_exit(reason) ==
    IF reason \in {"completed", "internal_error"} THEN "exited" ELSE reason

-----------------------------------------------------------------------------
(* State *)

VARIABLES
    sessions,        \* keys of AppState.sessions
    expired,         \* those of sessions whose ticket_expires_unix has passed
    inner,           \* Session.inner of every id
    completion,      \* how far complete_session has come for a session
    queue,           \* AppState.queue
    by_visitor, by_ip, pending_activations,    \* AppState.limits
    workers,         \* AppState.workers
    worker_of,       \* the worker_id each connection registered
    outbox,          \* the mpsc channel of each connection
    closed,          \* connections whose channel receiver is gone
    permit,          \* the permit stored in dispatch_notify
    stale_workers, expiring,    \* what maintenance_once has still to visit
    pc, frame        \* where each task is, and its locals

limits == <<by_visitor, by_ip, pending_activations>>
channels == <<worker_of, outbox, closed>>
sweeping == <<stale_workers, expiring>>
tasks == <<pc, frame>>
vars == <<sessions, expired, inner, completion, queue, limits, workers,
          channels, permit, sweeping, tasks>>

SessionInner ==
    [phase: ExecutionPhase, assigned_worker: Workers \cup {NONE},
     ticket_consumed: BOOLEAN, socket_connected: BOOLEAN,
     pending_activation: BOOLEAN, limits_reserved: BOOLEAN,
     finished: BOOLEAN, limits_released: BOOLEAN]

\* connection_id = NONE stands for a worker_id that is not in the map.
WorkerHandle ==
    [connection_id: Conns \cup {NONE}, current_job: Sessions \cup {NONE},
     recently_completed_job: Sessions \cup {NONE}, stale: BOOLEAN]

\* Steps of complete_session still to be done, and what it keeps in locals.
CompletionStep == {"none", "limits", "worker", "remove", "done"}
Completion == [step: CompletionStep, worker: Workers \cup {NONE}]

Command == {"assign", "stdin", "resize", "cancel"}
Message == [kind: Command, job: Sessions]

\* Where a task is; Resume is where a subroutine may send it back to.
Label == {"idle", "upgrade", "activate", "open", "disconnected", "closed",
          "cancel", "retain", "complete", "await", "send", "sender",
          "unregister", "notify", "apply", "loop", "assign", "push_front",
          "sweep", "expire"}
Resume == {"open", "closed", "disconnected", "limited", "loop", "sweep", "expire"}

Frame == [session: Sessions \cup {NONE}, worker: Workers \cup {NONE},
          conn: Conns \cup {NONE}, phase: ExecutionPhase, command: Command,
          payload: {"phase", "output", "exit"}, unregistering: BOOLEAN,
          next: Resume]

NewInner == [phase |-> "queued", assigned_worker |-> NONE,
             ticket_consumed |-> FALSE, socket_connected |-> FALSE,
             pending_activation |-> FALSE, limits_reserved |-> FALSE,
             finished |-> FALSE, limits_released |-> FALSE]
NoHandle == [connection_id |-> NONE, current_job |-> NONE,
             recently_completed_job |-> NONE, stale |-> FALSE]
NoFrame == [session |-> NONE, worker |-> NONE, conn |-> NONE,
            phase |-> "queued", command |-> "stdin", payload |-> "phase",
            unregistering |-> FALSE, next |-> "closed"]

Init ==
    /\ sessions = {} /\ expired = {}
    /\ inner = [s \in Sessions |-> NewInner]
    /\ completion = [s \in Sessions |-> [step |-> "none", worker |-> NONE]]
    /\ queue = <<>>
    /\ by_visitor = [v \in Visitors |-> 0]
    /\ by_ip = [i \in Ips |-> 0]
    /\ pending_activations = 0
    /\ workers = [w \in Workers |-> NoHandle]
    /\ worker_of = [c \in Conns |-> NONE]
    /\ outbox = [c \in Conns |-> <<>>] /\ closed = {}
    /\ permit = FALSE
    /\ stale_workers = {} /\ expiring = {}
    /\ pc = [t \in Threads |-> IF t = Dispatcher THEN "loop" ELSE "idle"]
    /\ frame = [t \in Threads |-> NoFrame]

-----------------------------------------------------------------------------
(* Control flow of a task.  Call starts a subroutine with the locals f, and *)
(* the subroutine ends at f.next.  The rate limiter of websocket_session   *)
(* is the one caller that looks at the result.                             *)

Goto(t, label) == pc' = [pc EXCEPT ![t] = label]

Call(t, label, f) == Goto(t, label) /\ frame' = [frame EXCEPT ![t] = f]

Continue(t, next, ok) ==
    Call(t, IF next = "limited" THEN IF ok THEN "closed" ELSE "disconnected"
            ELSE next, NoFrame)

Return(t, ok) == Continue(t, frame[t].next, ok)

\* Mutant of Registered: the worker_id alone, whatever its connection.
registered_by_id(w, c) == workers[w].connection_id # NONE

Registered(w, c) == c # NONE /\ workers[w].connection_id = c
Idle(w) == workers[w].connection_id # NONE /\ workers[w].current_job = NONE
Busy == {w \in Workers : workers[w].current_job # NONE}

\* Mutant of HasRoom: off by one.
has_room_for_one_more == Cardinality(Busy) <= GlobalConcurrency

HasRoom == Cardinality(Busy) < GlobalConcurrency

-----------------------------------------------------------------------------
(* complete_session.  The finished flag lets one caller through; from then *)
(* on the steps belong to the session and the caller awaits the last one.  *)

Completed(t) == IF frame[t].unregistering
                THEN Goto(t, "notify") /\ UNCHANGED frame
                ELSE Return(t, TRUE)

complete_session(t) ==
    LET s == frame[t].session IN
    /\ pc[t] = "complete"
    /\ \/ /\ inner[s].finished
          /\ Completed(t)
          /\ UNCHANGED <<inner, completion>>
       \/ /\ ~inner[s].finished
          /\ inner' = [inner EXCEPT ![s] = [@ EXCEPT
                           !.phase = frame[t].phase, !.finished = TRUE,
                           !.assigned_worker = NONE]]
          /\ completion' = [completion EXCEPT ![s] =
                [step |-> "limits", worker |-> inner[s].assigned_worker]]
          /\ Goto(t, "await")
          /\ UNCHANGED frame
    /\ UNCHANGED <<sessions, expired, queue, limits, workers, channels, permit,
                   sweeping>>

\* Mutant of Decrement: the map entry is removed, not decremented.
remove_entry(n) == 0

\* saturating_sub, and decrement: an absent key and a zero are the same here.
Decrement(n) == IF n = 0 THEN 0 ELSE n - 1

\* No other task touches the flags of a finished session, so the two locks of
\* release_limits are one step.
release_limits(s) ==
    LET held == ~inner[s].limits_released /\ inner[s].limits_reserved IN
    /\ completion[s].step = "limits"
    /\ IF held
       THEN /\ inner' = [inner EXCEPT ![s] = [@ EXCEPT
                             !.limits_released = TRUE,
                             !.pending_activation = FALSE,
                             !.limits_reserved = FALSE]]
            /\ pending_activations' = IF inner[s].pending_activation
                                      THEN Decrement(pending_activations)
                                      ELSE pending_activations
            /\ by_visitor' = [by_visitor EXCEPT ![VisitorOf[s]] = Decrement(@)]
            /\ by_ip' = [by_ip EXCEPT ![IpOf[s]] = Decrement(@)]
       ELSE UNCHANGED <<inner, limits>>
    /\ completion' = [completion EXCEPT ![s].step = "worker"]
    /\ UNCHANGED <<sessions, expired, queue, workers, channels, permit,
                   sweeping, tasks>>

\* Mutant of free_worker: current_job is left in place.
keep_worker(s) ==
    /\ completion[s].step = "worker"
    /\ completion' = [completion EXCEPT ![s].step = "remove"]
    /\ UNCHANGED <<sessions, expired, inner, queue, limits, workers, channels,
                   permit, sweeping, tasks>>

free_worker(s) ==
    LET w == completion[s].worker IN
    /\ completion[s].step = "worker"
    /\ workers' = IF w # NONE /\ workers[w].current_job = s
                  THEN [workers EXCEPT ![w] = [@ EXCEPT
                           !.current_job = NONE, !.recently_completed_job = s]]
                  ELSE workers
    /\ completion' = [completion EXCEPT ![s].step = "remove"]
    /\ UNCHANGED <<sessions, expired, inner, queue, limits, channels, permit,
                   sweeping, tasks>>

remove_session(t) ==
    LET s == frame[t].session IN
    /\ pc[t] = "await" /\ completion[s].step = "remove"
    /\ sessions' = sessions \ {s} /\ expired' = expired \ {s}
    /\ permit' = TRUE
    /\ completion' = [completion EXCEPT ![s].step = "done"]
    /\ Completed(t)
    /\ UNCHANGED <<inner, queue, limits, workers, channels, sweeping>>

-----------------------------------------------------------------------------
(* unregister_worker.  A job that is not in the map any more is finished,  *)
(* which complete_session finds out.                                       *)

\* Mutants of fail_job: the job of the lost worker is forgotten; an idle worker
\* is taken to have had one.
forget_job(t, job) == Goto(t, "notify") /\ UNCHANGED frame

fail_no_job(t, job) ==
    Call(t, "complete", [frame[t] EXCEPT !.session = job, !.phase = "exited",
                                         !.unregistering = TRUE])

fail_job(t, job) ==
    IF job = NONE
    THEN Goto(t, "notify") /\ UNCHANGED frame
    ELSE Call(t, "complete", [frame[t] EXCEPT !.session = job, !.phase = "exited",
                                              !.unregistering = TRUE])

unregister_worker(t) ==
    LET w == frame[t].worker IN
    /\ pc[t] = "unregister"
    /\ \/ /\ ~Registered(w, frame[t].conn)
          /\ Return(t, FALSE)
          /\ UNCHANGED workers
       \/ /\ Registered(w, frame[t].conn)
          /\ workers' = [workers EXCEPT ![w] = NoHandle]
          /\ fail_job(t, workers[w].current_job)
    /\ UNCHANGED <<sessions, expired, inner, completion, queue, limits, channels,
                   permit, sweeping>>

\* Mutant of notify_one: a signal that is lost when nobody waits for it.
signal(t) ==
    /\ pc[t] = "notify"
    /\ permit' = (permit \/ pc[Dispatcher] = "idle")
    /\ Return(t, FALSE)
    /\ UNCHANGED <<sessions, expired, inner, completion, queue, limits, workers,
                   channels, sweeping>>

notify_one(t) ==
    /\ pc[t] = "notify"
    /\ permit' = TRUE
    /\ Return(t, FALSE)
    /\ UNCHANGED <<sessions, expired, inner, completion, queue, limits, workers,
                   channels, sweeping>>

-----------------------------------------------------------------------------
(* cancel_execution and resource_limit_execution (they differ in the phase *)
(* they complete an unassigned session with), and send_command.            *)

Cancel(t, s, phase, next) ==
    LET f == [NoFrame EXCEPT !.session = s, !.phase = phase, !.next = next,
                             !.command = "cancel"] IN
    CASE inner[s].finished -> Continue(t, next, TRUE)
      [] ~inner[s].finished /\ inner[s].assigned_worker = NONE ->
             Call(t, "retain", f)
      [] OTHER -> Call(t, "send", f)

\* A session is queued at most once (QueuedOnce), so retain drops one entry.
retain_queue(t) ==
    /\ pc[t] = "retain"
    /\ queue' = Without(queue, frame[t].session)
    /\ Goto(t, "complete")
    /\ UNCHANGED <<sessions, expired, inner, completion, limits,
                   workers, channels, permit, sweeping, frame>>

send_command(t) ==
    LET w == inner[frame[t].session].assigned_worker IN
    /\ pc[t] = "send"
    /\ IF w = NONE THEN Return(t, FALSE)
                   ELSE Call(t, "sender", [frame[t] EXCEPT !.worker = w])
    /\ UNCHANGED <<sessions, expired, inner, completion, queue, limits,
                   workers, channels, permit, sweeping>>

Full(c) == Len(outbox[c]) >= ChannelCapacity

\* try_send follows the lookup at once; it reports Closed before Full.
lookup_and_send(t) ==
    LET c == workers[frame[t].worker].connection_id IN
    /\ pc[t] = "sender"
    /\ CASE c = NONE -> Return(t, FALSE) /\ UNCHANGED outbox
         [] c \in closed -> /\ Call(t, "unregister", [frame[t] EXCEPT !.conn = c])
                            /\ UNCHANGED outbox
         [] c \in Conns \ closed /\ Full(c) ->
                Return(t, FALSE) /\ UNCHANGED outbox
         [] OTHER ->
                /\ outbox' = [outbox EXCEPT ![c] =
                      Append(@, [kind |-> frame[t].command,
                                 job |-> frame[t].session])]
                /\ Return(t, TRUE)
    /\ UNCHANGED <<sessions, expired, inner, completion, queue, limits, workers,
                   worker_of, closed, permit, sweeping>>

-----------------------------------------------------------------------------
(* The WebSocket task of a session: http.rs, create_execution to           *)
(* websocket_session's last cancel.                                        *)

create_execution(s) ==
    /\ s \notin sessions /\ ~inner[s].finished
    /\ Cardinality(sessions) < SessionCapacity
    /\ sessions' = sessions \cup {s}
    /\ UNCHANGED <<expired, inner, completion, queue, limits, workers, channels,
                   permit, sweeping, tasks>>

\* Mutant of QueueHasRoom: reserved places are not counted.
queue_ignoring_pending == Len(queue) < QueueCapacity

QueueHasRoom == Len(queue) + pending_activations < QueueCapacity

consume_ticket(s) ==
    /\ pc[s] = "idle"
    /\ s \in sessions \ expired
    /\ ~inner[s].ticket_consumed /\ ~inner[s].finished
    /\ QueueHasRoom
    /\ by_visitor[VisitorOf[s]] < VisitorConcurrency
    /\ by_ip[IpOf[s]] < IpConcurrency
    /\ by_visitor' = [by_visitor EXCEPT ![VisitorOf[s]] = @ + 1]
    /\ by_ip' = [by_ip EXCEPT ![IpOf[s]] = @ + 1]
    /\ pending_activations' = pending_activations + 1
    /\ inner' = [inner EXCEPT ![s] = [@ EXCEPT
                     !.ticket_consumed = TRUE, !.pending_activation = TRUE,
                     !.limits_reserved = TRUE]]
    /\ Goto(s, "upgrade")
    /\ UNCHANGED <<sessions, expired, completion, queue, workers,
                   channels, permit, sweeping, frame>>

MayActivate(s) == /\ inner[s].ticket_consumed /\ inner[s].pending_activation
                  /\ ~inner[s].finished

activate_session(s) ==
    /\ pc[s] = "upgrade"
    /\ \/ /\ ~MayActivate(s)
          /\ Cancel(s, s, "cancelled", "closed")
          /\ UNCHANGED inner
       \/ /\ MayActivate(s)
          /\ inner' = [inner EXCEPT ![s] = [@ EXCEPT
                           !.pending_activation = FALSE,
                           !.socket_connected = TRUE]]
          /\ Goto(s, "activate")
          /\ UNCHANGED frame
    /\ UNCHANGED <<sessions, expired, completion, queue, limits,
                   workers, channels, permit, sweeping>>

enqueue_session(s) ==
    /\ pc[s] = "activate"
    /\ pending_activations' = Decrement(pending_activations)
    /\ queue' = Append(queue, s)
    /\ Call(s, "notify", [NoFrame EXCEPT !.next = "open"])
    /\ UNCHANGED <<sessions, expired, inner, completion, by_visitor,
                   by_ip, workers, channels, permit, sweeping>>

\* The socket is lost before the hello or the snapshot could be sent.
hello_failed(s) ==
    /\ pc[s] = "upgrade"
    /\ Cancel(s, s, "cancelled", "closed")
    /\ UNCHANGED <<sessions, expired, inner, completion, queue, limits,
                   workers, channels, permit, sweeping>>

Forward(s, command) ==
    /\ pc[s] = "open"
    /\ Call(s, "send", [NoFrame EXCEPT !.session = s, !.command = command,
                                       !.next = "open"])
    /\ UNCHANGED <<sessions, expired, inner, completion, queue, limits,
                   workers, channels, permit, sweeping>>

send_stdin(s) == /\ inner[s].phase = "running" /\ ~inner[s].finished
                 /\ Forward(s, "stdin")

resize(s) == Forward(s, "resize")

\* Terminate keeps the socket open, Lagged breaks the loop, which cancels again.
client_cancel(s, next) ==
    /\ pc[s] = "open"
    /\ Cancel(s, s, "cancelled", next)
    /\ UNCHANGED <<sessions, expired, inner, completion, queue, limits,
                   workers, channels, permit, sweeping>>

terminate(s) == client_cancel(s, "open")

lagged(s) == client_cancel(s, "disconnected")

rate_exceeded(s) ==
    /\ pc[s] = "open"
    /\ Cancel(s, s, "resource_limited", "limited")
    /\ UNCHANGED <<sessions, expired, inner, completion, queue, limits,
                   workers, channels, permit, sweeping>>

\* The loop ended: socket closed, receive error, or the exit event was sent.
websocket_disconnected(s) ==
    /\ pc[s] \in {"open", "disconnected"}
    /\ Cancel(s, s, "cancelled", "closed")
    /\ UNCHANGED <<sessions, expired, inner, completion, queue, limits,
                   workers, channels, permit, sweeping>>

-----------------------------------------------------------------------------
(* The stream task of a worker connection: grpc.rs, work and               *)
(* process_worker_stream.                                                  *)

register_worker(w, c) ==
    /\ pc[c] = "idle"
    /\ workers[w].connection_id = NONE
    /\ workers' = [workers EXCEPT ![w] = [NoHandle EXCEPT !.connection_id = c]]
    /\ worker_of' = [worker_of EXCEPT ![c] = w]
    /\ Call(c, "notify", [NoFrame EXCEPT !.next = "open"])
    /\ UNCHANGED <<sessions, expired, inner, completion, queue, limits,
                   outbox, closed, permit, sweeping>>

\* A refused message ends the stream, and so does the end of the connection.
BreakStream(c) ==
    Call(c, "unregister", [NoFrame EXCEPT !.worker = worker_of[c], !.conn = c,
                                          !.next = "closed"])

stream_ended(c) ==
    /\ pc[c] = "open"
    /\ BreakStream(c)
    /\ UNCHANGED <<sessions, expired, inner, completion, queue, limits,
                   workers, channels, permit, sweeping>>

\* recently_completed_job counts for 5 seconds, so it may or may not help.
heartbeat(c, reported) ==
    LET w == worker_of[c]
        current == workers[w].current_job
        recent == /\ current = NONE /\ reported # NONE
                  /\ workers[w].recently_completed_job = reported IN
    /\ pc[c] = "open"
    /\ \/ /\ Registered(w, c) /\ (current = reported \/ recent)
          /\ workers' = [workers EXCEPT ![w].stale = FALSE]
          /\ UNCHANGED tasks
       \/ /\ ~Registered(w, c) \/ current # reported
          /\ BreakStream(c)
          /\ UNCHANGED workers
    /\ UNCHANGED <<sessions, expired, inner, completion, queue, limits,
                   channels, permit, sweeping>>

handle_worker_event(c, s, payload, phase) ==
    LET w == worker_of[c] IN
    /\ pc[c] = "open"
    /\ Registered(w, c) /\ workers[w].current_job = s
    /\ workers' = [workers EXCEPT ![w].stale = FALSE]
    /\ Call(c, "apply", [NoFrame EXCEPT !.session = s, !.phase = phase,
                                        !.payload = payload, !.next = "open"])
    /\ UNCHANGED <<sessions, expired, inner, completion, queue, limits,
                   channels, permit, sweeping>>

refuse_worker_event(c, s) ==
    LET w == worker_of[c] IN
    /\ pc[c] = "open"
    /\ ~Registered(w, c) \/ workers[w].current_job # s
    /\ BreakStream(c)
    /\ UNCHANGED <<sessions, expired, inner, completion, queue, limits, workers,
                   channels, permit, sweeping>>

\* Mutant of apply_phase: a finished session still takes the phase.
apply_late_phase(c) ==
    /\ pc[c] = "apply" /\ frame[c].payload = "phase"
    /\ inner' = [inner EXCEPT ![frame[c].session].phase = frame[c].phase]
    /\ Return(c, TRUE)
    /\ UNCHANGED <<sessions, expired, completion, queue, limits,
                   workers, channels, permit, sweeping>>

apply_phase(c) ==
    LET s == frame[c].session
        phase == frame[c].phase IN
    /\ pc[c] = "apply" /\ frame[c].payload = "phase"
    /\ CASE inner[s].finished -> Return(c, TRUE) /\ UNCHANGED inner
         [] ~inner[s].finished /\ ~valid_transition(inner[s].phase, phase) ->
                BreakStream(c) /\ UNCHANGED inner
         [] OTHER -> /\ inner' = [inner EXCEPT ![s].phase = phase]
                     /\ Return(c, TRUE)
    /\ UNCHANGED <<sessions, expired, completion, queue, limits,
                   workers, channels, permit, sweeping>>

\* Output within the limits only reaches the browser.
apply_output(c) ==
    /\ pc[c] = "apply" /\ frame[c].payload = "output"
    /\ Return(c, TRUE) \/ Cancel(c, frame[c].session, "cancelled", "open")
    /\ UNCHANGED <<sessions, expired, inner, completion, queue, limits,
                   workers, channels, permit, sweeping>>

apply_exit(c) ==
    /\ pc[c] = "apply" /\ frame[c].payload = "exit"
    /\ Goto(c, "complete")
    /\ UNCHANGED <<sessions, expired, inner, completion, queue, limits,
                   workers, channels, permit, sweeping, frame>>

-----------------------------------------------------------------------------
(* run_dispatcher *)

notified ==
    /\ pc[Dispatcher] = "idle" /\ permit
    /\ permit' = FALSE
    /\ Goto(Dispatcher, "loop")
    /\ UNCHANGED <<sessions, expired, inner, completion, queue, limits,
                   workers, channels, sweeping, frame>>

\* Mutant of pop_front: the job is read and left in the queue.
peek_front ==
    /\ pc[Dispatcher] = "loop" /\ queue # <<>>
    /\ Call(Dispatcher, "assign", [NoFrame EXCEPT !.session = Head(queue),
                                                  !.next = "loop"])
    /\ UNCHANGED <<sessions, expired, inner, completion, queue, limits,
                   workers, channels, permit, sweeping>>

pop_front ==
    /\ pc[Dispatcher] = "loop"
    /\ \/ /\ queue = <<>>
          /\ Goto(Dispatcher, "idle")
          /\ UNCHANGED <<queue, frame>>
       \/ /\ queue # <<>>
          /\ queue' = Tail(queue)
          /\ Call(Dispatcher, "assign", [NoFrame EXCEPT !.session = Head(queue),
                                                        !.next = "loop"])
    /\ UNCHANGED <<sessions, expired, inner, completion, limits,
                   workers, channels, permit, sweeping>>

CanRun == HasRoom /\ \E w \in Workers : Idle(w)

\* The first free worker in the map's order, which is arbitrary.
assign_job(w) ==
    LET s == frame[Dispatcher].session
        c == workers[w].connection_id IN
    /\ HasRoom /\ Idle(w)
    /\ IF c \in closed \/ Full(c)
       THEN /\ Call(Dispatcher, "push_front", [frame[Dispatcher] EXCEPT
                                                  !.worker = w, !.conn = c])
            /\ UNCHANGED <<inner, workers, outbox>>
       ELSE /\ outbox' = [outbox EXCEPT ![c] =
                             Append(@, [kind |-> "assign", job |-> s])]
            /\ workers' = [workers EXCEPT ![w].current_job = s]
            /\ inner' = [inner EXCEPT ![s].assigned_worker = w]
            /\ Return(Dispatcher, TRUE)

try_dispatch_one ==
    LET s == frame[Dispatcher].session IN
    /\ pc[Dispatcher] = "assign"
    /\ \/ /\ inner[s].finished
          /\ Return(Dispatcher, TRUE)
          /\ UNCHANGED <<inner, workers, outbox>>
       \/ /\ ~inner[s].finished /\ ~CanRun
          /\ Goto(Dispatcher, "push_front")
          /\ UNCHANGED <<inner, workers, outbox, frame>>
       \/ ~inner[s].finished /\ \E w \in Workers : assign_job(w)
    /\ UNCHANGED <<sessions, expired, completion, queue, limits,
                   worker_of, closed, permit, sweeping>>

push_front ==
    /\ pc[Dispatcher] = "push_front"
    /\ queue' = PushFront(frame[Dispatcher].session, queue)
    /\ IF frame[Dispatcher].worker = NONE
       THEN Call(Dispatcher, "idle", NoFrame)
       ELSE Goto(Dispatcher, "unregister") /\ UNCHANGED frame
    /\ UNCHANGED <<sessions, expired, inner, completion, limits,
                   workers, channels, permit, sweeping>>

-----------------------------------------------------------------------------
(* run_maintenance *)

collect_stale ==
    /\ pc[Maintenance] = "idle"
    /\ stale_workers' = {<<w, workers[w].connection_id>> :
                             w \in {w \in Workers : workers[w].stale}}
    /\ Goto(Maintenance, "sweep")
    /\ UNCHANGED <<sessions, expired, inner, completion, queue, limits,
                   workers, channels, permit, expiring, frame>>

sweep_worker ==
    /\ pc[Maintenance] = "sweep"
    /\ \E wc \in stale_workers :
          /\ stale_workers' = stale_workers \ {wc}
          /\ Call(Maintenance, "unregister",
                  [NoFrame EXCEPT !.worker = wc[1], !.conn = wc[2],
                                  !.next = "sweep"])
    /\ UNCHANGED <<sessions, expired, inner, completion, queue, limits,
                   workers, channels, permit, expiring>>

\* The sessions are copied; those whose ticket is still good are passed over.
collect_sessions ==
    /\ pc[Maintenance] = "sweep" /\ stale_workers = {}
    /\ expiring' = expired
    /\ Goto(Maintenance, "expire")
    /\ UNCHANGED <<sessions, expired, inner, completion, queue, limits,
                   workers, channels, permit, stale_workers, frame>>

\* Mutant of Abandoned: a consumed ticket is taken for a connected socket.
unused(s) == ~inner[s].ticket_consumed /\ ~inner[s].finished

Abandoned(s) == ~inner[s].socket_connected /\ ~inner[s].finished

expire_session(s) ==
    /\ pc[Maintenance] = "expire" /\ s \in expiring
    /\ expiring' = expiring \ {s}
    /\ IF Abandoned(s)
       THEN Call(Maintenance, "cancel", [NoFrame EXCEPT !.session = s])
       ELSE UNCHANGED tasks
    /\ UNCHANGED <<sessions, expired, inner, completion, queue, limits,
                   workers, channels, permit, stale_workers>>

cancel_expired ==
    /\ pc[Maintenance] = "cancel"
    /\ Cancel(Maintenance, frame[Maintenance].session, "cancelled", "expire")
    /\ UNCHANGED <<sessions, expired, inner, completion, queue, limits,
                   workers, channels, permit, sweeping>>

maintenance_done ==
    /\ pc[Maintenance] = "expire" /\ expiring = {}
    /\ Goto(Maintenance, "idle")
    /\ UNCHANGED <<sessions, expired, inner, completion, queue, limits,
                   workers, channels, permit, sweeping, frame>>

-----------------------------------------------------------------------------
(* The world around the tasks: time, and the gRPC transport, which drains  *)
(* the channel of a connection and drops its receiver when it breaks.      *)

ticket_expires(s) ==
    /\ s \in sessions \ expired
    /\ expired' = expired \cup {s}
    /\ UNCHANGED <<sessions, inner, completion, queue, limits, workers,
                   channels, permit, sweeping, tasks>>

\* worker_stale_after has passed since last_seen.
silence(w) ==
    /\ workers[w].connection_id # NONE /\ ~workers[w].stale
    /\ workers' = [workers EXCEPT ![w].stale = TRUE]
    /\ UNCHANGED <<sessions, expired, inner, completion, queue, limits,
                   channels, permit, sweeping, tasks>>

deliver(c) ==
    /\ outbox[c] # <<>>
    /\ outbox' = [outbox EXCEPT ![c] = Tail(@)]
    /\ UNCHANGED <<sessions, expired, inner, completion, queue, limits,
                   workers, worker_of, closed, permit, sweeping, tasks>>

receiver_dropped(c) ==
    /\ worker_of[c] # NONE /\ c \notin closed
    /\ closed' = closed \cup {c}
    /\ outbox' = [outbox EXCEPT ![c] = <<>>]
    /\ UNCHANGED <<sessions, expired, inner, completion, queue, limits,
                   workers, worker_of, permit, sweeping, tasks>>

-----------------------------------------------------------------------------
(* Specification *)

Completing(s) == release_limits(s) \/ free_worker(s)

Subroutine(t) ==
    \/ complete_session(t) \/ remove_session(t)
    \/ unregister_worker(t) \/ notify_one(t)
    \/ retain_queue(t) \/ send_command(t) \/ lookup_and_send(t)

Browser(s) ==
    \/ create_execution(s)
    \/ consume_ticket(s)
    \/ "stdin" \in Inputs /\ send_stdin(s)
    \/ "resize" \in Inputs /\ resize(s)
    \/ "terminate" \in Inputs /\ terminate(s)
    \/ "lagged" \in Inputs /\ lagged(s)
    \/ "rate" \in Inputs /\ rate_exceeded(s)
    \/ "hello_failed" \in Inputs /\ hello_failed(s)

WebSocketTask(s) ==
    \/ activate_session(s) \/ enqueue_session(s) \/ websocket_disconnected(s)

WorkerMessage(c) ==
    \/ \E w \in Workers : register_worker(w, c)
    \/ "stream_ended" \in Inputs /\ stream_ended(c)
    \/ "heartbeat" \in Inputs /\ \E j \in Sessions \cup {NONE} : heartbeat(c, j)
    \/ \E j \in Sessions :
          \/ \E p \in ReportedPhases : handle_worker_event(c, j, "phase", p)
          \/ "refused" \in Inputs /\ refuse_worker_event(c, j)
          \/ "output" \in Inputs /\ handle_worker_event(c, j, "output", "queued")
          \/ \E r \in ReportedReasons :
                handle_worker_event(c, j, "exit", phase_for_exit(r))

StreamTask(c) == apply_phase(c) \/ apply_output(c) \/ apply_exit(c)

run_dispatcher == notified \/ pop_front \/ try_dispatch_one \/ push_front

maintenance_once ==
    \/ "tick" \in Inputs /\ collect_stale
    \/ sweep_worker \/ collect_sessions
    \/ \E s \in Sessions : expire_session(s)
    \/ cancel_expired \/ maintenance_done

World ==
    \/ "expiry" \in Inputs /\ \E s \in Sessions : ticket_expires(s)
    \/ "silence" \in Inputs /\ \E w \in Workers : silence(w)
    \/ \E c \in Conns : deliver(c)
    \/ "receiver_dropped" \in Inputs /\ \E c \in Conns : receiver_dropped(c)

Next ==
    \/ \E s \in Sessions : Completing(s) \/ Browser(s) \/ WebSocketTask(s)
    \/ \E t \in Threads : Subroutine(t)
    \/ \E c \in Conns : WorkerMessage(c) \/ StreamTask(c)
    \/ run_dispatcher
    \/ maintenance_once
    \/ World

Spec == Init /\ [][Next]_vars

\* The runtime polls a task that can go on, and the maintenance interval ticks.
\* Nothing is promised of browsers, workers, time or the transport.
Fairness ==
    /\ \A s \in Sessions : WF_vars(Completing(s))
    /\ \A t \in Threads : WF_vars(Subroutine(t))
    /\ \A s \in Sessions : WF_vars(enqueue_session(s))
    /\ \A c \in Conns : WF_vars(StreamTask(c))
    /\ WF_vars(run_dispatcher)
    /\ WF_vars(maintenance_once)

FairSpec == Spec /\ Fairness

\* As much of it as the sweep for expired sessions needs.
SweepSpec ==
    /\ Spec
    /\ WF_vars(\E s \in Sessions : Completing(s))
    /\ WF_vars(\E t \in Threads : Subroutine(t))
    /\ WF_vars(maintenance_once)

-----------------------------------------------------------------------------
(* Properties *)

\* Types, and that a task holds the locals its next step reads.
LocalsOK(label, f) ==
    /\ label \in {"cancel", "retain", "complete", "await", "send", "sender",
                  "apply", "assign", "push_front"} => f.session \in Sessions
    /\ label \in {"sender", "unregister"} => f.worker \in Workers
TasksOK ==
    /\ pc \in [Threads -> Label] /\ frame \in [Threads -> Frame]
    /\ \A t \in Threads : LocalsOK(pc[t], frame[t])
DataOK ==
    /\ sessions \subseteq Sessions /\ expired \subseteq sessions
    /\ inner \in [Sessions -> SessionInner]
    /\ completion \in [Sessions -> Completion]
    /\ queue \in Seq(Sessions)
    /\ by_visitor \in [Visitors -> Nat] /\ by_ip \in [Ips -> Nat]
    /\ pending_activations \in Nat
    /\ workers \in [Workers -> WorkerHandle]
    /\ worker_of \in [Conns -> Workers \cup {NONE}]
    /\ outbox \in [Conns -> Seq(Message)] /\ closed \subseteq Conns
    /\ permit \in BOOLEAN
    /\ stale_workers \subseteq Workers \X (Conns \cup {NONE})
    /\ expiring \subseteq Sessions
TypeOK == /\ DataOK /\ TasksOK
          /\ \A c \in Conns : pc[c] # "idle" => worker_of[c] \in Workers

InHand(s) == /\ pc[Dispatcher] \in {"assign", "push_front"}
             /\ frame[Dispatcher].session = s
Queued(s) == s \in Range(queue)

\* The counters of LimitState are the number of sessions that hold a
\* reservation, whatever cancels, expiries and completions interleave:
\* release_limits neither leaks a reservation nor gives one back twice.
Pending(s) == inner[s].pending_activation \/ pc[s] = "activate"
LimitsExact ==
    /\ \A v \in Visitors : by_visitor[v] =
          Cardinality({s \in Sessions : inner[s].limits_reserved /\ VisitorOf[s] = v})
    /\ \A i \in Ips : by_ip[i] =
          Cardinality({s \in Sessions : inner[s].limits_reserved /\ IpOf[s] = i})
    /\ pending_activations = Cardinality({s \in Sessions : Pending(s)})

\* The executions that run at one time respect the three concurrency limits.
ConcurrencyLimits ==
    LET running == {s \in Sessions : inner[s].assigned_worker # NONE} IN
    /\ Cardinality(Busy) <= GlobalConcurrency
    /\ \A v \in Visitors :
          Cardinality({s \in running : VisitorOf[s] = v}) <= VisitorConcurrency
    /\ \A i \in Ips : Cardinality({s \in running : IpOf[s] = i}) <= IpConcurrency

\* What waits is bounded, in spite of try_dispatch_one taking a job out of the
\* queue and putting it back: by one more than queue_capacity.
QueueBound ==
    Len(queue) + pending_activations
        + Cardinality({s \in Sessions : InHand(s)}) <= QueueCapacity + 1

\* A session is in at most one place: once in the queue, in the dispatcher's
\* hand, or assigned.  push_front and a late enqueue never make it run twice.
QueuedOnce ==
    /\ IsInjective(queue)
    /\ \A s \in Sessions :
          /\ Queued(s) => ~InHand(s)
          /\ Queued(s) \/ InHand(s) => inner[s].assigned_worker = NONE

\* A worker's current_job and the session's assigned_worker agree, but for the
\* moments the code leaves between its locks: a finished session still frees
\* its worker, and an unregistered worker's job is about to be failed.
Failing(s) == \E t \in Threads :
    /\ pc[t] = "complete"
    /\ frame[t].unregistering /\ frame[t].session = s
AssignmentConsistent ==
    /\ \A w \in Workers : \A s \in Sessions : workers[w].current_job = s =>
          IF inner[s].finished
          THEN /\ completion[s].worker = w
               /\ completion[s].step \in {"limits", "worker"}
          ELSE inner[s].assigned_worker = w
    /\ \A s \in Sessions : \A w \in Workers : inner[s].assigned_worker = w =>
          workers[w].current_job = s \/ Failing(s)

\* The dispatcher never sleeps on work it could do: when a job waits and a
\* worker could take it, a permit is stored or some task is about to store it.
WakeupDue ==
    \/ permit
    \/ \E s \in Sessions : completion[s].step = "remove"
    \/ \E t \in Threads :
          \/ pc[t] = "notify"
          \/ pc[t] \in {"complete", "await"} /\ frame[t].unregistering
NoLostWakeup ==
    pc[Dispatcher] = "idle" /\ queue # <<>> /\ CanRun => WakeupDue

\* The inductive invariant behind AssignmentConsistent and QueuedOnce.  A session
\* that activate_session has not enqueued yet is nowhere; finished and the steps
\* of complete_session go together; a worker_id outside the map has no job.
Early == {"idle", "upgrade", "activate"}
AssignmentInv ==
    /\ AssignmentConsistent /\ QueuedOnce
    /\ \A s \in Sessions :
          /\ inner[s].finished <=> completion[s].step # "none"
          /\ inner[s].finished => inner[s].assigned_worker = NONE
          /\ pc[s] \in Early =>
                ~Queued(s) /\ ~InHand(s) /\ inner[s].assigned_worker = NONE
    /\ \A w \in Workers :
          workers[w].connection_id = NONE => workers[w].current_job = NONE

\* The inductive invariant behind NoLostWakeup: from the moment try_dispatch_one
\* decides to put a job back, a worker that becomes free wakes the dispatcher.
Waiting == \/ pc[Dispatcher] = "idle" /\ queue # <<>>
           \/ pc[Dispatcher] = "push_front" /\ frame[Dispatcher].worker = NONE
WakeupInv == Waiting /\ CanRun => WakeupDue

\* Once finished, a session keeps its phase and is never assigned again,
\* whatever worker events, cancels and dispatches still hold a reference to it.
FinishedIsFinal ==
    [][\A s \in Sessions : inner[s].finished =>
          /\ inner'[s].finished /\ inner'[s].phase = inner[s].phase
          /\ inner'[s].assigned_worker = NONE]_vars

\* A worker leaves the map only by an unregister for its own connection: the
\* end of an old connection never removes the worker's new one.
GenerationSafe ==
    [][\A w \in Workers :
          LET c == workers[w].connection_id IN
          c # NONE /\ workers'[w].connection_id # c =>
              \E t \in Threads : /\ pc[t] = "unregister"
                                 /\ frame[t].worker = w /\ frame[t].conn = c]_vars

\* A waiting job does not wait for ever while a worker could take it.
DispatchProgress ==
    (\E s \in Sessions : Queued(s) /\ ~inner[s].finished) /\ CanRun
    ~> ~((\E s \in Sessions : Queued(s) /\ ~inner[s].finished) /\ CanRun)

\* A finished session leaves the map, and its worker and its reservations are
\* free again.
FinishedIsReleased ==
    \A s \in Sessions : inner[s].finished ~>
        /\ s \notin sessions /\ ~inner[s].limits_reserved
        /\ \A w \in Workers : workers[w].current_job # s

\* The job of a worker that was unregistered is failed.
LostWorkerFailsJob ==
    \A s \in Sessions : \A w \in Workers :
        inner[s].assigned_worker = w /\ workers[w].current_job # s
        ~> inner[s].finished

\* A session whose ticket ran out before a socket was connected does not stay:
\* neither its place in the map nor its reservations are held for ever.
ExpiredIsCancelled ==
    \A s \in Sessions : s \in expired /\ ~inner[s].socket_connected
        ~> inner[s].socket_connected \/ s \notin sessions

\* The waiting executions never exceed queue_capacity.
QueueWithinCapacity == Len(queue) <= QueueCapacity

\* When the WebSocket task of a session ends, its execution has ended, is being
\* failed, or its cancellation has been handed to the worker.
DisconnectAborts ==
    [][\A s \in Sessions : pc[s] # "closed" /\ pc'[s] = "closed" =>
          \/ inner'[s].finished \/ Failing(s)
          \/ \E c \in Conns :
                [kind |-> "cancel", job |-> s] \in Range(outbox'[c])]_vars

=============================================================================
