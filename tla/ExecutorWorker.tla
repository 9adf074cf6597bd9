--------------------------- MODULE ExecutorWorker ---------------------------
(***************************************************************************)
(* One executor-worker and executor-api's side of its stream: the control  *)
(* client of the worker (client.rs), the task that compiles and runs a job *)
(* (execution.rs), and what executor-api does with the worker's entry of   *)
(* its map (state.rs, grpc.rs), over two channels in which messages cross. *)
(*                                                                         *)
(* A worker that lost its connection leaves its task behind, which ends by *)
(* itself, and comes back on a new one.  A connection is over for the API  *)
(* once it took the worker out of its map: ExecutorApi shows that nothing  *)
(* that still arrives on it has an effect.  Error events change no state   *)
(* and are left out.                                                       *)
(***************************************************************************)
EXTENDS Naturals, Sequences, FiniteSets

CONSTANTS
    JobCount,           \* jobs that are dispatched, numbered in that order
    CommandCapacity,    \* of the API's channel to the worker, 64 in the code
    OutboundCapacity,   \* of the worker's channel to the API, 256
    ControlCapacity     \* of the channel to the job's task, 64

ASSUME CapacityAssumption ==
    {JobCount, CommandCapacity, OutboundCapacity, ControlCapacity} \subseteq Nat \ {0}

VARIABLES
    \* executor-api
    registered,         \* the worker is in the map, and its stream is read
    current_job,
    recently_completed_job,     \* while its five seconds last
    phase,              \* of the session of current_job
    finished,           \* the jobs whose session is complete
    sending,            \* a send_command that has found its worker: the job, or None
    \* the two directions of the stream
    down,
    up,
    \* the worker's connect_once
    connected,
    active,             \* the job, also as the heartbeat reads it
    \* the task of a job, and the process it has started last
    task,
    outcome,            \* the phase it will report at its end
    controls,           \* the channel to the task
    process,            \* it has not ended, or its end is not noticed yet
    \* history
    dropped,            \* the exit of current_job found the outbound channel full for too long
    abandoned           \* jobs of this registration that ended without a word to the worker

session == <<current_job, phase, finished, dropped>>
entry == <<registered, recently_completed_job, abandoned>>
api == <<session, entry, sending>>
client == <<connected, active>>
execution == <<task, outcome, controls, process>>
vars == <<api, down, up, client, execution>>

Jobs == 1..JobCount

None == 0

\* The value of a message without one, and of an outcome that is not decided.
NoValue == ""

\* "stop" is a cancel, for whatever reason; input and a resize are alike.
Commands == {"input", "stop"}

\* "stopped" stands for timed_out, resource_limited and cancelled, and "exited" also for
\* sandbox_violation: they may follow the same phases.
EndPhases == {"exited", "compile_failed", "stopped"}

message(kind, j, value) == [kind |-> kind, job |-> j, value |-> value]

valid_transition(from, to) ==
    \/ from = "queued" /\ to = "compiling"
    \/ from = "compiling" /\ to \in {"compile_failed", "running", "stopped"}
    \/ from = "running" /\ to \in {"exited", "stopped"}
    \/ from = to

-----------------------------------------------------------------------------
(* executor-api.                                                           *)

\* The worker's part of complete_session: it has no job any more.
free ==
    /\ current_job' = None
    /\ phase' = "queued"
    /\ dropped' = FALSE

\* complete_session, for the job the worker has.
complete_session == free /\ finished' = finished \cup {current_job}

\* unregister_worker: the job of the worker is failed, and the stream is over.
unregister_worker ==
    /\ registered' = FALSE
    /\ recently_completed_job' = None /\ abandoned' = {}
    /\ IF current_job = None THEN UNCHANGED session ELSE complete_session
    /\ up' = <<>>

\* A try_send into the channel to the worker, which has room; a connection that is gone
\* swallows the message until that is noticed.
toWorker(m) == down' = IF connected THEN Append(down, m) ELSE down

\* try_dispatch_one: a worker whose channel is full is given up.
Dispatch(j) ==
    /\ registered /\ current_job = None /\ finished = 1..(j - 1)
    /\ IF Len(down) < CommandCapacity
       THEN /\ toWorker(message("assign", j, NoValue))
            /\ current_job' = j
            /\ UNCHANGED <<entry, phase, finished, dropped, up>>
       ELSE unregister_worker /\ UNCHANGED down
    /\ UNCHANGED <<sending, client, execution>>

\* cancel_execution or resource_limit_execution, for a job that had no worker when they
\* looked, and was dispatched before they go on: complete_session takes the lock of the
\* session, and the job is over.
LateCancel ==
    /\ current_job \notin finished \cup {None}
    /\ finished' = finished \cup {current_job}
    /\ abandoned' = abandoned \cup {current_job}
    /\ UNCHANGED <<current_job, phase, dropped, registered, recently_completed_job, sending,
                   down, up, client, execution>>

\* It takes the lock of the workers' map: the worker is free, and is sent no cancel.
LateCancelFrees ==
    /\ current_job \in finished
    /\ free /\ recently_completed_job' = current_job
    /\ UNCHANGED <<finished, registered, abandoned, sending, down, up, client, execution>>

\* send_command, up to the lock of the workers' map.
SendCommand ==
    /\ current_job \notin finished \cup {None} /\ sending = None
    /\ sending' = current_job
    /\ UNCHANGED <<session, entry, down, up, client, execution>>

\* The rest of send_command: the worker is looked up again, by its id. A full channel
\* drops the command, a closed one gives the worker up.
CommandSent(command) ==
    /\ sending # None
    /\ sending' = None
    /\ \/ /\ registered /\ Len(down) < CommandCapacity
          /\ toWorker(message(command, sending, NoValue))
          /\ UNCHANGED <<session, entry, up>>
       \/ /\ registered /\ ~connected
          /\ unregister_worker /\ UNCHANGED down
       \/ /\ ~registered \/ Len(down) >= CommandCapacity
          /\ UNCHANGED <<session, entry, down, up>>
    /\ UNCHANGED <<client, execution>>

\* A mutant of heartbeat: an idle worker is always believed.
idleHeartbeat(reported) == current_job # None => reported \in {None, current_job}

\* heartbeat: the worker reports the job it was given, or none, or for five seconds
\* the one it had.
heartbeat(reported) ==
    IF current_job # None
    THEN reported = current_job
    ELSE reported \in {None, recently_completed_job}

\* process_worker_stream, for a heartbeat: one that does not agree ends the stream.
HeartbeatArrives ==
    /\ registered /\ up # <<>>
    /\ Head(up).kind = "heartbeat"
    /\ IF heartbeat(Head(up).job)
       THEN up' = Tail(up) /\ UNCHANGED <<session, entry>>
       ELSE unregister_worker
    /\ UNCHANGED <<sending, down, client, execution>>

\* handle_worker_event, for an event of the worker's job. One whose session is complete
\* takes no notice of it; output beyond the limit is answered with a cancel, which a full
\* channel drops.
apply(m, limited) ==
    IF current_job \in finished
    THEN UNCHANGED <<session, recently_completed_job, down>>
    ELSE /\ IF m.kind = "exit"
            THEN complete_session /\ recently_completed_job' = m.job
            ELSE /\ phase' = IF m.kind = "phase" THEN m.value ELSE phase
                 /\ UNCHANGED <<current_job, recently_completed_job, finished, dropped>>
         /\ IF limited /\ Len(down) < CommandCapacity
            THEN toWorker(message("stop", m.job, NoValue)) ELSE UNCHANGED down

\* process_worker_stream, for an event: one of another job, or a phase that may not
\* follow, ends the stream.
EventArrives(limited) ==
    LET m == Head(up)
    IN  /\ registered /\ up # <<>>
        /\ m.kind # "heartbeat"
        /\ limited => m.kind = "output"
        /\ IF \/ m.job # current_job
              \/ m.kind = "phase" /\ m.job \notin finished /\ ~valid_transition(phase, m.value)
           THEN unregister_worker /\ UNCHANGED down
           ELSE /\ apply(m, limited)
                /\ up' = Tail(up)
                /\ UNCHANGED <<registered, abandoned>>
        /\ UNCHANGED <<sending, client, execution>>

\* recently_completed_job is older than five seconds.
RecentExpires ==
    /\ recently_completed_job # None
    /\ recently_completed_job' = None
    /\ UNCHANGED <<session, registered, abandoned, sending, down, up, client, execution>>

\* The stream ends or fails, or maintenance_once finds the worker silent.
StreamEnds ==
    /\ registered
    /\ unregister_worker
    /\ UNCHANGED <<sending, down, client, execution>>

-----------------------------------------------------------------------------
(* The worker's connection.                                                *)

\* connect_once, with register_worker, which refuses a worker that is still in the map.
Connect ==
    /\ ~connected /\ ~registered
    /\ connected' = TRUE /\ registered' = TRUE
    /\ UNCHANGED <<session, recently_completed_job, abandoned, sending, down, up, active,
                   execution>>

\* connect_once returns: its channels are dropped, with the one to the task, which ends
\* alone.
leave ==
    /\ connected' = FALSE
    /\ active' = None
    /\ down' = <<>>
    /\ controls' = [j \in Jobs |-> <<>>]
    /\ outcome' = [j \in Jobs |-> NoValue]
    /\ task' = [j \in Jobs |-> IF task[j] \in {"phase", "exit", "error", "ended"}
                              THEN "done" ELSE task[j]]

ended(j) == task[j] \in {"ended", "done"}

\* A completion that is in its channel is taken first.
completionWaits == active # None /\ task[active] = "done"

\* handle_api_message, for an assignment.
AssignmentArrives ==
    /\ connected /\ down # <<>> /\ ~completionWaits
    /\ Head(down).kind = "assign"
    /\ IF active # None
       THEN leave
       ELSE /\ active' = Head(down).job
            /\ task' = [task EXCEPT ![Head(down).job] = "prepare"]
            /\ down' = Tail(down)
            /\ UNCHANGED <<connected, controls, outcome>>
    /\ UNCHANGED <<api, up, process>>

\* handle_api_message, for a command: to the task of the job, if that is the active one
\* and still listens; else the connection is given up.
CommandArrives ==
    /\ connected /\ down # <<>> /\ ~completionWaits
    /\ Head(down).kind # "assign"
    /\ IF active # Head(down).job \/ ended(active)
       THEN leave
       ELSE /\ Len(controls[active]) < ControlCapacity
            /\ controls' = [controls EXCEPT ![active] = Append(@, Head(down).kind)]
            /\ down' = Tail(down)
            /\ UNCHANGED <<client, task, outcome>>
    /\ UNCHANGED <<api, up, process>>

\* The completion of the job is received.
Completed ==
    /\ connected /\ completionWaits
    /\ active' = None
    /\ UNCHANGED <<api, down, up, connected, execution>>

\* The API's end of the stream is over and its messages are taken.
EndOfStream ==
    /\ connected /\ ~registered /\ down = <<>>
    /\ leave
    /\ UNCHANGED <<api, up, process>>

\* inbound.message() fails.
ConnectionFails ==
    /\ connected
    /\ leave
    /\ UNCHANGED <<api, up, process>>

\* send_heartbeats. One is on its way at a time: they are seconds apart.
Heartbeat ==
    /\ connected /\ registered
    /\ Len(up) < OutboundCapacity
    /\ \A i \in DOMAIN up : up[i].kind # "heartbeat"
    /\ up' = Append(up, message("heartbeat", active, NoValue))
    /\ UNCHANGED <<api, down, client, execution>>

-----------------------------------------------------------------------------
(* The task of a job, execute_assignment.                                  *)

\* Its connection still exists. Otherwise what it sends is lost, and its channel of
\* controls is closed.
attached(j) == connected /\ active = j

\* send_payload, when it succeeds, and when it may give up: after 250 ms on a full
\* channel, or on a closed one.
canSend(j) == attached(j) => Len(up) < OutboundCapacity
send(j, m) == up' = IF attached(j) /\ registered THEN Append(up, m) ELSE up
sendFails(j) == attached(j) => Len(up) >= OutboundCapacity

\* run_compile_process, for the compiler and the linker, and run_pty_process.
Working(j) == task[j] \in {"compile", "run"}

\* Their loops listen to the deadline and the controls until they have noticed the end
\* of the process; then they drain its output.
watching(j) == Working(j) /\ process[j]

\* The task comes to a stage. One that has lost its connection reaches nobody with what
\* it reports: its last steps are one.
reaches(j, stage) ==
    task' = [task EXCEPT ![j] = IF attached(j) \/ stage \in {"compile", "run"}
                                THEN stage ELSE "done"]

\* A process is started; it is killed, if it runs, at the latest by the drop of its handle
\* or of the PtyChildGuard.
start(j) == process' = [process EXCEPT ![j] = TRUE]

\* A mutant of kill: the handle is dropped and the process goes on.
detach(j) == UNCHANGED process

kill(j) == process' = [process EXCEPT ![j] = FALSE]

\* kill_and_reap or terminate_and_reap, and the phase that is reported next.
terminate_and_reap(j, end) ==
    /\ reaches(j, "phase") /\ kill(j)
    /\ outcome' = [outcome EXCEPT ![j] = IF attached(j) THEN end ELSE NoValue]

\* The task returns: its channel of controls is closed.
returns(j) ==
    /\ reaches(j, "ended")
    /\ outcome' = [outcome EXCEPT ![j] = NoValue]
    /\ controls' = [controls EXCEPT ![j] = <<>>]

\* execute_inner up to the start of the compiler.
Prepare(j) ==
    /\ task[j] = "prepare" /\ canSend(j)
    /\ send(j, message("phase", j, "compiling"))
    /\ reaches(j, "compile") /\ start(j)
    /\ UNCHANGED <<api, down, client, outcome, controls>>

\* The deadline of the compilation or of the run.
DeadlinePasses(j) ==
    /\ watching(j)
    /\ terminate_and_reap(j, "stopped")
    /\ UNCHANGED <<api, down, up, client, controls>>

\* controls.recv(): a cancel, and a closed channel, stop the process; so does input that
\* the program does not read.
ControlTaken(j) ==
    /\ watching(j)
    /\ IF attached(j)
       THEN /\ controls[j] # <<>>
            /\ controls' = [controls EXCEPT ![j] = Tail(@)]
            /\ \/ /\ Head(controls[j]) = "stop" \/ task[j] = "run"
                  /\ terminate_and_reap(j, "stopped")
               \/ /\ Head(controls[j]) = "input"
                  /\ UNCHANGED <<task, outcome, process>>
       ELSE terminate_and_reap(j, "stopped") /\ UNCHANGED controls
    /\ UNCHANGED <<api, down, up, client>>

\* Output of the process is forwarded, or exceeds its limit, also while it is drained.
Output(j) ==
    /\ Working(j) /\ attached(j) /\ canSend(j)
    /\ send(j, message("output", j, NoValue))
    /\ UNCHANGED <<api, down, client, execution>>

OutputLimited(j) ==
    /\ Working(j)
    /\ terminate_and_reap(j, "stopped")
    /\ UNCHANGED <<api, down, up, client, controls>>

\* The ticker's try_wait finds that the process has ended.
ProcessExits(j) ==
    /\ watching(j)
    /\ process' = [process EXCEPT ![j] = FALSE]
    /\ UNCHANGED <<api, down, up, client, task, outcome, controls>>

\* The output is drained, or the 200 ms for it are over: the program follows the
\* compiler, unless that failed or has no time left for its second part;
\* classify_runtime_exit decides how the program ended.
Drained(j) ==
    /\ Working(j) /\ ~process[j]
    /\ \/ /\ task[j] = "compile" /\ canSend(j)
          /\ send(j, message("phase", j, "running"))
          /\ reaches(j, "run") /\ start(j)
          /\ UNCHANGED outcome
       \/ /\ \E end \in IF task[j] = "run" THEN {"exited", "stopped"}
                                           ELSE {"compile_failed", "stopped"} :
                terminate_and_reap(j, end)
          /\ UNCHANGED up
    /\ UNCHANGED <<api, down, client, controls>>

\* An ExecutionError of the files, of starting or watching the process, or of sending;
\* or a panic, which is caught. The process is killed when its handle is dropped.
Fails(j) ==
    /\ task[j] \in {"prepare", "phase", "exit"} \/ Working(j)
    /\ reaches(j, "error") /\ kill(j)
    /\ outcome' = [outcome EXCEPT ![j] = NoValue]
    /\ UNCHANGED <<api, down, up, client, controls>>

\* send_phase and send_exit at the end of execute_inner.
SendPhase(j) ==
    /\ task[j] = "phase" /\ canSend(j)
    /\ send(j, message("phase", j, outcome[j]))
    /\ reaches(j, "exit")
    /\ UNCHANGED <<api, down, client, outcome, controls, process>>

SendExit(j) ==
    /\ task[j] = "exit" /\ canSend(j)
    /\ send(j, message("exit", j, NoValue))
    /\ returns(j)
    /\ UNCHANGED <<api, down, client, process>>

\* A mutant of SendErrorExit: execute_assignment only logs the error.
LogError(j) ==
    /\ task[j] = "error"
    /\ returns(j)
    /\ UNCHANGED <<api, down, up, client, process>>

\* The exit of execute_assignment after an error, which is dropped when the channel
\* stays full. The one of send_panic_exit waits longer.
SendErrorExit(j) ==
    /\ task[j] = "error"
    /\ \/ /\ canSend(j)
          /\ send(j, message("exit", j, NoValue))
          /\ UNCHANGED dropped
       \/ /\ sendFails(j)
          /\ dropped' = (dropped \/ current_job = j)
          /\ UNCHANGED up
    /\ returns(j)
    /\ UNCHANGED <<current_job, phase, finished, entry, sending, down, client, process>>

\* The last step of the spawned task: its id goes to the completion channel.
TaskCompletes(j) ==
    /\ task[j] = "ended"
    /\ task' = [task EXCEPT ![j] = "done"]
    /\ UNCHANGED <<api, down, up, client, outcome, controls, process>>

\* handle.abort(), two seconds after the stream ended: the process is killed when its
\* guard is dropped.
Aborted(j) ==
    /\ ~attached(j) /\ task[j] # "none" /\ ~ended(j)
    /\ returns(j) /\ kill(j)
    /\ UNCHANGED <<api, down, up, client>>

-----------------------------------------------------------------------------
Init ==
    /\ registered = FALSE /\ connected = FALSE
    /\ current_job = None /\ recently_completed_job = None
    /\ phase = "queued"
    /\ finished = {} /\ dropped = FALSE /\ abandoned = {}
    /\ sending = None /\ active = None
    /\ down = <<>> /\ up = <<>>
    /\ task = [j \in Jobs |-> "none"]
    /\ outcome = [j \in Jobs |-> NoValue]
    /\ controls = [j \in Jobs |-> <<>>]
    /\ process = [j \in Jobs |-> FALSE]

StreamTask == HeartbeatArrives \/ \E limited \in BOOLEAN : EventArrives(limited)

ConnectionLoop == AssignmentArrives \/ CommandArrives \/ Completed \/ EndOfStream

\* The steps that bring a task to its end when nothing else does.
Finishing(j) ==
    \/ Prepare(j) \/ DeadlinePasses(j) \/ Drained(j) \/ SendPhase(j) \/ SendExit(j)
    \/ SendErrorExit(j) \/ TaskCompletes(j)

Next ==
    \/ StreamTask \/ RecentExpires \/ StreamEnds \/ SendCommand \/ LateCancel \/ LateCancelFrees
    \/ Connect \/ ConnectionLoop \/ ConnectionFails \/ Heartbeat
    \/ \E command \in Commands : CommandSent(command)
    \/ \E j \in Jobs :
          \/ Dispatch(j) \/ Finishing(j) \/ ControlTaken(j) \/ Output(j) \/ OutputLimited(j)
          \/ ProcessExits(j) \/ Fails(j) \/ Aborted(j)

Spec == Init /\ [][Next]_vars

\* Both ends read what arrives, a connection that is gone is noticed, the heartbeat is
\* sent, and the timers and sends of the tasks end them: each has few steps to its end,
\* so that none can keep the others waiting.
Fairness ==
    /\ WF_vars(StreamTask \/ (~connected /\ StreamEnds))
    /\ WF_vars(ConnectionLoop) /\ WF_vars(Heartbeat)
    /\ WF_vars(\E j \in Jobs : Finishing(j))

FairSpec == Spec /\ Fairness

-----------------------------------------------------------------------------
(* Properties.                                                             *)

\* The type of the API's entry, of the channels and of the worker's state.
TypeOK ==
    /\ {registered, connected, dropped} \subseteq BOOLEAN
    /\ {current_job, recently_completed_job, sending, active} \subseteq Jobs \cup {None}
    /\ finished \subseteq Jobs /\ abandoned \subseteq finished
    /\ phase \in {"queued", "compiling", "running"} \cup EndPhases
    /\ Len(down) <= CommandCapacity /\ Len(up) <= OutboundCapacity
    /\ task \in [Jobs -> {"none", "prepare", "compile", "run", "phase", "exit", "error",
                          "ended", "done"}]
    /\ outcome \in [Jobs -> EndPhases \cup {NoValue}]
    /\ \A j \in Jobs : controls[j] \in Seq(Commands) /\ Len(controls[j]) <= ControlCapacity
    /\ process \in [Jobs -> BOOLEAN]

exits(j) == {i \in DOMAIN up : up[i].kind = "exit" /\ up[i].job = j}
assignments(j) == {i \in DOMAIN down : down[i].kind = "assign" /\ down[i].job = j}

\* While the connection stands, the API and the worker agree about the job of the worker
\* up to what is in the channels: the job the API waits for is on its way, or in work, or
\* its exit is, exactly one of them; an exit is lost only to a channel that stayed full.
\* Of the jobs the API does not wait for, only those are on their way, in work or the
\* origin of an event that a cancel completed just as the dispatcher gave them to the
\* worker. An exit is sent once the process is gone.
StreamAgreement ==
    /\ registered /\ connected =>
           /\ \A j \in Jobs \ ({current_job} \cup abandoned) :
                  assignments(j) = {} /\ (active = j => ended(j))
           /\ current_job \notin finished \cup {None} /\ ~dropped =>
                  Cardinality(assignments(current_job)) + Cardinality(exits(current_job))
                      + (IF active = current_job /\ ~ended(active) THEN 1 ELSE 0) = 1
    /\ \A i \in DOMAIN up :
           /\ up[i].kind # "heartbeat" => up[i].job \in {current_job} \cup abandoned
           /\ up[i].kind = "exit" => ~process[up[i].job]

\* Every job that is given to the worker is finished: by its exit, by the loss of the
\* connection, or, when its exit was dropped, by a heartbeat that does not agree.
JobResolved == current_job # None ~> current_job = None

\* No process outlives its job for good: whether the connection was lost, or a cancel
\* completed the job without telling the worker that had just got it, its process ends.
ProcessesStop ==
    (\E j \in finished : process[j]) ~> (\A j \in finished : ~process[j])

=============================================================================
