-------------------------- MODULE ExecutorApiSafety --------------------------
(* That a session is in one place at a time, and that workers and sessions    *)
(* agree on who runs what (AssignmentInv of ExecutorApi is inductive); what a *)
(* step of executor-api may never do, and that no wake-up of the dispatcher   *)
(* is lost.                                                                   *)
EXTENDS ExecutorApiProofs

-----------------------------------------------------------------------------
(* How a step moves the tasks *)

Hand == {"assign", "push_front"}
Moved(t, label) ==
    /\ pc' = [pc EXCEPT ![t] = label]
    /\ \A u \in Threads \ {t} : frame'[u] = frame[u]
LateMove(t) == \E label \in Label \ (Early \cup Hand) : Moved(t, label)

LEMMA CallMoved ==
    ASSUME TypeOK, NEW t \in Threads, NEW label, NEW f, Call(t, label, f)
    PROVE  Moved(t, label)
  BY DEF Moved, Call, Goto, TypeOK, TasksOK

LEMMA GotoMoved ==
    ASSUME TypeOK, NEW t \in Threads, NEW label, Goto(t, label), UNCHANGED frame
    PROVE  Moved(t, label)
  BY DEF Moved, Goto

LEMMA ContinueMoved ==
    ASSUME TypeOK, NEW t \in Threads, NEW next \in Resume, NEW ok \in BOOLEAN,
           Continue(t, next, ok)
    PROVE  LateMove(t)
<1> DEFINE label == IF next = "limited" THEN IF ok THEN "closed" ELSE "disconnected"
                    ELSE next
<1>1. label \in Label \ (Early \cup Hand)
  BY DEF Label, Resume, Early, Hand
<1>2. Moved(t, label)
  BY CallMoved DEF Continue
<1> QED BY <1>1, <1>2 DEF LateMove

LEMMA ReturnMoved ==
    ASSUME TypeOK, NEW t \in Threads, NEW ok \in BOOLEAN, Return(t, ok)
    PROVE  LateMove(t)
<1>1. frame[t].next \in Resume
  BY FrameTypes DEF TypeOK, TasksOK
<1> QED BY <1>1, ContinueMoved DEF Return

LEMMA CancelMoved ==
    ASSUME TypeOK, NEW t \in Threads, NEW s \in Sessions, NEW phase,
           NEW next \in Resume, Cancel(t, s, phase, next)
    PROVE  LateMove(t)
<1> DEFINE f == [NoFrame EXCEPT !.session = s, !.phase = phase, !.next = next,
                                !.command = "cancel"]
<1>1. \/ Continue(t, next, TRUE) \/ Call(t, "retain", f) \/ Call(t, "send", f)
  BY Zenon DEF Cancel
<1>2. {"retain", "send"} \subseteq Label \ (Early \cup Hand)
  BY DEF Label, Early, Hand
<1> QED BY <1>1, <1>2, ContinueMoved, CallMoved, Zenon DEF LateMove

LEMMA CompletedMoved ==
    ASSUME TypeOK, NEW t \in Threads, Completed(t)
    PROVE  LateMove(t)
<1>1. "notify" \in Label \ (Early \cup Hand)
  BY DEF Label, Early, Hand
<1> QED BY <1>1, GotoMoved, ReturnMoved, Zenon DEF Completed, LateMove

LEMMA BreakStreamMoved ==
    ASSUME TypeOK, NEW c \in Conns, BreakStream(c)
    PROVE  LateMove(c)
<1>1. "unregister" \in Label \ (Early \cup Hand)
  BY DEF Label, Early, Hand
<1> QED BY <1>1, CallMoved, ThreadKinds DEF BreakStream, LateMove

-----------------------------------------------------------------------------
(* Steps that AssignmentInv does not see *)

\* No session goes back to its beginning or into the dispatcher's hand, and no
\* job of a lost worker is forgotten.
Quiet ==
    \A s \in Sessions : /\ pc'[s] \in Early => pc[s] \in Early
                        /\ InHand(s)' => InHand(s)
                        /\ Failing(s) => Failing(s)'

\* The data AssignmentInv speaks of only loses queue entries, or gets on with
\* a completion that has freed its worker.
SameInner == \A s \in Sessions :
    /\ inner'[s].finished = inner[s].finished
    /\ inner'[s].assigned_worker = inner[s].assigned_worker
SameHandles == \A w \in Workers :
    /\ workers'[w].current_job = workers[w].current_job
    /\ workers'[w].connection_id = workers[w].connection_id
SameCompletion == \A s \in Sessions :
    /\ completion'[s].step = "none" <=> completion[s].step = "none"
    /\ completion'[s].worker = completion[s].worker
    /\ completion[s].step \in {"limits", "worker"} =>
          completion'[s].step \in {"limits", "worker"}
Shrinks == IsInjective(queue') /\ Range(queue') \subseteq Range(queue)

LEMMA SteadyStep ==
    ASSUME AssignmentInv, Quiet, SameInner, SameHandles, SameCompletion, Shrinks
    PROVE  AssignmentInv'
<1>1. AssignmentConsistent'
  BY DEF AssignmentInv, AssignmentConsistent, Quiet, SameInner, SameHandles,
         SameCompletion
<1>2. QueuedOnce'
  BY DEF AssignmentInv, QueuedOnce, Quiet, SameInner, Shrinks, Queued
<1>3. \A s \in Sessions :
          /\ inner'[s].finished <=> completion'[s].step # "none"
          /\ inner'[s].finished => inner'[s].assigned_worker = NONE
          /\ pc'[s] \in Early =>
                ~Queued(s)' /\ ~InHand(s)' /\ inner'[s].assigned_worker = NONE
  BY DEF AssignmentInv, Quiet, SameInner, SameCompletion, Shrinks, Queued
<1>4. \A w \in Workers :
          workers'[w].connection_id = NONE => workers'[w].current_job = NONE
  BY DEF AssignmentInv, SameHandles
<1> QED BY <1>1, <1>2, <1>3, <1>4 DEF AssignmentInv, Early

LEMMA MovedQuiet ==
    ASSUME TypeOK, NEW t \in Threads, NEW label, Moved(t, label),
           t \in Sessions /\ label \in Early => pc[t] \in Early,
           t = Dispatcher => label \notin Hand,
           pc[t] # "complete"
    PROVE  Quiet
<1> SUFFICES ASSUME NEW s \in Sessions
             PROVE  /\ pc'[s] \in Early => pc[s] \in Early
                    /\ InHand(s)' => InHand(s)
                    /\ Failing(s) => Failing(s)'
  BY DEF Quiet
<1>0. \A u \in Threads : pc'[u] = IF u = t THEN label ELSE pc[u]
  BY DEF Moved, TypeOK, TasksOK
<1>1. pc'[s] \in Early => pc[s] \in Early
  BY <1>0, ThreadKinds
<1>2. InHand(s)' => InHand(s)
  BY <1>0, ThreadKinds DEF InHand, Hand, Moved
<1>3. Failing(s) => Failing(s)'
  BY <1>0 DEF Failing, Moved
<1> QED BY <1>1, <1>2, <1>3

LEMMA LateQuiet ==
    ASSUME TypeOK, NEW t \in Threads, LateMove(t), pc[t] # "complete"
    PROVE  Quiet
<1>1. PICK label \in Label \ (Early \cup Hand) : Moved(t, label)
  BY DEF LateMove
<1> QED BY <1>1, MovedQuiet

LEMMA IdleQuiet ==
    ASSUME UNCHANGED <<pc, frame>>
    PROVE  Quiet
  BY DEF Quiet, InHand, Failing

LEMMA SameQueue ==
    ASSUME AssignmentInv, UNCHANGED queue
    PROVE  Shrinks
  BY DEF AssignmentInv, QueuedOnce, Shrinks

LEMMA SameAll ==
    ASSUME AssignmentInv, Quiet, UNCHANGED <<inner, completion, queue, workers>>
    PROVE  AssignmentInv'
<1>1. SameInner /\ SameHandles /\ SameCompletion
  BY DEF SameInner, SameHandles, SameCompletion
<1> QED BY <1>1, SameQueue, SteadyStep

-----------------------------------------------------------------------------
(* AssignmentInv, action by action *)

LEMMA CompleteSessionInv ==
    ASSUME TypeOK, TypeOK', AssignmentInv, NEW t \in Threads, complete_session(t)
    PROVE  AssignmentInv'
<1> DEFINE s == frame[t].session
<1>1. s \in Sessions /\ pc[t] = "complete"
  BY DEF TypeOK, TasksOK, LocalsOK, complete_session
<1>0. LateMove(t)
  <2>1. "await" \in Label \ (Early \cup Hand)
    BY DEF Label, Early, Hand
  <2> QED BY <2>1, CompletedMoved, GotoMoved DEF complete_session, LateMove
<1>2. PICK label \in Label \ (Early \cup Hand) : Moved(t, label)
  BY <1>0 DEF LateMove
<1>3. \A u \in Threads : /\ pc'[u] = IF u = t THEN label ELSE pc[u]
                         /\ u # t => frame'[u] = frame[u]
  BY <1>2 DEF Moved, TypeOK, TasksOK
<1>4. \A x \in Sessions : /\ pc'[x] \in Early => pc[x] \in Early
                          /\ InHand(x)' => InHand(x)
  BY <1>2, <1>3, ThreadKinds DEF InHand, Hand
<1>5. \A x \in Sessions \ {s} : Failing(x) => Failing(x)'
  BY <1>3 DEF Failing
<1>6. UNCHANGED <<queue, workers>>
  BY DEF complete_session
<1>7. CASE inner[s].finished
  <2>1. UNCHANGED <<inner, completion>>
    BY <1>7 DEF complete_session
  <2>2. inner[s].assigned_worker = NONE
    BY <1>1, <1>7 DEF AssignmentInv
  <2>3. AssignmentConsistent'
    BY <1>1, <1>5, <1>6, <2>1, <2>2, ConstantsAssumption
    DEF AssignmentInv, AssignmentConsistent
  <2>4. QueuedOnce'
    BY <1>4, <1>6, <2>1 DEF AssignmentInv, QueuedOnce, Queued
  <2> QED BY <1>4, <1>6, <2>1, <2>3, <2>4 DEF AssignmentInv, Early, Queued
<1>8. CASE ~inner[s].finished
  <2>1. /\ inner'[s].finished /\ inner'[s].assigned_worker = NONE
        /\ \A x \in Sessions \ {s} : inner'[x] = inner[x]
    <3> DEFINE r == [inner[s] EXCEPT !.phase = frame[t].phase, !.finished = TRUE,
                                     !.assigned_worker = NONE]
    <3>1. inner' = [inner EXCEPT ![s] = r]
      BY <1>8 DEF complete_session
    <3>2. r.finished /\ r.assigned_worker = NONE
      BY <1>1 DEF TypeOK, DataOK, SessionInner
    <3> HIDE DEF r
    <3> QED BY <1>1, <3>1, <3>2 DEF TypeOK, DataOK
  <2>2. /\ completion'[s].step = "limits"
        /\ completion'[s].worker = inner[s].assigned_worker
        /\ \A x \in Sessions \ {s} : completion'[x] = completion[x]
    <3>1. completion' = [completion EXCEPT ![s] =
                           [step |-> "limits", worker |-> inner[s].assigned_worker]]
      BY <1>8, Zenon DEF complete_session
    <3> QED BY <1>1, <3>1 DEF TypeOK, DataOK
  <2>3. AssignmentConsistent'
    BY <1>1, <1>5, <1>6, <1>8, <2>1, <2>2, ConstantsAssumption
    DEF AssignmentInv, AssignmentConsistent
  <2>4. QueuedOnce'
    BY <1>4, <1>6, <2>1 DEF AssignmentInv, QueuedOnce, Queued
  <2>5. \A x \in Sessions :
          /\ inner'[x].finished <=> completion'[x].step # "none"
          /\ inner'[x].finished => inner'[x].assigned_worker = NONE
          /\ pc'[x] \in Early =>
                ~Queued(x)' /\ ~InHand(x)' /\ inner'[x].assigned_worker = NONE
    BY <1>4, <1>6, <2>1, <2>2 DEF AssignmentInv, Queued
  <2> QED BY <1>6, <2>3, <2>4, <2>5 DEF AssignmentInv, Early
<1> QED BY <1>7, <1>8

LEMMA ReleaseLimitsInv ==
    ASSUME TypeOK, TypeOK', AssignmentInv, NEW s \in Sessions, release_limits(s)
    PROVE  AssignmentInv'
<1>1. SameInner
  <2> DEFINE r == [inner[s] EXCEPT !.limits_released = TRUE,
                                   !.pending_activation = FALSE,
                                   !.limits_reserved = FALSE]
  <2>1. inner' = [inner EXCEPT ![s] = r] \/ UNCHANGED inner
    BY DEF release_limits
  <2>2. r.finished = inner[s].finished /\ r.assigned_worker = inner[s].assigned_worker
    BY DEF TypeOK, DataOK, SessionInner
  <2> HIDE DEF r
  <2> QED BY <2>1, <2>2, Zenon DEF SameInner, TypeOK, DataOK
<1>2. SameHandles
  BY DEF SameHandles, release_limits
<1>3. completion[s].step = "limits"
      /\ completion' = [completion EXCEPT ![s].step = "worker"]
  BY DEF release_limits
<1>4. SameCompletion
  BY <1>3 DEF SameCompletion, TypeOK, DataOK, Completion
<1>5. Quiet
  BY IdleQuiet DEF release_limits, tasks
<1> QED BY <1>1, <1>2, <1>4, <1>5, SameQueue, SteadyStep DEF release_limits

LEMMA FreeWorkerInv ==
    ASSUME TypeOK, TypeOK', AssignmentInv, NEW s \in Sessions, free_worker(s)
    PROVE  AssignmentInv'
<1> DEFINE w == completion[s].worker
           h == [workers[w] EXCEPT !.current_job = NONE,
                                   !.recently_completed_job = s]
<1>1. /\ completion[s].step = "worker"
      /\ completion' = [completion EXCEPT ![s].step = "remove"]
      /\ UNCHANGED <<inner, queue, pc, frame>>
  BY DEF free_worker, tasks
<1>2. /\ completion'[s].step = "remove" /\ completion'[s].worker = w
      /\ \A x \in Sessions \ {s} : completion'[x] = completion[x]
  BY <1>1 DEF TypeOK, DataOK, Completion
<1>3. \A x \in Workers :
        /\ workers'[x].connection_id = workers[x].connection_id
        /\ workers'[x].current_job \in {workers[x].current_job, NONE}
        /\ workers'[x].current_job # s
        /\ workers[x].current_job # s =>
              workers'[x].current_job = workers[x].current_job
  <2>1. \A x \in Workers : workers[x].current_job = s => x = w
    BY <1>1 DEF AssignmentInv, AssignmentConsistent
  <2>2. CASE w # NONE /\ workers[w].current_job = s
    <3>1. w \in Workers
      BY <2>2 DEF TypeOK, DataOK, Completion
    <3>2. workers' = [workers EXCEPT ![w] = h]
      BY <2>2 DEF free_worker
    <3>3. h.current_job = NONE /\ h.connection_id = workers[w].connection_id
      BY <3>1 DEF TypeOK, DataOK, WorkerHandle
    <3> HIDE DEF h
    <3> QED BY <2>1, <2>2, <3>1, <3>2, <3>3, ConstantsAssumption DEF TypeOK, DataOK
  <2>3. CASE ~(w # NONE /\ workers[w].current_job = s)
    <3>1. UNCHANGED workers
      BY <2>3 DEF free_worker
    <3> QED BY <2>1, <2>3, <3>1, ConstantsAssumption
  <2> QED BY <2>2, <2>3
<1>4. \A x \in Sessions : (Failing(x)' <=> Failing(x)) /\ (InHand(x)' <=> InHand(x))
  BY <1>1 DEF Failing, InHand
<1>5. inner[s].finished /\ inner[s].assigned_worker = NONE
  BY <1>1 DEF AssignmentInv
<1>6. AssignmentConsistent'
  BY <1>1, <1>2, <1>3, <1>4, <1>5, ConstantsAssumption
  DEF AssignmentInv, AssignmentConsistent
<1>7. QueuedOnce'
  BY <1>1, <1>4 DEF AssignmentInv, QueuedOnce, Queued
<1> QED BY <1>1, <1>2, <1>3, <1>4, <1>6, <1>7 DEF AssignmentInv, Early, Queued

LEMMA RemoveSessionInv ==
    ASSUME TypeOK, TypeOK', AssignmentInv, NEW t \in Threads, remove_session(t)
    PROVE  AssignmentInv'
<1> DEFINE s == frame[t].session
<1>1. s \in Sessions /\ pc[t] = "await"
  BY DEF TypeOK, TasksOK, LocalsOK, remove_session
<1>2. SameInner /\ SameHandles
  BY DEF SameInner, SameHandles, remove_session
<1>3. /\ completion[s].step = "remove"
      /\ completion' = [completion EXCEPT ![s].step = "done"]
  BY DEF remove_session
<1>4. SameCompletion
  BY <1>1, <1>3 DEF SameCompletion, TypeOK, DataOK, Completion
<1>5. Quiet
  BY <1>1, CompletedMoved, LateQuiet DEF remove_session
<1> QED BY <1>2, <1>4, <1>5, SameQueue, SteadyStep DEF remove_session

LEMMA UnregisterWorkerInv ==
    ASSUME TypeOK, TypeOK', AssignmentInv, NEW t \in Threads, unregister_worker(t)
    PROVE  AssignmentInv'
<1> DEFINE w == frame[t].worker
           job == workers[w].current_job
           f == [frame[t] EXCEPT !.session = job, !.phase = "exited",
                                 !.unregistering = TRUE]
<1>1. w \in Workers /\ pc[t] = "unregister" /\ frame[t] \in Frame
  BY DEF TypeOK, TasksOK, LocalsOK, unregister_worker, fail_job
<1>0. {"notify", "complete"} \subseteq Label \ (Early \cup Hand)
  BY DEF Label, Early, Hand
<1>2. CASE ~Registered(w, frame[t].conn)
  <2>1. Return(t, FALSE) /\ UNCHANGED <<inner, completion, queue, workers>>
    BY <1>2, Zenon DEF unregister_worker, fail_job
  <2> QED BY <1>1, <2>1, ReturnMoved, LateQuiet, SameAll, Zenon
<1>3. CASE Registered(w, frame[t].conn)
  <2>1. /\ UNCHANGED <<inner, completion, queue>>
        /\ workers' = [workers EXCEPT ![w] = NoHandle]
    BY <1>3 DEF unregister_worker, fail_job
  <2>2. /\ workers'[w].current_job = NONE /\ workers'[w].connection_id = NONE
        /\ \A x \in Workers \ {w} : workers'[x] = workers[x]
    BY <1>1, <2>1 DEF TypeOK, DataOK, NoHandle
  <2>3. Quiet
    BY <1>0, <1>1, <1>3, GotoMoved, CallMoved, LateQuiet
    DEF unregister_worker, fail_job, LateMove
  <2>4. \A s \in Sessions : job = s => Failing(s)'
    <3> SUFFICES ASSUME NEW s \in Sessions, job = s PROVE Failing(s)'
      OBVIOUS
    <3>1. Call(t, "complete", f)
      BY <1>3, ConstantsAssumption DEF unregister_worker, fail_job
    <3>2. f.unregistering /\ f.session = job
      BY <1>1 DEF Frame
    <3>3. pc'[t] = "complete" /\ frame'[t] = f
      BY <3>1 DEF Call, Goto, TypeOK, TasksOK
    <3> HIDE DEF f
    <3> QED BY <3>2, <3>3 DEF Failing
  <2>5. AssignmentConsistent'
    <3> HIDE DEF f, job, w
    <3>0. AssignmentConsistent /\ NONE \notin Sessions
      BY ConstantsAssumption DEF AssignmentInv
    <3>1. ASSUME NEW x \in Workers, NEW s \in Sessions, workers'[x].current_job = s
          PROVE  IF inner'[s].finished
                 THEN /\ completion'[s].worker = x
                      /\ completion'[s].step \in {"limits", "worker"}
                 ELSE inner'[s].assigned_worker = x
      <4>1. x # w /\ workers[x].current_job = s  BY <2>2, <3>0, <3>1
      <4> QED BY <2>1, <3>0, <4>1, Zenon DEF AssignmentConsistent
    <3>2. ASSUME NEW s \in Sessions, NEW x \in Workers, inner'[s].assigned_worker = x
          PROVE  workers'[x].current_job = s \/ Failing(s)'
      <4>1. workers[x].current_job = s \/ Failing(s)
        BY <2>1, <3>0, <3>2, Zenon DEF AssignmentConsistent
      <4>2. x = w /\ workers[x].current_job = s => Failing(s)'  BY <2>4 DEF job
      <4> QED BY <2>2, <2>3, <4>1, <4>2 DEF Quiet
    <3> QED BY <3>1, <3>2, Zenon DEF AssignmentConsistent
  <2>6. QueuedOnce'
    BY <2>1, <2>3 DEF AssignmentInv, QueuedOnce, Queued, Quiet
  <2> QED BY <2>1, <2>2, <2>3, <2>5, <2>6 DEF AssignmentInv, Early, Queued, Quiet
<1> QED BY <1>2, <1>3

LEMMA SubroutineInv ==
    ASSUME TypeOK, TypeOK', AssignmentInv, NEW t \in Threads, Subroutine(t)
    PROVE  AssignmentInv'
<1>0. {"complete", "sender", "unregister"} \subseteq Label \ (Early \cup Hand)
  BY DEF Label, Early, Hand
<1>1. CASE complete_session(t)   BY <1>1, CompleteSessionInv
<1>2. CASE remove_session(t)     BY <1>2, RemoveSessionInv
<1>3. CASE unregister_worker(t)  BY <1>3, UnregisterWorkerInv
<1>4. CASE notify_one(t)
  BY <1>4, ReturnMoved, LateQuiet, SameAll, Zenon DEF notify_one
<1>5. CASE retain_queue(t)
  <2>1. Shrinks
    <3>1. queue \in Seq(Sessions) /\ IsInjective(queue)
      BY DEF TypeOK, DataOK, AssignmentInv, QueuedOnce
    <3>2. queue' = Without(queue, frame[t].session)  BY <1>5 DEF retain_queue
    <3> QED BY <3>1, <3>2, WithoutRange DEF Shrinks
  <2>2. Quiet
    BY <1>0, <1>5, GotoMoved, LateQuiet DEF retain_queue, LateMove
  <2>3. SameInner /\ SameHandles /\ SameCompletion
    BY <1>5 DEF SameInner, SameHandles, SameCompletion, retain_queue
  <2> QED BY <2>1, <2>2, <2>3, SteadyStep
<1>6. CASE send_command(t)
  <2>1. LateMove(t)
    BY <1>0, <1>6, ReturnMoved, CallMoved, Zenon DEF send_command, LateMove
  <2> QED BY <1>6, <2>1, LateQuiet, SameAll DEF send_command
<1>7. CASE lookup_and_send(t)
  <2> DEFINE f == [frame[t] EXCEPT !.conn = workers[frame[t].worker].connection_id]
  <2>0. \/ Return(t, FALSE) \/ Call(t, "unregister", f) \/ Return(t, TRUE)
    BY <1>7, Zenon DEF lookup_and_send
  <2>1. LateMove(t)
    BY <1>0, <2>0, ReturnMoved, CallMoved, Zenon DEF LateMove
  <2> QED BY <1>7, <2>1, LateQuiet, SameAll, Zenon DEF lookup_and_send
<1> QED BY <1>1, <1>2, <1>3, <1>4, <1>5, <1>6, <1>7 DEF Subroutine

\* A step of a session's task that only starts a cancellation.
LEMMA CancelStepInv ==
    ASSUME TypeOK, TypeOK', AssignmentInv, NEW t \in Threads, pc[t] # "complete",
           NEW s \in Sessions, NEW phase, NEW next \in Resume,
           Cancel(t, s, phase, next),
           UNCHANGED <<inner, completion, queue, workers>>
    PROVE  AssignmentInv'
  BY CancelMoved, LateQuiet, SameAll

\* An update of one session's record that keeps finished and assigned_worker.
LEMMA InnerUpdateSame ==
    ASSUME TypeOK, NEW s \in Sessions, NEW r, inner' = [inner EXCEPT ![s] = r],
           r.finished = inner[s].finished,
           r.assigned_worker = inner[s].assigned_worker
    PROVE  SameInner
  BY DEF SameInner, TypeOK, DataOK

LEMMA BrowserInv ==
    ASSUME TypeOK, TypeOK', AssignmentInv, NEW s \in Sessions, Browser(s)
    PROVE  AssignmentInv'
<1>0. /\ {"open", "closed", "disconnected", "limited"} \subseteq Resume
      /\ "send" \in Label \ (Early \cup Hand) /\ s \in Threads
  BY ThreadKinds DEF Resume, Label, Early, Hand
<1>1. CASE create_execution(s)
  BY <1>1, IdleQuiet, SameAll DEF create_execution, tasks
<1>2. CASE consume_ticket(s)
  <2> DEFINE r == [inner[s] EXCEPT !.ticket_consumed = TRUE,
                                   !.pending_activation = TRUE,
                                   !.limits_reserved = TRUE]
  <2>1. inner' = [inner EXCEPT ![s] = r]
    BY <1>2 DEF consume_ticket
  <2>2. r.finished = inner[s].finished /\ r.assigned_worker = inner[s].assigned_worker
    BY DEF TypeOK, DataOK, SessionInner
  <2> HIDE DEF r
  <2>3. SameInner
    BY <2>1, <2>2, InnerUpdateSame, Zenon
  <2>4. SameHandles /\ SameCompletion
    BY <1>2 DEF SameHandles, SameCompletion, consume_ticket
  <2>5. Moved(s, "upgrade") /\ pc[s] = "idle"
    BY <1>0, <1>2, GotoMoved DEF consume_ticket
  <2>6. Quiet
    BY <1>0, <2>5, MovedQuiet, ConstantsAssumption DEF Early
  <2> QED BY <1>2, <2>3, <2>4, <2>6, SameQueue, SteadyStep DEF consume_ticket
<1>3. ASSUME NEW command, Forward(s, command) PROVE AssignmentInv'
  <2>1. LateMove(s)
    BY <1>0, <1>3, CallMoved DEF Forward, LateMove
  <2> QED BY <1>0, <1>3, <2>1, LateQuiet, SameAll DEF Forward
<1>4. CASE send_stdin(s) \/ resize(s)
  BY <1>3, <1>4 DEF send_stdin, resize
<1>5. CASE terminate(s) \/ lagged(s)
  BY <1>0, <1>5, CancelStepInv DEF terminate, lagged, client_cancel
<1>6. CASE rate_exceeded(s)
  BY <1>0, <1>6, CancelStepInv DEF rate_exceeded
<1>7. CASE hello_failed(s)
  BY <1>0, <1>7, CancelStepInv DEF hello_failed
<1> QED BY <1>1, <1>2, <1>4, <1>5, <1>6, <1>7 DEF Browser

LEMMA WebSocketTaskInv ==
    ASSUME TypeOK, TypeOK', AssignmentInv, NEW s \in Sessions, WebSocketTask(s)
    PROVE  AssignmentInv'
<1>0. /\ "closed" \in Resume /\ s \in Threads
      /\ "notify" \in Label \ (Early \cup Hand)
  BY ThreadKinds DEF Resume, Label, Early, Hand
<1>1. CASE activate_session(s)
  <2> DEFINE r == [inner[s] EXCEPT !.pending_activation = FALSE,
                                   !.socket_connected = TRUE]
  <2>1. pc[s] = "upgrade" /\ UNCHANGED <<completion, queue, workers>>
    BY <1>1 DEF activate_session, MayActivate
  <2>2. CASE Cancel(s, s, "cancelled", "closed") /\ UNCHANGED inner
    BY <1>0, <2>1, <2>2, CancelStepInv
  <2>3. CASE inner' = [inner EXCEPT ![s] = r] /\ Goto(s, "activate") /\ UNCHANGED frame
    <3>1. r.finished = inner[s].finished /\ r.assigned_worker = inner[s].assigned_worker
      BY DEF TypeOK, DataOK, SessionInner
    <3> HIDE DEF r
    <3>2. SameInner
      BY <2>3, <3>1, InnerUpdateSame, Zenon
    <3>3. SameHandles /\ SameCompletion
      BY <2>1 DEF SameHandles, SameCompletion
    <3>4. Moved(s, "activate")
      BY <1>0, <2>3, GotoMoved
    <3>5. Quiet
      BY <1>0, <2>1, <3>4, MovedQuiet, ConstantsAssumption DEF Early
    <3> QED BY <2>1, <3>2, <3>3, <3>5, SameQueue, SteadyStep
  <2> QED BY <1>1, <2>2, <2>3 DEF activate_session, MayActivate
<1>2. CASE enqueue_session(s)
  <2>1. /\ pc[s] = "activate" /\ queue' = Append(queue, s)
        /\ UNCHANGED <<inner, completion, workers>>
    BY <1>2 DEF enqueue_session
  <2>2. /\ ~Queued(s) /\ ~InHand(s) /\ inner[s].assigned_worker = NONE
    BY <2>1 DEF AssignmentInv, Early
  <2>3. IsInjective(queue') /\ Range(queue') = Range(queue) \cup {s}
    <3>1. queue \in Seq(Sessions) /\ IsInjective(queue)
      BY DEF AssignmentInv, QueuedOnce, TypeOK, DataOK
    <3>2. s \notin Range(queue)
      BY <2>2 DEF Queued
    <3>3. IsInjective(Append(queue, s)) /\ Range(Append(queue, s)) = Range(queue) \cup {s}
      BY <3>1, <3>2, AppendRange
    <3> QED BY <2>1, <3>3
  <2>4. Moved(s, "notify")
    BY <1>0, <1>2, CallMoved DEF enqueue_session
  <2>5. Quiet
    BY <1>0, <2>1, <2>4, LateQuiet DEF LateMove
  <2>6. AssignmentConsistent'
    BY <2>1, <2>5 DEF AssignmentInv, AssignmentConsistent, Quiet
  <2>7. QueuedOnce'
    BY <2>1, <2>2, <2>3, <2>5 DEF AssignmentInv, QueuedOnce, Queued, Quiet
  <2>8. pc'[s] \notin Early
    BY <1>0, <2>4 DEF Moved, TypeOK, TasksOK
  <2> QED BY <2>1, <2>3, <2>5, <2>6, <2>7, <2>8
          DEF AssignmentInv, Early, Queued, Quiet
<1>3. CASE websocket_disconnected(s)
  BY <1>0, <1>3, CancelStepInv DEF websocket_disconnected
<1> QED BY <1>1, <1>2, <1>3 DEF WebSocketTask

LEMMA StaleSame ==
    ASSUME TypeOK, NEW w, NEW b, workers' = [workers EXCEPT ![w].stale = b]
    PROVE  SameHandles
<1> DEFINE h == [workers[w] EXCEPT !.stale = b]
<1>1. workers' = [workers EXCEPT ![w] = h]
  OBVIOUS
<1>2. w \in Workers => /\ h.current_job = workers[w].current_job
                       /\ h.connection_id = workers[w].connection_id
  BY DEF TypeOK, DataOK, WorkerHandle
<1> HIDE DEF h
<1> QED BY <1>1, <1>2 DEF SameHandles, TypeOK, DataOK

\* A step of a stream task that changes no more than last_seen.
LEMMA StreamStepInv ==
    ASSUME TypeOK, AssignmentInv, Quiet, SameHandles,
           UNCHANGED <<inner, completion, queue>>
    PROVE  AssignmentInv'
<1>1. SameInner /\ SameCompletion
  BY DEF SameInner, SameCompletion
<1> QED BY <1>1, SameQueue, SteadyStep

LEMMA BreakStepInv ==
    ASSUME TypeOK, AssignmentInv, NEW c \in Conns, pc[c] # "complete",
           BreakStream(c), UNCHANGED <<inner, completion, queue, workers>>
    PROVE  AssignmentInv'
  BY BreakStreamMoved, LateQuiet, SameAll, ThreadKinds

LEMMA RegisterInv ==
    ASSUME TypeOK, TypeOK', AssignmentInv, NEW w \in Workers, NEW c \in Conns,
           register_worker(w, c)
    PROVE  AssignmentInv'
<1>0. "notify" \in Label \ (Early \cup Hand) /\ c \in Threads /\ c # NONE
  BY ThreadKinds, ConstantsAssumption DEF Label, Early, Hand
<1>1. /\ UNCHANGED <<inner, completion, queue>>
      /\ workers' = [workers EXCEPT ![w] = [NoHandle EXCEPT !.connection_id = c]]
      /\ workers[w].connection_id = NONE /\ pc[c] = "idle"
  BY DEF register_worker
<1>2. /\ workers'[w].current_job = NONE /\ workers'[w].connection_id = c
      /\ \A x \in Workers \ {w} : workers'[x] = workers[x]
  BY <1>1 DEF TypeOK, DataOK, NoHandle
<1>3. workers[w].current_job = NONE
  BY <1>1 DEF AssignmentInv
<1>4. Quiet
  BY <1>0, <1>1, CallMoved, LateQuiet DEF register_worker, LateMove
<1>5. AssignmentConsistent'
  BY <1>1, <1>2, <1>3, <1>4, ConstantsAssumption
  DEF AssignmentInv, AssignmentConsistent, Quiet
<1>6. QueuedOnce'
  BY <1>1, <1>4 DEF AssignmentInv, QueuedOnce, Queued, Quiet
<1> QED BY <1>0, <1>1, <1>2, <1>4, <1>5, <1>6
        DEF AssignmentInv, Early, Queued, Quiet

LEMMA WorkerMessageInv ==
    ASSUME TypeOK, TypeOK', AssignmentInv, NEW c \in Conns, WorkerMessage(c)
    PROVE  AssignmentInv'
<1>0. "apply" \in Label \ (Early \cup Hand) /\ c \in Threads
  BY ThreadKinds DEF Label, Early, Hand
<1>1. CASE \E w \in Workers : register_worker(w, c)
  BY <1>1, RegisterInv
<1>2. CASE stream_ended(c)
  BY <1>2, BreakStepInv DEF stream_ended
<1>3. ASSUME NEW j, heartbeat(c, j) PROVE AssignmentInv'
  <2>1. CASE workers' = [workers EXCEPT ![worker_of[c]].stale = FALSE]
             /\ UNCHANGED tasks
    BY <1>3, <2>1, StaleSame, IdleQuiet, StreamStepInv, Zenon DEF heartbeat, tasks
  <2>2. CASE BreakStream(c) /\ UNCHANGED workers
    BY <1>3, <2>2, BreakStepInv DEF heartbeat
  <2> QED BY <1>3, <2>1, <2>2 DEF heartbeat
<1>4. ASSUME NEW j, refuse_worker_event(c, j) PROVE AssignmentInv'
  BY <1>4, BreakStepInv DEF refuse_worker_event
<1>5. ASSUME NEW j, NEW payload, NEW phase, handle_worker_event(c, j, payload, phase)
      PROVE  AssignmentInv'
  <2>1. Quiet
    BY <1>0, <1>5, CallMoved, LateQuiet DEF handle_worker_event, LateMove
  <2> QED BY <1>5, <2>1, StaleSame, StreamStepInv, Zenon DEF handle_worker_event
<1> QED BY <1>1, <1>2, <1>3, <1>4, <1>5 DEF WorkerMessage

LEMMA StreamTaskInv ==
    ASSUME TypeOK, TypeOK', AssignmentInv, NEW c \in Conns, StreamTask(c)
    PROVE  AssignmentInv'
<1>0. "complete" \in Label \ (Early \cup Hand) /\ c \in Threads /\ "open" \in Resume
  BY ThreadKinds DEF Label, Early, Hand, Resume
<1>1. CASE apply_phase(c)
  <2> DEFINE s == frame[c].session
             r == [inner[s] EXCEPT !.phase = frame[c].phase]
  <2>1. s \in Sessions /\ pc[c] = "apply" /\ UNCHANGED <<completion, queue, workers>>
    BY <1>0, <1>1 DEF TypeOK, TasksOK, LocalsOK, apply_phase
  <2>2. \/ Return(c, TRUE) /\ UNCHANGED inner
        \/ BreakStream(c) /\ UNCHANGED inner
        \/ inner' = [inner EXCEPT ![s] = r] /\ Return(c, TRUE)
    BY <1>1, Zenon DEF apply_phase
  <2>3. CASE Return(c, TRUE) /\ UNCHANGED inner
    BY <1>0, <2>1, <2>3, ReturnMoved, LateQuiet, SameAll, Zenon
  <2>4. CASE BreakStream(c) /\ UNCHANGED inner
    BY <2>1, <2>4, BreakStepInv
  <2>5. CASE inner' = [inner EXCEPT ![s] = r] /\ Return(c, TRUE)
    <3>1. r.finished = inner[s].finished /\ r.assigned_worker = inner[s].assigned_worker
      BY <2>1 DEF TypeOK, DataOK, SessionInner
    <3> HIDE DEF r
    <3>2. SameInner
      BY <2>1, <2>5, <3>1, InnerUpdateSame, Zenon
    <3>3. SameHandles /\ SameCompletion
      BY <2>1 DEF SameHandles, SameCompletion
    <3>4. Quiet
      BY <1>0, <2>1, <2>5, ReturnMoved, LateQuiet, Zenon
    <3> QED BY <2>1, <3>2, <3>3, <3>4, SameQueue, SteadyStep
  <2> QED BY <2>2, <2>3, <2>4, <2>5, Zenon
<1>2. CASE apply_output(c)
  <2>1. frame[c].session \in Sessions /\ pc[c] = "apply"
    BY <1>0, <1>2 DEF TypeOK, TasksOK, LocalsOK, apply_output
  <2>2. LateMove(c)
    BY <1>0, <1>2, <2>1, ReturnMoved, CancelMoved, Zenon DEF apply_output
  <2> QED BY <1>0, <1>2, <2>1, <2>2, LateQuiet, SameAll DEF apply_output
<1>3. CASE apply_exit(c)
  <2>1. LateMove(c)
    BY <1>0, <1>3, GotoMoved DEF apply_exit, LateMove
  <2> QED BY <1>0, <1>3, <2>1, LateQuiet, SameAll DEF apply_exit
<1> QED BY <1>1, <1>2, <1>3 DEF StreamTask

LEMMA PopFrontInv ==
    ASSUME TypeOK, TypeOK', AssignmentInv, pop_front
    PROVE  AssignmentInv'
<1>0. /\ Dispatcher \in Threads /\ pc[Dispatcher] = "loop"
      /\ \A s \in Sessions : s # Dispatcher
  BY ThreadKinds, ConstantsAssumption DEF pop_front
<1>1. UNCHANGED <<inner, completion, workers>>
  BY DEF pop_front
<1>2. CASE Goto(Dispatcher, "idle") /\ UNCHANGED <<queue, frame>>
  <2>1. Moved(Dispatcher, "idle")
    BY <1>0, <1>2, GotoMoved
  <2>2. Quiet
    BY <1>0, <2>1, MovedQuiet DEF Hand
  <2> QED BY <1>1, <1>2, <2>2, SameAll
<1>3. CASE /\ queue # <<>> /\ queue' = Tail(queue)
           /\ Call(Dispatcher, "assign", [NoFrame EXCEPT !.session = Head(queue),
                                                         !.next = "loop"])
  <2>1. /\ Head(queue) \in Sessions /\ Queued(Head(queue))
        /\ IsInjective(queue') /\ Range(queue') = Range(queue) \ {Head(queue)}
    BY <1>3, TailRange DEF TypeOK, DataOK, AssignmentInv, QueuedOnce, Queued
  <2>2. /\ pc' = [pc EXCEPT ![Dispatcher] = "assign"]
        /\ frame'[Dispatcher].session = Head(queue)
        /\ \A u \in Threads \ {Dispatcher} : frame'[u] = frame[u]
    BY <1>0, <1>3 DEF Call, Goto, TypeOK, TasksOK, NoFrame
  <2>3. \A u \in Threads \ {Dispatcher} : pc'[u] = pc[u]
    BY <2>2 DEF TypeOK, TasksOK
  <2>4. \A s \in Sessions : (Failing(s) => Failing(s)') /\ pc'[s] = pc[s]
    BY <1>0, <2>2, <2>3, ThreadKinds DEF Failing
  <2>5. \A s \in Sessions : InHand(s)' => s = Head(queue)
    BY <2>2 DEF InHand
  <2>6. AssignmentConsistent'
    BY <1>1, <2>4 DEF AssignmentInv, AssignmentConsistent
  <2>7. QueuedOnce'
    BY <1>1, <2>1, <2>5 DEF AssignmentInv, QueuedOnce, Queued
  <2>8. \A s \in Sessions : pc'[s] \in Early => ~Queued(s)' /\ ~InHand(s)'
    BY <2>1, <2>4, <2>5 DEF AssignmentInv, Queued
  <2> QED BY <1>1, <2>4, <2>6, <2>7, <2>8 DEF AssignmentInv, Early
<1> QED BY <1>2, <1>3 DEF pop_front

LEMMA AssignJobInv ==
    ASSUME TypeOK, TypeOK', AssignmentInv, try_dispatch_one, NEW w \in Workers,
           ~inner[frame[Dispatcher].session].finished, assign_job(w)
    PROVE  AssignmentInv'
<1> DEFINE s == frame[Dispatcher].session
           c == workers[w].connection_id
<1>0. /\ Dispatcher \in Threads /\ pc[Dispatcher] = "assign" /\ s \in Sessions
      /\ InHand(s) /\ \A x \in Sessions : x # Dispatcher
      /\ UNCHANGED <<completion, queue>>
  BY ThreadKinds, ConstantsAssumption
  DEF try_dispatch_one, TypeOK, TasksOK, LocalsOK, InHand
<1>1. CASE c \in closed \/ Full(c)
  <2> DEFINE f == [frame[Dispatcher] EXCEPT !.worker = w, !.conn = c]
  <2>1. Call(Dispatcher, "push_front", f) /\ UNCHANGED <<inner, workers>>
    BY <1>1, Zenon DEF assign_job
  <2>2. Moved(Dispatcher, "push_front")
    BY <1>0, <2>1, CallMoved
  <2>3. f.session = s /\ frame'[Dispatcher] = f
    BY <1>0, <2>1 DEF Call, TypeOK, TasksOK, Frame
  <2> HIDE DEF f
  <2>4. \A u \in Threads \ {Dispatcher} : pc'[u] = pc[u] /\ frame'[u] = frame[u]
    BY <2>2 DEF Moved, TypeOK, TasksOK
  <2>5. Quiet
    BY <1>0, <2>3, <2>4, ThreadKinds DEF Quiet, InHand, Failing
  <2> QED BY <1>0, <2>1, <2>5, SameAll
<1>2. CASE ~(c \in closed \/ Full(c))
  <2>1. /\ workers' = [workers EXCEPT ![w].current_job = s]
        /\ inner' = [inner EXCEPT ![s].assigned_worker = w]
        /\ Return(Dispatcher, TRUE)
    BY <1>2, Zenon DEF assign_job
  <2>2. /\ workers'[w].current_job = s
        /\ workers'[w].connection_id = workers[w].connection_id
        /\ \A x \in Workers \ {w} : workers'[x] = workers[x]
    BY <2>1 DEF TypeOK, DataOK, WorkerHandle
  <2>3. /\ inner'[s].assigned_worker = w
        /\ inner'[s].finished = inner[s].finished
        /\ \A x \in Sessions \ {s} : inner'[x] = inner[x]
    BY <1>0, <2>1 DEF TypeOK, DataOK, SessionInner
  <2>4. LateMove(Dispatcher)
    BY <1>0, <2>1, ReturnMoved, Zenon
  <2>5. Quiet
    BY <1>0, <2>4, LateQuiet
  <2>6. \A x \in Sessions : ~InHand(x)'
    BY <1>0, <2>4 DEF LateMove, Moved, Hand, InHand, TypeOK, TasksOK
  <2>7. workers[w].current_job = NONE /\ workers[w].connection_id # NONE
    BY DEF assign_job, Idle
  <2>8. inner[s].assigned_worker = NONE /\ ~Queued(s) /\ pc[s] \notin Early
    BY <1>0 DEF AssignmentInv, QueuedOnce
  <2>9. AssignmentConsistent'
    <3>1. \A v \in Workers : \A x \in Sessions : workers'[v].current_job = x =>
             IF inner'[x].finished
             THEN completion[x].worker = v /\ completion[x].step \in {"limits", "worker"}
             ELSE inner'[x].assigned_worker = v
      <4> SUFFICES ASSUME NEW v \in Workers, NEW x \in Sessions,
                          workers'[v].current_job = x
                   PROVE  IF inner'[x].finished
                          THEN /\ completion[x].worker = v
                               /\ completion[x].step \in {"limits", "worker"}
                          ELSE inner'[x].assigned_worker = v
        OBVIOUS
      <4>1. CASE v = w
        BY <4>1, <2>2, <2>3
      <4>2. CASE v # w
        <5>1. workers[v].current_job = x
          BY <4>2, <2>2
        <5>2. IF inner[x].finished
              THEN completion[x].worker = v /\ completion[x].step \in {"limits", "worker"}
              ELSE inner[x].assigned_worker = v
          BY <5>1 DEF AssignmentInv, AssignmentConsistent
        <5>3. x # s
          BY <5>2, <2>8, ConstantsAssumption
        <5> QED BY <5>2, <5>3, <2>3
      <4> QED BY <4>1, <4>2
    <3>2. \A x \in Sessions : \A v \in Workers : inner'[x].assigned_worker = v =>
             workers'[v].current_job = x \/ Failing(x)'
      <4> SUFFICES ASSUME NEW x \in Sessions, NEW v \in Workers,
                          inner'[x].assigned_worker = v
                   PROVE  workers'[v].current_job = x \/ Failing(x)'
        OBVIOUS
      <4>1. CASE x = s
        BY <4>1, <2>2, <2>3
      <4>2. CASE x # s
        <5>1. workers[v].current_job = x \/ Failing(x)
          BY <4>2, <2>3 DEF AssignmentInv, AssignmentConsistent
        <5>2. Failing(x) => Failing(x)'
          BY <2>5 DEF Quiet
        <5>3. workers[v].current_job = x => v # w
          BY <2>7, ConstantsAssumption
        <5> QED BY <5>1, <5>2, <5>3, <2>2
      <4> QED BY <4>1, <4>2
    <3> QED BY <1>0, <3>1, <3>2 DEF AssignmentConsistent
  <2>10. QueuedOnce'
    BY <1>0, <2>3, <2>6, <2>8 DEF AssignmentInv, QueuedOnce, Queued
  <2>11. \A x \in Sessions :
          /\ inner'[x].finished <=> completion'[x].step # "none"
          /\ inner'[x].finished => inner'[x].assigned_worker = NONE
          /\ pc'[x] \in Early =>
                ~Queued(x)' /\ ~InHand(x)' /\ inner'[x].assigned_worker = NONE
    BY <1>0, <2>3, <2>5, <2>6, <2>8 DEF AssignmentInv, Quiet, Queued
  <2>12. \A v \in Workers :
          workers'[v].connection_id = NONE => workers'[v].current_job = NONE
    BY <2>2, <2>7 DEF AssignmentInv
  <2> QED BY <2>9, <2>10, <2>11, <2>12 DEF AssignmentInv, Early
<1> QED BY <1>1, <1>2

LEMMA DispatcherInv ==
    ASSUME TypeOK, TypeOK', AssignmentInv, run_dispatcher
    PROVE  AssignmentInv'
<1> DEFINE s == frame[Dispatcher].session
<1>0. /\ Dispatcher \in Threads /\ \A x \in Sessions : x # Dispatcher
      /\ "loop" \in Label \ (Early \cup Hand)
  BY ThreadKinds, ConstantsAssumption DEF Label, Early, Hand
<1>1. CASE notified
  BY <1>0, <1>1, GotoMoved, LateQuiet, SameAll DEF notified, LateMove
<1>2. CASE pop_front  BY <1>2, PopFrontInv
<1>3. CASE try_dispatch_one
  <2>0. pc[Dispatcher] = "assign" /\ UNCHANGED <<completion, queue>>
    BY <1>3 DEF try_dispatch_one
  <2>1. CASE Return(Dispatcher, TRUE) /\ UNCHANGED <<inner, workers>>
    BY <1>0, <2>0, <2>1, ReturnMoved, LateQuiet, SameAll, Zenon
  <2>2. CASE Goto(Dispatcher, "push_front") /\ UNCHANGED <<inner, workers, frame>>
    <3>1. \A u \in Threads \ {Dispatcher} : pc'[u] = pc[u]
      BY <2>2 DEF Goto, TypeOK, TasksOK
    <3>2. Quiet
      BY <1>0, <2>0, <2>2, <3>1, ThreadKinds DEF Quiet, InHand, Failing
    <3> QED BY <2>0, <2>2, <3>2, SameAll
  <2>3. CASE ~inner[s].finished /\ \E w \in Workers : assign_job(w)
    BY <1>3, <2>3, AssignJobInv
  <2> QED BY <1>3, <2>1, <2>2, <2>3, Zenon DEF try_dispatch_one
<1>4. CASE push_front
  <2>1. /\ pc[Dispatcher] = "push_front" /\ s \in Sessions /\ InHand(s)
        /\ queue' = PushFront(s, queue) /\ UNCHANGED <<inner, completion, workers>>
    BY <1>0, <1>4 DEF push_front, TypeOK, TasksOK, LocalsOK, InHand
  <2>2. ~Queued(s) /\ inner[s].assigned_worker = NONE /\ pc[s] \notin Early
    BY <2>1 DEF AssignmentInv, QueuedOnce
  <2>3. IsInjective(queue') /\ Range(queue') = Range(queue) \cup {s}
    <3>1. queue \in Seq(Sessions) /\ IsInjective(queue) /\ s \notin Range(queue)
      BY <2>2 DEF AssignmentInv, QueuedOnce, Queued, TypeOK, DataOK
    <3> QED BY <2>1, <3>1, PushFrontRange
  <2>4. PICK label \in {"idle", "unregister"} : Moved(Dispatcher, label)
    BY <1>0, <1>4, CallMoved, GotoMoved DEF push_front
  <2>5. Quiet
    BY <1>0, <2>1, <2>4, MovedQuiet DEF Hand
  <2>6. \A x \in Sessions : ~InHand(x)'
    BY <1>0, <2>4 DEF Moved, InHand, TypeOK, TasksOK
  <2>7. AssignmentConsistent'
    BY <2>1, <2>5 DEF AssignmentInv, AssignmentConsistent, Quiet
  <2>8. QueuedOnce'
    BY <2>1, <2>2, <2>3, <2>6 DEF AssignmentInv, QueuedOnce, Queued
  <2>9. \A x \in Sessions : pc'[x] \in Early => pc[x] \in Early /\ ~Queued(x)'
    BY <2>2, <2>3, <2>5 DEF AssignmentInv, Quiet, Queued
  <2> QED BY <2>1, <2>6, <2>7, <2>8, <2>9 DEF AssignmentInv, Early
<1> QED BY <1>1, <1>2, <1>3, <1>4 DEF run_dispatcher

LEMMA MaintenanceInv ==
    ASSUME TypeOK, TypeOK', AssignmentInv, maintenance_once
    PROVE  AssignmentInv'
<1>0. /\ Maintenance \in Threads /\ Maintenance # Dispatcher
      /\ Maintenance \notin Sessions /\ "expire" \in Resume
  BY ThreadKinds, ConstantsAssumption DEF Resume
<1>1. ASSUME NEW label, Moved(Maintenance, label), pc[Maintenance] # "complete",
             UNCHANGED <<inner, completion, queue, workers>>
      PROVE  AssignmentInv'
  BY <1>0, <1>1, MovedQuiet, SameAll
<1>2. CASE collect_stale     BY <1>0, <1>1, <1>2, GotoMoved DEF collect_stale
<1>3. CASE sweep_worker      BY <1>0, <1>1, <1>3, CallMoved DEF sweep_worker
<1>4. CASE collect_sessions  BY <1>0, <1>1, <1>4, GotoMoved DEF collect_sessions
<1>5. ASSUME NEW s \in Sessions, expire_session(s) PROVE AssignmentInv'
  <2>1. CASE UNCHANGED tasks
    BY <1>5, <2>1, IdleQuiet, SameAll DEF expire_session, tasks
  <2>2. CASE Call(Maintenance, "cancel", [NoFrame EXCEPT !.session = s])
    BY <1>0, <1>1, <1>5, <2>2, CallMoved DEF expire_session
  <2> QED BY <1>5, <2>1, <2>2 DEF expire_session
<1>6. CASE cancel_expired
  <2>1. frame[Maintenance].session \in Sessions
    BY <1>0, <1>6 DEF TypeOK, TasksOK, LocalsOK, cancel_expired
  <2> QED BY <1>0, <1>6, <2>1, CancelStepInv DEF cancel_expired
<1>7. CASE maintenance_done  BY <1>0, <1>1, <1>7, GotoMoved DEF maintenance_done
<1> QED BY <1>2, <1>3, <1>4, <1>5, <1>6, <1>7 DEF maintenance_once

LEMMA WorldInv ==
    ASSUME TypeOK, TypeOK', AssignmentInv, World
    PROVE  AssignmentInv'
<1>1. ASSUME NEW w \in Workers, silence(w) PROVE AssignmentInv'
  BY <1>1, StaleSame, IdleQuiet, StreamStepInv, Zenon DEF silence, tasks
<1>2. CASE \/ \E s \in Sessions : ticket_expires(s)
           \/ \E c \in Conns : deliver(c) \/ receiver_dropped(c)
  BY <1>2, IdleQuiet, SameAll DEF ticket_expires, deliver, receiver_dropped, tasks
<1> QED BY <1>1, <1>2 DEF World

LEMMA InitInv == Init => AssignmentInv
<1> SUFFICES ASSUME Init PROVE AssignmentInv
  OBVIOUS
<1>1. \A s \in Sessions : /\ ~inner[s].finished /\ inner[s].assigned_worker = NONE
                          /\ completion[s].step = "none"
  BY DEF Init, NewInner
<1>2. \A w \in Workers : workers[w].current_job = NONE
  BY DEF Init, NoHandle
<1>3. \A s \in Sessions : ~Queued(s) /\ ~InHand(s)
  BY ThreadKinds DEF Init, Queued, Range, InHand
<1>4. IsInjective(queue)
  BY DEF Init, IsInjective
<1>5. AssignmentConsistent
  BY <1>1, <1>2, ConstantsAssumption DEF AssignmentConsistent
<1>6. QueuedOnce
  BY <1>1, <1>3, <1>4 DEF QueuedOnce
<1> QED BY <1>1, <1>2, <1>3, <1>5, <1>6 DEF AssignmentInv

LEMMA StepInv == TypeOK /\ TypeOK' /\ AssignmentInv /\ [Next]_vars => AssignmentInv'
<1> SUFFICES ASSUME TypeOK, TypeOK', AssignmentInv, [Next]_vars PROVE AssignmentInv'
  OBVIOUS
<1>1. ASSUME NEW s \in Sessions, Completing(s)     PROVE AssignmentInv'
  BY <1>1, ReleaseLimitsInv, FreeWorkerInv DEF Completing
<1>2. ASSUME NEW s \in Sessions, Browser(s)        PROVE AssignmentInv'
  BY <1>2, BrowserInv
<1>3. ASSUME NEW s \in Sessions, WebSocketTask(s)  PROVE AssignmentInv'
  BY <1>3, WebSocketTaskInv
<1>4. ASSUME NEW t \in Threads, Subroutine(t)      PROVE AssignmentInv'
  BY <1>4, SubroutineInv
<1>5. ASSUME NEW c \in Conns, WorkerMessage(c)     PROVE AssignmentInv'
  BY <1>5, WorkerMessageInv
<1>6. ASSUME NEW c \in Conns, StreamTask(c)        PROVE AssignmentInv'
  BY <1>6, StreamTaskInv
<1>7. CASE run_dispatcher    BY <1>7, DispatcherInv
<1>8. CASE maintenance_once  BY <1>8, MaintenanceInv
<1>9. CASE World             BY <1>9, WorldInv
<1>10. CASE UNCHANGED vars
  BY <1>10, IdleQuiet, SameAll DEF vars, tasks
<1> QED BY <1>1, <1>2, <1>3, <1>4, <1>5, <1>6, <1>7, <1>8, <1>9, <1>10 DEF Next

LEMMA AssignmentInductive == Spec => [](TypeOK /\ AssignmentInv)
  BY TypeCorrect, InitInv, StepInv, PTL DEF Spec

\* A worker's current_job and the session's assigned_worker always agree, up to
\* the steps complete_session and unregister_worker still owe.
THEOREM Assignments == Spec => []AssignmentConsistent
<1>1. AssignmentInv => AssignmentConsistent
  BY DEF AssignmentInv
<1> QED BY <1>1, AssignmentInductive, PTL

\* A session is never in two places: not twice in the queue, nor in the queue
\* while the dispatcher holds it or a worker runs it, so no job runs twice.
THEOREM OnePlace == Spec => []QueuedOnce
<1>1. AssignmentInv => QueuedOnce
  BY DEF AssignmentInv
<1> QED BY <1>1, AssignmentInductive, PTL

-----------------------------------------------------------------------------
(* What a step may never do *)

FinishedKept == \A s \in Sessions : inner[s].finished =>
    /\ inner'[s].finished /\ inner'[s].phase = inner[s].phase
    /\ inner'[s].assigned_worker = NONE

\* Only the record of one session changes, and either it keeps what FinishedKept
\* speaks of or the session was not finished.
LEMMA InnerUpdateKept ==
    ASSUME TypeOK, AssignmentInv, NEW s \in Sessions, NEW r,
           inner' = [inner EXCEPT ![s] = r],
           inner[s].finished =>
              /\ r.finished /\ r.phase = inner[s].phase
              /\ r.assigned_worker = inner[s].assigned_worker
    PROVE  FinishedKept
  BY DEF FinishedKept, AssignmentInv, TypeOK, DataOK

LEMMA SameKept ==
    ASSUME AssignmentInv, UNCHANGED inner
    PROVE  FinishedKept
  BY DEF FinishedKept, AssignmentInv

LEMMA FinishedStep == TypeOK /\ AssignmentInv /\ [Next]_vars => FinishedKept
<1> SUFFICES ASSUME TypeOK, AssignmentInv, [Next]_vars PROVE FinishedKept
  OBVIOUS
<1>1. ASSUME NEW s \in Sessions, Completing(s) PROVE FinishedKept
  <2>1. CASE release_limits(s)
    <3> DEFINE r == [inner[s] EXCEPT !.limits_released = TRUE,
                                     !.pending_activation = FALSE,
                                     !.limits_reserved = FALSE]
    <3>1. inner' = [inner EXCEPT ![s] = r] \/ UNCHANGED inner
      BY <2>1 DEF release_limits
    <3>2. /\ r.finished = inner[s].finished /\ r.phase = inner[s].phase
          /\ r.assigned_worker = inner[s].assigned_worker
      BY DEF TypeOK, DataOK, SessionInner
    <3> HIDE DEF r
    <3> QED BY <3>1, <3>2, InnerUpdateKept, SameKept
  <2>2. CASE free_worker(s)  BY <2>2, SameKept DEF free_worker
  <2> QED BY <1>1, <2>1, <2>2 DEF Completing
<1>2. ASSUME NEW s \in Sessions, Browser(s) PROVE FinishedKept
  <2>1. CASE consume_ticket(s)
    BY <2>1, InnerUpdateKept, Zenon DEF consume_ticket
  <2>2. CASE UNCHANGED inner  BY <2>2, SameKept
  <2> QED BY <1>2, <2>1, <2>2
          DEF Browser, create_execution, send_stdin, resize, Forward, terminate,
              lagged, client_cancel, rate_exceeded, hello_failed
<1>3. ASSUME NEW s \in Sessions, WebSocketTask(s) PROVE FinishedKept
  <2>1. CASE activate_session(s)
    BY <2>1, InnerUpdateKept, SameKept DEF activate_session, MayActivate
  <2>2. CASE UNCHANGED inner  BY <2>2, SameKept
  <2> QED BY <1>3, <2>1, <2>2 DEF WebSocketTask, enqueue_session,
                                  websocket_disconnected
<1>4. ASSUME NEW t \in Threads, Subroutine(t) PROVE FinishedKept
  <2>1. CASE complete_session(t)
    <3>1. frame[t].session \in Sessions
      BY <2>1 DEF TypeOK, TasksOK, LocalsOK, complete_session
    <3> QED BY <2>1, <3>1, InnerUpdateKept, SameKept, Zenon DEF complete_session
  <2>2. CASE UNCHANGED inner  BY <2>2, SameKept
  <2> QED BY <1>4, <2>1, <2>2, Zenon
          DEF Subroutine, remove_session, unregister_worker, fail_job, notify_one,
              retain_queue, send_command, lookup_and_send
<1>5. ASSUME NEW c \in Conns, WorkerMessage(c) PROVE FinishedKept
  BY <1>5, SameKept, Zenon DEF WorkerMessage, register_worker, stream_ended, heartbeat,
                        refuse_worker_event, handle_worker_event
<1>6. ASSUME NEW c \in Conns, StreamTask(c) PROVE FinishedKept
  <2>1. CASE apply_phase(c)
    <3> DEFINE s == frame[c].session
               r == [inner[s] EXCEPT !.phase = frame[c].phase]
    <3>1. s \in Sessions
      BY <2>1, ThreadKinds DEF TypeOK, TasksOK, LocalsOK, apply_phase
    <3>2. inner[s].finished \in BOOLEAN
      BY <3>1 DEF TypeOK, DataOK, SessionInner
    <3>3. CASE inner[s].finished
      <4>1. UNCHANGED inner
        BY <2>1, <3>2, <3>3 DEF apply_phase
      <4> QED BY <4>1, SameKept
    <3>4. CASE ~inner[s].finished
      <4>1. UNCHANGED inner \/ inner' = [inner EXCEPT ![s] = r]
        BY <2>1, Zenon DEF apply_phase
      <4> HIDE DEF r
      <4> QED BY <3>1, <3>4, <4>1, InnerUpdateKept, SameKept
    <3> QED BY <3>3, <3>4
  <2>2. CASE UNCHANGED inner  BY <2>2, SameKept
  <2> QED BY <1>6, <2>1, <2>2, Zenon DEF StreamTask, apply_output, apply_exit
<1>7. CASE run_dispatcher
  <2>1. CASE try_dispatch_one
    <3> DEFINE s == frame[Dispatcher].session
    <3>1. s \in Sessions
      BY <2>1, ThreadKinds DEF TypeOK, TasksOK, LocalsOK, try_dispatch_one
    <3>2. ASSUME NEW w \in Workers, assign_job(w), ~inner[s].finished
          PROVE  FinishedKept
      <4> DEFINE r == [inner[s] EXCEPT !.assigned_worker = w]
      <4>1. UNCHANGED inner \/ inner' = [inner EXCEPT ![s] = r]
        BY <3>2, Zenon DEF assign_job
      <4> HIDE DEF r
      <4> QED BY <3>1, <3>2, <4>1, InnerUpdateKept, SameKept
    <3> QED BY <2>1, <3>2, SameKept, Zenon DEF try_dispatch_one
  <2>2. CASE UNCHANGED inner  BY <2>2, SameKept
  <2> QED BY <1>7, <2>1, <2>2 DEF run_dispatcher, notified, pop_front, push_front
<1>8. CASE maintenance_once
  BY <1>8, SameKept, Zenon DEF maintenance_once, collect_stale, sweep_worker,
                        collect_sessions, expire_session, cancel_expired,
                        maintenance_done
<1>9. CASE World
  BY <1>9, SameKept DEF World, ticket_expires, silence, deliver, receiver_dropped
<1>10. CASE UNCHANGED vars
  BY <1>10, SameKept DEF vars
<1> QED BY <1>1, <1>2, <1>3, <1>4, <1>5, <1>6, <1>7, <1>8, <1>9, <1>10 DEF Next

\* Once complete_session has marked a session finished, no worker event, cancel,
\* dispatch or expiry changes its phase or assigns it again.
THEOREM Final == Spec => FinishedIsFinal
<1>1. TypeOK /\ AssignmentInv /\ [Next]_vars =>
        [\A s \in Sessions : inner[s].finished =>
           /\ inner'[s].finished /\ inner'[s].phase = inner[s].phase
           /\ inner'[s].assigned_worker = NONE]_vars
  BY FinishedStep DEF FinishedKept
<1> QED BY <1>1, AssignmentInductive, PTL DEF Spec, FinishedIsFinal

ConnectionKept == \A w \in Workers :
    LET c == workers[w].connection_id IN
    c # NONE /\ workers'[w].connection_id # c =>
        \E t \in Threads : /\ pc[t] = "unregister"
                           /\ frame[t].worker = w /\ frame[t].conn = c

LEMMA SameConnections ==
    ASSUME \A w \in Workers : workers'[w].connection_id = workers[w].connection_id
    PROVE  ConnectionKept
  BY DEF ConnectionKept

LEMMA ConnectionStep == TypeOK /\ [Next]_vars => ConnectionKept
<1> SUFFICES ASSUME TypeOK, [Next]_vars PROVE ConnectionKept
  OBVIOUS
<1>0. ASSUME UNCHANGED workers PROVE ConnectionKept
  BY <1>0, SameConnections
<1>1. ASSUME NEW s \in Sessions, free_worker(s) PROVE ConnectionKept
  <2> DEFINE w == completion[s].worker
             h == [workers[w] EXCEPT !.current_job = NONE,
                                     !.recently_completed_job = s]
  <2>1. UNCHANGED workers \/ workers' = [workers EXCEPT ![w] = h]
    BY <1>1 DEF free_worker
  <2>2. w \in Workers => h.connection_id = workers[w].connection_id
    BY DEF TypeOK, DataOK, WorkerHandle
  <2> HIDE DEF h
  <2> QED BY <2>1, <2>2, SameConnections DEF TypeOK, DataOK
<1>2. ASSUME NEW t \in Threads, unregister_worker(t) PROVE ConnectionKept
  <2> DEFINE w == frame[t].worker
  <2>1. w \in Workers /\ pc[t] = "unregister"
    BY <1>2 DEF TypeOK, TasksOK, LocalsOK, unregister_worker, fail_job
  <2>2. CASE UNCHANGED workers  BY <1>0, <2>2
  <2>3. CASE Registered(w, frame[t].conn) /\ workers' = [workers EXCEPT ![w] = NoHandle]
    <3>1. \A v \in Workers \ {w} : workers'[v] = workers[v]
      BY <2>1, <2>3 DEF TypeOK, DataOK
    <3>2. frame[t].conn = workers[w].connection_id
      BY <2>3 DEF Registered
    <3> QED BY <2>1, <3>1, <3>2 DEF ConnectionKept
  <2> QED BY <1>2, <2>2, <2>3, Zenon DEF unregister_worker, fail_job
<1>3. ASSUME NEW w \in Workers, NEW c \in Conns, register_worker(w, c)
      PROVE  ConnectionKept
  <2>1. \A v \in Workers \ {w} : workers'[v] = workers[v]
    BY <1>3 DEF register_worker, TypeOK, DataOK
  <2>2. workers[w].connection_id = NONE
    BY <1>3 DEF register_worker
  <2> QED BY <2>1, <2>2 DEF ConnectionKept
<1>4. ASSUME NEW w, NEW b, workers' = [workers EXCEPT ![w].stale = b]
      PROVE  ConnectionKept
  BY <1>4, StaleSame, SameConnections DEF SameHandles
<1>5. ASSUME NEW w \in Workers, assign_job(w) PROVE ConnectionKept
  <2> DEFINE h == [workers[w] EXCEPT !.current_job = frame[Dispatcher].session]
  <2>1. UNCHANGED workers \/ workers' = [workers EXCEPT ![w] = h]
    BY <1>5, Zenon DEF assign_job
  <2>2. h.connection_id = workers[w].connection_id
    BY DEF TypeOK, DataOK, WorkerHandle
  <2> HIDE DEF h
  <2> QED BY <2>1, <2>2, SameConnections, Zenon DEF TypeOK, DataOK
<1>6. ASSUME NEW s \in Sessions, Completing(s) \/ Browser(s) \/ WebSocketTask(s)
      PROVE  ConnectionKept
  BY <1>0, <1>1, <1>6
  DEF Completing, release_limits, Browser, create_execution, consume_ticket,
      send_stdin, resize, Forward, terminate, lagged, client_cancel, rate_exceeded,
      hello_failed, WebSocketTask, activate_session, enqueue_session,
      websocket_disconnected
<1>7. ASSUME NEW t \in Threads, Subroutine(t) PROVE ConnectionKept
  BY <1>0, <1>2, <1>7, Zenon
  DEF Subroutine, complete_session, remove_session, notify_one, retain_queue,
      send_command, lookup_and_send
<1>8. ASSUME NEW c \in Conns, WorkerMessage(c) \/ StreamTask(c)
      PROVE  ConnectionKept
  <2>1. ASSUME NEW j, heartbeat(c, j) PROVE ConnectionKept
    BY <1>0, <1>4, <2>1 DEF heartbeat
  <2>2. ASSUME NEW j, NEW payload, NEW phase,
               handle_worker_event(c, j, payload, phase)
        PROVE  ConnectionKept
    BY <1>4, <2>2, Zenon DEF handle_worker_event
  <2> QED BY <1>0, <1>3, <1>8, <2>1, <2>2, Zenon
          DEF WorkerMessage, stream_ended, refuse_worker_event, StreamTask,
              apply_phase, apply_output, apply_exit
<1>9. CASE run_dispatcher
  BY <1>0, <1>5, <1>9, Zenon DEF run_dispatcher, notified, pop_front, try_dispatch_one,
                          push_front
<1>10. CASE maintenance_once
  BY <1>0, <1>10, Zenon DEF maintenance_once, collect_stale, sweep_worker,
                     collect_sessions, expire_session, cancel_expired,
                     maintenance_done
<1>11. CASE World
  BY <1>0, <1>4, <1>11, Zenon DEF World, ticket_expires, silence, deliver, receiver_dropped
<1>12. CASE UNCHANGED vars  BY <1>0, <1>12 DEF vars
<1> QED BY <1>6, <1>7, <1>8, <1>9, <1>10, <1>11, <1>12 DEF Next

\* A registered worker leaves the map only by an unregister for the very
\* connection it is registered with: the late end of an old connection, a failed
\* send and a stale sweep never remove the worker's next generation.
THEOREM Generations == Spec => GenerationSafe
<1>1. TypeOK /\ [Next]_vars =>
        [\A w \in Workers :
           LET c == workers[w].connection_id IN
           c # NONE /\ workers'[w].connection_id # c =>
               \E t \in Threads : /\ pc[t] = "unregister"
                                  /\ frame[t].worker = w /\ frame[t].conn = c]_vars
  BY ConnectionStep DEF ConnectionKept
<1> QED BY <1>1, TypeCorrect, PTL DEF Spec, GenerationSafe

-----------------------------------------------------------------------------
(* No wake-up is lost *)

LEMMA SameCanRun ==
    ASSUME SameHandles
    PROVE  CanRun' <=> CanRun
<1>1. Busy' = Busy
  BY DEF Busy, SameHandles
<1> QED BY <1>1 DEF CanRun, HasRoom, Idle, SameHandles

\* What the wake-ups that are due do in a step: one task moves, and the others,
\* the permit and the completions owe what they owed.
DueKept ==
    /\ permit => permit'
    /\ \A s \in Sessions : completion[s].step = "remove" => completion'[s].step = "remove"

LEMMA QuietWakeup ==
    ASSUME TypeOK, WakeupInv, NEW t \in Threads, NEW label, Moved(t, label),
           pc[t] \notin {"notify", "complete", "await"}, DueKept,
           CanRun' => CanRun, Waiting' => Waiting
    PROVE  WakeupInv'
<1>1. \A u \in Threads \ {t} : pc'[u] = pc[u] /\ frame'[u] = frame[u]
  BY DEF Moved, TypeOK, TasksOK
<1>2. WakeupDue => WakeupDue'
  BY <1>1 DEF WakeupDue, DueKept
<1> QED BY <1>2 DEF WakeupInv

LEMMA IdleWakeup ==
    ASSUME WakeupInv, DueKept, UNCHANGED <<pc, frame, queue>>, CanRun' => CanRun
    PROVE  WakeupInv'
<1>1. WakeupDue => WakeupDue'
  BY DEF WakeupDue, DueKept
<1> QED BY <1>1 DEF WakeupInv, Waiting

LEMMA OtherWaiting ==
    ASSUME TypeOK, NEW t \in Threads \ {Dispatcher}, NEW label, Moved(t, label),
           queue = <<>> => queue' = <<>>
    PROVE  Waiting' => Waiting
<1>1. pc'[Dispatcher] = pc[Dispatcher] /\ frame'[Dispatcher] = frame[Dispatcher]
  BY ThreadKinds DEF Moved, TypeOK, TasksOK
<1> QED BY <1>1 DEF Waiting

LEMMA LateWaiting ==
    ASSUME TypeOK, NEW t \in Threads, LateMove(t), queue = <<>> => queue' = <<>>
    PROVE  /\ Waiting' => Waiting
           /\ t = Dispatcher => ~Waiting'
<1>1. PICK label \in Label \ (Early \cup Hand) : Moved(t, label)
  BY DEF LateMove
<1>2. ASSUME t = Dispatcher PROVE ~Waiting'
  BY <1>1, <1>2 DEF Waiting, Moved, Early, Hand, TypeOK, TasksOK
<1> QED BY <1>1, <1>2, OtherWaiting

\* A step of a task that leaves the data of WakeupInv alone.
LEMMA LateWakeup ==
    ASSUME TypeOK, WakeupInv, NEW t \in Threads, LateMove(t),
           pc[t] \notin {"notify", "complete", "await"}, SameHandles,
           UNCHANGED <<completion, permit>>, queue = <<>> => queue' = <<>>
    PROVE  WakeupInv'
<1>1. PICK label \in Label \ (Early \cup Hand) : Moved(t, label)
  BY DEF LateMove
<1>2. DueKept
  BY DEF DueKept
<1> QED BY <1>1, <1>2, LateWaiting, SameCanRun, QuietWakeup

LEMMA SameWorkers ==
    ASSUME UNCHANGED workers
    PROVE  SameHandles
  BY DEF SameHandles

LEMMA SubroutineWakeup ==
    ASSUME TypeOK, TypeOK', AssignmentInv, WakeupInv, NEW t \in Threads, Subroutine(t)
    PROVE  WakeupInv'
<1>0. {"complete", "sender", "unregister", "await"} \subseteq Label \ (Early \cup Hand)
  BY DEF Label, Early, Hand
<1>1. CASE complete_session(t)
  <2> DEFINE s == frame[t].session
  <2>1. s \in Sessions /\ pc[t] = "complete" /\ UNCHANGED <<queue, workers, permit>>
    BY <1>1 DEF TypeOK, TasksOK, LocalsOK, complete_session
  <2>2. LateMove(t)
    BY <1>0, <1>1, CompletedMoved, GotoMoved DEF complete_session, LateMove
  <2>3. PICK label \in Label \ (Early \cup Hand) : Moved(t, label)
    BY <2>2 DEF LateMove
  <2>4. \A u \in Threads \ {t} : pc'[u] = pc[u] /\ frame'[u] = frame[u]
    BY <2>3 DEF Moved, TypeOK, TasksOK
  <2>5. frame[t].unregistering =>
           pc'[t] \in {"notify", "await"} /\ frame'[t] = frame[t]
    BY <1>1 DEF complete_session, Completed, Goto, TypeOK, TasksOK
  <2>6. \A x \in Sessions : completion[x].step = "remove" =>
           completion'[x].step = "remove"
    <3>1. CASE UNCHANGED completion  BY <3>1
    <3>2. CASE ~inner[s].finished
      <4>1. completion[s].step = "none"
        BY <2>1, <3>2 DEF AssignmentInv
      <4>2. completion' = [completion EXCEPT ![s] =
                             [step |-> "limits", worker |-> inner[s].assigned_worker]]
        BY <1>1, <3>2, Zenon DEF complete_session
      <4> QED BY <2>1, <4>1, <4>2 DEF TypeOK, DataOK
    <3> QED BY <1>1, <3>1, <3>2 DEF complete_session
  <2>7. WakeupDue => WakeupDue'
    BY <2>1, <2>4, <2>5, <2>6 DEF WakeupDue
  <2>8. CanRun' => CanRun
    BY <2>1, SameWorkers, SameCanRun
  <2> QED BY <2>1, <2>2, <2>7, <2>8, LateWaiting DEF WakeupInv
<1>2. CASE remove_session(t)
  BY <1>2 DEF remove_session, WakeupInv, WakeupDue
<1>3. CASE unregister_worker(t)
  <2> DEFINE w == frame[t].worker
             job == workers[w].current_job
             f == [frame[t] EXCEPT !.session = job, !.phase = "exited",
                                   !.unregistering = TRUE]
  <2>1. pc[t] = "unregister" /\ frame[t] \in Frame
        /\ UNCHANGED <<queue, completion, permit>>
    BY <1>3 DEF TypeOK, TasksOK, unregister_worker, fail_job
  <2>2. CASE Return(t, FALSE) /\ UNCHANGED workers
    BY <2>1, <2>2, ReturnMoved, SameWorkers, LateWakeup, Zenon
  <2>3. CASE Goto(t, "notify")
    <3>1. pc'[t] = "notify"
      BY <2>3 DEF Goto, TypeOK, TasksOK
    <3> QED BY <3>1 DEF WakeupInv, WakeupDue
  <2>4. CASE Call(t, "complete", f)
    <3>1. f.unregistering
      BY <2>1 DEF Frame
    <3>2. pc'[t] = "complete" /\ frame'[t] = f
      BY <2>4 DEF Call, Goto, TypeOK, TasksOK
    <3> HIDE DEF f
    <3> QED BY <3>1, <3>2 DEF WakeupInv, WakeupDue
  <2> QED BY <1>3, <2>2, <2>3, <2>4, Zenon DEF unregister_worker, fail_job
<1>4. CASE notify_one(t)
  BY <1>4 DEF notify_one, WakeupInv, WakeupDue
<1>5. CASE retain_queue(t)
  <2>1. LateMove(t)
    BY <1>0, <1>5, GotoMoved DEF retain_queue, LateMove
  <2>2. queue = <<>> => queue' = <<>>
    <3> SUFFICES ASSUME queue = <<>> PROVE queue' = <<>>
      OBVIOUS
    <3>1. Len(queue) = 0 /\ 1..Len(queue) = {}
      OBVIOUS
    <3>2. Without(queue, frame[t].session) = queue
      BY <3>1, WithoutProperties, Zenon DEF TypeOK, DataOK
    <3> QED BY <1>5, <3>2 DEF retain_queue
  <2> QED BY <1>5, <2>1, <2>2, SameWorkers, LateWakeup DEF retain_queue
<1>6. CASE send_command(t)
  <2>1. LateMove(t)
    BY <1>0, <1>6, ReturnMoved, CallMoved, Zenon DEF send_command, LateMove
  <2> QED BY <1>6, <2>1, SameWorkers, LateWakeup DEF send_command
<1>7. CASE lookup_and_send(t)
  <2> DEFINE f == [frame[t] EXCEPT !.conn = workers[frame[t].worker].connection_id]
  <2>0. \/ Return(t, FALSE) \/ Call(t, "unregister", f) \/ Return(t, TRUE)
    BY <1>7, Zenon DEF lookup_and_send
  <2>1. LateMove(t)
    BY <1>0, <2>0, ReturnMoved, CallMoved, Zenon DEF LateMove
  <2> QED BY <1>7, <2>1, SameWorkers, LateWakeup, Zenon DEF lookup_and_send
<1> QED BY <1>1, <1>2, <1>3, <1>4, <1>5, <1>6, <1>7 DEF Subroutine

LEMMA SessionWakeup ==
    ASSUME TypeOK, TypeOK', WakeupInv, NEW s \in Sessions,
           Completing(s) \/ Browser(s) \/ WebSocketTask(s)
    PROVE  WakeupInv'
<1>0. /\ s \in Threads /\ s # Dispatcher
      /\ {"open", "closed", "disconnected", "limited"} \subseteq Resume
      /\ "send" \in Label \ (Early \cup Hand)
  BY ThreadKinds, ConstantsAssumption DEF Resume, Label, Early, Hand
<1>1. CASE release_limits(s)
  <2>1. completion[s].step = "limits" /\ UNCHANGED <<queue, workers, permit, pc, frame>>
    BY <1>1 DEF release_limits, tasks
  <2>2. completion' = [completion EXCEPT ![s].step = "worker"]
    BY <1>1 DEF release_limits
  <2>3. DueKept
    BY <2>1, <2>2 DEF DueKept, TypeOK, DataOK, Completion
  <2> QED BY <2>1, <2>3, SameWorkers, SameCanRun, IdleWakeup
<1>2. CASE free_worker(s)
  <2>1. completion'[s].step = "remove"
    BY <1>2 DEF free_worker, TypeOK, DataOK, Completion
  <2> QED BY <2>1 DEF WakeupInv, WakeupDue
<1>3. CASE create_execution(s)
  <2>1. DueKept /\ UNCHANGED <<pc, frame, queue, workers>>
    BY <1>3 DEF DueKept, create_execution, tasks
  <2> QED BY <2>1, SameWorkers, SameCanRun, IdleWakeup
<1>4. CASE consume_ticket(s)
  <2>1. Moved(s, "upgrade") /\ pc[s] = "idle"
    BY <1>0, <1>4, GotoMoved DEF consume_ticket
  <2>2. DueKept /\ UNCHANGED <<queue, workers>>
    BY <1>4 DEF DueKept, consume_ticket
  <2>3. Waiting' => Waiting
    BY <1>0, <2>1, <2>2, OtherWaiting
  <2> QED BY <1>0, <2>1, <2>2, <2>3, SameWorkers, SameCanRun, QuietWakeup
<1>5. ASSUME NEW command, Forward(s, command) PROVE WakeupInv'
  <2>1. LateMove(s)
    BY <1>0, <1>5, CallMoved DEF Forward, LateMove
  <2> QED BY <1>0, <1>5, <2>1, SameWorkers, LateWakeup DEF Forward
<1>6. ASSUME NEW phase, NEW next \in Resume, Cancel(s, s, phase, next),
             pc[s] \notin {"notify", "complete", "await"},
             UNCHANGED <<completion, queue, workers, permit>>
      PROVE  WakeupInv'
  BY <1>0, <1>6, CancelMoved, SameWorkers, LateWakeup
<1>7. CASE send_stdin(s) \/ resize(s)
  BY <1>5, <1>7 DEF send_stdin, resize
<1>8. CASE terminate(s) \/ lagged(s)
  BY <1>0, <1>6, <1>8 DEF terminate, lagged, client_cancel
<1>9. CASE rate_exceeded(s)  BY <1>0, <1>6, <1>9 DEF rate_exceeded
<1>10. CASE hello_failed(s)  BY <1>0, <1>6, <1>10 DEF hello_failed
<1>11. CASE activate_session(s)
  <2>0. pc[s] = "upgrade" /\ UNCHANGED <<completion, queue, workers, permit>>
    BY <1>11 DEF activate_session, MayActivate
  <2>1. CASE Cancel(s, s, "cancelled", "closed")
    BY <1>0, <1>6, <2>0, <2>1
  <2>2. CASE Goto(s, "activate") /\ UNCHANGED frame
    <3>1. Moved(s, "activate")
      BY <1>0, <2>2, GotoMoved
    <3>2. DueKept
      BY <2>0 DEF DueKept
    <3>3. Waiting' => Waiting
      BY <1>0, <2>0, <3>1, OtherWaiting
    <3> QED BY <1>0, <2>0, <3>1, <3>2, <3>3, SameWorkers, SameCanRun, QuietWakeup
  <2> QED BY <1>11, <2>1, <2>2 DEF activate_session, MayActivate
<1>12. CASE enqueue_session(s)
  <2>1. pc'[s] = "notify"
    BY <1>0, <1>12 DEF enqueue_session, Call, Goto, TypeOK, TasksOK
  <2> QED BY <1>0, <2>1 DEF WakeupInv, WakeupDue
<1>13. CASE websocket_disconnected(s)
  BY <1>0, <1>6, <1>13 DEF websocket_disconnected
<1> QED BY <1>1, <1>2, <1>3, <1>4, <1>7, <1>8, <1>9, <1>10, <1>11, <1>12, <1>13
        DEF Completing, Browser, WebSocketTask

LEMMA ConnectionWakeup ==
    ASSUME TypeOK, TypeOK', WakeupInv, NEW c \in Conns, WorkerMessage(c) \/ StreamTask(c)
    PROVE  WakeupInv'
<1>0. /\ c \in Threads /\ "open" \in Resume
      /\ {"apply", "complete"} \subseteq Label \ (Early \cup Hand)
  BY ThreadKinds DEF Resume, Label, Early, Hand
<1>1. ASSUME NEW w \in Workers, register_worker(w, c) PROVE WakeupInv'
  <2>1. pc'[c] = "notify"
    BY <1>0, <1>1 DEF register_worker, Call, Goto, TypeOK, TasksOK
  <2> QED BY <1>0, <2>1 DEF WakeupInv, WakeupDue
<1>2. ASSUME BreakStream(c), pc[c] \in {"open", "apply"},
             UNCHANGED <<completion, queue, workers, permit>>
      PROVE  WakeupInv'
  BY <1>0, <1>2, BreakStreamMoved, SameWorkers, LateWakeup
<1>3. CASE stream_ended(c)  BY <1>2, <1>3 DEF stream_ended
<1>4. ASSUME NEW j, heartbeat(c, j) PROVE WakeupInv'
  <2>1. CASE workers' = [workers EXCEPT ![worker_of[c]].stale = FALSE]
             /\ UNCHANGED tasks
    <3>1. DueKept /\ UNCHANGED <<pc, frame, queue>>
      BY <1>4, <2>1 DEF DueKept, heartbeat, tasks
    <3> QED BY <2>1, <3>1, StaleSame, SameCanRun, IdleWakeup, Zenon
  <2>2. CASE BreakStream(c) /\ UNCHANGED workers
    BY <1>2, <1>4, <2>2 DEF heartbeat
  <2> QED BY <1>4, <2>1, <2>2 DEF heartbeat
<1>5. ASSUME NEW j, refuse_worker_event(c, j) PROVE WakeupInv'
  BY <1>2, <1>5 DEF refuse_worker_event
<1>6. ASSUME NEW j, NEW payload, NEW phase, handle_worker_event(c, j, payload, phase)
      PROVE  WakeupInv'
  <2>1. LateMove(c)
    BY <1>0, <1>6, CallMoved DEF handle_worker_event, LateMove
  <2> QED BY <1>0, <1>6, <2>1, StaleSame, LateWakeup, Zenon DEF handle_worker_event
<1>7. ASSUME Return(c, TRUE), pc[c] = "apply",
             UNCHANGED <<completion, queue, workers, permit>>
      PROVE  WakeupInv'
  BY <1>0, <1>7, ReturnMoved, SameWorkers, LateWakeup, Zenon
<1>8. CASE apply_phase(c)
  <2>1. Return(c, TRUE) \/ BreakStream(c)
    BY <1>8, Zenon DEF apply_phase
  <2> QED BY <1>2, <1>7, <1>8, <2>1, Zenon DEF apply_phase
<1>9. CASE apply_output(c)
  <2>1. frame[c].session \in Sessions /\ pc[c] = "apply"
    BY <1>0, <1>9 DEF TypeOK, TasksOK, LocalsOK, apply_output
  <2>2. LateMove(c)
    BY <1>0, <1>9, <2>1, ReturnMoved, CancelMoved, Zenon DEF apply_output
  <2> QED BY <1>0, <1>9, <2>1, <2>2, SameWorkers, LateWakeup DEF apply_output
<1>10. CASE apply_exit(c)
  <2>1. LateMove(c)
    BY <1>0, <1>10, GotoMoved DEF apply_exit, LateMove
  <2> QED BY <1>0, <1>10, <2>1, SameWorkers, LateWakeup DEF apply_exit
<1> QED BY <1>1, <1>3, <1>4, <1>5, <1>6, <1>8, <1>9, <1>10
        DEF WorkerMessage, StreamTask

LEMMA DispatcherWakeup ==
    ASSUME TypeOK, TypeOK', WakeupInv, run_dispatcher
    PROVE  WakeupInv'
<1>0. Dispatcher \in Threads
  BY ThreadKinds
<1>1. CASE notified
  BY <1>0, <1>1 DEF notified, Goto, TypeOK, TasksOK, WakeupInv, Waiting
<1>2. CASE pop_front
  <2>1. CASE queue = <<>> /\ UNCHANGED queue /\ Goto(Dispatcher, "idle")
    BY <1>0, <2>1 DEF Goto, TypeOK, TasksOK, WakeupInv, Waiting
  <2>2. CASE pc' = [pc EXCEPT ![Dispatcher] = "assign"]
    BY <1>0, <2>2 DEF TypeOK, TasksOK, WakeupInv, Waiting
  <2> QED BY <1>2, <2>1, <2>2 DEF pop_front, Call, Goto
<1>3. CASE try_dispatch_one
  <2>0. UNCHANGED queue
    BY <1>3 DEF try_dispatch_one
  <2>1. CASE Return(Dispatcher, TRUE)
    BY <1>0, <2>0, <2>1, ReturnMoved, LateWaiting, Zenon DEF WakeupInv
  <2>2. CASE ~CanRun /\ UNCHANGED workers
    BY <2>2, SameWorkers, SameCanRun DEF WakeupInv
  <2>3. ASSUME NEW w \in Workers,
               Call(Dispatcher, "push_front",
                    [frame[Dispatcher] EXCEPT !.worker = w,
                                              !.conn = workers[w].connection_id])
        PROVE  WakeupInv'
    <3>1. frame'[Dispatcher].worker = w /\ pc'[Dispatcher] = "push_front"
      BY <1>0, <2>3 DEF Call, Goto, TypeOK, TasksOK, Frame
    <3> QED BY <3>1, ConstantsAssumption DEF WakeupInv, Waiting
  <2> QED BY <1>3, <2>1, <2>2, <2>3, Zenon DEF try_dispatch_one, assign_job
<1>4. CASE push_front
  <2>0. pc[Dispatcher] = "push_front" /\ UNCHANGED <<completion, workers, permit>>
    BY <1>4 DEF push_front
  <2>1. CASE frame[Dispatcher].worker = NONE
    <3>1. Moved(Dispatcher, "idle")
      BY <1>0, <1>4, <2>1, CallMoved DEF push_front
    <3>2. DueKept
      BY <2>0 DEF DueKept
    <3>3. Waiting
      BY <2>0, <2>1 DEF Waiting
    <3> QED BY <1>0, <2>0, <3>1, <3>2, <3>3, SameWorkers, SameCanRun, QuietWakeup
  <2>2. CASE frame[Dispatcher].worker # NONE
    <3>1. pc'[Dispatcher] = "unregister"
      BY <1>0, <1>4, <2>2 DEF push_front, Goto, TypeOK, TasksOK
    <3> QED BY <3>1 DEF WakeupInv, Waiting
  <2> QED BY <2>1, <2>2
<1> QED BY <1>1, <1>2, <1>3, <1>4 DEF run_dispatcher

LEMMA MaintenanceWakeup ==
    ASSUME TypeOK, TypeOK', WakeupInv, maintenance_once
    PROVE  WakeupInv'
<1>0. /\ Maintenance \in Threads \ {Dispatcher} /\ "expire" \in Resume
  BY ThreadKinds, ConstantsAssumption DEF Resume
<1>1. ASSUME NEW label, Moved(Maintenance, label),
             pc[Maintenance] \notin {"notify", "complete", "await"},
             UNCHANGED <<completion, queue, workers, permit>>
      PROVE  WakeupInv'
  <2>1. DueKept
    BY <1>1 DEF DueKept
  <2>2. Waiting' => Waiting
    BY <1>0, <1>1, OtherWaiting
  <2> QED BY <1>0, <1>1, <2>1, <2>2, SameWorkers, SameCanRun, QuietWakeup
<1>2. CASE collect_stale     BY <1>0, <1>1, <1>2, GotoMoved DEF collect_stale
<1>3. CASE sweep_worker      BY <1>0, <1>1, <1>3, CallMoved DEF sweep_worker
<1>4. CASE collect_sessions  BY <1>0, <1>1, <1>4, GotoMoved DEF collect_sessions
<1>5. ASSUME NEW s \in Sessions, expire_session(s) PROVE WakeupInv'
  <2>1. CASE UNCHANGED tasks
    <3>1. DueKept /\ UNCHANGED <<pc, frame, queue, workers>>
      BY <1>5, <2>1 DEF DueKept, expire_session, tasks
    <3> QED BY <3>1, SameWorkers, SameCanRun, IdleWakeup
  <2>2. CASE Call(Maintenance, "cancel", [NoFrame EXCEPT !.session = s])
    BY <1>0, <1>1, <1>5, <2>2, CallMoved DEF expire_session
  <2> QED BY <1>5, <2>1, <2>2 DEF expire_session
<1>6. CASE cancel_expired
  <2>1. frame[Maintenance].session \in Sessions
    BY <1>0, <1>6 DEF TypeOK, TasksOK, LocalsOK, cancel_expired
  <2>2. LateMove(Maintenance)
    BY <1>0, <1>6, <2>1, CancelMoved DEF cancel_expired
  <2> QED BY <1>0, <1>1, <1>6, <2>2 DEF cancel_expired, LateMove
<1>7. CASE maintenance_done  BY <1>0, <1>1, <1>7, GotoMoved DEF maintenance_done
<1> QED BY <1>2, <1>3, <1>4, <1>5, <1>6, <1>7 DEF maintenance_once

LEMMA WorldWakeup ==
    ASSUME TypeOK, WakeupInv, World \/ UNCHANGED vars
    PROVE  WakeupInv'
<1>1. DueKept /\ UNCHANGED <<pc, frame, queue>>
  BY DEF DueKept, World, ticket_expires, silence, deliver, receiver_dropped,
         vars, tasks
<1>2. SameHandles
  BY StaleSame, SameWorkers, Zenon
  DEF World, ticket_expires, silence, deliver, receiver_dropped, vars
<1> QED BY <1>1, <1>2, SameCanRun, IdleWakeup

LEMMA StepWakeup ==
    TypeOK /\ TypeOK' /\ AssignmentInv /\ WakeupInv /\ [Next]_vars => WakeupInv'
  BY SessionWakeup, SubroutineWakeup, ConnectionWakeup, DispatcherWakeup,
     MaintenanceWakeup, WorldWakeup DEF Next

LEMMA WakeupInductive == Spec => []WakeupInv
<1>1. Init => WakeupInv
  BY ThreadKinds DEF Init, WakeupInv, Waiting
<1> QED BY <1>1, TypeCorrect, AssignmentInductive, StepWakeup, PTL DEF Spec

\* The dispatcher never sleeps on a job some worker could take without a stored
\* permit or a task that is about to store one: run_dispatcher loses no wake-up.
THEOREM Wakeups == Spec => []NoLostWakeup
<1>1. WakeupInv => NoLostWakeup
  BY DEF WakeupInv, NoLostWakeup, Waiting
<1> QED BY <1>1, WakeupInductive, PTL

=============================================================================
