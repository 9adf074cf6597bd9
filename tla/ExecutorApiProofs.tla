-------------------------- MODULE ExecutorApiProofs --------------------------
(* Proofs about ExecutorApi, for every set of sessions, workers and           *)
(* connections, every capacity and every input.                               *)
EXTENDS ExecutorApi, TLAPS

-----------------------------------------------------------------------------
(* What the operations of Sequences return *)

LEMMA SubSeqOf ==
    ASSUME NEW S, NEW q \in Seq(S), NEW m \in 1..Len(q) + 1, NEW n \in m - 1..Len(q)
    PROVE  /\ SubSeq(q, m, n) \in Seq(S) /\ Len(SubSeq(q, m, n)) = n - m + 1
           /\ \A i \in 1..n - m + 1 : SubSeq(q, m, n)[i] = q[m + i - 1]
  OBVIOUS

LEMMA ConcatOf ==
    ASSUME NEW S, NEW p \in Seq(S), NEW q \in Seq(S)
    PROVE  /\ p \o q \in Seq(S) /\ Len(p \o q) = Len(p) + Len(q)
           /\ \A i \in 1..Len(p) + Len(q) :
                 (p \o q)[i] = IF i <= Len(p) THEN p[i] ELSE q[i - Len(p)]
  OBVIOUS

LEMMA TailOf ==
    ASSUME NEW S, NEW q \in Seq(S), q # <<>>
    PROVE  /\ Head(q) \in S /\ Tail(q) \in Seq(S) /\ Len(Tail(q)) = Len(q) - 1
           /\ \A i \in 1..Len(Tail(q)) : Tail(q)[i] = q[i + 1]
  OBVIOUS

-----------------------------------------------------------------------------
(* What the operations on a queue without duplicates do to its elements *)

\* Without takes the entry at one index out, or nothing.
LEMMA WithoutProperties ==
    ASSUME NEW S, NEW q \in Seq(S), NEW e
    PROVE  /\ Without(q, e) \in Seq(S)
           /\ \/ Without(q, e) = q /\ \A i \in 1..Len(q) : q[i] # e
              \/ \E k \in 1..Len(q) :
                    /\ q[k] = e
                    /\ Len(Without(q, e)) = Len(q) - 1
                    /\ \A i \in 1..Len(q) - 1 :
                          Without(q, e)[i] = IF i < k THEN q[i] ELSE q[i + 1]
<1>0. e \in Range(q) <=> \E i \in 1..Len(q) : q[i] = e
  BY DEF Range
<1>1. CASE \A i \in 1..Len(q) : q[i] # e
  BY <1>0, <1>1 DEF Without
<1>2. CASE \E i \in 1..Len(q) : q[i] = e
  <2> DEFINE k == CHOOSE i \in 1..Len(q) : q[i] = e
             a == SubSeq(q, 1, k - 1)
             b == SubSeq(q, k + 1, Len(q))
  <2>2. k \in 1..Len(q) /\ q[k] = e
    BY <1>2
  <2>3. Without(q, e) = a \o b
    BY <1>0, <1>2, Zenon DEF Without
  <2> HIDE DEF k
  <2>4. k \in 1..Len(q) /\ q[k] = e /\ Len(q) \in Nat /\ \A i \in 1..Len(q) : q[i] \in S
    BY <2>2
  <2>5. /\ a \in Seq(S) /\ Len(a) = k - 1
        /\ \A i \in 1..k - 1 : a[i] = q[i]
    BY <2>4, SubSeqOf
  <2>6. /\ b \in Seq(S) /\ Len(b) = Len(q) - k
        /\ \A i \in 1..Len(q) - k : b[i] = q[k + i]
    BY <2>4, SubSeqOf
  <2> HIDE DEF a, b
  <2>7. /\ a \o b \in Seq(S) /\ Len(a \o b) = Len(q) - 1
        /\ \A i \in 1..Len(q) - 1 : (a \o b)[i] = IF i < k THEN q[i] ELSE q[i + 1]
    <3>1. a \o b \in Seq(S) /\ Len(a \o b) = Len(q) - 1
      <4>1. a \o b \in Seq(S) /\ Len(a \o b) = Len(a) + Len(b)
        BY <2>5, <2>6, ConcatOf, Zenon
      <4> QED BY <4>1, <2>4, <2>5, <2>6
    <3>2. ASSUME NEW i \in 1..Len(q) - 1
          PROVE  (a \o b)[i] = IF i < k THEN q[i] ELSE q[i + 1]
      <4>1. (a \o b)[i] = IF i <= k - 1 THEN a[i] ELSE b[i - (k - 1)]
        BY <2>4, <2>5, <2>6, ConcatOf
      <4>2. CASE i <= k - 1
        BY <4>1, <4>2, <2>4, <2>5
      <4>3. CASE ~(i <= k - 1)
        <5>1. i - (k - 1) \in 1..Len(q) - k /\ k + (i - (k - 1)) = i + 1
          BY <4>3, <2>4
        <5> QED BY <4>1, <4>3, <5>1, <2>4, <2>6
      <4> QED BY <4>2, <4>3, Zenon
    <3> QED BY <3>1, <3>2
  <2> QED BY <2>3, <2>4, <2>7, Zenon
<1> QED BY <1>1, <1>2

\* The queue without an entry: what retain leaves of it.
LEMMA WithoutRange ==
    ASSUME NEW S, NEW q \in Seq(S), NEW e, IsInjective(q)
    PROVE  /\ Without(q, e) \in Seq(S)
           /\ IsInjective(Without(q, e))
           /\ Range(Without(q, e)) = Range(q) \ {e}
           /\ Len(Without(q, e)) <= Len(q)
<1> DEFINE r == Without(q, e)
<1>1. r \in Seq(S)
  BY WithoutProperties
<1>0. Len(q) \in Nat /\ DOMAIN q = 1..Len(q) /\ Len(r) \in Nat /\ DOMAIN r = 1..Len(r)
  BY <1>1
<1>2. CASE r = q /\ \A i \in 1..Len(q) : q[i] # e
  BY <1>0, <1>1, <1>2 DEF Range
<1>3. ASSUME NEW k \in 1..Len(q), q[k] = e, Len(r) = Len(q) - 1,
             \A i \in 1..Len(q) - 1 : r[i] = IF i < k THEN q[i] ELSE q[i + 1]
      PROVE  IsInjective(r) /\ Range(r) = Range(q) \ {e} /\ Len(r) <= Len(q)
  <2> HIDE DEF r
  <2> DEFINE old(i) == IF i < k THEN i ELSE i + 1
  <2>1. \A i \in 1..Len(r) : old(i) \in 1..Len(q) \ {k} /\ r[i] = q[old(i)]
    BY <1>0, <1>3
  <2>2. \A i, j \in 1..Len(r) : old(i) = old(j) => i = j
    BY <1>0, <1>3
  <2>3. \A j \in 1..Len(q) \ {k} : \E i \in 1..Len(r) : old(i) = j
    <3>1. ASSUME NEW j \in 1..Len(q) \ {k}, j < k
          PROVE  \E i \in 1..Len(r) : old(i) = j
      <4>1. j \in 1..Len(r) /\ old(j) = j
        BY <1>0, <1>3, <3>1
      <4> QED BY <4>1
    <3>2. ASSUME NEW j \in 1..Len(q) \ {k}, ~(j < k)
          PROVE  \E i \in 1..Len(r) : old(i) = j
      <4>1. j - 1 \in 1..Len(r) /\ old(j - 1) = j
        BY <1>0, <1>3, <3>2
      <4> QED BY <4>1
    <3> QED BY <3>1, <3>2
  <2> HIDE DEF old
  <2>4. IsInjective(r)
    BY <1>0, <2>1, <2>2 DEF IsInjective
  <2>5. \A i \in 1..Len(q) : q[i] = e => i = k
    BY <1>0, <1>3 DEF IsInjective
  <2>6. ASSUME NEW x PROVE x \in Range(r) <=> x \in Range(q) \ {e}
    <3>1. x \in Range(r) => x \in Range(q) \ {e}
      BY <1>0, <2>1, <2>5 DEF Range
    <3>2. ASSUME x \in Range(q), x # e PROVE x \in Range(r)
      <4>1. PICK j \in 1..Len(q) : q[j] = x
        BY <3>2, <1>0 DEF Range
      <4>2. j # k
        BY <4>1, <3>2, <1>3
      <4>3. PICK i \in 1..Len(r) : old(i) = j
        BY <4>2, <2>3
      <4> QED BY <4>1, <4>3, <2>1, <1>0 DEF Range
    <3> QED BY <3>1, <3>2
  <2> QED BY <1>0, <1>3, <2>4, <2>6
<1> QED BY <1>1, <1>2, <1>3, WithoutProperties

\* What pop_front leaves.
LEMMA TailRange ==
    ASSUME NEW S, NEW q \in Seq(S), q # <<>>, IsInjective(q)
    PROVE  /\ Head(q) \in S /\ Tail(q) \in Seq(S)
           /\ IsInjective(Tail(q))
           /\ Range(Tail(q)) = Range(q) \ {Head(q)}
           /\ Head(q) \in Range(q)
<1> DEFINE r == Tail(q)
<1>1. /\ Head(q) \in S /\ r \in Seq(S) /\ Len(r) = Len(q) - 1
      /\ \A i \in 1..Len(r) : r[i] = q[i + 1]
  BY TailOf
<1>2. Head(q) = q[1] /\ Len(q) \in Nat \ {0} /\ DOMAIN q = 1..Len(q) /\ DOMAIN r = 1..Len(r)
  BY <1>1
<1> HIDE DEF r
<1>3. ASSUME NEW i \in 1..Len(r), NEW j \in 1..Len(r), r[i] = r[j]
      PROVE  i = j
  <2>1. i + 1 \in DOMAIN q /\ j + 1 \in DOMAIN q /\ q[i + 1] = q[j + 1]
    BY <1>1, <1>2, <1>3
  <2>2. i + 1 = j + 1
    BY <2>1 DEF IsInjective
  <2> QED BY <2>2, <1>1, <1>2
<1>6. IsInjective(r)
  BY <1>2, <1>3 DEF IsInjective
<1>4. ASSUME NEW x PROVE x \in Range(r) <=> x \in Range(q) \ {Head(q)}
  <2>1. x \in Range(r) => x \in Range(q) \ {Head(q)}
    BY <1>1, <1>2 DEF Range, IsInjective
  <2>2. ASSUME x \in Range(q), x # Head(q) PROVE x \in Range(r)
    <3>1. PICK j \in 1..Len(q) : q[j] = x
      BY <2>2, <1>2 DEF Range
    <3>2. j - 1 \in 1..Len(r) /\ r[j - 1] = x
      BY <1>1, <1>2, <2>2, <3>1
    <3> QED BY <3>2, <1>2 DEF Range
  <2> QED BY <2>1, <2>2
<1>5. Head(q) \in Range(q)
  BY <1>2 DEF Range
<1> QED BY <1>1, <1>4, <1>5, <1>6 DEF r

\* What push_back and push_front make of a queue.
LEMMA AppendRange ==
    ASSUME NEW S, NEW q \in Seq(S), NEW e \in S, e \notin Range(q), IsInjective(q)
    PROVE  /\ Append(q, e) \in Seq(S)
           /\ IsInjective(Append(q, e))
           /\ Range(Append(q, e)) = Range(q) \cup {e}
<1> DEFINE r == Append(q, e)
<1>1. /\ r \in Seq(S) /\ Len(r) = Len(q) + 1 /\ Len(q) \in Nat
      /\ \A i \in 1..Len(q) : r[i] = q[i]
      /\ r[Len(q) + 1] = e
      /\ DOMAIN q = 1..Len(q) /\ DOMAIN r = 1..Len(q) + 1
  OBVIOUS
<1> HIDE DEF r
<1>2. IsInjective(r)
  BY <1>1 DEF IsInjective, Range
<1>3. ASSUME NEW x PROVE x \in Range(r) <=> x \in Range(q) \cup {e}
  BY <1>1 DEF Range
<1> QED BY <1>1, <1>2, <1>3 DEF r

LEMMA PushFrontRange ==
    ASSUME NEW S, NEW q \in Seq(S), NEW e \in S, e \notin Range(q), IsInjective(q)
    PROVE  /\ PushFront(e, q) \in Seq(S)
           /\ IsInjective(PushFront(e, q))
           /\ Range(PushFront(e, q)) = Range(q) \cup {e}
<1> DEFINE r == PushFront(e, q)
<1>1. /\ r \in Seq(S) /\ Len(r) = Len(q) + 1 /\ Len(q) \in Nat
      /\ \A i \in 1..Len(q) + 1 : r[i] = IF i = 1 THEN e ELSE q[i - 1]
      /\ DOMAIN q = 1..Len(q) /\ DOMAIN r = 1..Len(q) + 1
  BY DEF PushFront
<1> HIDE DEF r
<1>2. ASSUME NEW i \in 1..Len(q) + 1, NEW j \in 1..Len(q) + 1, r[i] = r[j]
      PROVE  i = j
  <2>1. \A k \in 1..Len(q) : q[k] # e
    BY <1>1, Zenon DEF Range
  <2>2. CASE i = 1 \/ j = 1
    BY <1>1, <1>2, <2>1, <2>2
  <2>3. CASE i # 1 /\ j # 1
    <3>1. i - 1 \in DOMAIN q /\ j - 1 \in DOMAIN q /\ q[i - 1] = q[j - 1]
      BY <1>1, <1>2, <2>3
    <3>2. i - 1 = j - 1
      BY <3>1 DEF IsInjective
    <3> QED BY <3>2, <1>1
  <2> QED BY <2>2, <2>3
<1>4. IsInjective(r)
  BY <1>1, <1>2 DEF IsInjective
<1>3. ASSUME NEW x PROVE x \in Range(r) <=> x \in Range(q) \cup {e}
  <2>1. x \in Range(r) => x \in Range(q) \cup {e}
    BY <1>1 DEF Range
  <2>2. ASSUME x \in Range(q) PROVE x \in Range(r)
    <3>1. PICK j \in 1..Len(q) : q[j] = x
      BY <2>2, <1>1 DEF Range
    <3>2. j + 1 \in 1..Len(q) + 1 /\ r[j + 1] = x
      BY <1>1, <3>1
    <3> QED BY <3>2, <1>1 DEF Range
  <2>3. e \in Range(r)
    BY <1>1 DEF Range
  <2> QED BY <2>1, <2>2, <2>3
<1> QED BY <1>1, <1>3, <1>4 DEF r

-----------------------------------------------------------------------------
(* Type correctness *)

LEMMA FrameTypes ==
    ASSUME NEW f \in Frame
    PROVE  /\ f.session \in Sessions \cup {NONE}
           /\ f.worker \in Workers \cup {NONE}
           /\ f.conn \in Conns \cup {NONE}
           /\ f.phase \in ExecutionPhase
           /\ f.command \in Command
           /\ f.next \in Resume
           /\ f.unregistering \in BOOLEAN
  BY DEF Frame

\* The updates of a session's and a worker's record keep its type.
LEMMA InnerUpdates ==
    ASSUME NEW r \in SessionInner
    PROVE  /\ \A p \in ExecutionPhase :
                /\ [r EXCEPT !.phase = p, !.finished = TRUE,
                             !.assigned_worker = NONE] \in SessionInner
                /\ [r EXCEPT !.phase = p] \in SessionInner
           /\ [r EXCEPT !.limits_released = TRUE, !.pending_activation = FALSE,
                        !.limits_reserved = FALSE] \in SessionInner
           /\ [r EXCEPT !.ticket_consumed = TRUE, !.pending_activation = TRUE,
                        !.limits_reserved = TRUE] \in SessionInner
           /\ [r EXCEPT !.pending_activation = FALSE,
                        !.socket_connected = TRUE] \in SessionInner
           /\ \A w \in Workers : [r EXCEPT !.assigned_worker = w] \in SessionInner
  BY Zenon DEF SessionInner

LEMMA HandleUpdates ==
    ASSUME NEW h \in WorkerHandle
    PROVE  /\ \A s \in Sessions :
                /\ [h EXCEPT !.current_job = NONE,
                             !.recently_completed_job = s] \in WorkerHandle
                /\ [h EXCEPT !.current_job = s] \in WorkerHandle
           /\ \A b \in BOOLEAN : [h EXCEPT !.stale = b] \in WorkerHandle
           /\ NoHandle \in WorkerHandle
           /\ \A c \in Conns : [NoHandle EXCEPT !.connection_id = c] \in WorkerHandle
  BY Zenon DEF WorkerHandle, NoHandle

LEMMA NoFrameType == NoFrame \in Frame
  BY DEF NoFrame, Frame, ExecutionPhase, Command, Resume

\* A step of one task keeps the locals of all tasks well typed.
LEMMA CallOK ==
    ASSUME TasksOK, NEW t \in Threads, NEW label \in Label, NEW f \in Frame,
           LocalsOK(label, f), Call(t, label, f)
    PROVE  TasksOK'
  BY DEF TasksOK, Call, Goto, LocalsOK

LEMMA GotoOK ==
    ASSUME TasksOK, NEW t \in Threads, NEW label \in Label,
           LocalsOK(label, frame[t]), Goto(t, label), UNCHANGED frame
    PROVE  TasksOK'
  BY DEF TasksOK, Goto, LocalsOK

LEMMA ContinueOK ==
    ASSUME TasksOK, NEW t \in Threads, NEW next \in Resume, NEW ok \in BOOLEAN,
           Continue(t, next, ok)
    PROVE  TasksOK' /\ pc'[t] # "idle"
<1> DEFINE label == IF next = "limited" THEN IF ok THEN "closed" ELSE "disconnected"
                    ELSE next
<1>1. label \in Label /\ label \in {"closed", "disconnected", "open", "loop",
                                     "sweep", "expire"}
  BY DEF Label, Resume
<1>2. LocalsOK(label, NoFrame)
  BY <1>1 DEF LocalsOK
<1>3. Call(t, label, NoFrame)
  BY DEF Continue
<1>4. TasksOK'
  BY <1>1, <1>2, <1>3, NoFrameType, CallOK
<1>5. pc'[t] = label
  BY <1>3 DEF Call, Goto, TasksOK
<1> QED BY <1>1, <1>4, <1>5

LEMMA ReturnOK ==
    ASSUME TasksOK, NEW t \in Threads, NEW ok \in BOOLEAN, Return(t, ok)
    PROVE  TasksOK' /\ pc'[t] # "idle"
<1>1. frame[t] \in Frame
  BY DEF TasksOK
<1>2. frame[t].next \in Resume
  BY <1>1, FrameTypes
<1> QED BY <1>2, ContinueOK DEF Return

LEMMA CancelOK ==
    ASSUME TasksOK, NEW t \in Threads, NEW s \in Sessions,
           NEW phase \in ExecutionPhase, NEW next \in Resume,
           Cancel(t, s, phase, next)
    PROVE  TasksOK'
<1> DEFINE f == [NoFrame EXCEPT !.session = s, !.phase = phase, !.next = next,
                                !.command = "cancel"]
<1>1. f \in Frame /\ f.session = s
  BY NoFrameType, Zenon DEF NoFrame, Frame, Command
<1>2. LocalsOK("retain", f) /\ LocalsOK("send", f)
  BY <1>1 DEF LocalsOK
<1>3. "retain" \in Label /\ "send" \in Label
  BY DEF Label
<1>4. \/ Continue(t, next, TRUE) \/ Call(t, "retain", f) \/ Call(t, "send", f)
  BY Zenon DEF Cancel
<1> QED BY <1>1, <1>2, <1>3, <1>4, CallOK, ContinueOK, Zenon

\* Only a task that has left its start, or no stream task, moves.
LEMMA ConnsOK ==
    ASSUME TypeOK, NEW t \in Threads, t \in Conns => pc[t] # "idle",
           NEW label, pc' = [pc EXCEPT ![t] = label], UNCHANGED worker_of
    PROVE  \A c \in Conns : pc'[c] # "idle" => worker_of'[c] \in Workers
  BY DEF TypeOK, TasksOK, Threads

LEMMA CancelMoves ==
    ASSUME NEW t, NEW s, NEW phase, NEW next, Cancel(t, s, phase, next)
    PROVE  \E label : pc' = [pc EXCEPT ![t] = label]
  BY DEF Cancel, Continue, Call, Goto

LEMMA ReturnMoves ==
    ASSUME NEW t, NEW ok, Return(t, ok)
    PROVE  \E label : pc' = [pc EXCEPT ![t] = label]
  BY Zenon DEF Return, Continue, Call, Goto

LEMMA BreakStreamOK ==
    ASSUME TypeOK, NEW c \in Conns, pc[c] # "idle", BreakStream(c)
    PROVE  TasksOK'
<1> DEFINE f == [NoFrame EXCEPT !.worker = worker_of[c], !.conn = c,
                                !.next = "closed"]
<1>1. f \in Frame /\ f.worker = worker_of[c] /\ worker_of[c] \in Workers
  BY NoFrameType, Zenon DEF NoFrame, Frame, TypeOK, Resume
<1>2. LocalsOK("unregister", f)
  BY <1>1 DEF LocalsOK
<1>3. c \in Threads /\ "unregister" \in Label
  BY DEF Label, Threads
<1> QED BY <1>1, <1>2, <1>3, CallOK DEF BreakStream, TypeOK

\* A step of a task t that keeps the data typed and moves t alone.
LEMMA TaskStepOK ==
    ASSUME TypeOK, NEW t \in Threads, t \in Conns => pc[t] # "idle",
           \E label : pc' = [pc EXCEPT ![t] = label],
           UNCHANGED worker_of, DataOK', TasksOK'
    PROVE  TypeOK'
  BY ConnsOK DEF TypeOK

LEMMA IdleTasksOK ==
    ASSUME TypeOK, UNCHANGED <<pc, frame, worker_of>>, DataOK'
    PROVE  TypeOK'
  BY DEF TypeOK, TasksOK, LocalsOK

LEMMA CompletedOK ==
    ASSUME TasksOK, NEW t \in Threads, Completed(t)
    PROVE  TasksOK' /\ \E label : pc' = [pc EXCEPT ![t] = label]
<1>1. CASE frame[t].unregistering
  <2>1. "notify" \in Label /\ LocalsOK("notify", frame[t])
    BY DEF Label, LocalsOK
  <2> QED BY <1>1, <2>1, GotoOK DEF Completed, Goto
<1>2. CASE ~frame[t].unregistering
  BY <1>2, ReturnOK, ReturnMoves, Zenon DEF Completed
<1> QED BY <1>1, <1>2

LEMMA CompleteSessionType ==
    ASSUME TypeOK, NEW t \in Threads, complete_session(t)
    PROVE  TypeOK'
<1> DEFINE s == frame[t].session
<1>1. s \in Sessions /\ pc[t] = "complete" /\ frame[t] \in Frame
  BY DEF TypeOK, TasksOK, LocalsOK, complete_session
<1>2. CASE inner[s].finished
  <2>1. DataOK'
    BY <1>2 DEF TypeOK, DataOK, sweeping, complete_session, limits, channels
  <2>2. TasksOK' /\ \E label : pc' = [pc EXCEPT ![t] = label]
    BY <1>2, CompletedOK DEF complete_session, TypeOK
  <2> QED BY <1>1, <2>1, <2>2, TaskStepOK, Zenon DEF complete_session, channels
<1>3. CASE ~inner[s].finished
  <2>1. frame[t].phase \in ExecutionPhase
    BY <1>1, FrameTypes
  <2> DEFINE r == [inner[s] EXCEPT !.phase = frame[t].phase, !.finished = TRUE,
                                   !.assigned_worker = NONE]
  <2>a. r \in SessionInner
    BY <1>1, <2>1, InnerUpdates, Zenon DEF TypeOK, DataOK
  <2>b. inner' = [inner EXCEPT ![s] = r]
    BY <1>3 DEF complete_session
  <2> HIDE DEF r
  <2>2. inner' \in [Sessions -> SessionInner]
    BY <1>1, <2>a, <2>b DEF TypeOK, DataOK
  <2>c. completion' = [completion EXCEPT ![s] =
                         [step |-> "limits", worker |-> inner[s].assigned_worker]]
    BY <1>3, Zenon DEF complete_session
  <2>3. completion' \in [Sessions -> Completion]
    BY <1>1, <2>c DEF TypeOK, DataOK, SessionInner, Completion, CompletionStep
  <2>4. DataOK'
    BY <2>2, <2>3 DEF TypeOK, DataOK, sweeping, complete_session, limits, channels
  <2>5. "await" \in Label /\ LocalsOK("await", frame[t])
    BY <1>1 DEF Label, LocalsOK
  <2>6. Goto(t, "await") /\ UNCHANGED frame
    BY <1>3 DEF complete_session
  <2>7. TasksOK'
    BY <2>5, <2>6, GotoOK DEF TypeOK
  <2> QED BY <1>1, <2>4, <2>6, <2>7, TaskStepOK, Zenon DEF complete_session, channels, Goto
<1> QED BY <1>2, <1>3

LEMMA ReleaseLimitsType ==
    ASSUME TypeOK, NEW s \in Sessions, release_limits(s)
    PROVE  TypeOK'
<1> DEFINE r == [inner[s] EXCEPT !.limits_released = TRUE,
                                 !.pending_activation = FALSE,
                                 !.limits_reserved = FALSE]
<1>a. r \in SessionInner
  BY InnerUpdates, Zenon DEF TypeOK, DataOK
<1>1. inner' \in [Sessions -> SessionInner]
  BY <1>a, Zenon DEF TypeOK, DataOK, sweeping, release_limits
<1>2. completion' \in [Sessions -> Completion]
  BY Zenon DEF TypeOK, DataOK, sweeping, release_limits, Completion, CompletionStep
<1>3. /\ by_visitor' \in [Visitors -> Nat] /\ by_ip' \in [Ips -> Nat]
      /\ pending_activations' \in Nat
  <2>1. VisitorOf[s] \in Visitors /\ IpOf[s] \in Ips
    BY ConstantsAssumption
  <2>2. \A n \in Nat : Decrement(n) \in Nat
    BY DEF Decrement
  <2>3. CASE UNCHANGED limits
    BY <2>3 DEF TypeOK, DataOK, sweeping, limits
  <2>4. CASE ~inner[s].limits_released /\ inner[s].limits_reserved
    <3>1. by_visitor' = [by_visitor EXCEPT ![VisitorOf[s]] = Decrement(@)]
      BY <2>4 DEF release_limits
    <3>2. by_ip' = [by_ip EXCEPT ![IpOf[s]] = Decrement(@)]
      BY <2>4 DEF release_limits
    <3>3. pending_activations' \in {pending_activations,
                                    Decrement(pending_activations)}
      BY <2>4 DEF release_limits
    <3> QED BY <2>1, <2>2, <3>1, <3>2, <3>3, Zenon DEF TypeOK, DataOK
  <2> QED BY <2>3, <2>4 DEF release_limits
<1>4. DataOK'
  BY <1>1, <1>2, <1>3 DEF TypeOK, DataOK, sweeping, release_limits, channels
<1> QED BY <1>4, IdleTasksOK DEF release_limits, channels, tasks

LEMMA FreeWorkerType ==
    ASSUME TypeOK, NEW s \in Sessions, free_worker(s)
    PROVE  TypeOK'
<1>1. completion[s].worker \in Workers \cup {NONE}
  BY DEF TypeOK, DataOK, Completion
<1>a. \A w \in Workers : [workers[w] EXCEPT
          !.current_job = NONE, !.recently_completed_job = s] \in WorkerHandle
  BY HandleUpdates, Zenon DEF TypeOK, DataOK
<1>2. workers' \in [Workers -> WorkerHandle]
  BY <1>1, <1>a, Zenon DEF TypeOK, DataOK, sweeping, free_worker
<1>3. completion' \in [Sessions -> Completion]
  BY Zenon DEF TypeOK, DataOK, sweeping, free_worker, Completion, CompletionStep
<1>4. DataOK'
  BY <1>2, <1>3 DEF TypeOK, DataOK, sweeping, free_worker, channels, limits
<1> QED BY <1>4, IdleTasksOK DEF free_worker, channels, tasks

LEMMA RemoveSessionType ==
    ASSUME TypeOK, NEW t \in Threads, remove_session(t)
    PROVE  TypeOK'
<1>1. frame[t].session \in Sessions /\ pc[t] = "await"
  BY DEF TypeOK, TasksOK, LocalsOK, remove_session
<1>2. completion' \in [Sessions -> Completion]
  BY <1>1, Zenon DEF TypeOK, DataOK, sweeping, remove_session, Completion, CompletionStep
<1>3. DataOK'
  BY <1>2 DEF TypeOK, DataOK, sweeping, remove_session, channels, limits
<1>4. TasksOK' /\ \E label : pc' = [pc EXCEPT ![t] = label]
  BY CompletedOK DEF remove_session, TypeOK
<1> QED BY <1>1, <1>3, <1>4, TaskStepOK, Zenon DEF remove_session, channels

LEMMA UnregisterWorkerType ==
    ASSUME TypeOK, NEW t \in Threads, unregister_worker(t)
    PROVE  TypeOK'
<1> DEFINE w == frame[t].worker
           job == workers[w].current_job
           f == [frame[t] EXCEPT !.session = job, !.phase = "exited",
                                 !.unregistering = TRUE]
<1>1. w \in Workers /\ pc[t] = "unregister" /\ frame[t] \in Frame
  BY DEF TypeOK, TasksOK, LocalsOK, unregister_worker, fail_job
<1>2. job \in Sessions \cup {NONE}
  BY <1>1 DEF TypeOK, DataOK, WorkerHandle
<1>3. CASE ~Registered(w, frame[t].conn)
  <2>1. DataOK'
    BY <1>3, Zenon DEF TypeOK, DataOK, sweeping, unregister_worker, fail_job, limits, channels
  <2>2. Return(t, FALSE)
    BY <1>3, Zenon DEF unregister_worker, fail_job
  <2>3. TasksOK'
    BY <2>2, ReturnOK, Zenon DEF TypeOK
  <2> QED BY <1>1, <2>1, <2>2, <2>3, ReturnMoves, TaskStepOK, Zenon
          DEF unregister_worker, fail_job, channels
<1>4. CASE Registered(w, frame[t].conn)
  <2>1. workers' = [workers EXCEPT ![w] = NoHandle]
    BY <1>4 DEF unregister_worker, fail_job
  <2>2. workers' \in [Workers -> WorkerHandle]
    BY <1>1, <2>1, HandleUpdates, Zenon DEF TypeOK, DataOK
  <2>3. DataOK'
    BY <2>2 DEF TypeOK, DataOK, sweeping, unregister_worker, fail_job, limits, channels
  <2>4. CASE job = NONE
    <3>1. Goto(t, "notify") /\ UNCHANGED frame
      BY <1>4, <2>4 DEF unregister_worker, fail_job
    <3>2. "notify" \in Label /\ LocalsOK("notify", frame[t])
      BY DEF Label, LocalsOK
    <3>3. TasksOK'
      BY <3>1, <3>2, GotoOK DEF TypeOK
    <3> QED BY <1>1, <2>3, <3>1, <3>3, TaskStepOK, Zenon
            DEF unregister_worker, fail_job, channels, Goto
  <2>5. CASE job # NONE
    <3>1. Call(t, "complete", f)
      BY <1>4, <2>5 DEF unregister_worker, fail_job
    <3>2. f \in Frame /\ f.session = job /\ job \in Sessions
      BY <1>1, <1>2, <2>5, Zenon DEF Frame, ExecutionPhase
    <3>3. "complete" \in Label /\ LocalsOK("complete", f)
      BY <3>2 DEF Label, LocalsOK
    <3>4. TasksOK'
      BY <3>1, <3>2, <3>3, CallOK DEF TypeOK
    <3> QED BY <1>1, <2>3, <3>1, <3>4, TaskStepOK, Zenon
            DEF unregister_worker, fail_job, channels, Call, Goto
  <2> QED BY <2>4, <2>5
<1> QED BY <1>3, <1>4

LEMMA NotifyOneType ==
    ASSUME TypeOK, NEW t \in Threads, notify_one(t)
    PROVE  TypeOK'
<1>1. DataOK'
  BY DEF TypeOK, DataOK, sweeping, notify_one, limits, channels
<1>2. TasksOK'
  BY ReturnOK, Zenon DEF notify_one, TypeOK
<1> QED BY <1>1, <1>2, ReturnMoves, TaskStepOK, Zenon DEF notify_one, channels

LEMMA RetainQueueType ==
    ASSUME TypeOK, NEW t \in Threads, retain_queue(t)
    PROVE  TypeOK'
<1>1. queue' \in Seq(Sessions)
  BY WithoutProperties DEF TypeOK, DataOK, sweeping, retain_queue
<1>2. DataOK'
  BY <1>1 DEF TypeOK, DataOK, sweeping, retain_queue, limits, channels
<1>3. "complete" \in Label /\ LocalsOK("complete", frame[t])
  BY DEF Label, LocalsOK, TypeOK, TasksOK, retain_queue
<1>4. TasksOK'
  BY <1>3, GotoOK DEF retain_queue, TypeOK
<1> QED BY <1>2, <1>4, TaskStepOK, Zenon DEF retain_queue, channels, Goto

LEMMA SendCommandType ==
    ASSUME TypeOK, NEW t \in Threads, send_command(t)
    PROVE  TypeOK'
<1> DEFINE w == inner[frame[t].session].assigned_worker
           f == [frame[t] EXCEPT !.worker = w]
<1>1. /\ frame[t].session \in Sessions /\ pc[t] = "send" /\ frame[t] \in Frame
      /\ w \in Workers \cup {NONE}
  BY DEF TypeOK, TasksOK, LocalsOK, send_command, DataOK, SessionInner
<1>2. DataOK'
  BY DEF TypeOK, DataOK, sweeping, send_command, limits, channels
<1>3. CASE w = NONE
  <2>1. Return(t, FALSE)
    BY <1>3, Zenon DEF send_command
  <2> QED BY <1>1, <1>2, <2>1, ReturnOK, ReturnMoves, TaskStepOK, Zenon
          DEF send_command, channels, TypeOK
<1>4. CASE w # NONE
  <2>1. Call(t, "sender", f)
    BY <1>4 DEF send_command
  <2>2. f \in Frame /\ f.session = frame[t].session /\ f.worker = w
    BY <1>1 DEF Frame
  <2>3. "sender" \in Label /\ LocalsOK("sender", f)
    BY <1>1, <1>4, <2>2 DEF Label, LocalsOK
  <2>4. TasksOK'
    BY <2>1, <2>2, <2>3, CallOK DEF TypeOK
  <2> QED BY <1>1, <1>2, <2>1, <2>4, TaskStepOK, Zenon
          DEF send_command, channels, Call, Goto
<1> QED BY <1>3, <1>4

LEMMA LookupAndSendType ==
    ASSUME TypeOK, NEW t \in Threads, lookup_and_send(t)
    PROVE  TypeOK'
<1> DEFINE c == workers[frame[t].worker].connection_id
           f == [frame[t] EXCEPT !.conn = c]
           m == [kind |-> frame[t].command, job |-> frame[t].session]
<1>1. /\ frame[t].session \in Sessions /\ frame[t].worker \in Workers
      /\ pc[t] = "sender" /\ frame[t] \in Frame
      /\ c \in Conns \cup {NONE}
  BY DEF TypeOK, TasksOK, LocalsOK, lookup_and_send, DataOK, WorkerHandle
<1>2. \/ Return(t, FALSE) /\ UNCHANGED outbox
      \/ c \in closed /\ Call(t, "unregister", f) /\ UNCHANGED outbox
      \/ /\ c # NONE /\ outbox' = [outbox EXCEPT ![c] = Append(@, m)]
         /\ Return(t, TRUE)
  BY Zenon DEF lookup_and_send
<1>3. CASE Return(t, FALSE) /\ UNCHANGED outbox
  <2>1. DataOK'
    BY <1>3 DEF TypeOK, DataOK, sweeping, lookup_and_send, limits
  <2> QED BY <1>1, <1>3, <2>1, ReturnOK, ReturnMoves, TaskStepOK, Zenon
          DEF lookup_and_send, TypeOK
<1>4. CASE Call(t, "unregister", f) /\ UNCHANGED outbox
  <2>1. DataOK'
    BY <1>4 DEF TypeOK, DataOK, sweeping, lookup_and_send, limits
  <2>2. f \in Frame /\ f.worker = frame[t].worker
    BY <1>1 DEF Frame
  <2>3. "unregister" \in Label /\ LocalsOK("unregister", f)
    BY <1>1, <2>2 DEF Label, LocalsOK
  <2>4. TasksOK'
    BY <1>4, <2>2, <2>3, CallOK DEF TypeOK
  <2> QED BY <1>1, <1>4, <2>1, <2>4, TaskStepOK, Zenon DEF lookup_and_send, Call, Goto
<1>5. CASE c # NONE /\ outbox' = [outbox EXCEPT ![c] = Append(@, m)] /\ Return(t, TRUE)
  <2>1. m \in Message
    BY <1>1, FrameTypes DEF Message
  <2> HIDE DEF m
  <2>2. outbox' \in [Conns -> Seq(Message)]
    <3>1. outbox \in [Conns -> Seq(Message)] /\ c \in Conns
      BY <1>1, <1>5 DEF TypeOK, DataOK
    <3> HIDE DEF c
    <3>2. Append(outbox[c], m) \in Seq(Message)
      BY <2>1, <3>1
    <3> QED BY <1>5, <3>1, <3>2
  <2>3. DataOK'
    BY <2>2, Zenon DEF TypeOK, DataOK, sweeping, lookup_and_send, limits
  <2> QED BY <1>1, <1>5, <2>3, ReturnOK, ReturnMoves, TaskStepOK, Zenon
          DEF lookup_and_send, TypeOK
<1> QED BY <1>2, <1>3, <1>4, <1>5, Zenon

LEMMA ThreadKinds ==
    /\ \A s \in Sessions : s \in Threads /\ s \notin Conns
    /\ \A c \in Conns : c \in Threads
    /\ Dispatcher \in Threads \ Conns /\ Maintenance \in Threads \ Conns
  BY ConstantsAssumption DEF Threads

LEMMA CreateType ==
    ASSUME TypeOK, NEW s \in Sessions, create_execution(s)
    PROVE  TypeOK'
<1>1. DataOK'
  BY DEF TypeOK, DataOK, sweeping, create_execution, limits, channels
<1> QED BY <1>1, IdleTasksOK DEF create_execution, channels, tasks

LEMMA ConsumeTicketType ==
    ASSUME TypeOK, NEW s \in Sessions, consume_ticket(s)
    PROVE  TypeOK'
<1> DEFINE r == [inner[s] EXCEPT !.ticket_consumed = TRUE,
                                 !.pending_activation = TRUE,
                                 !.limits_reserved = TRUE]
<1>1. r \in SessionInner
  BY InnerUpdates, Zenon DEF TypeOK, DataOK
<1>2. inner' = [inner EXCEPT ![s] = r]
  BY DEF consume_ticket
<1> HIDE DEF r
<1>3. inner' \in [Sessions -> SessionInner]
  BY <1>1, <1>2 DEF TypeOK, DataOK
<1>4. VisitorOf[s] \in Visitors /\ IpOf[s] \in Ips
  BY ConstantsAssumption
<1>5. /\ by_visitor' \in [Visitors -> Nat] /\ by_ip' \in [Ips -> Nat]
      /\ pending_activations' \in Nat
  BY <1>4 DEF TypeOK, DataOK, sweeping, consume_ticket
<1>6. DataOK'
  BY <1>3, <1>5 DEF TypeOK, DataOK, sweeping, consume_ticket, channels
<1>7. "upgrade" \in Label /\ LocalsOK("upgrade", frame[s])
  BY DEF Label, LocalsOK
<1>8. TasksOK'
  BY <1>7, GotoOK, ThreadKinds DEF consume_ticket, TypeOK
<1> QED BY <1>6, <1>8, TaskStepOK, ThreadKinds, Zenon DEF consume_ticket, channels, Goto

LEMMA ActivateType ==
    ASSUME TypeOK, NEW s \in Sessions, activate_session(s)
    PROVE  TypeOK'
<1> DEFINE r == [inner[s] EXCEPT !.pending_activation = FALSE,
                                 !.socket_connected = TRUE]
<1>1. CASE Cancel(s, s, "cancelled", "closed") /\ UNCHANGED inner
  <2>1. DataOK'
    BY <1>1 DEF TypeOK, DataOK, sweeping, activate_session, MayActivate, limits, channels
  <2>2. "cancelled" \in ExecutionPhase /\ "closed" \in Resume
    BY DEF ExecutionPhase, Resume
  <2>3. TasksOK'
    BY <1>1, <2>2, CancelOK, ThreadKinds DEF TypeOK
  <2> QED BY <1>1, <2>1, <2>3, CancelMoves, TaskStepOK, ThreadKinds
          DEF activate_session, MayActivate, channels
<1>2. CASE inner' = [inner EXCEPT ![s] = r] /\ Goto(s, "activate") /\ UNCHANGED frame
  <2>1. r \in SessionInner
    BY InnerUpdates, Zenon DEF TypeOK, DataOK
  <2> HIDE DEF r
  <2>2. inner' \in [Sessions -> SessionInner]
    BY <1>2, <2>1 DEF TypeOK, DataOK
  <2>3. DataOK'
    BY <2>2 DEF TypeOK, DataOK, sweeping, activate_session, MayActivate, limits, channels
  <2>4. "activate" \in Label /\ LocalsOK("activate", frame[s])
    BY DEF Label, LocalsOK
  <2>5. TasksOK'
    BY <1>2, <2>4, GotoOK, ThreadKinds DEF TypeOK
  <2> QED BY <1>2, <2>3, <2>5, TaskStepOK, ThreadKinds, Zenon
          DEF activate_session, MayActivate, channels, Goto
<1> QED BY <1>1, <1>2 DEF activate_session, MayActivate

LEMMA NotifyFrame ==
    /\ [NoFrame EXCEPT !.next = "open"] \in Frame
    /\ "notify" \in Label
    /\ LocalsOK("notify", [NoFrame EXCEPT !.next = "open"])
<1>1. [NoFrame EXCEPT !.next = "open"] \in Frame
  BY NoFrameType, Zenon DEF NoFrame, Frame, Resume
<1> QED BY <1>1 DEF Label, LocalsOK

LEMMA EnqueueType ==
    ASSUME TypeOK, NEW s \in Sessions, enqueue_session(s)
    PROVE  TypeOK'
<1>1. pending_activations' \in Nat /\ queue' \in Seq(Sessions)
  BY DEF TypeOK, DataOK, sweeping, enqueue_session, Decrement
<1>2. DataOK'
  BY <1>1 DEF TypeOK, DataOK, sweeping, enqueue_session, channels
<1>3. TasksOK'
  BY NotifyFrame, CallOK, ThreadKinds DEF enqueue_session, TypeOK
<1> QED BY <1>2, <1>3, TaskStepOK, ThreadKinds, Zenon DEF enqueue_session, channels, Call, Goto

\* A step of a task that only starts a cancellation.
LEMMA CancelStepType ==
    ASSUME TypeOK, NEW t \in Threads, pc[t] # "idle", NEW s \in Sessions,
           NEW phase \in ExecutionPhase, NEW next \in Resume,
           Cancel(t, s, phase, next),
           UNCHANGED <<sessions, expired, inner, completion, queue, limits,
                       workers, channels, permit, sweeping>>
    PROVE  TypeOK'
<1>1. DataOK'
  BY DEF TypeOK, DataOK, sweeping, limits, channels
<1>2. TasksOK'
  BY CancelOK DEF TypeOK
<1> QED BY <1>1, <1>2, CancelMoves, TaskStepOK DEF channels

LEMMA ForwardType ==
    ASSUME TypeOK, NEW s \in Sessions, NEW command \in Command, Forward(s, command)
    PROVE  TypeOK'
<1> DEFINE f == [NoFrame EXCEPT !.session = s, !.command = command,
                                !.next = "open"]
<1>1. DataOK'
  BY DEF TypeOK, DataOK, sweeping, Forward, limits, channels
<1>2. f \in Frame /\ f.session = s
  BY NoFrameType, Zenon DEF NoFrame, Frame, Resume
<1>3. "send" \in Label /\ LocalsOK("send", f)
  BY <1>2 DEF Label, LocalsOK
<1>4. TasksOK'
  BY <1>2, <1>3, CallOK, ThreadKinds DEF Forward, TypeOK
<1> QED BY <1>1, <1>4, TaskStepOK, ThreadKinds, Zenon DEF Forward, channels, Call, Goto

LEMMA BrowserType ==
    ASSUME TypeOK, NEW s \in Sessions, Browser(s)
    PROVE  TypeOK'
<1>0. /\ {"cancelled", "resource_limited"} \subseteq ExecutionPhase
      /\ {"open", "closed", "disconnected", "limited"} \subseteq Resume
      /\ {"stdin", "resize"} \subseteq Command
  BY DEF ExecutionPhase, Resume, Command
<1>1. CASE create_execution(s)  BY <1>1, CreateType
<1>2. CASE consume_ticket(s)    BY <1>2, ConsumeTicketType
<1>3. CASE send_stdin(s)        BY <1>0, <1>3, ForwardType DEF send_stdin
<1>4. CASE resize(s)            BY <1>0, <1>4, ForwardType DEF resize
<1>5. CASE terminate(s)
  BY <1>0, <1>5, CancelStepType, ThreadKinds DEF terminate, client_cancel
<1>6. CASE lagged(s)
  BY <1>0, <1>6, CancelStepType, ThreadKinds DEF lagged, client_cancel
<1>7. CASE rate_exceeded(s)
  BY <1>0, <1>7, CancelStepType, ThreadKinds DEF rate_exceeded
<1>8. CASE hello_failed(s)
  BY <1>0, <1>8, CancelStepType, ThreadKinds DEF hello_failed
<1> QED BY <1>1, <1>2, <1>3, <1>4, <1>5, <1>6, <1>7, <1>8 DEF Browser

LEMMA WebSocketTaskType ==
    ASSUME TypeOK, NEW s \in Sessions, WebSocketTask(s)
    PROVE  TypeOK'
<1>0. "cancelled" \in ExecutionPhase /\ "closed" \in Resume
  BY DEF ExecutionPhase, Resume
<1>1. CASE activate_session(s)  BY <1>1, ActivateType
<1>2. CASE enqueue_session(s)   BY <1>2, EnqueueType
<1>3. CASE websocket_disconnected(s)
  BY <1>0, <1>3, CancelStepType, ThreadKinds DEF websocket_disconnected
<1> QED BY <1>1, <1>2, <1>3 DEF WebSocketTask

LEMMA RegisterType ==
    ASSUME TypeOK, NEW w \in Workers, NEW c \in Conns, register_worker(w, c)
    PROVE  TypeOK'
<1> DEFINE h == [NoHandle EXCEPT !.connection_id = c]
<1>1. h \in WorkerHandle
  BY Zenon DEF NoHandle, WorkerHandle
<1>2. workers' = [workers EXCEPT ![w] = h]
  BY DEF register_worker
<1> HIDE DEF h
<1>3. workers' \in [Workers -> WorkerHandle]
  BY <1>1, <1>2 DEF TypeOK, DataOK
<1>4. worker_of' \in [Conns -> Workers \cup {NONE}] /\ worker_of'[c] = w
  BY DEF TypeOK, DataOK, sweeping, register_worker
<1>5. DataOK'
  BY <1>3, <1>4 DEF TypeOK, DataOK, sweeping, register_worker, limits
<1>6. TasksOK'
  BY NotifyFrame, CallOK, ThreadKinds DEF register_worker, TypeOK
<1>7. \A d \in Conns : pc'[d] # "idle" => worker_of'[d] \in Workers
  BY <1>4, ThreadKinds DEF TypeOK, TasksOK, DataOK, sweeping, register_worker, Call, Goto
<1> QED BY <1>5, <1>6, <1>7 DEF TypeOK

\* A step of a stream task that only ends its stream.
LEMMA BreakStepType ==
    ASSUME TypeOK, NEW c \in Conns, pc[c] # "idle", BreakStream(c),
           UNCHANGED <<sessions, expired, inner, completion, queue, limits,
                       workers, channels, permit, sweeping>>
    PROVE  TypeOK'
<1>1. DataOK'
  BY DEF TypeOK, DataOK, sweeping, limits, channels
<1> QED BY <1>1, BreakStreamOK, TaskStepOK, ThreadKinds, Zenon
        DEF channels, BreakStream, Call, Goto

LEMMA NotStaleType ==
    ASSUME TypeOK, NEW w, NEW b \in BOOLEAN,
           workers' = [workers EXCEPT ![w].stale = b]
    PROVE  workers' \in [Workers -> WorkerHandle]
<1> DEFINE h == [workers[w] EXCEPT !.stale = b]
<1>1. w \in Workers => h \in WorkerHandle
  BY HandleUpdates, Zenon DEF TypeOK, DataOK
<1>2. workers' = [workers EXCEPT ![w] = h]
  OBVIOUS
<1> HIDE DEF h
<1> QED BY <1>1, <1>2, Zenon DEF TypeOK, DataOK

LEMMA HeartbeatType ==
    ASSUME TypeOK, NEW c \in Conns, NEW j, heartbeat(c, j)
    PROVE  TypeOK'
<1>1. CASE workers' = [workers EXCEPT ![worker_of[c]].stale = FALSE] /\ UNCHANGED tasks
  <2>1. workers' \in [Workers -> WorkerHandle]
    BY <1>1, NotStaleType, Zenon
  <2>2. DataOK'
    BY <2>1 DEF TypeOK, DataOK, sweeping, heartbeat, limits, channels
  <2> QED BY <1>1, <2>2, IdleTasksOK DEF heartbeat, tasks, channels
<1>2. CASE BreakStream(c) /\ UNCHANGED workers
  BY <1>2, BreakStepType DEF heartbeat
<1> QED BY <1>1, <1>2 DEF heartbeat

LEMMA WorkerEventType ==
    ASSUME TypeOK, NEW c \in Conns, NEW s \in Sessions,
           NEW payload \in {"phase", "output", "exit"}, NEW phase \in ExecutionPhase,
           handle_worker_event(c, s, payload, phase)
    PROVE  TypeOK'
<1> DEFINE f == [NoFrame EXCEPT !.session = s, !.phase = phase,
                                !.payload = payload, !.next = "open"]
<1>1. workers' \in [Workers -> WorkerHandle]
  BY NotStaleType, Zenon DEF handle_worker_event
<1>2. DataOK'
  BY <1>1 DEF TypeOK, DataOK, sweeping, handle_worker_event, limits, channels
<1>3. f \in Frame /\ f.session = s
  BY NoFrameType, Zenon DEF NoFrame, Frame, Resume
<1>4. "apply" \in Label /\ LocalsOK("apply", f)
  BY <1>3 DEF Label, LocalsOK
<1>5. TasksOK'
  BY <1>3, <1>4, CallOK, ThreadKinds DEF handle_worker_event, TypeOK
<1> QED BY <1>2, <1>5, TaskStepOK, ThreadKinds, Zenon
        DEF handle_worker_event, channels, Call, Goto

LEMMA WorkerMessageType ==
    ASSUME TypeOK, NEW c \in Conns, WorkerMessage(c)
    PROVE  TypeOK'
<1>0. /\ ReportedPhases \subseteq ExecutionPhase /\ "queued" \in ExecutionPhase
      /\ \A r \in ReportedReasons : phase_for_exit(r) \in ExecutionPhase
  BY InputsAssumption DEF ExecutionPhase, ExitReason, phase_for_exit
<1>1. CASE \E w \in Workers : register_worker(w, c)  BY <1>1, RegisterType
<1>2. CASE stream_ended(c)  BY <1>2, BreakStepType DEF stream_ended
<1>3. CASE \E j \in Sessions \cup {NONE} : heartbeat(c, j)  BY <1>3, HeartbeatType
<1>4. ASSUME NEW j \in Sessions, refuse_worker_event(c, j)
      PROVE  TypeOK'
  BY <1>4, BreakStepType DEF refuse_worker_event
<1>5. ASSUME NEW j \in Sessions, NEW payload \in {"phase", "output", "exit"},
             NEW phase \in ExecutionPhase, handle_worker_event(c, j, payload, phase)
      PROVE  TypeOK'
  BY <1>5, WorkerEventType
<1> QED BY <1>0, <1>1, <1>2, <1>3, <1>4, <1>5 DEF WorkerMessage

\* A step of a task that only returns.
LEMMA ReturnStepType ==
    ASSUME TypeOK, NEW t \in Threads, pc[t] # "idle", NEW ok \in BOOLEAN,
           Return(t, ok), DataOK', UNCHANGED worker_of
    PROVE  TypeOK'
  BY ReturnOK, ReturnMoves, TaskStepOK DEF TypeOK

LEMMA ApplyPhaseType ==
    ASSUME TypeOK, NEW c \in Conns, apply_phase(c)
    PROVE  TypeOK'
<1> DEFINE s == frame[c].session
           phase == frame[c].phase
           r == [inner[s] EXCEPT !.phase = phase]
<1>1. s \in Sessions /\ phase \in ExecutionPhase /\ pc[c] = "apply" /\ c \in Threads
  BY ThreadKinds, FrameTypes DEF TypeOK, TasksOK, LocalsOK, apply_phase
<1>2. \/ Return(c, TRUE) /\ UNCHANGED inner
      \/ BreakStream(c) /\ UNCHANGED inner
      \/ inner' = [inner EXCEPT ![s] = r] /\ Return(c, TRUE)
  BY Zenon DEF apply_phase
<1>3. CASE Return(c, TRUE) /\ UNCHANGED inner
  <2>1. DataOK'
    BY <1>3 DEF TypeOK, DataOK, sweeping, apply_phase, limits, channels
  <2> QED BY <1>1, <1>3, <2>1, ReturnStepType, Zenon DEF apply_phase, channels
<1>4. CASE BreakStream(c) /\ UNCHANGED inner
  BY <1>1, <1>4, BreakStepType DEF apply_phase
<1>5. CASE inner' = [inner EXCEPT ![s] = r] /\ Return(c, TRUE)
  <2>1. r \in SessionInner
    BY <1>1, InnerUpdates, Zenon DEF TypeOK, DataOK
  <2> HIDE DEF r
  <2>2. inner' \in [Sessions -> SessionInner]
    BY <1>1, <1>5, <2>1 DEF TypeOK, DataOK
  <2>3. DataOK'
    BY <2>2 DEF TypeOK, DataOK, sweeping, apply_phase, limits, channels
  <2> QED BY <1>1, <1>5, <2>3, ReturnStepType, Zenon DEF apply_phase, channels
<1> QED BY <1>2, <1>3, <1>4, <1>5, Zenon

LEMMA StreamTaskType ==
    ASSUME TypeOK, NEW c \in Conns, StreamTask(c)
    PROVE  TypeOK'
<1>1. CASE apply_phase(c)  BY <1>1, ApplyPhaseType
<1>2. CASE apply_output(c)
  <2>1. frame[c].session \in Sessions /\ pc[c] = "apply" /\ c \in Threads
    BY <1>2, ThreadKinds DEF TypeOK, TasksOK, LocalsOK, apply_output
  <2>2. DataOK'
    BY <1>2 DEF TypeOK, DataOK, sweeping, apply_output, limits, channels
  <2>3. "cancelled" \in ExecutionPhase /\ "open" \in Resume
    BY DEF ExecutionPhase, Resume
  <2>4. CASE Return(c, TRUE)
    BY <1>2, <2>1, <2>2, <2>4, ReturnStepType, Zenon DEF apply_output, channels
  <2>5. CASE Cancel(c, frame[c].session, "cancelled", "open")
    BY <1>2, <2>1, <2>3, <2>5, CancelStepType DEF apply_output
  <2> QED BY <1>2, <2>4, <2>5, Zenon DEF apply_output
<1>3. CASE apply_exit(c)
  <2>1. "complete" \in Label /\ LocalsOK("complete", frame[c]) /\ c \in Threads
    BY <1>3, ThreadKinds DEF Label, TypeOK, TasksOK, LocalsOK, apply_exit
  <2>2. DataOK'
    BY <1>3 DEF TypeOK, DataOK, sweeping, apply_exit, limits, channels
  <2>3. TasksOK'
    BY <1>3, <2>1, GotoOK DEF apply_exit, TypeOK
  <2> QED BY <1>3, <2>1, <2>2, <2>3, TaskStepOK, Zenon DEF apply_exit, channels, Goto
<1> QED BY <1>1, <1>2, <1>3 DEF StreamTask

LEMMA PopFrontType ==
    ASSUME TypeOK, pop_front
    PROVE  TypeOK'
<1> DEFINE f == [NoFrame EXCEPT !.session = Head(queue), !.next = "loop"]
<1>1. CASE Goto(Dispatcher, "idle") /\ UNCHANGED <<queue, frame>>
  <2>1. DataOK'
    BY <1>1 DEF TypeOK, DataOK, sweeping, pop_front, limits, channels
  <2>2. "idle" \in Label /\ LocalsOK("idle", frame[Dispatcher])
    BY DEF Label, LocalsOK
  <2>3. TasksOK'
    BY <1>1, <2>2, GotoOK, ThreadKinds DEF TypeOK
  <2> QED BY <1>1, <2>1, <2>3, TaskStepOK, ThreadKinds, Zenon DEF pop_front, channels, Goto
<1>2. CASE queue # <<>> /\ queue' = Tail(queue) /\ Call(Dispatcher, "assign", f)
  <2>1. queue' \in Seq(Sessions) /\ Head(queue) \in Sessions
    BY <1>2 DEF TypeOK, DataOK
  <2>2. DataOK'
    BY <2>1 DEF TypeOK, DataOK, sweeping, pop_front, limits, channels
  <2>3. f \in Frame /\ f.session = Head(queue)
    BY <2>1, NoFrameType, Zenon DEF NoFrame, Frame, Resume
  <2>4. "assign" \in Label /\ LocalsOK("assign", f)
    BY <2>1, <2>3 DEF Label, LocalsOK
  <2>5. TasksOK'
    BY <1>2, <2>3, <2>4, CallOK, ThreadKinds DEF TypeOK
  <2> QED BY <1>2, <2>2, <2>5, TaskStepOK, ThreadKinds, Zenon
          DEF pop_front, channels, Call, Goto
<1> QED BY <1>1, <1>2 DEF pop_front

\* What a dispatch does to the data, apart from the control of the dispatcher.
LEMMA AssignJobType ==
    ASSUME TypeOK, try_dispatch_one, NEW w \in Workers, assign_job(w)
    PROVE  TypeOK'
<1> DEFINE s == frame[Dispatcher].session
           c == workers[w].connection_id
           f == [frame[Dispatcher] EXCEPT !.worker = w, !.conn = c]
           m == [kind |-> "assign", job |-> s]
           r == [inner[s] EXCEPT !.assigned_worker = w]
           h == [workers[w] EXCEPT !.current_job = s]
<1>1. /\ s \in Sessions /\ pc[Dispatcher] = "assign" /\ frame[Dispatcher] \in Frame
      /\ c \in Conns
  BY ThreadKinds, Zenon DEF TypeOK, TasksOK, LocalsOK, DataOK, sweeping, try_dispatch_one,
                     assign_job, Idle, WorkerHandle
<1>2. CASE c \in closed \/ Full(c)
  <2>1. Call(Dispatcher, "push_front", f) /\ UNCHANGED <<inner, workers, outbox>>
    BY <1>2, Zenon DEF assign_job
  <2>2. DataOK'
    BY <2>1 DEF TypeOK, DataOK, sweeping, try_dispatch_one, limits
  <2>3. f \in Frame /\ f.session = s
    BY <1>1, Zenon DEF Frame
  <2>4. "push_front" \in Label /\ LocalsOK("push_front", f)
    BY <1>1, <2>3 DEF Label, LocalsOK
  <2>5. TasksOK'
    BY <2>1, <2>3, <2>4, CallOK, ThreadKinds DEF TypeOK
  <2> QED BY <2>1, <2>2, <2>5, TaskStepOK, ThreadKinds, Zenon DEF try_dispatch_one, Call, Goto
<1>3. CASE ~(c \in closed \/ Full(c))
  <2>1. outbox' = [outbox EXCEPT ![c] = Append(@, m)]
    BY <1>3, Zenon DEF assign_job
  <2>2. workers' = [workers EXCEPT ![w] = h]
    BY <1>3 DEF assign_job
  <2>3. inner' = [inner EXCEPT ![s] = r]
    BY <1>3 DEF assign_job
  <2>4. Return(Dispatcher, TRUE)
    BY <1>3, Zenon DEF assign_job
  <2>5. m \in Message
    BY <1>1 DEF Message, Command
  <2>6. h \in WorkerHandle
    BY <1>1, HandleUpdates, Zenon DEF TypeOK, DataOK
  <2>7. r \in SessionInner
    BY <1>1, InnerUpdates, Zenon DEF TypeOK, DataOK
  <2> HIDE DEF m, h, r
  <2>8. outbox' \in [Conns -> Seq(Message)]
    BY <1>1, <2>1, <2>5 DEF TypeOK, DataOK
  <2>9. workers' \in [Workers -> WorkerHandle]
    BY <2>2, <2>6 DEF TypeOK, DataOK
  <2>10. inner' \in [Sessions -> SessionInner]
    BY <1>1, <2>3, <2>7 DEF TypeOK, DataOK
  <2>11. DataOK'
    BY <2>8, <2>9, <2>10 DEF TypeOK, DataOK, sweeping, try_dispatch_one, limits
  <2> QED BY <1>1, <2>4, <2>11, ReturnStepType, ThreadKinds, Zenon DEF try_dispatch_one
<1> QED BY <1>2, <1>3

LEMMA DispatcherType ==
    ASSUME TypeOK, run_dispatcher
    PROVE  TypeOK'
<1>1. CASE notified
  <2>1. "loop" \in Label /\ LocalsOK("loop", frame[Dispatcher])
    BY DEF Label, LocalsOK
  <2>2. DataOK'
    BY <1>1, Zenon DEF TypeOK, DataOK, sweeping, notified, limits, channels
  <2>3. TasksOK'
    BY <1>1, <2>1, GotoOK, ThreadKinds DEF notified, TypeOK
  <2> QED BY <1>1, <2>2, <2>3, TaskStepOK, ThreadKinds, Zenon DEF notified, channels, Goto
<1>2. CASE pop_front  BY <1>2, PopFrontType
<1>3. CASE try_dispatch_one
  <2>1. pc[Dispatcher] = "assign" /\ frame[Dispatcher].session \in Sessions
    BY <1>3, ThreadKinds DEF TypeOK, TasksOK, LocalsOK, try_dispatch_one
  <2>2. CASE Return(Dispatcher, TRUE) /\ UNCHANGED <<inner, workers, outbox>>
    <3>1. DataOK'
      BY <1>3, <2>2 DEF TypeOK, DataOK, sweeping, try_dispatch_one, limits
    <3> QED BY <1>3, <2>1, <2>2, <3>1, ReturnStepType, ThreadKinds, Zenon
            DEF try_dispatch_one
  <2>3. CASE Goto(Dispatcher, "push_front")
             /\ UNCHANGED <<inner, workers, outbox, frame>>
    <3>1. DataOK'
      BY <1>3, <2>3 DEF TypeOK, DataOK, sweeping, try_dispatch_one, limits
    <3>2. "push_front" \in Label /\ LocalsOK("push_front", frame[Dispatcher])
      BY <2>1 DEF Label, LocalsOK
    <3>3. TasksOK'
      BY <2>3, <3>2, GotoOK, ThreadKinds DEF TypeOK
    <3> QED BY <1>3, <2>3, <3>1, <3>3, TaskStepOK, ThreadKinds, Zenon
            DEF try_dispatch_one, Goto
  <2>4. CASE \E w \in Workers : assign_job(w)
    BY <1>3, <2>4, AssignJobType
  <2> QED BY <1>3, <2>2, <2>3, <2>4, Zenon DEF try_dispatch_one
<1>4. CASE push_front
  <2>1. frame[Dispatcher].session \in Sessions /\ frame[Dispatcher] \in Frame
    BY <1>4, ThreadKinds DEF TypeOK, TasksOK, LocalsOK, push_front
  <2>2. queue' \in Seq(Sessions)
    <3>1. \A S, e, q : e \in S /\ q \in Seq(S) => PushFront(e, q) \in Seq(S)
      BY DEF PushFront
    <3>2. queue' = PushFront(frame[Dispatcher].session, queue)  BY <1>4, Zenon DEF push_front
    <3> QED BY <2>1, <3>1, <3>2, Zenon DEF TypeOK, DataOK
  <2>3. DataOK'
    BY <1>4, <2>2 DEF TypeOK, DataOK, sweeping, push_front, limits, channels
  <2>4. CASE Call(Dispatcher, "idle", NoFrame)
    <3>1. "idle" \in Label /\ LocalsOK("idle", NoFrame)
      BY DEF Label, LocalsOK
    <3>2. TasksOK'
      BY <2>4, <3>1, NoFrameType, CallOK, ThreadKinds DEF TypeOK
    <3> QED BY <1>4, <2>3, <2>4, <3>2, TaskStepOK, ThreadKinds, Zenon
            DEF push_front, channels, Call, Goto
  <2>5. CASE /\ frame[Dispatcher].worker # NONE
             /\ Goto(Dispatcher, "unregister") /\ UNCHANGED frame
    <3>1. "unregister" \in Label /\ LocalsOK("unregister", frame[Dispatcher])
      BY <2>1, <2>5, FrameTypes DEF Label, LocalsOK
    <3>2. TasksOK'
      BY <2>5, <3>1, GotoOK, ThreadKinds DEF TypeOK
    <3> QED BY <1>4, <2>3, <2>5, <3>2, TaskStepOK, ThreadKinds, Zenon
            DEF push_front, channels, Goto
  <2> QED BY <1>4, <2>4, <2>5 DEF push_front
<1> QED BY <1>1, <1>2, <1>3, <1>4 DEF run_dispatcher

\* A step of a task that only moves to a label with the same locals.
LEMMA GotoStepType ==
    ASSUME TypeOK, NEW t \in Threads \ Conns, NEW label \in Label,
           LocalsOK(label, frame[t]), Goto(t, label), UNCHANGED frame,
           DataOK', UNCHANGED worker_of
    PROVE  TypeOK'
  BY GotoOK, TaskStepOK, Zenon DEF TypeOK, Goto

LEMMA MaintenanceType ==
    ASSUME TypeOK, maintenance_once
    PROVE  TypeOK'
<1>0. {"sweep", "expire", "idle"} \subseteq Label
  BY DEF Label
<1>1. CASE collect_stale
  <2>1. \A w \in Workers : workers[w].connection_id \in Conns \cup {NONE}
    BY DEF TypeOK, DataOK, WorkerHandle
  <2>2. stale_workers' \subseteq Workers \X (Conns \cup {NONE})
    BY <1>1, <2>1 DEF collect_stale
  <2>3. DataOK'
    BY <1>1, <2>2 DEF TypeOK, DataOK, sweeping, collect_stale, limits, channels
  <2>4. LocalsOK("sweep", frame[Maintenance])
    BY DEF LocalsOK
  <2> QED BY <1>0, <1>1, <2>3, <2>4, GotoStepType, ThreadKinds
          DEF collect_stale, channels
<1>2. CASE sweep_worker
  <2>1. PICK wc \in stale_workers :
          /\ stale_workers' = stale_workers \ {wc}
          /\ Call(Maintenance, "unregister",
                  [NoFrame EXCEPT !.worker = wc[1], !.conn = wc[2],
                                  !.next = "sweep"])
    BY <1>2, Zenon DEF sweep_worker
  <2> DEFINE f == [NoFrame EXCEPT !.worker = wc[1], !.conn = wc[2],
                                  !.next = "sweep"]
  <2>2. wc[1] \in Workers /\ wc[2] \in Conns \cup {NONE}
    BY DEF TypeOK, DataOK
  <2>3. f \in Frame /\ f.worker = wc[1]
    BY <2>2, NoFrameType, Zenon DEF NoFrame, Frame, Resume
  <2>4. "unregister" \in Label /\ LocalsOK("unregister", f)
    BY <2>2, <2>3 DEF Label, LocalsOK
  <2>5. TasksOK'
    BY <2>1, <2>3, <2>4, CallOK, ThreadKinds DEF TypeOK
  <2>6. DataOK'
    BY <1>2, <2>1 DEF TypeOK, DataOK, sweeping, sweep_worker, limits, channels
  <2> QED BY <1>2, <2>1, <2>5, <2>6, TaskStepOK, ThreadKinds, Zenon
          DEF sweep_worker, channels, Call, Goto
<1>3. CASE collect_sessions
  <2>1. DataOK'
    BY <1>3 DEF TypeOK, DataOK, collect_sessions, limits, channels
  <2>2. LocalsOK("expire", frame[Maintenance])
    BY DEF LocalsOK
  <2> QED BY <1>0, <1>3, <2>1, <2>2, GotoStepType, ThreadKinds
          DEF collect_sessions, channels
<1>4. ASSUME NEW s \in Sessions, expire_session(s)
      PROVE  TypeOK'
  <2> DEFINE f == [NoFrame EXCEPT !.session = s]
  <2>1. DataOK'
    BY <1>4 DEF TypeOK, DataOK, sweeping, expire_session, limits, channels
  <2>2. CASE UNCHANGED tasks
    BY <1>4, <2>1, <2>2, IdleTasksOK DEF expire_session, channels, tasks
  <2>3. CASE Call(Maintenance, "cancel", f)
    <3>1. f \in Frame /\ f.session = s
      BY NoFrameType, Zenon DEF NoFrame, Frame
    <3>2. "cancel" \in Label /\ LocalsOK("cancel", f)
      BY <3>1 DEF Label, LocalsOK
    <3>3. TasksOK'
      BY <2>3, <3>1, <3>2, CallOK, ThreadKinds DEF TypeOK
    <3> QED BY <1>4, <2>1, <2>3, <3>3, TaskStepOK, ThreadKinds, Zenon
            DEF expire_session, channels, Call, Goto
  <2> QED BY <1>4, <2>2, <2>3 DEF expire_session
<1>5. CASE cancel_expired
  <2>1. /\ frame[Maintenance].session \in Sessions /\ pc[Maintenance] = "cancel"
        /\ "cancelled" \in ExecutionPhase /\ "expire" \in Resume
    BY <1>5, ThreadKinds DEF TypeOK, TasksOK, LocalsOK, cancel_expired,
                             ExecutionPhase, Resume
  <2> QED BY <1>5, <2>1, CancelStepType, ThreadKinds DEF cancel_expired
<1>6. CASE maintenance_done
  <2>1. DataOK'
    BY <1>6 DEF TypeOK, DataOK, sweeping, maintenance_done, limits, channels
  <2>2. LocalsOK("idle", frame[Maintenance])
    BY DEF LocalsOK
  <2> QED BY <1>0, <1>6, <2>1, <2>2, GotoStepType, ThreadKinds
          DEF maintenance_done, channels
<1> QED BY <1>1, <1>2, <1>3, <1>4, <1>5, <1>6 DEF maintenance_once

LEMMA WorldType ==
    ASSUME TypeOK, World
    PROVE  TypeOK'
<1>1. ASSUME NEW s \in Sessions, ticket_expires(s)
      PROVE  TypeOK'
  <2>1. DataOK'
    BY <1>1 DEF TypeOK, DataOK, sweeping, ticket_expires, limits, channels
  <2> QED BY <1>1, <2>1, IdleTasksOK DEF ticket_expires, channels, tasks
<1>2. ASSUME NEW w \in Workers, silence(w)
      PROVE  TypeOK'
  <2>1. workers' \in [Workers -> WorkerHandle]
    BY <1>2, NotStaleType, Zenon DEF silence
  <2>2. DataOK'
    BY <1>2, <2>1 DEF TypeOK, DataOK, sweeping, silence, limits, channels
  <2> QED BY <1>2, <2>2, IdleTasksOK DEF silence, channels, tasks
<1>3. ASSUME NEW c \in Conns, deliver(c)
      PROVE  TypeOK'
  <2>1. outbox' \in [Conns -> Seq(Message)]
    BY <1>3 DEF TypeOK, DataOK, sweeping, deliver
  <2>2. DataOK'
    BY <1>3, <2>1 DEF TypeOK, DataOK, sweeping, deliver, limits
  <2> QED BY <1>3, <2>2, IdleTasksOK DEF deliver, tasks
<1>4. ASSUME NEW c \in Conns, receiver_dropped(c)
      PROVE  TypeOK'
  <2>1. outbox' \in [Conns -> Seq(Message)]
    BY <1>4 DEF TypeOK, DataOK, sweeping, receiver_dropped
  <2>2. DataOK'
    BY <1>4, <2>1 DEF TypeOK, DataOK, sweeping, receiver_dropped, limits
  <2> QED BY <1>4, <2>2, IdleTasksOK DEF receiver_dropped, tasks
<1> QED BY <1>1, <1>2, <1>3, <1>4 DEF World

LEMMA SubroutineType ==
    ASSUME TypeOK, NEW t \in Threads, Subroutine(t)
    PROVE  TypeOK'
  BY CompleteSessionType, RemoveSessionType, UnregisterWorkerType, NotifyOneType,
     RetainQueueType, SendCommandType, LookupAndSendType DEF Subroutine

LEMMA InitType == Init => TypeOK
<1> SUFFICES ASSUME Init PROVE TypeOK
  OBVIOUS
<1>1. NewInner \in SessionInner
  BY DEF NewInner, SessionInner, ExecutionPhase
<1>2. NoHandle \in WorkerHandle
  BY DEF NoHandle, WorkerHandle
<1>3. [step |-> "none", worker |-> NONE] \in Completion
  BY DEF Completion, CompletionStep
<1>4. inner \in [Sessions -> SessionInner] /\ workers \in [Workers -> WorkerHandle]
  BY <1>1, <1>2 DEF Init
<1>5. completion \in [Sessions -> Completion]
  BY <1>3 DEF Init
<1>6. /\ by_visitor \in [Visitors -> Nat] /\ by_ip \in [Ips -> Nat]
      /\ worker_of \in [Conns -> Workers \cup {NONE}]
      /\ outbox \in [Conns -> Seq(Message)]
  BY DEF Init
<1>a. /\ sessions = {} /\ expired = {} /\ queue = <<>> /\ pending_activations = 0
      /\ closed = {} /\ permit = FALSE /\ stale_workers = {} /\ expiring = {}
  BY DEF Init
<1>b. queue \in Seq(Sessions) /\ pending_activations \in Nat
  BY <1>a
<1>c. /\ sessions \subseteq Sessions /\ expired \subseteq sessions
      /\ closed \subseteq Conns /\ permit \in BOOLEAN /\ expiring \subseteq Sessions
  BY <1>a, Zenon
<1>d. stale_workers \subseteq Workers \X (Conns \cup {NONE})
  BY <1>a
<1>7. DataOK
  BY <1>4, <1>5, <1>6, <1>b, <1>c, <1>d DEF DataOK
<1>8. \A t \in Threads : pc[t] \in {"idle", "loop"} /\ frame[t] = NoFrame
  BY DEF Init
<1>9. TasksOK
  BY <1>8, NoFrameType DEF TasksOK, LocalsOK, Init, Label
<1>10. \A c \in Conns : pc[c] = "idle"
  BY ThreadKinds DEF Init
<1> QED BY <1>7, <1>9, <1>10 DEF TypeOK

LEMMA StepType == TypeOK /\ [Next]_vars => TypeOK'
<1> SUFFICES ASSUME TypeOK, [Next]_vars PROVE TypeOK'
  OBVIOUS
<1>1. ASSUME NEW s \in Sessions, Completing(s)     PROVE TypeOK'
  BY <1>1, ReleaseLimitsType, FreeWorkerType DEF Completing
<1>2. ASSUME NEW s \in Sessions, Browser(s)        PROVE TypeOK'
  BY <1>2, BrowserType
<1>3. ASSUME NEW s \in Sessions, WebSocketTask(s)  PROVE TypeOK'
  BY <1>3, WebSocketTaskType
<1>4. ASSUME NEW t \in Threads, Subroutine(t)      PROVE TypeOK'
  BY <1>4, SubroutineType
<1>5. ASSUME NEW c \in Conns, WorkerMessage(c)     PROVE TypeOK'
  BY <1>5, WorkerMessageType
<1>6. ASSUME NEW c \in Conns, StreamTask(c)        PROVE TypeOK'
  BY <1>6, StreamTaskType
<1>7. CASE run_dispatcher    BY <1>7, DispatcherType
<1>8. CASE maintenance_once  BY <1>8, MaintenanceType
<1>9. CASE World             BY <1>9, WorldType
<1>10. CASE UNCHANGED vars
  <2>1. DataOK'
    BY <1>10 DEF vars, TypeOK, DataOK, sweeping, limits, channels
  <2> QED BY <1>10, <2>1, IdleTasksOK DEF vars, channels, tasks
<1> QED BY <1>1, <1>2, <1>3, <1>4, <1>5, <1>6, <1>7, <1>8, <1>9, <1>10 DEF Next

\* Every task of executor-api finds the session and the worker its next step
\* reads in its locals, and the shared state stays well formed, whatever the
\* browsers, the workers, the transport and the clock do.
THEOREM TypeCorrect == Spec => []TypeOK
  BY InitType, StepType, PTL DEF Spec

=============================================================================
