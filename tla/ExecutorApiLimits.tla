-------------------------- MODULE ExecutorApiLimits --------------------------
(* That the counters of LimitState are exact, and with them the limits of     *)
(* executor-api on what runs and on what waits: the invariant behind them,    *)
(* the steps that count, and the other steps.                                 *)
EXTENDS ExecutorApiSafety, FiniteSetTheorems

-----------------------------------------------------------------------------
(* The invariant *)

\* Only a session whose ticket was consumed is anywhere, and it holds its reservation
\* until it is finished. A place in the queue is reserved once.
TicketInv == \A s \in Sessions :
    /\ \/ inner[s].limits_reserved \/ Pending(s) \/ Queued(s) \/ InHand(s)
       \/ inner[s].assigned_worker # NONE
       => inner[s].ticket_consumed
    /\ inner[s].ticket_consumed /\ ~inner[s].finished => inner[s].limits_reserved
    /\ pc[s] = "activate" => ~inner[s].pending_activation

BoundInv ==
    /\ \A v \in Visitors : by_visitor[v] <= VisitorConcurrency
    /\ \A i \in Ips : by_ip[i] <= IpConcurrency
    /\ Cardinality(Busy) <= GlobalConcurrency
    /\ QueueBound

LimitsInv == TicketInv /\ LimitsExact /\ BoundInv

ReservedOf(f, g) == {s \in Sessions : inner[s].limits_reserved /\ f[s] = g}
Awaiting == {s \in Sessions : Pending(s)}
Held == {s \in Sessions : InHand(s)}

LEMMA LimitsSets ==
    LimitsExact <=> /\ \A v \in Visitors : by_visitor[v] = Cardinality(ReservedOf(VisitorOf, v))
                    /\ \A i \in Ips : by_ip[i] = Cardinality(ReservedOf(IpOf, i))
                    /\ pending_activations = Cardinality(Awaiting)
  BY DEF LimitsExact, ReservedOf, Awaiting

LEMMA QueueSets ==
    QueueBound <=> Len(queue) + pending_activations + Cardinality(Held) <= QueueCapacity + 1
  BY DEF QueueBound, Held

\* The sets that are counted are finite.
LEMMA Finite ==
    /\ \A f, g : IsFiniteSet(ReservedOf(f, g)) /\ Cardinality(ReservedOf(f, g)) \in Nat
    /\ IsFiniteSet(Awaiting) /\ Cardinality(Awaiting) \in Nat
    /\ IsFiniteSet(Held) /\ Cardinality(Held) \in Nat
    /\ IsFiniteSet(Busy) /\ Cardinality(Busy) \in Nat
<1>0. IsFiniteSet(Sessions) /\ IsFiniteSet(Workers)  BY ConstantsAssumption
<1>1. \A f, g : IsFiniteSet(ReservedOf(f, g))  BY <1>0, FS_Subset DEF ReservedOf
<1>2. IsFiniteSet(Awaiting)  BY <1>0, FS_Subset DEF Awaiting
<1>3. IsFiniteSet(Held)  BY <1>0, FS_Subset DEF Held
<1>4. IsFiniteSet(Busy)  BY <1>0, FS_Subset DEF Busy
<1> QED BY <1>1, <1>2, <1>3, <1>4, FS_CardinalityType

\* The dispatcher holds one job at a time.
LEMMA OneHeld ==
    TypeOK => /\ Cardinality(Held) <= 1
              /\ pc[Dispatcher] \notin Hand => Cardinality(Held) = 0
              /\ pc[Dispatcher] \in Hand => Cardinality(Held) = 1
<1> SUFFICES ASSUME TypeOK
             PROVE  /\ Cardinality(Held) <= 1
                    /\ pc[Dispatcher] \notin Hand => Cardinality(Held) = 0
                    /\ pc[Dispatcher] \in Hand => Cardinality(Held) = 1
  OBVIOUS
<1> DEFINE s == frame[Dispatcher].session
<1>1. CASE pc[Dispatcher] \notin Hand
  <2>1. Held = {}  BY <1>1 DEF Held, InHand, Hand
  <2> QED BY <1>1, <2>1, FS_EmptySet
<1>2. CASE pc[Dispatcher] \in Hand
  <2>1. s \in Sessions
    BY <1>2, ThreadKinds DEF Hand, TypeOK, TasksOK, LocalsOK
  <2>2. Held = {s}  BY <1>2, <2>1 DEF Held, InHand, Hand
  <2> QED BY <1>2, <2>2, FS_Singleton
<1> QED BY <1>1, <1>2

LEMMA Types ==
    TypeOK => /\ queue \in Seq(Sessions) /\ Len(queue) \in Nat
              /\ by_visitor \in [Visitors -> Nat] /\ by_ip \in [Ips -> Nat]
              /\ pending_activations \in Nat
              /\ inner \in [Sessions -> SessionInner]
              /\ completion \in [Sessions -> Completion]
              /\ workers \in [Workers -> WorkerHandle]
              /\ pc \in [Threads -> Label] /\ frame \in [Threads -> Frame]
  BY DEF TypeOK, DataOK, TasksOK

\* The same facts of the state after a step.
LEMMA NextSets == LimitsSets' /\ QueueSets' /\ Finite' /\ OneHeld' /\ Types'
  BY LimitsSets, QueueSets, Finite, OneHeld, Types, PTL

-----------------------------------------------------------------------------
(* Steps that only let go *)

Calm == \A s \in Sessions : /\ pc'[s] = "activate" <=> pc[s] = "activate"
                            /\ InHand(s)' => InHand(s)

LEMMA MovedCalm ==
    ASSUME TypeOK, NEW t \in Threads, NEW label, Moved(t, label),
           label # "activate", pc[t] # "activate", t = Dispatcher => label \notin Hand
    PROVE  Calm
<1>1. \A u \in Threads : pc'[u] = IF u = t THEN label ELSE pc[u]
  BY Types DEF Moved
<1>2. \A s \in Sessions : pc'[s] = "activate" <=> pc[s] = "activate"
  BY <1>1, ThreadKinds
<1>3. \A s \in Sessions : InHand(s)' => InHand(s)
  BY <1>1, ThreadKinds DEF InHand, Hand, Moved
<1> QED BY <1>2, <1>3 DEF Calm

LEMMA LateCalm ==
    ASSUME TypeOK, NEW t \in Threads, LateMove(t), pc[t] # "activate"
    PROVE  Calm
<1>1. PICK label \in Label \ (Early \cup Hand) : Moved(t, label)  BY DEF LateMove
<1> QED BY <1>1, MovedCalm DEF Early

LEMMA IdleCalm ==
    ASSUME UNCHANGED <<pc, frame>>
    PROVE  Calm
  BY DEF Calm, InHand

SameFlags == \A s \in Sessions :
    /\ inner'[s].ticket_consumed = inner[s].ticket_consumed
    /\ inner'[s].pending_activation = inner[s].pending_activation
    /\ inner'[s].limits_reserved = inner[s].limits_reserved
    /\ inner[s].finished => inner'[s].finished

\* A step that makes no reservation and gives none back: jobs move between the queue,
\* the dispatcher's hand and a worker, or are dropped.
LEMMA MovingStep ==
    ASSUME TypeOK, TypeOK', LimitsInv, SameFlags, UNCHANGED limits,
           \A s \in Sessions : pc'[s] = "activate" <=> pc[s] = "activate",
           \A s \in Sessions : Queued(s)' \/ InHand(s)' \/ inner'[s].assigned_worker # NONE =>
               Queued(s) \/ InHand(s) \/ inner[s].assigned_worker # NONE,
           Len(queue') + Cardinality(Held)' <= Len(queue) + Cardinality(Held),
           (Cardinality(Busy) <= GlobalConcurrency)'
    PROVE  LimitsInv'
<1>1. UNCHANGED <<by_visitor, by_ip, pending_activations>>  BY DEF limits
<1>2. \A s \in Sessions : Pending(s)' <=> Pending(s)  BY DEF Pending, SameFlags
<1>3. TicketInv'
  BY <1>2 DEF LimitsInv, TicketInv, SameFlags
<1>4. LimitsExact'
  <2>1. \A f, g : ReservedOf(f, g)' = ReservedOf(f, g)  BY DEF ReservedOf, SameFlags
  <2>2. Awaiting' = Awaiting  BY <1>2 DEF Awaiting
  <2> QED BY <1>1, <2>1, <2>2, LimitsSets, NextSets DEF LimitsInv
<1>5. QueueBound'
  <2>1. Len(queue) \in Nat /\ Len(queue') \in Nat /\ pending_activations \in Nat
    BY Types, NextSets
  <2>2. Cardinality(Held) \in Nat /\ (Cardinality(Held) \in Nat)'  BY Finite, NextSets
  <2>3. Len(queue) + pending_activations + Cardinality(Held) <= QueueCapacity + 1
    BY QueueSets DEF LimitsInv, BoundInv
  <2>4. QueueCapacity \in Nat  BY ConstantsAssumption
  <2>5. (Len(queue) + pending_activations + Cardinality(Held) <= QueueCapacity + 1)'
    BY <1>1, <2>1, <2>2, <2>3, <2>4
  <2> QED BY <2>5, NextSets
<1>6. BoundInv'  BY <1>1, <1>5 DEF LimitsInv, BoundInv
<1> QED BY <1>3, <1>4, <1>6 DEF LimitsInv

\* A step that moves no job on.
LEMMA CalmStep ==
    ASSUME TypeOK, TypeOK', LimitsInv, Calm, SameFlags, UNCHANGED limits,
           \A s \in Sessions :
               inner'[s].assigned_worker # NONE => inner[s].assigned_worker # NONE,
           Range(queue') \subseteq Range(queue), Len(queue') <= Len(queue),
           Busy' \subseteq Busy
    PROVE  LimitsInv'
<1>1. \A s \in Sessions : Queued(s)' \/ InHand(s)' \/ inner'[s].assigned_worker # NONE =>
          Queued(s) \/ InHand(s) \/ inner[s].assigned_worker # NONE
  BY DEF Calm, Queued
<1>2. Cardinality(Held)' <= Cardinality(Held)
  <2>1. Held' \subseteq Held  BY DEF Held, Calm
  <2> QED BY <2>1, Finite, FS_Subset
<1>3. Len(queue') + Cardinality(Held)' <= Len(queue) + Cardinality(Held)
  <2>1. Len(queue) \in Nat /\ Len(queue') \in Nat  BY Types, NextSets
  <2>2. Cardinality(Held) \in Nat /\ Cardinality(Held)' \in Nat  BY Finite, NextSets
  <2> QED BY <1>2, <2>1, <2>2
<1>4. Cardinality(Busy)' <= GlobalConcurrency
  <2>1. Cardinality(Busy)' <= Cardinality(Busy)  BY Finite, FS_Subset
  <2>2. Cardinality(Busy) <= GlobalConcurrency  BY DEF LimitsInv, BoundInv
  <2>3. Cardinality(Busy) \in Nat /\ Cardinality(Busy)' \in Nat  BY Finite, NextSets
  <2>4. GlobalConcurrency \in Nat  BY ConstantsAssumption
  <2> QED BY <2>1, <2>2, <2>3, <2>4
<1>5. \A s \in Sessions : pc'[s] = "activate" <=> pc[s] = "activate"  BY DEF Calm
<1> QED BY <1>1, <1>3, <1>4, <1>5, MovingStep

\* A step that changes no more of a worker than last_seen.
LEMMA SameLimits ==
    ASSUME TypeOK, TypeOK', LimitsInv, Calm, SameHandles,
           UNCHANGED <<inner, queue, limits>>
    PROVE  LimitsInv'
<1>1. SameFlags  BY DEF SameFlags
<1>2. Busy' \subseteq Busy  BY DEF Busy, SameHandles
<1>3. Len(queue) \in Nat  BY Types
<1> QED BY <1>1, <1>2, <1>3, CalmStep

LEMMA LateLimits ==
    ASSUME TypeOK, TypeOK', LimitsInv, NEW t \in Threads, LateMove(t),
           pc[t] # "activate", UNCHANGED <<inner, queue, limits, workers>>
    PROVE  LimitsInv'
  BY LateCalm, SameLimits DEF SameHandles

LEMMA CancelLimits ==
    ASSUME TypeOK, TypeOK', LimitsInv, NEW t \in Threads, pc[t] # "activate",
           NEW s \in Sessions, NEW phase, NEW next \in Resume,
           Cancel(t, s, phase, next), UNCHANGED <<inner, queue, limits, workers>>
    PROVE  LimitsInv'
  BY CancelMoved, LateLimits

LEMMA BreakLimits ==
    ASSUME TypeOK, TypeOK', LimitsInv, NEW c \in Conns, pc[c] # "activate",
           BreakStream(c), UNCHANGED <<inner, queue, limits, workers>>
    PROVE  LimitsInv'
  BY BreakStreamMoved, LateLimits, ThreadKinds

\* An update of one session's record.
LEMMA InnerUpdateFlags ==
    ASSUME TypeOK, NEW s \in Sessions, NEW r, inner' = [inner EXCEPT ![s] = r],
           r.ticket_consumed = inner[s].ticket_consumed,
           r.pending_activation = inner[s].pending_activation,
           r.limits_reserved = inner[s].limits_reserved,
           inner[s].finished => r.finished
    PROVE  SameFlags
<1> SUFFICES ASSUME NEW x \in Sessions
             PROVE  /\ inner'[x].ticket_consumed = inner[x].ticket_consumed
                    /\ inner'[x].pending_activation = inner[x].pending_activation
                    /\ inner'[x].limits_reserved = inner[x].limits_reserved
                    /\ inner[x].finished => inner'[x].finished
  BY DEF SameFlags
<1>1. inner'[x] = IF x = s THEN r ELSE inner[x]  BY Types
<1> QED BY <1>1

-----------------------------------------------------------------------------
(* The steps that count *)

\* One more, or one less, session in a group of those that hold a reservation.
LEMMA GroupAdded ==
    ASSUME TypeOK, NEW s \in Sessions, NEW f, NEW g, ~inner[s].limits_reserved,
           inner'[s].limits_reserved,
           \A x \in Sessions \ {s} : inner'[x].limits_reserved = inner[x].limits_reserved
    PROVE  Cardinality(ReservedOf(f, g))' =
               Cardinality(ReservedOf(f, g)) + (IF f[s] = g THEN 1 ELSE 0)
<1>0. IsFiniteSet(ReservedOf(f, g)) /\ Cardinality(ReservedOf(f, g)) \in Nat  BY Finite
<1>1. s \notin ReservedOf(f, g)  BY DEF ReservedOf
<1>2. ReservedOf(f, g)' = IF f[s] = g THEN ReservedOf(f, g) \cup {s} ELSE ReservedOf(f, g)
  BY DEF ReservedOf
<1>3. Cardinality(ReservedOf(f, g) \cup {s}) = Cardinality(ReservedOf(f, g)) + 1
  BY <1>0, <1>1, FS_AddElement, Zenon
<1> QED BY <1>0, <1>2, <1>3

LEMMA GroupRemoved ==
    ASSUME TypeOK, NEW s \in Sessions, NEW f, NEW g, inner[s].limits_reserved,
           ~inner'[s].limits_reserved,
           \A x \in Sessions \ {s} : inner'[x].limits_reserved = inner[x].limits_reserved
    PROVE  Cardinality(ReservedOf(f, g))' =
               IF f[s] = g THEN Decrement(Cardinality(ReservedOf(f, g)))
                           ELSE Cardinality(ReservedOf(f, g))
<1>0. IsFiniteSet(ReservedOf(f, g)) /\ Cardinality(ReservedOf(f, g)) \in Nat  BY Finite
<1>1. f[s] = g => s \in ReservedOf(f, g)  BY DEF ReservedOf
<1>2. ReservedOf(f, g)' = IF f[s] = g THEN ReservedOf(f, g) \ {s} ELSE ReservedOf(f, g)
  BY DEF ReservedOf
<1>3. f[s] = g => Cardinality(ReservedOf(f, g)) # 0  BY <1>0, <1>1, FS_EmptySet
<1>4. f[s] = g =>
          Cardinality(ReservedOf(f, g) \ {s}) = Decrement(Cardinality(ReservedOf(f, g)))
  BY <1>0, <1>1, <1>3, FS_RemoveElement, Zenon DEF Decrement
<1> QED BY <1>2, <1>4

\* Of the reservations of places in the queue, too.
LEMMA AwaitingRemoved ==
    ASSUME TypeOK, NEW s \in Sessions, Pending(s), ~Pending(s)',
           \A x \in Sessions \ {s} : Pending(x)' <=> Pending(x),
           pending_activations = Cardinality(Awaiting)
    PROVE  /\ Decrement(pending_activations) = Cardinality(Awaiting)'
           /\ Decrement(pending_activations) = pending_activations - 1
<1>0. IsFiniteSet(Awaiting) /\ Cardinality(Awaiting) \in Nat  BY Finite
<1>1. s \in Awaiting /\ Awaiting' = Awaiting \ {s}  BY DEF Awaiting
<1>2. Cardinality(Awaiting) # 0  BY <1>0, <1>1, FS_EmptySet
<1> QED BY <1>0, <1>1, <1>2, FS_RemoveElement DEF Decrement

LEMMA ConsumeTicketLimits ==
    ASSUME TypeOK, TypeOK', LimitsInv, NEW s \in Sessions, consume_ticket(s)
    PROVE  LimitsInv'
<1> DEFINE r == [inner[s] EXCEPT !.ticket_consumed = TRUE, !.pending_activation = TRUE,
                                 !.limits_reserved = TRUE]
<1>1. /\ pc[s] = "idle" /\ ~inner[s].ticket_consumed /\ QueueHasRoom
      /\ by_visitor[VisitorOf[s]] < VisitorConcurrency /\ by_ip[IpOf[s]] < IpConcurrency
      /\ by_visitor' = [by_visitor EXCEPT ![VisitorOf[s]] = @ + 1]
      /\ by_ip' = [by_ip EXCEPT ![IpOf[s]] = @ + 1]
      /\ pending_activations' = pending_activations + 1
      /\ inner' = [inner EXCEPT ![s] = r]
      /\ UNCHANGED <<queue, workers, frame>>
  BY DEF consume_ticket
<1>2. /\ r.ticket_consumed /\ r.pending_activation /\ r.limits_reserved
      /\ r.assigned_worker = inner[s].assigned_worker
  BY Types DEF SessionInner
<1> HIDE DEF r
<1>3. inner'[s] = r /\ \A x \in Sessions \ {s} : inner'[x] = inner[x]
  BY <1>1, Types
<1>4. Moved(s, "upgrade") /\ s \in Threads /\ s # Dispatcher
  BY GotoMoved, ThreadKinds, ConstantsAssumption DEF consume_ticket
<1>5. /\ pc'[s] = "upgrade" /\ pc'[Dispatcher] = pc[Dispatcher]
      /\ \A x \in Sessions \ {s} : pc'[x] = pc[x]
  BY <1>4, ThreadKinds, Types DEF Moved
<1>6. \A x \in Sessions : InHand(x)' <=> InHand(x)  BY <1>1, <1>5 DEF InHand
<1>7. ~inner[s].limits_reserved /\ ~Pending(s)  BY <1>1 DEF LimitsInv, TicketInv
<1>8. Pending(s)' /\ \A x \in Sessions \ {s} : Pending(x)' <=> Pending(x)
  BY <1>2, <1>3, <1>5 DEF Pending
<1>9. TicketInv'
  BY <1>1, <1>2, <1>3, <1>5, <1>6, <1>8 DEF LimitsInv, TicketInv, Queued
<1>10. LimitsExact'
  <2>1. /\ \A v \in Visitors : by_visitor[v] = Cardinality(ReservedOf(VisitorOf, v))
        /\ \A i \in Ips : by_ip[i] = Cardinality(ReservedOf(IpOf, i))
        /\ pending_activations = Cardinality(Awaiting)
    BY LimitsSets DEF LimitsInv
  <2>2. \A f, g : Cardinality(ReservedOf(f, g))' =
            Cardinality(ReservedOf(f, g)) + (IF f[s] = g THEN 1 ELSE 0)
    BY <1>2, <1>3, <1>7, GroupAdded
  <2>3. /\ by_visitor \in [Visitors -> Nat] /\ by_ip \in [Ips -> Nat]
        /\ VisitorOf[s] \in Visitors /\ IpOf[s] \in Ips
    BY ConstantsAssumption, Types
  <2>4. \A v \in Visitors : by_visitor'[v] = Cardinality(ReservedOf(VisitorOf, v))'
    BY <1>1, <2>1, <2>2, <2>3
  <2>5. \A i \in Ips : by_ip'[i] = Cardinality(ReservedOf(IpOf, i))'
    BY <1>1, <2>1, <2>2, <2>3
  <2>6. pending_activations' = Cardinality(Awaiting)'
    <3>1. Awaiting' = Awaiting \cup {s} /\ s \notin Awaiting  BY <1>7, <1>8 DEF Awaiting
    <3> QED BY <1>1, <2>1, <3>1, Finite, FS_AddElement, Zenon
  <2> QED BY <2>4, <2>5, <2>6, NextSets
<1>11. BoundInv'
  <2>1. \A v \in Visitors : by_visitor'[v] <= VisitorConcurrency
    BY <1>1, ConstantsAssumption, Types DEF LimitsInv, BoundInv
  <2>2. \A i \in Ips : by_ip'[i] <= IpConcurrency
    BY <1>1, ConstantsAssumption, Types DEF LimitsInv, BoundInv
  <2>3. Cardinality(Busy)' <= GlobalConcurrency
    BY <1>1 DEF LimitsInv, BoundInv, Busy
  <2>4. QueueBound'
    <3>1. Held' = Held  BY <1>6 DEF Held
    <3>2. Cardinality(Held) <= 1 /\ Cardinality(Held) \in Nat  BY OneHeld, Finite
    <3>3. Len(queue) \in Nat /\ pending_activations \in Nat /\ QueueCapacity \in Nat
      BY ConstantsAssumption, Types
    <3>4. Len(queue) + pending_activations < QueueCapacity  BY <1>1 DEF QueueHasRoom
    <3>5. Len(queue') + pending_activations' + Cardinality(Held)' <= QueueCapacity + 1
      BY <1>1, <3>1, <3>2, <3>3, <3>4
    <3> QED BY <3>5, NextSets
  <2> QED BY <2>1, <2>2, <2>3, <2>4 DEF BoundInv
<1> QED BY <1>9, <1>10, <1>11 DEF LimitsInv

LEMMA ReleaseLimits ==
    ASSUME TypeOK, TypeOK', AssignmentInv, LimitsInv, NEW s \in Sessions,
           release_limits(s)
    PROVE  LimitsInv'
<1> DEFINE r == [inner[s] EXCEPT !.limits_released = TRUE, !.pending_activation = FALSE,
                                 !.limits_reserved = FALSE]
           held == ~inner[s].limits_released /\ inner[s].limits_reserved
<1>1. UNCHANGED <<queue, workers, pc, frame>> /\ inner[s].finished
  BY DEF release_limits, tasks, AssignmentInv
<1>2. CASE ~held
  <2>1. UNCHANGED <<inner, limits>>  BY <1>2 DEF release_limits
  <2> QED BY <1>1, <2>1, IdleCalm, SameLimits DEF SameHandles
<1>3. CASE held
  <2>1. /\ inner' = [inner EXCEPT ![s] = r]
        /\ pending_activations' = IF inner[s].pending_activation
                                  THEN Decrement(pending_activations)
                                  ELSE pending_activations
        /\ by_visitor' = [by_visitor EXCEPT ![VisitorOf[s]] = Decrement(@)]
        /\ by_ip' = [by_ip EXCEPT ![IpOf[s]] = Decrement(@)]
    BY <1>3 DEF release_limits
  <2>2. /\ ~r.pending_activation /\ ~r.limits_reserved
        /\ r.finished = inner[s].finished
        /\ r.ticket_consumed = inner[s].ticket_consumed
        /\ r.assigned_worker = inner[s].assigned_worker
    BY Types DEF SessionInner
  <2> HIDE DEF r
  <2>3. inner'[s] = r /\ \A x \in Sessions \ {s} : inner'[x] = inner[x]
    BY <2>1, Types
  <2>4. \A x \in Sessions : InHand(x)' <=> InHand(x)  BY <1>1 DEF InHand
  <2>5. /\ \A x \in Sessions \ {s} : Pending(x)' <=> Pending(x)
        /\ IF inner[s].pending_activation THEN Pending(s) /\ ~Pending(s)'
                                          ELSE Pending(s)' <=> Pending(s)
    BY <1>1, <2>2, <2>3 DEF Pending, LimitsInv, TicketInv
  <2>6. TicketInv'
    BY <1>1, <2>2, <2>3, <2>4, <2>5, Zenon DEF LimitsInv, TicketInv, Queued
  <2>7. /\ \A v \in Visitors : by_visitor[v] = Cardinality(ReservedOf(VisitorOf, v))
        /\ \A i \in Ips : by_ip[i] = Cardinality(ReservedOf(IpOf, i))
        /\ pending_activations = Cardinality(Awaiting)
    BY LimitsSets DEF LimitsInv
  <2>8. /\ by_visitor \in [Visitors -> Nat] /\ by_ip \in [Ips -> Nat]
        /\ pending_activations \in Nat
    BY Types
  <2>9. pending_activations' = Cardinality(Awaiting)' /\ pending_activations' <= pending_activations
    <3>1. CASE inner[s].pending_activation
      BY <2>1, <2>5, <2>7, <2>8, <3>1, AwaitingRemoved
    <3>2. CASE ~inner[s].pending_activation
      <4>1. Awaiting' = Awaiting  BY <2>5, <3>2 DEF Awaiting
      <4> QED BY <2>1, <2>7, <2>8, <3>2, <4>1
    <3> QED BY <3>1, <3>2
  <2>10. LimitsExact'
    <3>1. \A f, g : Cardinality(ReservedOf(f, g))' =
              IF f[s] = g THEN Decrement(Cardinality(ReservedOf(f, g)))
                          ELSE Cardinality(ReservedOf(f, g))
      BY <1>3, <2>2, <2>3, GroupRemoved
    <3>2. \A v \in Visitors : by_visitor'[v] = Cardinality(ReservedOf(VisitorOf, v))'
      BY <2>1, <2>7, <2>8, <3>1
    <3>3. \A i \in Ips : by_ip'[i] = Cardinality(ReservedOf(IpOf, i))'
      BY <2>1, <2>7, <2>8, <3>1
    <3> QED BY <2>9, <3>2, <3>3, NextSets
  <2>11. BoundInv'
    <3>0. {VisitorConcurrency, IpConcurrency, QueueCapacity} \subseteq Nat
      BY ConstantsAssumption
    <3>1. \A v \in Visitors : by_visitor'[v] <= VisitorConcurrency
      BY <2>1, <2>8, <3>0 DEF LimitsInv, BoundInv, Decrement
    <3>2. \A i \in Ips : by_ip'[i] <= IpConcurrency
      BY <2>1, <2>8, <3>0 DEF LimitsInv, BoundInv, Decrement
    <3>3. Cardinality(Busy)' <= GlobalConcurrency
      BY <1>1 DEF LimitsInv, BoundInv, Busy
    <3>4. QueueBound'
      <4>1. Held' = Held  BY <2>4 DEF Held
      <4>2. Cardinality(Held) \in Nat /\ Len(queue) \in Nat /\ pending_activations' \in Nat
        BY Finite, Types, NextSets
      <4>3. Len(queue) + pending_activations + Cardinality(Held) <= QueueCapacity + 1
        BY QueueSets DEF LimitsInv, BoundInv
      <4>4. Len(queue') + pending_activations' + Cardinality(Held)' <= QueueCapacity + 1
        BY <1>1, <2>8, <2>9, <3>0, <4>1, <4>2, <4>3
      <4> QED BY <4>4, NextSets
    <3> QED BY <3>1, <3>2, <3>3, <3>4 DEF BoundInv
  <2> QED BY <2>6, <2>10, <2>11 DEF LimitsInv
<1> QED BY <1>2, <1>3

\* activate_session hands the place reserved in the queue to the coming enqueue.
LEMMA ActivateLimits ==
    ASSUME TypeOK, TypeOK', LimitsInv, NEW s \in Sessions, activate_session(s)
    PROVE  LimitsInv'
<1> DEFINE r == [inner[s] EXCEPT !.pending_activation = FALSE, !.socket_connected = TRUE]
<1>0. s \in Threads /\ s # Dispatcher /\ "closed" \in Resume
  BY ThreadKinds, ConstantsAssumption DEF Resume
<1>1. pc[s] = "upgrade" /\ UNCHANGED <<queue, workers, limits>>
  BY DEF activate_session
<1>2. CASE ~MayActivate(s)
  <2>1. Cancel(s, s, "cancelled", "closed") /\ UNCHANGED inner
    BY <1>2 DEF activate_session
  <2> QED BY <1>0, <1>1, <2>1, CancelLimits
<1>3. CASE MayActivate(s)
  <2>1. inner' = [inner EXCEPT ![s] = r] /\ Goto(s, "activate") /\ UNCHANGED frame
    BY <1>3 DEF activate_session
  <2>2. /\ ~r.pending_activation /\ r.limits_reserved = inner[s].limits_reserved
        /\ r.finished = inner[s].finished
        /\ r.ticket_consumed = inner[s].ticket_consumed
        /\ r.assigned_worker = inner[s].assigned_worker
    BY Types DEF SessionInner
  <2> HIDE DEF r
  <2>3. inner'[s] = r /\ \A x \in Sessions \ {s} : inner'[x] = inner[x]
    BY <2>1, Types
  <2>4. /\ pc'[s] = "activate" /\ pc'[Dispatcher] = pc[Dispatcher]
        /\ \A x \in Sessions \ {s} : pc'[x] = pc[x]
    BY <1>0, <2>1, ThreadKinds, Types DEF Goto
  <2>5. \A x \in Sessions : InHand(x)' <=> InHand(x)  BY <2>1, <2>4 DEF InHand
  <2>6. \A x \in Sessions : Pending(x)' <=> Pending(x)
    BY <1>3, <2>3, <2>4 DEF Pending, MayActivate
  <2>7. TicketInv'
    BY <1>1, <1>3, <2>2, <2>3, <2>4, <2>5, <2>6, Zenon
    DEF LimitsInv, TicketInv, Queued, MayActivate
  <2>8. UNCHANGED <<by_visitor, by_ip, pending_activations>>  BY <1>1 DEF limits
  <2>9. LimitsExact'
    <3>1. \A f, g : ReservedOf(f, g)' = ReservedOf(f, g)  BY <2>2, <2>3 DEF ReservedOf
    <3>2. Awaiting' = Awaiting  BY <2>6 DEF Awaiting
    <3> QED BY <2>8, <3>1, <3>2, LimitsSets, NextSets DEF LimitsInv
  <2>10. BoundInv'
    <3>1. Held' = Held /\ Busy' = Busy  BY <1>1, <2>5 DEF Held, Busy
    <3>2. QueueBound'  BY <1>1, <2>8, <3>1, QueueSets, NextSets DEF LimitsInv, BoundInv
    <3> QED BY <2>8, <3>1, <3>2 DEF LimitsInv, BoundInv
  <2> QED BY <2>7, <2>9, <2>10 DEF LimitsInv
<1> QED BY <1>2, <1>3

LEMMA EnqueueLimits ==
    ASSUME TypeOK, TypeOK', AssignmentInv, LimitsInv, NEW s \in Sessions,
           enqueue_session(s)
    PROVE  LimitsInv'
<1>0. s \in Threads /\ s # Dispatcher  BY ThreadKinds, ConstantsAssumption
<1>1. /\ pc[s] = "activate" /\ queue' = Append(queue, s)
      /\ pending_activations' = Decrement(pending_activations)
      /\ UNCHANGED <<inner, by_visitor, by_ip, workers>>
  BY DEF enqueue_session
<1>2. Moved(s, "notify")  BY <1>0, CallMoved DEF enqueue_session
<1>3. /\ pc'[s] = "notify" /\ pc'[Dispatcher] = pc[Dispatcher]
      /\ frame'[Dispatcher] = frame[Dispatcher]
      /\ \A x \in Sessions \ {s} : pc'[x] = pc[x]
  BY <1>0, <1>2, ThreadKinds, Types DEF Moved
<1>4. \A x \in Sessions : InHand(x)' <=> InHand(x)  BY <1>3 DEF InHand
<1>5. /\ Pending(s) /\ ~Pending(s)'
      /\ \A x \in Sessions \ {s} : Pending(x)' <=> Pending(x)
  BY <1>1, <1>3 DEF Pending, LimitsInv, TicketInv
<1>6. \A x \in Sessions : Queued(x)' => Queued(x) \/ x = s
  <2>1. queue \in Seq(Sessions) /\ IsInjective(queue) /\ s \notin Range(queue)
    BY <1>1, Types DEF AssignmentInv, QueuedOnce, Queued, Early
  <2>2. Range(queue') = Range(queue) \cup {s}  BY <1>1, <2>1, AppendRange
  <2> QED BY <2>2 DEF Queued
<1>7. TicketInv'
  BY <1>1, <1>3, <1>4, <1>5, <1>6 DEF LimitsInv, TicketInv
<1>8. /\ \A v \in Visitors : by_visitor[v] = Cardinality(ReservedOf(VisitorOf, v))
      /\ \A i \in Ips : by_ip[i] = Cardinality(ReservedOf(IpOf, i))
      /\ pending_activations = Cardinality(Awaiting)
  BY LimitsSets DEF LimitsInv
<1>9. /\ pending_activations' = Cardinality(Awaiting)'
      /\ pending_activations' = pending_activations - 1
  BY <1>1, <1>5, <1>8, AwaitingRemoved
<1>10. LimitsExact'
  <2>1. \A f, g : ReservedOf(f, g)' = ReservedOf(f, g)  BY <1>1 DEF ReservedOf
  <2> QED BY <1>1, <1>8, <1>9, <2>1, NextSets
<1>11. BoundInv'
  <2>1. Held' = Held /\ Busy' = Busy  BY <1>1, <1>4 DEF Held, Busy
  <2>2. QueueBound'
    <3>0. queue \in Seq(Sessions) /\ Len(queue) \in Nat /\ pending_activations \in Nat
      BY Types
    <3>1. Len(queue') = Len(queue) + 1 /\ QueueCapacity \in Nat
      BY <1>1, <3>0, ConstantsAssumption
    <3>2. Cardinality(Held) \in Nat  BY Finite
    <3>3. Len(queue) + pending_activations + Cardinality(Held) <= QueueCapacity + 1
      BY QueueSets DEF LimitsInv, BoundInv
    <3>4. Len(queue') + pending_activations' + Cardinality(Held)' <= QueueCapacity + 1
      BY <1>9, <2>1, <3>0, <3>1, <3>2, <3>3
    <3> QED BY <3>4, NextSets
  <2> QED BY <1>1, <2>1, <2>2 DEF LimitsInv, BoundInv
<1> QED BY <1>7, <1>10, <1>11 DEF LimitsInv

-----------------------------------------------------------------------------
(* The other steps *)

LEMMA CompleteSessionLimits ==
    ASSUME TypeOK, TypeOK', LimitsInv, NEW t \in Threads, complete_session(t)
    PROVE  LimitsInv'
<1> DEFINE s == frame[t].session
           r == [inner[s] EXCEPT !.phase = frame[t].phase, !.finished = TRUE,
                                 !.assigned_worker = NONE]
<1>1. s \in Sessions /\ pc[t] = "complete" /\ UNCHANGED <<queue, limits, workers>>
  BY DEF TypeOK, TasksOK, LocalsOK, complete_session
<1>2. CASE inner[s].finished
  BY <1>1, <1>2, CompletedMoved, LateLimits DEF complete_session
<1>3. CASE ~inner[s].finished
  <2>1. inner' = [inner EXCEPT ![s] = r] /\ Goto(t, "await") /\ UNCHANGED frame
    BY <1>3 DEF complete_session
  <2>2. /\ r.finished /\ r.assigned_worker = NONE
        /\ r.ticket_consumed = inner[s].ticket_consumed
        /\ r.pending_activation = inner[s].pending_activation
        /\ r.limits_reserved = inner[s].limits_reserved
    BY <1>1, Types DEF SessionInner
  <2> HIDE DEF r
  <2>3. SameFlags  BY <1>1, <2>1, <2>2, InnerUpdateFlags, Zenon
  <2>4. \A x \in Sessions :
            inner'[x].assigned_worker # NONE => inner[x].assigned_worker # NONE
    BY <1>1, <2>1, <2>2, Types
  <2>5. Calm
    BY <1>1, <2>1, GotoMoved, MovedCalm DEF Hand
  <2>6. Busy' \subseteq Busy /\ Len(queue) \in Nat  BY <1>1, Types DEF Busy
  <2> QED BY <1>1, <2>3, <2>4, <2>5, <2>6, CalmStep
<1> QED BY <1>2, <1>3

\* A step that takes no job but may let a worker go.
LEMMA WorkerFreed ==
    ASSUME TypeOK, TypeOK', LimitsInv, Calm, UNCHANGED <<inner, queue, limits>>,
           \A w \in Workers :
               workers'[w].current_job # NONE => workers[w].current_job # NONE
    PROVE  LimitsInv'
<1>1. SameFlags /\ Busy' \subseteq Busy  BY DEF SameFlags, Busy
<1>2. Len(queue) \in Nat  BY Types
<1> QED BY <1>1, <1>2, CalmStep

LEMMA FreeWorkerLimits ==
    ASSUME TypeOK, TypeOK', LimitsInv, NEW s \in Sessions, free_worker(s)
    PROVE  LimitsInv'
<1> DEFINE w == completion[s].worker
           h == [workers[w] EXCEPT !.current_job = NONE, !.recently_completed_job = s]
<1>1. /\ UNCHANGED <<inner, queue, limits, pc, frame>>
      /\ \/ w # NONE /\ workers' = [workers EXCEPT ![w] = h]
         \/ UNCHANGED workers
  BY DEF free_worker, tasks
<1>2. \A x \in Workers : workers'[x].current_job # NONE => workers[x].current_job # NONE
  <2>1. CASE w # NONE /\ workers' = [workers EXCEPT ![w] = h]
    <3>1. w \in Workers  BY <2>1, Types DEF Completion
    <3>2. h.current_job = NONE  BY <3>1, Types DEF WorkerHandle
    <3> HIDE DEF h
    <3> QED BY <2>1, <3>1, <3>2, Types
  <2>2. CASE UNCHANGED workers  BY <2>2
  <2> QED BY <1>1, <2>1, <2>2
<1> QED BY <1>1, <1>2, IdleCalm, WorkerFreed

LEMMA UnregisterLimits ==
    ASSUME TypeOK, TypeOK', LimitsInv, NEW t \in Threads, unregister_worker(t)
    PROVE  LimitsInv'
<1> DEFINE w == frame[t].worker
<1>0. {"notify", "complete"} \subseteq Label \ (Early \cup Hand)
  BY DEF Label, Early, Hand
<1>1. w \in Workers /\ pc[t] = "unregister" /\ UNCHANGED <<inner, queue, limits>>
  BY DEF TypeOK, TasksOK, LocalsOK, unregister_worker
<1>2. CASE ~Registered(w, frame[t].conn)
  BY <1>1, <1>2, ReturnMoved, LateLimits, Zenon DEF unregister_worker
<1>3. CASE Registered(w, frame[t].conn)
  <2>1. workers' = [workers EXCEPT ![w] = NoHandle]  BY <1>3 DEF unregister_worker
  <2>2. \A x \in Workers : workers'[x].current_job # NONE => workers[x].current_job # NONE
    BY <1>1, <2>1, Types DEF NoHandle
  <2>3. Calm
    BY <1>0, <1>1, <1>3, GotoMoved, CallMoved, LateCalm
    DEF unregister_worker, fail_job, LateMove
  <2> QED BY <1>1, <2>2, <2>3, WorkerFreed
<1> QED BY <1>2, <1>3

LEMMA SubroutineLimits ==
    ASSUME TypeOK, TypeOK', AssignmentInv, LimitsInv, NEW t \in Threads, Subroutine(t)
    PROVE  LimitsInv'
<1>0. {"complete", "sender", "unregister"} \subseteq Label \ (Early \cup Hand)
  BY DEF Label, Early, Hand
<1>1. CASE complete_session(t)   BY <1>1, CompleteSessionLimits
<1>2. CASE remove_session(t)     BY <1>2, CompletedMoved, LateLimits DEF remove_session
<1>3. CASE unregister_worker(t)  BY <1>3, UnregisterLimits
<1>4. CASE notify_one(t)         BY <1>4, ReturnMoved, LateLimits, Zenon DEF notify_one
<1>5. CASE retain_queue(t)
  <2>1. Range(queue') \subseteq Range(queue) /\ Len(queue') <= Len(queue)
    <3>1. queue \in Seq(Sessions) /\ IsInjective(queue)
      BY Types DEF AssignmentInv, QueuedOnce
    <3>2. queue' = Without(queue, frame[t].session)  BY <1>5 DEF retain_queue
    <3> QED BY <3>1, <3>2, WithoutRange
  <2>2. Calm
    BY <1>0, <1>5, GotoMoved, LateCalm DEF retain_queue, LateMove
  <2>3. SameFlags /\ Busy' \subseteq Busy /\ UNCHANGED <<inner, limits>>
    BY <1>5 DEF SameFlags, Busy, retain_queue
  <2> QED BY <2>1, <2>2, <2>3, CalmStep
<1>6. CASE send_command(t)
  <2>1. LateMove(t)
    BY <1>0, <1>6, ReturnMoved, CallMoved, Zenon DEF send_command, LateMove
  <2> QED BY <1>6, <2>1, LateLimits DEF send_command
<1>7. CASE lookup_and_send(t)
  <2> DEFINE f == [frame[t] EXCEPT !.conn = workers[frame[t].worker].connection_id]
  <2>0. \/ Return(t, FALSE) \/ Call(t, "unregister", f) \/ Return(t, TRUE)
    BY <1>7, Zenon DEF lookup_and_send
  <2>1. LateMove(t)
    BY <1>0, <2>0, ReturnMoved, CallMoved, Zenon DEF LateMove
  <2> QED BY <1>7, <2>1, LateLimits DEF lookup_and_send
<1> QED BY <1>1, <1>2, <1>3, <1>4, <1>5, <1>6, <1>7 DEF Subroutine

LEMMA BrowserLimits ==
    ASSUME TypeOK, TypeOK', LimitsInv, NEW s \in Sessions, Browser(s)
    PROVE  LimitsInv'
<1>0. /\ {"open", "closed", "disconnected", "limited"} \subseteq Resume
      /\ "send" \in Label \ (Early \cup Hand) /\ s \in Threads
  BY ThreadKinds DEF Resume, Label, Early, Hand
<1>1. CASE create_execution(s)
  BY <1>1, IdleCalm, SameLimits DEF create_execution, tasks, SameHandles
<1>2. CASE consume_ticket(s)  BY <1>2, ConsumeTicketLimits
<1>3. ASSUME NEW command, Forward(s, command) PROVE LimitsInv'
  <2>1. LateMove(s)
    BY <1>0, <1>3, CallMoved DEF Forward, LateMove
  <2> QED BY <1>0, <1>3, <2>1, LateLimits DEF Forward
<1>4. CASE send_stdin(s) \/ resize(s)
  BY <1>3, <1>4 DEF send_stdin, resize
<1>5. CASE terminate(s) \/ lagged(s)
  BY <1>0, <1>5, CancelLimits DEF terminate, lagged, client_cancel
<1>6. CASE rate_exceeded(s)
  BY <1>0, <1>6, CancelLimits DEF rate_exceeded
<1>7. CASE hello_failed(s)
  BY <1>0, <1>7, CancelLimits DEF hello_failed
<1> QED BY <1>1, <1>2, <1>4, <1>5, <1>6, <1>7 DEF Browser

LEMMA WebSocketTaskLimits ==
    ASSUME TypeOK, TypeOK', AssignmentInv, LimitsInv, NEW s \in Sessions,
           WebSocketTask(s)
    PROVE  LimitsInv'
<1>0. "closed" \in Resume /\ s \in Threads  BY ThreadKinds DEF Resume
<1>1. CASE websocket_disconnected(s)
  BY <1>0, <1>1, CancelLimits DEF websocket_disconnected
<1> QED BY <1>1, ActivateLimits, EnqueueLimits DEF WebSocketTask

LEMMA WorkerMessageLimits ==
    ASSUME TypeOK, TypeOK', LimitsInv, NEW c \in Conns, WorkerMessage(c)
    PROVE  LimitsInv'
<1>0. {"apply", "notify"} \subseteq Label \ (Early \cup Hand) /\ c \in Threads
  BY ThreadKinds DEF Label, Early, Hand
<1>1. ASSUME NEW w \in Workers, register_worker(w, c) PROVE LimitsInv'
  <2>1. /\ UNCHANGED <<inner, queue, limits>> /\ pc[c] = "idle"
        /\ workers' = [workers EXCEPT ![w] = [NoHandle EXCEPT !.connection_id = c]]
    BY <1>1 DEF register_worker
  <2>2. \A x \in Workers : workers'[x].current_job # NONE => workers[x].current_job # NONE
    BY <2>1, Types DEF NoHandle
  <2>3. Calm
    BY <1>0, <1>1, <2>1, CallMoved, LateCalm DEF register_worker, LateMove
  <2> QED BY <2>1, <2>2, <2>3, WorkerFreed
<1>2. CASE stream_ended(c)
  BY <1>2, BreakLimits DEF stream_ended
<1>3. ASSUME NEW j, heartbeat(c, j) PROVE LimitsInv'
  <2>1. CASE workers' = [workers EXCEPT ![worker_of[c]].stale = FALSE]
             /\ UNCHANGED tasks
    BY <1>3, <2>1, StaleSame, IdleCalm, SameLimits, Zenon DEF heartbeat, tasks
  <2>2. CASE BreakStream(c) /\ UNCHANGED workers
    BY <1>3, <2>2, BreakLimits DEF heartbeat
  <2> QED BY <1>3, <2>1, <2>2 DEF heartbeat
<1>4. ASSUME NEW j, refuse_worker_event(c, j) PROVE LimitsInv'
  BY <1>4, BreakLimits DEF refuse_worker_event
<1>5. ASSUME NEW j, NEW payload, NEW phase, handle_worker_event(c, j, payload, phase)
      PROVE  LimitsInv'
  <2>1. Calm
    BY <1>0, <1>5, CallMoved, LateCalm DEF handle_worker_event, LateMove
  <2> QED BY <1>5, <2>1, StaleSame, SameLimits, Zenon DEF handle_worker_event
<1> QED BY <1>1, <1>2, <1>3, <1>4, <1>5 DEF WorkerMessage

LEMMA StreamTaskLimits ==
    ASSUME TypeOK, TypeOK', LimitsInv, NEW c \in Conns, StreamTask(c)
    PROVE  LimitsInv'
<1>0. "complete" \in Label \ (Early \cup Hand) /\ c \in Threads /\ "open" \in Resume
  BY ThreadKinds DEF Label, Early, Hand, Resume
<1>1. CASE apply_phase(c)
  <2> DEFINE s == frame[c].session
             r == [inner[s] EXCEPT !.phase = frame[c].phase]
  <2>1. s \in Sessions /\ pc[c] = "apply" /\ UNCHANGED <<queue, limits, workers>>
    BY <1>0, <1>1 DEF TypeOK, TasksOK, LocalsOK, apply_phase
  <2>2. \/ Return(c, TRUE) /\ UNCHANGED inner
        \/ BreakStream(c) /\ UNCHANGED inner
        \/ inner' = [inner EXCEPT ![s] = r] /\ Return(c, TRUE)
    BY <1>1, Zenon DEF apply_phase
  <2>3. CASE Return(c, TRUE) /\ UNCHANGED inner
    BY <1>0, <2>1, <2>3, ReturnMoved, LateLimits, Zenon
  <2>4. CASE BreakStream(c) /\ UNCHANGED inner
    BY <2>1, <2>4, BreakLimits
  <2>5. CASE inner' = [inner EXCEPT ![s] = r] /\ Return(c, TRUE)
    <3>1. /\ r.finished = inner[s].finished /\ r.assigned_worker = inner[s].assigned_worker
          /\ r.ticket_consumed = inner[s].ticket_consumed
          /\ r.pending_activation = inner[s].pending_activation
          /\ r.limits_reserved = inner[s].limits_reserved
      BY <2>1, Types DEF SessionInner
    <3> HIDE DEF r
    <3>2. SameFlags  BY <2>1, <2>5, <3>1, InnerUpdateFlags, Zenon
    <3>3. \A x \in Sessions :
              inner'[x].assigned_worker # NONE => inner[x].assigned_worker # NONE
      BY <2>1, <2>5, <3>1, Types
    <3>4. Calm  BY <1>0, <2>1, <2>5, ReturnMoved, LateCalm, Zenon
    <3>5. Busy' \subseteq Busy /\ Len(queue) \in Nat  BY <2>1, Types DEF Busy
    <3> QED BY <2>1, <3>2, <3>3, <3>4, <3>5, CalmStep
  <2> QED BY <2>2, <2>3, <2>4, <2>5, Zenon
<1>2. CASE apply_output(c)
  <2>1. frame[c].session \in Sessions /\ pc[c] = "apply"
    BY <1>0, <1>2 DEF TypeOK, TasksOK, LocalsOK, apply_output
  <2>2. LateMove(c)
    BY <1>0, <1>2, <2>1, ReturnMoved, CancelMoved, Zenon DEF apply_output
  <2> QED BY <1>0, <1>2, <2>1, <2>2, LateLimits DEF apply_output
<1>3. CASE apply_exit(c)
  <2>1. LateMove(c)
    BY <1>0, <1>3, GotoMoved DEF apply_exit, LateMove
  <2> QED BY <1>0, <1>3, <2>1, LateLimits DEF apply_exit
<1> QED BY <1>1, <1>2, <1>3 DEF StreamTask

LEMMA PopFrontLimits ==
    ASSUME TypeOK, TypeOK', AssignmentInv, LimitsInv, pop_front
    PROVE  LimitsInv'
<1>0. /\ Dispatcher \in Threads /\ pc[Dispatcher] = "loop"
      /\ UNCHANGED <<inner, limits, workers>>
  BY ThreadKinds DEF pop_front
<1>1. CASE Goto(Dispatcher, "idle") /\ UNCHANGED <<queue, frame>>
  <2>1. Moved(Dispatcher, "idle")  BY <1>0, <1>1, GotoMoved
  <2>2. Calm  BY <1>0, <2>1, MovedCalm DEF Hand
  <2> QED BY <1>0, <1>1, <2>2, SameLimits DEF SameHandles
<1>2. CASE /\ queue # <<>> /\ queue' = Tail(queue)
           /\ Call(Dispatcher, "assign", [NoFrame EXCEPT !.session = Head(queue),
                                                         !.next = "loop"])
  <2>1. /\ Head(queue) \in Sessions /\ Queued(Head(queue))
        /\ Range(queue') \subseteq Range(queue)
    <3>1. queue \in Seq(Sessions) /\ IsInjective(queue)
      BY Types DEF AssignmentInv, QueuedOnce
    <3> QED BY <1>2, <3>1, TailRange DEF Queued
  <2>2. /\ pc'[Dispatcher] = "assign" /\ frame'[Dispatcher].session = Head(queue)
        /\ \A u \in Threads \ {Dispatcher} : pc'[u] = pc[u]
    BY <1>0, <1>2, Types DEF Call, Goto, NoFrame
  <2>3. \A s \in Sessions : pc'[s] = pc[s]
    BY <2>2, ThreadKinds, ConstantsAssumption
  <2>4. \A s \in Sessions : InHand(s)' => s = Head(queue)  BY <2>2 DEF InHand
  <2>5. \A s \in Sessions : Queued(s)' \/ InHand(s)' \/ inner'[s].assigned_worker # NONE =>
            Queued(s) \/ InHand(s) \/ inner[s].assigned_worker # NONE
    BY <1>0, <2>1, <2>4 DEF Queued
  <2>6. Len(queue') + Cardinality(Held)' <= Len(queue) + Cardinality(Held)
    <3>1. Cardinality(Held) = 0  BY <1>0, OneHeld DEF Hand
    <3>2. Cardinality(Held)' = 1  BY <2>2, NextSets DEF Hand
    <3>3. Len(queue') = Len(queue) - 1 /\ Len(queue) \in Nat
      BY <1>2, Types
    <3> QED BY <3>1, <3>2, <3>3
  <2>7. SameFlags /\ Cardinality(Busy)' <= GlobalConcurrency
    BY <1>0 DEF SameFlags, Busy, LimitsInv, BoundInv
  <2> QED BY <1>0, <2>3, <2>5, <2>6, <2>7, MovingStep
<1> QED BY <1>1, <1>2 DEF pop_front

\* The one step that makes a worker busy is guarded by the global limit.
LEMMA AssignJobLimits ==
    ASSUME TypeOK, TypeOK', LimitsInv, try_dispatch_one, NEW w \in Workers, assign_job(w)
    PROVE  LimitsInv'
<1> DEFINE s == frame[Dispatcher].session
           c == workers[w].connection_id
<1>0. /\ Dispatcher \in Threads /\ pc[Dispatcher] = "assign" /\ s \in Sessions
      /\ InHand(s) /\ \A x \in Sessions : x \in Threads \ {Dispatcher}
  BY ThreadKinds, ConstantsAssumption
  DEF try_dispatch_one, TypeOK, TasksOK, LocalsOK, InHand
<1>1. UNCHANGED <<queue, limits>>  BY DEF try_dispatch_one
<1>2. CASE c \in closed \/ Full(c)
  <2> DEFINE f == [frame[Dispatcher] EXCEPT !.worker = w, !.conn = c]
  <2>1. Call(Dispatcher, "push_front", f) /\ UNCHANGED <<inner, workers>>
    BY <1>2, Zenon DEF assign_job
  <2>2. f.session = s /\ frame'[Dispatcher] = f
    BY <1>0, <2>1, Types DEF Call, Frame
  <2> HIDE DEF f
  <2>3. \A u \in Threads \ {Dispatcher} : pc'[u] = pc[u]
    BY <2>1, Types DEF Call, Goto
  <2>4. Calm  BY <1>0, <2>2, <2>3 DEF Calm, InHand
  <2> QED BY <1>1, <2>1, <2>4, SameLimits DEF SameHandles
<1>3. CASE ~(c \in closed \/ Full(c))
  <2>1. /\ workers' = [workers EXCEPT ![w].current_job = s]
        /\ inner' = [inner EXCEPT ![s].assigned_worker = w]
        /\ Return(Dispatcher, TRUE) /\ HasRoom
    BY <1>3, Zenon DEF assign_job
  <2>2. Calm  BY <1>0, <2>1, ReturnMoved, LateCalm, Zenon
  <2>3. SameFlags /\ \A x \in Sessions \ {s} : inner'[x] = inner[x]
    <3> DEFINE r == [inner[s] EXCEPT !.assigned_worker = w]
    <3>1. inner' = [inner EXCEPT ![s] = r]  BY <2>1
    <3>2. /\ r.finished = inner[s].finished
          /\ r.ticket_consumed = inner[s].ticket_consumed
          /\ r.pending_activation = inner[s].pending_activation
          /\ r.limits_reserved = inner[s].limits_reserved
      BY <1>0, Types DEF SessionInner
    <3> HIDE DEF r
    <3>3. SameFlags  BY <1>0, <3>1, <3>2, InnerUpdateFlags, Zenon
    <3> QED BY <1>0, <3>1, <3>3, Types
  <2>4. \A x \in Sessions : Queued(x)' \/ InHand(x)' \/ inner'[x].assigned_worker # NONE =>
            Queued(x) \/ InHand(x) \/ inner[x].assigned_worker # NONE
    BY <1>0, <1>1, <2>2, <2>3 DEF Calm, Queued
  <2>5. Len(queue') + Cardinality(Held)' <= Len(queue) + Cardinality(Held)
    <3>1. Held' \subseteq Held  BY <2>2 DEF Held, Calm
    <3>2. Cardinality(Held)' <= Cardinality(Held)  BY <3>1, Finite, FS_Subset
    <3>3. Len(queue) \in Nat  BY Types
    <3>4. Cardinality(Held) \in Nat /\ Cardinality(Held)' \in Nat  BY Finite, NextSets
    <3> QED BY <1>1, <3>2, <3>3, <3>4
  <2>6. Cardinality(Busy)' <= GlobalConcurrency
    <3>1. Busy' \subseteq Busy \cup {w}  BY <2>1, Types DEF Busy
    <3>2. /\ IsFiniteSet(Busy \cup {w})
          /\ Cardinality(Busy \cup {w}) <= Cardinality(Busy) + 1
          /\ Cardinality(Busy \cup {w}) \in Nat
      <4>1. IsFiniteSet(Busy) /\ Cardinality(Busy) \in Nat  BY Finite
      <4>2. /\ IsFiniteSet(Busy \cup {w})
            /\ Cardinality(Busy \cup {w}) =
                   IF w \in Busy THEN Cardinality(Busy) ELSE Cardinality(Busy) + 1
        BY <4>1, FS_AddElement
      <4> QED BY <4>1, <4>2
    <3>3. Cardinality(Busy)' <= Cardinality(Busy \cup {w})  BY <3>1, <3>2, FS_Subset
    <3>4. Cardinality(Busy) < GlobalConcurrency  BY <2>1 DEF HasRoom
    <3>5. Cardinality(Busy) \in Nat /\ Cardinality(Busy)' \in Nat  BY Finite, NextSets
    <3>6. GlobalConcurrency \in Nat  BY ConstantsAssumption
    <3> QED BY <3>2, <3>3, <3>4, <3>5, <3>6
  <2>7. \A x \in Sessions : pc'[x] = "activate" <=> pc[x] = "activate"
    BY <2>2 DEF Calm
  <2> QED BY <1>1, <2>3, <2>4, <2>5, <2>6, <2>7, MovingStep
<1> QED BY <1>2, <1>3

LEMMA DispatcherLimits ==
    ASSUME TypeOK, TypeOK', AssignmentInv, LimitsInv, run_dispatcher
    PROVE  LimitsInv'
<1> DEFINE s == frame[Dispatcher].session
<1>0. /\ Dispatcher \in Threads /\ \A x \in Sessions : x \in Threads \ {Dispatcher}
      /\ "loop" \in Label \ (Early \cup Hand)
  BY ThreadKinds, ConstantsAssumption DEF Label, Early, Hand
<1>1. CASE notified
  BY <1>0, <1>1, GotoMoved, LateLimits DEF notified, LateMove
<1>2. CASE pop_front  BY <1>2, PopFrontLimits
<1>3. CASE try_dispatch_one
  <2>0. pc[Dispatcher] = "assign" /\ UNCHANGED <<limits, queue>>
    BY <1>3 DEF try_dispatch_one
  <2>1. CASE Return(Dispatcher, TRUE) /\ UNCHANGED <<inner, workers>>
    BY <1>0, <2>0, <2>1, ReturnMoved, LateLimits, Zenon
  <2>2. CASE Goto(Dispatcher, "push_front") /\ UNCHANGED <<inner, workers, frame>>
    <3>1. \A u \in Threads \ {Dispatcher} : pc'[u] = pc[u]
      BY <2>2, Types DEF Goto
    <3>2. Calm  BY <1>0, <2>0, <2>2, <3>1 DEF Calm, InHand
    <3> QED BY <2>0, <2>2, <3>2, SameLimits DEF SameHandles
  <2>3. CASE \E w \in Workers : assign_job(w)
    BY <1>3, <2>3, AssignJobLimits
  <2> QED BY <1>3, <2>1, <2>2, <2>3, Zenon DEF try_dispatch_one
<1>4. CASE push_front
  <2>1. /\ pc[Dispatcher] = "push_front" /\ s \in Sessions /\ InHand(s)
        /\ queue' = PushFront(s, queue) /\ UNCHANGED <<inner, limits, workers>>
    BY <1>0, <1>4 DEF push_front, TypeOK, TasksOK, LocalsOK, InHand
  <2>2. queue \in Seq(Sessions) /\ IsInjective(queue) /\ s \notin Range(queue)
    BY <2>1, Types DEF AssignmentInv, QueuedOnce, Queued
  <2>3. Range(queue') = Range(queue) \cup {s}
    <3>1. s \in Sessions /\ queue' = PushFront(s, queue)  BY <2>1
    <3>2. Range(PushFront(s, queue)) = Range(queue) \cup {s}
      BY <2>2, <3>1, PushFrontRange
    <3> QED BY <3>1, <3>2
  <2>4. PICK label \in {"idle", "unregister"} : Moved(Dispatcher, label)
    BY <1>0, <1>4, CallMoved, GotoMoved DEF push_front
  <2>5. Calm  BY <1>0, <2>1, <2>4, MovedCalm DEF Hand
  <2>6. \A x \in Sessions : Queued(x)' \/ InHand(x)' \/ inner'[x].assigned_worker # NONE =>
            Queued(x) \/ InHand(x) \/ inner[x].assigned_worker # NONE
    BY <2>1, <2>3, <2>5 DEF Queued, Calm
  <2>7. Len(queue') + Cardinality(Held)' <= Len(queue) + Cardinality(Held)
    <3>1. Cardinality(Held) = 1  BY <2>1, OneHeld DEF Hand
    <3>2. pc'[Dispatcher] \notin Hand  BY <1>0, <2>4, Types DEF Moved, Hand
    <3>3. Cardinality(Held)' = 0  BY <3>2, NextSets DEF Hand
    <3>4. Len(queue') = Len(queue) + 1 /\ Len(queue) \in Nat
      BY <2>1, <2>2 DEF PushFront
    <3> QED BY <3>1, <3>3, <3>4
  <2>8. SameFlags /\ Cardinality(Busy)' <= GlobalConcurrency
    BY <2>1 DEF SameFlags, Busy, LimitsInv, BoundInv
  <2>9. \A x \in Sessions : pc'[x] = "activate" <=> pc[x] = "activate"
    BY <2>5 DEF Calm
  <2> QED BY <2>1, <2>6, <2>7, <2>8, <2>9, MovingStep
<1> QED BY <1>1, <1>2, <1>3, <1>4 DEF run_dispatcher

LEMMA MaintenanceLimits ==
    ASSUME TypeOK, TypeOK', LimitsInv, maintenance_once
    PROVE  LimitsInv'
<1>0. /\ Maintenance \in Threads /\ Maintenance # Dispatcher
      /\ Maintenance \notin Sessions /\ "expire" \in Resume
  BY ThreadKinds, ConstantsAssumption DEF Resume
<1>1. ASSUME NEW label \in {"idle", "sweep", "unregister", "expire", "cancel"},
             Moved(Maintenance, label), pc[Maintenance] # "activate",
             UNCHANGED <<inner, queue, limits, workers>>
      PROVE  LimitsInv'
  BY <1>0, <1>1, MovedCalm, SameLimits DEF SameHandles
<1>2. CASE collect_stale     BY <1>0, <1>1, <1>2, GotoMoved DEF collect_stale
<1>3. CASE sweep_worker      BY <1>0, <1>1, <1>3, CallMoved DEF sweep_worker
<1>4. CASE collect_sessions  BY <1>0, <1>1, <1>4, GotoMoved DEF collect_sessions
<1>5. ASSUME NEW s \in Sessions, expire_session(s) PROVE LimitsInv'
  <2>1. CASE UNCHANGED tasks
    BY <1>5, <2>1, IdleCalm, SameLimits DEF expire_session, tasks, SameHandles
  <2>2. CASE Call(Maintenance, "cancel", [NoFrame EXCEPT !.session = s])
    BY <1>0, <1>1, <1>5, <2>2, CallMoved DEF expire_session
  <2> QED BY <1>5, <2>1, <2>2 DEF expire_session
<1>6. CASE cancel_expired
  <2>1. frame[Maintenance].session \in Sessions
    BY <1>0, <1>6 DEF TypeOK, TasksOK, LocalsOK, cancel_expired
  <2> QED BY <1>0, <1>6, <2>1, CancelLimits DEF cancel_expired
<1>7. CASE maintenance_done  BY <1>0, <1>1, <1>7, GotoMoved DEF maintenance_done
<1> QED BY <1>2, <1>3, <1>4, <1>5, <1>6, <1>7 DEF maintenance_once

LEMMA WorldLimits ==
    ASSUME TypeOK, TypeOK', LimitsInv, World
    PROVE  LimitsInv'
<1>1. ASSUME NEW w \in Workers, silence(w) PROVE LimitsInv'
  BY <1>1, StaleSame, IdleCalm, SameLimits, Zenon DEF silence, tasks
<1>2. CASE \/ \E s \in Sessions : ticket_expires(s)
           \/ \E c \in Conns : deliver(c) \/ receiver_dropped(c)
  BY <1>2, IdleCalm, SameLimits
  DEF ticket_expires, deliver, receiver_dropped, tasks, SameHandles
<1> QED BY <1>1, <1>2 DEF World

LEMMA InitLimits == Init => LimitsInv
<1> SUFFICES ASSUME Init PROVE LimitsInv
  OBVIOUS
<1>1. \A s \in Sessions :
          /\ ~inner[s].limits_reserved /\ ~inner[s].pending_activation
          /\ ~inner[s].ticket_consumed /\ inner[s].assigned_worker = NONE
          /\ pc[s] = "idle"
  BY ThreadKinds, ConstantsAssumption DEF Init, NewInner
<1>2. \A s \in Sessions : ~Queued(s) /\ ~InHand(s) /\ ~Pending(s)
  <2>1. \A s \in Sessions : ~Queued(s) /\ ~InHand(s)
    <3>1. Range(queue) = {}  BY DEF Init, Range
    <3>2. pc[Dispatcher] = "loop"  BY ThreadKinds, Zenon DEF Init
    <3> QED BY <3>1, <3>2 DEF Queued, InHand
  <2> QED BY <1>1, <2>1 DEF Pending
<1>3. TicketInv  BY <1>1, <1>2 DEF TicketInv
<1>4. /\ \A f, g : ReservedOf(f, g) = {}
      /\ Awaiting = {} /\ Held = {}
  BY <1>1, <1>2 DEF ReservedOf, Awaiting, Held
<1>5. Busy = {}  BY DEF Init, NoHandle, Busy
<1>6. Cardinality({}) = 0  BY FS_EmptySet
<1>7. LimitsExact  BY <1>4, <1>6, LimitsSets, Zenon DEF Init
<1>8. {VisitorConcurrency, IpConcurrency, GlobalConcurrency, QueueCapacity} \subseteq Nat
  BY ConstantsAssumption
<1>9. QueueBound
  <2>1. Len(queue) = 0 /\ pending_activations = 0 /\ Cardinality(Held) = 0
    BY <1>4, <1>6 DEF Init
  <2>2. QueueCapacity \in Nat  BY <1>8
  <2>3. Len(queue) + pending_activations + Cardinality(Held) <= QueueCapacity + 1
    BY <2>1, <2>2
  <2> QED BY <2>3, QueueSets, Zenon
<1>10. /\ \A v \in Visitors : by_visitor[v] = 0
       /\ \A i \in Ips : by_ip[i] = 0
       /\ Cardinality(Busy) = 0
  BY <1>5, <1>6, Zenon DEF Init
<1>11. 0 <= VisitorConcurrency /\ 0 <= IpConcurrency /\ 0 <= GlobalConcurrency  BY <1>8
<1>12. BoundInv  BY <1>9, <1>10, <1>11, Zenon DEF BoundInv
<1> QED BY <1>3, <1>7, <1>12 DEF LimitsInv

LEMMA StepLimits ==
    TypeOK /\ TypeOK' /\ AssignmentInv /\ LimitsInv /\ [Next]_vars => LimitsInv'
<1> SUFFICES ASSUME TypeOK, TypeOK', AssignmentInv, LimitsInv, [Next]_vars
             PROVE  LimitsInv'
  OBVIOUS
<1>1. ASSUME NEW s \in Sessions, Completing(s)     PROVE LimitsInv'
  BY <1>1, ReleaseLimits, FreeWorkerLimits DEF Completing
<1>2. ASSUME NEW s \in Sessions, Browser(s)        PROVE LimitsInv'
  BY <1>2, BrowserLimits
<1>3. ASSUME NEW s \in Sessions, WebSocketTask(s)  PROVE LimitsInv'
  BY <1>3, WebSocketTaskLimits
<1>4. ASSUME NEW t \in Threads, Subroutine(t)      PROVE LimitsInv'
  BY <1>4, SubroutineLimits
<1>5. ASSUME NEW c \in Conns, WorkerMessage(c)     PROVE LimitsInv'
  BY <1>5, WorkerMessageLimits
<1>6. ASSUME NEW c \in Conns, StreamTask(c)        PROVE LimitsInv'
  BY <1>6, StreamTaskLimits
<1>7. CASE run_dispatcher    BY <1>7, DispatcherLimits
<1>8. CASE maintenance_once  BY <1>8, MaintenanceLimits
<1>9. CASE World             BY <1>9, WorldLimits
<1>10. CASE UNCHANGED vars
  BY <1>10, IdleCalm, SameLimits DEF vars, tasks, SameHandles
<1> QED BY <1>1, <1>2, <1>3, <1>4, <1>5, <1>6, <1>7, <1>8, <1>9, <1>10 DEF Next

LEMMA LimitsInductive == Spec => [](TypeOK /\ AssignmentInv /\ LimitsInv)
  BY AssignmentInductive, InitLimits, StepLimits, PTL DEF Spec

-----------------------------------------------------------------------------
(* What follows *)

\* The counters of LimitState are the number of sessions that hold a reservation:
\* no interleaving of cancel_execution, expiry and complete_session makes
\* release_limits leak one or give one back twice.
THEOREM ExactLimits == Spec => []LimitsExact
<1>1. LimitsInv => LimitsExact  BY DEF LimitsInv
<1> QED BY <1>1, LimitsInductive, PTL

\* The executions that run at one time respect the limits of assign_job and
\* consume_ticket: what is assigned to a worker still holds its reservation.
THEOREM LimitedConcurrency == Spec => []ConcurrencyLimits
<1>1. AssignmentInv /\ LimitsInv => ConcurrencyLimits
  <2> SUFFICES ASSUME AssignmentInv, LimitsInv PROVE ConcurrencyLimits
    OBVIOUS
  <2> DEFINE running == {s \in Sessions : inner[s].assigned_worker # NONE}
  <2>1. \A s \in running : inner[s].limits_reserved
    BY DEF AssignmentInv, LimitsInv, TicketInv
  <2>2. \A f, g : Cardinality({s \in running : f[s] = g}) <= Cardinality(ReservedOf(f, g))
    <3> TAKE f, g
    <3>1. {s \in running : f[s] = g} \subseteq ReservedOf(f, g)
      BY <2>1 DEF ReservedOf
    <3> HIDE DEF running
    <3> QED BY <3>1, Finite, FS_Subset
  <2>3. \A f, g : Cardinality({s \in running : f[s] = g}) \in Nat
    <3> TAKE f, g
    <3>1. IsFiniteSet({s \in running : f[s] = g})  BY FS_Subset, ConstantsAssumption
    <3> HIDE DEF running
    <3> QED BY <3>1, FS_CardinalityType
  <2>4. {VisitorConcurrency, IpConcurrency} \subseteq Nat  BY ConstantsAssumption
  <2>5. \A v \in Visitors : Cardinality(ReservedOf(VisitorOf, v)) <= VisitorConcurrency
    BY LimitsSets DEF LimitsInv, BoundInv
  <2>6. \A i \in Ips : Cardinality(ReservedOf(IpOf, i)) <= IpConcurrency
    BY LimitsSets DEF LimitsInv, BoundInv
  <2>0. \A f, g : Cardinality(ReservedOf(f, g)) \in Nat  BY Finite
  <2> HIDE DEF running
  <2>7. \A v \in Visitors : Cardinality({s \in running : VisitorOf[s] = v}) <= VisitorConcurrency
    <3> TAKE v \in Visitors
    <3> DEFINE m == Cardinality({s \in running : VisitorOf[s] = v})
               n == Cardinality(ReservedOf(VisitorOf, v))
    <3>1. m \in Nat /\ n \in Nat /\ m <= n /\ n <= VisitorConcurrency
      BY <2>0, <2>2, <2>3, <2>5, Zenon
    <3> HIDE DEF m, n
    <3>2. m <= VisitorConcurrency  BY <2>4, <3>1
    <3> QED BY <3>2 DEF m
  <2>8. \A i \in Ips : Cardinality({s \in running : IpOf[s] = i}) <= IpConcurrency
    <3> TAKE i \in Ips
    <3> DEFINE m == Cardinality({s \in running : IpOf[s] = i})
               n == Cardinality(ReservedOf(IpOf, i))
    <3>1. m \in Nat /\ n \in Nat /\ m <= n /\ n <= IpConcurrency
      BY <2>0, <2>2, <2>3, <2>6, Zenon
    <3> HIDE DEF m, n
    <3>2. m <= IpConcurrency  BY <2>4, <3>1
    <3> QED BY <3>2 DEF m
  <2> QED BY <2>7, <2>8 DEF ConcurrencyLimits, running, LimitsInv, BoundInv
<1> QED BY <1>1, LimitsInductive, PTL

\* What waits, in the queue, in the dispatcher's hand or with a place reserved by
\* consume_ticket, never exceeds queue_capacity by more than the job in hand.
THEOREM BoundedQueue == Spec => []QueueBound
<1>1. LimitsInv => QueueBound  BY DEF LimitsInv, BoundInv
<1> QED BY <1>1, LimitsInductive, PTL

=============================================================================
