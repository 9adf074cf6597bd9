------------------------ MODULE ExecutorWorkerProofs ------------------------
(* Proofs about a worker and its stream, for any number of jobs and any       *)
(* capacities: the API and the worker agree about the job, up to what is in   *)
(* the channels, through lost connections, full channels and late tasks.      *)
EXTENDS ExecutorWorker, FiniteSetTheorems, TLAPS

-----------------------------------------------------------------------------
(* Messages in a channel.                                                  *)

Is(m, kind, j) == m.kind = kind /\ m.job = j

\* No message of the kind about the job, and one.
NoneOf(q, kind, j) == \A i \in DOMAIN q : ~Is(q[i], kind, j)
OneOf(q, kind, j) ==
    \E i \in DOMAIN q : Is(q[i], kind, j) /\ \A k \in DOMAIN q : Is(q[k], kind, j) => k = i

LEMMA Appended ==
    ASSUME NEW S, NEW q \in Seq(S), NEW m \in S
    PROVE  /\ Append(q, m) \in Seq(S) /\ Len(q) \in Nat
           /\ DOMAIN q = 1..Len(q) /\ DOMAIN Append(q, m) = 1..Len(q) + 1
           /\ Append(q, m)[Len(q) + 1] = m
           /\ \A i \in DOMAIN q : Append(q, m)[i] = q[i]
  OBVIOUS

LEMMA Taken ==
    ASSUME NEW S, NEW q \in Seq(S), q # <<>>
    PROVE  /\ Head(q) \in S /\ Tail(q) \in Seq(S) /\ Len(q) \in Nat
           /\ Head(q) = q[1] /\ 1 \in DOMAIN q /\ DOMAIN q = 1..Len(q)
           /\ \A i \in DOMAIN Tail(q) : i \in Nat /\ i + 1 \in DOMAIN q /\ Tail(q)[i] = q[i + 1]
           /\ \A i \in DOMAIN q : i # 1 => i - 1 \in DOMAIN Tail(q) /\ Tail(q)[i - 1] = q[i]
<1>1. /\ Head(q) \in S /\ Tail(q) \in Seq(S) /\ Len(q) \in Nat /\ Head(q) = q[1]
      /\ 1 \in DOMAIN q /\ DOMAIN q = 1..Len(q) /\ Len(Tail(q)) = Len(q) - 1
  OBVIOUS
<1>2. \A i \in 1..Len(q) - 1 : Tail(q)[i] = q[i + 1]  OBVIOUS
<1>3. DOMAIN Tail(q) = 1..Len(q) - 1  BY <1>1
<1>4. \A i \in DOMAIN Tail(q) : i \in Nat /\ i + 1 \in DOMAIN q /\ Tail(q)[i] = q[i + 1]
  BY <1>1, <1>2, <1>3
<1>5. ASSUME NEW i \in DOMAIN q, i # 1
      PROVE  i - 1 \in DOMAIN Tail(q) /\ Tail(q)[i - 1] = q[i]
  <2>1. i - 1 \in 1..Len(q) - 1 /\ (i - 1) + 1 = i  BY <1>1, <1>5
  <2> QED BY <1>2, <1>3, <2>1
<1> QED BY <1>1, <1>4, <1>5

\* A message at the end of a channel.
LEMMA KindAppended ==
    ASSUME NEW S, NEW q \in Seq(S), NEW m \in S, NEW kind, NEW j
    PROVE  /\ NoneOf(q, kind, j) /\ ~Is(m, kind, j) => NoneOf(Append(q, m), kind, j)
           /\ NoneOf(q, kind, j) /\ Is(m, kind, j) => OneOf(Append(q, m), kind, j)
           /\ OneOf(q, kind, j) /\ ~Is(m, kind, j) => OneOf(Append(q, m), kind, j)
<1> DEFINE r == Append(q, m)  n == Len(q) + 1
<1>1. /\ \A i \in DOMAIN r : i = n \/ i \in DOMAIN q
      /\ \A i \in DOMAIN q : i \in DOMAIN r /\ r[i] = q[i]
      /\ n \in DOMAIN r /\ n \notin DOMAIN q /\ r[n] = m
  BY Appended
<1> HIDE DEF r, n
<1>2. NoneOf(q, kind, j) /\ ~Is(m, kind, j) => NoneOf(r, kind, j)  BY <1>1 DEF NoneOf
<1>3. ASSUME NoneOf(q, kind, j), Is(m, kind, j) PROVE OneOf(r, kind, j)
  <2>1. Is(r[n], kind, j) /\ \A k \in DOMAIN r : Is(r[k], kind, j) => k = n
    BY <1>1, <1>3 DEF NoneOf
  <2> QED BY <1>1, <2>1 DEF OneOf
<1>4. ASSUME OneOf(q, kind, j), ~Is(m, kind, j) PROVE OneOf(r, kind, j)
  <2>1. PICK i \in DOMAIN q :
            Is(q[i], kind, j) /\ \A k \in DOMAIN q : Is(q[k], kind, j) => k = i
    BY <1>4 DEF OneOf
  <2>2. i \in DOMAIN r /\ Is(r[i], kind, j) /\ \A k \in DOMAIN r : Is(r[k], kind, j) => k = i
    BY <1>1, <1>4, <2>1
  <2> QED BY <2>2 DEF OneOf
<1> QED BY <1>2, <1>3, <1>4 DEF r

\* The first message of a channel is taken.
LEMMA KindTaken ==
    ASSUME NEW S, NEW q \in Seq(S), q # <<>>, NEW kind, NEW j
    PROVE  /\ NoneOf(q, kind, j) => NoneOf(Tail(q), kind, j)
           /\ OneOf(q, kind, j) /\ Is(Head(q), kind, j) => NoneOf(Tail(q), kind, j)
           /\ OneOf(q, kind, j) /\ ~Is(Head(q), kind, j) => OneOf(Tail(q), kind, j)
<1> DEFINE r == Tail(q)
<1>1. /\ Head(q) = q[1] /\ 1 \in DOMAIN q
      /\ \A i \in DOMAIN r : i \in Nat /\ i + 1 \in DOMAIN q /\ r[i] = q[i + 1]
      /\ \A i \in DOMAIN q : i # 1 => i - 1 \in DOMAIN r /\ r[i - 1] = q[i]
      /\ \A i \in DOMAIN q : i \in Nat
      /\ \A i \in DOMAIN r : i + 1 # 1
  <2>1. /\ Head(q) = q[1] /\ 1 \in DOMAIN q /\ DOMAIN q = 1..Len(q) /\ Len(q) \in Nat
        /\ \A i \in DOMAIN r : i \in Nat /\ i + 1 \in DOMAIN q /\ r[i] = q[i + 1]
        /\ \A i \in DOMAIN q : i # 1 => i - 1 \in DOMAIN r /\ r[i - 1] = q[i]
    BY Taken, Zenon
  <2>2. \A i \in DOMAIN q : i \in Nat  BY <2>1
  <2>3. \A i \in DOMAIN r : i # 0
    <3>1. \A i \in DOMAIN r : i + 1 \in 1..Len(q) /\ i \in Nat  BY <2>1, Zenon
    <3>2. DOMAIN r = 1..Len(r)  OBVIOUS
    <3> QED BY <3>2
  <2> HIDE DEF r
  <2> QED BY <2>1, <2>2, <2>3
<1> HIDE DEF r
<1>2. NoneOf(q, kind, j) => NoneOf(r, kind, j)  BY <1>1 DEF NoneOf
<1>3. ASSUME OneOf(q, kind, j), Is(Head(q), kind, j) PROVE NoneOf(r, kind, j)
  <2>1. \A k \in DOMAIN q : Is(q[k], kind, j) => k = 1  BY <1>1, <1>3 DEF OneOf
  <2> QED BY <1>1, <2>1 DEF NoneOf
<1>4. ASSUME OneOf(q, kind, j), ~Is(Head(q), kind, j) PROVE OneOf(r, kind, j)
  <2>1. PICK i \in DOMAIN q :
            Is(q[i], kind, j) /\ \A k \in DOMAIN q : Is(q[k], kind, j) => k = i
    BY <1>4 DEF OneOf
  <2>2. i - 1 \in DOMAIN r /\ Is(r[i - 1], kind, j)  BY <1>1, <1>4, <2>1
  <2>3. \A k \in DOMAIN r : Is(r[k], kind, j) => k = i - 1
    <3>1. ASSUME NEW k \in DOMAIN r, Is(r[k], kind, j) PROVE k = i - 1
      <4>1. k + 1 = i  BY <1>1, <2>1, <3>1
      <4> QED BY <1>1, <4>1
    <3> QED BY <3>1
  <2> QED BY <2>2, <2>3 DEF OneOf
<1> QED BY <1>2, <1>3, <1>4 DEF r

-----------------------------------------------------------------------------
(* The invariant.                                                          *)

Stages == {"none", "prepare", "compile", "run", "phase", "exit", "error", "ended", "done"}

\* What the API sends, and what the worker sends.
Orders == [kind : {"assign"} \cup Commands, job : Jobs, value : {NoValue}]
Reports ==
    [kind : {"heartbeat", "phase", "output", "exit"}, job : Jobs \cup {None},
     value : {"compiling", "running", NoValue} \cup EndPhases]

WorkerType ==
    /\ registered \in BOOLEAN /\ connected \in BOOLEAN /\ dropped \in BOOLEAN
    /\ current_job \in Jobs \cup {None} /\ active \in Jobs \cup {None}
    /\ sending \in Jobs \cup {None}
    /\ finished \subseteq Jobs /\ abandoned \subseteq finished
    /\ down \in Seq(Orders) /\ up \in Seq(Reports)
    /\ task \in [Jobs -> Stages] /\ outcome \in [Jobs -> EndPhases \cup {NoValue}]
    /\ process \in [Jobs -> BOOLEAN]

\* The jobs that were given out and did not begin.
Unbegun == {j \in Jobs : j \in finished \cup {current_job} /\ task[j] = "none"}

\* A task begins with the assignment of its job, which is sent once, and has a process only
\* while it compiles or runs. A cancel that was late is between its two locks.
JobsInv ==
    /\ \A j \in Jobs : j \notin finished \cup {current_job} => task[j] = "none"
    /\ \A i \in DOMAIN down : down[i].kind = "assign" => down[i].job \in Unbegun
    /\ \A j \in Jobs : NoneOf(down, "assign", j) \/ OneOf(down, "assign", j)
    /\ \A j \in Jobs : process[j] => task[j] \in {"compile", "run"}
    /\ active # None => task[active] # "none"
    /\ current_job \in finished => current_job \in abandoned

\* What an end of the stream that is gone has left.
ConnectionInv ==
    /\ ~registered => current_job = None /\ up = <<>> /\ abandoned = {}
    /\ ~connected => active = None /\ down = <<>>
    /\ current_job = None => ~dropped

\* The jobs whose messages may be in the channels: the one the API waits for, and those
\* that ended without a word to the worker.
Known == ({current_job} \ {None}) \cup abandoned

\* The events in a channel are those of some jobs, and an exit is the last of its job.
EventsOf(q, S) == \A i \in DOMAIN q : q[i].kind # "heartbeat" => q[i].job \in S
ExitLast(q) ==
    \A i \in DOMAIN q : q[i].kind = "exit" =>
        \A k \in DOMAIN q : k > i /\ q[k].kind # "heartbeat" => q[k].job # q[i].job

UpInv ==
    /\ EventsOf(up, Known) /\ ExitLast(up)
    /\ \A j \in Jobs : ~NoneOf(up, "exit", j) => ended(j)

\* The job the worker has, for the API, is on its way, in work, its exit is on its way, or
\* lost, or was taken between the locks of a cancel that was late.
OnItsWay(j) ==
    /\ task[j] = "none" /\ active # j
    /\ OneOf(down, "assign", j) /\ NoneOf(up, "exit", j) /\ ~dropped
InWork(j) ==
    /\ active = j /\ ~ended(j)
    /\ NoneOf(down, "assign", j) /\ NoneOf(up, "exit", j) /\ ~dropped
ExitSent(j) ==
    /\ ended(j)
    /\ NoneOf(down, "assign", j) /\ OneOf(up, "exit", j) /\ ~dropped
ExitLost(j) ==
    /\ ended(j)
    /\ NoneOf(down, "assign", j) /\ NoneOf(up, "exit", j) /\ dropped
ExitTaken(j) ==
    /\ ended(j) /\ j \in finished
    /\ NoneOf(down, "assign", j) /\ NoneOf(up, "exit", j)

JobSomewhere(j) ==
    OnItsWay(j) \/ InWork(j) \/ ExitSent(j) \/ ExitLost(j) \/ ExitTaken(j)

AssignsOf(q, S) == \A i \in DOMAIN q : q[i].kind = "assign" => q[i].job \in S

AgreementInv ==
    registered /\ connected =>
        /\ AssignsOf(down, Known)
        /\ active \notin Known \cup {None} => ended(active)
        /\ current_job # None => JobSomewhere(current_job)

StreamInv == WorkerType /\ JobsInv /\ ConnectionInv /\ UpInv /\ AgreementInv

LEMMA JobNumbers ==
    /\ None \notin Jobs /\ JobCount \in Nat /\ \A j \in Jobs : j \in Nat /\ j # None
    /\ "none" # "ended" /\ "none" # "done"
  BY CapacityAssumption DEF Jobs, None

LEMMA MessageFields ==
    ASSUME NEW kind, NEW j, NEW value
    PROVE  message(kind, j, value).kind = kind /\ message(kind, j, value).job = j
  BY DEF message

LEMMA IsOrder ==
    ASSUME NEW kind \in {"assign"} \cup Commands, NEW j \in Jobs
    PROVE  message(kind, j, NoValue) \in Orders
  BY DEF message, Orders

LEMMA IsReport ==
    ASSUME NEW kind \in {"heartbeat", "phase", "output", "exit"}, NEW j \in Jobs \cup {None},
           NEW value \in {"compiling", "running", NoValue} \cup EndPhases
    PROVE  message(kind, j, value) \in Reports
  BY DEF message, Reports

LEMMA OrdersIn ==
    ASSUME NEW q \in Seq(Orders)
    PROVE  \A i \in DOMAIN q : q[i] \in Orders /\ q[i].job \in Jobs
<1>1. \A i \in DOMAIN q : q[i] \in Orders  OBVIOUS
<1>2. \A m \in Orders : m.job \in Jobs  BY DEF Orders
<1> QED BY <1>1, <1>2

LEMMA InitInv == Init => StreamInv
<1> SUFFICES ASSUME Init PROVE StreamInv
  OBVIOUS
<1>1. WorkerType
  <2>1. down \in Seq(Orders) /\ up \in Seq(Reports)  BY DEF Init
  <2>2. task \in [Jobs -> Stages] /\ process \in [Jobs -> BOOLEAN]
    BY DEF Init, Stages
  <2>3. outcome \in [Jobs -> EndPhases \cup {NoValue}]  BY DEF Init
  <2> QED BY <2>1, <2>2, <2>3 DEF Init, WorkerType
<1>2. JobsInv
  <2>1. \A j \in Jobs : task[j] = "none" /\ ~process[j]  BY DEF Init
  <2>2. DOMAIN down = {} /\ active = None /\ finished = {}  BY DEF Init
  <2> QED BY <2>1, <2>2 DEF JobsInv, NoneOf
<1>3. ConnectionInv  BY DEF Init, ConnectionInv
<1>4. UpInv
  <2>1. DOMAIN up = {}  BY DEF Init
  <2> QED BY <2>1 DEF UpInv, EventsOf, ExitLast, NoneOf
<1>5. AgreementInv  BY DEF Init, AgreementInv
<1> QED BY <1>1, <1>2, <1>3, <1>4, <1>5 DEF StreamInv

-----------------------------------------------------------------------------
(* The ends of a connection.                                               *)

LEMMA NothingIn ==
    ASSUME NEW S
    PROVE  EventsOf(<<>>, S) /\ ExitLast(<<>>) /\ \A j : NoneOf(<<>>, "exit", j)
<1>1. DOMAIN <<>> = {}  OBVIOUS
<1> QED BY <1>1, Zenon DEF EventsOf, ExitLast, NoneOf

\* The worker has no job any more, and the one it had is complete.
LEMMA JobOver ==
    ASSUME StreamInv, current_job' = None, finished' \subseteq Jobs, finished \subseteq finished',
           current_job # None => current_job \in finished',
           UNCHANGED <<down, active, task, process>>
    PROVE  JobsInv'
<1>1. \A j \in Jobs : j \in finished \cup {current_job} => j \in finished' \cup {current_job'}
  BY JobNumbers
<1>2. \A i \in DOMAIN down' : down'[i].kind = "assign" => down'[i].job \in Unbegun'
  BY <1>1, Zenon DEF StreamInv, JobsInv, Unbegun
<1>3. current_job' \notin finished'  BY JobNumbers
<1> QED BY <1>1, <1>2, <1>3, Zenon DEF StreamInv, JobsInv

\* The API gives the worker up.
LEMMA UnregisterInv ==
    ASSUME StreamInv, unregister_worker, sending' \in Jobs \cup {None},
           UNCHANGED <<down, client, execution>>
    PROVE  StreamInv'
<1>1. /\ ~registered' /\ up' = <<>> /\ current_job' = None /\ ~dropped' /\ dropped' \in BOOLEAN
      /\ registered' \in BOOLEAN /\ abandoned' = {}
      /\ finished' = IF current_job = None THEN finished ELSE finished \cup {current_job}
  BY DEF unregister_worker, complete_session, free, session, StreamInv, ConnectionInv, WorkerType
<1>2. UNCHANGED <<down, connected, active, task, outcome, process>>
  BY DEF client, execution
<1>3. WorkerType'
  <2>1. up' \in Seq(Reports)  BY <1>1
  <2> QED BY <1>1, <1>2, <2>1 DEF StreamInv, WorkerType
<1>4. JobsInv'
  <2>1. finished' \subseteq Jobs /\ finished \subseteq finished'
    BY <1>3 DEF StreamInv, WorkerType, unregister_worker, complete_session, session
  <2>2. current_job # None => current_job \in finished'  BY <1>1
  <2> QED BY <1>1, <1>2, <2>1, <2>2, JobOver
<1>5. ConnectionInv'  BY <1>1, <1>2 DEF StreamInv, ConnectionInv
<1>6. UpInv'  BY <1>1, NothingIn DEF UpInv
<1>7. AgreementInv'  BY <1>1 DEF AgreementInv
<1> QED BY <1>3, <1>4, <1>5, <1>6, <1>7 DEF StreamInv

\* The worker gives its connection up.
LEMMA LeaveInv ==
    ASSUME StreamInv, leave, UNCHANGED <<api, up, process>>
    PROVE  StreamInv'
<1>1. /\ ~connected' /\ connected' \in BOOLEAN /\ active' = None /\ down' = <<>>
      /\ outcome' = [j \in Jobs |-> NoValue]
      /\ task' = [j \in Jobs |-> IF task[j] \in {"phase", "exit", "error", "ended"}
                                THEN "done" ELSE task[j]]
  BY DEF leave
<1>2. UNCHANGED <<registered, current_job, finished, abandoned, dropped, sending, up, process>>
  BY DEF api, session, entry
<1>3. WorkerType'
  <2>1. down' \in Seq(Orders)  BY <1>1
  <2>2. outcome' \in [Jobs -> EndPhases \cup {NoValue}]  BY <1>1, Zenon
  <2>3. task' \in [Jobs -> Stages]  BY <1>1 DEF StreamInv, WorkerType, Stages
  <2> QED BY <1>1, <1>2, <2>1, <2>2, <2>3 DEF StreamInv, WorkerType
<1>4. \A j \in Jobs : /\ task'[j] = "none" <=> task[j] = "none"
                      /\ task[j] \in {"compile", "run"} => task'[j] = task[j]
                      /\ ended(j) => ended(j)'
  BY <1>1 DEF ended
<1>5. JobsInv'
  <2>1. DOMAIN down' = {}  BY <1>1
  <2>2. \A j \in Jobs : process'[j] => task'[j] \in {"compile", "run"}
    BY <1>2, <1>4 DEF StreamInv, JobsInv
  <2>3. \A j \in Jobs : NoneOf(down', "assign", j)  BY <2>1 DEF NoneOf
  <2>4. \A i \in DOMAIN down' : down'[i].kind = "assign" => down'[i].job \in Unbegun'
    BY <2>1
  <2> QED BY <1>1, <1>2, <1>4, <2>2, <2>3, <2>4, Zenon DEF StreamInv, JobsInv
<1>6. ConnectionInv'  BY <1>1, <1>2 DEF StreamInv, ConnectionInv
<1>7. UpInv'
  <2>1. Known' = Known  BY <1>2 DEF Known
  <2> QED BY <1>2, <1>4, <2>1 DEF StreamInv, UpInv
<1>8. AgreementInv'  BY <1>1 DEF AgreementInv
<1> QED BY <1>3, <1>5, <1>6, <1>7, <1>8 DEF StreamInv

-----------------------------------------------------------------------------
(* The task of a job.                                                      *)

Ends == {"ended", "done"}

\* A task that is at work while the API reads its stream: no exit of it was sent, and the
\* API waits for its job, or completed it without a word.
LEMMA AttachedInWork ==
    ASSUME StreamInv, NEW j \in Jobs, registered, task[j] \notin Ends \cup {"none"},
           attached(j) \/ (connected /\ current_job = j)
    PROVE  /\ j \in Known /\ NoneOf(up, "exit", j)
           /\ current_job = j => InWork(j)
<1>1. /\ connected /\ j # None
      /\ active \notin Known \cup {None} => ended(active)
      /\ current_job # None => JobSomewhere(current_job)
  BY JobNumbers DEF StreamInv, AgreementInv, attached
<1>2. ~ended(j) /\ task[j] # "none"  BY DEF ended, Ends
<1>3. j \in Known  BY <1>1, <1>2 DEF attached, Known
<1>4. NoneOf(up, "exit", j)  BY <1>2 DEF StreamInv, UpInv
<1>5. ~OnItsWay(j) /\ ~ExitSent(j) /\ ~ExitLost(j) /\ ~ExitTaken(j)
  BY <1>2, Zenon DEF OnItsWay, ExitSent, ExitLost, ExitTaken
<1> QED BY <1>1, <1>3, <1>4, <1>5, Zenon DEF JobSomewhere

\* A job stays where it is.
LEMMA SomewhereKept ==
    ASSUME NEW c, JobSomewhere(c), (task'[c] = "none") <=> (task[c] = "none"),
           ended(c)' <=> ended(c), (active' = c) <=> (active = c), dropped' <=> dropped,
           c \in finished => c \in finished',
           NoneOf(down, "assign", c) => NoneOf(down', "assign", c),
           OneOf(down, "assign", c) => OneOf(down', "assign", c),
           NoneOf(up, "exit", c) => NoneOf(up', "exit", c),
           OneOf(up, "exit", c) => OneOf(up', "exit", c)
    PROVE  JobSomewhere(c)'
<1>1. OnItsWay(c) => OnItsWay(c)'  BY DEF OnItsWay
<1>2. InWork(c) => InWork(c)'  BY DEF InWork
<1>3. ExitSent(c) => ExitSent(c)'  BY DEF ExitSent
<1>4. ExitLost(c) => ExitLost(c)'  BY DEF ExitLost
<1>5. ExitTaken(c) => ExitTaken(c)'  BY DEF ExitTaken
<1> QED BY <1>1, <1>2, <1>3, <1>4, <1>5 DEF JobSomewhere

\* What every step of a task leaves.
LEMMA TaskMoves ==
    ASSUME StreamInv, NEW j \in Jobs, NEW stage \in Stages \ {"none"}, task[j] # "none",
           task' = [task EXCEPT ![j] = stage], process' \in [Jobs -> BOOLEAN],
           \A k \in Jobs : process'[k] => task'[k] \in {"compile", "run"},
           ended(j) => stage \in Ends,
           dropped' \in BOOLEAN, current_job = None => ~dropped',
           UNCHANGED <<registered, current_job, finished, abandoned, sending, down, connected, active>>,
           up' \in Seq(Reports), outcome' \in [Jobs -> EndPhases \cup {NoValue}],
           ~registered => up' = up
    PROVE  /\ WorkerType' /\ JobsInv' /\ ConnectionInv'
           /\ task'[j] = stage /\ \A k \in Jobs : k # j => task'[k] = task[k]
           /\ \A k \in Jobs : ended(k) => ended(k)'
<1>1. task'[j] = stage /\ \A k \in Jobs : k # j => task'[k] = task[k]
  BY DEF StreamInv, WorkerType
<1>2. task' \in [Jobs -> Stages]  BY DEF StreamInv, WorkerType
<1>3. WorkerType'  BY <1>2 DEF StreamInv, WorkerType
<1>4. \A k \in Jobs : task[k] = "none" => task'[k] = "none"  BY <1>1
<1>5. active \in Jobs => (task[active] # "none" => task'[active] # "none")  BY <1>1
<1>6. JobsInv'
  <2>2. \A i \in DOMAIN down' : down'[i].kind = "assign" => down'[i].job \in Unbegun'
    BY <1>4, Zenon DEF StreamInv, JobsInv, Unbegun
  <2> QED BY <1>4, <1>5, <2>2, Zenon DEF StreamInv, JobsInv, WorkerType
<1>7. ConnectionInv'  BY DEF StreamInv, ConnectionInv
<1>8. \A k \in Jobs : ended(k) => ended(k)'  BY <1>1 DEF ended, Ends
<1> QED BY <1>1, <1>3, <1>6, <1>7, <1>8

\* The job is still where it was: a task that is at work goes on, or nobody listens.
LEMMA TaskQuiet ==
    ASSUME StreamInv, NEW j \in Jobs, NEW stage \in Stages \ {"none"}, task[j] # "none",
           task' = [task EXCEPT ![j] = stage], process' \in [Jobs -> BOOLEAN],
           \A k \in Jobs : process'[k] => task'[k] \in {"compile", "run"},
           ended(j) => stage \in Ends,
           attached(j) /\ registered /\ ~ended(j) => stage \notin Ends,
           outcome' \in [Jobs -> EndPhases \cup {NoValue}],
           UNCHANGED <<registered, current_job, finished, abandoned, sending, down, connected, active>>,
           UNCHANGED <<up, dropped>>
    PROVE  StreamInv'
<1>1. /\ WorkerType' /\ JobsInv' /\ ConnectionInv'
      /\ task'[j] = stage /\ \A k \in Jobs : k # j => task'[k] = task[k]
      /\ \A k \in Jobs : ended(k) => ended(k)'
  <2>1. /\ dropped' \in BOOLEAN /\ (current_job = None => ~dropped') /\ up' \in Seq(Reports)
    BY DEF StreamInv, ConnectionInv, WorkerType
  <2> QED BY <2>1, TaskMoves
<1>2. Known' = Known  BY DEF Known
<1>3. UpInv'  BY <1>1, <1>2 DEF StreamInv, UpInv
<1>4. AgreementInv'
  <2> SUFFICES ASSUME registered, connected
               PROVE  /\ AssignsOf(down, Known)
                      /\ active \notin Known \cup {None} => ended(active)'
                      /\ current_job # None => JobSomewhere(current_job)'
    BY <1>2 DEF AgreementInv
  <2>1. /\ AssignsOf(down, Known)
        /\ active \notin Known \cup {None} => ended(active)
        /\ current_job # None => JobSomewhere(current_job)
    BY DEF StreamInv, AgreementInv
  <2>2. active \in Jobs \cup {None} /\ current_job \in Jobs \cup {None}
    BY DEF StreamInv, WorkerType
  <2>3. ASSUME NEW c \in Jobs, c = current_job, JobSomewhere(c) PROVE JobSomewhere(c)'
    <3>1. CASE c # j
      <4>1. task'[c] = task[c] /\ (ended(c)' <=> ended(c))  BY <1>1, <3>1 DEF ended
      <4> QED BY <2>3, <4>1, SomewhereKept
    <3>2. CASE c = j /\ ~InWork(c)
      <4>1. ~OnItsWay(c)  BY <3>2 DEF OnItsWay
      <4>2. ended(c) /\ ended(c)'
        BY <1>1, <2>3, <3>2, <4>1 DEF JobSomewhere, ExitSent, ExitLost, ExitTaken
      <4>3. task[c] # "none" /\ task'[c] # "none"  BY <1>1, <3>2
      <4> QED BY <2>3, <4>2, <4>3, SomewhereKept
    <3>3. CASE c = j /\ InWork(c)
      <4>1. ~ended(c)'  BY <1>1, <3>3 DEF InWork, ended, Ends, attached
      <4> QED BY <3>3, <4>1 DEF InWork, JobSomewhere
    <3> QED BY <3>1, <3>2, <3>3
  <2> QED BY <1>1, <2>1, <2>2, <2>3
<1> QED BY <1>1, <1>3, <1>4 DEF StreamInv

\* An event of the task at work joins the channel.
LEMMA EventAppended ==
    ASSUME NEW q \in Seq(Reports), NEW m \in Reports, NEW S, m.job \in S,
           EventsOf(q, S), ExitLast(q), NoneOf(q, "exit", m.job)
    PROVE  EventsOf(Append(q, m), S) /\ ExitLast(Append(q, m))
<1>1. /\ Len(q) \in Nat /\ DOMAIN q = 1..Len(q) /\ DOMAIN Append(q, m) = 1..Len(q) + 1
      /\ Append(q, m)[Len(q) + 1] = m
      /\ \A i \in DOMAIN q : Append(q, m)[i] = q[i]
  BY Appended
<1> DEFINE r == Append(q, m)  n == Len(q) + 1
<1>2. /\ \A i \in DOMAIN r : i = n \/ i \in DOMAIN q
      /\ \A i \in DOMAIN r : ~(i > n)
      /\ r[n] = m /\ \A i \in DOMAIN q : r[i] = q[i]
  BY <1>1
<1> HIDE DEF r, n
<1>3. EventsOf(r, S)  BY <1>2 DEF EventsOf
<1>4. ASSUME NEW i \in DOMAIN r, NEW k \in DOMAIN r, r[i].kind = "exit", k > i,
             r[k].kind # "heartbeat"
      PROVE  r[k].job # r[i].job
  <2>1. i \in DOMAIN q /\ q[i].kind = "exit" /\ r[i] = q[i]  BY <1>2, <1>4
  <2>2. CASE k = n
    <3>1. q[i].job # m.job  BY <2>1 DEF NoneOf, Is
    <3> QED BY <1>2, <2>1, <2>2, <3>1
  <2>3. CASE k \in DOMAIN q
    <3>1. r[k] = q[k]  BY <1>2, <2>3
    <3> QED BY <1>4, <2>1, <2>3, <3>1 DEF ExitLast
  <2> QED BY <1>2, <2>2, <2>3
<1>5. ExitLast(r)  BY <1>4, Zenon DEF ExitLast
<1> QED BY <1>3, <1>5 DEF r

\* A task that is at work reports: an event that is not its exit, or its exit as it ends.
LEMMA TaskSends ==
    ASSUME StreamInv, NEW j \in Jobs, NEW stage \in Stages \ {"none"},
           task[j] \notin Ends \cup {"none"}, attached(j), registered,
           task' = [task EXCEPT ![j] = stage], process' \in [Jobs -> BOOLEAN],
           \A k \in Jobs : process'[k] => task'[k] \in {"compile", "run"},
           NEW m \in Reports, m.job = j, up' = Append(up, m),
           m.kind # "heartbeat", m.kind = "exit" <=> stage \in Ends,
           outcome' \in [Jobs -> EndPhases \cup {NoValue}],
           UNCHANGED <<registered, current_job, finished, abandoned, sending, down, connected, active>>,
           UNCHANGED dropped
    PROVE  StreamInv'
<1>0. j \in Known /\ NoneOf(up, "exit", j) /\ (current_job = j => InWork(j))  BY AttachedInWork
<1>1. /\ WorkerType' /\ JobsInv' /\ ConnectionInv'
      /\ task'[j] = stage /\ \A k \in Jobs : k # j => task'[k] = task[k]
      /\ \A k \in Jobs : ended(k) => ended(k)'
  <2>1. dropped' \in BOOLEAN /\ (current_job = None => ~dropped')
    BY DEF StreamInv, ConnectionInv, WorkerType
  <2>2. up' \in Seq(Reports)  BY Appended DEF StreamInv, WorkerType
  <2>3. ended(j) => stage \in Ends  BY DEF ended, Ends
  <2>4. task[j] # "none"  OBVIOUS
  <2> QED BY <2>1, <2>2, <2>3, <2>4, TaskMoves
<1>2. up \in Seq(Reports) /\ EventsOf(up, Known) /\ ExitLast(up) /\ Known' = Known
  BY DEF StreamInv, WorkerType, UpInv, Known
<1>3. EventsOf(up', Known) /\ ExitLast(up')  BY <1>0, <1>2, EventAppended
<1>4. (ended(j)' <=> m.kind = "exit") /\ ~ended(j)  BY <1>1 DEF ended, Ends
<1>5. /\ m.kind # "exit" => NoneOf(up', "exit", j)
      /\ m.kind = "exit" => OneOf(up', "exit", j)
  BY <1>0, <1>2, KindAppended DEF Is
<1>6. \A k \in Jobs \ {j} : /\ NoneOf(up, "exit", k) => NoneOf(up', "exit", k)
                            /\ OneOf(up, "exit", k) => OneOf(up', "exit", k)
  <2>1. \A k \in Jobs \ {j} : ~Is(m, "exit", k)  BY DEF Is
  <2> QED BY <1>2, <2>1, KindAppended
<1>7. \A k \in Jobs : ~NoneOf(up', "exit", k) => ended(k)'
  BY <1>1, <1>4, <1>5, <1>6 DEF StreamInv, UpInv
<1>8. UpInv'  BY <1>2, <1>3, <1>7 DEF UpInv
<1>9. ASSUME connected, current_job # None, JobSomewhere(current_job)
      PROVE  JobSomewhere(current_job)'
  <2>1. CASE current_job = j /\ m.kind = "exit"
    BY <1>0, <1>4, <1>5, <2>1 DEF InWork, ExitSent, JobSomewhere
  <2>2. CASE current_job = j /\ m.kind # "exit"
    BY <1>0, <1>4, <1>5, <2>2 DEF InWork, JobSomewhere
  <2>3. CASE current_job # j
    <3>1. PICK c \in Jobs : c = current_job  BY <1>9 DEF StreamInv, WorkerType
    <3>2. task'[c] = task[c] /\ (ended(c)' <=> ended(c))  BY <1>1, <2>3, <3>1 DEF ended
    <3>3. /\ NoneOf(up, "exit", c) => NoneOf(up', "exit", c)
          /\ OneOf(up, "exit", c) => OneOf(up', "exit", c)
      BY <1>6, <2>3, <3>1
    <3>4. JobSomewhere(c)'  BY <1>9, <3>1, <3>2, <3>3, SomewhereKept
    <3> QED BY <3>1, <3>4
  <2> QED BY <2>1, <2>2, <2>3
<1>10. AgreementInv'
  <2>1. active = j  BY DEF attached
  <2> QED BY <1>0, <1>2, <1>9, <2>1 DEF StreamInv, AgreementInv
<1> QED BY <1>1, <1>8, <1>10 DEF StreamInv

\* A task ends without an exit: the one the API waits for is lost.
LEMMA TaskLoses ==
    ASSUME StreamInv, NEW j \in Jobs, NEW stage \in Ends, task[j] \notin Ends \cup {"none"},
           task' = [task EXCEPT ![j] = stage], process' \in [Jobs -> BOOLEAN],
           \A k \in Jobs : process'[k] => task'[k] \in {"compile", "run"},
           outcome' \in [Jobs -> EndPhases \cup {NoValue}],
           UNCHANGED <<registered, current_job, finished, abandoned, sending, down, connected, active>>,
           UNCHANGED up, dropped' = (dropped \/ current_job = j)
    PROVE  StreamInv'
<1>1. /\ WorkerType' /\ JobsInv' /\ ConnectionInv'
      /\ task'[j] = stage /\ \A k \in Jobs : k # j => task'[k] = task[k]
      /\ \A k \in Jobs : ended(k) => ended(k)'
  <2>1. dropped' \in BOOLEAN /\ (current_job = None => ~dropped')
    BY JobNumbers DEF StreamInv, ConnectionInv, WorkerType
  <2>2. up' \in Seq(Reports)  BY DEF StreamInv, WorkerType
  <2>3. task[j] # "none" /\ stage \in Stages \ {"none"}  BY DEF Ends, Stages
  <2> QED BY <2>1, <2>2, <2>3, TaskMoves
<1>2. Known' = Known  BY DEF Known
<1>3. UpInv'  BY <1>1, <1>2 DEF StreamInv, UpInv
<1>4. AgreementInv'
  <2> SUFFICES ASSUME registered, connected
               PROVE  /\ AssignsOf(down, Known)
                      /\ active \notin Known \cup {None} => ended(active)'
                      /\ current_job # None => JobSomewhere(current_job)'
    BY <1>2 DEF AgreementInv
  <2>1. /\ AssignsOf(down, Known)
        /\ active \notin Known \cup {None} => ended(active)
        /\ current_job # None => JobSomewhere(current_job)
    BY DEF StreamInv, AgreementInv
  <2>2. active \in Jobs \cup {None} /\ current_job \in Jobs \cup {None}
    BY DEF StreamInv, WorkerType
  <2>3. ASSUME NEW c \in Jobs, c = current_job, c # j, JobSomewhere(c) PROVE JobSomewhere(c)'
    <3>1. (ended(c)' <=> ended(c)) /\ task'[c] = task[c] /\ (dropped' <=> dropped)
      BY <1>1, <2>3 DEF ended, StreamInv, WorkerType
    <3> QED BY <2>3, <3>1, SomewhereKept
  <2>4. CASE current_job = j
    <3>1. InWork(j)  BY <2>4, AttachedInWork
    <3>2. ended(j)' /\ dropped'  BY <1>1, <2>4 DEF ended, Ends
    <3>3. ExitLost(j)'  BY <3>1, <3>2 DEF InWork, ExitLost
    <3> QED BY <1>1, <2>1, <2>2, <2>4, <3>3 DEF JobSomewhere
  <2> QED BY <1>1, <2>1, <2>2, <2>3, <2>4
<1> QED BY <1>1, <1>3, <1>4 DEF StreamInv

\* A task has a process only while it compiles or runs: it has one of its own, or none,
\* after the step, or the step leaves a task without one.
LEMMA ProcessOf ==
    ASSUME StreamInv, NEW j \in Jobs, NEW stage \in Stages, task' = [task EXCEPT ![j] = stage],
           \/ kill(j)
           \/ start(j) /\ stage \in {"compile", "run"}
           \/ UNCHANGED process /\ (task[j] \notin {"compile", "run"} \/ stage = task[j])
    PROVE  /\ process' \in [Jobs -> BOOLEAN]
           /\ \A k \in Jobs : process'[k] => task'[k] \in {"compile", "run"}
<1>1. /\ task'[j] = stage /\ \A k \in Jobs : k # j => task'[k] = task[k]
      /\ process \in [Jobs -> BOOLEAN]
      /\ \A k \in Jobs : process[k] => task[k] \in {"compile", "run"}
  BY DEF StreamInv, WorkerType, JobsInv
<1>2. CASE kill(j)
  <2>1. ~process'[j] /\ \A k \in Jobs : k # j => process'[k] = process[k]
    BY <1>1, <1>2 DEF kill
  <2>2. process' \in [Jobs -> BOOLEAN]  BY <1>1, <1>2 DEF kill
  <2> QED BY <1>1, <2>1, <2>2
<1>3. CASE start(j) /\ stage \in {"compile", "run"}
  <2>1. \A k \in Jobs : k # j => process'[k] = process[k]
    BY <1>1, <1>3 DEF start
  <2>2. process' \in [Jobs -> BOOLEAN]  BY <1>1, <1>3 DEF start
  <2> QED BY <1>1, <1>3, <2>1, <2>2
<1>4. CASE UNCHANGED process /\ (task[j] \notin {"compile", "run"} \/ stage = task[j])
  BY <1>1, <1>4
<1> QED BY <1>2, <1>3, <1>4

LEMMA Constant ==
    UNCHANGED <<api, down, client>> =>
        /\ UNCHANGED <<registered, current_job, finished, abandoned, sending, down, connected, active>>
        /\ UNCHANGED dropped
  BY DEF api, session, entry, client

\* Where a task comes to.
LEMMA Reached ==
    ASSUME NEW j \in Jobs, NEW stage \in Stages \ {"none"}, reaches(j, stage)
    PROVE  \E to \in Stages \ {"none"} :
               /\ task' = [task EXCEPT ![j] = to]
               /\ attached(j) \/ stage \in {"compile", "run"} => to = stage
               /\ stage \in Ends => to \in Ends
<1> DEFINE to == IF attached(j) \/ stage \in {"compile", "run"} THEN stage ELSE "done"
<1>1. to \in Stages \ {"none"} /\ (stage \in Ends => to \in Ends)  BY DEF Stages, Ends
<1> QED BY <1>1 DEF reaches

\* A stage of a task with work before it, the process of the one before killed.
LEMMA StageInv ==
    ASSUME StreamInv, NEW j \in Jobs, NEW stage \in {"phase", "error"},
           task[j] \notin Ends \cup {"none"}, reaches(j, stage), kill(j),
           outcome' \in [Jobs -> EndPhases \cup {NoValue}],
           UNCHANGED <<api, down, up, client>>
    PROVE  StreamInv'
<1>1. stage \in Stages \ {"none"} /\ stage \notin Ends  BY DEF Stages, Ends
<1>2. PICK to \in Stages \ {"none"} :
          task' = [task EXCEPT ![j] = to] /\ (attached(j) => to = stage)
  BY <1>1, Reached
<1>3. /\ process' \in [Jobs -> BOOLEAN]
      /\ \A k \in Jobs : process'[k] => task'[k] \in {"compile", "run"}
  BY <1>2, ProcessOf
<1>4. ~ended(j) /\ task[j] # "none"  BY DEF ended, Ends
<1> QED BY <1>1, <1>2, <1>3, <1>4, Constant, TaskQuiet

\* Its process is stopped, and the phase it reports chosen.
LEMMA TerminateInv ==
    ASSUME StreamInv, NEW j \in Jobs, NEW end \in EndPhases, Working(j),
           terminate_and_reap(j, end), UNCHANGED <<api, down, up, client>>
    PROVE  StreamInv'
<1>1. task[j] \notin Ends \cup {"none"}  BY DEF Working, Ends
<1>2. outcome' \in [Jobs -> EndPhases \cup {NoValue}]
  BY DEF terminate_and_reap, StreamInv, WorkerType
<1> QED BY <1>1, <1>2, StageInv DEF terminate_and_reap

\* An event of a task, with what the task comes to.
LEMMA ReportInv ==
    ASSUME StreamInv, NEW j \in Jobs, NEW stage \in Stages \ {"none"},
           task[j] \notin Ends \cup {"none"},
           NEW kind \in {"phase", "output", "exit"},
           NEW value \in {"compiling", "running", NoValue} \cup EndPhases,
           kind = "exit" <=> stage \in Ends, send(j, message(kind, j, value)),
           NEW to \in Stages \ {"none"}, task' = [task EXCEPT ![j] = to],
           attached(j) => to = stage,
           process' \in [Jobs -> BOOLEAN],
           \A k \in Jobs : process'[k] => task'[k] \in {"compile", "run"},
           outcome' \in [Jobs -> EndPhases \cup {NoValue}],
           UNCHANGED <<registered, current_job, finished, abandoned, sending, down, connected, active>>,
           UNCHANGED dropped
    PROVE  StreamInv'
<1>1. ~ended(j) /\ task[j] # "none"  BY DEF ended, Ends
<1>2. CASE attached(j) /\ registered
  <2> DEFINE m == message(kind, j, value)
  <2>1. m \in Reports /\ m.job = j /\ m.kind = kind
    <3>1. kind \in {"heartbeat", "phase", "output", "exit"} /\ j \in Jobs \cup {None}
      OBVIOUS
    <3>2. message(kind, j, value) \in Reports  BY <3>1, IsReport
    <3> QED BY <3>2, MessageFields
  <2>2. up' = Append(up, m)  BY <1>2 DEF send
  <2> HIDE DEF m
  <2>3. m.kind # "heartbeat" /\ (m.kind = "exit" <=> stage \in Ends)  BY <2>1
  <2>4. to = stage  BY <1>2
  <2> QED BY <1>2, <2>1, <2>2, <2>3, <2>4, TaskSends
<1>3. CASE ~(attached(j) /\ registered)
  <2>1. UNCHANGED up  BY <1>3 DEF send
  <2> QED BY <1>1, <1>3, <2>1, TaskQuiet
<1> QED BY <1>2, <1>3

LEMMA PrepareInv == ASSUME StreamInv, NEW j \in Jobs, Prepare(j) PROVE StreamInv'
<1>1. task[j] \notin Ends \cup {"none"} /\ send(j, message("phase", j, "compiling"))
      /\ reaches(j, "compile") /\ start(j) /\ UNCHANGED <<api, down, client>>
  BY DEF Prepare, Ends
<1>2. "compile" \in Stages \ {"none"} /\ "compile" \notin Ends  BY DEF Stages, Ends
<1>3. task' = [task EXCEPT ![j] = "compile"]  BY <1>1 DEF reaches
<1>4. /\ process' \in [Jobs -> BOOLEAN]
      /\ \A k \in Jobs : process'[k] => task'[k] \in {"compile", "run"}
  BY <1>1, <1>2, <1>3, ProcessOf
<1>5. outcome' \in [Jobs -> EndPhases \cup {NoValue}]
  BY DEF Prepare, StreamInv, WorkerType
<1> QED BY <1>1, <1>2, <1>3, <1>4, <1>5, Constant, ReportInv

LEMMA DrainedInv == ASSUME StreamInv, NEW j \in Jobs, Drained(j) PROVE StreamInv'
<1>0. UNCHANGED <<api, down, client>> /\ Working(j) /\ task[j] \notin Ends \cup {"none"}
  BY DEF Drained, Working, Ends
<1>1. CASE /\ send(j, message("phase", j, "running")) /\ reaches(j, "run") /\ start(j)
           /\ UNCHANGED outcome
  <2>2. "run" \in Stages \ {"none"} /\ "run" \notin Ends  BY DEF Stages, Ends
  <2>3. task' = [task EXCEPT ![j] = "run"]  BY <1>1 DEF reaches
  <2>4. /\ process' \in [Jobs -> BOOLEAN]
        /\ \A k \in Jobs : process'[k] => task'[k] \in {"compile", "run"}
    BY <1>1, <2>2, <2>3, ProcessOf
  <2>5. outcome' \in [Jobs -> EndPhases \cup {NoValue}]
    BY <1>1 DEF StreamInv, WorkerType
  <2> QED BY <1>0, <1>1, <2>2, <2>3, <2>4, <2>5, Constant, ReportInv
<1>2. CASE \E end \in EndPhases : terminate_and_reap(j, end) /\ UNCHANGED up
  BY <1>0, <1>2, TerminateInv
<1>3. \A end : end \in (IF task[j] = "run" THEN {"exited", "stopped"}
                                           ELSE {"compile_failed", "stopped"})
          => end \in EndPhases
  BY DEF EndPhases
<1> QED BY <1>1, <1>2, <1>3 DEF Drained

LEMMA SendPhaseInv == ASSUME StreamInv, NEW j \in Jobs, SendPhase(j) PROVE StreamInv'
<1>1. task[j] \notin Ends \cup {"none"} /\ send(j, message("phase", j, outcome[j]))
      /\ reaches(j, "exit") /\ UNCHANGED process /\ UNCHANGED <<api, down, client>>
      /\ task[j] \notin {"compile", "run"}
  BY DEF SendPhase, Ends
<1>2. "exit" \in Stages \ {"none"} /\ "exit" \notin Ends  BY DEF Stages, Ends
<1>3. PICK to \in Stages \ {"none"} :
          task' = [task EXCEPT ![j] = to] /\ (attached(j) => to = "exit")
  BY <1>1, <1>2, Reached
<1>4. /\ process' \in [Jobs -> BOOLEAN]
      /\ \A k \in Jobs : process'[k] => task'[k] \in {"compile", "run"}
  BY <1>1, <1>3, ProcessOf
<1>5. outcome' \in [Jobs -> EndPhases \cup {NoValue}] /\ outcome[j] \in EndPhases \cup {NoValue}
  BY DEF SendPhase, StreamInv, WorkerType
<1>6. outcome[j] \in {"compiling", "running", NoValue} \cup EndPhases  BY <1>5
<1> QED BY <1>1, <1>2, <1>3, <1>4, <1>5, <1>6, Constant, ReportInv

\* What a task that returns comes to.
LEMMA Returned ==
    ASSUME StreamInv, NEW j \in Jobs, returns(j), task[j] \notin Ends \cup {"none"}
    PROVE  /\ outcome' \in [Jobs -> EndPhases \cup {NoValue}]
           /\ "ended" \in (Stages \ {"none"}) \cap Ends
           /\ \E to \in Stages \ {"none"} : /\ task' = [task EXCEPT ![j] = to]
                                            /\ attached(j) => to = "ended"
                                            /\ to \in Ends
<1>1. outcome' \in [Jobs -> EndPhases \cup {NoValue}]
  BY DEF returns, StreamInv, WorkerType
<1>2. "ended" \in Stages \ {"none"} /\ "ended" \in Ends  BY DEF Stages, Ends
<1> QED BY <1>1, <1>2, Reached DEF returns

LEMMA SendExitInv == ASSUME StreamInv, NEW j \in Jobs, SendExit(j) PROVE StreamInv'
<1>1. task[j] \notin Ends \cup {"none"} /\ send(j, message("exit", j, NoValue))
      /\ returns(j) /\ UNCHANGED process /\ UNCHANGED <<api, down, client>>
      /\ task[j] \notin {"compile", "run"}
  BY DEF SendExit, Ends
<1>2. outcome' \in [Jobs -> EndPhases \cup {NoValue}] /\ "ended" \in (Stages \ {"none"}) \cap Ends
  BY <1>1, Returned
<1>3. PICK to \in Stages \ {"none"} :
          task' = [task EXCEPT ![j] = to] /\ (attached(j) => to = "ended")
  BY <1>1, Returned
<1>4. /\ process' \in [Jobs -> BOOLEAN]
      /\ \A k \in Jobs : process'[k] => task'[k] \in {"compile", "run"}
  BY <1>1, <1>3, ProcessOf
<1> QED BY <1>1, <1>2, <1>3, <1>4, Constant, ReportInv

LEMMA SendErrorExitInv == ASSUME StreamInv, NEW j \in Jobs, SendErrorExit(j) PROVE StreamInv'
<1>1. task[j] \notin Ends \cup {"none"}
      /\ returns(j) /\ UNCHANGED process /\ task[j] \notin {"compile", "run"}
      /\ UNCHANGED <<registered, current_job, finished, abandoned, sending, down, connected, active>>
  BY DEF SendErrorExit, Ends, entry, client
<1>2. outcome' \in [Jobs -> EndPhases \cup {NoValue}] /\ "ended" \in (Stages \ {"none"}) \cap Ends
  BY <1>1, Returned
<1>3. PICK to \in Stages \ {"none"} :
          task' = [task EXCEPT ![j] = to] /\ (attached(j) => to = "ended") /\ to \in Ends
  BY <1>1, Returned
<1>4. /\ process' \in [Jobs -> BOOLEAN]
      /\ \A k \in Jobs : process'[k] => task'[k] \in {"compile", "run"}
  BY <1>1, <1>3, ProcessOf
<1>5. CASE send(j, message("exit", j, NoValue)) /\ UNCHANGED dropped
  BY <1>1, <1>2, <1>3, <1>4, <1>5, ReportInv
<1>6. CASE dropped' = (dropped \/ current_job = j) /\ UNCHANGED up
  BY <1>1, <1>2, <1>3, <1>4, <1>6, TaskLoses
<1> QED BY <1>5, <1>6 DEF SendErrorExit

LEMMA AbortedInv == ASSUME StreamInv, NEW j \in Jobs, Aborted(j) PROVE StreamInv'
<1>1. task[j] \notin Ends \cup {"none"} /\ ~attached(j)
      /\ returns(j) /\ kill(j) /\ UNCHANGED <<api, down, up, client>>
  BY DEF Aborted, Ends, ended
<1>2. outcome' \in [Jobs -> EndPhases \cup {NoValue}]  BY <1>1, Returned
<1>3. PICK to \in Stages \ {"none"} : task' = [task EXCEPT ![j] = to] /\ to \in Ends
  BY <1>1, Returned
<1>4. /\ process' \in [Jobs -> BOOLEAN]
      /\ \A k \in Jobs : process'[k] => task'[k] \in {"compile", "run"}
  BY <1>1, <1>3, ProcessOf
<1>5. task[j] # "none"  BY <1>1
<1> QED BY <1>1, <1>2, <1>3, <1>4, <1>5, Constant, TaskQuiet

\* A step that leaves the stage of the task.
LEMMA SameStage ==
    ASSUME StreamInv, NEW j \in Jobs, Working(j), UNCHANGED <<task, outcome>>,
           kill(j) \/ UNCHANGED process, UNCHANGED <<api, down, up, client>>
    PROVE  StreamInv'
<1>1. /\ task[j] \notin Ends \cup {"none"} /\ task[j] \in Stages \ {"none"}
      /\ task[j] # "none" /\ ~ended(j)
  BY DEF Working, Ends, Stages, ended
<1>2. task' = [task EXCEPT ![j] = task[j]]  BY DEF StreamInv, WorkerType
<1>3. /\ process' \in [Jobs -> BOOLEAN]
      /\ \A k \in Jobs : process'[k] => task'[k] \in {"compile", "run"}
  BY <1>1, <1>2, ProcessOf
<1>4. outcome' \in [Jobs -> EndPhases \cup {NoValue}]  BY DEF StreamInv, WorkerType
<1>5. task[j] \notin Ends  BY <1>1
<1> QED BY <1>1, <1>2, <1>3, <1>4, <1>5, Constant, TaskQuiet

LEMMA WorkInv ==
    ASSUME StreamInv, NEW j \in Jobs,
           \/ DeadlinePasses(j) \/ ControlTaken(j) \/ OutputLimited(j) \/ ProcessExits(j)
    PROVE  StreamInv'
<1>1. Working(j) /\ UNCHANGED <<api, down, up, client>>
  BY DEF DeadlinePasses, ControlTaken, OutputLimited, ProcessExits, watching
<1>2. "stopped" \in EndPhases  BY DEF EndPhases
<1>3. \/ terminate_and_reap(j, "stopped")
      \/ UNCHANGED <<task, outcome>> /\ (kill(j) \/ UNCHANGED process)
  BY DEF DeadlinePasses, ControlTaken, OutputLimited, ProcessExits, kill
<1>4. CASE terminate_and_reap(j, "stopped")  BY <1>1, <1>2, <1>4, TerminateInv
<1>5. CASE UNCHANGED <<task, outcome>> /\ (kill(j) \/ UNCHANGED process)
  BY <1>1, <1>5, SameStage
<1> QED BY <1>3, <1>4, <1>5

LEMMA FailsInv == ASSUME StreamInv, NEW j \in Jobs, Fails(j) PROVE StreamInv'
<1>1. task[j] \notin Ends \cup {"none"} /\ reaches(j, "error") /\ kill(j)
      /\ UNCHANGED <<api, down, up, client>>
  BY DEF Fails, Working, Ends
<1>2. outcome' \in [Jobs -> EndPhases \cup {NoValue}]
  BY DEF Fails, StreamInv, WorkerType
<1> QED BY <1>1, <1>2, StageInv

LEMMA OutputInv == ASSUME StreamInv, NEW j \in Jobs, Output(j) PROVE StreamInv'
<1>1. /\ Working(j) /\ send(j, message("output", j, NoValue)) /\ UNCHANGED <<api, down, client>>
      /\ UNCHANGED <<task, outcome, process>>
  BY DEF Output, execution
<1>2. task[j] \notin Ends \cup {"none"} /\ task[j] \in Stages \ {"none"} /\ task[j] \notin Ends
  BY <1>1 DEF Working, Ends, Stages
<1>3. task' = [task EXCEPT ![j] = task[j]]  BY <1>1 DEF StreamInv, WorkerType
<1>4. /\ process' \in [Jobs -> BOOLEAN]
      /\ \A k \in Jobs : process'[k] => task'[k] \in {"compile", "run"}
  BY <1>1, <1>2, <1>3, ProcessOf
<1>5. outcome' \in [Jobs -> EndPhases \cup {NoValue}]  BY <1>1 DEF StreamInv, WorkerType
<1> QED BY <1>1, <1>2, <1>3, <1>4, <1>5, Constant, ReportInv

LEMMA TaskCompletesInv == ASSUME StreamInv, NEW j \in Jobs, TaskCompletes(j) PROVE StreamInv'
<1>1. /\ task[j] # "none" /\ ended(j) /\ task' = [task EXCEPT ![j] = "done"]
      /\ UNCHANGED process /\ UNCHANGED <<api, down, up, client>>
      /\ task[j] \notin {"compile", "run"}
  BY DEF TaskCompletes, ended
<1>2. "done" \in Stages \ {"none"} /\ "done" \in Ends  BY DEF Stages, Ends
<1>3. /\ process' \in [Jobs -> BOOLEAN]
      /\ \A k \in Jobs : process'[k] => task'[k] \in {"compile", "run"}
  BY <1>1, <1>2, ProcessOf
<1>4. outcome' \in [Jobs -> EndPhases \cup {NoValue}]
  BY DEF TaskCompletes, StreamInv, WorkerType
<1> QED BY <1>1, <1>2, <1>3, <1>4, Constant, TaskQuiet

-----------------------------------------------------------------------------
(* The two ends of the stream.                                             *)

\* What does not touch the tasks.
LEMMA TasksKept ==
    UNCHANGED <<task, outcome, process>> => \A j \in Jobs : ended(j)' <=> ended(j)
  BY DEF ended

\* The assignments in a channel, when an order joins it or is taken.
LEMMA OrderAppended ==
    ASSUME NEW q \in Seq(Orders), NEW m \in Orders, NEW S, m.kind # "assign" \/ m.job \in S,
           \A i \in DOMAIN q : q[i].kind = "assign" => q[i].job \in S
    PROVE  LET r == Append(q, m)
           IN  \A i \in DOMAIN r : r[i].kind = "assign" => r[i].job \in S
<1>1. /\ Len(q) \in Nat /\ DOMAIN q = 1..Len(q) /\ DOMAIN Append(q, m) = 1..Len(q) + 1
      /\ Append(q, m)[Len(q) + 1] = m
      /\ \A i \in DOMAIN q : Append(q, m)[i] = q[i]
  BY Appended
<1> QED BY <1>1

LEMMA OrderTaken ==
    ASSUME NEW q \in Seq(Orders), q # <<>>, NEW S,
           \A i \in DOMAIN q : q[i].kind = "assign" => q[i].job \in S
    PROVE  LET r == Tail(q)
           IN  \A i \in DOMAIN r : r[i].kind = "assign" => r[i].job \in S
<1>1. \A i \in DOMAIN Tail(q) : i \in Nat /\ i + 1 \in DOMAIN q /\ Tail(q)[i] = q[i + 1]
  BY Taken
<1> QED BY <1>1, Zenon

\* The same of the events: a heartbeat joins them, or the first message is taken.
LEMMA HeartbeatAppended ==
    ASSUME NEW q \in Seq(Reports), NEW m \in Reports, NEW S, m.kind = "heartbeat",
           EventsOf(q, S), ExitLast(q)
    PROVE  EventsOf(Append(q, m), S) /\ ExitLast(Append(q, m))
<1>1. /\ Len(q) \in Nat /\ DOMAIN q = 1..Len(q) /\ DOMAIN Append(q, m) = 1..Len(q) + 1
      /\ Append(q, m)[Len(q) + 1] = m
      /\ \A i \in DOMAIN q : Append(q, m)[i] = q[i]
  BY Appended
<1> DEFINE r == Append(q, m)
<1>2. /\ \A i \in DOMAIN r : i \in DOMAIN q \/ r[i] = m
      /\ \A i \in DOMAIN q : r[i] = q[i]
  BY <1>1
<1> HIDE DEF r
<1>3. \A i \in DOMAIN r : r[i].kind # "heartbeat" => i \in DOMAIN q /\ r[i] = q[i]
  BY <1>2
<1>4. EventsOf(r, S)  BY <1>3 DEF EventsOf
<1>5. ASSUME NEW i \in DOMAIN r, NEW k \in DOMAIN r, r[i].kind = "exit", k > i,
             r[k].kind # "heartbeat"
      PROVE  r[k].job # r[i].job
  <2>1. i \in DOMAIN q /\ k \in DOMAIN q /\ r[i] = q[i] /\ r[k] = q[k]  BY <1>3, <1>5
  <2> QED BY <1>5, <2>1 DEF ExitLast
<1>6. ExitLast(r)  BY <1>5, Zenon DEF ExitLast
<1> QED BY <1>4, <1>6 DEF r

LEMMA ReportTaken ==
    ASSUME NEW q \in Seq(Reports), q # <<>>, NEW S, EventsOf(q, S), ExitLast(q)
    PROVE  /\ EventsOf(Tail(q), S) /\ ExitLast(Tail(q))
           /\ Head(q).kind = "exit" => /\ EventsOf(Tail(q), S \ {Head(q).job})
                                       /\ NoneOf(Tail(q), "exit", Head(q).job)
<1> DEFINE r == Tail(q)
<1>1. /\ Head(q) = q[1] /\ 1 \in DOMAIN q
      /\ \A i \in DOMAIN r : i \in Nat /\ i + 1 \in DOMAIN q /\ r[i] = q[i + 1]
  BY Taken
<1>2. \A i \in DOMAIN r : i > 0
  <2>1. DOMAIN r = 1..Len(r)  OBVIOUS
  <2> QED BY <2>1
<1> HIDE DEF r
<1>3. \A i \in DOMAIN r : i + 1 > 1  BY <1>1, <1>2
<1>4. \A i, k \in DOMAIN r : k > i => k + 1 > i + 1  BY <1>1
<1>5. EventsOf(r, S)  BY <1>1, Zenon DEF EventsOf
<1>6. ExitLast(r)
  <2>1. ASSUME NEW i \in DOMAIN r, NEW k \in DOMAIN r, r[i].kind = "exit", k > i,
               r[k].kind # "heartbeat"
        PROVE  r[k].job # r[i].job
    <3>1. /\ i + 1 \in DOMAIN q /\ k + 1 \in DOMAIN q /\ q[i + 1].kind = "exit" /\ k + 1 > i + 1
          /\ r[k] = q[k + 1] /\ r[i] = q[i + 1] /\ q[k + 1].kind # "heartbeat"
      BY <1>1, <1>4, <2>1
    <3>2. q[k + 1].job # q[i + 1].job  BY <3>1, Zenon DEF ExitLast
    <3> QED BY <3>1, <3>2
  <2> QED BY <2>1, Zenon DEF ExitLast
<1>7. ASSUME Head(q).kind = "exit"
      PROVE  EventsOf(r, S \ {Head(q).job}) /\ NoneOf(r, "exit", Head(q).job)
  <2>1. ASSUME NEW i \in DOMAIN r, r[i].kind # "heartbeat" PROVE r[i].job # Head(q).job
    <3>1. /\ i + 1 \in DOMAIN q /\ r[i] = q[i + 1] /\ i + 1 > 1 /\ q[i + 1].kind # "heartbeat"
          /\ q[1].kind = "exit" /\ 1 \in DOMAIN q
      BY <1>1, <1>3, <1>7, <2>1
    <3>2. q[i + 1].job # q[1].job  BY <3>1, Zenon DEF ExitLast
    <3> QED BY <1>1, <3>1, <3>2
  <2>2. \A i \in DOMAIN r : r[i].kind = "exit" => r[i].kind # "heartbeat"  OBVIOUS
  <2>3. EventsOf(r, S \ {Head(q).job})  BY <1>5, <2>1 DEF EventsOf
  <2>4. NoneOf(r, "exit", Head(q).job)  BY <2>1, <2>2 DEF NoneOf, Is
  <2> QED BY <2>3, <2>4
<1> QED BY <1>5, <1>6, <1>7 DEF r

\* The channels after a step: nothing is lost or added that says where a job is.
OrdersKept ==
    /\ down' \in Seq(Orders) /\ (~connected => down' = <<>>)
    /\ \A S : (\A i \in DOMAIN down : down[i].kind = "assign" => down[i].job \in S)
             => (\A i \in DOMAIN down' : down'[i].kind = "assign" => down'[i].job \in S)
    /\ \A j \in Jobs : NoneOf(down, "assign", j) => NoneOf(down', "assign", j)
    /\ \A j \in Jobs : OneOf(down, "assign", j) => OneOf(down', "assign", j)

ReportsKept ==
    /\ up' \in Seq(Reports) /\ (~registered => up' = <<>>)
    /\ EventsOf(up', Known) /\ ExitLast(up')
    /\ \A j \in Jobs : NoneOf(up, "exit", j) => NoneOf(up', "exit", j)

ExitsKept == \A j \in Jobs : OneOf(up, "exit", j) => OneOf(up', "exit", j)

\* Messages come and go, and the job stays where it is.
LEMMA ChannelsInv ==
    ASSUME StreamInv,
           UNCHANGED <<registered, current_job, finished, abandoned, dropped, connected, active>>,
           UNCHANGED <<task, outcome, process>>, sending' \in Jobs \cup {None},
           OrdersKept, ReportsKept,
           registered /\ connected /\ current_job # None => JobSomewhere(current_job)'
    PROVE  StreamInv'
<1>1. (\A j \in Jobs : ended(j)' <=> ended(j)) /\ Known' = Known  BY TasksKept DEF Known
<1>2. WorkerType'  BY DEF StreamInv, WorkerType, OrdersKept, ReportsKept
<1>3. JobsInv'
  <2>1. \A i \in DOMAIN down' : down'[i].kind = "assign" => down'[i].job \in Unbegun
    BY Zenon DEF StreamInv, JobsInv, OrdersKept
  <2>2. Unbegun' = Unbegun  BY <1>1 DEF Unbegun
  <2>3. \A j \in Jobs : NoneOf(down', "assign", j) \/ OneOf(down', "assign", j)
    BY DEF StreamInv, JobsInv, OrdersKept
  <2> QED BY <1>1, <2>1, <2>2, <2>3 DEF StreamInv, JobsInv
<1>4. ConnectionInv'  BY DEF StreamInv, ConnectionInv, OrdersKept, ReportsKept
<1>5. UpInv'  BY <1>1 DEF StreamInv, UpInv, ReportsKept
<1>6. AgreementInv'
  <2> SUFFICES ASSUME registered, connected
               PROVE  /\ AssignsOf(down', Known)
                      /\ active \notin Known \cup {None} => ended(active)'
    BY <1>1 DEF AgreementInv
  <2>1. /\ AssignsOf(down, Known)
        /\ active \notin Known \cup {None} => ended(active)
        /\ active \in Jobs \cup {None}
    BY DEF StreamInv, AgreementInv, WorkerType
  <2>2. AssignsOf(down', Known)  BY <2>1, Zenon DEF AssignsOf, OrdersKept
  <2> QED BY <1>1, <2>1, <2>2
<1> QED BY <1>2, <1>3, <1>4, <1>5, <1>6 DEF StreamInv

LEMMA QuietInv ==
    ASSUME StreamInv,
           UNCHANGED <<registered, current_job, finished, abandoned, dropped, connected, active>>,
           UNCHANGED <<task, outcome, process>>, sending' \in Jobs \cup {None},
           OrdersKept, ReportsKept, ExitsKept
    PROVE  StreamInv'
<1>1. ASSUME registered, connected, current_job # None PROVE JobSomewhere(current_job)'
  <2>1. PICK c \in Jobs : c = current_job  BY <1>1 DEF StreamInv, WorkerType
  <2>2. JobSomewhere(c)  BY <1>1, <2>1 DEF StreamInv, AgreementInv
  <2>3. ended(c)' <=> ended(c)  BY TasksKept
  <2>4. JobSomewhere(c)'
    BY <2>2, <2>3, SomewhereKept DEF OrdersKept, ReportsKept, ExitsKept
  <2> QED BY <2>1, <2>4
<1> QED BY <1>1, ChannelsInv

\* A channel that is left as it was.
LEMMA SameOrders == ASSUME StreamInv, UNCHANGED down PROVE OrdersKept
  BY DEF StreamInv, WorkerType, ConnectionInv, OrdersKept

LEMMA SameReports == ASSUME StreamInv, UNCHANGED up PROVE ReportsKept /\ ExitsKept
  BY DEF StreamInv, WorkerType, ConnectionInv, UpInv, ReportsKept, ExitsKept

\* send_command, and the five seconds that are over.
LEMMA AsideInv == ASSUME StreamInv, SendCommand \/ RecentExpires PROVE StreamInv'
<1>1. /\ UNCHANGED <<registered, current_job, finished, abandoned, dropped, connected, active>>
      /\ UNCHANGED <<task, outcome, process>> /\ UNCHANGED down /\ UNCHANGED up
  BY DEF SendCommand, RecentExpires, session, entry, client, execution
<1>2. sending' \in Jobs \cup {None}
  BY DEF SendCommand, RecentExpires, StreamInv, WorkerType
<1> QED BY <1>1, <1>2, SameOrders, SameReports, QuietInv

\* A command joins the channel to the worker.
LEMMA CommandJoins ==
    ASSUME StreamInv, NEW command \in Commands, NEW j \in Jobs,
           toWorker(message(command, j, NoValue))
    PROVE  OrdersKept
<1> DEFINE m == message(command, j, NoValue)
<1>1. m \in Orders /\ m.kind # "assign" /\ \A k : ~Is(m, "assign", k)
  <2>1. command \in {"assign"} \cup Commands /\ command # "assign"  BY DEF Commands
  <2> QED BY <2>1, IsOrder, MessageFields DEF Is
<1>2. down' = IF connected THEN Append(down, m) ELSE down  BY DEF toWorker
<1>3. down \in Seq(Orders) /\ (~connected => down = <<>>)
  BY DEF StreamInv, WorkerType, ConnectionInv
<1> HIDE DEF m
<1>4. CASE connected
  <2>1. Append(down, m) \in Seq(Orders)  BY <1>1, <1>3, Appended
  <2>2. \A k \in Jobs :
           /\ NoneOf(down, "assign", k) => NoneOf(Append(down, m), "assign", k)
           /\ OneOf(down, "assign", k) => OneOf(Append(down, m), "assign", k)
    BY <1>1, <1>3, KindAppended
  <2>3. \A S : (\A i \in DOMAIN down : down[i].kind = "assign" => down[i].job \in S)
                 => (\A i \in DOMAIN Append(down, m) :
                        Append(down, m)[i].kind = "assign" => Append(down, m)[i].job \in S)
    BY <1>1, <1>3, OrderAppended
  <2>4. down' = Append(down, m)  BY <1>2, <1>4
  <2> QED BY <1>4, <2>1, <2>2, <2>3, <2>4 DEF OrdersKept
<1>5. CASE ~connected  BY <1>2, <1>5, SameOrders
<1> QED BY <1>4, <1>5

\* What is known of the events in the channel.
LEMMA UpFacts ==
    StreamInv => /\ down \in Seq(Orders) /\ up \in Seq(Reports) /\ sending \in Jobs \cup {None}
                 /\ EventsOf(up, Known) /\ ExitLast(up)
                 /\ ~registered => up = <<>>
                 /\ ~connected => down = <<>>
  BY DEF StreamInv, WorkerType, UpInv, ConnectionInv

\* The first report is taken.
LEMMA ReportsTaken ==
    ASSUME StreamInv, registered, up # <<>>, up' = Tail(up)
    PROVE  /\ ReportsKept
           /\ Head(up).kind # "exit" => ExitsKept
           /\ \A j \in Jobs : Is(Head(up), "exit", j) => NoneOf(up', "exit", j)
<1>1. up \in Seq(Reports) /\ EventsOf(up, Known) /\ ExitLast(up)  BY UpFacts
<1>2. EventsOf(up', Known) /\ ExitLast(up')  BY <1>1, ReportTaken
<1>3. \A j \in Jobs : NoneOf(up, "exit", j) => NoneOf(up', "exit", j)  BY <1>1, KindTaken
<1>4. up' \in Seq(Reports)  BY <1>1, Taken
<1>5. ASSUME Head(up).kind # "exit" PROVE ExitsKept
  <2>1. \A j : ~Is(Head(up), "exit", j)  BY <1>5 DEF Is
  <2> QED BY <1>1, <2>1, KindTaken DEF ExitsKept
<1>6. ASSUME NEW j \in Jobs, Is(Head(up), "exit", j) PROVE NoneOf(up', "exit", j)
  <2>1. Head(up).kind = "exit" /\ Head(up).job = j  BY <1>6 DEF Is
  <2>2. NoneOf(Tail(up), "exit", Head(up).job)  BY <1>1, <2>1, ReportTaken
  <2> QED BY <2>1, <2>2
<1> QED BY <1>2, <1>3, <1>4, <1>5, <1>6 DEF ReportsKept

LEMMA CommandSentInv ==
    ASSUME StreamInv, NEW command \in Commands, CommandSent(command) PROVE StreamInv'
<1>1. /\ sending \in Jobs /\ sending' \in Jobs \cup {None}
      /\ UNCHANGED client /\ UNCHANGED execution /\ UNCHANGED <<task, outcome, process>>
  BY UpFacts DEF CommandSent, execution
<1>2. CASE toWorker(message(command, sending, NoValue)) /\ UNCHANGED <<session, entry, up>>
  <2>1. /\ UNCHANGED <<registered, current_job, finished, abandoned, dropped, connected, active>>
        /\ UNCHANGED up
    BY <1>1, <1>2 DEF session, entry, client
  <2>2. OrdersKept  BY <1>1, <1>2, CommandJoins
  <2> QED BY <1>1, <2>1, <2>2, SameReports, QuietInv
<1>3. CASE unregister_worker /\ UNCHANGED down  BY <1>1, <1>3, UnregisterInv
<1>4. CASE UNCHANGED <<session, entry, down, up>>
  <2>1. /\ UNCHANGED <<registered, current_job, finished, abandoned, dropped, connected, active>>
        /\ UNCHANGED up /\ UNCHANGED down
    BY <1>1, <1>4 DEF session, entry, client
  <2> QED BY <1>1, <2>1, SameOrders, SameReports, QuietInv
<1> QED BY <1>2, <1>3, <1>4 DEF CommandSent

LEMMA HeartbeatArrivesInv == ASSUME StreamInv, HeartbeatArrives PROVE StreamInv'
<1>1. /\ up # <<>> /\ Head(up).kind # "exit" /\ registered
      /\ UNCHANGED sending /\ UNCHANGED down /\ UNCHANGED client /\ UNCHANGED execution
      /\ UNCHANGED <<task, outcome, process>>
  BY DEF HeartbeatArrives, execution
<1>2. sending' \in Jobs \cup {None}  BY <1>1, UpFacts
<1>3. CASE up' = Tail(up) /\ UNCHANGED <<session, entry>>
  <2>1. UNCHANGED <<registered, current_job, finished, abandoned, dropped, connected, active>>
    BY <1>1, <1>3 DEF session, entry, client
  <2>2. ReportsKept /\ ExitsKept  BY <1>1, <1>3, ReportsTaken
  <2> QED BY <1>1, <1>2, <2>1, <2>2, SameOrders, QuietInv
<1>4. CASE unregister_worker  BY <1>1, <1>2, <1>4, UnregisterInv
<1> QED BY <1>3, <1>4 DEF HeartbeatArrives

LEMMA HeartbeatInv == ASSUME StreamInv, Heartbeat PROVE StreamInv'
<1> DEFINE m == message("heartbeat", active, NoValue)
<1>1. /\ registered /\ up' = Append(up, m)
      /\ UNCHANGED <<registered, current_job, finished, abandoned, dropped, connected, active>>
      /\ UNCHANGED <<task, outcome, process>> /\ UNCHANGED down /\ UNCHANGED sending
  BY DEF Heartbeat, api, session, entry, client, execution
<1>2. m \in Reports /\ m.kind = "heartbeat"
  <2>1. active \in Jobs \cup {None}  BY DEF StreamInv, WorkerType
  <2>2. NoValue \in {"compiling", "running", NoValue} \cup EndPhases  OBVIOUS
  <2>3. message("heartbeat", active, NoValue) \in Reports  BY <2>1, <2>2, IsReport
  <2> QED BY <2>3, MessageFields
<1> HIDE DEF m
<1>3. \A j : ~Is(m, "exit", j)  BY <1>2 DEF Is
<1>4. up' \in Seq(Reports)  BY <1>1, <1>2, UpFacts, Appended
<1>5. EventsOf(up', Known) /\ ExitLast(up')  BY <1>1, <1>2, UpFacts, HeartbeatAppended
<1>6. up \in Seq(Reports) /\ sending' \in Jobs \cup {None}  BY <1>1, UpFacts
<1>7. \A j \in Jobs : /\ NoneOf(up, "exit", j) => NoneOf(up', "exit", j)
                      /\ OneOf(up, "exit", j) => OneOf(up', "exit", j)
  BY <1>1, <1>2, <1>3, <1>6, KindAppended
<1>8. ReportsKept /\ ExitsKept  BY <1>1, <1>4, <1>5, <1>7 DEF ReportsKept, ExitsKept
<1> QED BY <1>1, <1>6, <1>8, SameOrders, QuietInv

\* The exit of the job ends its session.
LEMMA ExitArrivesInv ==
    ASSUME StreamInv, registered, up # <<>>, Head(up).kind = "exit", Head(up).job = current_job,
           current_job \notin finished, complete_session, up' = Tail(up),
           UNCHANGED <<registered, abandoned, sending, down>>,
           UNCHANGED client, UNCHANGED execution
    PROVE  StreamInv'
<1>1. /\ current_job' = None /\ finished' = finished \cup {current_job} /\ dropped' = FALSE
      /\ UNCHANGED <<connected, active, task, outcome, process>>
  BY DEF complete_session, free, client, execution
<1>2. up \in Seq(Reports) /\ EventsOf(up, Known) /\ ExitLast(up)  BY UpFacts
<1>3. Head(up) = up[1] /\ 1 \in DOMAIN up /\ Tail(up) \in Seq(Reports)  BY <1>2, Taken
<1>4. current_job \in Known  BY <1>2, <1>3 DEF EventsOf
<1>5. current_job \in Jobs /\ current_job # None
  BY <1>4, JobNumbers DEF Known, StreamInv, WorkerType
<1>6. ~NoneOf(up, "exit", current_job)  BY <1>3 DEF NoneOf, Is
<1>7. ended(current_job)  BY <1>5, <1>6 DEF StreamInv, UpInv
<1>8. Known \ {current_job} = abandoned /\ Known' = abandoned
  BY <1>1 DEF Known, StreamInv, WorkerType
<1>9. EventsOf(up', Known') /\ ExitLast(up')  BY <1>2, <1>8, ReportTaken
<1>10. WorkerType'  BY <1>1, <1>3, <1>5 DEF StreamInv, WorkerType
<1>11. JobsInv'
  <2>1. finished' \subseteq Jobs /\ finished \subseteq finished' /\ current_job \in finished'
    BY <1>1, <1>5 DEF StreamInv, WorkerType
  <2> QED BY <1>1, <2>1, JobOver
<1>12. ConnectionInv'  BY <1>1 DEF StreamInv, ConnectionInv
<1>13. UpInv'
  <2>1. \A j \in Jobs : NoneOf(up, "exit", j) => NoneOf(up', "exit", j)  BY <1>2, KindTaken
  <2>2. \A j \in Jobs : ended(j)' <=> ended(j)  BY <1>1, TasksKept
  <2> QED BY <1>9, <2>1, <2>2 DEF StreamInv, UpInv
<1>14. AgreementInv'
  <2> SUFFICES ASSUME connected
               PROVE  /\ AssignsOf(down, abandoned)
                      /\ active \notin abandoned \cup {None} => ended(active)'
    BY <1>1, <1>8 DEF AgreementInv
  <2>1. /\ AssignsOf(down, Known)
        /\ active \notin Known \cup {None} => ended(active)
        /\ JobSomewhere(current_job)
    BY <1>5 DEF StreamInv, AgreementInv
  <2>2. NoneOf(down, "assign", current_job)
    BY <1>6, <2>1, Zenon DEF JobSomewhere, OnItsWay, InWork, ExitSent, ExitLost, ExitTaken
  <2>3. AssignsOf(down, abandoned)
    <3>1. \A i \in DOMAIN down : down[i].kind = "assign" => down[i].job # current_job
      BY <2>2 DEF NoneOf, Is
    <3> QED BY <1>8, <2>1, <3>1 DEF AssignsOf
  <2>4. active \notin abandoned \cup {None} => ended(active)  BY <1>7, <1>8, <2>1
  <2>5. active \notin abandoned \cup {None} => ended(active)'  BY <1>1, <2>4 DEF ended
  <2> QED BY <2>3, <2>5
<1> QED BY <1>10, <1>11, <1>12, <1>13, <1>14 DEF StreamInv

\* An exit between the two locks of a cancel that was late.
LEMMA ExitIgnoredInv ==
    ASSUME StreamInv, registered, up # <<>>, Head(up).kind = "exit", Head(up).job = current_job,
           current_job \in finished, up' = Tail(up), UNCHANGED <<sending, down>>,
           UNCHANGED <<registered, current_job, finished, abandoned, dropped, connected, active>>,
           UNCHANGED <<task, outcome, process>>
    PROVE  StreamInv'
<1>1. current_job \in Jobs  BY DEF StreamInv, WorkerType
<1>2. up \in Seq(Reports) /\ sending' \in Jobs \cup {None}  BY UpFacts
<1>3. Head(up) = up[1] /\ 1 \in DOMAIN up  BY <1>2, Taken
<1>4. Is(Head(up), "exit", current_job)  BY DEF Is
<1>5. ~NoneOf(up, "exit", current_job)  BY <1>3, <1>4 DEF NoneOf
<1>6. ReportsKept /\ NoneOf(up', "exit", current_job)  BY <1>1, <1>4, ReportsTaken
<1>7. ASSUME connected PROVE JobSomewhere(current_job)'
  <2>1. JobSomewhere(current_job)  BY <1>1, <1>7, JobNumbers DEF StreamInv, AgreementInv
  <2>2. ended(current_job) /\ NoneOf(down, "assign", current_job)
    BY <1>5, <2>1, Zenon DEF JobSomewhere, OnItsWay, InWork, ExitSent, ExitLost, ExitTaken
  <2>3. ExitTaken(current_job)'  BY <1>6, <2>2 DEF ExitTaken, ended
  <2> QED BY <2>3 DEF JobSomewhere
<1> QED BY <1>2, <1>6, <1>7, SameOrders, ChannelsInv

LEMMA EventArrivesInv ==
    ASSUME StreamInv, NEW limited \in BOOLEAN, EventArrives(limited) PROVE StreamInv'
<1> DEFINE m == Head(up)
<1>1. /\ registered /\ up # <<>> /\ m.kind # "heartbeat"
      /\ UNCHANGED sending /\ UNCHANGED client /\ UNCHANGED execution
      /\ UNCHANGED <<connected, active, task, outcome, process>>
      /\ m.kind = "exit" => ~limited
  BY DEF EventArrives, client, execution
<1>2. sending' \in Jobs \cup {None}  BY <1>1, UpFacts
<1>3. CASE unregister_worker /\ UNCHANGED down  BY <1>1, <1>2, <1>3, UnregisterInv
<1>4. CASE apply(m, limited) /\ up' = Tail(up) /\ UNCHANGED <<registered, abandoned>>
           /\ m.job = current_job
  <2>1. CASE m.kind = "exit" /\ current_job \notin finished
    <3>1. complete_session /\ UNCHANGED down  BY <1>1, <1>4, <2>1 DEF apply
    <3> QED BY <1>1, <1>4, <2>1, <3>1, ExitArrivesInv
  <2>2. CASE m.kind = "exit" /\ current_job \in finished
    <3>1. UNCHANGED <<current_job, finished, dropped, down>>
      BY <1>4, <2>2 DEF apply, session
    <3> QED BY <1>1, <1>4, <2>2, <3>1, ExitIgnoredInv
  <2>3. CASE m.kind # "exit"
    <3>1. /\ UNCHANGED <<current_job, finished, dropped>>
          /\ toWorker(message("stop", m.job, NoValue)) \/ UNCHANGED down
      BY <1>4, <2>3 DEF apply, session
    <3>2. ReportsKept /\ ExitsKept  BY <1>1, <1>4, <2>3, ReportsTaken
    <3>3. m.job \in Jobs
      <4>1. up \in Seq(Reports) /\ EventsOf(up, Known)  BY UpFacts
      <4>2. m = up[1] /\ 1 \in DOMAIN up  BY <1>1, <4>1, Taken
      <4>3. m.job \in Known  BY <1>1, <4>1, <4>2 DEF EventsOf
      <4> QED BY <4>3 DEF Known, StreamInv, WorkerType
    <3>4. OrdersKept
      <4>1. CASE toWorker(message("stop", m.job, NoValue))
        <5>1. "stop" \in Commands  BY DEF Commands
        <5> QED BY <3>3, <4>1, <5>1, CommandJoins
      <4>2. CASE UNCHANGED down  BY <4>2, SameOrders
      <4> QED BY <3>1, <4>1, <4>2
    <3> QED BY <1>1, <1>2, <1>4, <3>1, <3>2, <3>4, QuietInv
  <2> QED BY <2>1, <2>2, <2>3
<1> QED BY <1>3, <1>4 DEF EventArrives

\* A cancel that was late: its first lock, and its second.
LEMMA LateCancelInv == ASSUME StreamInv, LateCancel PROVE StreamInv'
<1>1. /\ current_job \notin finished \cup {None}
      /\ finished' = finished \cup {current_job} /\ abandoned' = abandoned \cup {current_job}
      /\ UNCHANGED <<current_job, dropped, registered, sending, down, up, connected, active>>
      /\ UNCHANGED <<task, outcome, process>>
  BY DEF LateCancel, client, execution
<1>2. current_job \in Jobs /\ registered  BY <1>1 DEF StreamInv, WorkerType, ConnectionInv
<1>3. Known' = Known  BY <1>1 DEF Known
<1>4. WorkerType'  BY <1>1, <1>2 DEF StreamInv, WorkerType
<1>5. JobsInv'
  <2>1. finished' \cup {current_job'} = finished \cup {current_job}  BY <1>1
  <2>2. Unbegun' = Unbegun  BY <1>1, <2>1 DEF Unbegun
  <2>3. current_job' \in abandoned'  BY <1>1
  <2> QED BY <1>1, <2>1, <2>2, <2>3 DEF StreamInv, JobsInv
<1>6. ConnectionInv'  BY <1>1, <1>2 DEF StreamInv, ConnectionInv
<1>7. \A j \in Jobs : ended(j)' <=> ended(j)  BY <1>1, TasksKept
<1>8. UpInv'  BY <1>1, <1>3, <1>7 DEF StreamInv, UpInv
<1>9. ASSUME JobSomewhere(current_job) PROVE JobSomewhere(current_job)'
  <2>1. current_job \in finished => current_job \in finished'  BY <1>1
  <2>2. PICK c \in Jobs : c = current_job /\ c = current_job'  BY <1>1, <1>2
  <2>3. JobSomewhere(c)'  BY <1>1, <1>7, <1>9, <2>1, <2>2, SomewhereKept
  <2> QED BY <2>2, <2>3
<1>10. AgreementInv'
  BY <1>1, <1>3, <1>7, <1>9 DEF StreamInv, AgreementInv, WorkerType
<1> QED BY <1>4, <1>5, <1>6, <1>8, <1>10 DEF StreamInv

LEMMA LateCancelFreesInv == ASSUME StreamInv, LateCancelFrees PROVE StreamInv'
<1>1. /\ current_job \in finished /\ current_job' = None /\ dropped' = FALSE
      /\ UNCHANGED <<finished, registered, abandoned, sending, down, up, connected, active>>
      /\ UNCHANGED <<task, outcome, process>>
  BY DEF LateCancelFrees, free, client, execution
<1>2. current_job \in abandoned /\ current_job # None /\ None \notin abandoned
  BY <1>1, JobNumbers DEF StreamInv, JobsInv, WorkerType
<1>3. Known' = Known  BY <1>1, <1>2 DEF Known
<1>4. WorkerType'  BY <1>1 DEF StreamInv, WorkerType
<1>5. JobsInv'
  <2>1. finished' \subseteq Jobs /\ finished \subseteq finished'
        /\ (current_job # None => current_job \in finished')
    BY <1>1 DEF StreamInv, WorkerType
  <2> QED BY <1>1, <2>1, JobOver
<1>6. ConnectionInv'  BY <1>1 DEF StreamInv, ConnectionInv
<1>7. \A j \in Jobs : ended(j)' <=> ended(j)  BY <1>1, TasksKept
<1>8. UpInv'  BY <1>1, <1>3, <1>7 DEF StreamInv, UpInv
<1>9. AgreementInv'
  BY <1>1, <1>3, <1>7 DEF StreamInv, AgreementInv, WorkerType
<1> QED BY <1>4, <1>5, <1>6, <1>8, <1>9 DEF StreamInv

LEMMA StreamEndsInv == ASSUME StreamInv, StreamEnds PROVE StreamInv'
<1>1. sending' \in Jobs \cup {None}  BY UpFacts DEF StreamEnds
<1> QED BY <1>1, UnregisterInv DEF StreamEnds

\* The next job, whose task has not begun.
LEMMA NextJob ==
    ASSUME StreamInv, NEW j \in Jobs, current_job = None, finished = 1..(j - 1)
    PROVE  /\ j \notin finished /\ task[j] = "none" /\ active # j
           /\ NoneOf(down, "assign", j) /\ NoneOf(up, "exit", j)
<1>1. j \notin finished \cup {current_job}
  BY CapacityAssumption DEF Jobs, None
<1>2. task[j] = "none"  BY <1>1 DEF StreamInv, JobsInv
<1>3. active # j  BY <1>2, JobNumbers DEF StreamInv, JobsInv
<1>4. NoneOf(down, "assign", j)  BY <1>1, Zenon DEF StreamInv, JobsInv, Unbegun, NoneOf, Is
<1>5. ~ended(j)  BY <1>2 DEF ended
<1>6. NoneOf(up, "exit", j)  BY <1>5 DEF StreamInv, UpInv
<1> QED BY <1>1, <1>2, <1>3, <1>4, <1>6

LEMMA DispatchInv == ASSUME StreamInv, NEW j \in Jobs, Dispatch(j) PROVE StreamInv'
<1>1. /\ registered /\ current_job = None /\ finished = 1..(j - 1)
      /\ UNCHANGED sending /\ UNCHANGED client /\ UNCHANGED execution
      /\ UNCHANGED <<connected, active, task, outcome, process>>
  BY DEF Dispatch, client, execution
<1>2. CASE unregister_worker /\ UNCHANGED down
  <2>1. sending' \in Jobs \cup {None}  BY <1>1, UpFacts
  <2> QED BY <1>1, <1>2, <2>1, UnregisterInv
<1>3. CASE /\ toWorker(message("assign", j, NoValue)) /\ current_job' = j
           /\ UNCHANGED <<registered, abandoned, finished, dropped, up>>
  <2> DEFINE m == message("assign", j, NoValue)
  <2>1. /\ m \in Orders /\ m.kind = "assign" /\ m.job = j
        /\ Is(m, "assign", j) /\ \A k : k # j => ~Is(m, "assign", k)
    BY IsOrder, MessageFields DEF Is
  <2>2. down' = IF connected THEN Append(down, m) ELSE down  BY <1>3 DEF toWorker
  <2> HIDE DEF m
  <2>3. /\ j \notin finished /\ task[j] = "none" /\ active # j
        /\ NoneOf(down, "assign", j) /\ NoneOf(up, "exit", j)
    BY <1>1, NextJob
  <2>4. /\ down \in Seq(Orders) /\ (~connected => down = <<>>) /\ ~dropped
    BY <1>1, UpFacts DEF StreamInv, ConnectionInv
  <2>5. /\ down' \in Seq(Orders)
        /\ ~connected => down' = <<>>
    BY <2>1, <2>2, <2>4, Appended
  <2>6. WorkerType'  BY <1>1, <1>3, <2>5 DEF StreamInv, WorkerType
  <2>7. Known' = Known \cup {j}  BY <1>1, <1>3, JobNumbers DEF Known
  <2>8. \A k \in Jobs : ended(k)' <=> ended(k)  BY <1>1, TasksKept
  <2>9. connected => OneOf(down', "assign", j)
    BY <2>1, <2>2, <2>3, <2>4, KindAppended
  <2>10. \A k \in Jobs \ {j} :
             /\ NoneOf(down, "assign", k) => NoneOf(down', "assign", k)
             /\ OneOf(down, "assign", k) => OneOf(down', "assign", k)
    BY <2>1, <2>2, <2>4, KindAppended
  <2>11. ASSUME NEW S, j \in S,
                \A i \in DOMAIN down : down[i].kind = "assign" => down[i].job \in S
         PROVE  \A i \in DOMAIN down' : down'[i].kind = "assign" => down'[i].job \in S
    <3>1. m.kind # "assign" \/ m.job \in S  BY <2>1, <2>11
    <3>2. CASE connected
      <4>1. down' = Append(down, m)  BY <2>2, <3>2
      <4> QED BY <2>1, <2>4, <2>11, <3>1, <4>1, OrderAppended
    <3>3. CASE ~connected
      <4>1. down' = down  BY <2>2, <3>3
      <4> QED BY <2>11, <4>1
    <3> QED BY <3>2, <3>3 DEF StreamInv, WorkerType
  <2>12. JobsInv'
    <3>1. \A k \in Jobs : k \notin finished' \cup {current_job'} => task'[k] = "none"
      BY <1>1, <1>3, JobNumbers DEF StreamInv, JobsInv
    <3>2. Unbegun \subseteq Unbegun' /\ j \in Unbegun'
      BY <1>1, <1>3, <2>3, JobNumbers DEF Unbegun
    <3>3. \A i \in DOMAIN down : down[i].kind = "assign" => down[i].job \in Unbegun'
      BY <3>2 DEF StreamInv, JobsInv
    <3>4. \A i \in DOMAIN down' : down'[i].kind = "assign" => down'[i].job \in Unbegun'
      BY <2>11, <3>2, <3>3
    <3>5. ASSUME NEW k \in Jobs PROVE NoneOf(down', "assign", k) \/ OneOf(down', "assign", k)
      <4>1. CASE k = j
        <5>1. CASE connected  BY <2>9, <4>1, <5>1
        <5>2. CASE ~connected
          <6>1. DOMAIN down' = {}  BY <2>5, <5>2
          <6> QED BY <6>1 DEF NoneOf
        <5> QED BY <5>1, <5>2 DEF StreamInv, WorkerType
      <4>2. CASE k # j  BY <2>10, <4>2 DEF StreamInv, JobsInv
      <4> QED BY <4>1, <4>2
    <3>6. /\ \A k \in Jobs : process'[k] => task'[k] \in {"compile", "run"}
          /\ active' # None => task'[active'] # "none"
      BY <1>1 DEF StreamInv, JobsInv
    <3>7. current_job' \notin finished'  BY <1>3, <2>3
    <3> QED BY <3>1, <3>4, <3>5, <3>6, <3>7, Zenon DEF JobsInv
  <2>13. ConnectionInv'  BY <1>1, <1>3, <2>5, JobNumbers DEF StreamInv, ConnectionInv
  <2>14. UpInv'  BY <1>3, <2>7, <2>8 DEF StreamInv, UpInv, EventsOf
  <2>15. AgreementInv'
    <3> SUFFICES ASSUME connected
                 PROVE  /\ AssignsOf(down', Known \cup {j})
                        /\ active \notin Known \cup {j} \cup {None} => ended(active)'
                        /\ JobSomewhere(j)'
      BY <1>1, <1>3, <2>7 DEF AgreementInv
    <3>1. /\ AssignsOf(down, Known)
          /\ active \notin Known \cup {None} => ended(active)
          /\ active \in Jobs \cup {None}
      BY <1>1 DEF StreamInv, AgreementInv, WorkerType
    <3>2. \A i \in DOMAIN down : down[i].kind = "assign" => down[i].job \in Known \cup {j}
      BY <3>1 DEF AssignsOf
    <3>3. AssignsOf(down', Known \cup {j})  BY <2>11, <3>2 DEF AssignsOf
    <3>4. OnItsWay(j)'  BY <1>1, <1>3, <2>3, <2>4, <2>9 DEF OnItsWay
    <3>5. active \notin Known \cup {j} \cup {None} => ended(active)'  BY <1>1, <2>8, <3>1
    <3>6. JobSomewhere(j)'  BY <3>4 DEF JobSomewhere
    <3> QED BY <3>3, <3>5, <3>6
  <2> QED BY <2>6, <2>12, <2>13, <2>14, <2>15 DEF StreamInv
<1> QED BY <1>2, <1>3 DEF Dispatch, entry

LEMMA ConnectInv == ASSUME StreamInv, Connect PROVE StreamInv'
<1>1. /\ ~connected /\ ~registered /\ connected' = TRUE /\ registered' = TRUE
      /\ UNCHANGED <<current_job, finished, abandoned, dropped, sending, down, up, active>>
      /\ UNCHANGED <<task, outcome, process>>
  BY DEF Connect, session, execution
<1>2. /\ current_job = None /\ active = None /\ down = <<>> /\ up = <<>> /\ ~dropped
      /\ abandoned = {}
  BY <1>1 DEF StreamInv, ConnectionInv
<1>3. WorkerType'  BY <1>1 DEF StreamInv, WorkerType
<1>4. JobsInv'  BY <1>1 DEF StreamInv, JobsInv, Unbegun
<1>5. ConnectionInv'  BY <1>1, <1>2 DEF ConnectionInv
<1>6. UpInv'  BY <1>1, <1>2, NothingIn DEF UpInv
<1>7. AgreementInv'
  <2>1. DOMAIN down' = {}  BY <1>1, <1>2
  <2> QED BY <1>1, <1>2, <2>1 DEF AgreementInv, AssignsOf
<1> QED BY <1>3, <1>4, <1>5, <1>6, <1>7 DEF StreamInv

\* A task begins: that of the job the API waits for, or of one it completed without a word.
LEMMA BeginsInv ==
    ASSUME StreamInv, connected, down # <<>>, Head(down).kind = "assign", active = None,
           active' = Head(down).job, task' = [task EXCEPT ![Head(down).job] = "prepare"],
           down' = Tail(down), UNCHANGED <<connected, outcome>>, UNCHANGED <<api, up, process>>
    PROVE  StreamInv'
<1>1. UNCHANGED <<registered, current_job, finished, abandoned, dropped, sending, up, process,
                  connected, outcome>>
  BY DEF api, session, entry
<1>2. down \in Seq(Orders) /\ up \in Seq(Reports) /\ task \in [Jobs -> Stages]
  BY DEF StreamInv, WorkerType
<1>3. Head(down) = down[1] /\ 1 \in DOMAIN down /\ Tail(down) \in Seq(Orders)  BY <1>2, Taken
<1>4. PICK j \in Jobs : j = Head(down).job  BY <1>2, <1>3, OrdersIn
<1>5. j \in finished \cup {current_job} /\ task[j] = "none"
  BY <1>3, <1>4 DEF StreamInv, JobsInv, Unbegun
<1>6. Is(Head(down), "assign", j) /\ \A k : k # j => ~Is(Head(down), "assign", k)
  BY <1>4 DEF Is
<1>7. ~NoneOf(down, "assign", j) /\ OneOf(down, "assign", j)
  BY <1>3, <1>6 DEF StreamInv, JobsInv, NoneOf
<1>8. NoneOf(down', "assign", j)  BY <1>2, <1>6, <1>7, KindTaken
<1>9. \A k \in Jobs \ {j} :
          /\ NoneOf(down, "assign", k) => NoneOf(down', "assign", k)
          /\ OneOf(down, "assign", k) => OneOf(down', "assign", k)
  BY <1>2, <1>6, KindTaken
<1>10. \A S : (\A i \in DOMAIN down : down[i].kind = "assign" => down[i].job \in S)
                => (\A i \in DOMAIN down' : down'[i].kind = "assign" => down'[i].job \in S)
  BY <1>2, OrderTaken
<1>11. /\ task'[j] = "prepare" /\ \A k \in Jobs : k # j => task'[k] = task[k]
       /\ task' \in [Jobs -> Stages]
  BY <1>2, <1>4 DEF Stages
<1>12. /\ \A k \in Jobs : ended(k)' <=> ended(k)
       /\ ~ended(j) /\ ~ended(j)'
  BY <1>5, <1>11 DEF ended
<1>13. WorkerType'  BY <1>1, <1>3, <1>4, <1>11 DEF StreamInv, WorkerType
<1>14. JobsInv'
  <2>1. \A i \in DOMAIN down' : down'[i].kind = "assign" => down'[i].job \in Unbegun
    BY <1>10, Zenon DEF StreamInv, JobsInv
  <2>2. \A i \in DOMAIN down' : down'[i].kind = "assign" => down'[i].job # j
    BY <1>8 DEF NoneOf, Is
  <2>3. Unbegun \ {j} \subseteq Unbegun'  BY <1>1, <1>11 DEF Unbegun
  <2>4. \A i \in DOMAIN down' : down'[i].kind = "assign" => down'[i].job \in Unbegun'
    BY <2>1, <2>2, <2>3
  <2>5. \A k \in Jobs : k \notin finished \cup {current_job} => task'[k] = "none"
    BY <1>5, <1>11 DEF StreamInv, JobsInv
  <2>6. \A k \in Jobs : process[k] => task'[k] \in {"compile", "run"}
    BY <1>5, <1>11 DEF StreamInv, JobsInv
  <2>7. task'[active'] # "none"  BY <1>4, <1>11
  <2>8. \A k \in Jobs : NoneOf(down', "assign", k) \/ OneOf(down', "assign", k)
    BY <1>8, <1>9 DEF StreamInv, JobsInv
  <2>9. current_job \in finished => current_job \in abandoned  BY DEF StreamInv, JobsInv
  <2> QED BY <1>1, <2>4, <2>5, <2>6, <2>7, <2>8, <2>9, Zenon DEF JobsInv
<1>15. ConnectionInv'  BY <1>1 DEF StreamInv, ConnectionInv
<1>16. Known' = Known  BY <1>1 DEF Known
<1>17. UpInv'  BY <1>1, <1>12, <1>16 DEF StreamInv, UpInv
<1>18. AgreementInv'
  <2> SUFFICES ASSUME registered
               PROVE  /\ AssignsOf(down', Known)
                      /\ j \in Known
                      /\ current_job # None => JobSomewhere(current_job)'
    BY <1>1, <1>4, <1>16 DEF AgreementInv
  <2>1. /\ AssignsOf(down, Known)
        /\ current_job # None => JobSomewhere(current_job)
        /\ current_job \in Jobs \cup {None}
    BY DEF StreamInv, AgreementInv, WorkerType
  <2>2. AssignsOf(down', Known)  BY <1>10, <2>1, Zenon DEF AssignsOf
  <2>3. j \in Known  BY <1>3, <1>4, <2>1 DEF AssignsOf
  <2>4. ASSUME j = current_job PROVE JobSomewhere(j)'
    <3>1. JobSomewhere(j)  BY <2>1, <2>4, JobNumbers
    <3>2. OnItsWay(j)
      BY <1>7, <3>1, Zenon DEF JobSomewhere, OnItsWay, InWork, ExitSent, ExitLost, ExitTaken
    <3>3. InWork(j)'  BY <1>1, <1>4, <1>8, <1>12, <3>2 DEF OnItsWay, InWork
    <3> QED BY <3>3 DEF JobSomewhere
  <2>5. ASSUME current_job # None, j # current_job PROVE JobSomewhere(current_job)'
    <3>1. PICK c \in Jobs : c = current_job /\ c # j /\ c # None  BY <2>1, <2>5
    <3>2. JobSomewhere(c)  BY <2>1, <3>1
    <3>3. (active' = c) <=> (active = c)  BY <1>4, <3>1
    <3>4. JobSomewhere(c)'
      BY <1>1, <1>9, <1>11, <1>12, <3>1, <3>2, <3>3, SomewhereKept
    <3>5. current_job' = c  BY <1>1, <3>1
    <3> QED BY <3>1, <3>4, <3>5
  <2>6. j = current_job => JobSomewhere(current_job)'
    <3>1. current_job' = current_job  BY <1>1
    <3> QED BY <2>4, <3>1
  <2> QED BY <2>2, <2>3, <2>5, <2>6
<1> QED BY <1>13, <1>14, <1>15, <1>17, <1>18 DEF StreamInv

LEMMA AssignmentArrivesInv == ASSUME StreamInv, AssignmentArrives PROVE StreamInv'
<1>1. /\ connected /\ down # <<>> /\ Head(down).kind = "assign"
      /\ UNCHANGED <<api, up, process>>
  BY DEF AssignmentArrives
<1>2. CASE active # None  BY <1>1, <1>2, LeaveInv DEF AssignmentArrives
<1>3. CASE active = None
  <2>1. /\ active' = Head(down).job /\ task' = [task EXCEPT ![Head(down).job] = "prepare"]
        /\ down' = Tail(down) /\ UNCHANGED <<connected, outcome>>
    BY <1>3 DEF AssignmentArrives
  <2> QED BY <1>1, <1>3, <2>1, BeginsInv
<1> QED BY <1>2, <1>3

LEMMA CommandArrivesInv == ASSUME StreamInv, CommandArrives PROVE StreamInv'
<1>1. /\ connected /\ down # <<>> /\ Head(down).kind # "assign"
      /\ UNCHANGED <<api, up, process>>
  BY DEF CommandArrives
<1>2. CASE leave  BY <1>1, <1>2, LeaveInv
<1>3. CASE down' = Tail(down) /\ UNCHANGED <<client, task, outcome>>
  <2>1. /\ UNCHANGED <<registered, current_job, finished, abandoned, dropped, connected, active>>
        /\ UNCHANGED <<task, outcome, process>> /\ UNCHANGED up /\ UNCHANGED sending
    BY <1>1, <1>3 DEF api, session, entry, client
  <2>2. down \in Seq(Orders) /\ sending' \in Jobs \cup {None}  BY <2>1, UpFacts
  <2>3. down' \in Seq(Orders)  BY <1>1, <1>3, <2>2, Taken
  <2>4. \A k : ~Is(Head(down), "assign", k)  BY <1>1 DEF Is
  <2>5. \A k \in Jobs : /\ NoneOf(down, "assign", k) => NoneOf(down', "assign", k)
                        /\ OneOf(down, "assign", k) => OneOf(down', "assign", k)
    BY <1>1, <1>3, <2>2, <2>4, KindTaken
  <2>6. \A S : (\A i \in DOMAIN down : down[i].kind = "assign" => down[i].job \in S)
                 => (\A i \in DOMAIN down' : down'[i].kind = "assign" => down'[i].job \in S)
    BY <1>1, <1>3, <2>2, OrderTaken
  <2>7. OrdersKept  BY <1>1, <2>3, <2>5, <2>6 DEF OrdersKept
  <2> QED BY <2>1, <2>2, <2>7, SameReports, QuietInv
<1> QED BY <1>2, <1>3 DEF CommandArrives

LEMMA CompletedInv == ASSUME StreamInv, Completed PROVE StreamInv'
<1>1. /\ active # None /\ task[active] = "done" /\ active' = None
      /\ UNCHANGED <<registered, current_job, finished, abandoned, dropped, sending, down, up,
                     connected>>
      /\ UNCHANGED <<task, outcome, process>>
  BY DEF Completed, completionWaits, api, session, entry, execution
<1>2. ended(active) /\ Known' = Known  BY <1>1 DEF ended, Known
<1>3. WorkerType'  BY <1>1 DEF StreamInv, WorkerType
<1>4. JobsInv'  BY <1>1 DEF StreamInv, JobsInv, Unbegun
<1>5. ConnectionInv'  BY <1>1 DEF StreamInv, ConnectionInv
<1>6. UpInv'  BY <1>1, <1>2 DEF StreamInv, UpInv, ended
<1>7. AgreementInv'
  <2> SUFFICES ASSUME registered, connected
               PROVE  /\ AssignsOf(down, Known)
                      /\ current_job # None => JobSomewhere(current_job)'
    BY <1>1, <1>2 DEF AgreementInv
  <2>1. /\ AssignsOf(down, Known)
        /\ current_job # None => JobSomewhere(current_job)
    BY DEF StreamInv, AgreementInv
  <2>2. \A c : c # None /\ c = current_job /\ JobSomewhere(c) => JobSomewhere(c)'
    BY <1>1, <1>2 DEF JobSomewhere, OnItsWay, InWork, ExitSent, ExitLost, ExitTaken, ended
  <2> QED BY <1>1, <2>1, <2>2
<1> QED BY <1>3, <1>4, <1>5, <1>6, <1>7 DEF StreamInv

\* One step of either end, of a task, or of what happens to them.
LEMMA StepInv == StreamInv /\ [Next]_vars => StreamInv'
<1> SUFFICES ASSUME StreamInv, [Next]_vars PROVE StreamInv'
  OBVIOUS
<1>1. CASE StreamTask
  BY <1>1, HeartbeatArrivesInv, EventArrivesInv DEF StreamTask
<1>2. CASE RecentExpires \/ SendCommand  BY <1>2, AsideInv
<1>3. CASE StreamEnds \/ LateCancel \/ LateCancelFrees
  BY <1>3, StreamEndsInv, LateCancelInv, LateCancelFreesInv
<1>4. CASE Connect  BY <1>4, ConnectInv
<1>5. CASE ConnectionLoop
  BY <1>5, AssignmentArrivesInv, CommandArrivesInv, CompletedInv, LeaveInv
  DEF ConnectionLoop, EndOfStream
<1>6. CASE ConnectionFails  BY <1>6, LeaveInv DEF ConnectionFails
<1>7. CASE Heartbeat  BY <1>7, HeartbeatInv
<1>8. CASE \E command \in Commands : CommandSent(command)  BY <1>8, CommandSentInv
<1>9. ASSUME NEW j \in Jobs, Finishing(j) PROVE StreamInv'
  BY <1>9, PrepareInv, WorkInv, DrainedInv, SendPhaseInv, SendExitInv, SendErrorExitInv,
     TaskCompletesInv DEF Finishing
<1>10. ASSUME NEW j \in Jobs,
              \/ Dispatch(j) \/ ControlTaken(j) \/ Output(j) \/ OutputLimited(j)
              \/ ProcessExits(j) \/ Fails(j) \/ Aborted(j)
       PROVE  StreamInv'
  BY <1>10, DispatchInv, WorkInv, OutputInv, FailsInv, AbortedInv
<1>11. CASE UNCHANGED vars
  <2>1. /\ UNCHANGED <<registered, current_job, finished, abandoned, dropped, connected, active>>
        /\ UNCHANGED <<task, outcome, process>> /\ UNCHANGED down /\ UNCHANGED up
        /\ UNCHANGED sending
    BY <1>11 DEF vars, api, session, entry, client, execution
  <2>2. sending' \in Jobs \cup {None}  BY <2>1, UpFacts
  <2> QED BY <2>1, <2>2, SameOrders, SameReports, QuietInv
<1> QED BY <1>1, <1>2, <1>3, <1>4, <1>5, <1>6, <1>7, <1>8, <1>9, <1>10, <1>11 DEF Next

\* The invariant that carries the agreement: where the job of the worker is, which jobs the
\* messages in the channels are of, and what an end of the stream that is gone leaves.
THEOREM StreamInvariant == Spec => []StreamInv
  BY InitInv, StepInv, PTL DEF Spec

-----------------------------------------------------------------------------
(* What the invariant says of the stream.                                  *)

\* How many assignments and exits of a job are in the channels.
LEMMA KindCount ==
    ASSUME NEW q, NEW kind, NEW j
    PROVE  LET S == {i \in DOMAIN q : Is(q[i], kind, j)}
           IN  /\ NoneOf(q, kind, j) => S = {} /\ Cardinality(S) = 0
               /\ OneOf(q, kind, j) => Cardinality(S) = 1
<1> DEFINE S == {i \in DOMAIN q : Is(q[i], kind, j)}
<1>1. ASSUME NoneOf(q, kind, j) PROVE S = {} /\ Cardinality(S) = 0
  <2>1. S = {}  BY <1>1 DEF NoneOf
  <2> QED BY <2>1, FS_EmptySet
<1>2. ASSUME OneOf(q, kind, j) PROVE Cardinality(S) = 1
  <2>1. PICK i \in DOMAIN q :
            Is(q[i], kind, j) /\ \A k \in DOMAIN q : Is(q[k], kind, j) => k = i
    BY <1>2 DEF OneOf
  <2>2. S = {i}  BY <2>1
  <2> HIDE DEF S
  <2> QED BY <2>2, FS_Singleton
<1> QED BY <1>1, <1>2

LEMMA AssignmentCount ==
    ASSUME NEW j
    PROVE  /\ NoneOf(down, "assign", j) => Cardinality(assignments(j)) = 0
           /\ OneOf(down, "assign", j) => Cardinality(assignments(j)) = 1
<1> DEFINE S == {i \in DOMAIN down : Is(down[i], "assign", j)}
<1>1. /\ NoneOf(down, "assign", j) => Cardinality(S) = 0
      /\ OneOf(down, "assign", j) => Cardinality(S) = 1
  BY KindCount
<1>2. assignments(j) = S  BY DEF assignments, Is
<1> HIDE DEF S
<1> QED BY <1>1, <1>2

LEMMA ExitCount ==
    ASSUME NEW j
    PROVE  /\ NoneOf(up, "exit", j) => Cardinality(exits(j)) = 0
           /\ OneOf(up, "exit", j) => Cardinality(exits(j)) = 1
<1> DEFINE S == {i \in DOMAIN up : Is(up[i], "exit", j)}
<1>1. /\ NoneOf(up, "exit", j) => Cardinality(S) = 0
      /\ OneOf(up, "exit", j) => Cardinality(S) = 1
  BY KindCount
<1>2. exits(j) = S  BY DEF exits, Is
<1> HIDE DEF S
<1> QED BY <1>1, <1>2

LEMMA InvAgrees == StreamInv => StreamAgreement
<1> SUFFICES ASSUME StreamInv PROVE StreamAgreement
  OBVIOUS
<1>1. ASSUME registered, connected, current_job \notin finished \cup {None}, ~dropped
      PROVE  Cardinality(assignments(current_job)) + Cardinality(exits(current_job))
                 + (IF active = current_job /\ ~ended(active) THEN 1 ELSE 0) = 1
  <2>1. PICK c : c = current_job  OBVIOUS
  <2>2. /\ NoneOf(down, "assign", c) => Cardinality(assignments(c)) = 0
        /\ OneOf(down, "assign", c) => Cardinality(assignments(c)) = 1
    BY AssignmentCount
  <2>3. /\ NoneOf(up, "exit", c) => Cardinality(exits(c)) = 0
        /\ OneOf(up, "exit", c) => Cardinality(exits(c)) = 1
    BY ExitCount
  <2>4. JobSomewhere(c)  BY <1>1, <2>1 DEF StreamInv, AgreementInv
  <2>5. CASE OnItsWay(c)  BY <2>1, <2>2, <2>3, <2>5 DEF OnItsWay
  <2>6. CASE InWork(c)  BY <2>1, <2>2, <2>3, <2>6 DEF InWork
  <2>7. CASE ExitSent(c)  BY <2>1, <2>2, <2>3, <2>7 DEF ExitSent
  <2>8. CASE ExitLost(c)  BY <1>1, <2>8 DEF ExitLost
  <2>9. CASE ExitTaken(c)  BY <1>1, <2>1, <2>9 DEF ExitTaken
  <2> QED BY <2>4, <2>5, <2>6, <2>7, <2>8, <2>9 DEF JobSomewhere
<1>2. ASSUME registered, connected, NEW j \in Jobs \ ({current_job} \cup abandoned)
      PROVE  assignments(j) = {} /\ (active = j => ended(j))
  <2>1. j \notin Known /\ j # None  BY <1>2, JobNumbers DEF Known
  <2>2. AssignsOf(down, Known) /\ (active \notin Known \cup {None} => ended(active))
    BY <1>2 DEF StreamInv, AgreementInv
  <2>3. assignments(j) = {}  BY <2>1, <2>2 DEF AssignsOf, assignments
  <2> QED BY <2>1, <2>2, <2>3
<1>3. ASSUME NEW i \in DOMAIN up
      PROVE  /\ up[i].kind # "heartbeat" => up[i].job \in {current_job} \cup abandoned
             /\ up[i].kind = "exit" => ~process[up[i].job]
  <2>1. up[i].kind # "heartbeat" => up[i].job \in Known
    BY DEF StreamInv, UpInv, EventsOf
  <2>2. ASSUME up[i].kind = "exit" PROVE ~process[up[i].job]
    <3>1. PICK j \in Jobs : j = up[i].job
      BY <2>1, <2>2 DEF Known, StreamInv, WorkerType
    <3>2. ~NoneOf(up, "exit", j)  BY <2>2, <3>1 DEF NoneOf, Is
    <3>3. ended(j)  BY <3>2 DEF StreamInv, UpInv
    <3>4. task[j] \notin {"compile", "run"}  BY <3>3 DEF ended
    <3>5. ~process[j]  BY <3>4, Zenon DEF StreamInv, JobsInv
    <3> QED BY <3>1, <3>5
  <2> QED BY <2>1, <2>2 DEF Known
<1> QED BY <1>1, <1>2, <1>3 DEF StreamAgreement

\* While a connection stands, the job executor-api waits for is in exactly one place (the
\* assignment on its way, the task at work, the exit on its way) unless its exit was
\* dropped by a full channel; the worker and the channels have nothing of another job, save
\* of those a cancel completed between their dispatch and their first event, without a word
\* to the worker; and an exit is sent only once the process of its job is gone.
THEOREM StreamsAgree == Spec => []StreamAgreement
  BY StreamInvariant, InvAgrees, PTL

=============================================================================
