---------------------------- MODULE ExecutionRoute ----------------------------
(***************************************************************************)
(* The web server's route that creates an execution,                       *)
(* app/api/executions/route.ts, as one browser calls it: the visitor's     *)
(* cookie, the rate limits in front of the body and behind its validation, *)
(* and the call of the internal service, which may create an execution     *)
(* that the browser never hears of.                                        *)
(*                                                                         *)
(* A handler runs without interruption between its awaits: the body and    *)
(* the internal service.                                                   *)
(***************************************************************************)
EXTENDS RateLimit, Sequences

CONSTANTS
    Executions,             \* the requests for an execution
    RequestLimit,           \* per visitor and address, in front of the body
    CreateLimit,            \* per visitor and address, of valid requests
    HourLimit,              \* per address, of valid requests
    Minute, Hour            \* the windows

\* Every rule of the route lets something pass.
ASSUME RouteAssumption ==
    /\ {RequestLimit, CreateLimit, HourLimit, Minute, Hour} \subseteq Nat \ {0}
    /\ Minute <= Hour

VARIABLES
    http,       \* how far the handler of a request is
    identity,   \* the visitor a request is counted for: the request that made the id
    cookie,     \* the browser's visitor cookie, or None
    store,      \* smartCRateLimitStore
    admitted    \* history: the time since the limits let the request pass

route == <<http, identity, cookie, store, admitted>>

None == "none"
Never == -1

\* The visitors' keys are not the address's.
ASSUME NoneAssumption == None \notin Executions /\ "ip" \notin Executions

\* getVisitorIdentity: the visitor of a valid cookie, or a new one.
getVisitorIdentity(r) == IF cookie = None THEN r ELSE cookie

requestRules(v) ==
    << [key |-> <<"request", v>>, limit |-> RequestLimit, window |-> Minute],
       [key |-> <<"request", "ip">>, limit |-> RequestLimit, window |-> Minute] >>

createRules(v) ==
    << [key |-> <<"minute", v>>, limit |-> CreateLimit, window |-> Minute],
       [key |-> <<"minute", "ip">>, limit |-> CreateLimit, window |-> Minute],
       [key |-> <<"hour", "ip">>, limit |-> HourLimit, window |-> Hour] >>

chargedAfter(before, rule, sweep) ==
    LET result == consumeRateLimit(before.store, rule, sweep)
    IN  [store |-> result.store, allowed |-> before.allowed /\ result.allowed]

\* consumeRateLimits: every rule is charged, also behind one that denies.
consumeRateLimits(rules, sweep) ==
    LET charged[i \in 0..Len(rules)] ==
            IF i = 0 THEN [store |-> store, allowed |-> TRUE]
            ELSE CHOOSE result \in {chargedAfter(before, rules[i], sweep) :
                                     before \in {charged[i - 1]}} : TRUE
    IN  charged[Len(rules)]

-----------------------------------------------------------------------------
\* POST up to its first await: the visitor and the coarse limits, which also count
\* what turns out to be no valid body.
PostArrives(r, sweep) ==
    LET v == getVisitorIdentity(r)
        limit == consumeRateLimits(requestRules(v), sweep)
    IN  /\ http[r] = "sent"
        /\ identity' = [identity EXCEPT ![r] = v]
        /\ store' = limit.store
        /\ http' = [http EXCEPT ![r] = IF limit.allowed THEN "body" ELSE "refused"]
        /\ UNCHANGED <<cookie, admitted>>

\* validateJsonPost refuses the request, without limits and without a cookie.
PostInvalid(r) ==
    /\ http[r] = "sent"
    /\ http' = [http EXCEPT ![r] = "refused"]
    /\ UNCHANGED <<identity, cookie, store, admitted>>

\* readJsonBody or validateExecutionRequest refuses the body; it stays counted.
BodyInvalid(r) ==
    /\ http[r] = "body"
    /\ http' = [http EXCEPT ![r] = "refused"]
    /\ UNCHANGED <<identity, cookie, store, admitted>>

\* A valid body is charged to the limits of the creation.
BodyRead(r, sweep) ==
    LET limit == consumeRateLimits(createRules(identity[r]), sweep)
    IN  /\ http[r] = "body"
        /\ store' = limit.store
        /\ http' = [http EXCEPT ![r] = IF limit.allowed THEN "upstream" ELSE "refused"]
        /\ admitted' = [admitted EXCEPT ![r] = IF limit.allowed THEN 0 ELSE @]
        /\ UNCHANGED <<identity, cookie>>

\* createInternalSession: the service created the execution and its answer passed
\* the checks; otherwise the answer is an error, also when one was created and the
\* answer was lost, late or malformed.
UpstreamAnswers(r, heard) ==
    /\ http[r] = "upstream"
    /\ http' = [http EXCEPT ![r] = IF heard THEN "ok" ELSE "refused"]
    /\ UNCHANGED <<identity, cookie, store, admitted>>

\* The answer reaches the browser; applyVisitorCookie sets the cookie of a visitor
\* that this request made.
answered(r) ==
    /\ http[r] \in {"ok", "refused"}
    /\ cookie' = IF identity[r] = r THEN r ELSE cookie

\* Date.now advances; admitted counts up to the longer window.
TimePasses ==
    /\ store' = elapse(store)
    /\ admitted' = [r \in Executions |->
           IF admitted[r] \in {Never, Hour} THEN admitted[r] ELSE admitted[r] + 1]
    /\ UNCHANGED <<http, identity, cookie>>

RouteInit ==
    /\ http = [r \in Executions |-> "none"]
    /\ identity = [r \in Executions |-> None]
    /\ cookie = None
    /\ store = <<>>
    /\ admitted = [r \in Executions |-> Never]

Route ==
    \E r \in Executions :
        \/ \E sweep \in BOOLEAN : PostArrives(r, sweep)
        \/ PostInvalid(r)
        \/ BodyInvalid(r)
        \/ \E sweep \in BOOLEAN : BodyRead(r, sweep)
        \/ \E heard \in BOOLEAN : UpstreamAnswers(r, heard)

\* The type of the route's state; the store holds at most MAX_RATE_LIMIT_ENTRIES.
RouteTypeOK ==
    /\ http \in [Executions -> {"none", "sent", "body", "upstream", "ok", "refused"}]
    /\ identity \in [Executions -> Executions \cup {None}]
    /\ cookie \in Executions \cup {None}
    /\ Cardinality(DOMAIN store) <= MaxRateLimitEntries
    /\ \A key \in DOMAIN store : store[key].count \in Nat /\ store[key].left \in 0..Hour
    /\ admitted \in [Executions -> {Never} \cup 0..Hour]

\* In any minute the limits let fewer than twice CreateLimit executions pass for an
\* address, and in any hour fewer than twice HourLimit, however requests, refusals
\* and the sweeps of a full store interleave: a window begins with the first request
\* it counts, so two of them never lie in one span of time with all they allow.
CreationRate ==
    LET within(t) == {r \in Executions : admitted[r] # Never /\ admitted[r] < t}
    IN  /\ Cardinality(within(Minute)) < 2 * CreateLimit
        /\ Cardinality(within(Hour)) < 2 * HourLimit

=============================================================================
