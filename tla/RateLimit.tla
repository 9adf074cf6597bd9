------------------------------ MODULE RateLimit ------------------------------
(***************************************************************************)
(* The fixed-window rate limiter of the web server,                        *)
(* apps/web/lib/server/rate-limit.ts: a bounded store of counters shared by *)
(* the routes that create execution and LSP sessions.                      *)
(*                                                                         *)
(* A store maps a key to its count and to the time left of its window;     *)
(* left = 0 is resetAt <= now. Time passes by elapse.                      *)
(***************************************************************************)
EXTENDS Integers, FiniteSets

CONSTANT MaxRateLimitEntries

ASSUME RateLimitAssumption == MaxRateLimitEntries \in Nat

Expired(store, key) == store[key].left = 0

\* cleanupExpiredEntries: the keys that remain.
cleanupExpiredEntries(store) == {key \in DOMAIN store : ~Expired(store, key)}

\* Mutant of keysKept: a full store is emptied.
keysEvicted(store, sweep) ==
    IF Cardinality(DOMAIN store) >= MaxRateLimitEntries THEN {}
    ELSE IF sweep THEN cleanupExpiredEntries(store)
    ELSE DOMAIN store

\* The keys consumeRateLimit keeps: all but the expired ones when the store is full
\* or the operation is a CLEANUP_INTERVAL-th one.
keysKept(store, sweep) ==
    IF sweep \/ Cardinality(DOMAIN store) >= MaxRateLimitEntries
    THEN cleanupExpiredEntries(store)
    ELSE DOMAIN store

\* Mutant of refusesKey: off by one.
refusesKeyBeyond(kept, key) == key \notin kept /\ Cardinality(kept) > MaxRateLimitEntries

\* A key that is not in a full store is refused; nothing is pushed out for it.
refusesKey(kept, key) == key \notin kept /\ Cardinality(kept) >= MaxRateLimitEntries

\* The entry of the rule, counted: a new one when the last window has passed.
countedEntry(store, kept, rule) ==
    IF rule.key \in kept /\ ~Expired(store, rule.key)
    THEN [store[rule.key] EXCEPT !.count = @ + 1]
    ELSE [count |-> 1, left |-> rule.window]

consumeRateLimit(store, rule, sweep) ==
    LET kept == keysKept(store, sweep)
        entry == countedEntry(store, kept, rule)
    IN  IF refusesKey(kept, rule.key)
        THEN [store |-> [key \in kept |-> store[key]], allowed |-> FALSE]
        ELSE [store |-> [key \in kept \cup {rule.key} |->
                            IF key = rule.key THEN entry ELSE store[key]],
              allowed |-> entry.count <= rule.limit]

\* Date.now advances by one unit.
elapse(store) ==
    [key \in DOMAIN store |->
        [store[key] EXCEPT !.left = IF @ = 0 THEN 0 ELSE @ - 1]]

=============================================================================
