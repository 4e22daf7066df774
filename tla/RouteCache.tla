----------------------------- MODULE RouteCache -----------------------------
(***************************************************************************)
(* Route lookups of one match key on one mirage-api process: the cache in  *)
(* front of PostgreSQL, filled by requests that overlap in the event loop. *)
(* Time is counted in ticks.                                               *)
(***************************************************************************)
EXTENDS Integers

CONSTANTS
    Requests,    \* route requests in flight on the process
    Ttl,         \* ROUTE_CACHE_TTL_SECONDS
    MaxDelay,    \* bound: ticks from a request's query to its answer
    MaxTicks     \* bound: end of time

ASSUME RouteAssumption == Ttl \in Nat /\ MaxDelay \in Nat /\ MaxTicks \in Nat

Targets == {"ENDPOINT", "SANDBOX"}
DEFAULT_TARGET == "ENDPOINT"
NoEnd == MaxTicks + 1  \* valid_until IS NULL

VARIABLES
    now,
    decisions,   \* routing_decisions: [target, from, until], half open
    entry,       \* _entries of the key: [target, at], or NoEntry
    request,     \* what each request that missed has resolved, and when
    last_true,   \* history: tick at which each target was last the database's answer
    answered     \* history: age of the answer given last

routeVars == <<now, decisions, entry, request, last_true, answered>>

NoEntry == [target |-> "NONE", at |-> 0]
Quiet == [target |-> "NONE", since |-> 0]
Missed == [target |-> "MISSED", since |-> 0]
resolved(r) == request[r] \notin {Quiet, Missed}

\* resolve_route: the decision in force, or the fail-safe default.
resolve_route(rows, t) ==
    LET active == {d \in rows : d.from <= t /\ t < d.until}
    IN  IF active = {} THEN DEFAULT_TARGET ELSE (CHOOSE d \in active : TRUE).target

seen_true(rows, t) == [last_true EXCEPT ![resolve_route(rows, t)] = t]

\* write_routing_decision: the exclusion constraint refuses an overlap.  The
\* steer endpoint starts a decision now and leaves its end open.
write_routing_decision(target, until) ==
    LET d == [target |-> target, from |-> now, until |-> until]
        rows == decisions \cup {d}
    IN  /\ \A o \in decisions : o.until <= d.from \/ d.until <= o.from
        /\ decisions' = rows
        /\ last_true' = seen_true(rows, now)
        /\ UNCHANGED <<now, entry, request, answered>>

answer(target) == answered' = now - last_true[target]

\* Mutant: a hit renews the entry.
cache_hit_renews == [entry EXCEPT !.at = now]

cache_hit == entry

fresh == entry # NoEntry /\ now - entry.at <= Ttl

route_hits(r) ==
    /\ request[r] = Quiet /\ fresh
    /\ answer(entry.target)
    /\ entry' = cache_hit
    /\ UNCHANGED <<now, decisions, request, last_true>>

\* An expired entry is dropped; the request waits for a connection.
route_misses(r) ==
    /\ request[r] = Quiet /\ ~fresh
    /\ entry' = NoEntry
    /\ request' = [request EXCEPT ![r] = Missed]
    /\ UNCHANGED <<now, decisions, last_true, answered>>

\* One transaction asks for the caller's status and for the decision.
route_resolves(r) ==
    /\ request[r] = Missed
    /\ request' = [request EXCEPT ![r] = [target |-> resolve_route(decisions, now), since |-> now]]
    /\ UNCHANGED <<now, decisions, entry, last_true, answered>>

\* After the commit: the entry is set, over one that a later query may have
\* left, and dated now.
route_sets(r) ==
    /\ resolved(r)
    /\ entry' = [target |-> request[r].target, at |-> now]
    /\ answer(request[r].target)
    /\ request' = [request EXCEPT ![r] = Quiet]
    /\ UNCHANGED <<now, decisions, last_true>>

\* A refused caller (403) or a failed query leaves the cache alone.
route_fails(r) ==
    /\ request[r] # Quiet
    /\ request' = [request EXCEPT ![r] = Quiet]
    /\ UNCHANGED <<now, decisions, entry, last_true, answered>>

clock_ticks ==
    /\ now < MaxTicks
    /\ \A r \in Requests : resolved(r) => now - request[r].since < MaxDelay
    /\ now' = now + 1
    /\ last_true' = seen_true(decisions, now + 1)
    /\ UNCHANGED <<decisions, entry, request, answered>>

RouteInit ==
    /\ now = 0 /\ decisions = {} /\ entry = NoEntry
    /\ request = [r \in Requests |-> Quiet]
    /\ last_true = [t \in Targets |-> 0] /\ answered = 0

RouteNext ==
    \/ clock_ticks
    \/ \E target \in Targets, until \in (now + 1)..NoEnd : write_routing_decision(target, until)
    \/ \E r \in Requests : route_hits(r) \/ route_misses(r)
                           \/ route_resolves(r) \/ route_sets(r) \/ route_fails(r)

RouteSpec == RouteInit /\ [][RouteNext]_routeVars

----------------------------------------------------------------------------

\* Every answer, from the cache or not, was the database's answer no longer
\* ago than the lifetime of an entry and the time one request takes, though
\* requests overlap and a slow one overwrites the entry of a later one
\* (RouteCache.get and set around the query of /route).
AnswerIsRecent == answered <= Ttl + MaxDelay

=============================================================================
