---------------------------- MODULE RateLimiter ----------------------------
(***************************************************************************)
(* The fixed-window rate limiter.  The routes under /api pass it, but for the *)
(* login, which is registered outside their group.  Requests are counted in  *)
(* Redis, in one counter per key and minute that all server                  *)
(* processes share; when the round trip fails, in the memory of the process. *)
(* A key stands for a client address and a route.  The clock of the servers  *)
(* is one and does not go back; it is counted in minutes.                   *)
(***************************************************************************)
EXTENDS Naturals, FiniteSets

CONSTANTS
    Servers,      \* server processes, each with a Limiter of its own
    Requests,     \* request-serving goroutines
    Keys,         \* client address and route
    Limit,        \* REQUEST_LIMIT
    Capacity,     \* clean-up starts at this many buckets (512 in the code)
    UseRedis,     \* is there a Redis client?
    MaxMinute,    \* bound: the clock stops here
    MaxAsked      \* bound: requests of a behaviour

ASSUME LimiterAssumption ==
    /\ Limit \in Nat \ {0} /\ Capacity \in Nat
    /\ UseRedis \in BOOLEAN
    /\ MaxMinute \in Nat /\ MaxAsked \in Nat
    /\ "redis" \notin Servers
    /\ IsFiniteSet(Keys)

VARIABLES
    minute,     \* the clock
    shared,     \* [Keys -> [minutes -> count]], the Redis counters; 0 is no counter
    local,      \* [Servers -> [Keys -> bucket]], the map of each Limiter
    flight,     \* [Requests -> where it is counted next, or Idle]
    arrived,    \* bound: requests so far
    asked,      \* auxiliary: requests that came or were counted in a minute, by key
    admitted,   \* auxiliary: requests let through, by counter, key and window
    refused     \* auxiliary: the keys and windows with a 429

vars == <<minute, shared, local, flight, arrived, asked, admitted, refused>>

Minutes == 0 .. MaxMinute
\* A bucket with count 0 stands for a key that is not in the map.
Buckets == [window : Minutes, count : Nat]
\* A request about to be counted in Redis ("exec") or in memory ("local").
Flights == [stage : {"exec", "local"}, server : Servers, key : Keys, window : Minutes]
Idle == [stage |-> "idle"]
NoBucket == [window |-> 0, count |-> 0]
Tracked(map) == {k \in Keys : map[k].count > 0}
Counters == Servers \cup {"redis"}

Init ==
    /\ minute = 0
    /\ shared = [k \in Keys |-> [m \in Minutes |-> 0]]
    /\ local = [s \in Servers |-> [k \in Keys |-> NoBucket]]
    /\ flight = [r \in Requests |-> Idle]
    /\ arrived = 0
    /\ asked = [k \in Keys |-> [m \in Minutes |-> 0]]
    /\ admitted = [x \in Counters |-> [k \in Keys |-> [m \in Minutes |-> 0]]]
    /\ refused = {}

\* Middleware: the count decides.
Verdict(counter, k, m, count) ==
    IF count > Limit
    THEN refused' = refused \cup {<<k, m>>} /\ UNCHANGED admitted
    ELSE admitted' = [admitted EXCEPT ![counter][k][m] = @ + 1] /\ UNCHANGED refused

\* increment forms the Redis key, and with it the window, before the round trip.
Arrive(r, s, k) ==
    /\ flight[r] = Idle /\ arrived < MaxAsked
    /\ arrived' = arrived + 1
    /\ flight' = [flight EXCEPT ![r] =
           [stage |-> IF UseRedis THEN "exec" ELSE "local",
            server |-> s, key |-> k, window |-> minute]]
    /\ asked' = [asked EXCEPT ![k][minute] = @ + 1]
    /\ UNCHANGED <<minute, shared, local, admitted, refused>>

\* MULTI, INCR, EXPIRE, EXEC: the new value is the count of this request.
IncrementShared(r) ==
    LET k == flight[r].key  m == flight[r].window  count == shared[k][m] + 1 IN
    /\ flight[r].stage = "exec"
    /\ shared' = [shared EXCEPT ![k][m] = count]
    /\ Verdict("redis", k, m, count)
    /\ flight' = [flight EXCEPT ![r] = Idle]
    /\ UNCHANGED <<minute, local, arrived, asked>>

\* The round trip fails, before Redis has counted the request or after.
RedisFails(r) ==
    LET k == flight[r].key  m == flight[r].window IN
    /\ flight[r].stage = "exec"
    /\ \/ UNCHANGED shared
       \/ shared' = [shared EXCEPT ![k][m] = @ + 1]
    /\ flight' = [flight EXCEPT ![r].stage = "local"]
    /\ UNCHANGED <<minute, local, arrived, asked, admitted, refused>>

-----------------------------------------------------------------------------
(* The buckets of one process *)

\* (mutant of Kept: the clean-up never starts)
KeptAll(map) == Tracked(map)

\* cleanupLocal: of a map at capacity the buckets of this minute remain.
Kept(map) == IF Cardinality(Tracked(map)) < Capacity THEN Tracked(map)
             ELSE {k \in Tracked(map) : ~(map[k].window < minute)}

\* (mutant of CountIn: a bucket of an earlier minute goes on counting)
CountInAnyWindow(map, k) == IF k \in Kept(map) THEN map[k].count + 1 ELSE 1

\* (mutant of CountIn: a map at capacity forgets the key being counted)
CountInForgetful(map, k) ==
    IF Cardinality(Tracked(map)) < Capacity /\ map[k].window = minute
    THEN map[k].count + 1 ELSE 1

\* The count of the next request of the key in this minute.
CountIn(map, k) ==
    IF k \in Kept(map) /\ map[k].window = minute THEN map[k].count + 1 ELSE 1

\* (mutant of Counted: the bucket is filed under the end of its minute)
CountedAtEnd(map, k) ==
    [j \in Keys |-> IF j = k THEN [window |-> minute + 1, count |-> CountIn(map, k)]
                    ELSE IF j \in Kept(map) THEN map[j] ELSE NoBucket]

Counted(map, k) ==
    [j \in Keys |-> IF j = k THEN [window |-> minute, count |-> CountIn(map, k)]
                    ELSE IF j \in Kept(map) THEN map[j] ELSE NoBucket]

\* incrementLocal, under the mutex: it reads the clock again.
IncrementLocal(r) ==
    LET s == flight[r].server  k == flight[r].key IN
    /\ flight[r].stage = "local"
    /\ local' = [local EXCEPT ![s] = Counted(@, k)]
    /\ asked' = IF flight[r].window = minute THEN asked
                ELSE [asked EXCEPT ![k][minute] = @ + 1]
    /\ Verdict(s, k, minute, CountIn(local[s], k))
    /\ flight' = [flight EXCEPT ![r] = Idle]
    /\ UNCHANGED <<minute, shared, arrived>>

-----------------------------------------------------------------------------
(* Time *)

\* The client of Redis gives up within seconds: no round trip outlives the
\* minute after the one it began in.
Tick ==
    /\ minute < MaxMinute
    /\ \A r \in Requests : flight[r].stage = "exec" => flight[r].window = minute
    /\ minute' = minute + 1
    /\ UNCHANGED <<shared, local, flight, arrived, asked, admitted, refused>>

\* EXPIRE is renewed by each increment; two minutes have to pass at least.
Expired(m) == m + 2 <= minute

Expire(k, m) ==
    /\ Expired(m) /\ shared[k][m] > 0
    /\ shared' = [shared EXCEPT ![k][m] = 0]
    /\ UNCHANGED <<minute, local, flight, arrived, asked, admitted, refused>>

Next ==
    \/ Tick
    \/ \E k \in Keys, m \in Minutes : Expire(k, m)
    \/ \E r \in Requests :
          \/ \E s \in Servers, k \in Keys : Arrive(r, s, k)
          \/ IncrementShared(r) \/ RedisFails(r) \/ IncrementLocal(r)

Spec == Init /\ [][Next]_vars

-----------------------------------------------------------------------------
(* Properties *)

TypeOK ==
    /\ minute \in Minutes
    /\ shared \in [Keys -> [Minutes -> Nat]]
    /\ local \in [Servers -> [Keys -> Buckets]]
    /\ flight \in [Requests -> Flights \cup {Idle}]
    /\ arrived \in 0 .. MaxAsked
    /\ asked \in [Keys -> [Minutes -> Nat]]
    /\ admitted \in [Counters -> [Keys -> [Minutes -> Nat]]]
    /\ refused \in SUBSET (Keys \X Minutes)

\* No counter lets more than Limit requests of a key through in one window,
\* through clean-ups, expiring counters, lost replies and changes between
\* Redis and memory.  So Redis alone admits at most Limit for all processes
\* together, and a process whose Redis fails adds at most Limit of its own.
WindowBound ==
    \A x \in Counters, k \in Keys, m \in Minutes : admitted[x][k][m] <= Limit

\* A key is refused only in a window in which more than Limit of its requests
\* were under way: nobody pays for earlier minutes, for other clients, or for
\* replies Redis lost.
RefusedOnlyOverLimit ==
    \A k \in Keys, m \in Minutes : <<k, m>> \in refused => asked[k][m] > Limit

\* The buckets of a process stay below Capacity, or are all of one window: the
\* memory held for idle clients is bounded, though that of busy ones is not.
LocalBounded ==
    \A s \in Servers :
        \/ Cardinality(Tracked(local[s])) <= Capacity
        \/ \A j, k \in Tracked(local[s]) : local[s][j].window = local[s][k].window
=============================================================================
