-------------------------- MODULE RateLimiterProofs --------------------------
(***************************************************************************)
(* Proofs about module RateLimiter, for any servers, requests, keys, limit    *)
(* and capacity.  What a counter admitted in a window is never more than it    *)
(* shows for that window, as long as a request can still be counted there;   *)
(* and what it shows was asked for.                                         *)
(***************************************************************************)
EXTENDS RateLimiter, FiniteSetTheorems, TLAPS

\* A round trip ends by the minute after the one it began in.
FlightsTimely ==
    \A r \in Requests : flight[r].stage = "exec" =>
        flight[r].window <= minute /\ minute <= flight[r].window + 1

\* No bucket is ahead of the clock, and an absent one is the empty one.
BucketsPast ==
    \A s \in Servers, k \in Keys : local[s][k].window <= minute

\* While its counter cannot have expired, Redis admitted no more than it counted.
SharedAccounts ==
    \A k \in Keys, m \in Minutes :
        ~Expired(m) => admitted["redis"][k][m] <= shared[k][m]

\* What a bucket shows for a window that is not over.
Shown(s, k, m) == IF local[s][k].window = m THEN local[s][k].count ELSE 0

LocalAccounts ==
    \A s \in Servers, k \in Keys, m \in Minutes :
        minute <= m => admitted[s][k][m] <= Shown(s, k, m)

IInv == TypeOK /\ FlightsTimely /\ BucketsPast /\ SharedAccounts /\ LocalAccounts
        /\ WindowBound

LEMMA Constants ==
    /\ Limit \in Nat /\ Limit > 0 /\ Capacity \in Nat /\ MaxMinute \in Nat /\ MaxAsked \in Nat
    /\ Minutes \subseteq Nat /\ 0 \in Minutes
    /\ "redis" \notin Servers /\ "redis" \in Counters /\ Servers \subseteq Counters
BY LimiterAssumption DEF LimiterAssumption, Minutes, Counters

\* The count of a request in memory, and the map it leaves.
LEMMA Counting ==
    ASSUME TypeOK, NEW s \in Servers, NEW k \in Keys
    PROVE  /\ CountIn(local[s], k) \in Nat /\ CountIn(local[s], k) >= 1
           /\ Counted(local[s], k) \in [Keys -> Buckets]
           /\ \A j \in Keys \ {k} :
                 \/ Counted(local[s], k)[j] = local[s][j]
                 \/ Counted(local[s], k)[j] = NoBucket /\ local[s][j].window < minute
                 \/ Counted(local[s], k)[j] = NoBucket /\ local[s][j].count = 0
           /\ Counted(local[s], k)[k] = [window |-> minute, count |-> CountIn(local[s], k)]
           /\ CountIn(local[s], k) = Shown(s, k, minute) + 1
<1> USE DEF TypeOK, Buckets, Tracked
<1>1. \A j \in Keys : local[s][j].window \in Nat /\ local[s][j].count \in Nat
  <2>1. \A j \in Keys : local[s][j] \in Buckets OBVIOUS
  <2> QED BY <2>1, Constants
<1>2. \A j \in Keys : j \notin Kept(local[s]) =>
          local[s][j].window < minute \/ local[s][j].count = 0
  BY <1>1 DEF Kept
<1>3. CountIn(local[s], k) = Shown(s, k, minute) + 1
  <2>1. CASE k \in Kept(local[s]) /\ local[s][k].window = minute
    BY <2>1 DEF CountIn, Shown
  <2>2. CASE k \notin Kept(local[s])
    <3>1. local[s][k].window = minute => local[s][k].count = 0
      <4>1. minute \in Nat BY Constants
      <4> QED BY <1>1, <1>2, <2>2, <4>1
    <3> QED BY <2>2, <3>1 DEF CountIn, Shown
  <2>3. CASE local[s][k].window # minute
    BY <2>3 DEF CountIn, Shown
  <2> QED BY <2>1, <2>2, <2>3
<1>4. CountIn(local[s], k) \in Nat /\ CountIn(local[s], k) >= 1
  BY <1>1, <1>3 DEF Shown
<1>5. NoBucket \in Buckets BY Constants DEF NoBucket
<1>6. Counted(local[s], k) \in [Keys -> Buckets]
  BY <1>4, <1>5 DEF Counted
<1> QED BY <1>2, <1>3, <1>4, <1>6 DEF Counted

LEMMA Typing == ASSUME TypeOK, [Next]_vars PROVE TypeOK'
<1> USE DEF TypeOK
<1>1. CASE Tick
  <2>1. minute' \in Minutes BY <1>1, Constants DEF Tick, Minutes
  <2> QED BY <1>1, <2>1 DEF Tick
<1>2. ASSUME NEW k \in Keys, NEW m \in Minutes, Expire(k, m) PROVE TypeOK'
  BY <1>2, Constants DEF Expire
<1>3. ASSUME NEW r \in Requests, NEW s \in Servers, NEW k \in Keys, Arrive(r, s, k)
      PROVE  TypeOK'
  <2>1. flight' \in [Requests -> Flights \cup {Idle}]
    BY <1>3 DEF Arrive, Flights
  <2>2. asked[k][minute] + 1 \in Nat BY Constants
  <2>3. asked' \in [Keys -> [Minutes -> Nat]] BY <1>3, <2>2 DEF Arrive
  <2>4. arrived' \in 0 .. MaxAsked BY <1>3, Constants DEF Arrive
  <2> QED BY <1>3, <2>1, <2>3, <2>4 DEF Arrive
<1>4. ASSUME NEW x \in Counters, NEW k \in Keys, NEW m \in Minutes, NEW n \in Nat,
             Verdict(x, k, m, n)
      PROVE  /\ admitted' \in [Counters -> [Keys -> [Minutes -> Nat]]]
             /\ refused' \in SUBSET (Keys \X Minutes)
  <2>1. admitted[x][k][m] \in Nat /\ admitted[x][k][m] + 1 \in Nat OBVIOUS
  <2>2. CASE n > Limit BY <1>4, <2>2 DEF Verdict
  <2>3. CASE ~(n > Limit)
    <3>1. [admitted[x][k] EXCEPT ![m] = @ + 1] \in [Minutes -> Nat] BY <2>1
    <3>2. [admitted[x] EXCEPT ![k] = [admitted[x][k] EXCEPT ![m] = @ + 1]]
              \in [Keys -> [Minutes -> Nat]]
      BY <3>1
    <3>3. admitted' = [admitted EXCEPT ![x] =
              [admitted[x] EXCEPT ![k] = [admitted[x][k] EXCEPT ![m] = @ + 1]]]
      BY <1>4, <2>3 DEF Verdict
    <3>4. admitted' \in [Counters -> [Keys -> [Minutes -> Nat]]] BY <3>2, <3>3
    <3> QED BY <1>4, <2>3, <3>4 DEF Verdict
  <2> QED BY <2>2, <2>3
<1>5. ASSUME NEW r \in Requests, flight[r].stage \in {"exec", "local"}
      PROVE  flight[r] \in Flights
  BY <1>5 DEF Idle
<1>6. ASSUME NEW r \in Requests, IncrementShared(r) PROVE TypeOK'
  <2>1. flight[r] \in Flights BY <1>5, <1>6 DEF IncrementShared
  <2>2. flight[r].key \in Keys /\ flight[r].window \in Minutes BY <2>1 DEF Flights
  <2>3. shared[flight[r].key][flight[r].window] + 1 \in Nat
    <3>1. shared[flight[r].key] \in [Minutes -> Nat] BY <2>2
    <3>2. shared[flight[r].key][flight[r].window] \in Nat BY <2>2, <3>1
    <3> QED BY <3>2
  <2>5. "redis" \in Counters BY Constants
  <2>6. shared' \in [Keys -> [Minutes -> Nat]]
    BY <1>6, <2>2, <2>3 DEF IncrementShared
  <2>7. flight' \in [Requests -> Flights \cup {Idle}] BY <1>6 DEF IncrementShared
  <2>4. Verdict("redis", flight[r].key, flight[r].window,
                shared[flight[r].key][flight[r].window] + 1)
    BY <1>6 DEF IncrementShared
  <2>8. /\ admitted' \in [Counters -> [Keys -> [Minutes -> Nat]]]
        /\ refused' \in SUBSET (Keys \X Minutes)
    BY <1>4, <2>2, <2>3, <2>4, <2>5
  <2> QED BY <1>6, <2>6, <2>7, <2>8 DEF IncrementShared
<1>7. ASSUME NEW r \in Requests, RedisFails(r) PROVE TypeOK'
  <2>1. flight[r] \in Flights BY <1>5, <1>7 DEF RedisFails
  <2>2. flight' \in [Requests -> Flights \cup {Idle}]
    BY <1>7, <2>1 DEF RedisFails, Flights
  <2>3. flight[r].key \in Keys /\ flight[r].window \in Minutes BY <2>1 DEF Flights
  <2>4. shared[flight[r].key][flight[r].window] + 1 \in Nat
    <3>1. shared[flight[r].key] \in [Minutes -> Nat] BY <2>3
    <3>2. shared[flight[r].key][flight[r].window] \in Nat BY <2>3, <3>1
    <3> QED BY <3>2
  <2>5. shared' \in [Keys -> [Minutes -> Nat]]
    <3>1. [shared EXCEPT ![flight[r].key][flight[r].window] = @ + 1]
              \in [Keys -> [Minutes -> Nat]]
      BY <2>3, <2>4
    <3> QED BY <1>7, <3>1 DEF RedisFails
  <2> QED BY <1>7, <2>2, <2>5 DEF RedisFails
<1>8. ASSUME NEW r \in Requests, IncrementLocal(r) PROVE TypeOK'
  <2>1. flight[r] \in Flights BY <1>5, <1>8 DEF IncrementLocal
  <2>2. flight[r].server \in Servers /\ flight[r].key \in Keys BY <2>1 DEF Flights
  <2>3. local' \in [Servers -> [Keys -> Buckets]]
    BY <1>8, <2>2, Counting DEF IncrementLocal
  <2>4. asked' \in [Keys -> [Minutes -> Nat]]
    <3>1. asked[flight[r].key][minute] + 1 \in Nat BY <2>2, Constants
    <3> QED BY <1>8, <2>2, <3>1 DEF IncrementLocal
  <2>5. Verdict(flight[r].server, flight[r].key, minute,
                CountIn(local[flight[r].server], flight[r].key))
    BY <1>8 DEF IncrementLocal
  <2>6. CountIn(local[flight[r].server], flight[r].key) \in Nat BY <2>2, Counting
  <2>7. flight' \in [Requests -> Flights \cup {Idle}] BY <1>8 DEF IncrementLocal
  <2>8. /\ admitted' \in [Counters -> [Keys -> [Minutes -> Nat]]]
        /\ refused' \in SUBSET (Keys \X Minutes)
    BY <1>4, <2>2, <2>5, <2>6, Constants
  <2> QED BY <1>8, <2>3, <2>4, <2>7, <2>8 DEF IncrementLocal
<1>9. CASE UNCHANGED vars BY <1>9 DEF vars
<1> QED BY <1>1, <1>2, <1>3, <1>6, <1>7, <1>8, <1>9 DEF Next

\* A verdict adds at most one admission, and only under the limit.
LEMMA Judging ==
    ASSUME TypeOK, NEW x \in Counters, NEW k \in Keys, NEW m \in Minutes, NEW n \in Nat,
           Verdict(x, k, m, n)
    PROVE  \A y \in Counters, j \in Keys, p \in Minutes :
              \/ admitted'[y][j][p] = admitted[y][j][p]
              \/ /\ y = x /\ j = k /\ p = m /\ n <= Limit
                 /\ admitted'[y][j][p] = admitted[y][j][p] + 1
<1> USE DEF TypeOK
<1>1. CASE n > Limit BY <1>1 DEF Verdict
<1>2. CASE ~(n > Limit)
  <2>1. admitted' = [admitted EXCEPT ![x][k][m] = @ + 1] BY <1>2 DEF Verdict
  <2>2. n <= Limit BY <1>2, Constants
  <2> QED BY <2>1, <2>2
<1> QED BY <1>1, <1>2

\* Counts in typed arithmetic, for the steps below.
LEMMA Numbers ==
    ASSUME TypeOK
    PROVE  /\ minute \in Nat
           /\ \A y \in Counters, j \in Keys, p \in Minutes : admitted[y][j][p] \in Nat
           /\ \A j \in Keys, p \in Minutes : shared[j][p] \in Nat
           /\ \A s \in Servers, j \in Keys : local[s][j] \in Buckets
           /\ \A s \in Servers, j \in Keys : local[s][j].window \in Nat /\ local[s][j].count \in Nat
           /\ \A r \in Requests : flight[r].stage \in {"exec", "local"} =>
                 /\ flight[r].server \in Servers /\ flight[r].key \in Keys
                 /\ flight[r].window \in Minutes /\ flight[r].window \in Nat
<1> USE DEF TypeOK
<1>1. minute \in Nat BY Constants
<1>2. \A y \in Counters, j \in Keys, p \in Minutes : admitted[y][j][p] \in Nat OBVIOUS
<1>3. \A j \in Keys, p \in Minutes : shared[j][p] \in Nat OBVIOUS
<1>4. \A s \in Servers, j \in Keys : local[s][j] \in Buckets OBVIOUS
<1>5. \A s \in Servers, j \in Keys : local[s][j].window \in Nat /\ local[s][j].count \in Nat
  BY <1>4, Constants DEF Buckets
<1>6. \A r \in Requests : flight[r].stage \in {"exec", "local"} => flight[r] \in Flights
  BY DEF Idle
<1>7. \A r \in Requests : flight[r].stage \in {"exec", "local"} =>
          /\ flight[r].server \in Servers /\ flight[r].key \in Keys
          /\ flight[r].window \in Minutes /\ flight[r].window \in Nat
  BY <1>6, Constants DEF Flights
<1> QED BY <1>1, <1>2, <1>3, <1>4, <1>5, <1>7

\* A request counted in Redis.
LEMMA SharedStep ==
    ASSUME IInv, UNCHANGED <<minute, local>>,
           NEW k \in Keys, NEW m \in Minutes, minute <= m + 1,
           shared' = [shared EXCEPT ![k][m] = shared[k][m] + 1],
           Verdict("redis", k, m, shared[k][m] + 1)
    PROVE  BucketsPast' /\ SharedAccounts' /\ LocalAccounts' /\ WindowBound'
<1> USE DEF IInv
<1>1. shared[k][m] \in Nat /\ m \in Nat /\ minute \in Nat BY Numbers, Constants
<1>2. \A y \in Counters, j \in Keys, p \in Minutes :
          \/ admitted'[y][j][p] = admitted[y][j][p]
          \/ /\ y = "redis" /\ j = k /\ p = m /\ shared[k][m] + 1 <= Limit
             /\ admitted'[y][j][p] = admitted[y][j][p] + 1
  <2>1. shared[k][m] + 1 \in Nat /\ "redis" \in Counters BY <1>1, Constants
  <2> QED BY <2>1, Judging
<1>3. admitted["redis"][k][m] <= shared[k][m]
  BY <1>1 DEF SharedAccounts, Expired
<1>4. admitted["redis"][k][m] \in Nat BY Numbers, Constants
<1>5. SharedAccounts'
  <2>1. shared'[k][m] = shared[k][m] + 1 BY DEF TypeOK
  <2>2. admitted'["redis"][k][m] <= shared'[k][m]
    BY <1>1, <1>2, <1>3, <1>4, <2>1, Constants
  <2>3. ASSUME NEW j \in Keys, NEW p \in Minutes, j # k \/ p # m
        PROVE  /\ shared'[j][p] = shared[j][p]
               /\ admitted'["redis"][j][p] = admitted["redis"][j][p]
    <3>1. shared'[j][p] = shared[j][p] BY <2>3 DEF TypeOK
    <3> QED BY <1>2, <2>3, <3>1, Constants
  <2> QED BY <2>2, <2>3 DEF SharedAccounts, Expired
<1>6. LocalAccounts'
  <2>1. \A s \in Servers, j \in Keys, p \in Minutes : admitted'[s][j][p] = admitted[s][j][p]
    BY <1>2, Constants
  <2> QED BY <2>1 DEF LocalAccounts, Shown
<1>7. WindowBound'
  <2> SUFFICES ASSUME NEW y \in Counters, NEW j \in Keys, NEW p \in Minutes
               PROVE  admitted'[y][j][p] <= Limit
    BY DEF WindowBound
  <2>1. CASE admitted'[y][j][p] = admitted[y][j][p] BY <2>1 DEF WindowBound
  <2>2. CASE /\ y = "redis" /\ j = k /\ p = m /\ shared[k][m] + 1 <= Limit
             /\ admitted'[y][j][p] = admitted[y][j][p] + 1
    BY <1>1, <1>3, <1>4, <2>2, Constants
  <2> QED BY <1>2, <2>1, <2>2
<1> QED BY <1>5, <1>6, <1>7 DEF BucketsPast

\* A request counted in the memory of a process.
LEMMA LocalStep ==
    ASSUME IInv, UNCHANGED <<minute, shared>>, NEW s \in Servers, NEW k \in Keys,
           local' = [local EXCEPT ![s] = Counted(local[s], k)],
           Verdict(s, k, minute, CountIn(local[s], k))
    PROVE  BucketsPast' /\ SharedAccounts' /\ LocalAccounts' /\ WindowBound'
<1> USE DEF IInv
<1>1. minute \in Nat /\ minute \in Minutes BY Numbers DEF TypeOK
<1>2. PICK n \in Nat : n = CountIn(local[s], k) BY Counting
<1>3. Shown(s, k, minute) \in Nat BY Numbers DEF Shown
<1>4. n = Shown(s, k, minute) + 1 BY <1>2, Counting
<1>5. \A y \in Counters, j \in Keys, p \in Minutes :
          \/ admitted'[y][j][p] = admitted[y][j][p]
          \/ /\ y = s /\ j = k /\ p = minute /\ n <= Limit
             /\ admitted'[y][j][p] = admitted[y][j][p] + 1
  <2>1. s \in Counters /\ Verdict(s, k, minute, n) BY <1>2, Constants
  <2> QED BY <1>1, <2>1, Judging
<1>6. /\ local'[s][k] = [window |-> minute, count |-> n]
      /\ \A j \in Keys \ {k} :
            \/ local'[s][j] = local[s][j]
            \/ local'[s][j] = NoBucket /\ local[s][j].window < minute
            \/ local'[s][j] = NoBucket /\ local[s][j].count = 0
      /\ \A t \in Servers \ {s} : local'[t] = local[t]
  <2>1. local'[s] = Counted(local[s], k) BY DEF TypeOK
  <2>2. \A t \in Servers \ {s} : local'[t] = local[t] BY DEF TypeOK
  <2> QED BY <1>2, <2>1, <2>2, Counting
<1>7. admitted[s][k][minute] <= Shown(s, k, minute)
  BY <1>1 DEF LocalAccounts
<1>8. admitted[s][k][minute] \in Nat BY <1>1, Numbers, Constants
<1>9. BucketsPast'
  <2>1. local'[s][k].window <= minute BY <1>1, <1>6
  <2>2. \A j \in Keys \ {k} : local'[s][j].window <= minute
    BY <1>1, <1>6 DEF BucketsPast, NoBucket
  <2>3. \A t \in Servers \ {s}, j \in Keys : local'[t][j].window <= minute
    BY <1>6 DEF BucketsPast
  <2> QED BY <2>1, <2>2, <2>3 DEF BucketsPast
<1>10. SharedAccounts'
  <2>1. \A j \in Keys, p \in Minutes : admitted'["redis"][j][p] = admitted["redis"][j][p]
    BY <1>5, Constants
  <2> QED BY <2>1 DEF SharedAccounts, Expired
<1>11. LocalAccounts'
  <2> SUFFICES ASSUME NEW t \in Servers, NEW j \in Keys, NEW p \in Minutes, minute <= p
               PROVE  admitted'[t][j][p] <= Shown(t, j, p)'
    BY DEF LocalAccounts
  <2>1. /\ admitted[t][j][p] <= Shown(t, j, p) /\ admitted[t][j][p] \in Nat /\ p \in Nat
        /\ local[t][j].window <= minute /\ local[t][j].window \in Nat
    BY Numbers, Constants DEF LocalAccounts, BucketsPast
  <2>2. CASE t = s /\ j = k /\ p = minute
    <3>1. Shown(t, j, p)' = n BY <1>6, <2>2 DEF Shown
    <3>2. admitted'[t][j][p] <= admitted[t][j][p] + 1 BY <1>5, <2>1, Constants
    <3>3. admitted[t][j][p] <= Shown(s, k, minute) BY <1>7, <2>2
    <3>4. admitted'[t][j][p] \in Nat BY <1>5, <2>1, Constants
    <3> QED BY <1>3, <1>4, <2>1, <3>1, <3>2, <3>3, <3>4
  <2>3. CASE ~(t = s /\ j = k /\ p = minute)
    <3>1. admitted'[t][j][p] = admitted[t][j][p] BY <1>5, <2>3, Constants
    <3>2. CASE local'[t][j] = local[t][j] BY <2>1, <3>1, <3>2 DEF Shown
    <3>3. CASE /\ t = s /\ j # k /\ local'[s][j] = NoBucket
               /\ local[s][j].window < minute \/ local[s][j].count = 0
      <4>1. Shown(t, j, p) = 0 BY <1>1, <2>1, <3>3 DEF Shown
      <4>2. Shown(t, j, p)' = 0 BY <3>3 DEF Shown, NoBucket
      <4> QED BY <2>1, <3>1, <4>1, <4>2
    <3>4. CASE t = s /\ j = k
      <4>1. minute < p /\ p # minute BY <1>1, <2>1, <2>3, <3>4
      <4>2. Shown(t, j, p) = 0 BY <1>1, <2>1, <4>1 DEF Shown
      <4>3. Shown(t, j, p)' = 0 BY <1>6, <3>4, <4>1 DEF Shown
      <4> QED BY <2>1, <3>1, <4>2, <4>3
    <3> QED BY <1>6, <3>2, <3>3, <3>4
  <2> QED BY <2>2, <2>3
<1>12. WindowBound'
  <2> SUFFICES ASSUME NEW y \in Counters, NEW j \in Keys, NEW p \in Minutes
               PROVE  admitted'[y][j][p] <= Limit
    BY DEF WindowBound
  <2>1. CASE admitted'[y][j][p] = admitted[y][j][p] BY <2>1 DEF WindowBound
  <2>2. CASE /\ y = s /\ j = k /\ p = minute /\ n <= Limit
             /\ admitted'[y][j][p] = admitted[y][j][p] + 1
    BY <1>3, <1>4, <1>7, <1>8, <2>2, Constants
  <2> QED BY <1>5, <2>1, <2>2
<1> QED BY <1>9, <1>10, <1>11, <1>12

LEMMA StepPreserves == ASSUME IInv, [Next]_vars PROVE IInv'
<1> USE DEF IInv
<1>1. TypeOK' BY Typing
<1>2. CASE Tick
  <2>1. /\ minute' = minute + 1 /\ UNCHANGED <<shared, local, flight, admitted>>
        /\ \A r \in Requests : flight[r].stage = "exec" => flight[r].window = minute
    BY <1>2 DEF Tick
  <2>2. FlightsTimely' BY <2>1, Numbers DEF FlightsTimely
  <2>3. BucketsPast' BY <2>1, Numbers DEF BucketsPast
  <2>4. SharedAccounts'
    <3>1. \A m \in Minutes : Expired(m) => Expired(m)'
      BY <2>1, Numbers, Constants DEF Expired
    <3> QED BY <2>1, <3>1 DEF SharedAccounts
  <2>5. LocalAccounts'
    <3>1. \A m \in Minutes : minute' <= m => minute <= m BY <2>1, Numbers, Constants
    <3> QED BY <2>1, <3>1 DEF LocalAccounts, Shown
  <2>6. WindowBound' BY <2>1 DEF WindowBound
  <2> QED BY <1>1, <2>2, <2>3, <2>4, <2>5, <2>6
<1>3. ASSUME NEW k \in Keys, NEW m \in Minutes, Expire(k, m) PROVE IInv'
  <2>1. UNCHANGED <<minute, local, flight, admitted>> BY <1>3 DEF Expire
  <2>2. SharedAccounts'
    <3>1. \A j \in Keys, p \in Minutes : ~Expired(p) => shared'[j][p] = shared[j][p]
      BY <1>3 DEF Expire, TypeOK
    <3> QED BY <2>1, <3>1 DEF SharedAccounts, Expired
  <2> QED BY <1>1, <2>1, <2>2 DEF FlightsTimely, BucketsPast, LocalAccounts, Shown, WindowBound
<1>4. ASSUME NEW r \in Requests, NEW s \in Servers, NEW k \in Keys, Arrive(r, s, k)
      PROVE  IInv'
  <2>1. UNCHANGED <<minute, shared, local, admitted>> BY <1>4 DEF Arrive
  <2>2. FlightsTimely'
    <3>1. \A q \in Requests \ {r} : flight'[q] = flight[q] BY <1>4 DEF Arrive, TypeOK
    <3>2. flight'[r].window = minute BY <1>4 DEF Arrive, TypeOK
    <3> QED BY <2>1, <3>1, <3>2, Numbers DEF FlightsTimely
  <2> QED BY <1>1, <2>1, <2>2
          DEF BucketsPast, SharedAccounts, LocalAccounts, Shown, WindowBound, Expired
<1>5. ASSUME NEW r \in Requests, flight'[r].stage # "exec",
             \A q \in Requests \ {r} : flight'[q] = flight[q], minute' = minute
      PROVE  FlightsTimely'
  BY <1>5 DEF FlightsTimely
<1>6. ASSUME NEW r \in Requests, RedisFails(r) PROVE IInv'
  <2>1. UNCHANGED <<minute, local, admitted>> BY <1>6 DEF RedisFails
  <2>2. FlightsTimely' BY <1>5, <1>6 DEF RedisFails, TypeOK
  <2>3. PICK k \in Keys, m \in Minutes : k = flight[r].key /\ m = flight[r].window
    BY <1>6, Numbers DEF RedisFails
  <2>4. UNCHANGED shared \/ shared' = [shared EXCEPT ![k][m] = @ + 1]
    BY <1>6, <2>3 DEF RedisFails
  <2>5. \A j \in Keys, p \in Minutes :
            shared'[j][p] = shared[j][p] \/ shared'[j][p] = shared[j][p] + 1
    <3>1. CASE UNCHANGED shared BY <3>1
    <3>2. CASE shared' = [shared EXCEPT ![k][m] = @ + 1]
      <4>1. shared'[k] = [shared[k] EXCEPT ![m] = @ + 1] BY <3>2 DEF TypeOK
      <4>2. \A j \in Keys \ {k} : shared'[j] = shared[j] BY <3>2 DEF TypeOK
      <4>3. shared[k] \in [Minutes -> Nat] BY DEF TypeOK
      <4>4. \A p \in Minutes :
                shared'[k][p] = shared[k][p] \/ shared'[k][p] = shared[k][p] + 1
        BY <4>1, <4>3
      <4> QED BY <4>2, <4>4
    <3> QED BY <2>4, <3>1, <3>2
  <2>6. ASSUME NEW j \in Keys, NEW p \in Minutes, admitted["redis"][j][p] <= shared[j][p]
        PROVE  admitted'["redis"][j][p] <= shared'[j][p]
    <3>1. /\ shared[j][p] \in Nat /\ admitted["redis"][j][p] \in Nat
          /\ admitted'["redis"][j][p] = admitted["redis"][j][p]
      BY <2>1, Numbers, Constants
    <3> QED BY <2>5, <2>6, <3>1
  <2>7. SharedAccounts' BY <2>1, <2>6 DEF SharedAccounts, Expired
  <2> QED BY <1>1, <2>1, <2>2, <2>7 DEF BucketsPast, LocalAccounts, Shown, WindowBound
<1>7. ASSUME NEW r \in Requests, IncrementShared(r) PROVE IInv'
  <2>1. PICK k \in Keys, m \in Minutes : k = flight[r].key /\ m = flight[r].window
    BY <1>7, Numbers DEF IncrementShared
  <2>2. /\ UNCHANGED <<minute, local>> /\ flight[r].stage = "exec"
        /\ shared' = [shared EXCEPT ![k][m] = shared[k][m] + 1]
        /\ Verdict("redis", k, m, shared[k][m] + 1)
    BY <1>7, <2>1 DEF IncrementShared
  <2>3. FlightsTimely' BY <1>5, <1>7, <2>2 DEF IncrementShared, TypeOK, Idle
  <2>4. minute <= m + 1 BY <2>1, <2>2 DEF FlightsTimely
  <2> QED BY <1>1, <2>2, <2>3, <2>4, SharedStep
<1>8. ASSUME NEW r \in Requests, IncrementLocal(r) PROVE IInv'
  <2>1. PICK s \in Servers, k \in Keys : s = flight[r].server /\ k = flight[r].key
    BY <1>8, Numbers DEF IncrementLocal
  <2>2. /\ UNCHANGED <<minute, shared>>
        /\ local' = [local EXCEPT ![s] = Counted(local[s], k)]
        /\ Verdict(s, k, minute, CountIn(local[s], k))
    BY <1>8, <2>1 DEF IncrementLocal
  <2>3. FlightsTimely' BY <1>5, <1>8, <2>2 DEF IncrementLocal, TypeOK, Idle
  <2> QED BY <1>1, <2>2, <2>3, LocalStep
<1>9. CASE UNCHANGED vars
  BY <1>1, <1>9 DEF vars, FlightsTimely, BucketsPast, SharedAccounts, LocalAccounts, Shown,
     WindowBound, Expired
<1> QED BY <1>2, <1>3, <1>4, <1>6, <1>7, <1>8, <1>9 DEF Next

-----------------------------------------------------------------------------
LEMMA InitHolds == ASSUME Init PROVE IInv
<1> USE Constants DEF Init
<1>1. TypeOK
  <2>1. NoBucket \in Buckets BY DEF NoBucket, Buckets
  <2>2. local \in [Servers -> [Keys -> Buckets]] BY <2>1
  <2>3. arrived \in 0 .. MaxAsked OBVIOUS
  <2> QED BY <2>2, <2>3 DEF TypeOK
<1>2. FlightsTimely BY DEF FlightsTimely, Idle
<1>3. BucketsPast BY DEF BucketsPast, NoBucket
<1>4. \A x \in Counters, k \in Keys, m \in Minutes : admitted[x][k][m] = 0
  OBVIOUS
<1>5. SharedAccounts BY <1>4 DEF SharedAccounts
<1>6. LocalAccounts BY <1>4 DEF LocalAccounts, Shown, NoBucket
<1>7. WindowBound BY <1>4 DEF WindowBound
<1> QED BY <1>1, <1>2, <1>3, <1>5, <1>6, <1>7 DEF IInv

\* Every variable keeps its type.
THEOREM TypeCorrect == Spec => []TypeOK
<1>1. Init => TypeOK BY InitHolds DEF IInv
<1> QED BY <1>1, Typing, PTL DEF Spec

THEOREM InvHolds == Spec => []IInv
<1> QED BY InitHolds, StepPreserves, PTL DEF Spec

\* For any limit, and any number of processes, clients and requests, no counter
\* admits more than Limit requests of a key in a window.
THEOREM WindowsBounded == Spec => []WindowBound
<1>1. IInv => WindowBound BY DEF IInv
<1> QED BY <1>1, InvHolds, PTL

\* Counting one key adds at most that key to a map, and leaves a map at
\* capacity with buckets of the current minute only.
LEMMA MapGrowth ==
    ASSUME IInv, NEW s \in Servers, NEW k \in Keys, minute' = minute,
           local'[s] = Counted(local[s], k)
    PROVE  \/ Cardinality(Tracked(local'[s])) <= Capacity
           \/ \A j \in Tracked(local'[s]) : local'[s][j].window = minute
<1> USE DEF IInv
<1>1. IsFiniteSet(Keys) BY LimiterAssumption DEF LimiterAssumption
<1>2. IsFiniteSet(Tracked(local[s])) /\ Cardinality(Tracked(local[s])) \in Nat
  BY <1>1, FS_Subset, FS_CardinalityType DEF Tracked
<1>3. \A j \in Tracked(local'[s]) : j \in Keys /\ (j = k \/ j \in Kept(local[s]))
  BY DEF Counted, Tracked, NoBucket
<1>4. \A j \in Kept(local[s]) : j \in Tracked(local[s])
  BY DEF Kept
<1>5. CASE Cardinality(Tracked(local[s])) < Capacity
  <2>1. Tracked(local'[s]) \subseteq Tracked(local[s]) \cup {k}
    BY <1>3, <1>4
  <2>2. /\ IsFiniteSet(Tracked(local[s]) \cup {k})
        /\ Cardinality(Tracked(local[s]) \cup {k}) <= Cardinality(Tracked(local[s])) + 1
    <3>1. /\ IsFiniteSet(Tracked(local[s]) \cup {k})
          /\ \/ Cardinality(Tracked(local[s]) \cup {k}) = Cardinality(Tracked(local[s]))
             \/ Cardinality(Tracked(local[s]) \cup {k}) = Cardinality(Tracked(local[s])) + 1
      BY <1>2, FS_AddElement
    <3> QED BY <1>2, <3>1
  <2>3. /\ Cardinality(Tracked(local'[s])) <= Cardinality(Tracked(local[s]) \cup {k})
        /\ IsFiniteSet(Tracked(local'[s]))
    BY <2>1, <2>2, FS_Subset
  <2>4. /\ Cardinality(Tracked(local'[s])) \in Nat
        /\ Cardinality(Tracked(local[s]) \cup {k}) \in Nat
    BY <2>2, <2>3, FS_CardinalityType
  <2> QED BY <1>2, <1>5, <2>2, <2>3, <2>4, Constants
<1>6. CASE ~(Cardinality(Tracked(local[s])) < Capacity)
  <2>1. \A j \in Kept(local[s]) : local[s][j].window = minute
    <3>1. \A j \in Kept(local[s]) : ~(local[s][j].window < minute) /\ j \in Keys
      BY <1>6 DEF Kept, Tracked
    <3> QED BY <3>1, Numbers DEF BucketsPast
  <2>2. \A j \in Tracked(local'[s]) : local'[s][j].window = minute
    BY <1>3, <2>1 DEF Counted
  <2> QED BY <2>2
<1> QED BY <1>5, <1>6

\* The memory of a process for clients of past minutes is bounded.
THEOREM MemoryBounded == Spec => []LocalBounded
<1>1. ASSUME Init PROVE LocalBounded
  BY <1>1 DEF Init, LocalBounded, Tracked, NoBucket
<1>2. ASSUME IInv, LocalBounded, [Next]_vars PROVE LocalBounded'
  <2>1. CASE UNCHANGED local BY <1>2, <2>1 DEF LocalBounded, Tracked
  <2>2. ASSUME NEW r \in Requests, IncrementLocal(r) PROVE LocalBounded'
    <3>1. PICK s \in Servers, k \in Keys : s = flight[r].server /\ k = flight[r].key
      BY <1>2, <2>2, Numbers DEF IInv, IncrementLocal
    <3>2. minute' = minute /\ local' = [local EXCEPT ![s] = Counted(local[s], k)]
      BY <2>2, <3>1 DEF IncrementLocal
    <3>3. local'[s] = Counted(local[s], k) /\ \A t \in Servers \ {s} : local'[t] = local[t]
      BY <1>2, <3>2 DEF IInv, TypeOK
    <3>4. \/ Cardinality(Tracked(local'[s])) <= Capacity
          \/ \A j \in Tracked(local'[s]) : local'[s][j].window = minute
      BY <1>2, <3>2, <3>3, MapGrowth
    <3>5. \A t \in Servers :
              \/ Cardinality(Tracked(local'[t])) <= Capacity
              \/ \A i, j \in Tracked(local'[t]) : local'[t][i].window = local'[t][j].window
      <4>1. ASSUME NEW t \in Servers \ {s}
            PROVE  \/ Cardinality(Tracked(local'[t])) <= Capacity
                   \/ \A i, j \in Tracked(local'[t]) :
                         local'[t][i].window = local'[t][j].window
        <5>1. local'[t] = local[t] BY <3>3
        <5> QED BY <1>2, <5>1 DEF LocalBounded
      <4>2. \/ Cardinality(Tracked(local'[s])) <= Capacity
            \/ \A i, j \in Tracked(local'[s]) : local'[s][i].window = local'[s][j].window
        BY <3>4
      <4> QED BY <4>1, <4>2
    <3> QED BY <3>5 DEF LocalBounded
  <2> QED BY <1>2, <2>1, <2>2
          DEF Next, vars, Tick, Expire, Arrive, IncrementShared, RedisFails
<1> QED BY <1>1, <1>2, InvHolds, PTL DEF Spec
-----------------------------------------------------------------------------
(* Refusals *)

\* The requests of a key and a window still to be counted: at all, and in Redis.
InFlight(k, m) ==
    {r \in Requests : /\ flight[r].stage \in {"exec", "local"}
                      /\ flight[r].key = k /\ flight[r].window = m}
InExec(k, m) == {r \in InFlight(k, m) : flight[r].stage = "exec"}

\* What a counter shows and what may still be added to it were asked for.  A
\* request whose round trip failed may be shown in Redis and still be counted
\* in memory: the two are compared with asked one by one.
AskedCovers ==
    \A k \in Keys, m \in Minutes :
        /\ IsFiniteSet(InFlight(k, m))
        /\ Cardinality(InFlight(k, m)) <= asked[k][m]
        /\ shared[k][m] + Cardinality(InExec(k, m)) <= asked[k][m]
        /\ \A s \in Servers :
              Shown(s, k, m) + Cardinality(InFlight(k, m)) <= asked[k][m]

\* The sets of a state with finitely many requests under way have sizes.
LEMMA Sizes ==
    ASSUME TypeOK, AskedCovers, NEW k \in Keys, NEW m \in Minutes
    PROVE  /\ IsFiniteSet(InFlight(k, m)) /\ IsFiniteSet(InExec(k, m))
           /\ Cardinality(InFlight(k, m)) \in Nat /\ Cardinality(InExec(k, m)) \in Nat
           /\ asked[k][m] \in Nat /\ shared[k][m] \in Nat
           /\ \A s \in Servers : Shown(s, k, m) \in Nat
<1>1. IsFiniteSet(InFlight(k, m)) BY DEF AskedCovers
<1>2. IsFiniteSet(InExec(k, m)) BY <1>1, FS_Subset DEF InExec
<1>3. asked[k][m] \in Nat BY DEF TypeOK
<1>4. \A s \in Servers : Shown(s, k, m) \in Nat BY Numbers DEF Shown
<1> QED BY <1>1, <1>2, <1>3, <1>4, FS_CardinalityType, Numbers

\* A request leaves flight: one set loses it, the others stay as they are.
LEMMA Leaving ==
    ASSUME TypeOK, AskedCovers, NEW r \in Requests, flight' = [flight EXCEPT ![r] = Idle],
           NEW k \in Keys, NEW m \in Minutes, r \in InFlight(k, m)
    PROVE  /\ Cardinality(InFlight(k, m)') = Cardinality(InFlight(k, m)) - 1
           /\ flight[r].stage = "exec" =>
                 Cardinality(InExec(k, m)') = Cardinality(InExec(k, m)) - 1
           /\ flight[r].stage = "local" => InExec(k, m)' = InExec(k, m)
           /\ IsFiniteSet(InFlight(k, m)')
           /\ \A j \in Keys, p \in Minutes : j # k \/ p # m =>
                 InFlight(j, p)' = InFlight(j, p) /\ InExec(j, p)' = InExec(j, p)
<1>1. /\ flight'[r].stage = "idle" /\ \A q \in Requests \ {r} : flight'[q] = flight[q]
      /\ flight[r].key = k /\ flight[r].window = m
  BY DEF TypeOK, Idle, InFlight
<1>2. \A j \in Keys, p \in Minutes :
          /\ InFlight(j, p)' = InFlight(j, p) \ {r}
          /\ InExec(j, p)' = InExec(j, p) \ {r}
  BY <1>1 DEF InFlight, InExec
<1>3. \A j \in Keys, p \in Minutes : j # k \/ p # m =>
          r \notin InFlight(j, p) /\ r \notin InExec(j, p)
  BY <1>1 DEF InFlight, InExec
<1>4. IsFiniteSet(InFlight(k, m)) /\ IsFiniteSet(InExec(k, m)) BY Sizes
<1>5. /\ Cardinality(InFlight(k, m) \ {r}) = Cardinality(InFlight(k, m)) - 1
      /\ IsFiniteSet(InFlight(k, m) \ {r})
      /\ r \in InExec(k, m) => Cardinality(InExec(k, m) \ {r}) = Cardinality(InExec(k, m)) - 1
  BY <1>4, FS_RemoveElement
<1>6. /\ flight[r].stage = "exec" => r \in InExec(k, m)
      /\ flight[r].stage = "local" => r \notin InExec(k, m)
  BY DEF InExec
<1>7. InFlight(k, m)' = InFlight(k, m) \ {r} /\ InExec(k, m)' = InExec(k, m) \ {r}
  BY <1>2
<1>8. /\ Cardinality(InFlight(k, m)') = Cardinality(InFlight(k, m)) - 1
      /\ IsFiniteSet(InFlight(k, m)')
  BY <1>5, <1>7
<1>9. flight[r].stage = "exec" =>
         Cardinality(InExec(k, m)') = Cardinality(InExec(k, m)) - 1
  BY <1>5, <1>6, <1>7
<1>10. flight[r].stage = "local" => InExec(k, m)' = InExec(k, m)
  BY <1>6, <1>7
<1>11. \A j \in Keys, p \in Minutes : j # k \/ p # m =>
          InFlight(j, p)' = InFlight(j, p) /\ InExec(j, p)' = InExec(j, p)
  BY <1>2, <1>3
<1> QED BY <1>8, <1>9, <1>10, <1>11

\* What a bucket shows after one more request has been counted in it.
LEMMA ShownAfter ==
    ASSUME IInv, minute' = minute, NEW c \in Minutes, c = minute, NEW s \in Servers, NEW k \in Keys,
           local' = [local EXCEPT ![s] = Counted(local[s], k)]
    PROVE  /\ Shown(s, k, c)' = CountIn(local[s], k)
           /\ CountIn(local[s], k) = Shown(s, k, c) + 1
           /\ \A t \in Servers, j \in Keys, p \in Minutes :
                 \/ t = s /\ j = k /\ p = c
                 \/ Shown(t, j, p)' = Shown(t, j, p)
                 \/ Shown(t, j, p)' = 0
<1> USE DEF IInv
<1>1. local'[s] = Counted(local[s], k) /\ \A t \in Servers \ {s} : local'[t] = local[t]
  BY DEF TypeOK
<1>2. /\ local'[s][k] = [window |-> minute, count |-> CountIn(local[s], k)]
      /\ \A j \in Keys \ {k} : local'[s][j] = local[s][j] \/ local'[s][j] = NoBucket
      /\ CountIn(local[s], k) = Shown(s, k, c) + 1
  BY <1>1, Counting
<1>3. ASSUME NEW t \in Servers, NEW j \in Keys, NEW p \in Minutes
      PROVE  \/ t = s /\ j = k /\ p = c
             \/ Shown(t, j, p)' = Shown(t, j, p)
             \/ Shown(t, j, p)' = 0
  <2>1. CASE local'[t][j] = local[t][j] BY <2>1 DEF Shown
  <2>2. CASE local'[t][j] = NoBucket BY <2>2 DEF Shown, NoBucket
  <2>3. CASE t = s /\ j = k /\ p # c
    <3>1. local'[t][j].window # p BY <1>2, <2>3
    <3> QED BY <3>1 DEF Shown
  <2> QED BY <1>1, <1>2, <2>1, <2>2, <2>3
<1>4. Shown(s, k, c)' = IF local'[s][k].window = c THEN local'[s][k].count ELSE 0
  BY DEF Shown
<1> QED BY <1>2, <1>3 DEF Shown

\* A request that comes is asked for and under way in one window.
LEMMA ArriveCovers ==
    ASSUME IInv, AskedCovers, NEW r \in Requests, NEW s \in Servers, NEW k \in Keys,
           Arrive(r, s, k)
    PROVE  AskedCovers'
<1> USE DEF IInv
<1>0. PICK c \in Minutes : c = minute BY DEF TypeOK
<1>1. /\ flight[r] = Idle /\ UNCHANGED <<minute, shared, local>>
      /\ flight'[r].stage \in {"exec", "local"} /\ flight'[r].key = k
      /\ flight'[r].window = c
      /\ \A q \in Requests \ {r} : flight'[q] = flight[q]
  BY <1>0 DEF Arrive, TypeOK
<1>3. /\ asked'[k][c] = asked[k][c] + 1
      /\ \A j \in Keys, p \in Minutes : j # k \/ p # c => asked'[j][p] = asked[j][p]
  BY <1>0 DEF Arrive, TypeOK
<1>4. \A j \in Keys, p \in Minutes : r \notin InFlight(j, p)
  BY <1>1 DEF InFlight, Idle
<1>5. \A j \in Keys, p \in Minutes : j # k \/ p # c =>
          InFlight(j, p)' = InFlight(j, p) /\ InExec(j, p)' = InExec(j, p)
  BY <1>1, <1>4 DEF InFlight, InExec
<1>6. /\ InFlight(k, c)' = InFlight(k, c) \cup {r}
      /\ \/ InExec(k, c)' = InExec(k, c) \cup {r}
         \/ InExec(k, c)' = InExec(k, c)
  BY <1>1, <1>4 DEF InFlight, InExec
<1>7. /\ IsFiniteSet(InFlight(k, c)')
      /\ Cardinality(InFlight(k, c)') = Cardinality(InFlight(k, c)) + 1
      /\ Cardinality(InExec(k, c)') \in
            {Cardinality(InExec(k, c)), Cardinality(InExec(k, c)) + 1}
  <2>1. IsFiniteSet(InFlight(k, c)) /\ IsFiniteSet(InExec(k, c))
    BY Sizes
  <2>2. r \notin InFlight(k, c) BY <1>4
  <2> QED BY <1>6, <2>1, <2>2, FS_AddElement
<1>8. \A t \in Servers, j \in Keys, p \in Minutes : Shown(t, j, p)' = Shown(t, j, p)
  BY <1>1 DEF Shown
<1> SUFFICES ASSUME NEW j \in Keys, NEW p \in Minutes
             PROVE  /\ IsFiniteSet(InFlight(j, p)')
                    /\ Cardinality(InFlight(j, p)') <= asked'[j][p]
                    /\ shared'[j][p] + Cardinality(InExec(j, p)') <= asked'[j][p]
                    /\ \A t \in Servers :
                          Shown(t, j, p)' + Cardinality(InFlight(j, p)') <= asked'[j][p]
  BY DEF AskedCovers
<1>9. CASE j # k \/ p # c
  BY <1>1, <1>3, <1>5, <1>8, <1>9 DEF AskedCovers
<1>10. CASE j = k /\ p = c
  <2>1. /\ Cardinality(InFlight(j, p)) <= asked[j][p]
        /\ shared[j][p] + Cardinality(InExec(j, p)) <= asked[j][p]
        /\ \A t \in Servers : Shown(t, j, p) + Cardinality(InFlight(j, p)) <= asked[j][p]
    BY DEF AskedCovers
  <2> QED BY <1>1, <1>3, <1>7, <1>8, <1>10, <2>1, Sizes
<1> QED BY <1>9, <1>10

\* A request counted in Redis moves from those under way to what is shown there.
LEMMA SharedCovers ==
    ASSUME IInv, AskedCovers, NEW r \in Requests, IncrementShared(r)
    PROVE  /\ AskedCovers'
           /\ shared[flight[r].key][flight[r].window] + 1 <= asked[flight[r].key][flight[r].window]
<1> USE DEF IInv
<1>1. PICK k \in Keys, m \in Minutes : k = flight[r].key /\ m = flight[r].window
  BY Numbers DEF IncrementShared
<1>2. /\ flight[r].stage = "exec" /\ UNCHANGED <<minute, local, asked>>
      /\ shared' = [shared EXCEPT ![k][m] = shared[k][m] + 1]
      /\ flight' = [flight EXCEPT ![r] = Idle] /\ r \in InFlight(k, m)
  BY <1>1 DEF IncrementShared, InFlight
<1>3. /\ shared'[k][m] = shared[k][m] + 1
      /\ \A j \in Keys, p \in Minutes : j # k \/ p # m => shared'[j][p] = shared[j][p]
  BY <1>2 DEF TypeOK
<1>4. /\ Cardinality(InFlight(k, m)') = Cardinality(InFlight(k, m)) - 1
      /\ Cardinality(InExec(k, m)') = Cardinality(InExec(k, m)) - 1
      /\ IsFiniteSet(InFlight(k, m)')
      /\ \A j \in Keys, p \in Minutes : j # k \/ p # m =>
            InFlight(j, p)' = InFlight(j, p) /\ InExec(j, p)' = InExec(j, p)
  BY <1>2, Leaving
<1>5. \A t \in Servers, j \in Keys, p \in Minutes : Shown(t, j, p)' = Shown(t, j, p)
  BY <1>2 DEF Shown
<1>6. /\ Cardinality(InFlight(k, m)) <= asked[k][m]
      /\ shared[k][m] + Cardinality(InExec(k, m)) <= asked[k][m]
      /\ \A t \in Servers : Shown(t, k, m) + Cardinality(InFlight(k, m)) <= asked[k][m]
  BY DEF AskedCovers
<1>7. shared[k][m] + 1 <= asked[k][m]
  <2>1. r \in InExec(k, m) BY <1>2 DEF InExec
  <2>2. Cardinality(InExec(k, m)) # 0 BY <2>1, Sizes, FS_EmptySet
  <2> QED BY <1>6, <2>2, Sizes
<1>8. ASSUME NEW j \in Keys, NEW p \in Minutes
      PROVE  /\ IsFiniteSet(InFlight(j, p)')
             /\ Cardinality(InFlight(j, p)') <= asked'[j][p]
             /\ shared'[j][p] + Cardinality(InExec(j, p)') <= asked'[j][p]
             /\ \A t \in Servers :
                   Shown(t, j, p)' + Cardinality(InFlight(j, p)') <= asked'[j][p]
  <2>1. CASE j # k \/ p # m
    BY <1>2, <1>3, <1>4, <1>5, <2>1 DEF AskedCovers
  <2>2. CASE j = k /\ p = m
    BY <1>2, <1>3, <1>4, <1>5, <1>6, <2>2, Sizes
  <2> QED BY <2>1, <2>2
<1> QED BY <1>1, <1>7, <1>8 DEF AskedCovers

\* A failed round trip leaves the request under way, counted in Redis or not.
LEMMA FailureCovers ==
    ASSUME IInv, AskedCovers, NEW r \in Requests, RedisFails(r)
    PROVE  AskedCovers'
<1> USE DEF IInv
<1>1. PICK k \in Keys, m \in Minutes : k = flight[r].key /\ m = flight[r].window
  BY Numbers DEF RedisFails
<1>2. /\ flight[r].stage = "exec" /\ UNCHANGED <<minute, local, asked>>
      /\ UNCHANGED shared \/ shared' = [shared EXCEPT ![k][m] = @ + 1]
      /\ flight' = [flight EXCEPT ![r].stage = "local"] /\ r \in InExec(k, m)
  BY <1>1 DEF RedisFails, InFlight, InExec
<1>3. flight[r] \in Flights BY <1>2 DEF TypeOK, Idle
<1>4. /\ flight'[r].stage = "local" /\ flight'[r].key = k /\ flight'[r].window = m
      /\ \A q \in Requests \ {r} : flight'[q] = flight[q]
  BY <1>1, <1>2, <1>3 DEF TypeOK, Flights
<1>5. \A j \in Keys, p \in Minutes :
          InFlight(j, p)' = InFlight(j, p) /\ InExec(j, p)' = InExec(j, p) \ {r}
  BY <1>1, <1>2, <1>4 DEF InFlight, InExec
<1>6. Cardinality(InExec(k, m)') = Cardinality(InExec(k, m)) - 1
  BY <1>2, <1>5, Sizes, FS_RemoveElement
<1>7. /\ shared'[k][m] \in {shared[k][m], shared[k][m] + 1}
      /\ \A j \in Keys, p \in Minutes : j # k \/ p # m => shared'[j][p] = shared[j][p]
  BY <1>2 DEF TypeOK
<1>8. \A j \in Keys, p \in Minutes : j # k \/ p # m => InExec(j, p)' = InExec(j, p)
  BY <1>1, <1>5 DEF InExec, InFlight
<1>9. \A t \in Servers, j \in Keys, p \in Minutes : Shown(t, j, p)' = Shown(t, j, p)
  BY <1>2 DEF Shown
<1>10. ASSUME NEW j \in Keys, NEW p \in Minutes
       PROVE  /\ IsFiniteSet(InFlight(j, p)')
              /\ Cardinality(InFlight(j, p)') <= asked'[j][p]
              /\ shared'[j][p] + Cardinality(InExec(j, p)') <= asked'[j][p]
              /\ \A t \in Servers :
                    Shown(t, j, p)' + Cardinality(InFlight(j, p)') <= asked'[j][p]
  <2>1. /\ Cardinality(InFlight(j, p)) <= asked[j][p]
        /\ shared[j][p] + Cardinality(InExec(j, p)) <= asked[j][p]
    BY DEF AskedCovers
  <2>2. shared'[j][p] + Cardinality(InExec(j, p)') <= asked'[j][p]
    <3>1. CASE j # k \/ p # m BY <1>2, <1>7, <1>8, <2>1, <3>1
    <3>2. CASE j = k /\ p = m BY <1>2, <1>6, <1>7, <2>1, <3>2, Sizes
    <3> QED BY <3>1, <3>2
  <2> QED BY <1>2, <1>5, <1>9, <2>2 DEF AskedCovers
<1> QED BY <1>10 DEF AskedCovers

\* A request counted in memory, in the window it came in or in the next.
LEMMA LocalCovers ==
    ASSUME IInv, AskedCovers, NEW r \in Requests, IncrementLocal(r)
    PROVE  /\ AskedCovers'
           /\ CountIn(local[flight[r].server], flight[r].key) <= asked'[flight[r].key][minute]
           /\ \A j \in Keys, p \in Minutes : asked[j][p] <= asked'[j][p]
<1> USE DEF IInv
<1>1. PICK s \in Servers, k \in Keys, m \in Minutes :
         s = flight[r].server /\ k = flight[r].key /\ m = flight[r].window
  BY Numbers DEF IncrementLocal
<1>2. /\ flight[r].stage = "local" /\ UNCHANGED <<minute, shared>>
      /\ local' = [local EXCEPT ![s] = Counted(local[s], k)]
      /\ asked' = IF m = minute THEN asked ELSE [asked EXCEPT ![k][minute] = @ + 1]
      /\ flight' = [flight EXCEPT ![r] = Idle] /\ r \in InFlight(k, m)
  BY <1>1 DEF IncrementLocal, InFlight
<1>3. PICK c \in Minutes : c = minute BY DEF TypeOK
<1>4. /\ asked'[k][c] = IF m = c THEN asked[k][c] ELSE asked[k][c] + 1
      /\ \A j \in Keys, p \in Minutes : j # k \/ p # c => asked'[j][p] = asked[j][p]
  BY <1>2, <1>3 DEF TypeOK
<1>5. /\ Cardinality(InFlight(k, m)') = Cardinality(InFlight(k, m)) - 1
      /\ InExec(k, m)' = InExec(k, m)
      /\ IsFiniteSet(InFlight(k, m)')
      /\ \A j \in Keys, p \in Minutes : j # k \/ p # m =>
            InFlight(j, p)' = InFlight(j, p) /\ InExec(j, p)' = InExec(j, p)
  BY <1>2, Leaving
<1>6. /\ Shown(s, k, c)' = CountIn(local[s], k)
      /\ CountIn(local[s], k) = Shown(s, k, c) + 1
      /\ \A t \in Servers, j \in Keys, p \in Minutes :
            \/ t = s /\ j = k /\ p = c
            \/ Shown(t, j, p)' = Shown(t, j, p)
            \/ Shown(t, j, p)' = 0
  BY <1>2, <1>3, ShownAfter
<1>7. \A j \in Keys, p \in Minutes : asked[j][p] <= asked'[j][p]
  BY <1>3, <1>4, Sizes
<1>8. \A j \in Keys, p \in Minutes :
          /\ Cardinality(InFlight(j, p)') \in Nat
          /\ Cardinality(InFlight(j, p)') <= Cardinality(InFlight(j, p))
          /\ IsFiniteSet(InFlight(j, p)') /\ InExec(j, p)' = InExec(j, p)
  <2>1. /\ Cardinality(InFlight(k, m)') \in Nat
        /\ Cardinality(InFlight(k, m)') <= Cardinality(InFlight(k, m))
    BY <1>5, Sizes, FS_CardinalityType
  <2> QED BY <1>5, <2>1, Sizes
<1>9. Shown(s, k, c)' + Cardinality(InFlight(k, c)') <= asked'[k][c]
  <2>1. Shown(s, k, c) + Cardinality(InFlight(k, c)) <= asked[k][c]
    BY <1>3 DEF AskedCovers
  <2>2. CASE m = c
    BY <1>3, <1>4, <1>5, <1>6, <2>1, <2>2, Sizes
  <2>3. CASE m # c
    BY <1>3, <1>4, <1>6, <1>8, <2>1, <2>3, Sizes
  <2> QED BY <2>2, <2>3
<1>10. ASSUME NEW j \in Keys, NEW p \in Minutes
       PROVE  /\ Cardinality(InFlight(j, p)') <= asked'[j][p]
              /\ shared'[j][p] + Cardinality(InExec(j, p)') <= asked'[j][p]
              /\ \A t \in Servers :
                    Shown(t, j, p)' + Cardinality(InFlight(j, p)') <= asked'[j][p]
  <2>1. /\ Cardinality(InFlight(j, p)) <= asked[j][p]
        /\ shared[j][p] + Cardinality(InExec(j, p)) <= asked[j][p]
        /\ \A t \in Servers : Shown(t, j, p) + Cardinality(InFlight(j, p)) <= asked[j][p]
        /\ asked[j][p] \in Nat /\ asked'[j][p] \in Nat /\ asked[j][p] <= asked'[j][p]
    BY <1>3, <1>4, <1>7, Sizes DEF AskedCovers
  <2>2. Cardinality(InFlight(j, p)') <= asked'[j][p]
    BY <1>8, <2>1, Sizes
  <2>3. shared'[j][p] + Cardinality(InExec(j, p)') <= asked'[j][p]
    BY <1>2, <1>8, <2>1, Sizes
  <2>4. ASSUME NEW t \in Servers
        PROVE  Shown(t, j, p)' + Cardinality(InFlight(j, p)') <= asked'[j][p]
    <3>1. CASE t = s /\ j = k /\ p = c BY <1>2, <1>9, <3>1
    <3>2. CASE Shown(t, j, p)' = Shown(t, j, p) BY <1>8, <2>1, <3>2, Sizes
    <3>3. CASE Shown(t, j, p)' = 0 BY <1>8, <2>2, <3>3
    <3> QED BY <1>6, <3>1, <3>2, <3>3
  <2> QED BY <2>2, <2>3, <2>4
<1>11. CountIn(local[s], k) <= asked'[k][c]
  <2>1. asked'[k][c] \in Nat BY <1>3, <1>4, Sizes
  <2>2. CountIn(local[s], k) \in Nat BY Counting
  <2> QED BY <1>2, <1>3, <1>6, <1>8, <1>9, <2>1, <2>2
<1> QED BY <1>1, <1>3, <1>7, <1>8, <1>10, <1>11 DEF AskedCovers

\* Refusals are added by verdicts, and only over the limit.
LEMMA Refusing ==
    ASSUME NEW x, NEW k, NEW m, NEW n, Verdict(x, k, m, n)
    PROVE  \/ refused' = refused
           \/ n > Limit /\ refused' = refused \cup {<<k, m>>}
BY DEF Verdict

LEMMA CoversKept ==
    ASSUME IInv, AskedCovers, RefusedOnlyOverLimit, [Next]_vars
    PROVE  AskedCovers' /\ RefusedOnlyOverLimit'
<1> USE DEF IInv
<1>1. \A k \in Keys, m \in Minutes : asked[k][m] \in Nat BY Sizes
<1>2. ASSUME UNCHANGED <<shared, local, flight, asked>> PROVE AskedCovers'
  <2>1. \A k \in Keys, m \in Minutes :
            InFlight(k, m)' = InFlight(k, m) /\ InExec(k, m)' = InExec(k, m)
    BY <1>2 DEF InFlight, InExec
  <2>2. \A s \in Servers, k \in Keys, m \in Minutes : Shown(s, k, m)' = Shown(s, k, m)
    BY <1>2 DEF Shown
  <2> QED BY <1>2, <2>1, <2>2 DEF AskedCovers
<1>3. ASSUME refused' = refused,
             \A k \in Keys, m \in Minutes : asked'[k][m] \in Nat /\ asked[k][m] <= asked'[k][m]
      PROVE  RefusedOnlyOverLimit'
  BY <1>1, <1>3, Constants DEF RefusedOnlyOverLimit
<1>4. ASSUME UNCHANGED <<refused, asked>> PROVE RefusedOnlyOverLimit'
  BY <1>4 DEF RefusedOnlyOverLimit
<1>5. CASE Tick BY <1>2, <1>4, <1>5 DEF Tick
<1>6. ASSUME NEW k \in Keys, NEW m \in Minutes, Expire(k, m)
      PROVE  AskedCovers' /\ RefusedOnlyOverLimit'
  <2>1. /\ UNCHANGED <<local, flight, asked>>
        /\ \A j \in Keys, p \in Minutes : shared'[j][p] \in {shared[j][p], 0}
    BY <1>6 DEF Expire, TypeOK
  <2>2. \A j \in Keys, p \in Minutes :
            InFlight(j, p)' = InFlight(j, p) /\ InExec(j, p)' = InExec(j, p)
    BY <2>1 DEF InFlight, InExec
  <2>3. \A s \in Servers, j \in Keys, p \in Minutes : Shown(s, j, p)' = Shown(s, j, p)
    BY <2>1 DEF Shown
  <2>4. ASSUME NEW j \in Keys, NEW p \in Minutes
        PROVE  shared'[j][p] + Cardinality(InExec(j, p)) <= asked[j][p]
    <3>1. shared[j][p] + Cardinality(InExec(j, p)) <= asked[j][p] BY DEF AskedCovers
    <3>2. shared'[j][p] = shared[j][p] \/ shared'[j][p] = 0 BY <2>1
    <3> QED BY <3>1, <3>2, Sizes
  <2>5. AskedCovers' BY <2>1, <2>2, <2>3, <2>4 DEF AskedCovers
  <2> QED BY <1>4, <1>6, <2>5 DEF Expire
<1>7. ASSUME NEW r \in Requests, NEW s \in Servers, NEW k \in Keys, Arrive(r, s, k)
      PROVE  AskedCovers' /\ RefusedOnlyOverLimit'
  <2>1. minute \in Minutes /\ asked' = [asked EXCEPT ![k][minute] = @ + 1]
    BY <1>7 DEF Arrive, TypeOK
  <2>2. \A j \in Keys, m \in Minutes : asked'[j][m] \in {asked[j][m], asked[j][m] + 1}
    BY <2>1 DEF TypeOK
  <2>3. refused' = refused BY <1>7 DEF Arrive
  <2> QED BY <1>1, <1>3, <1>7, <2>2, <2>3, ArriveCovers
<1>8. ASSUME NEW r \in Requests, IncrementShared(r)
      PROVE  AskedCovers' /\ RefusedOnlyOverLimit'
  <2>1. PICK k \in Keys, m \in Minutes : k = flight[r].key /\ m = flight[r].window
    BY <1>8, Numbers DEF IncrementShared
  <2>2. asked' = asked /\ Verdict("redis", k, m, shared[k][m] + 1)
    BY <1>8, <2>1 DEF IncrementShared
  <2>3. shared[k][m] + 1 <= asked[k][m] /\ AskedCovers' BY <1>8, <2>1, SharedCovers
  <2>4. CASE refused' = refused BY <1>4, <2>2, <2>3, <2>4
  <2>5. CASE shared[k][m] + 1 > Limit /\ refused' = refused \cup {<<k, m>>}
    <3>1. asked[k][m] > Limit BY <1>1, <2>3, <2>5, Constants, Sizes
    <3> QED BY <2>2, <2>3, <2>5, <3>1 DEF RefusedOnlyOverLimit
  <2> QED BY <2>2, <2>4, <2>5, Refusing
<1>9. ASSUME NEW r \in Requests, RedisFails(r) PROVE AskedCovers' /\ RefusedOnlyOverLimit'
  BY <1>4, <1>9, FailureCovers DEF RedisFails
<1>10. ASSUME NEW r \in Requests, IncrementLocal(r)
       PROVE  AskedCovers' /\ RefusedOnlyOverLimit'
  <2>1. PICK s \in Servers, k \in Keys : s = flight[r].server /\ k = flight[r].key
    BY <1>10, Numbers DEF IncrementLocal
  <2>2. PICK m \in Minutes : m = minute BY DEF TypeOK
  <2>3. PICK n \in Nat : n = CountIn(local[s], k) BY Counting
  <2>4. Verdict(s, k, m, n) BY <1>10, <2>1, <2>2, <2>3 DEF IncrementLocal
  <2>5. /\ AskedCovers' /\ n <= asked'[k][m]
        /\ \A j \in Keys, p \in Minutes : asked[j][p] <= asked'[j][p]
    BY <1>10, <2>1, <2>2, <2>3, LocalCovers
  <2>6. \A j \in Keys, p \in Minutes : asked'[j][p] \in Nat BY Typing DEF TypeOK
  <2>7. CASE refused' = refused BY <1>3, <2>5, <2>6, <2>7
  <2>8. CASE n > Limit /\ refused' = refused \cup {<<k, m>>}
    <3>1. asked'[k][m] > Limit BY <2>5, <2>6, <2>8, Constants
    <3>2. ASSUME NEW j \in Keys, NEW p \in Minutes, <<j, p>> \in refused
          PROVE  asked'[j][p] > Limit
      BY <1>1, <2>5, <2>6, <3>2, Constants DEF RefusedOnlyOverLimit
    <3> QED BY <2>5, <2>8, <3>1, <3>2 DEF RefusedOnlyOverLimit
  <2> QED BY <2>4, <2>7, <2>8, Refusing
<1>11. CASE UNCHANGED vars BY <1>2, <1>4, <1>11 DEF vars
<1> QED BY <1>5, <1>6, <1>7, <1>8, <1>9, <1>10, <1>11 DEF Next

\* At the start nothing is shown, under way or refused.
LEMMA CoversInit == Init => AskedCovers /\ RefusedOnlyOverLimit
<1> SUFFICES ASSUME Init PROVE AskedCovers /\ RefusedOnlyOverLimit OBVIOUS
<1>1. \A k \in Keys, m \in Minutes :
          InFlight(k, m) = {} /\ InExec(k, m) = {} /\ asked[k][m] = 0 /\ shared[k][m] = 0
  BY DEF Init, InFlight, InExec, Idle
<1>2. \A s \in Servers, k \in Keys, m \in Minutes : Shown(s, k, m) = 0
  BY DEF Init, Shown, NoBucket
<1>3. IsFiniteSet({}) /\ Cardinality({}) = 0 BY FS_EmptySet
<1>4. AskedCovers BY <1>1, <1>2, <1>3 DEF AskedCovers
<1>5. refused = {} BY DEF Init
<1> QED BY <1>4, <1>5 DEF RefusedOnlyOverLimit

\* A 429 means that more than Limit requests of that client and route were
\* under way in that minute (Middleware, increment and incrementLocal together),
\* with any number of processes, lost replies and changes to memory and back.
THEOREM RefusalsEarned == Spec => []RefusedOnlyOverLimit
<1>1. Init => AskedCovers /\ RefusedOnlyOverLimit BY CoversInit
<1>2. IInv /\ AskedCovers /\ RefusedOnlyOverLimit /\ [Next]_vars
          => AskedCovers' /\ RefusedOnlyOverLimit'
  BY CoversKept
<1> QED BY <1>1, <1>2, InvHolds, PTL DEF Spec
=============================================================================
