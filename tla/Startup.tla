------------------------------ MODULE Startup ------------------------------
(***************************************************************************)
(* The life of the server process over a database that outlives it: the     *)
(* connection loop of database.Open, the migration, the seeding of each      *)
(* table, the Redis check, serving, and the ways it ends (a failed start,    *)
(* SIGTERM with its graceful shutdown, a crash).  Every call of the start is *)
(* an action, so that an outage, the start-up deadline or a crash can fall    *)
(* between any two.  While the server serves, its users create and remove    *)
(* records; what a record holds is left to module RecordService.            *)
(***************************************************************************)
EXTENDS Naturals, Sequences, FiniteSets

CONSTANTS
    SeedOrder,    \* the tables Seed visits, in order
    Versioned,    \* those whose rows have revisions
    Managed,      \* those the API inserts into and removes from
    Codes,        \* user names and business codes
    Seeds,        \* [Tables -> SUBSET Codes], the rows Seed inserts
    UseRedis,     \* is REDIS_ADDR set?
    MaxAttempts   \* connection attempts of one start (20 in the code)

Tables == {SeedOrder[i] : i \in DOMAIN SeedOrder}

ASSUME StartupAssumption ==
    /\ SeedOrder \in Seq(Tables) /\ SeedOrder # <<>>
    /\ Versioned \subseteq Tables /\ Managed \subseteq Tables
    /\ Seeds \in [Tables -> (SUBSET Codes) \ {{}}]
    /\ UseRedis \in BOOLEAN
    /\ MaxAttempts \in Nat \ {0}

VARIABLES
    rows,      \* [Tables -> [Codes -> "absent", "live" or "removed"]]
    revised,   \* [Tables -> the codes with a first revision]
    pc,        \* where the process stands; "down" when there is none
    attempt,   \* the attempt of the connection loop
    err,       \* does the loop hold an error of its last attempt?
    visit,     \* position in SeedOrder of the table being seeded
    tx,        \* rows inserted by the open transaction
    late,      \* has the context of this start passed STARTUP_TIMEOUT?
    dbUp, redisUp,
    wanted,    \* auxiliary: has the operator asked for a running server?
    calm       \* auxiliary: from here on no fault and no stop happens

process == <<pc, attempt, err, visit, tx, late>>
database == <<rows, revised>>
outside == <<dbUp, redisUp, wanted, calm>>
vars == <<process, database, outside>>

States == {"absent", "live", "removed"}
Steps == {"dial", "ping", "again", "wait", "migrate", "count", "insert",
          "revise", "redis"}
Starting == pc \in Steps
Up == pc \in {"serving", "draining"}

-----------------------------------------------------------------------------
Init ==
    /\ rows = [t \in Tables |-> [c \in Codes |-> "absent"]]
    /\ revised = [t \in Tables |-> {}]
    /\ pc = "down" /\ attempt = 1 /\ err = FALSE /\ visit = 1 /\ tx = {}
    /\ late = FALSE
    /\ dbUp \in BOOLEAN /\ redisUp \in BOOLEAN
    /\ wanted = TRUE
    /\ calm = FALSE

Goto(label) == pc' = label /\ UNCHANGED <<attempt, err, visit, tx, late>>

\* os.Exit, or a kill: the open transaction is rolled back.
Exit == pc' = "down" /\ tx' = {} /\ UNCHANGED <<attempt, err, visit, late>>

\* A call that carries the start-up context.
Answers == dbUp /\ ~late

\* The container is started, or started again (restart: unless-stopped).
Boot ==
    /\ pc = "down" /\ wanted
    /\ pc' = "dial" /\ attempt' = 1 /\ err' = FALSE /\ visit' = 1
    /\ late' = FALSE /\ UNCHANGED <<tx, database, outside>>

-----------------------------------------------------------------------------
(* Open: the connection loop *)

\* gorm.Open pings once itself, without the context.
Dial ==
    /\ pc = "dial"
    /\ IF dbUp THEN pc' = "ping" /\ err' = FALSE ELSE pc' = "wait" /\ err' = TRUE
    /\ UNCHANGED <<attempt, visit, tx, late, database, outside>>

Ping ==
    /\ pc = "ping"
    /\ Goto(IF Answers THEN "migrate" ELSE "again")
    /\ UNCHANGED <<database, outside>>

\* The ping that failed is repeated to learn its error, and may succeed.
PingAgain ==
    /\ pc = "again"
    /\ pc' = "wait" /\ err' = ~Answers
    /\ UNCHANGED <<attempt, visit, tx, late, database, outside>>

\* (mutant of Attempt: one attempt too many)
AttemptOneMore ==
    IF attempt <= MaxAttempts
    THEN pc' = "dial" /\ attempt' = attempt + 1 /\ UNCHANGED <<err, visit, tx, late>>
    ELSE IF err THEN Exit ELSE Goto("migrate")

\* The next attempt; after the last one the error, if any, ends the start.
Attempt ==
    IF attempt < MaxAttempts
    THEN pc' = "dial" /\ attempt' = attempt + 1 /\ UNCHANGED <<err, visit, tx, late>>
    ELSE IF err THEN Exit ELSE Goto("migrate")

\* The select: a second passes, or the context is done.  Both may be ready.
Wait ==
    /\ pc = "wait"
    /\ Attempt \/ (late /\ Exit)
    /\ UNCHANGED <<database, outside>>

\* AutoMigrate runs without the context, adds what is missing and can be
\* repeated; whatever stops it half-way ends the start.
Migrate ==
    /\ pc = "migrate"
    /\ IF dbUp THEN Goto("count") ELSE Exit
    /\ UNCHANGED <<database, outside>>

-----------------------------------------------------------------------------
(* Seed *)

Table == SeedOrder[visit]

NextTable ==
    IF visit < Len(SeedOrder)
    THEN pc' = "count" /\ visit' = visit + 1 /\ UNCHANGED <<attempt, err, tx, late>>
    ELSE Goto("redis")

\* (mutant of IsEmpty: the count is not looked at)
AlwaysEmpty(t) == TRUE

\* Count goes through the soft-delete scope: removed rows are not counted.
IsEmpty(t) == \A c \in Codes : rows[t][c] # "live"

\* (mutant of Count: one count, of the users, decides for every table)
CountUsersOnly ==
    /\ pc = "count"
    /\ \/ ~Answers /\ Exit
       \/ Answers /\ IsEmpty(Table) /\ Goto("insert")
       \/ Answers /\ ~IsEmpty(Table) /\ Goto("redis")
    /\ UNCHANGED <<database, outside>>

Count ==
    /\ pc = "count"
    /\ \/ ~Answers /\ Exit
       \/ Answers /\ IsEmpty(Table) /\ Goto("insert")
       \/ Answers /\ ~IsEmpty(Table) /\ NextTable
    /\ UNCHANGED <<database, outside>>

\* (mutant of Clash: the insert overwrites on a duplicate key)
NoClash(t) == FALSE

\* The unique index of the codes covers removed rows too.
Clash(t) == \E c \in Seeds[t] : rows[t][c] # "absent"

Written(t) == [rows EXCEPT ![t] = [c \in Codes |->
                  IF c \in Seeds[t] THEN "live" ELSE rows[t][c]]]

\* (mutant of Insert: the rows of a versioned table are committed on their own)
InsertOutsideTransaction ==
    /\ pc = "insert"
    /\ \/ (~Answers \/ Clash(Table)) /\ Exit /\ UNCHANGED database
       \/ /\ Answers /\ ~Clash(Table)
          /\ rows' = Written(Table)
          /\ IF Table \in Versioned
             THEN /\ pc' = "revise" /\ tx' = Seeds[Table]
                  /\ UNCHANGED <<revised, attempt, err, visit, late>>
             ELSE NextTable /\ UNCHANGED revised
    /\ UNCHANGED outside

\* A plain table is committed by its one statement; a versioned one opens a
\* transaction that its revisions complete.
Insert ==
    /\ pc = "insert"
    /\ \/ (~Answers \/ Clash(Table)) /\ Exit /\ UNCHANGED database
       \/ /\ Answers /\ ~Clash(Table) /\ Table \in Versioned
          /\ pc' = "revise" /\ tx' = Seeds[Table]
          /\ UNCHANGED <<attempt, err, visit, late, database>>
       \/ /\ Answers /\ ~Clash(Table) /\ Table \notin Versioned
          /\ rows' = Written(Table)
          /\ NextTable /\ UNCHANGED revised
    /\ UNCHANGED outside

\* Both sets of rows become visible at once.
CommitSeeds ==
    /\ rows' = Written(Table)
    /\ revised' = [revised EXCEPT ![Table] = @ \cup tx]

Revise ==
    /\ pc = "revise"
    /\ \/ ~Answers /\ Exit /\ UNCHANGED database
       \/ /\ Answers /\ CommitSeeds
          /\ tx' = {}
          /\ IF visit < Len(SeedOrder)
             THEN pc' = "count" /\ visit' = visit + 1
             ELSE pc' = "redis" /\ UNCHANGED visit
          /\ UNCHANGED <<attempt, err, late>>
    /\ UNCHANGED outside

\* The commit of a seed takes effect and its confirmation is lost.
SeedUnseen ==
    /\ ~calm
    /\ \/ /\ pc = "insert" /\ Answers /\ ~Clash(Table) /\ Table \notin Versioned
          /\ rows' = Written(Table) /\ UNCHANGED revised
       \/ pc = "revise" /\ Answers /\ CommitSeeds
    /\ Exit
    /\ UNCHANGED outside

PingRedis ==
    /\ pc = "redis"
    /\ IF UseRedis => redisUp /\ ~late THEN Goto("serving") ELSE Exit
    /\ UNCHANGED <<database, outside>>

-----------------------------------------------------------------------------
(* Serving, and how it ends *)

UserCreates(t, c) ==
    /\ Up /\ dbUp /\ t \in Managed /\ rows[t][c] = "absent"
    /\ rows' = [rows EXCEPT ![t][c] = "live"]
    /\ revised' = IF t \in Versioned THEN [revised EXCEPT ![t] = @ \cup {c}] ELSE revised
    /\ UNCHANGED <<process, outside>>

UserRemoves(t, c) ==
    /\ Up /\ dbUp /\ t \in Managed /\ rows[t][c] = "live"
    /\ rows' = [rows EXCEPT ![t][c] = "removed"]
    /\ UNCHANGED <<revised, process, outside>>

\* SIGTERM starts a graceful shutdown; during a start nobody listens for it.
Stop ==
    /\ ~calm /\ wanted
    /\ wanted' = FALSE
    /\ IF pc = "serving" THEN Goto("draining")
       ELSE IF Starting THEN Exit ELSE UNCHANGED process
    /\ UNCHANGED <<database, dbUp, redisUp, calm>>

\* Requests under way have ended, or SHUTDOWN_TIMEOUT has passed.
Drain == pc = "draining" /\ Exit /\ UNCHANGED <<database, outside>>

Crash == ~calm /\ pc # "down" /\ Exit /\ UNCHANGED <<database, outside>>

-----------------------------------------------------------------------------
(* The surroundings *)

Deadline ==
    /\ ~calm /\ Starting /\ ~late
    /\ late' = TRUE
    /\ UNCHANGED <<pc, attempt, err, visit, tx, database, outside>>

Outage ==
    /\ ~calm
    /\ \/ dbUp' = ~dbUp /\ UNCHANGED redisUp
       \/ redisUp' = ~redisUp /\ UNCHANGED dbUp
    /\ UNCHANGED <<process, database, wanted, calm>>

OperatorStarts ==
    /\ ~wanted /\ wanted' = TRUE
    /\ UNCHANGED <<process, database, dbUp, redisUp, calm>>

\* The dependencies are back for good and the server is wanted.
CalmDown ==
    /\ ~calm /\ calm' = TRUE
    /\ dbUp' = TRUE /\ redisUp' = TRUE /\ wanted' = TRUE
    /\ UNCHANGED <<process, database>>

-----------------------------------------------------------------------------
Progress == Boot \/ Dial \/ Ping \/ PingAgain \/ Wait \/ Migrate \/ Count
            \/ Insert \/ Revise \/ PingRedis \/ Drain

Next ==
    \/ Progress \/ SeedUnseen \/ Stop \/ Crash
    \/ Deadline \/ Outage \/ OperatorStarts \/ CalmDown
    \/ \E t \in Tables, c \in Codes : UserCreates(t, c) \/ UserRemoves(t, c)

Spec == Init /\ [][Next]_vars

\* A running start goes on, the container is restarted, and a shutdown ends.
FairSpec == Spec /\ WF_vars(Progress)

-----------------------------------------------------------------------------
(* Properties *)

TypeOK ==
    /\ rows \in [Tables -> [Codes -> States]]
    /\ revised \in [Tables -> SUBSET Codes]
    /\ pc \in Steps \cup {"down", "serving", "draining"}
    /\ attempt \in 1 .. MaxAttempts
    /\ err \in BOOLEAN
    /\ visit \in DOMAIN SeedOrder
    /\ tx \in SUBSET Codes
    /\ late \in BOOLEAN /\ dbUp \in BOOLEAN /\ redisUp \in BOOLEAN
    /\ wanted \in BOOLEAN /\ calm \in BOOLEAN

\* A start fills only tables that never held a row: whatever crash, outage or
\* restart comes between, it never adds demo rows beside records of users and
\* never revives a record somebody removed (Seed, database.go 87-258).
OnlyVirginTablesSeeded ==
    [][\A t \in Tables : Starting /\ rows'[t] # rows[t] =>
           \A c \in Codes : rows[t][c] = "absent"]_vars

\* A server that answers requests has every table seeded, also when an earlier
\* start stopped after some of them: nobody is met by an empty user table or by
\* an aggregate without its demonstration rows.
SeededWhenServing ==
    Up => \A t \in Tables : \A c \in Seeds[t] : rows[t][c] # "absent"

\* No record of a versioned table, seeded or created, is ever visible without
\* its first revision, wherever the start or the process stopped.
RevisionWithEveryRow ==
    \A t \in Versioned : \A c \in Codes : rows[t][c] # "absent" => c \in revised[t]

\* Every record of the table has been removed.
Emptied(t) == IsEmpty(t) /\ \E c \in Codes : rows[t][c] = "removed"

\* Once its dependencies are back for good the server serves again, whatever
\* state earlier starts were cut off in, unless users emptied a table.
ComesBack == calm ~> (pc = "serving" \/ \E t \in Tables : Emptied(t))

\* The same without the exception: what restart: unless-stopped is there for
\* (docker-compose.yml 44).  It fails for an emptied table.
AlwaysComesBack == calm ~> pc = "serving"
=============================================================================
