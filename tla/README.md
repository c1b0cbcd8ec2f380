# Verification of the print colour calibration and release service

TLA+ models of the service in `src/` (a Go backend over a relational database
and Redis, with a React workbench), TLC configurations that check them on small
instances, and TLAPS proofs of the results that matter most for every instance.

## 1. The system

A print shop keeps four kinds of records, the *aggregates*: press units, print
runs, colour proofs and release decisions. Each has a code, a status that moves
along a fixed graph, a version that serves as optimistic lock, and business
fields. Operators create, edit and move records; entering or leaving certain
statuses needs a reviewer; only an admin deletes. Print runs and release
decisions keep an immutable revision per version, and every change should leave
a row in the audit log.

| Component | State | Operations | Hard parts |
|---|---|---|---|
| Aggregate services (`internal/service/*.go`) | none of their own; rows through repositories | Create, Update, Transition, Delete, Get, List, StatusCounts | check on a row read earlier, write later; audit after the commit; four near copies |
| Repositories (`internal/repository`) | rows, revisions | insert, versioned update with revision in one transaction, soft delete, paging | the WHERE clause is the only lock; unique codes include soft-deleted rows; Preload is a second query |
| Audit log (`service/security.go`, `repository/security.go`) | append-only rows | Audit, ListAudits, SummarizeAudits, EntityHistory | inserted outside the transaction it is about; summaries made of several queries |
| Guards and roles (`middleware/auth.go`, `handler/*.go`) | none | RequireMinimumRole, RequireRoles, canReview | the service-level check uses the row read, the write happens later |
| Login and request context | none (tokens are signed, not stored) | Login, Authenticate, RequestContext | none that orders steps |
| Rate limiter (`middleware/ratelimit.go`) | Redis counters, local buckets | Middleware, clean-up, Status | minute boundary, Redis failing or losing a reply, 512-key clean-up |
| Startup and shutdown (`cmd/server`, `internal/database`) | schema, seed rows | Open with 20 attempts, migrate, Seed, Shutdown | crash between seeds, restart after all rows of a table were removed |
| Queries (`handler/system.go`, lists) | none | lists, overview, summaries, history | answers assembled from several queries; two different clampings of page sizes |
| Workbench (`frontend/src`) | one store per aggregate, the session | load, create, transition, switch role | overlapping requests answered out of order |

The browser calls the backend over HTTP. Each request runs in a goroutine of its
own, and the goroutines share nothing in memory but the limiter: they meet in the
database. No transaction and no lock spans a request, so requests interleave
between database calls. The context of a request is cancelled when its client
goes away, so any database call can fail, also after its commit.

### What makes each component correct

* Services and repositories: a write replaces the row its checks looked at; every
  write is one version later and, for versioned aggregates, one revision longer;
  removed records are final; reviewed statuses change hands only through a
  cleared transition; each committed change is audited once, under its own
  version, or is known to be lost.
* Limiter: at most `limit` requests of a key in a window while Redis answers;
  clean-up never forgives requests of the running window.
* Startup: seeding happens once, never over user data, and a restart comes back.
* Queries: a page holds at most its size; parts of one answer agree.
* Workbench: a confirmed move is the one that was shown, or is refused; moves are
  offered only to those who may make them; nothing waits in vain; and an idle page
  shows the rows of its own search, unless a write was followed by its reload or
  answers overtook each other.

The hazards behind these sentences are listed with their source lines in
`PROJECT.json`.

## 2. Modules

| Module | What it is |
|---|---|
| `Rbac` | `roleRank`, the route guards and `canReview` |
| `Policies` | the four transition graphs, and what distinguishes the four services, one record each |
| `RecordLifecycle` | the abstract specification: atomic Create, Edit, Move and Remove on one table |
| `RecordService` | the requests of one aggregate, one action per database call; its properties and the refinement of `RecordLifecycle` |
| `MCRecordService` | `RecordService` with the real policies, for TLC |
| `RecordServiceProofs` | the theorems about `RecordService`, up to the commit of a request |
| `RecordAuditProofs` | the theorems about what comes after it: audit log and answers |
| `Startup`, `MCStartup` | the life of the server process over a database that outlives it, and its tables |
| `StartupProofs` | the theorems about `Startup` |
| `RateLimiter`, `MCRateLimiter` | the limiter of several server processes over one Redis |
| `RateLimiterProofs` | the theorems about `RateLimiter` |
| `Queries`, `MCQueries` | lists, walks over their pages and the audit summary, over a table that others write |
| `QueriesProofs` | the theorems about `Queries` |
| `Workbench`, `MCWorkbench` | one tab of the workbench over `RecordLifecycle` |
| `WorkbenchProofs` | the theorems about `Workbench` |

`RecordLifecycle` stands between two modules. `RecordService` implements it, for
clients that send only versions they have seen; `Workbench` takes it as its
server and as all the other users.

### RecordService and the code

The four services share one skeleton, so they are one module parameterised by
`Policy[kind]`; `kind` is chosen in `Init`, and a run with all four kinds checks
all four services. The state is

* `table`, the row of each code: version, status, one value for the business
  fields, and the soft-delete mark. Version 0 is a row that was never inserted.
  A code stands for the row id as well, since the unique index covers
  soft-deleted rows and a code therefore names at most one row for ever;
* `revisions` (`print_run_revisions`, `release_decision_revisions`) and `audit`
  (the audit rows about the record). A revision holds the version, the status
  and `data`, which stands for those business fields that both the record and
  the revision store. An audit row holds the version through its request id,
  which the revision of the same request carries too;
* per worker (goroutine): `pc`, `job` (the request, the row `snap` its first Get
  returned, the `item` to be written), the `answer` and what it shows (`view`);
* two auxiliary variables: `faults` counts failures, `unaudited` remembers the
  committed versions whose audit row can no longer come.

| Action | Code |
|---|---|
| `TurnAway` | the route guards answer 403 |
| `BeginCreate/Update/Transition/Delete/Get` | handler, first Get, and the in-memory checks up to the write |
| `Write`, `WriteMisses` | the single statement or the transaction of `CreateVersioned`/`UpdateVersioned`/`Delete`, with its RowsAffected |
| `WriteAudit`, `AuditLost`, `AuditUnseen` | `security.Audit`: its insert succeeds, fails, or commits without the caller learning of it; `AuditErrs` is what each service does with the error |
| `Reread`, `Preload` | the closing Get, and the second query for the revisions |
| `DbFails`, `WriteUnseen` | a call fails before or after its effect |
| `Crash` | the process stops with its requests |
| `Finish` | the answer leaves; the goroutine is free |

The first Get and the checks are one step with the arrival of the request. That
loses no behaviour: the checks are local, and a version a client knew when it
sent the request is still a version the row has had when the Get runs.

`Pipelining` decides which `expectedVersion` a client may send. Without it, only
versions the row has already had, as a client that waits for answers must; with
it, also the version a request of its own still under way is about to produce.
The API accepts both. The properties marked *observed* in the module hold only
without it: Update and Transition check the row they read, and the WHERE clause
compares the version of the request, which is never compared with that row.

### Startup and the code

The database is `rows`, the state of each code in each table (absent, live, or
removed, which is soft-deleted), and `revised`, the codes whose first revision
exists. The process is its program counter `pc` and the locals of a start:
`attempt` and `err` of the connection loop, `visit`, the table Seed is at, and
`tx`, what the open transaction has inserted. `late` says that the context of
the start has passed its deadline. `dbUp` and `redisUp` are the dependencies;
`wanted` and `calm` are auxiliary, for the operator and for the liveness property.

| Action | Code |
|---|---|
| `Boot` | `main` begins, also by the restart policy of the container |
| `Dial`, `Ping`, `PingAgain`, `Wait` | one turn of the loop of `Open`, with the ping that is repeated for its error, and the select |
| `Migrate` | `AutoMigrate` |
| `Count`, `Insert`, `Revise` | one table of `Seed`; a versioned table commits with its revisions |
| `SeedUnseen` | the commit of a seed takes effect, the start sees an error |
| `PingRedis` | the Redis check, after which the server serves |
| `UserCreates`, `UserRemoves` | what the API does to the tables meanwhile |
| `Stop`, `Drain`, `Crash` | SIGTERM, the end of a graceful shutdown, any other end |
| `Deadline`, `Outage`, `OperatorStarts`, `CalmDown` | the surroundings |

`Dial` and `Migrate` do not look at `late`, since gorm's own ping and
`AutoMigrate` do not carry the context; the other calls do. A failing call ends
the start (`os.Exit`), which rolls back an open transaction. One server process
runs at a time, as in `docker-compose.yml`.

### RateLimiter and the code

`shared` holds the Redis counters by key and minute, `local` the map of each
process (a bucket with count 0 is a key not in the map), `flight` the requests
between forming their Redis key and being counted. The login is routed beside the
limiter and is not one of them. A server process that is restarted begins with an
empty map; each life of a process counts as a server of its own. `asked`, `admitted` and `refused` are auxiliary: they record, per
window, which requests came, passed and were refused.

| Action | Code |
|---|---|
| `Arrive` | `Middleware` up to the Redis key, which fixes the window |
| `IncrementShared` | the MULTI/EXEC of INCR and EXPIRE answers, and the count decides |
| `RedisFails` | the round trip fails, before or after Redis counted |
| `IncrementLocal` | `incrementLocal` with `cleanupLocal`, under the mutex, at the minute the clock shows then |
| `Tick`, `Expire` | the clock, and the expiry of a counter |

Three assumptions about what is outside: the clocks of the servers agree and do
not go back; a round trip executes the transaction at most once (go-redis does
not repeat a transaction it has written) and ends within the minute after the
one it began in, its timeouts being seconds; a counter expires no earlier than
its two minutes, which in whole minutes is when two boundaries have passed.

### Queries and the code

One client reads one `endpoint`: the list of an aggregate, the audit list or the
audit summary. `rows` is the table it reads, in the order of insertion; `what` a
row holds is what the queries tell apart: whether the search selects it, and the
actor, action and entity of an audit row. `pc` names the query that comes next.

| Action | Code |
|---|---|
| `Insert`, `Touch`, `Remove` | what others do to the table: `Store.Create` or `AppendAudit`, `Store.Update`, `Store.Delete` |
| `AskFirst`, `AskNext` | a list handler and `bindPage`; a client asks for page after page |
| `Count`, `Find` | the two queries of `Store.List` and of `ListAudits` |
| `AskSummary`, `CountTotal` ... `GroupEntities` | `AuditSummary` and the five queries of `SummarizeAudits` |
| `Fails` | a query fails; the answer is an error |
| `Tick` | the clock the rows are stamped with |

A row is stamped by the application before its statement is sent, so it may enter
the list below a row that is there already (`Now`). The order of the audit list is
its time alone, so `Leading`, the possible first rows, leaves ties to the
database, and two queries may resolve them differently. `owed` and `left` are
auxiliary: the rows a walk still has to show, and whether a row has left the list
since it began. `Touch` does not let the stamp of a record go back: its version
check lets it write only after the write before it, whose version the client has
seen; servers are taken to agree on the time.

`bindPage`, `normalizePage`, the two limits of a history and the two windows of a
summary are operators of their own. The first of each pair cuts what a client wrote,
the second what the first has let through; that the second then changes nothing is
the theorem `ClampingsAgree`, for pages, limits and windows alike.

### Workbench and the code

`stored` is localStorage, which survives a reload; all else is the state of one
tab. A session and its token are represented by their role. `req` holds the
requests under way, in unordered slots: each carries the token it found when it
was sent, is handled by the server in a step, and is answered in any order, or lost.

| Action | Code |
|---|---|
| `Reload` | F5 or a crash of the tab, then `main.tsx` and the first effect of `App` |
| `Mount` | App shows its outlet; the effects of the page, `initialize` and `load` |
| `switchRole`, `LoginAnswered`, `LoginFails` | the two halves of a login, by hand or by `initialize`; App hides the page meanwhile |
| `Submit` | a search, or another page |
| `Propose`, `Cancel`, `Confirm` | the dialog of a move: opened from a row, given up, sent |
| `createRecord` | the button of the page |
| `Handle`, `Lost` | the server answers by the checks of `Verdict`; the network fails before or after it did |
| `LoadArrives`, `LoadFails`, `WriteArrives`, `WriteFails` | the continuations of the store's promises |
| `Others` | `RecordLifecycle`'s next step |

The server handles a request of the tab in one step. That is what `RecordService`
allows: the tab sends only versions it was shown, and for such clients each request
amounts to an atomic operation (`LifecycleImplemented`). Its move does not look at
`Policy[kind].deletable` or locks, as `Transition` does not. That the records under a
tab are those of `RecordLifecycle` is therefore an assumption of this module and a
theorem of the other; the properties here are about what the tab knows of them.

Three abstractions make the model larger than the program, never smaller. A token
may be refused at any time, which covers its expiry and a clock that is off. No
search hides a row, so every row is offered that might be. The dialogs of a
record that was created or shown in detail do not keep the others from opening.
What the model leaves out is in section 5.

## 3. Runs

### RecordService

The runs of `RecordService` use one code, since requests on different codes share no row and the
guards name no other code, and two workers, the least that can interfere.
Payloads and workers are symmetric except in the liveness run.

| Run | Bounds | What it shows |
|---|---|---|
| `observed` | 4 kinds, 2 payloads, versions to 3, no faults | `FreshSnapshot`, `AuditTruthful`, `ReviewGateHeld` and the refinement `ImplementsLifecycle` |
| `faults` | an unversioned and a versioned kind, 1 payload, 1 fault | `AuditAccounted`, `AcknowledgedMoveAudited`, `AnswerShowsOwnWrite`, `ConflictJustified` |
| `pipelined` | the versioned kinds, pipelining | `RevisionChain`, `TombstoneFrozen` and `UnremovableOvertaken` survive |
| `answered` | decisions, versions to 2, 1 fault, fairness | `Answered` |
| `resolved_overwritten` | decisions, pipelining | violation: a released decision is edited and goes back to draft |
| `deleted_after_move` | versioned kinds | violation: a record that left its initial status is deleted |
| `audit_missing` | decisions, 1 fault | violation: a committed change without audit row |

`MaxVersion` 3 lets two writers race, the winner's version be written again and
a late one miss; `MaxFaults` 1 places a failure or a crash at every point of
every interleaving; more of either repeats these cases on later versions. What
does not depend on the bounds is proved (section 4). Requests stop being
accepted at `MaxVersion` only in that they are not sent; deadlock is checked in
each of these runs and does not occur, since deletions and reads remain possible.

Fairness (`answered` only) is weak fairness of each worker's own steps: the Go
scheduler runs every goroutine, and every database call returns, with an error
if need be. Arrivals and failures are not fair.

### Startup and RateLimiter

| Run | Bounds | What it shows |
|---|---|---|
| `startup_restarts` | the five seeded tables, 2 codes, 3 attempts, any number of restarts | `SeededWhenServing`, `RevisionWithEveryRow`, `OnlyVirginTablesSeeded`, `ComesBack` |
| `limiter_windows` | 2 processes, 2 requests at a time, 3 keys, limit 1, clean-up at 2 buckets, minutes 0 to 2, 4 requests | `WindowBound`, `RefusedOnlyOverLimit`, `LocalBounded` |
| `startup_emptied` | as `startup_restarts` | violation: with an emptied table the server never comes back |

`startup_restarts` has no bound on restarts, outages or removals: its state space
is finite. Two codes give a table with two seeds, of which one can be removed,
and tables to which users add a code that is no seed. Users change one table of
each sort, without and with revisions; the other three are seeded only.
Three attempts stand for the twenty: a first, a middle and a last one. Fairness
is weak fairness of `Progress`, the steps of the process itself and its restart:
calls return, and `restart: unless-stopped` starts a process that has ended. The
faults stop at `calm`, which is only assumed by the two liveness properties,
`ComesBack` and `AlwaysComesBack`. A server with nothing left to create or
remove may idle, so deadlock is not checked.

`limiter_windows` needs three keys for a map of capacity two to hold two old
buckets while a third arrives, four requests to exceed a limit of one across two
counters of the same key and after a clean-up, and two ticks for a counter to
expire. Behaviours end at `MaxMinute` and `MaxAsked`, so deadlock is not checked.
`RateLimiter` promises nothing about what all counters of a window admit
together: with `n` processes whose Redis fails on and off it is up to
`(n + 1) * Limit`, by `WindowBound`.

### Queries and Workbench

| Run | Bounds | What it shows |
|---|---|---|
| `queries_moving` | 3 rows ever, 2 ticks, default size 2, largest 3, pages -1 and 1, sizes 0, 1 and 4, walks of 3 pages | `WalkSkipsNothing`, `PageHoldsItsTotal`, `MetaNamesPageRead`, `SummaryGrows` |
| `workbench_tab` | decisions with one draft or none, roles operator and admin, 2 requests at a time, 2 searches, versions to 2 | `SessionMatchesToken`, `RefusalExplained`, `ReloadShowsMove`, `ViewFollowsQuery`, `BusyMeansWaiting`, `MovesWhatWasShown` |

In `queries_moving` three rows and sizes from 1 give walks of three pages, rows
that change places across a page boundary, and ties; each of missing, small and too
large sizes is asked for, and pages below 1. The summary has two actions, actors
and entities, and three ticks of which two are within its window.

In `workbench_tab` two requests under way are the least that can answer in the
wrong order, and failures, lost answers and refused tokens are not bounded at all.
Two versions let others move the record between the opening of a dialog and its
confirmation. An operator and an admin differ in every right the page and the
server look at but the removal, which the page does not offer. Slots are symmetric.
That the other three aggregates are offered only moves they grant does not need a
run: `OffersPermitted` proves it of the four tables as they are.

Neither run states fairness. What the workbench could wait for in vain is stated
as an invariant, `BusyMeansWaiting`: whatever is busy has a request or a login under
way, and `Deliver`, `LoginAnswered` or `LoginFails` ends it. Deadlock is checked in
both.

### Violations

The four violations are disagreements between the code and what the README, the
tests or the compose file say of it; `PROJECT.json` quotes the lines under "findings".

## 4. Proofs

### RecordService

`RecordServiceProofs` proves, for any aggregates, codes, payloads, number of
workers and bounds, from `PolicyAssumption` (initial and seeded statuses and all
targets are statuses of the graph) and `BoundAssumption`; `RecordAuditProofs` adds
`NoneAssumption`, that the model's mark for "nothing yet" is no answer and no operation:

| Theorem | Property | Needs |
|---|---|---|
| `TypeCorrect` | `TypeOK` | |
| `RevisionsChained` | `RevisionChain` | |
| `TombstonesFrozen` | `TombstoneFrozen` | |
| `SnapshotsFresh` | `FreshSnapshot` | `~Pipelining` |
| `ReviewGate` | `ReviewGateHeld` | `~Pipelining` |
| `LifecycleImplemented` | `ImplementsLifecycle` | `~Pipelining` |
| `RemovalsChecked` | `UnremovableOvertaken` | |
| `EverythingAccounted` | `AuditAccounted` | |
| `AuditsTruthful` | `AuditTruthful` | `~Pipelining` |
| `MovesAcknowledged` | `AcknowledgedMoveAudited` | |
| `AnswersShowWrites` | `AnswerShowsOwnWrite` | |
| `ConflictsJustified` | `ConflictJustified` | `~Pipelining` |
| `FaultlessAudit` | `EveryChangeAudited` | `MaxFaults = 0` |
| `ResolvedKept` | `ResolvedFrozen` | `~Pipelining` |

Apart from typing, none of these is inductive: nothing in them says where the item to be written
came from. The inductive invariant `IInv` adds two facts about a request waiting
for its write. `Sound`: its item follows from what it read and the version it was
sent with, and what a deletion read passed its check (never changes). `Fresh`: the
version it read is one the row has had, and if the row still has that version, the row is what it read, up to its removal.
The argument for `SnapshotsFresh` is then: a matching row has the version of the
request, which is at most the version read, which is at most the version of the
row; so all three are equal and the row is the one that was checked. `StepShape`
reduces every step to two cases, a commit or a step that leaves the rows alone,
so each theorem has only the commit to look at.

`IInv` forgets a request once it has committed. Four parts follow it from there, each
proved inductive beside `IInv`:

- `Accounted`: for each code, what was audited, what some request is about to audit and
  what was given up are disjoint and together are all the versions of the row and its
  removal; no two audit rows and no two pending requests are about the same one.
  `AuditAccounted` only counts, and a count is not inductive: an insert keeps it only if
  the new row is not in the log yet. `RevisionChain` is not needed, since a commit
  always makes the next version.
- `Truthful`: an audit row, written or pending, agrees with the revisions before and
  after its version. What `CommitFresh` says of the row read becomes, at the commit, a
  statement about the last revision, which nothing changes later.
- `Promised`: what the next steps of a request may rely on. Past its audit insert a
  move is in the log; past its reread the version shown is at least the one written and
  at most the one in the table; at its answer the revisions read last reach as far. A
  reread that finds no record, after a write that stood, can only have met a removal,
  since its row has a version.
- `ConflictsStand`: a request answered with a conflict had been overtaken, and versions
  and removals are never taken back, so it still is.

Two of the theorems are about properties that `audit_missing` and
`resolved_overwritten` violate. They say where those findings end: without a failure or
crash no change goes unaudited, and with clients that wait for their answers no resolved decision is
edited. For the third, `deleted_after_move`, waiting does not help; `RemovalsChecked`
says that nothing but a change between check and write leads there.

### Startup

`StartupProofs` proves, for any tables, codes, seeds and number of attempts, from
`StartupAssumption` (each table has at least one seed):

| Theorem | Property |
|---|---|
| `TypeCorrect` | `TypeOK` |
| `ServesSeeded` | `SeededWhenServing` |
| `RowsHaveRevisions` | `RevisionWithEveryRow` |
| `SeedsOnlyVirgins` | `OnlyVirginTablesSeeded` |

`SeededWhenServing` is not inductive: it says nothing of a start under way. `IInv`
adds that the tables before the one being visited are seeded (`Passed`), that a
table which ever held a row has held its seeds (`SeedsFirst`, users come after
the seeds), and what the count promised the insert (`OpenTransaction`). From
`SeedsFirst` follows the one lemma all three rest on: a table that counts as
empty and does not clash never held a row.

### RateLimiter

`RateLimiterProofs` proves, for any number of processes, requests and keys and
any limit and capacity, from `LimiterAssumption`:

| Theorem | Property |
|---|---|
| `TypeCorrect` | `TypeOK` |
| `WindowsBounded` | `WindowBound` |
| `MemoryBounded` | `LocalBounded` |
| `RefusalsEarned` | `RefusedOnlyOverLimit` |

`WindowBound` needs the counters: while a window can still be counted, a counter
has admitted at most what it shows (`SharedAccounts`, `LocalAccounts`), so the
next admission is within the limit. `FlightsTimely` says that no request is
counted in Redis after its counter may have expired, and `BucketsPast` that no
bucket is ahead of the clock.

`RefusedOnlyOverLimit` needs the opposite bound, on what a counter shows. `AskedCovers`
says that the requests that came in a window are enough for what Redis shows and the
requests on their way to it, and for what each process shows and all requests on their
way to be counted. Redis and memory are bounded one by one: a request
whose reply was lost may be counted in both.

### Queries

`QueriesProofs` proves, for any sizes, windows and contents and any number of rows, ticks and
pages, from `PagingAssumption`:

| Theorem | Property |
|---|---|
| `ClampingsAgree` | |
| `TypeCorrect` | `TypeOK` |
| `WalksComplete` | `WalkSkipsNothing` |
| `PagesHoldTotals` | `PageHoldsItsTotal` |
| `MetaTruthful` | `MetaNamesPageRead` |
| `SummariesGrow` | `SummaryGrows` |

Writers are what has to be shown harmless for `WalksComplete`: the rows that sort before
an owed row only grow in number until it is edited or a row leaves, and after `Find`
they are at least as many as the pages read have held. For `PagesHoldTotals` the set of matching rows only grows
between `Count` and `Find`.

`SummaryGrows` speaks of the finished answer. `Summed` says of each stage that what was
found so far is no more than what the window holds now, and the window only fills while
audits are inserted (`WindowFills`). That the groups of a set add up to the set is
`SumOfGroups`: the sum of a table of counts is the number of pairs of a group and a
number up to its count, and a numbering of each group makes these pairs a bijection
with the set. Actions and entities need not be finite for it.

### Workbench

`WorkbenchProofs` proves, for any codes, roles to switch to, searches, number of
requests under way and bound on versions, from `PolicyAssumption` and `TabAssumption`:

| Theorem | Property |
|---|---|
| `TypeCorrect` | `TypeOK` |
| `SessionTruthful` | `SessionMatchesToken` |
| `NeverStuck` | `BusyMeansWaiting` |
| `ViewTruthful` | `ViewFollowsQuery` |
| `MovesAsShown` | `MovesWhatWasShown` |
| `ReloadTruthful` | `ReloadShowsMove` |
| `RefusalsExplained` | `RefusalExplained` |

All of them assume `Agreeing`: what the page offers for a status and a role, the
server grants. Even typing needs it, since a target that was offered has to be a
status. `OffersPermitted` proves it of the page's table and the four services'
policies, by cases over their statuses, and `ServicesAgree` draws `Agreeing` from it,
so for the program as it is the theorems hold without a condition.

`IInv` adds three parts to typing. `SessionInv` says what the flags of the session
hook mean together: while a login is under way the page is hidden and its state is
gone, and a mounted page has a session. `ViewInv` says that the newest load, while it
is under way, is for the query of the page, and that rows of another query are shown
only while something is under way or after an error. `Claims` follows the copies of a
row: one that is listed, proposed or in a request has a version the record has had,
and, if the record still has that version, its status; a move in a request was
offered to the role of its token; one that was answered, also while its reload is
under way, has been overtaken by the record. From `Claims` follow the last three
theorems: a move is carried out only if the versions agree, so the status is the one
that was shown.

### Only model-checked

The two liveness properties, `ComesBack` and `Answered`, whose proofs would need
fairness and ENABLED. Every invariant and every action property of the passing runs
is stated by a theorem, for all values of the constants that meet the assumptions and
the condition in its row, and so is the refinement of `RecordLifecycle`.

## 5. Not modelled

Password hashing, token signing, headers, request logging, configuration
parsing, JSON and rendering are pure code or libraries. `RelatedCode` links
records of different aggregates, but no code looks at it, so the four tables are
independent and are modelled one at a time. Field validation is a single choice
between valid and invalid.

Of the queries: the overview, four GROUP BYs that are about different tables; the
history of a record, a single query; health, session and runtime, which keep and
relate nothing.

Of the workbench: the detail dialog and the audit page, which read and keep
nothing; `logout`, which nothing calls; navigation from one aggregate to another,
whose store is one of its own; the doubled effects of StrictMode in development;
and a second tab. Such a tab shares localStorage, so what it logs in as is what
the first tab sends from then on while it shows its old role, and a first tab whose own login failed
finds the new session and stays behind its loading screen
(`useAuth.ts:26` sets the session and not `loading`). `SessionMatchesToken` and
`BusyMeansWaiting` are therefore promises of a single tab.

A login by `initialize` that fails is repeated as soon as App shows its outlet
again, with a load each time, for as long as it fails: the model has these rounds
(`Mount`, `LoginFails`), and states nothing about their number.

Some of what the workbench does is harmless to its records and is described rather
than checked, since no document says what it should be: the reload after a
write shows the first page without search under a toolbar that names another; a
move that is answered after its dialog was cancelled closes the dialog that is
open by then; a 401 that arrives late discards a session saved meanwhile, and so
does a login that fails on the database, which is answered 401. A 401 clears the
stored session and not that of the hook, so the page goes on offering moves, all
refused, until the user switches the role or reloads.

## 6. Plan

1. Done: `RecordService` with its abstract specification, runs and proofs.
2. Done: `Startup`, with a violation for tables whose records were all removed.
3. Done: `RateLimiter`, with the proof of its bound.
4. Done: `Queries`, with the proofs about walks and totals.
5. Done: `Workbench` over `RecordLifecycle`, with the proofs of all its properties.
6. Done: `RecordAuditProofs`, and the proofs of `RefusedOnlyOverLimit`, `SummaryGrows`
   and `UnremovableOvertaken`.
7. Left, each until a document says what is promised: the hazards without a property,
   which are audit rows of one instant lost between two pages, the rounds of failing
   first logins, and the reload after a write under the toolbar of another search.
