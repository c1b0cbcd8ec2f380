------------------------------ MODULE Queries ------------------------------
(***************************************************************************)
(* The answers that are put together from several queries while writers go   *)
(* on: a list counts first and reads a page afterwards, a client walks from   *)
(* page to page, and the audit summary is five counts in a row.  No           *)
(* transaction holds the queries of an answer, or the pages of a walk,        *)
(* together.                                                                *)
(*                                                                         *)
(* One client reads one endpoint: the list of an aggregate ("records"), the   *)
(* audit list ("audits") or the audit summary ("summary").  The rows are      *)
(* those of the one table that endpoint reads.  Audit rows are only ever      *)
(* added; records are also edited and removed.                               *)
(***************************************************************************)
EXTENDS Integers, FiniteSets

CONSTANTS
    DefaultSize,   \* the page size of a request that names none (20)
    MaxSize,       \* the largest page size (100)
    AskedPages,    \* what a client may write into page to get the first one
    AskedSizes,    \* what a client may write into pageSize
    Window,        \* how far the summary looks back, in ticks
    Actors, Actions, Entities,
    Contents,      \* [endpoint -> what its rows may hold]
    MaxRows,       \* bound: rows ever inserted
    MaxClock,      \* bound: ticks of the clock the rows are stamped with
    MaxPages       \* bound: pages of one walk

Endpoints == {"records", "audits", "summary"}

\* match: does the search of this client select the row?
Content == [match : BOOLEAN, actor : Actors, action : Actions, entity : Entities]

ASSUME PagingAssumption ==
    /\ MaxSize \in Nat /\ DefaultSize \in 1 .. MaxSize
    /\ AskedPages \subseteq Int /\ \A p \in AskedPages : p <= 1
    /\ AskedSizes \subseteq Int
    /\ Window \in Nat /\ MaxRows \in Nat /\ MaxClock \in Nat /\ MaxPages \in Nat
    /\ Actors # {} /\ IsFiniteSet(Actors) /\ Entities # {}
    /\ Contents \in [Endpoints -> SUBSET Content]
    /\ "transition" \in Actions

VARIABLES
    endpoint,   \* what the client reads; it never changes
    rows,       \* [Ids -> row], in the order of insertion
    clock,
    pc,         \* the query the request is about to run
    asked,      \* page and size of the request, as the handler bound them
    walked,     \* pages of the walk already answered
    total,      \* what Count has found, until the page is read
    read,       \* page and size of the last page read in this walk
    meta,       \* page, size and total its last answer named
    items,      \* the rows of its last answer
    since,      \* the instant the summary under way looks back to
    summary,    \* what its queries have found so far
    owed,       \* auxiliary: the rows listed when the walk began, neither
                \* edited nor shown since then
    left        \* auxiliary: has a row left the list since then?

table == <<rows, clock, left>>
list == <<asked, walked, total, read, meta, items, owed>>
sums == <<since, summary>>
vars == <<endpoint, pc, table, list, sums>>

Ids == 1 .. MaxRows

\* A row never inserted has the stamp -1.
NoRow == [live |-> FALSE, stamp |-> -1, what |-> CHOOSE w \in Content : TRUE]

\* The rows the list selects.
Matching == {i \in Ids : rows[i].live /\ rows[i].what.match}

\* (mutant of Before: records ordered by updated_at alone)
BeforeWithoutTieBreak(i, j) == rows[i].stamp > rows[j].stamp

\* Their order: created_at DESC for audits, which leaves ties open, and
\* updated_at DESC, id DESC for records.
Before(i, j) ==
    \/ rows[i].stamp > rows[j].stamp
    \/ endpoint = "records" /\ rows[i].stamp = rows[j].stamp /\ i > j

-----------------------------------------------------------------------------
(* Page numbers, limits and windows *)

\* (mutant of bindPage: a page below 1 is let through)
bindPageUnchecked(page, size) ==
    [page |-> page, size |-> IF size < 1 \/ size > MaxSize THEN DefaultSize ELSE size]

\* (mutant of bindPage: the size is not cut to the largest one)
bindPageUncut(page, size) ==
    [page |-> IF page < 1 THEN 1 ELSE page,
     size |-> IF size < 1 THEN DefaultSize ELSE size]

\* The handler: a size that is too large becomes the default.
bindPage(page, size) ==
    [page |-> IF page < 1 THEN 1 ELSE page,
     size |-> IF size < 1 \/ size > MaxSize THEN DefaultSize ELSE size]

\* The repository: a size that is too large becomes the largest.
normalizePage(q) ==
    [page |-> IF q.page < 1 THEN 1 ELSE q.page,
     size |-> IF q.size < 1 THEN DefaultSize
              ELSE IF q.size > MaxSize THEN MaxSize ELSE q.size]

\* The limit of a history, in the query object and again in the repository.
NormalizedLimit(n) ==
    IF n < 1 THEN DefaultSize ELSE IF n > MaxSize THEN MaxSize ELSE n

HistoryLimit(n) ==
    LET m == IF n < 1 THEN DefaultSize ELSE n
    IN  IF m > MaxSize THEN MaxSize ELSE m

\* The window of a summary in hours, in the query object and in the service.
WindowHours(h) == IF h < 1 THEN 24 ELSE IF h > 24 * 90 THEN 24 * 90 ELSE h

ServiceWindow(h) ==
    LET m == IF h < 1 THEN 24 ELSE h
    IN  IF m > 90 * 24 THEN 90 * 24 ELSE m

-----------------------------------------------------------------------------
Answer(q, n) == [page |-> q.page, size |-> q.size, total |-> n]

FirstPage == [page |-> 1, size |-> DefaultSize]

NoSummary == [total |-> 0, transitions |-> 0, actors |-> 0,
              actions |-> [x \in Actions |-> 0],
              entities |-> [e \in Entities |-> 0]]

Init ==
    /\ endpoint \in Endpoints
    /\ rows = [i \in Ids |-> NoRow] /\ clock = 0
    /\ pc = "idle" /\ walked = 0 /\ total = 0
    /\ asked = FirstPage /\ read = FirstPage
    /\ meta = Answer(FirstPage, 0) /\ items = {}
    /\ since = 0 /\ summary = NoSummary
    /\ owed = {} /\ left = FALSE

-----------------------------------------------------------------------------
(* Meanwhile, in the table *)

\* The application takes the time before it sends the statement: a row with
\* a later stamp may be in the table already.
Now == {t \in {clock - 1, clock} : t >= 0}

Insert(i) ==
    /\ rows[i].stamp = -1 /\ \A j \in 1 .. i - 1 : rows[j].stamp >= 0
    /\ \E t \in Now, w \in Contents[endpoint] :
           rows' = [rows EXCEPT ![i] = [live |-> TRUE, stamp |-> t, what |-> w]]
    /\ UNCHANGED <<owed, left>>

\* An edit or a move.  Its version check lets it write only after the write
\* before it, so the stamp of a record does not go back.
Touch(i) ==
    /\ endpoint = "records" /\ rows[i].live
    /\ \E t \in Now, w \in Contents[endpoint] :
           /\ t >= rows[i].stamp
           /\ rows' = [rows EXCEPT ![i] = [live |-> TRUE, stamp |-> t, what |-> w]]
           /\ left' = (left \/ (i \in Matching /\ ~w.match))
    /\ owed' = owed \ {i}

Remove(i) ==
    /\ endpoint = "records" /\ rows[i].live
    /\ rows' = [rows EXCEPT ![i].live = FALSE]
    /\ left' = (left \/ i \in Matching)
    /\ UNCHANGED owed

Writers ==
    /\ \E i \in Ids : Insert(i) \/ Touch(i) \/ Remove(i)
    /\ UNCHANGED <<endpoint, pc, clock, asked, walked, total, read, meta, items, sums>>

Tick ==
    /\ clock < MaxClock /\ clock' = clock + 1
    /\ UNCHANGED <<endpoint, pc, rows, left, list, sums>>

-----------------------------------------------------------------------------
(* A list *)

\* A walk begins with the first page, however the client spells it.
AskFirst ==
    /\ endpoint # "summary" /\ pc = "idle"
    /\ \E p \in AskedPages, s \in AskedSizes : asked' = bindPage(p, s)
    /\ pc' = "count" /\ walked' = 0
    /\ owed' = Matching /\ left' = FALSE
    /\ read' = FirstPage /\ meta' = Answer(FirstPage, 0) /\ items' = {}
    /\ UNCHANGED <<endpoint, rows, clock, total, sums>>

AskNext ==
    /\ pc = "idle" /\ walked \in 1 .. MaxPages - 1
    /\ asked' = bindPage(walked + 1, asked.size)
    /\ pc' = "count"
    /\ UNCHANGED <<endpoint, table, walked, total, read, meta, items, owed, sums>>

\* (mutant of Count: counts before the search is applied)
CountUnfiltered ==
    /\ pc = "count" /\ pc' = "find"
    /\ total' = Cardinality({i \in Ids : rows[i].live})
    /\ UNCHANGED <<endpoint, table, asked, walked, read, meta, items, owed, sums>>

Count ==
    /\ pc = "count" /\ pc' = "find"
    /\ total' = Cardinality(Matching)
    /\ UNCHANGED <<endpoint, table, asked, walked, read, meta, items, owed, sums>>

\* The possible first n rows of the list.
Leading(n) ==
    {S \in SUBSET Matching :
        /\ Cardinality(S) <= n
        /\ S # Matching => Cardinality(S) = n
        /\ \A j \in S, i \in Matching : Before(i, j) => i \in S}

Offset(q) == (q.page - 1) * q.size

\* The handler of the audits puts the page it bound into the answer, those of
\* the aggregates the page the repository read.
Find ==
    LET q == normalizePage(asked) IN
    /\ pc = "find" /\ pc' = "idle"
    /\ \E skipped \in Leading(Offset(q)), upto \in Leading(Offset(q) + q.size) :
           /\ skipped \subseteq upto
           /\ items' = upto \ skipped
           /\ owed' = owed \ (upto \ skipped)
    /\ read' = q
    /\ meta' = Answer(IF endpoint = "audits" THEN asked ELSE q, total)
    /\ walked' = walked + 1 /\ total' = 0
    /\ UNCHANGED <<endpoint, table, asked, sums>>

-----------------------------------------------------------------------------
(* The audit summary *)

AskSummary ==
    /\ endpoint = "summary" /\ pc \in {"idle", "summed"}
    /\ pc' = "total" /\ since' = clock - Window /\ summary' = NoSummary
    /\ UNCHANGED <<endpoint, table, list>>

\* (mutant of Recent: every query looks back from its own time)
RecentNow == {i \in Ids : rows[i].live /\ rows[i].stamp >= clock - Window}

\* created_at >= since
Recent == {i \in Ids : rows[i].live /\ rows[i].stamp >= since}

\* One query of the five, and the one after it.
Query(this, next, found) ==
    /\ pc = this /\ pc' = next
    /\ summary' = [summary EXCEPT ![this] = found]
    /\ UNCHANGED <<endpoint, table, list, since>>

CountTotal == Query("total", "transitions", Cardinality(Recent))

CountTransitions ==
    Query("transitions", "actors",
          Cardinality({i \in Recent : rows[i].what.action = "transition"}))

CountActors ==
    Query("actors", "actions", Cardinality({rows[i].what.actor : i \in Recent}))

GroupActions ==
    Query("actions", "entities",
          [x \in Actions |-> Cardinality({i \in Recent : rows[i].what.action = x})])

GroupEntities ==
    Query("entities", "summed",
          [e \in Entities |-> Cardinality({i \in Recent : rows[i].what.entity = e})])

\* A query fails, and with it the answer.
Fails ==
    /\ pc \notin {"idle", "summed"} /\ pc' = "idle"
    /\ total' = 0 /\ since' = 0 /\ summary' = NoSummary
    /\ UNCHANGED <<endpoint, table, asked, walked, read, meta, items, owed>>

Next ==
    \/ Writers \/ Tick
    \/ AskFirst \/ AskNext \/ Count \/ Find
    \/ AskSummary \/ CountTotal \/ CountTransitions \/ CountActors
    \/ GroupActions \/ GroupEntities
    \/ Fails

Spec == Init /\ [][Next]_vars
-----------------------------------------------------------------------------
(* Properties *)

Found ==
    [total : 0 .. MaxRows, transitions : 0 .. MaxRows, actors : Nat,
     actions : [Actions -> 0 .. MaxRows], entities : [Entities -> 0 .. MaxRows]]

Page == [page : Nat \ {0}, size : Nat \ {0}]

\* The state stays within its declared types.
TypeOK ==
    /\ endpoint \in Endpoints
    /\ rows \in [Ids -> [live : BOOLEAN, stamp : -1 .. MaxClock, what : Content]]
    /\ clock \in 0 .. MaxClock
    /\ pc \in {"idle", "count", "find", "total", "transitions", "actors",
              "actions", "entities", "summed"}
    /\ asked \in Page /\ read \in Page
    /\ walked \in Nat /\ total \in 0 .. MaxRows
    /\ meta \in [page : Nat \ {0}, size : Nat \ {0}, total : 0 .. MaxRows]
    /\ items \subseteq Ids
    /\ since \in -Window .. MaxClock
    /\ summary \in Found
    /\ owed \subseteq Ids /\ left \in BOOLEAN

\* Two audits with one time have no order, and each query is free to choose.
Ordered(i) ==
    endpoint = "audits" =>
        \A j \in Matching : j # i => rows[j].stamp # rows[i].stamp

\* A client that walks from page to page misses nothing: as long as no row has
\* left the list, a row that was in it when the walk began, was not edited
\* since and was not shown yet is still behind the pages already read, though
\* other rows are inserted and edited between the queries and between the
\* pages.  An edited row may have gone to a page already read, and rows behind
\* one that left move up into pages already read.
WalkSkipsNothing ==
    ~left => \A i \in owed :
        Ordered(i) => Cardinality({j \in Matching : Before(j, i)}) >= walked * read.size

\* The total of an answer was counted before its page was read, and is a
\* promise: unless a row has left the list, the page holds all the rows the
\* total says it must.  (It may hold more; then the total is too small.)
PageHoldsItsTotal ==
    walked > 0 /\ ~left =>
        \/ Cardinality(items) >= read.size
        \/ Cardinality(items) >= meta.total - Offset(read)

\* The page and the size an answer names are those its rows were read with,
\* although the handler and the repository treat a size that is too large in
\* different ways and the audit list is labelled by the handler.
MetaNamesPageRead ==
    walked > 0 => meta.page = read.page /\ meta.size = read.size

\* The sum of a table of counts: the number of the units counted, each known
\* by the row of the table it is in.
Units(f) == UNION {{x} \X (1 .. f[x]) : x \in DOMAIN f}
Sum(f) == Cardinality(Units(f))

\* The five counts of a summary are of five moments, but of one window: a
\* later query has seen all an earlier one has.  (Not the other way: there may
\* be more transitions than audits in all.)
SummaryGrows ==
    pc = "summed" =>
        /\ summary.total <= Sum(summary.actions)
        /\ summary.transitions <= summary.actions["transition"]
        /\ summary.actors <= Sum(summary.actions)
        /\ Sum(summary.actions) <= Sum(summary.entities)
=============================================================================
