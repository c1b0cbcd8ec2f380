--------------------------- MODULE RecordService ---------------------------
(***************************************************************************)
(* The create, update, transition, delete and get requests of one aggregate *)
(* (press unit, print run, colour proof or release decision), from the route*)
(* guard to the answer.  The four services are the same program up to the   *)
(* parameters in Policy[kind].                                              *)
(*                                                                         *)
(* A worker is the goroutine serving one request.  It is one action per      *)
(* database call: the first Get together with the in-memory checks that      *)
(* follow it, the write (one transaction), the audit insert (another), the   *)
(* closing Get and the second query of its Preload.  Requests interleave     *)
(* between those calls; nothing holds a lock across them.                   *)
(*                                                                         *)
(* The business fields of a record are one value of Payloads.  The row id    *)
(* is identified with the code: the unique index covers soft-deleted rows,   *)
(* so a code names at most one row for ever.                                *)
(***************************************************************************)
EXTENDS Integers, Sequences, FiniteSets, Rbac

CONSTANTS
    Kinds,        \* the aggregates
    Policy,       \* [Kinds -> policy], see module Policies
    Codes,        \* business codes
    Payloads,     \* values of the editable fields
    None,         \* no status, no payload, no operation, no answer
    Workers,      \* the request-serving goroutines
    MaxVersion,   \* bound: no record passes this version
    MaxFaults,    \* bound: database failures and crashes of a behaviour
    Pipelining    \* may a client send a version no answer has shown it yet?

\* What a request may be answered with: the HTTP status and the error code.
Responses == {"ok", "created", "forbidden", "not_found", "locked",
              "invalid", "conflict", "error"}

ASSUME PolicyAssumption ==
    \A k \in Kinds :
        /\ Policy[k].initial \in DOMAIN Policy[k].next
        /\ \A s \in DOMAIN Policy[k].next :
               Policy[k].next[s] \subseteq DOMAIN Policy[k].next
        /\ Policy[k].seeds \subseteq DOMAIN Policy[k].next
        /\ Policy[k].versioned \in BOOLEAN

ASSUME BoundAssumption ==
    /\ MaxVersion \in Nat \ {0}
    /\ MaxFaults \in Nat
    /\ Pipelining \in BOOLEAN

\* The sentinel is no operation, and none of the answers a worker waits to send.
ASSUME NoneAssumption == None \notin Responses \cup Ops

VARIABLES
    kind,       \* the aggregate being served; it never changes
    table,      \* the row of each code
    revisions,  \* the immutable revisions of each code, oldest first
    audit,      \* the audit rows about each code
    pc,         \* where each worker stands
    job,        \* the request each worker serves
    answer,     \* what it is about to answer
    view,       \* the record and the number of revisions in that answer
    faults,     \* auxiliary: failures so far
    unaudited   \* auxiliary: committed writes whose audit row never comes

vars == <<kind, table, revisions, audit, pc, job, answer, view, faults, unaudited>>
stored == <<kind, table, revisions, audit, unaudited>>

-----------------------------------------------------------------------------
(* Data *)

Graph == Policy[kind].next
Versioned == Policy[kind].versioned
Statuses == UNION {DOMAIN Policy[k].next : k \in Kinds}

NoRow == [version |-> 0, status |-> None, data |-> None, deleted |-> FALSE]

Row(version, status, data) ==
    [version |-> version, status |-> status, data |-> data, deleted |-> FALSE]

\* gorm's soft-delete scope: every query sees only these rows.
Live(row) == row.version > 0 /\ ~row.deleted

Rows == [version : Nat, status : Statuses \cup {None},
         data : Payloads \cup {None}, deleted : BOOLEAN]

RevisionOf(row) == [version |-> row.version, status |-> row.status, data |-> row.data]

RevisionRows == [version : Nat, status : Statuses \cup {None},
                 data : Payloads \cup {None}]

\* Request ids tie an audit row to the version it is about; a deletion writes
\* no version, and stands as version 0.
Deletion == 0

AuditRows == [action : {"create", "update", "transition", "delete"},
              before : Statuses \cup {None},
              after : Statuses \cup {None, "deleted"}, version : Nat]

NoView == [version |-> 0, revisions |-> 0]
Views == [version : Nat, revisions : Nat]

\* cleared: did the requester pass canReview?  expected: the version in the
\* request.  snap: the row the first Get returned.  item: the row to write.
Jobs == [op : Ops \cup {None}, code : Codes \cup {None}, cleared : BOOLEAN,
         expected : Nat, snap : Rows, item : Rows]

NoJob == [op |-> None, code |-> None, cleared |-> FALSE, expected |-> 0,
          snap |-> NoRow, item |-> NoRow]

Answers == {None} \cup Responses

\* The versions a client may send.  A client that waits for its answers only
\* knows versions the row has already had; one that pipelines its requests
\* may count on the version its previous request is about to produce.
Known(row) == IF Pipelining THEN 1 .. MaxVersion - 1 ELSE 1 .. row.version

-----------------------------------------------------------------------------
Init ==
    /\ kind \in Kinds
    /\ table \in [Codes -> {NoRow} \cup
           {Row(1, s, d) : s \in Policy[kind].seeds, d \in Payloads}]
    /\ revisions = [c \in Codes |->
           IF table[c].version = 1 /\ Versioned THEN <<RevisionOf(table[c])>> ELSE <<>>]
    /\ audit = [c \in Codes |-> {}]
    /\ pc = [w \in Workers |-> "idle"]
    /\ job = [w \in Workers |-> NoJob]
    /\ answer = [w \in Workers |-> None]
    /\ view = [w \in Workers |-> NoView]
    /\ faults = 0
    /\ unaudited = [c \in Codes |-> IF table[c].version = 1 THEN {1} ELSE {}]

Goto(w, label) == pc' = [pc EXCEPT ![w] = label]

\* The handler returns: the answer is on its way.
Answer(w, a) == Goto(w, "done") /\ answer' = [answer EXCEPT ![w] = a]

\* The request ends in its first step and has changed nothing.
Refuse(w, a) == Answer(w, a) /\ UNCHANGED <<stored, job, view, faults>>

\* The request has passed its checks and goes on to its write.
Proceed(w, request) ==
    /\ Goto(w, "write")
    /\ job' = [job EXCEPT ![w] = request]
    /\ UNCHANGED <<stored, answer, view, faults>>

\* The route guards, before any handler runs.
TurnAway(w) ==
    /\ pc[w] = "idle"
    /\ \E op \in Ops, role \in Roles : role \notin Admitted[op]
    /\ Refuse(w, "forbidden")

BeginCreate(w, c, role) ==
    /\ pc[w] = "idle"
    /\ role \in Admitted.create
    /\ \/ \* a blank business field
          Refuse(w, "invalid")
       \/ \E d \in Payloads :
             Proceed(w, [op |-> "create", code |-> c, cleared |-> canReview(role),
                         expected |-> 0, snap |-> NoRow,
                         item |-> Row(1, Policy[kind].initial, d)])

\* (mutant of Locked: forgets the second of the resolved statuses)
LockedOnlyReleased(row) == row.status \in Policy[kind].locked \ {"quarantine"}

\* Update's first check: a resolved release decision is not edited.
Locked(row) == row.status \in Policy[kind].locked

BeginUpdate(w, c, role) ==
    /\ pc[w] = "idle"
    /\ role \in Admitted.update
    /\ \/ ~Live(table[c]) /\ Refuse(w, "not_found")
       \/ /\ Live(table[c])
          /\ Locked(table[c])
          /\ Refuse(w, "locked")
       \/ /\ Live(table[c])
          /\ ~Locked(table[c])
          /\ \/ Refuse(w, "invalid")
             \/ \E d \in Payloads, v \in Known(table[c]) :
                   /\ v < MaxVersion
                   /\ Proceed(w, [op |-> "update", code |-> c,
                                  cleared |-> canReview(role), expected |-> v,
                                  snap |-> table[c],
                                  item |-> Row(v + 1, table[c].status, d)])

\* (mutant of NeedsReview: only the target is looked at)
NeedsReviewOfTarget(from, to) == to \in Policy[kind].reviewed

NeedsReview(from, to) == {from, to} \cap Policy[kind].reviewed # {}

BeginTransition(w, c, role) ==
    /\ pc[w] = "idle"
    /\ role \in Admitted.transition
    /\ \/ ~Live(table[c]) /\ Refuse(w, "not_found")
       \/ /\ Live(table[c])
          /\ \E target \in DOMAIN Graph :
                \/ /\ NeedsReview(table[c].status, target) /\ ~canReview(role)
                   /\ Refuse(w, "forbidden")
                \/ /\ NeedsReview(table[c].status, target) => canReview(role)
                   /\ \/ /\ target \notin Graph[table[c].status]
                         /\ Refuse(w, "invalid")
                      \/ /\ target \in Graph[table[c].status]
                         /\ \E v \in Known(table[c]) :
                               /\ v < MaxVersion
                               /\ Proceed(w, [op |-> "transition", code |-> c,
                                     cleared |-> canReview(role), expected |-> v,
                                     snap |-> table[c],
                                     item |-> Row(v + 1, target, table[c].data)])

\* (mutant of Removable: whatever is not resolved may be removed)
RemovableUnlessLocked(row) == row.status \notin Policy[kind].locked

\* Delete's check: the status still lets the record go.
Removable(row) == row.status \in Policy[kind].deletable

BeginDelete(w, c, role) ==
    /\ pc[w] = "idle"
    /\ role \in Admitted.delete
    /\ \/ ~Live(table[c]) /\ Refuse(w, "not_found")
       \/ /\ Live(table[c])
          /\ ~Removable(table[c])
          /\ Refuse(w, "locked")
       \/ /\ Live(table[c])
          /\ Removable(table[c])
          /\ Proceed(w, [op |-> "delete", code |-> c, cleared |-> canReview(role),
                         expected |-> 0, snap |-> table[c], item |-> table[c]])

\* First(&item, id), at the end of an update or a transition and in a get; the
\* versioned aggregates preload their revisions with a second query.
Fetch(w, c) ==
    \/ ~Live(table[c]) /\ Answer(w, "not_found") /\ UNCHANGED view
    \/ /\ Live(table[c])
       /\ view' = [view EXCEPT ![w].version = table[c].version]
       /\ IF Versioned
          THEN Goto(w, "preload") /\ UNCHANGED answer
          ELSE Answer(w, "ok")

BeginGet(w, c) ==
    /\ pc[w] = "idle"
    /\ Fetch(w, c)
    /\ job' = [job EXCEPT ![w] = [NoJob EXCEPT !.op = "get", !.code = c]]
    /\ UNCHANGED <<stored, faults>>

-----------------------------------------------------------------------------
(* The write: one transaction *)

\* (mutants of Matches: no version in the WHERE clause; the version of the item
\* instead of the expected one; a raw statement outside the soft-delete scope;
\* a deletion that does not look at RowsAffected)
MatchesAnyVersion(j) ==
    IF j.op = "create" THEN table[j.code].version = 0 ELSE Live(table[j.code])

MatchesItemVersion(j) ==
    CASE j.op = "create" -> table[j.code].version = 0
      [] j.op = "delete" -> Live(table[j.code])
      [] OTHER -> Live(table[j.code]) /\ table[j.code].version = j.item.version

MatchesUnscoped(j) ==
    CASE j.op = "create" -> table[j.code].version = 0
      [] j.op = "delete" -> Live(table[j.code])
      [] OTHER -> table[j.code].version = j.expected

MatchesDeletedAgain(j) ==
    CASE j.op = "create" -> table[j.code].version = 0
      [] j.op = "delete" -> table[j.code].version > 0
      [] OTHER -> Live(table[j.code]) /\ table[j.code].version = j.expected

\* The rows the statement affects: the unique index for an insert, the WHERE
\* clause and the soft-delete scope for the others.
Matches(j) ==
    LET row == table[j.code]
    IN  CASE j.op = "create" -> row.version = 0
          [] j.op = "delete" -> Live(row)
          [] OTHER           -> Live(row) /\ row.version = j.expected

\* Select("*") writes every column back, the status read earlier included; it
\* omits the code and deleted_at.
Effect(j) ==
    IF j.op = "delete" THEN [table[j.code] EXCEPT !.deleted = TRUE] ELSE j.item

\* (mutant of Revised: the revision is built from the row read before the change)
RevisedFromSnapshot(j) ==
    IF Versioned /\ j.op # "delete"
    THEN Append(revisions[j.code], RevisionOf([j.snap EXCEPT !.version = j.item.version]))
    ELSE revisions[j.code]

\* The revision inserted in the same transaction.
Revised(j) ==
    IF Versioned /\ j.op # "delete"
    THEN Append(revisions[j.code], RevisionOf(j.item))
    ELSE revisions[j.code]

Commit(w) ==
    LET j == job[w]
    IN  /\ pc[w] = "write"
        /\ Matches(j)
        /\ table' = [table EXCEPT ![j.code] = Effect(j)]
        /\ revisions' = [revisions EXCEPT ![j.code] = Revised(j)]
        /\ UNCHANGED <<kind, audit, job, view>>

Write(w) ==
    /\ Commit(w)
    /\ Goto(w, "audit")
    /\ UNCHANGED <<answer, faults, unaudited>>

Miss == [create |-> "error", update |-> "conflict",
         transition |-> "conflict", delete |-> "not_found"]

\* (mutant of WriteMisses: retries the statement for ever)
WriteRetriesBlindly(w) ==
    /\ pc[w] = "write"
    /\ ~Matches(job[w])
    /\ Goto(w, "write")
    /\ UNCHANGED <<stored, job, answer, view, faults>>

WriteMisses(w) ==
    /\ pc[w] = "write"
    /\ ~Matches(job[w])
    /\ Answer(w, Miss[job[w].op])
    /\ UNCHANGED <<stored, job, view, faults>>

-----------------------------------------------------------------------------
(* The audit insert, a transaction of its own, and the closing Get *)

Audited(j) == IF j.op = "delete" THEN Deletion ELSE j.item.version

\* (mutants of AuditRow: "before" is read after the status was assigned; the
\* action and the entity type are passed in the wrong order)
AuditRowAfterAssignment(j) ==
    [action |-> j.op, before |-> j.item.status, version |-> Audited(j),
     after |-> IF j.op = "delete" THEN "deleted" ELSE j.item.status]

AuditRowSwapped(j) ==
    [action |-> kind, before |-> j.snap.status, version |-> Audited(j),
     after |-> IF j.op = "delete" THEN "deleted" ELSE j.item.status]

AuditRow(j) ==
    [action |-> j.op, before |-> j.snap.status, version |-> Audited(j),
     after |-> IF j.op = "delete" THEN "deleted" ELSE j.item.status]

\* Create answers with the item it inserted, which carries no revisions.
Created(w) ==
    /\ view' = [view EXCEPT ![w].version = job[w].item.version]
    /\ Answer(w, "created")

WriteAudit(w) ==
    LET j == job[w]
    IN  /\ pc[w] = "audit"
        /\ audit' = [audit EXCEPT ![j.code] = @ \cup {AuditRow(j)}]
        /\ \/ j.op = "create" /\ Created(w)
           \/ j.op = "delete" /\ Answer(w, "ok") /\ UNCHANGED view
           \/ /\ j.op \in {"update", "transition"}
              /\ Goto(w, "reread")
              /\ UNCHANGED <<answer, view>>
        /\ UNCHANGED <<kind, table, revisions, job, faults, unaudited>>

\* (mutant of Reread: answers with the row read before the write)
RereadFirstRow(w) ==
    /\ pc[w] = "reread"
    /\ view' = [view EXCEPT ![w].version = job[w].snap.version]
    /\ IF Versioned THEN Goto(w, "preload") /\ UNCHANGED answer ELSE Answer(w, "ok")
    /\ UNCHANGED <<stored, job, faults>>

Reread(w) ==
    /\ pc[w] = "reread"
    /\ Fetch(w, job[w].code)
    /\ UNCHANGED <<stored, job, faults>>

Preload(w) ==
    /\ pc[w] = "preload"
    /\ view' = [view EXCEPT ![w].revisions = Len(revisions[job[w].code])]
    /\ Answer(w, "ok")
    /\ UNCHANGED <<stored, job, faults>>

\* The answer has left; the goroutine serves another request.
Finish(w) ==
    /\ pc[w] = "done"
    /\ Goto(w, "idle")
    /\ job' = [job EXCEPT ![w] = NoJob]
    /\ answer' = [answer EXCEPT ![w] = None]
    /\ view' = [view EXCEPT ![w] = NoView]
    /\ UNCHANGED <<stored, faults>>

-----------------------------------------------------------------------------
(* Failures: the database is lost, or the client is and its context with it *)

Fault == faults < MaxFaults /\ faults' = faults + 1

\* A query fails, or a write before it commits.
DbFails(w) ==
    /\ Fault
    /\ pc[w] \in {"idle", "write", "reread", "preload"}
    /\ Answer(w, "error")
    /\ UNCHANGED <<stored, job, view>>

NeverAudited(w) ==
    unaudited' = [unaudited EXCEPT ![job[w].code] = @ \cup {Audited(job[w])}]

\* The write commits and its confirmation is lost: Audit is not called.
WriteUnseen(w) ==
    /\ Fault
    /\ Commit(w)
    /\ NeverAudited(w)
    /\ Answer(w, "error")

\* (mutant of AuditLost: Transition ignores the error, as Update does)
AuditLostQuietly(w) ==
    /\ Fault
    /\ pc[w] = "audit"
    /\ NeverAudited(w)
    /\ \/ job[w].op = "create" /\ Created(w)
       \/ job[w].op \in {"update", "transition"} /\ Goto(w, "reread") /\ UNCHANGED <<answer, view>>
       \/ job[w].op = "delete" /\ Answer(w, "error") /\ UNCHANGED view
    /\ UNCHANGED <<kind, table, revisions, audit, job>>

\* Audit returns an error, which Create and Update ignore.
AuditErrs(w) ==
    \/ job[w].op = "create" /\ Created(w)
    \/ job[w].op = "update" /\ Goto(w, "reread") /\ UNCHANGED <<answer, view>>
    \/ /\ job[w].op \in {"transition", "delete"}
       /\ Answer(w, "error")
       /\ UNCHANGED view

\* The audit insert fails.
AuditLost(w) ==
    /\ Fault
    /\ pc[w] = "audit"
    /\ NeverAudited(w)
    /\ AuditErrs(w)
    /\ UNCHANGED <<kind, table, revisions, audit, job>>

\* The audit insert commits and its confirmation is lost.
AuditUnseen(w) ==
    /\ Fault
    /\ pc[w] = "audit"
    /\ audit' = [audit EXCEPT ![job[w].code] = @ \cup {AuditRow(job[w])}]
    /\ AuditErrs(w)
    /\ UNCHANGED <<kind, table, revisions, job, unaudited>>

\* The writes committed about c that have yet to be audited.
Unsettled(c) == {w \in Workers : pc[w] = "audit" /\ job[w].code = c}
Pending(c) == {Audited(job[w]) : w \in Unsettled(c)}

\* The process stops; compose starts it again.  Its requests are gone.
Crash ==
    /\ Fault
    /\ \E w \in Workers : pc[w] # "idle"
    /\ unaudited' = [c \in Codes |-> unaudited[c] \cup Pending(c)]
    /\ pc' = [w \in Workers |-> "idle"]
    /\ job' = [w \in Workers |-> NoJob]
    /\ answer' = [w \in Workers |-> None]
    /\ view' = [w \in Workers |-> NoView]
    /\ UNCHANGED <<kind, table, revisions, audit>>

-----------------------------------------------------------------------------
Arrive(w) ==
    \/ TurnAway(w)
    \/ \E c \in Codes :
          \/ BeginGet(w, c)
          \/ \E role \in Roles :
                \/ BeginCreate(w, c, role)
                \/ BeginUpdate(w, c, role)
                \/ BeginTransition(w, c, role)
                \/ BeginDelete(w, c, role)

\* What a goroutine does on its own once its request has arrived.
Serve(w) ==
    \/ Write(w)
    \/ WriteMisses(w)
    \/ WriteAudit(w)
    \/ Reread(w)
    \/ Preload(w)
    \/ Finish(w)

Fail(w) == DbFails(w) \/ WriteUnseen(w) \/ AuditLost(w) \/ AuditUnseen(w)

Next == (\E w \in Workers : Arrive(w) \/ Serve(w) \/ Fail(w)) \/ Crash

Spec == Init /\ [][Next]_vars

\* Every goroutine is scheduled and every database call returns; nobody has to
\* send a request, and nothing has to fail.
Fairness == \A w \in Workers : WF_vars(Serve(w))

FairSpec == Spec /\ Fairness
-----------------------------------------------------------------------------
(* Properties.  Those marked "observed" hold when clients send only versions *)
(* they have seen (Pipelining = FALSE).                                     *)

\* Every variable has its type: Row, revision, audit and job shapes, one worker
\* label per database call.
TypeOK ==
    /\ kind \in Kinds
    /\ table \in [Codes -> Rows]
    /\ revisions \in [Codes -> Seq(RevisionRows)]
    /\ audit \in [Codes -> SUBSET AuditRows]
    /\ pc \in [Workers -> {"idle", "write", "audit", "reread", "preload", "done"}]
    /\ job \in [Workers -> Jobs]
    /\ answer \in [Workers -> Answers]
    /\ view \in [Workers -> Views]
    /\ faults \in 0 .. MaxFaults
    /\ unaudited \in [Codes -> SUBSET Nat]

\* Observed.  Update and Transition check the row their first Get returned, but
\* the WHERE clause compares the version in the request, never that row's.  It
\* still protects the checks: whatever a write is about to overwrite is exactly
\* what was checked.
FreshSnapshot ==
    \A w \in Workers :
        (/\ pc[w] = "write"
         /\ job[w].op \in {"update", "transition"}
         /\ Matches(job[w]))
        => job[w].snap = table[job[w].code]

\* UpdateVersioned and CreateVersioned keep row and revisions in step, whoever
\* interleaves: one revision per version, in order, the last one equal to the row.
RevisionChain ==
    Versioned =>
        \A c \in Codes :
            /\ Len(revisions[c]) = table[c].version
            /\ \A i \in 1 .. Len(revisions[c]) : revisions[c][i].version = i
            /\ table[c].version > 0 =>
                   revisions[c][table[c].version] = RevisionOf(table[c])

AuditedVersions(c) == {a.version : a \in audit[c]}

\* Every version ever committed, and a deletion, is audited, or its request is
\* just about to audit it, or a failure lost it: exactly one of the three, and
\* audited once.  No two requests are ever credited with the same version.
AuditAccounted ==
    \A c \in Codes :
        /\ AuditedVersions(c) \cup Pending(c) \cup unaudited[c] =
               1 .. table[c].version \cup (IF table[c].deleted THEN {Deletion} ELSE {})
        /\ AuditedVersions(c) \cap Pending(c) = {}
        /\ (AuditedVersions(c) \cup Pending(c)) \cap unaudited[c] = {}
        /\ Cardinality(audit[c]) = Cardinality(AuditedVersions(c))
        /\ Cardinality(Unsettled(c)) = Cardinality(Pending(c))

\* Observed.  The audit rows, inserted later and in any order, still agree with
\* the revisions on what each change turned into what.
AuditTruthful ==
    Versioned =>
        \A c \in Codes : \A a \in audit[c] :
            \/ a.action = "delete"
            \/ /\ a.after = revisions[c][a.version].status
               /\ a.before = IF a.version = 1 THEN None
                             ELSE revisions[c][a.version - 1].status

\* A transition or a deletion is acknowledged only once it is in the audit log,
\* whatever fails; a creation or an update is not so careful.
AcknowledgedMoveAudited ==
    \A w \in Workers :
        answer[w] = "ok" /\ job[w].op \in {"transition", "delete"}
        => AuditRow(job[w]) \in audit[job[w].code]

\* An update or transition that succeeds answers with its own write or a later
\* one, and with at least the revisions up to the version it shows, although
\* three other queries may come between.  One that is told the record does not
\* exist, once its own write stood, is told so because it has been removed.
AnswerShowsOwnWrite ==
    \A w \in Workers :
        job[w].op \in {"update", "transition"}
        => /\ answer[w] = "ok"
              => /\ view[w].version >= job[w].item.version
                 /\ Versioned => view[w].revisions >= view[w].version
           /\ answer[w] = "not_found" => table[job[w].code].deleted

\* Observed.  "record changed; refresh and retry" is the truth: the row has
\* moved past the version of the request or is gone.
ConflictJustified ==
    \A w \in Workers :
        answer[w] = "conflict"
        => LET row == table[job[w].code]
           IN  row.deleted \/ row.version > job[w].expected

\* A removed record is never written again: not by a write that passed its
\* checks before the removal, not by a creation with the same code.
TombstoneFrozen ==
    [][\A c \in Codes : table[c].deleted => table'[c] = table[c]]_vars

\* Observed.  A record changes into or out of a reviewed status only by the
\* write of a transition whose requester passed canReview.
ReviewGateHeld ==
    [][\A c \in Codes :
          /\ table[c].version > 0
          /\ table'[c].status # table[c].status
          /\ {table[c].status, table'[c].status} \cap Policy[kind].reviewed # {}
          => \E w \in Workers :
                /\ pc[w] = "write" /\ pc'[w] # "write"
                /\ job[w].code = c /\ job[w].op = "transition" /\ job[w].cleared]_vars

\* Observed.  The interleaved database calls amount to the atomic operations of
\* RecordLifecycle: legal moves only, no edit of a locked record, every write
\* one version later, removed records frozen.
Lifecycle == INSTANCE RecordLifecycle WITH kind <- kind, table <- table

ImplementsLifecycle == Lifecycle!Spec

\* If goroutines are scheduled and database calls return, every request is
\* answered and every committed version is eventually audited or given up.
Answered ==
    /\ \A w \in Workers : pc[w] \in {"write", "audit", "reread", "preload"}
                          ~> pc[w] \in {"done", "idle"}
    /\ \A c \in Codes, v \in 0 .. MaxVersion :
           v \in Pending(c) ~> v \in AuditedVersions(c) \cup unaudited[c]

-----------------------------------------------------------------------------
(* Properties the documentation and the tests claim and the code lacks *)

\* "Released or quarantined decisions must not be edited in place."
ResolvedFrozen ==
    [][\A c \in Codes :
          Live(table[c]) /\ Locked(table[c]) => table'[c].data = table[c].data]_vars

\* "active run delete status, want 409": a record that has left its deletable
\* statuses is not removed.
DeleteOnlyDeletable ==
    [][\A c \in Codes :
          Live(table[c]) /\ table'[c].deleted
          => table[c].status \in Policy[kind].deletable]_vars

\* What the code keeps of it, whoever interleaves: a record that is removed
\* although its status does not allow it was moved on between the check of the
\* deletion and its write.
UnremovableOvertaken ==
    [][\A c \in Codes :
          /\ Live(table[c]) /\ table'[c].deleted
          /\ table[c].status \notin Policy[kind].deletable
          => \E w \in Workers :
                 /\ pc[w] = "write" /\ job[w].op = "delete" /\ job[w].code = c
                 /\ job[w].snap.version < table[c].version]_vars

\* "Every state change is written to the audit log": at rest, only the seeded
\* version of a record has no audit row.
EveryChangeAudited ==
    (\A w \in Workers : pc[w] = "idle")
    => \A c \in Codes : 2 .. table[c].version \subseteq AuditedVersions(c)
=============================================================================
