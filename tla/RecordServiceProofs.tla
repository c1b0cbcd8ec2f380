------------------------ MODULE RecordServiceProofs ------------------------
(***************************************************************************)
(* Theorems about RecordService for any aggregates, codes, payloads and      *)
(* number of concurrent requests.                                           *)
(*                                                                         *)
(* None of the safety properties is inductive.  They all rest on IInv, which *)
(* says what a request carries from its first Get to its write (Sound, fixed *)
(* once for all) and how that relates to the row while other requests write  *)
(* it (Fresh).                                                             *)
(***************************************************************************)
EXTENDS RecordService, TLAPS

Writes == {"create", "update", "transition", "delete"}

\* A request past its checks: what it is about to write follows from what it
\* read and from the version in the request.
Sound(j) ==
    /\ j.op \in Writes
    /\ j.code \in Codes
    /\ j.op = "create" =>
           /\ j.snap = NoRow
           /\ \E d \in Payloads : j.item = Row(1, Policy[kind].initial, d)
    /\ j.op = "update" =>
           /\ ~Locked(j.snap)
           /\ \E d \in Payloads : j.item = Row(j.expected + 1, j.snap.status, d)
    /\ j.op = "transition" =>
           /\ j.item.status \in Graph[j.snap.status]
           /\ j.item = Row(j.expected + 1, j.item.status, j.snap.data)
           /\ NeedsReview(j.snap.status, j.item.status) => j.cleared
    /\ j.op = "delete" => Removable(j.snap)

\* What a request read, as long as it has not written: a version the row has
\* had, and the row itself if it still has that version and lives.
Fresh(j) ==
    j.op \in {"update", "transition", "delete"} =>
        /\ j.snap.version \in 1 .. table[j.code].version
        /\ j.snap.version = table[j.code].version =>
               j.snap = [table[j.code] EXCEPT !.deleted = FALSE]
        /\ ~Pipelining => j.expected <= j.snap.version

StoreTyped ==
    /\ kind \in Kinds
    /\ table \in [Codes -> Rows]
    /\ revisions \in [Codes -> Seq(RevisionRows)]
    /\ audit \in [Codes -> SUBSET AuditRows]
    /\ unaudited \in [Codes -> SUBSET Nat]

RequestTyped ==
    /\ pc \in [Workers -> {"idle", "write", "audit", "reread", "preload", "done"}]
    /\ job \in [Workers -> Jobs]
    /\ answer \in [Workers -> Answers]
    /\ view \in [Workers -> Views]
    /\ faults \in 0 .. MaxFaults
    /\ \A w \in Workers :
          /\ pc[w] \in {"write", "audit"} => job[w].op \in Writes
          /\ pc[w] \in {"write", "audit", "reread", "preload"} => job[w].code \in Codes

\* TypeOK, and a request that has a code and an operation when it needs them.
Typed == StoreTyped /\ RequestTyped

IInv ==
    /\ Typed
    /\ \A c \in Codes : table[c].deleted => table[c].version > 0
    /\ \A w \in Workers : pc[w] = "write" => Sound(job[w]) /\ Fresh(job[w])
-----------------------------------------------------------------------------
(* Types *)

LEMMA RowTyped ==
    ASSUME NEW v \in Nat, NEW s \in Statuses \cup {None}, NEW d \in Payloads \cup {None}
    PROVE  Row(v, s, d) \in Rows
BY DEF Row, Rows

LEMMA RowFields ==
    ASSUME NEW v, NEW s, NEW d
    PROVE  /\ Row(v, s, d).version = v
           /\ Row(v, s, d).status = s
           /\ Row(v, s, d).data = d
           /\ ~Row(v, s, d).deleted
BY DEF Row

LEMMA PolicyTyped ==
    ASSUME NEW k \in Kinds
    PROVE  /\ Policy[k].initial \in Statuses
           /\ Policy[k].seeds \subseteq Statuses
           /\ DOMAIN Policy[k].next \subseteq Statuses
           /\ Policy[k].versioned \in BOOLEAN
BY PolicyAssumption DEF Statuses

\* Initially every variable has its type and no request is under way.
LEMMA InitTyped == Init => Typed
<1> SUFFICES ASSUME Init PROVE Typed
    OBVIOUS
<1>1. table \in [Codes -> Rows]
  <2>1. NoRow \in Rows
    BY DEF NoRow, Rows
  <2>2. \A s \in Policy[kind].seeds, d \in Payloads : Row(1, s, d) \in Rows
    BY PolicyTyped, RowTyped DEF Init
  <2> QED BY <2>1, <2>2 DEF Init
<1>2. revisions \in [Codes -> Seq(RevisionRows)]
  <2>1. \A c \in Codes : <<RevisionOf(table[c])>> \in Seq(RevisionRows)
    BY <1>1 DEF RevisionOf, RevisionRows, Rows
  <2> QED BY <2>1 DEF Init
<1>3. NoJob \in Jobs
  BY DEF NoJob, Jobs, NoRow, Rows
<1>4. pc \in [Workers -> {"idle"}]
  BY DEF Init
<1> QED
  BY <1>1, <1>2, <1>3, <1>4, BoundAssumption
  DEF Init, Typed, StoreTyped, RequestTyped, Answers, Responses, Views, NoView

LEMMA AnswerTyped ==
    ASSUME RequestTyped, NEW w \in Workers, NEW a \in Answers, Answer(w, a),
           job' = job \/ job' = [job EXCEPT ![w] = job'[w]], job' \in [Workers -> Jobs],
           view' \in [Workers -> Views], faults' \in 0 .. MaxFaults
    PROVE  RequestTyped'
BY DEF RequestTyped, Answer, Goto

LEMMA RefuseTyped ==
    ASSUME Typed, NEW w \in Workers, NEW a \in Answers, Refuse(w, a)
    PROVE  Typed'
<1>1. StoreTyped'
  BY DEF Typed, StoreTyped, Refuse, stored
<1>2. RequestTyped'
  BY AnswerTyped DEF Typed, RequestTyped, Refuse
<1> QED BY <1>1, <1>2 DEF Typed

LEMMA ProceedTyped ==
    ASSUME Typed, NEW w \in Workers, NEW j \in Jobs, j.op \in Writes, j.code \in Codes,
           Proceed(w, j)
    PROVE  Typed'
<1>1. StoreTyped'
  BY DEF Typed, StoreTyped, Proceed, stored
<1>2. RequestTyped'
  BY DEF Typed, RequestTyped, Proceed, Goto
<1> QED BY <1>1, <1>2 DEF Typed

Request(op, c, role, v, snap, item) ==
    [op |-> op, code |-> c, cleared |-> canReview(role),
     expected |-> v, snap |-> snap, item |-> item]

\* The five arrivals end in Refuse or Proceed, or read the row of a get.
LEMMA ArriveTyped ==
    ASSUME Typed, NEW w \in Workers, Arrive(w)
    PROVE  Typed'
<1>1. \A op \in Writes, c \in Codes, role \in Roles, v \in Nat,
         snap \in Rows, item \in Rows : Request(op, c, role, v, snap, item) \in Jobs
  BY DEF Request, Jobs, Writes, Ops, Admitted, canReview
<1>2. NoRow \in Rows
  BY DEF NoRow, Rows
<1>3. \A c \in Codes : table[c] \in Rows
  BY DEF Typed, StoreTyped
<1>4. \A c \in Codes : \A v \in Known(table[c]) : v \in Nat
  BY <1>3, BoundAssumption DEF Known, Rows
<1>5. CASE TurnAway(w)
  BY <1>5, RefuseTyped DEF TurnAway, Answers, Responses
<1>6. ASSUME NEW c \in Codes, BeginGet(w, c)
      PROVE  Typed'
  <2>1. StoreTyped'
    BY <1>6 DEF BeginGet, Typed, StoreTyped, stored
  <2>2. view' \in [Workers -> Views]
    BY <1>3, <1>6 DEF BeginGet, Fetch, Typed, RequestTyped, Views, Rows
  <2>3. /\ job' \in [Workers -> Jobs]
        /\ job'[w].code = c
    BY <1>2, <1>6 DEF BeginGet, Typed, RequestTyped, NoJob, Jobs, Ops, Admitted
  <2> QED
    BY <1>6, <2>1, <2>2, <2>3
    DEF BeginGet, Fetch, Goto, Answer, Answers, Responses, Typed, RequestTyped
<1>7. ASSUME NEW c \in Codes, NEW role \in Roles, BeginCreate(w, c, role)
      PROVE  Typed'
  <2>1. CASE Refuse(w, "invalid")
    BY <2>1, RefuseTyped DEF Answers, Responses
  <2>2. ASSUME NEW d \in Payloads,
               Proceed(w, Request("create", c, role, 0, NoRow, Row(1, Policy[kind].initial, d)))
        PROVE  Typed'
    <3>1. Row(1, Policy[kind].initial, d) \in Rows
      BY RowTyped, PolicyTyped DEF Typed, StoreTyped
    <3> QED BY <1>1, <1>2, <2>2, <3>1, ProceedTyped DEF Writes, Request
  <2> QED BY <1>7, <2>1, <2>2 DEF BeginCreate, Request
<1>8. ASSUME NEW c \in Codes, NEW role \in Roles, BeginUpdate(w, c, role)
      PROVE  Typed'
  <2>1. CASE \E a \in {"not_found", "locked", "invalid"} : Refuse(w, a)
    BY <2>1, RefuseTyped DEF Answers, Responses
  <2>2. ASSUME NEW d \in Payloads, NEW v \in Known(table[c]),
               Proceed(w, Request("update", c, role, v, table[c],
                                  Row(v + 1, table[c].status, d)))
        PROVE  Typed'
    <3>1. Row(v + 1, table[c].status, d) \in Rows
      BY <1>3, <1>4, RowTyped DEF Rows
    <3> QED BY <1>1, <1>3, <1>4, <2>2, <3>1, ProceedTyped DEF Writes, Request
  <2> QED BY <1>8, <2>1, <2>2 DEF BeginUpdate, Request
<1>9. ASSUME NEW c \in Codes, NEW role \in Roles, BeginTransition(w, c, role)
      PROVE  Typed'
  <2>1. CASE \E a \in {"not_found", "forbidden", "invalid"} : Refuse(w, a)
    BY <2>1, RefuseTyped DEF Answers, Responses
  <2>2. ASSUME NEW target \in DOMAIN Graph, NEW v \in Known(table[c]),
               Proceed(w, Request("transition", c, role, v, table[c],
                                  Row(v + 1, target, table[c].data)))
        PROVE  Typed'
    <3>1. Row(v + 1, target, table[c].data) \in Rows
      BY <1>3, <1>4, RowTyped, PolicyTyped DEF Rows, Graph, Typed, StoreTyped
    <3> QED BY <1>1, <1>3, <1>4, <2>2, <3>1, ProceedTyped DEF Writes, Request
  <2> QED BY <1>9, <2>1, <2>2 DEF BeginTransition, Request
<1>10. ASSUME NEW c \in Codes, NEW role \in Roles, BeginDelete(w, c, role)
       PROVE  Typed'
  <2>1. CASE \E a \in {"not_found", "locked"} : Refuse(w, a)
    BY <2>1, RefuseTyped DEF Answers, Responses
  <2>2. CASE Proceed(w, Request("delete", c, role, 0, table[c], table[c]))
    BY <1>1, <1>3, <2>2, ProceedTyped DEF Writes, Request
  <2> QED BY <1>10, <2>1, <2>2 DEF BeginDelete, Request
<1> QED
  BY <1>5, <1>6, <1>7, <1>8, <1>9, <1>10 DEF Arrive

LEMMA CommitTyped ==
    ASSUME Typed, NEW w \in Workers, Commit(w)
    PROVE  /\ kind' \in Kinds
           /\ table' \in [Codes -> Rows]
           /\ revisions' \in [Codes -> Seq(RevisionRows)]
           /\ audit' \in [Codes -> SUBSET AuditRows]
<1>1. /\ job[w].code \in Codes
      /\ job[w].item \in Rows
  BY DEF Commit, Typed, RequestTyped, Jobs
<1>2. Effect(job[w]) \in Rows
  BY <1>1 DEF Effect, Typed, StoreTyped, Rows
<1>3. Revised(job[w]) \in Seq(RevisionRows)
  <2>1. RevisionOf(job[w].item) \in RevisionRows
    BY <1>1 DEF RevisionOf, RevisionRows, Rows
  <2>2. revisions[job[w].code] \in Seq(RevisionRows)
    BY <1>1 DEF Typed, StoreTyped
  <2> QED BY <2>1, <2>2 DEF Revised
<1> QED
  BY <1>1, <1>2, <1>3 DEF Commit, Typed, StoreTyped

LEMMA AuditedTyped ==
    ASSUME Typed, NEW w \in Workers, pc[w] \in {"write", "audit"}
    PROVE  /\ job[w].code \in Codes
           /\ job[w].op \in Writes
           /\ Audited(job[w]) \in Nat
           /\ AuditRow(job[w]) \in AuditRows
<1>1. job[w] \in Jobs /\ job[w].code \in Codes /\ job[w].op \in Writes
  BY DEF Typed, RequestTyped
<1>2. Audited(job[w]) \in Nat
  BY <1>1 DEF Audited, Deletion, Jobs, Rows
<1> QED
  BY <1>1, <1>2 DEF AuditRow, AuditRows, Jobs, Rows, Writes

LEMMA FetchTyped ==
    ASSUME Typed, NEW w \in Workers, NEW c \in Codes, Fetch(w, c), job' = job,
           job[w].code \in Codes, faults' = faults
    PROVE  RequestTyped'
<1>1. table[c] \in Rows
  BY DEF Typed, StoreTyped
<1>2. view' \in [Workers -> Views]
  BY <1>1 DEF Fetch, Typed, RequestTyped, Views, Rows
<1> QED
  BY <1>2 DEF Fetch, Goto, Answer, Answers, Responses, Typed, RequestTyped

LEMMA CreatedTyped ==
    ASSUME Typed, NEW w \in Workers, Created(w), job' = job, faults' \in 0 .. MaxFaults
    PROVE  RequestTyped'
<1>1. view' \in [Workers -> Views]
  BY DEF Created, Typed, RequestTyped, Views, Jobs, Rows
<1> QED
  BY <1>1 DEF Created, Goto, Answer, Answers, Responses, Typed, RequestTyped

LEMMA ServeTyped ==
    ASSUME Typed, NEW w \in Workers, Serve(w)
    PROVE  Typed'
<1>1. CASE Write(w)
  <2>1. StoreTyped'
    BY <1>1, CommitTyped DEF Write, StoreTyped, Typed
  <2>2. RequestTyped'
    BY <1>1 DEF Write, Commit, Goto, Typed, RequestTyped
  <2> QED BY <2>1, <2>2 DEF Typed
<1>2. CASE WriteMisses(w)
  <2>1. StoreTyped'
    BY <1>2 DEF WriteMisses, stored, Typed, StoreTyped
  <2>2. Miss[job[w].op] \in Answers
    BY <1>2, AuditedTyped DEF WriteMisses, Miss, Answers, Responses, Writes
  <2>3. RequestTyped'
    BY <1>2, <2>2, AnswerTyped DEF WriteMisses, Typed, RequestTyped
  <2> QED BY <2>1, <2>3 DEF Typed
<1>3. CASE WriteAudit(w)
  <2>1. StoreTyped'
    BY <1>3, AuditedTyped DEF WriteAudit, Typed, StoreTyped
  <2>2. RequestTyped'
    <3>1. CASE Created(w)
      BY <1>3, <3>1, CreatedTyped DEF WriteAudit, Typed, RequestTyped
    <3>2. CASE Answer(w, "ok") /\ UNCHANGED view
      BY <1>3, <3>2 DEF WriteAudit, Answer, Goto, Answers, Responses, Typed, RequestTyped
    <3>3. CASE Goto(w, "reread") /\ UNCHANGED <<answer, view>>
      BY <1>3, <3>3 DEF WriteAudit, Goto, Typed, RequestTyped
    <3> QED BY <1>3, <3>1, <3>2, <3>3 DEF WriteAudit
  <2> QED BY <2>1, <2>2 DEF Typed
<1>4. CASE Reread(w)
  <2>1. StoreTyped'
    BY <1>4 DEF Reread, stored, Typed, StoreTyped
  <2>2. RequestTyped'
    BY <1>4, FetchTyped DEF Reread, Typed, RequestTyped
  <2> QED BY <2>1, <2>2 DEF Typed
<1>5. CASE Preload(w)
  <2>1. StoreTyped'
    BY <1>5 DEF Preload, stored, Typed, StoreTyped
  <2>2. Len(revisions[job[w].code]) \in Nat
    BY <1>5 DEF Preload, Typed, RequestTyped, StoreTyped
  <2>3. view' \in [Workers -> Views]
    BY <1>5, <2>2 DEF Preload, Typed, RequestTyped, Views
  <2>4. RequestTyped'
    BY <1>5, <2>3 DEF Preload, Answer, Goto, Answers, Responses, Typed, RequestTyped
  <2> QED BY <2>1, <2>4 DEF Typed
<1>6. CASE Finish(w)
  <2>1. StoreTyped'
    BY <1>6 DEF Finish, stored, Typed, StoreTyped
  <2>2. NoJob \in Jobs /\ NoView \in Views
    BY DEF NoJob, NoRow, Jobs, Rows, NoView, Views
  <2>3. RequestTyped'
    BY <1>6, <2>2 DEF Finish, Goto, Answers, Responses, Typed, RequestTyped
  <2> QED BY <2>1, <2>3 DEF Typed
<1> QED
  BY <1>1, <1>2, <1>3, <1>4, <1>5, <1>6 DEF Serve

LEMMA FaultTyped ==
    ASSUME Typed, Fault
    PROVE  faults' \in 0 .. MaxFaults
BY BoundAssumption DEF Fault, Typed, RequestTyped

LEMMA AuditErrsTyped ==
    ASSUME Typed, NEW w \in Workers, pc[w] = "audit", Fault, AuditErrs(w), job' = job
    PROVE  RequestTyped'
<1>1. CASE Created(w)
  BY <1>1, CreatedTyped, FaultTyped
<1>2. CASE Goto(w, "reread") /\ UNCHANGED <<answer, view>>
  BY <1>2, FaultTyped DEF Goto, Typed, RequestTyped
<1>3. CASE Answer(w, "error") /\ UNCHANGED view
  BY <1>3, FaultTyped DEF Answer, Goto, Answers, Responses, Typed, RequestTyped
<1> QED BY <1>1, <1>2, <1>3 DEF AuditErrs

LEMMA FailTyped ==
    ASSUME Typed, NEW w \in Workers, Fail(w)
    PROVE  Typed'
<1>1. CASE DbFails(w)
  <2>1. StoreTyped'
    BY <1>1 DEF DbFails, stored, Typed, StoreTyped
  <2>2. RequestTyped'
    BY <1>1, FaultTyped DEF DbFails, Answer, Goto, Answers, Responses, Typed, RequestTyped
  <2> QED BY <2>1, <2>2 DEF Typed
<1>2. CASE WriteUnseen(w)
  <2>1. unaudited' \in [Codes -> SUBSET Nat]
    BY <1>2, AuditedTyped DEF WriteUnseen, Commit, NeverAudited, Typed, StoreTyped
  <2>2. StoreTyped'
    BY <1>2, <2>1, CommitTyped DEF WriteUnseen, StoreTyped
  <2>3. RequestTyped'
    BY <1>2, FaultTyped
    DEF WriteUnseen, Commit, Answer, Goto, Answers, Responses, Typed, RequestTyped
  <2> QED BY <2>2, <2>3 DEF Typed
<1>3. CASE AuditLost(w)
  <2>1. unaudited' \in [Codes -> SUBSET Nat]
    BY <1>3, AuditedTyped DEF AuditLost, NeverAudited, Typed, StoreTyped
  <2>2. StoreTyped'
    BY <1>3, <2>1 DEF AuditLost, Typed, StoreTyped
  <2>3. RequestTyped'
    BY <1>3, AuditErrsTyped DEF AuditLost
  <2> QED BY <2>2, <2>3 DEF Typed
<1>4. CASE AuditUnseen(w)
  <2>1. audit' \in [Codes -> SUBSET AuditRows]
    BY <1>4, AuditedTyped DEF AuditUnseen, Typed, StoreTyped
  <2>2. StoreTyped'
    BY <1>4, <2>1 DEF AuditUnseen, Typed, StoreTyped
  <2>3. RequestTyped'
    BY <1>4, AuditErrsTyped DEF AuditUnseen
  <2> QED BY <2>2, <2>3 DEF Typed
<1> QED
  BY <1>1, <1>2, <1>3, <1>4 DEF Fail

LEMMA CrashTyped ==
    ASSUME Typed, Crash
    PROVE  Typed'
<1>1. \A c \in Codes : Pending(c) \subseteq Nat
  BY AuditedTyped DEF Pending, Unsettled
<1>2. StoreTyped'
  BY <1>1 DEF Crash, Typed, StoreTyped
<1>3. NoJob \in Jobs /\ NoView \in Views
  BY DEF NoJob, NoRow, Jobs, Rows, NoView, Views
<1>4. RequestTyped'
  BY <1>3, FaultTyped DEF Crash, Answers, Responses, RequestTyped
<1> QED BY <1>2, <1>4 DEF Typed

\* Every step keeps the types.
LEMMA StepTyped == Typed /\ [Next]_vars => Typed'
<1> SUFFICES ASSUME Typed, [Next]_vars PROVE Typed'
    OBVIOUS
<1>1. CASE Next
  BY <1>1, ArriveTyped, ServeTyped, FailTyped, CrashTyped DEF Next
<1>2. CASE UNCHANGED vars
  BY <1>2 DEF vars, Typed, StoreTyped, RequestTyped
<1> QED BY <1>1, <1>2

\* Every variable of the service keeps its type, for any number of requests,
\* under failures, and whatever versions clients send.
THEOREM TypeCorrect == Spec => []TypeOK
<1>1. Init => Typed
  BY InitTyped
<1>2. Typed /\ [Next]_vars => Typed'
  BY StepTyped
<1>3. Typed => TypeOK
  BY DEF Typed, StoreTyped, RequestTyped, TypeOK
<1> QED
  BY <1>1, <1>2, <1>3, PTL DEF Spec
-----------------------------------------------------------------------------
(* The inductive invariant *)

\* A step either commits the write of one worker, or leaves the rows alone; the
\* requests that stand before their write afterwards stood there before, or
\* have just passed their checks against the present rows.
Committing(w) ==
    /\ Commit(w)
    /\ pc'[w] # "write"
    /\ \A u \in Workers \ {w} : pc'[u] = pc[u]

Keeping ==
    /\ UNCHANGED <<kind, table, revisions>>
    /\ \A w \in Workers :
          pc'[w] = "write" =>
             \/ pc[w] = "write" /\ job'[w] = job[w]
             \/ Sound(job'[w]) /\ Fresh(job'[w])

LEMMA RefuseKeeps ==
    ASSUME Typed, NEW w \in Workers, NEW a, Refuse(w, a)
    PROVE  Keeping
BY DEF Refuse, stored, Answer, Goto, Keeping, Typed, RequestTyped

LEMMA ProceedKeeps ==
    ASSUME Typed, NEW w \in Workers, NEW j, Proceed(w, j), Sound(j), Fresh(j)
    PROVE  Keeping
BY DEF Proceed, stored, Goto, Keeping, Typed, RequestTyped

LEMMA LiveFresh ==
    ASSUME Typed, NEW j, j.code \in Codes, Live(table[j.code]),
           j.snap = table[j.code], j.expected \in Known(table[j.code]) \cup {0}
    PROVE  Fresh(j)
<1>1. table[j.code] \in Rows
  BY DEF Typed, StoreTyped
<1>2. \A r \in Rows : ~r.deleted => r = [r EXCEPT !.deleted = FALSE]
  BY DEF Rows
<1>3. table[j.code].version \in 1 .. table[j.code].version
  BY <1>1 DEF Live, Rows
<1>4. ~Pipelining => j.expected <= table[j.code].version
  BY <1>1 DEF Known, Rows
<1> QED
  BY <1>1, <1>2, <1>3, <1>4 DEF Fresh, Live

LEMMA ArriveKeeps ==
    ASSUME Typed, NEW w \in Workers, Arrive(w)
    PROVE  Keeping
<1>1. CASE TurnAway(w)
  BY <1>1, RefuseKeeps DEF TurnAway
<1>2. ASSUME NEW c \in Codes, BeginGet(w, c)
      PROVE  Keeping
  BY <1>2 DEF BeginGet, Fetch, stored, Answer, Goto, Keeping, Typed, RequestTyped
<1>3. ASSUME NEW c \in Codes, NEW role \in Roles, BeginCreate(w, c, role)
      PROVE  Keeping
  <2>1. CASE Refuse(w, "invalid")
    BY <2>1, RefuseKeeps
  <2>2. ASSUME NEW d \in Payloads,
               Proceed(w, Request("create", c, role, 0, NoRow, Row(1, Policy[kind].initial, d)))
        PROVE  Keeping
    <3> DEFINE j == Request("create", c, role, 0, NoRow, Row(1, Policy[kind].initial, d))
    <3>1. Sound(j) /\ Fresh(j)
      BY DEF Sound, Fresh, Writes, Request
    <3> QED BY <2>2, <3>1, ProceedKeeps
  <2> QED BY <1>3, <2>1, <2>2 DEF BeginCreate, Request
<1>4. ASSUME NEW c \in Codes, NEW role \in Roles, BeginUpdate(w, c, role)
      PROVE  Keeping
  <2>1. CASE \E a \in {"not_found", "locked", "invalid"} : Refuse(w, a)
    BY <2>1, RefuseKeeps
  <2>2. ASSUME NEW d \in Payloads, NEW v \in Known(table[c]),
               Live(table[c]), ~Locked(table[c]),
               Proceed(w, Request("update", c, role, v, table[c],
                                  Row(v + 1, table[c].status, d)))
        PROVE  Keeping
    <3> DEFINE j == Request("update", c, role, v, table[c], Row(v + 1, table[c].status, d))
    <3>1. Sound(j)
      BY <2>2 DEF Sound, Writes, Request
    <3>2. Fresh(j)
      BY <2>2, LiveFresh DEF Request
    <3> QED BY <2>2, <3>1, <3>2, ProceedKeeps
  <2> QED BY <1>4, <2>1, <2>2 DEF BeginUpdate, Request
<1>5. ASSUME NEW c \in Codes, NEW role \in Roles, BeginTransition(w, c, role)
      PROVE  Keeping
  <2>1. CASE \E a \in {"not_found", "forbidden", "invalid"} : Refuse(w, a)
    BY <2>1, RefuseKeeps
  <2>2. ASSUME NEW target \in DOMAIN Graph, NEW v \in Known(table[c]),
               Live(table[c]), target \in Graph[table[c].status],
               NeedsReview(table[c].status, target) => canReview(role),
               Proceed(w, Request("transition", c, role, v, table[c],
                                  Row(v + 1, target, table[c].data)))
        PROVE  Keeping
    <3> DEFINE j == Request("transition", c, role, v, table[c], Row(v + 1, target, table[c].data))
    <3>1. Sound(j)
      BY <2>2 DEF Sound, Writes, Request, Row
    <3>2. Fresh(j)
      BY <2>2, LiveFresh DEF Request
    <3> QED BY <2>2, <3>1, <3>2, ProceedKeeps
  <2> QED BY <1>5, <2>1, <2>2 DEF BeginTransition, Request
<1>6. ASSUME NEW c \in Codes, NEW role \in Roles, BeginDelete(w, c, role)
      PROVE  Keeping
  <2>1. CASE \E a \in {"not_found", "locked"} : Refuse(w, a)
    BY <2>1, RefuseKeeps
  <2>2. ASSUME Live(table[c]), Removable(table[c]),
               Proceed(w, Request("delete", c, role, 0, table[c], table[c]))
        PROVE  Keeping
    <3> DEFINE j == Request("delete", c, role, 0, table[c], table[c])
    <3>1. Sound(j)
      BY <2>2 DEF Sound, Writes, Request
    <3>2. Fresh(j)
      BY <2>2, LiveFresh DEF Request
    <3> QED BY <2>2, <3>1, <3>2, ProceedKeeps
  <2> QED BY <1>6, <2>1, <2>2 DEF BeginDelete, Request
<1> QED
  BY <1>1, <1>2, <1>3, <1>4, <1>5, <1>6 DEF Arrive

LEMMA StepShape ==
    ASSUME Typed, [Next]_vars
    PROVE  Keeping \/ \E w \in Workers : Committing(w)
<1>1. ASSUME NEW w \in Workers, Serve(w)
      PROVE  Keeping \/ Committing(w)
  <2>1. CASE Write(w)
    BY <2>1 DEF Write, Goto, Committing, Typed, RequestTyped
  <2>2. CASE WriteMisses(w)
    BY <2>2 DEF WriteMisses, stored, Answer, Goto, Keeping, Typed, RequestTyped
  <2>3. CASE WriteAudit(w)
    BY <2>3 DEF WriteAudit, Created, Answer, Goto, Keeping, Typed, RequestTyped
  <2>4. CASE Reread(w)
    BY <2>4 DEF Reread, Fetch, stored, Answer, Goto, Keeping, Typed, RequestTyped
  <2>5. CASE Preload(w)
    BY <2>5 DEF Preload, stored, Answer, Goto, Keeping, Typed, RequestTyped
  <2>6. CASE Finish(w)
    BY <2>6 DEF Finish, stored, Goto, Keeping, Typed, RequestTyped
  <2> QED BY <1>1, <2>1, <2>2, <2>3, <2>4, <2>5, <2>6 DEF Serve
<1>2. ASSUME NEW w \in Workers, Fail(w)
      PROVE  Keeping \/ Committing(w)
  <2>1. CASE DbFails(w)
    BY <2>1 DEF DbFails, stored, Answer, Goto, Keeping, Typed, RequestTyped
  <2>2. CASE WriteUnseen(w)
    BY <2>2 DEF WriteUnseen, Answer, Goto, Committing, Typed, RequestTyped
  <2>3. CASE AuditLost(w)
    BY <2>3 DEF AuditLost, AuditErrs, Created, Answer, Goto, Keeping, Typed, RequestTyped
  <2>4. CASE AuditUnseen(w)
    BY <2>4 DEF AuditUnseen, AuditErrs, Created, Answer, Goto, Keeping, Typed, RequestTyped
  <2> QED BY <1>2, <2>1, <2>2, <2>3, <2>4 DEF Fail
<1>3. CASE Crash
  BY <1>3 DEF Crash, Keeping
<1>4. CASE UNCHANGED vars
  BY <1>4 DEF vars, Keeping
<1> QED
  BY <1>1, <1>2, <1>3, <1>4, ArriveKeeps DEF Next

\* What a commit does to the row: a deletion marks it, any other write puts the
\* item there, one version later.
LEMMA CommitRow ==
    ASSUME IInv, NEW w \in Workers, Commit(w)
    PROVE  LET c == job[w].code IN
           /\ c \in Codes /\ kind' = kind
           /\ \A d \in Codes : d # c => table'[d] = table[d]
           /\ \/ /\ job[w].op = "delete"
                 /\ Live(table[c])
                 /\ table'[c] = [table[c] EXCEPT !.deleted = TRUE]
              \/ /\ job[w].op # "delete"
                 /\ ~table[c].deleted
                 /\ table'[c] = job[w].item
                 /\ table'[c].version = table[c].version + 1
                 /\ ~table'[c].deleted
<1> DEFINE c == job[w].code
<1>1. c \in Codes /\ table[c] \in Rows /\ table'[c] = Effect(job[w]) /\ kind' = kind
  BY DEF Commit, IInv, Typed, StoreTyped, RequestTyped
<1>2. \A d \in Codes : d # c => table'[d] = table[d]
  BY <1>1 DEF Commit, IInv, Typed, StoreTyped
<1>3. Sound(job[w]) /\ Matches(job[w])
  BY DEF Commit, IInv
<1>4. CASE job[w].op = "delete"
  BY <1>1, <1>2, <1>3, <1>4 DEF Matches, Effect
<1>5. CASE job[w].op = "create"
  <2>1. table[c].version = 0 /\ ~table[c].deleted
    BY <1>1, <1>3, <1>5 DEF Matches, IInv, Rows
  <2>2. job[w].item.version = 1 /\ ~job[w].item.deleted
    BY <1>3, <1>5, RowFields DEF Sound
  <2> QED BY <1>1, <1>2, <1>5, <2>1, <2>2 DEF Effect
<1>6. CASE job[w].op \in {"update", "transition"}
  <2>1. Live(table[c]) /\ table[c].version = job[w].expected
    BY <1>3, <1>6 DEF Matches
  <2>2. job[w].item.version = job[w].expected + 1 /\ ~job[w].item.deleted
    BY <1>3, <1>6, RowFields DEF Sound
  <2> QED BY <1>1, <1>2, <1>6, <2>1, <2>2 DEF Effect, Live
<1> QED
  BY <1>3, <1>4, <1>5, <1>6 DEF Sound, Writes

LEMMA InitInv == Init => IInv
<1> SUFFICES ASSUME Init PROVE IInv
    OBVIOUS
<1>1. \A c \in Codes : ~table[c].deleted
  BY DEF Init, NoRow, Row
<1>2. \A w \in Workers : pc[w] # "write"
  BY DEF Init
<1> QED BY <1>1, <1>2, InitTyped DEF IInv

LEMMA StepInv == IInv /\ [Next]_vars => IInv'
<1> SUFFICES ASSUME IInv, [Next]_vars PROVE IInv'
    OBVIOUS
<1>1. Typed /\ Typed'
  BY StepTyped DEF IInv
<1>2. CASE Keeping
  <2>1. \A c \in Codes : table'[c].deleted => table'[c].version > 0
    BY <1>2 DEF Keeping, IInv
  <2>2. ASSUME NEW u \in Workers, pc'[u] = "write"
        PROVE  Sound(job[u])' /\ Fresh(job[u])'
    <3>1. Sound(job'[u]) /\ Fresh(job'[u])
      BY <1>2, <2>2 DEF Keeping, IInv
    <3> QED
      BY <1>2, <3>1 DEF Keeping, Sound, Fresh, Locked, Removable, Graph, NeedsReview
  <2> QED BY <1>1, <2>1, <2>2 DEF IInv
<1>3. ASSUME NEW w \in Workers, Committing(w)
      PROVE  IInv'
  <2> DEFINE c == job[w].code
  <2>0. Commit(w)
    BY <1>3 DEF Committing
  <2>1. /\ c \in Codes /\ kind' = kind /\ job' = job
        /\ \A d \in Codes : d # c => table'[d] = table[d]
        /\ \A d \in Codes : table[d] \in Rows /\ table'[d] \in Rows
    BY <1>1, <2>0, CommitRow DEF Commit, Typed, StoreTyped
  <2>2. \/ /\ Live(table[c])
           /\ table'[c] = [table[c] EXCEPT !.deleted = TRUE]
        \/ /\ table'[c].version = table[c].version + 1
           /\ ~table'[c].deleted
    BY <2>0, CommitRow
  <2>3. ASSUME NEW d \in Codes, table'[d].deleted
        PROVE  table'[d].version > 0
    <3>1. CASE d # c
      BY <2>1, <2>3, <3>1 DEF IInv
    <3>2. CASE d = c
      <4>1. Live(table[c]) /\ table'[c] = [table[c] EXCEPT !.deleted = TRUE]
        BY <2>2, <2>3, <3>2
      <4> QED BY <2>1, <3>2, <4>1 DEF Live, Rows
    <3> QED BY <3>1, <3>2
  <2>4. ASSUME NEW u \in Workers, pc'[u] = "write"
        PROVE  Sound(job[u])' /\ Fresh(job[u])'
    <3>1. Sound(job[u]) /\ Fresh(job[u])
      BY <1>3, <2>4 DEF Committing, IInv
    <3>2. Sound(job[u])'
      BY <2>1, <3>1 DEF Sound, Locked, Removable, Graph, NeedsReview
    <3>3. ASSUME job[u].op \in {"update", "transition", "delete"}, job[u].code = c
          PROVE  /\ job[u].snap.version \in 1 .. table'[c].version
                 /\ job[u].snap.version = table'[c].version =>
                       job[u].snap = [table'[c] EXCEPT !.deleted = FALSE]
      <4>1. /\ job[u].snap.version \in 1 .. table[c].version
            /\ job[u].snap.version = table[c].version =>
                  job[u].snap = [table[c] EXCEPT !.deleted = FALSE]
        BY <3>1, <3>3 DEF Fresh
      <4>2. table[c].version \in Nat
        BY <2>1 DEF Rows
      <4>3. CASE table'[c] = [table[c] EXCEPT !.deleted = TRUE]
        <5>1. /\ table'[c].version = table[c].version
              /\ [table'[c] EXCEPT !.deleted = FALSE] = [table[c] EXCEPT !.deleted = FALSE]
          BY <2>1, <4>3 DEF Rows
        <5> QED BY <4>1, <5>1
      <4>4. CASE table'[c].version = table[c].version + 1
        BY <4>1, <4>2, <4>4
      <4> QED BY <2>2, <4>3, <4>4
    <3>4. ASSUME job[u].op \in {"update", "transition", "delete"}, job[u].code # c
          PROVE  table'[job[u].code] = table[job[u].code]
      <4>1. job[u].code \in Codes
        BY <3>1 DEF Sound
      <4> QED BY <2>1, <3>4, <4>1
    <3>5. Fresh(job[u])'
      BY <2>1, <3>1, <3>3, <3>4 DEF Fresh
    <3> QED BY <3>2, <3>5
  <2> QED BY <1>1, <2>3, <2>4 DEF IInv
<1> QED
  BY <1>1, <1>2, <1>3, StepShape

LEMMA InvHolds == Spec => []IInv
BY InitInv, StepInv, PTL DEF Spec
-----------------------------------------------------------------------------
(* The theorems *)

\* A commit of an update or transition overwrites the very row it checked.
LEMMA CommitFresh ==
    ASSUME IInv, ~Pipelining, NEW w \in Workers, pc[w] = "write",
           job[w].op \in {"update", "transition"}, Matches(job[w])
    PROVE  job[w].snap = table[job[w].code]
<1> DEFINE row == table[job[w].code]
<1>1. Sound(job[w]) /\ Fresh(job[w])
  BY DEF IInv
<1>2. row \in Rows
  BY <1>1 DEF Sound, IInv, Typed, StoreTyped
<1>3. Live(row) /\ row.version = job[w].expected
  BY DEF Matches
<1>4. job[w].snap.version = row.version
  BY <1>1, <1>2, <1>3 DEF Fresh, Rows
<1>5. job[w].snap = [row EXCEPT !.deleted = FALSE]
  BY <1>1, <1>4 DEF Fresh
<1> QED
  BY <1>2, <1>3, <1>5 DEF Live, Rows

\* If clients send only versions they have seen, the version in the WHERE
\* clause also protects the checks made on the row read before.
THEOREM SnapshotsFresh ==
    ASSUME ~Pipelining
    PROVE  Spec => []FreshSnapshot
<1>1. IInv => FreshSnapshot
  BY CommitFresh DEF FreshSnapshot
<1> QED
  BY <1>1, InvHolds, PTL

\* Delete repeats neither its check nor a version in its statement; so a record
\* may be removed in a status that forbids it, but only one that was moved on in
\* between, for any number of requests and whatever versions clients send.
THEOREM RemovalsChecked == Spec => UnremovableOvertaken
<1>1. IInv /\ [Next]_vars
      => [\A c \in Codes :
             /\ Live(table[c]) /\ table'[c].deleted
             /\ table[c].status \notin Policy[kind].deletable
             => \E w \in Workers :
                    /\ pc[w] = "write" /\ job[w].op = "delete" /\ job[w].code = c
                    /\ job[w].snap.version < table[c].version]_vars
  <2> SUFFICES ASSUME IInv, [Next]_vars, NEW c \in Codes,
                      Live(table[c]), table'[c].deleted,
                      table[c].status \notin Policy[kind].deletable
               PROVE  \E w \in Workers :
                          /\ pc[w] = "write" /\ job[w].op = "delete" /\ job[w].code = c
                          /\ job[w].snap.version < table[c].version
    OBVIOUS
  <2>1. PICK w \in Workers : Commit(w) /\ job[w].code = c
    <3>1. table'[c] # table[c]
      BY DEF Live
    <3>2. ~Keeping
      BY <3>1 DEF Keeping
    <3>3. PICK w \in Workers : Commit(w)
      BY <3>2, StepShape DEF IInv, Committing
    <3> QED BY <3>1, <3>3, CommitRow
  <2>2. pc[w] = "write" /\ Sound(job[w]) /\ Fresh(job[w]) /\ table[c] \in Rows
    BY <2>1 DEF Commit, IInv, Typed, StoreTyped
  <2>3. job[w].op = "delete"
    BY <2>1, CommitRow
  <2>4. /\ Removable(job[w].snap)
        /\ job[w].snap.version \in 1 .. table[c].version
        /\ job[w].snap.version = table[c].version =>
              job[w].snap = [table[c] EXCEPT !.deleted = FALSE]
    BY <2>1, <2>2, <2>3 DEF Sound, Fresh
  <2>5. job[w].snap.version # table[c].version
    BY <2>2, <2>4 DEF Removable, Rows
  <2>6. table[c].version \in Nat
    BY <2>2 DEF Rows
  <2> QED BY <2>1, <2>2, <2>3, <2>4, <2>5, <2>6
<1> QED
  BY <1>1, InvHolds, PTL DEF Spec, UnremovableOvertaken

\* No write reaches a removed record, whatever versions clients send.
THEOREM TombstonesFrozen == Spec => TombstoneFrozen
<1>1. IInv /\ [Next]_vars
      => [\A c \in Codes : table[c].deleted => table'[c] = table[c]]_vars
  <2> SUFFICES ASSUME IInv, [Next]_vars, NEW c \in Codes, table[c].deleted
               PROVE  table'[c] = table[c]
    OBVIOUS
  <2>1. CASE Keeping
    BY <2>1 DEF Keeping
  <2>2. ASSUME NEW w \in Workers, Committing(w)
        PROVE  table'[c] = table[c]
    <3>1. Commit(w)
      BY <2>2 DEF Committing
    <3>2. ~table[job[w].code].deleted
      BY <3>1, CommitRow DEF Live
    <3> QED BY <3>1, <3>2, CommitRow
  <2> QED BY <2>1, <2>2, StepShape DEF IInv
<1> QED
  BY <1>1, InvHolds, PTL DEF Spec, TombstoneFrozen

\* If clients send only versions they have seen, a reviewed status is entered
\* and left only through a request that passed canReview: no update, deletion
\* or uncleared transition changes it, however requests interleave.
THEOREM ReviewGate ==
    ASSUME ~Pipelining
    PROVE  Spec => ReviewGateHeld
<1> DEFINE Gate ==
       \A c \in Codes :
          /\ table[c].version > 0
          /\ table'[c].status # table[c].status
          /\ {table[c].status, table'[c].status} \cap Policy[kind].reviewed # {}
          => \E w \in Workers :
                /\ pc[w] = "write" /\ pc'[w] # "write"
                /\ job[w].code = c /\ job[w].op = "transition" /\ job[w].cleared
<1>1. IInv /\ [Next]_vars => [Gate]_vars
  <2> SUFFICES ASSUME IInv, [Next]_vars, NEW c \in Codes,
                      table[c].version > 0,
                      table'[c].status # table[c].status,
                      {table[c].status, table'[c].status}
                          \cap Policy[kind].reviewed # {}
               PROVE  \E w \in Workers :
                         /\ pc[w] = "write" /\ pc'[w] # "write"
                         /\ job[w].code = c /\ job[w].op = "transition"
                         /\ job[w].cleared
    OBVIOUS
  <2>1. PICK w \in Workers : Committing(w)
    BY StepShape DEF Keeping, IInv
  <2>2. Commit(w) /\ pc[w] = "write" /\ pc'[w] # "write" /\ Matches(job[w])
    BY <2>1 DEF Committing, Commit
  <2>3. job[w].code = c /\ Sound(job[w])
    BY <2>2, CommitRow DEF IInv
  <2>4. job[w].op # "delete" /\ table'[c] = job[w].item
    <3>1. table[c] \in Rows
      BY DEF IInv, Typed, StoreTyped
    <3> QED BY <2>2, <2>3, <3>1, CommitRow DEF Rows
  <2>5. job[w].op # "create"
    BY <2>2, <2>3 DEF Matches
  <2>6. job[w].op # "update"
    <3> SUFFICES ASSUME job[w].op = "update" PROVE FALSE
      OBVIOUS
    <3>1. job[w].snap = table[c]
      BY <2>2, <2>3, CommitFresh
    <3>2. job[w].item.status = job[w].snap.status
      BY <2>3, RowFields DEF Sound
    <3> QED BY <2>4, <3>1, <3>2
  <2>7. job[w].op = "transition"
    BY <2>3, <2>4, <2>5, <2>6 DEF Sound, Writes
  <2>8. job[w].snap = table[c]
    BY <2>2, <2>3, <2>7, CommitFresh
  <2>9. job[w].cleared
    BY <2>3, <2>4, <2>7, <2>8 DEF Sound, NeedsReview
  <2> QED BY <2>2, <2>3, <2>7, <2>9
<1> QED
  BY <1>1, InvHolds, PTL DEF Spec, ReviewGateHeld

LEMMA InitChain == Init => RevisionChain
<1> SUFFICES ASSUME Init, Versioned, NEW c \in Codes
             PROVE  /\ Len(revisions[c]) = table[c].version
                    /\ \A i \in 1 .. Len(revisions[c]) : revisions[c][i].version = i
                    /\ table[c].version > 0 =>
                          revisions[c][table[c].version] = RevisionOf(table[c])
    BY DEF RevisionChain
<1>1. CASE table[c] = NoRow
  <2>1. revisions[c] = <<>> /\ table[c].version = 0
    BY <1>1 DEF Init, NoRow
  <2> QED BY <2>1
<1>2. ASSUME NEW s, NEW d, table[c] = Row(1, s, d)
      PROVE  /\ table[c].version = 1
             /\ revisions[c] = <<RevisionOf(table[c])>>
             /\ RevisionOf(table[c]).version = 1
  BY <1>2, RowFields DEF Init, RevisionOf
<1>3. CASE \E s, d : table[c] = Row(1, s, d)
  <2>1. /\ table[c].version = 1
        /\ revisions[c] = <<RevisionOf(table[c])>>
        /\ RevisionOf(table[c]).version = 1
    BY <1>2, <1>3
  <2>2. /\ Len(revisions[c]) = 1
        /\ revisions[c][1] = RevisionOf(table[c])
    BY <2>1
  <2>3. \A i \in 1 .. Len(revisions[c]) : i = 1
    BY <2>2
  <2> QED BY <2>1, <2>2, <2>3
<1>4. table[c] = NoRow \/ \E s, d : table[c] = Row(1, s, d)
  BY DEF Init
<1> QED BY <1>1, <1>3, <1>4

LEMMA StepChain ==
    ASSUME IInv, RevisionChain, [Next]_vars
    PROVE  RevisionChain'
<1>1. CASE Keeping
  BY <1>1 DEF Keeping, RevisionChain, Versioned, RevisionOf
<1>2. ASSUME NEW w \in Workers, Committing(w)
      PROVE  RevisionChain'
  <2> DEFINE c == job[w].code
             row == job[w].item
  <2>1. /\ Commit(w) /\ c \in Codes /\ kind' = kind
        /\ \A d \in Codes : d # c => table'[d] = table[d] /\ revisions'[d] = revisions[d]
        /\ revisions'[c] = Revised(job[w])
        /\ table[c] \in Rows /\ revisions[c] \in Seq(RevisionRows)
    BY <1>2, CommitRow DEF Committing, Commit, IInv, Typed, StoreTyped
  <2> SUFFICES ASSUME Versioned, NEW d \in Codes
               PROVE  /\ Len(revisions'[d]) = table'[d].version
                      /\ \A i \in 1 .. Len(revisions'[d]) : revisions'[d][i].version = i
                      /\ table'[d].version > 0 =>
                            revisions'[d][table'[d].version] = RevisionOf(table'[d])
    BY <2>1 DEF RevisionChain, Versioned, RevisionOf
  <2>2. CASE d # c
    BY <2>1, <2>2 DEF RevisionChain
  <2>3. CASE d = c /\ job[w].op = "delete"
    <3>1. table'[c] = [table[c] EXCEPT !.deleted = TRUE]
      BY <2>1, <2>3, CommitRow
    <3>2. /\ table'[c].version = table[c].version
          /\ RevisionOf(table'[c]) = RevisionOf(table[c])
          /\ revisions'[c] = revisions[c]
      BY <2>1, <2>3, <3>1 DEF Revised, RevisionOf, Rows
    <3> QED BY <2>1, <2>3, <3>2 DEF RevisionChain
  <2>4. CASE d = c /\ job[w].op # "delete"
    <3>1. table'[c] = row /\ row.version = table[c].version + 1
      BY <2>1, <2>4, CommitRow
    <3>2. revisions'[c] = Append(revisions[c], RevisionOf(row))
      BY <2>1, <2>4 DEF Revised
    <3>3. RevisionOf(row).version = row.version
      BY DEF RevisionOf
    <3>4. /\ Len(revisions[c]) = table[c].version
          /\ \A i \in 1 .. Len(revisions[c]) : revisions[c][i].version = i
      BY <2>1 DEF RevisionChain
    <3>5. table[c].version \in Nat
      BY <2>1 DEF Rows
    <3>6. /\ Len(revisions'[c]) = Len(revisions[c]) + 1
          /\ revisions'[c][Len(revisions[c]) + 1] = RevisionOf(row)
          /\ \A i \in 1 .. Len(revisions[c]) : revisions'[c][i] = revisions[c][i]
      BY <2>1, <3>2
    <3>7. Len(revisions'[c]) = table'[c].version
      BY <3>1, <3>4, <3>6
    <3>8. revisions'[c][table'[c].version] = RevisionOf(table'[c])
      BY <3>1, <3>4, <3>6
    <3>9. ASSUME NEW i \in 1 .. Len(revisions'[c])
          PROVE  revisions'[c][i].version = i
      <4>1. CASE i \in 1 .. Len(revisions[c])
        BY <3>4, <3>6, <4>1
      <4>2. CASE i = table[c].version + 1
        BY <3>1, <3>3, <3>8, <4>2
      <4> QED BY <3>4, <3>5, <3>6, <3>9, <4>1, <4>2
    <3> QED BY <2>4, <3>7, <3>8, <3>9
  <2> QED BY <2>2, <2>3, <2>4
<1> QED
  BY <1>1, <1>2, StepShape DEF IInv

\* The revisions of a versioned record are its whole history without a gap or a
\* fork, and end in the record as it is, under failures and for any versions.
THEOREM RevisionsChained == Spec => []RevisionChain
<1>1. Init => IInv /\ RevisionChain
  BY InitInv, InitChain
<1>2. IInv /\ RevisionChain /\ [Next]_vars => IInv' /\ RevisionChain'
  BY StepInv, StepChain
<1> QED
  BY <1>1, <1>2, PTL DEF Spec

LEMMA InitRefines == Init => Lifecycle!Init
BY DEF Init, Lifecycle!Init, NoRow, Row, Lifecycle!NoRow, Lifecycle!Row

LEMMA CommitRefines ==
    ASSUME IInv, ~Pipelining, NEW w \in Workers, Commit(w)
    PROVE  Lifecycle!Next
<1> DEFINE c == job[w].code
<1>1. /\ c \in Codes /\ kind' = kind
      /\ table' = [table EXCEPT ![c] = Effect(job[w])]
      /\ Sound(job[w]) /\ Matches(job[w]) /\ pc[w] = "write"
      /\ table[c] \in Rows
  BY DEF Commit, Sound, IInv, Typed, StoreTyped
<1>2. CASE job[w].op = "create"
  <2>1. table[c].version = 0
    BY <1>1, <1>2 DEF Matches
  <2>2. PICK d \in Payloads : job[w].item = Row(1, Policy[kind].initial, d)
    BY <1>1, <1>2 DEF Sound
  <2>3. Lifecycle!Create(c)
    BY <1>1, <1>2, <2>1, <2>2
    DEF Effect, Row, Lifecycle!Create, Lifecycle!Put, Lifecycle!Row
  <2> QED BY <1>1, <2>3 DEF Lifecycle!Next
<1>3. CASE job[w].op = "delete"
  <2>1. Lifecycle!Remove(c)
    BY <1>1, <1>3
    DEF Matches, Effect, Live, Lifecycle!Remove, Lifecycle!Live, Lifecycle!Put
  <2> QED BY <1>1, <2>1 DEF Lifecycle!Next
<1>4. CASE job[w].op = "update"
  <2>1. /\ Live(table[c]) /\ table[c].version = job[w].expected
        /\ job[w].snap = table[c]
    BY <1>1, <1>4, CommitFresh DEF Matches
  <2>2. PICK d \in Payloads :
           job[w].item = Row(table[c].version + 1, table[c].status, d)
    BY <1>1, <1>4, <2>1 DEF Sound
  <2>3. table[c].status \notin Policy[kind].locked
    BY <1>1, <1>4, <2>1 DEF Sound, Locked
  <2>4. Lifecycle!Edit(c)
    BY <1>1, <1>4, <2>1, <2>2, <2>3
    DEF Effect, Live, Row, Lifecycle!Edit, Lifecycle!Live, Lifecycle!Put, Lifecycle!Row
  <2> QED BY <1>1, <2>4 DEF Lifecycle!Next
<1>5. CASE job[w].op = "transition"
  <2>1. /\ Live(table[c]) /\ table[c].version = job[w].expected
        /\ job[w].snap = table[c]
    BY <1>1, <1>5, CommitFresh DEF Matches
  <2>2. PICK t \in Graph[table[c].status] :
           job[w].item = Row(table[c].version + 1, t, table[c].data)
    BY <1>1, <1>5, <2>1 DEF Sound
  <2>3. Lifecycle!Move(c)
    BY <1>1, <1>5, <2>1, <2>2
    DEF Effect, Live, Graph, Row, Lifecycle!Move, Lifecycle!Graph, Lifecycle!Live,
        Lifecycle!Put, Lifecycle!Row
  <2> QED BY <1>1, <2>3 DEF Lifecycle!Next
<1> QED
  BY <1>1, <1>2, <1>3, <1>4, <1>5 DEF Sound, Writes

\* If clients send only versions they have seen, the interleaved requests do
\* to the table what atomic creations, edits, moves and removals would.
THEOREM LifecycleImplemented ==
    ASSUME ~Pipelining
    PROVE  Spec => ImplementsLifecycle
<1>1. IInv /\ [Next]_vars => [Lifecycle!Next]_(Lifecycle!vars)
  <2> SUFFICES ASSUME IInv, [Next]_vars
               PROVE  Lifecycle!Next \/ UNCHANGED Lifecycle!vars
    OBVIOUS
  <2>1. CASE Keeping
    BY <2>1 DEF Keeping, Lifecycle!vars
  <2>2. ASSUME NEW w \in Workers, Committing(w)
        PROVE  Lifecycle!Next
    BY <2>2, CommitRefines DEF Committing
  <2> QED BY <2>1, <2>2, StepShape DEF IInv
<1> QED
  BY <1>1, InitRefines, InvHolds, PTL DEF Spec, ImplementsLifecycle, Lifecycle!Spec
=============================================================================
