------------------------- MODULE RecordAuditProofs -------------------------
(***************************************************************************)
(* Theorems about what RecordService does after a write has committed: what  *)
(* the audit log says of it, and what the client is answered.  IInv of       *)
(* RecordServiceProofs speaks of requests up to their commit; the parts below *)
(* follow them from there to the answer.                                    *)
(***************************************************************************)
EXTENDS RecordServiceProofs, FunctionTheorems, FiniteSetTheorems

\* What has to be audited about a code.
Auditable(c) == 1 .. table[c].version \cup (IF table[c].deleted THEN {Deletion} ELSE {})

\* AuditAccounted without counting: different audit rows, and different requests
\* about to write one, are about different versions.
Accounted ==
    \A c \in Codes :
        /\ AuditedVersions(c) \cup Pending(c) \cup unaudited[c] = Auditable(c)
        /\ AuditedVersions(c) \cap Pending(c) = {}
        /\ (AuditedVersions(c) \cup Pending(c)) \cap unaudited[c] = {}
        /\ \A a, b \in audit[c] : a.version = b.version => a = b
        /\ \A u, w \in Unsettled(c) : Audited(job[u]) = Audited(job[w]) => u = w

\* An audit row tells what the revision it is about changed.
Agrees(c, a) ==
    \/ a.action = "delete"
    \/ /\ a.version \in 1 .. Len(revisions[c])
       /\ a.after = revisions[c][a.version].status
       /\ a.before = IF a.version = 1 THEN None
                     ELSE revisions[c][a.version - 1].status

\* So do the rows that are still to be inserted.
Truthful ==
    Versioned =>
        /\ \A c \in Codes : \A a \in audit[c] : Agrees(c, a)
        /\ \A w \in Workers : pc[w] = "audit" => Agrees(job[w].code, AuditRow(job[w]))

Moves == {"transition", "delete"}
Changes == {"update", "transition"}

\* What a request owes its client.  Only a worker that is done has an answer.  A
\* transition or deletion past its audit insert is in the audit log.  The row is
\* not behind what a change wrote, nor behind what it has read back, and what it
\* has read back is not behind what it wrote; if it could not read it back, the
\* row has been removed.  A worker that is idle serves no change.
Promised(w) ==
    /\ pc[w] # "done" => answer[w] = None
    /\ pc[w] = "idle" => job[w].op \notin Changes
    /\ (pc[w] \in {"reread", "preload"} \/ answer[w] = "ok") /\ job[w].op \in Moves
       => job[w].code \in Codes /\ AuditRow(job[w]) \in audit[job[w].code]
    /\ job[w].op \in Changes =>
          /\ pc[w] \in {"audit", "reread"} =>
                 /\ 0 < job[w].item.version
                 /\ job[w].item.version <= table[job[w].code].version
          /\ pc[w] = "preload" =>
                 /\ job[w].item.version <= view[w].version
                 /\ view[w].version <= table[job[w].code].version
          /\ answer[w] = "ok" =>
                 /\ job[w].item.version <= view[w].version
                 /\ Versioned => view[w].version <= view[w].revisions
          /\ answer[w] = "not_found" =>
                 job[w].code \in Codes /\ table[job[w].code].deleted

AnswerInv == \A w \in Workers : Promised(w)

\* A request that was told to retry had been overtaken, and still is.
ConflictsStand ==
    \A w \in Workers :
        answer[w] = "conflict" =>
            /\ job[w].code \in Codes
            /\ \/ table[job[w].code].deleted
               \/ job[w].expected < table[job[w].code].version

-----------------------------------------------------------------------------
(* The shape of a step, as the audit log sees it *)

\* What a worker does leaves the other requests as they are.
Alone(w) ==
    \A u \in Workers \ {w} :
        /\ pc'[u] = pc[u] /\ job'[u] = job[u]
        /\ answer'[u] = answer[u] /\ view'[u] = view[u]

\* A write commits, and is about to be audited or never will be.
Commits(w) ==
    /\ Commit(w) /\ Alone(w) /\ audit' = audit
    /\ \/ pc'[w] = "audit" /\ unaudited' = unaudited
       \/ pc'[w] # "audit" /\ NeverAudited(w)

\* The audit row is inserted, or is lost.
Settles(w) ==
    /\ pc[w] = "audit" /\ pc'[w] # "audit" /\ Alone(w)
    /\ UNCHANGED <<kind, table, revisions, job>>
    /\ \/ /\ audit' = [audit EXCEPT ![job[w].code] = @ \cup {AuditRow(job[w])}]
          /\ unaudited' = unaudited
       \/ audit' = audit /\ NeverAudited(w)

\* Nothing is written, and the requests about to be audited stay the same.
Rests ==
    /\ UNCHANGED stored
    /\ \A w \in Workers :
          /\ pc'[w] = "audit" <=> pc[w] = "audit"
          /\ pc[w] = "audit" => job'[w] = job[w]

LEMMA ArriveRests ==
    ASSUME Typed, NEW w \in Workers, Arrive(w)
    PROVE  Rests /\ Alone(w)
<1>1. ASSUME NEW a, Refuse(w, a), pc[w] = "idle"
      PROVE  Rests /\ Alone(w)
  BY <1>1 DEF Refuse, stored, Answer, Goto, Rests, Alone, Typed, RequestTyped
<1>2. ASSUME NEW j, Proceed(w, j), pc[w] = "idle"
      PROVE  Rests /\ Alone(w)
  BY <1>2 DEF Proceed, stored, Goto, Rests, Alone, Typed, RequestTyped
<1>3. CASE TurnAway(w)
  BY <1>1, <1>3 DEF TurnAway
<1>4. ASSUME NEW c \in Codes, BeginGet(w, c)
      PROVE  Rests /\ Alone(w)
  BY <1>4 DEF BeginGet, Fetch, stored, Answer, Goto, Rests, Alone, Typed, RequestTyped
<1>5. ASSUME NEW c \in Codes, NEW role \in Roles, BeginCreate(w, c, role)
      PROVE  Rests /\ Alone(w)
  BY <1>1, <1>2, <1>5 DEF BeginCreate
<1>6. ASSUME NEW c \in Codes, NEW role \in Roles, BeginUpdate(w, c, role)
      PROVE  Rests /\ Alone(w)
  BY <1>1, <1>2, <1>6 DEF BeginUpdate
<1>7. ASSUME NEW c \in Codes, NEW role \in Roles, BeginTransition(w, c, role)
      PROVE  Rests /\ Alone(w)
  BY <1>1, <1>2, <1>7 DEF BeginTransition
<1>8. ASSUME NEW c \in Codes, NEW role \in Roles, BeginDelete(w, c, role)
      PROVE  Rests /\ Alone(w)
  BY <1>1, <1>2, <1>8 DEF BeginDelete
<1> QED
  BY <1>3, <1>4, <1>5, <1>6, <1>7, <1>8 DEF Arrive

LEMMA AuditShape ==
    ASSUME Typed, [Next]_vars
    PROVE  Rests \/ Crash \/ \E w \in Workers : Commits(w) \/ Settles(w)
<1>1. ASSUME NEW w \in Workers, Serve(w)
      PROVE  Rests \/ Commits(w) \/ Settles(w)
  <2>1. CASE Write(w)
    BY <2>1 DEF Write, Commit, Goto, Commits, Alone, Typed, RequestTyped
  <2>2. CASE WriteMisses(w)
    BY <2>2 DEF WriteMisses, stored, Answer, Goto, Rests, Typed, RequestTyped
  <2>3. CASE WriteAudit(w)
    <3>1. pc[w] = "audit" /\ pc'[w] # "audit" /\ Alone(w)
      BY <2>3 DEF WriteAudit, Created, Answer, Goto, Alone, Typed, RequestTyped
    <3> QED BY <2>3, <3>1 DEF WriteAudit, Settles
  <2>4. CASE Reread(w)
    BY <2>4 DEF Reread, Fetch, stored, Answer, Goto, Rests, Typed, RequestTyped
  <2>5. CASE Preload(w)
    BY <2>5 DEF Preload, stored, Answer, Goto, Rests, Typed, RequestTyped
  <2>6. CASE Finish(w)
    BY <2>6 DEF Finish, stored, Goto, Rests, Typed, RequestTyped
  <2> QED BY <1>1, <2>1, <2>2, <2>3, <2>4, <2>5, <2>6 DEF Serve
<1>2. ASSUME NEW w \in Workers, Fail(w)
      PROVE  Rests \/ Commits(w) \/ Settles(w)
  <2>1. CASE DbFails(w)
    BY <2>1 DEF DbFails, stored, Answer, Goto, Rests, Typed, RequestTyped
  <2>2. CASE WriteUnseen(w)
    BY <2>2 DEF WriteUnseen, Commit, Answer, Goto, Commits, Alone, Typed, RequestTyped
  <2>3. CASE AuditLost(w)
    <3>1. pc[w] = "audit" /\ pc'[w] # "audit" /\ Alone(w)
      BY <2>3 DEF AuditLost, AuditErrs, Created, Answer, Goto, Alone, Typed, RequestTyped
    <3> QED BY <2>3, <3>1 DEF AuditLost, Settles
  <2>4. CASE AuditUnseen(w)
    <3>1. pc[w] = "audit" /\ pc'[w] # "audit" /\ Alone(w)
      BY <2>4 DEF AuditUnseen, AuditErrs, Created, Answer, Goto, Alone, Typed, RequestTyped
    <3> QED BY <2>4, <3>1 DEF AuditUnseen, Settles
  <2> QED BY <1>2, <2>1, <2>2, <2>3, <2>4 DEF Fail
<1>3. CASE UNCHANGED vars
  BY <1>3 DEF vars, stored, Rests
<1> QED
  BY <1>1, <1>2, <1>3, ArriveRests DEF Next
-----------------------------------------------------------------------------
(* Every version is audited once, is about to be, or was lost *)

\* A commit makes one thing more to be audited, and it is a new one.
LEMMA CommitAuditable ==
    ASSUME IInv, NEW w \in Workers, Commit(w)
    PROVE  LET c == job[w].code  v == Audited(job[w]) IN
           /\ c \in Codes /\ v \notin Auditable(c)
           /\ Auditable(c)' = Auditable(c) \cup {v}
           /\ \A d \in Codes : d # c => Auditable(d)' = Auditable(d)
<1> DEFINE c == job[w].code
           v == Audited(job[w])
<1>1. c \in Codes /\ table[c].version \in Nat /\ table'[c].version \in Nat
  BY CommitRow, CommitTyped DEF IInv, Typed, StoreTyped, Rows
<1>2. \A d \in Codes : d # c => Auditable(d)' = Auditable(d)
  BY CommitRow DEF Auditable
<1>3. job'[w].code = c
  BY DEF Commit
<1>4. ASSUME job[w].op = "delete"
      PROVE  v \notin Auditable(c) /\ Auditable(c)' = Auditable(c) \cup {v}
  <2>1. ~table[c].deleted /\ table'[c] = [table[c] EXCEPT !.deleted = TRUE]
    BY <1>4, CommitRow DEF Live
  <2>2. table[c] \in Rows
    BY <1>1 DEF IInv, Typed, StoreTyped
  <2>3. table'[c].deleted /\ table'[c].version = table[c].version
    BY <2>1, <2>2 DEF Rows
  <2>4. 0 \notin 1 .. table[c].version
    BY <1>1
  <2>5. v = 0 /\ Deletion = 0
    BY <1>4 DEF Audited, Deletion
  <2> QED BY <1>3, <2>1, <2>3, <2>4, <2>5 DEF Auditable
<1>5. ASSUME job[w].op # "delete"
      PROVE  v \notin Auditable(c) /\ Auditable(c)' = Auditable(c) \cup {v}
  <2>1. /\ ~table[c].deleted /\ ~table'[c].deleted
        /\ table'[c].version = table[c].version + 1
        /\ Audited(job[w]) = table[c].version + 1
    BY <1>5, CommitRow DEF Audited
  <2>2. 1 .. table[c].version + 1 = 1 .. table[c].version \cup {table[c].version + 1}
    BY <1>1
  <2>3. table[c].version + 1 \notin 1 .. table[c].version
    BY <1>1
  <2> QED BY <1>3, <2>1, <2>2, <2>3 DEF Auditable
<1> QED BY <1>1, <1>2, <1>4, <1>5

LEMMA InitAccounted == Init => Accounted
<1> SUFFICES ASSUME Init, NEW c \in Codes
             PROVE  /\ AuditedVersions(c) = {} /\ Unsettled(c) = {} /\ Pending(c) = {}
                    /\ audit[c] = {} /\ unaudited[c] = Auditable(c)
    BY DEF Accounted
<1>1. audit[c] = {} /\ AuditedVersions(c) = {}
  BY DEF Init, AuditedVersions
<1>2. Unsettled(c) = {} /\ Pending(c) = {}
  BY DEF Init, Unsettled, Pending
<1>3. ~table[c].deleted /\ table[c].version \in {0, 1}
  BY DEF Init, NoRow, Row
<1>4. 1 .. 0 = {} /\ 1 .. 1 = {1}
  OBVIOUS
<1>5. unaudited[c] = IF table[c].version = 1 THEN {1} ELSE {}
  BY DEF Init
<1> QED BY <1>1, <1>2, <1>3, <1>4, <1>5 DEF Auditable

LEMMA RestsAccounted ==
    ASSUME Accounted, Rests
    PROVE  Accounted'
<1> SUFFICES ASSUME NEW c \in Codes
             PROVE  /\ Unsettled(c)' = Unsettled(c)
                    /\ Pending(c)' = Pending(c)
                    /\ \A u \in Unsettled(c) : job'[u] = job[u]
                    /\ AuditedVersions(c)' = AuditedVersions(c)
                    /\ Auditable(c)' = Auditable(c)
    BY DEF Accounted, Rests, stored, Audited
<1>1. Unsettled(c)' = Unsettled(c) /\ \A u \in Unsettled(c) : job'[u] = job[u]
  BY DEF Rests, Unsettled
<1>2. Pending(c)' = Pending(c)
  BY <1>1 DEF Pending, Audited
<1> QED
  BY <1>1, <1>2 DEF Rests, stored, AuditedVersions, Auditable

LEMMA CrashAccounted ==
    ASSUME Accounted, Crash
    PROVE  Accounted'
<1> SUFFICES ASSUME NEW c \in Codes
             PROVE  /\ Unsettled(c)' = {} /\ Pending(c)' = {}
                    /\ audit'[c] = audit[c] /\ AuditedVersions(c)' = AuditedVersions(c)
                    /\ unaudited'[c] = unaudited[c] \cup Pending(c)
                    /\ Auditable(c)' = Auditable(c)
    BY DEF Accounted
<1>1. Unsettled(c)' = {}
  BY DEF Crash, Unsettled
<1> QED
  BY <1>1 DEF Crash, Pending, AuditedVersions, Auditable

LEMMA CommitsAccounted ==
    ASSUME IInv, Accounted, NEW w \in Workers, Commits(w)
    PROVE  Accounted'
<1> DEFINE c == job[w].code
           v == Audited(job[w])
<1>1. /\ Commit(w) /\ Alone(w) /\ audit' = audit /\ job' = job /\ pc[w] = "write"
      /\ c \in Codes
      /\ \/ pc'[w] = "audit" /\ unaudited' = unaudited
         \/ /\ pc'[w] # "audit"
            /\ unaudited' = [unaudited EXCEPT ![c] = @ \cup {v}]
  BY CommitRow DEF Commits, Commit, NeverAudited
<1>2. /\ v \notin Auditable(c) /\ Auditable(c)' = Auditable(c) \cup {v}
      /\ \A d \in Codes : d # c => Auditable(d)' = Auditable(d)
  BY <1>1, CommitAuditable
<1>3. unaudited \in [Codes -> SUBSET Nat]
  BY DEF IInv, Typed, StoreTyped
<1>4. \A d \in Codes : AuditedVersions(d)' = AuditedVersions(d)
  BY <1>1 DEF AuditedVersions
<1>5. \A d \in Codes : Unsettled(d)' =
         IF d = c /\ pc'[w] = "audit" THEN Unsettled(d) \cup {w} ELSE Unsettled(d)
  BY <1>1 DEF Unsettled, Alone
<1>6. \A d \in Codes : Pending(d)' =
         IF d = c /\ pc'[w] = "audit" THEN Pending(d) \cup {v} ELSE Pending(d)
  BY <1>1, <1>5 DEF Pending, Audited
<1>7. \A u \in Unsettled(c) : Audited(job[u]) # v
  BY <1>1, <1>2 DEF Accounted, Pending
<1> SUFFICES ASSUME NEW d \in Codes
             PROVE  /\ AuditedVersions(d)' \cup Pending(d)' \cup unaudited'[d] = Auditable(d)'
                    /\ AuditedVersions(d)' \cap Pending(d)' = {}
                    /\ (AuditedVersions(d)' \cup Pending(d)') \cap unaudited'[d] = {}
                    /\ \A a, b \in audit'[d] : a.version = b.version => a = b
                    /\ \A t, u \in Unsettled(d)' :
                          Audited(job[t]) = Audited(job[u]) => t = u
    BY <1>1 DEF Accounted, Audited
<1>8. CASE d # c
  BY <1>1, <1>2, <1>3, <1>4, <1>5, <1>6, <1>8 DEF Accounted
<1>9. CASE d = c /\ pc'[w] = "audit"
  <2>1. /\ Unsettled(c)' = Unsettled(c) \cup {w} /\ Pending(c)' = Pending(c) \cup {v}
        /\ AuditedVersions(c)' = AuditedVersions(c)
        /\ audit'[c] = audit[c] /\ unaudited'[c] = unaudited[c]
    BY <1>1, <1>4, <1>5, <1>6, <1>9
  <2>2. v \notin AuditedVersions(c) \cup Pending(c) \cup unaudited[c]
    BY <1>1, <1>2 DEF Accounted
  <2>3. \A t, u \in Unsettled(c)' : Audited(job[t]) = Audited(job[u]) => t = u
    BY <1>1, <1>7, <2>1 DEF Accounted
  <2> QED BY <1>1, <1>2, <1>9, <2>1, <2>2, <2>3 DEF Accounted
<1>10. CASE d = c /\ pc'[w] # "audit"
  <2>1. /\ Unsettled(c)' = Unsettled(c) /\ Pending(c)' = Pending(c)
        /\ AuditedVersions(c)' = AuditedVersions(c)
        /\ audit'[c] = audit[c] /\ unaudited'[c] = unaudited[c] \cup {v}
    BY <1>1, <1>3, <1>4, <1>5, <1>6, <1>10
  <2>2. v \notin AuditedVersions(c) \cup Pending(c) \cup unaudited[c]
    BY <1>1, <1>2 DEF Accounted
  <2> QED BY <1>1, <1>2, <1>10, <2>1, <2>2 DEF Accounted
<1> QED BY <1>8, <1>9, <1>10

LEMMA SettlesAccounted ==
    ASSUME IInv, Accounted, NEW w \in Workers, Settles(w)
    PROVE  Accounted'
<1> DEFINE c == job[w].code
           v == Audited(job[w])
           a0 == AuditRow(job[w])
<1>1. /\ pc[w] = "audit" /\ pc'[w] # "audit" /\ Alone(w)
      /\ table' = table /\ job' = job /\ c \in Codes
  BY AuditedTyped DEF Settles, IInv
<1>2. a0.version = v
  BY DEF AuditRow
<1>3. audit \in [Codes -> SUBSET AuditRows] /\ unaudited \in [Codes -> SUBSET Nat]
  BY DEF IInv, Typed, StoreTyped
<1>4. \A d \in Codes : Unsettled(d)' = IF d = c THEN Unsettled(d) \ {w} ELSE Unsettled(d)
  BY <1>1 DEF Unsettled, Alone
<1>5. w \in Unsettled(c) /\ v \in Pending(c)
  BY <1>1 DEF Unsettled, Pending
<1>6. \A d \in Codes : Pending(d)' = IF d = c THEN Pending(d) \ {v} ELSE Pending(d)
  <2>1. \A u \in Unsettled(c) : Audited(job[u]) = v => u = w
    BY <1>1, <1>5 DEF Accounted
  <2> QED BY <1>1, <1>4, <2>1 DEF Pending, Audited
<1>7. \A d \in Codes : Auditable(d)' = Auditable(d)
  BY <1>1 DEF Auditable
<1> SUFFICES ASSUME NEW d \in Codes
             PROVE  /\ AuditedVersions(d)' \cup Pending(d)' \cup unaudited'[d] = Auditable(d)'
                    /\ AuditedVersions(d)' \cap Pending(d)' = {}
                    /\ (AuditedVersions(d)' \cup Pending(d)') \cap unaudited'[d] = {}
                    /\ \A a, b \in audit'[d] : a.version = b.version => a = b
                    /\ \A t, u \in Unsettled(d)' :
                          Audited(job[t]) = Audited(job[u]) => t = u
    BY <1>1 DEF Accounted, Audited
<1>8. \A t, u \in Unsettled(d)' : Audited(job[t]) = Audited(job[u]) => t = u
  BY <1>4 DEF Accounted
<1>9. /\ v \notin AuditedVersions(c) /\ v \notin unaudited[c]
      /\ \A a \in audit[c] : a.version # v
  BY <1>1, <1>5 DEF Accounted, AuditedVersions
<1>10. CASE d # c
  <2>1. audit'[d] = audit[d] /\ unaudited'[d] = unaudited[d]
    BY <1>3, <1>10 DEF Settles, NeverAudited
  <2> QED BY <1>4, <1>6, <1>7, <1>8, <1>10, <2>1 DEF Accounted, AuditedVersions
<1>11. CASE d = c /\ audit'[c] = audit[c] \cup {a0} /\ unaudited'[c] = unaudited[c]
  <2>1. AuditedVersions(c)' = AuditedVersions(c) \cup {v}
    BY <1>1, <1>2, <1>11 DEF AuditedVersions
  <2>2. \A a, b \in audit'[c] : a.version = b.version => a = b
    BY <1>1, <1>2, <1>9, <1>11 DEF Accounted
  <2> QED BY <1>1, <1>5, <1>6, <1>7, <1>8, <1>9, <1>11, <2>1, <2>2 DEF Accounted
<1>12. CASE d = c /\ audit'[c] = audit[c] /\ unaudited'[c] = unaudited[c] \cup {v}
  <2>1. AuditedVersions(c)' = AuditedVersions(c)
    BY <1>1, <1>12 DEF AuditedVersions
  <2> QED BY <1>1, <1>5, <1>6, <1>7, <1>8, <1>9, <1>12, <2>1 DEF Accounted
<1>13. \/ audit'[c] = audit[c] \cup {a0} /\ unaudited'[c] = unaudited[c]
       \/ audit'[c] = audit[c] /\ unaudited'[c] = unaudited[c] \cup {v}
  BY <1>1, <1>3 DEF Settles, NeverAudited
<1> QED BY <1>10, <1>11, <1>12, <1>13

LEMMA StepAccounted ==
    ASSUME IInv, Accounted, [Next]_vars
    PROVE  Accounted'
BY AuditShape, RestsAccounted, CrashAccounted, CommitsAccounted, SettlesAccounted DEF IInv

LEMMA AccountedHolds == Spec => [](IInv /\ Accounted)
<1>1. Init => IInv /\ Accounted
  BY InitInv, InitAccounted
<1>2. IInv /\ Accounted /\ [Next]_vars => IInv' /\ Accounted'
  BY StepInv, StepAccounted
<1> QED
  BY <1>1, <1>2, PTL DEF Spec

\* A set whose elements have different numbers has as many elements as numbers.
LEMMA Numbering ==
    ASSUME NEW S, NEW T, NEW f \in [S -> T], IsFiniteSet(T),
           \A x, y \in S : f[x] = f[y] => x = y,
           \A t \in T : \E x \in S : f[x] = t
    PROVE  Cardinality(S) = Cardinality(T)
<1>1. f \in Injection(S, T)
  BY Fun_IsInj
<1>2. f \in Surjection(S, T)
  BY Fun_IsSurj
<1> QED BY <1>1, <1>2, FS_Injection

LEMMA AccountedCounted ==
    ASSUME IInv, Accounted
    PROVE  AuditAccounted
<1> SUFFICES ASSUME NEW c \in Codes
             PROVE  /\ Cardinality(audit[c]) = Cardinality(AuditedVersions(c))
                    /\ Cardinality(Unsettled(c)) = Cardinality(Pending(c))
    BY DEF Accounted, AuditAccounted, Auditable
<1>1. IsFiniteSet(Auditable(c))
  <2>1. table[c].version \in Int
    BY DEF IInv, Typed, StoreTyped, Rows
  <2>2. IsFiniteSet(1 .. table[c].version)
    BY <2>1, FS_Interval
  <2>3. IsFiniteSet(IF table[c].deleted THEN {Deletion} ELSE {})
    BY FS_Singleton, FS_EmptySet
  <2> QED BY <2>2, <2>3, FS_Union DEF Auditable
<1>2. IsFiniteSet(AuditedVersions(c)) /\ IsFiniteSet(Pending(c))
  <2>1. AuditedVersions(c) \subseteq Auditable(c) /\ Pending(c) \subseteq Auditable(c)
    BY DEF Accounted
  <2> QED BY <1>1, <2>1, FS_Subset
<1>3. Cardinality(audit[c]) = Cardinality(AuditedVersions(c))
  <2> DEFINE f == [a \in audit[c] |-> a.version]
  <2>1. /\ f \in [audit[c] -> AuditedVersions(c)]
        /\ \A n \in AuditedVersions(c) : \E a \in audit[c] : f[a] = n
    BY DEF AuditedVersions
  <2>2. \A a, b \in audit[c] : f[a] = f[b] => a = b
    BY DEF Accounted
  <2> HIDE DEF f
  <2> QED BY <1>2, <2>1, <2>2, Numbering
<1>4. Cardinality(Unsettled(c)) = Cardinality(Pending(c))
  <2> DEFINE f == [w \in Unsettled(c) |-> Audited(job[w])]
  <2>1. /\ f \in [Unsettled(c) -> Pending(c)]
        /\ \A n \in Pending(c) : \E w \in Unsettled(c) : f[w] = n
    BY DEF Pending
  <2>2. \A u, w \in Unsettled(c) : f[u] = f[w] => u = w
    BY DEF Accounted
  <2> HIDE DEF f
  <2> QED BY <1>2, <2>1, <2>2, Numbering
<1> QED BY <1>3, <1>4

\* Under failures and for any versions, everything written about a record is in
\* the audit log once, is about to be, or was lost by a failure, and no two
\* requests or audit rows claim the same version.
THEOREM EverythingAccounted == Spec => []AuditAccounted
BY AccountedHolds, AccountedCounted, PTL

\* What was never audited without a failure is the seeded version.
OnlySeedsUnaudited ==
    faults = 0 => \A c \in Codes : unaudited[c] \subseteq {1}

\* The README's "every state change is written to the audit log" is right as
\* long as no database call fails and no process stops.
THEOREM FaultlessAudit ==
    ASSUME MaxFaults = 0
    PROVE  Spec => []EveryChangeAudited
<1>1. Init => OnlySeedsUnaudited
  BY DEF Init, OnlySeedsUnaudited
<1>2. IInv /\ Accounted /\ OnlySeedsUnaudited /\ [Next]_vars => OnlySeedsUnaudited'
  <2> SUFFICES ASSUME IInv, OnlySeedsUnaudited, [Next]_vars
               PROVE  unaudited' = unaudited /\ faults = 0
    BY DEF OnlySeedsUnaudited
  <2>1. faults = 0 /\ ~Fault
    BY DEF Fault, IInv, Typed, RequestTyped
  <2>2. \A w \in Workers : ~Fail(w) /\ ~Crash
    BY <2>1 DEF Fail, DbFails, WriteUnseen, AuditLost, AuditUnseen, Crash
  <2>3. ASSUME NEW w \in Workers, Serve(w)
        PROVE  unaudited' = unaudited
    BY <2>3 DEF Serve, Write, WriteMisses, WriteAudit, Reread, Preload, Finish, stored
  <2>4. ASSUME NEW w \in Workers, Arrive(w)
        PROVE  unaudited' = unaudited
    BY <2>4, ArriveRests DEF IInv, Rests, stored
  <2>5. CASE UNCHANGED vars
    BY <2>1, <2>5 DEF vars
  <2>6. CASE Crash
    BY <2>1, <2>6 DEF Crash
  <2> QED BY <2>1, <2>2, <2>3, <2>4, <2>5, <2>6 DEF Next
<1>3. IInv /\ Accounted /\ OnlySeedsUnaudited => EveryChangeAudited
  <2> SUFFICES ASSUME IInv, Accounted, OnlySeedsUnaudited,
                      \A w \in Workers : pc[w] = "idle",
                      NEW c \in Codes, NEW v \in 2 .. table[c].version
               PROVE  v \in AuditedVersions(c)
    BY DEF EveryChangeAudited
  <2>1. Pending(c) = {}
    BY DEF Pending, Unsettled
  <2>2. faults = 0 /\ unaudited[c] \subseteq {1}
    BY DEF OnlySeedsUnaudited, IInv, Typed, RequestTyped
  <2>3. table[c].version \in Nat
    BY DEF IInv, Typed, StoreTyped, Rows
  <2>4. v \in Auditable(c) /\ v # 1
    BY <2>3 DEF Auditable
  <2> QED BY <2>1, <2>2, <2>4 DEF Accounted
<1> QED
  BY <1>1, <1>2, <1>3, AccountedHolds, PTL DEF Spec
-----------------------------------------------------------------------------
(* What the audit rows say *)

\* Revisions are only appended, so what agrees with one goes on agreeing.
LEMMA AgreesOn ==
    ASSUME IInv, [Next]_vars, NEW c \in Codes, NEW a \in AuditRows, Agrees(c, a)
    PROVE  Agrees(c, a)'
<1>1. revisions[c] \in Seq(RevisionRows)
  BY DEF IInv, Typed, StoreTyped
<1>2. \/ revisions'[c] = revisions[c]
      \/ \E r \in RevisionRows : revisions'[c] = Append(revisions[c], r)
  <2>1. ASSUME NEW w \in Workers, Commit(w)
        PROVE  \/ revisions'[c] = revisions[c]
               \/ \E r \in RevisionRows : revisions'[c] = Append(revisions[c], r)
    <3>1. revisions' = [revisions EXCEPT ![job[w].code] = Revised(job[w])]
      BY <2>1 DEF Commit
    <3>2. RevisionOf(job[w].item) \in RevisionRows
      BY DEF IInv, Typed, RequestTyped, Jobs, Rows, RevisionOf, RevisionRows
    <3> QED BY <3>1, <3>2 DEF Revised, IInv, Typed, StoreTyped
  <2> QED BY <2>1, StepShape DEF Keeping, Committing, IInv
<1>3. /\ Len(revisions[c]) \in Nat
      /\ Len(revisions[c]) <= Len(revisions'[c])
      /\ \A i \in 1 .. Len(revisions[c]) : revisions'[c][i] = revisions[c][i]
  BY <1>1, <1>2
<1>4. Len(revisions'[c]) \in Nat
  BY <1>1, <1>2
<1>5. a.version \in Nat
  BY DEF AuditRows
<1>6. CASE a.action # "delete"
  <2>1. a.version \in 1 .. Len(revisions[c]) /\ a.version \in 1 .. Len(revisions'[c])
    BY <1>3, <1>4, <1>5, <1>6 DEF Agrees
  <2>2. a.version # 1 => a.version - 1 \in 1 .. Len(revisions[c])
    BY <1>3, <2>1
  <2> QED BY <1>3, <1>6, <2>1, <2>2 DEF Agrees
<1> QED BY <1>6 DEF Agrees

\* A row about a write that has just committed agrees with its revision: its
\* "before" was read from the row that was overwritten.
LEMMA CommitAgrees ==
    ASSUME IInv, RevisionChain, ~Pipelining, Versioned, NEW w \in Workers, Commit(w)
    PROVE  Agrees(job[w].code, AuditRow(job[w]))'
<1> DEFINE c == job[w].code
           j == job[w]
           n == table[c].version
<1>1. /\ c \in Codes /\ job' = job /\ pc[w] = "write" /\ Matches(j) /\ Sound(j)
      /\ n \in Nat /\ revisions[c] \in Seq(RevisionRows)
  BY CommitRow DEF Commit, IInv, Typed, StoreTyped, Rows
<1>2. CASE j.op = "delete"
  BY <1>1, <1>2 DEF Agrees, AuditRow
<1>3. CASE j.op # "delete"
  <2>1. j.item.version = n + 1
    BY <1>3, CommitRow
  <2>2. Len(revisions[c]) = n /\ (n > 0 => revisions[c][n] = RevisionOf(table[c]))
    BY <1>1 DEF RevisionChain
  <2>3. revisions'[c] = Append(revisions[c], RevisionOf(j.item))
    BY <1>1, <1>3 DEF Commit, Revised, IInv, Typed, StoreTyped
  <2>4. /\ Len(revisions'[c]) = n + 1
        /\ revisions'[c][n + 1].status = j.item.status
        /\ n > 0 => revisions'[c][n].status = table[c].status
    <3>1. /\ Len(revisions'[c]) = n + 1
          /\ revisions'[c][n + 1] = RevisionOf(j.item)
          /\ n > 0 => revisions'[c][n] = revisions[c][n]
      BY <1>1, <2>2, <2>3
    <3> QED BY <2>2, <3>1 DEF RevisionOf
  <2>5. j.snap.status = IF n = 0 THEN None ELSE table[c].status
    <3>1. CASE j.op = "create"
      BY <1>1, <3>1 DEF Matches, Sound, NoRow
    <3>2. CASE j.op # "create"
      <4>1. Live(table[c]) /\ j.op \in {"update", "transition"}
        BY <1>1, <1>3, <3>2 DEF Matches, Sound, Writes
      <4>2. j.snap = table[c]
        BY <1>1, <4>1, CommitFresh
      <4> QED BY <1>1, <4>1, <4>2 DEF Live
    <3> QED BY <3>1, <3>2
  <2>6. /\ AuditRow(j).version = n + 1
        /\ AuditRow(j).after = j.item.status
        /\ AuditRow(j).before = j.snap.status
    BY <1>3, <2>1 DEF AuditRow, Audited
  <2> HIDE DEF n
  <2>7. n + 1 \in 1 .. n + 1 /\ (n + 1 = 1 <=> n = 0) /\ (n + 1) - 1 = n /\ (n # 0 => n > 0)
    BY <1>1
  <2>8. AuditRow(j)' = AuditRow(j)
    BY <1>1 DEF AuditRow, Audited
  <2> QED BY <1>1, <2>4, <2>5, <2>6, <2>7, <2>8 DEF Agrees
<1> QED BY <1>2, <1>3

LEMMA StepTruthful ==
    ASSUME IInv, RevisionChain, Truthful, ~Pipelining, [Next]_vars
    PROVE  Truthful'
<1>1. kind' = kind
  <2>1. \A w \in Workers : Commit(w) => kind' = kind
    BY DEF Commit
  <2> QED BY <2>1, StepShape DEF IInv, Keeping, Committing
<1> SUFFICES ASSUME Versioned
             PROVE  /\ \A c \in Codes : \A a \in audit'[c] : Agrees(c, a)'
                    /\ \A w \in Workers :
                          pc'[w] = "audit" => Agrees(job[w].code, AuditRow(job[w]))'
    BY <1>1 DEF Truthful, Versioned
<1>2. \A c \in Codes : audit[c] \in SUBSET AuditRows
  BY DEF IInv, Typed, StoreTyped
<1>3. \A c \in Codes : \A a \in audit[c] : Agrees(c, a)'
  BY <1>2, AgreesOn DEF Truthful
<1>4. \A w \in Workers : pc[w] = "audit" =>
         /\ job[w].code \in Codes /\ AuditRow(job[w]) \in AuditRows
         /\ Agrees(job[w].code, AuditRow(job[w]))
  BY AuditedTyped DEF Truthful, IInv
<1>5. ASSUME NEW w \in Workers, pc[w] = "audit", job'[w] = job[w]
      PROVE  Agrees(job[w].code, AuditRow(job[w]))'
  <2> DEFINE c == job[w].code
             a == AuditRow(job[w])
  <2>1. c' = c /\ a' = a
    BY <1>5 DEF AuditRow, Audited
  <2>2. \E d \in Codes, b \in AuditRows : d = c /\ b = a /\ Agrees(d, b)
    BY <1>4, <1>5
  <2>3. \E d \in Codes, b \in AuditRows : d = c /\ b = a /\ Agrees(d, b)'
    BY <2>2, AgreesOn
  <2> QED BY <2>1, <2>3 DEF Agrees
<1>6. CASE Rests
  BY <1>3, <1>5, <1>6 DEF Rests, stored
<1>7. CASE Crash
  BY <1>3, <1>7 DEF Crash
<1>8. ASSUME NEW w \in Workers, Commits(w)
      PROVE  /\ \A c \in Codes : \A a \in audit'[c] : Agrees(c, a)'
             /\ \A u \in Workers :
                   pc'[u] = "audit" => Agrees(job[u].code, AuditRow(job[u]))'
  <2>1. Commit(w) /\ audit' = audit /\ job' = job
    BY <1>8 DEF Commits, Commit
  <2>2. Agrees(job[w].code, AuditRow(job[w]))'
    BY <2>1, CommitAgrees
  <2>3. ASSUME NEW u \in Workers, u # w, pc'[u] = "audit"
        PROVE  Agrees(job[u].code, AuditRow(job[u]))'
    BY <1>5, <1>8, <2>1, <2>3 DEF Commits, Alone
  <2> QED BY <1>3, <2>1, <2>2, <2>3
<1>9. ASSUME NEW w \in Workers, Settles(w)
      PROVE  /\ \A c \in Codes : \A a \in audit'[c] : Agrees(c, a)'
             /\ \A u \in Workers :
                   pc'[u] = "audit" => Agrees(job[u].code, AuditRow(job[u]))'
  <2>1. pc[w] = "audit" /\ pc'[w] # "audit" /\ job' = job
    BY <1>9 DEF Settles
  <2>2. ASSUME NEW u \in Workers, pc'[u] = "audit"
        PROVE  Agrees(job[u].code, AuditRow(job[u]))'
    BY <1>5, <1>9, <2>1, <2>2 DEF Settles, Alone
  <2>3. ASSUME NEW c \in Codes, NEW a \in audit'[c]
        PROVE  Agrees(c, a)'
    <3>1. a \in audit[c] \/ (c = job[w].code /\ a = AuditRow(job[w]))
      BY <1>9, <2>3 DEF Settles, IInv, Typed, StoreTyped
    <3>2. Agrees(job[w].code, AuditRow(job[w]))
      BY <1>4, <2>1
    <3>3. a \in AuditRows /\ Agrees(c, a)
      BY <1>2, <1>4, <2>1, <3>1, <3>2 DEF Truthful
    <3> QED BY <3>3, AgreesOn
  <2> QED BY <2>2, <2>3
<1> QED
  BY <1>6, <1>7, <1>8, <1>9, AuditShape DEF IInv

\* If clients send only versions they have seen, every audit row tells what its
\* revision changed, although it is inserted after the write, in any order with
\* the others, and says what the row was before from a read before the write.
THEOREM AuditsTruthful ==
    ASSUME ~Pipelining
    PROVE  Spec => []AuditTruthful
<1>1. Init => IInv /\ RevisionChain /\ Truthful
  BY InitInv, InitChain DEF Init, Truthful
<1>2. IInv /\ RevisionChain /\ Truthful /\ [Next]_vars
      => IInv' /\ RevisionChain' /\ Truthful'
  BY StepInv, StepChain, StepTruthful
<1>3. Truthful => AuditTruthful
  BY DEF Truthful, Agrees, AuditTruthful
<1> QED
  BY <1>1, <1>2, <1>3, PTL DEF Spec
-----------------------------------------------------------------------------
(* What the answers say *)

\* Versions, removals, audit rows and revisions only accumulate.
LEMMA Growth ==
    ASSUME IInv, [Next]_vars
    PROVE  /\ kind' = kind
           /\ \A c \in Codes :
                 /\ table[c].version \in Nat /\ table'[c].version \in Nat
                 /\ table[c].version <= table'[c].version
                 /\ table[c].deleted => table'[c].deleted
                 /\ audit[c] \subseteq audit'[c]
<1>1. \A c \in Codes : table[c].version \in Nat /\ table'[c].version \in Nat
  BY StepTyped DEF IInv, Typed, StoreTyped, Rows
<1>2. \A c \in Codes : audit[c] \subseteq audit'[c]
  <2>1. \A w \in Workers : Commits(w) \/ Settles(w) => \A c \in Codes : audit[c] \subseteq audit'[c]
    BY DEF Commits, Settles, IInv, Typed, StoreTyped
  <2> QED BY <2>1, AuditShape DEF Rests, stored, Crash, IInv
<1>3. ASSUME NEW w \in Workers, Commit(w)
      PROVE  /\ kind' = kind
             /\ \A c \in Codes :
                   /\ table[c].version <= table'[c].version
                   /\ table[c].deleted => table'[c].deleted
  <2> DEFINE d == job[w].code
  <2>1. d \in Codes /\ kind' = kind /\ \A c \in Codes : c # d => table'[c] = table[c]
    BY <1>3, CommitRow
  <2>2. ASSUME job[w].op = "delete"
        PROVE  ~table[d].deleted /\ table'[d].version = table[d].version
    <3>1. ~table[d].deleted /\ table'[d] = [table[d] EXCEPT !.deleted = TRUE]
      BY <1>3, <2>2, CommitRow DEF Live
    <3>2. table'[d].version = table[d].version
      BY <2>1, <3>1 DEF IInv, Typed, StoreTyped, Rows
    <3> QED BY <3>1, <3>2
  <2>3. ASSUME job[w].op # "delete"
        PROVE  ~table[d].deleted /\ table'[d].version = table[d].version + 1
    BY <1>3, <2>3, CommitRow
  <2>4. /\ table[d].version <= table'[d].version
        /\ table[d].deleted => table'[d].deleted
    BY <1>1, <2>1, <2>2, <2>3
  <2>5. ASSUME NEW c \in Codes, c # d
        PROVE  /\ table[c].version <= table'[c].version
               /\ table[c].deleted => table'[c].deleted
    BY <1>1, <2>1, <2>5
  <2> QED BY <2>1, <2>4, <2>5
<1>4. ASSUME Keeping
      PROVE  kind' = kind /\ table' = table
  BY <1>4 DEF Keeping
<1>5. \/ Keeping
      \/ \E w \in Workers : Commit(w)
  BY StepShape DEF IInv, Committing
<1>6. CASE Keeping
  BY <1>1, <1>2, <1>4, <1>6
<1> QED BY <1>1, <1>2, <1>3, <1>5, <1>6

\* A worker that does nothing keeps what it promised while others write.
LEMMA StandingPromise ==
    ASSUME IInv, [Next]_vars, NEW w \in Workers, Promised(w),
           pc'[w] = pc[w], job'[w] = job[w], answer'[w] = answer[w], view'[w] = view[w]
    PROVE  Promised(w)'
<1>1. /\ job[w] \in Jobs /\ view[w] \in Views
      /\ pc[w] \in {"audit", "reread", "preload"} => job[w].code \in Codes
  BY DEF IInv, Typed, RequestTyped
<1>2. job[w].item.version \in Nat /\ view[w].version \in Nat
  BY <1>1 DEF Jobs, Rows, Views
<1>3. AuditRow(job[w])' = AuditRow(job[w])
  BY DEF AuditRow, Audited
<1>4. Versioned' = Versioned
  BY Growth DEF Versioned
<1>5. /\ pc'[w] # "done" => answer'[w] = None
      /\ (pc'[w] \in {"reread", "preload"} \/ answer'[w] = "ok") /\ job'[w].op \in Moves
         => job'[w].code \in Codes /\ AuditRow(job'[w]) \in audit'[job'[w].code]
  BY Growth DEF Promised
<1>6. ASSUME job[w].op \in Changes
      PROVE  /\ pc[w] \in {"audit", "reread"} =>
                    job[w].item.version <= table'[job[w].code].version
             /\ pc[w] = "preload" =>
                    view[w].version <= table'[job[w].code].version
             /\ answer[w] = "not_found" =>
                    job[w].code \in Codes /\ table'[job[w].code].deleted
  BY <1>1, <1>2, <1>6, Growth DEF Promised
<1> QED
  BY <1>3, <1>4, <1>5, <1>6 DEF Promised

\* A request that has yet to write promises nothing, nor does one that ends
\* otherwise than with "ok" or, if it is a change, with "not_found".
LEMMA NoPromise ==
    ASSUME NEW w \in Workers,
           \/ pc'[w] = "done" /\ answer'[w] \notin {"ok", "not_found"}
           \/ pc'[w] = "done" /\ answer'[w] # "ok" /\ job'[w].op \notin Changes
           \/ pc'[w] = "write" /\ answer'[w] = None
           \/ pc'[w] = "idle" /\ answer'[w] = None /\ job'[w].op \notin Changes
    PROVE  Promised(w)'
BY NoneAssumption DEF Promised, Responses

LEMMA NoJobNoChange == NoJob.op \notin Changes
BY NoneAssumption DEF NoJob, Changes, Ops, Admitted

LEMMA ArrivePromise ==
    ASSUME IInv, NEW w \in Workers, Promised(w), Arrive(w)
    PROVE  Promised(w)'
<1>1. pc \in [Workers -> {"idle", "write", "audit", "reread", "preload", "done"}]
      /\ answer \in [Workers -> Answers] /\ job \in [Workers -> Jobs]
  BY DEF IInv, Typed, RequestTyped
<1>2. ASSUME NEW a \in Responses \ {"ok"}, Refuse(w, a), pc[w] = "idle"
      PROVE  Promised(w)'
  BY <1>1, <1>2, NoPromise DEF Refuse, Answer, Goto, Promised
<1>3. ASSUME NEW j, Proceed(w, j), pc[w] = "idle"
      PROVE  Promised(w)'
  BY <1>1, <1>3, NoPromise DEF Proceed, Goto, Promised
<1>4. CASE TurnAway(w)
  BY <1>2, <1>4 DEF TurnAway, Responses
<1>5. ASSUME NEW c \in Codes, BeginGet(w, c)
      PROVE  Promised(w)'
  <2>1. job'[w].op = "get"
    BY <1>1, <1>5 DEF BeginGet, NoJob
  <2>2. (pc'[w] # "done" => answer'[w] = None) /\ pc'[w] # "idle"
    BY <1>1, <1>5 DEF BeginGet, Fetch, Answer, Goto, Promised
  <2> QED BY <2>1, <2>2 DEF Promised, Moves, Changes
<1>6. ASSUME NEW c \in Codes, NEW role \in Roles, BeginCreate(w, c, role)
      PROVE  Promised(w)'
  BY <1>2, <1>3, <1>6 DEF BeginCreate, Responses
<1>7. ASSUME NEW c \in Codes, NEW role \in Roles, BeginUpdate(w, c, role)
      PROVE  Promised(w)'
  BY <1>2, <1>3, <1>7 DEF BeginUpdate, Responses
<1>8. ASSUME NEW c \in Codes, NEW role \in Roles, BeginTransition(w, c, role)
      PROVE  Promised(w)'
  BY <1>2, <1>3, <1>8 DEF BeginTransition, Responses
<1>9. ASSUME NEW c \in Codes, NEW role \in Roles, BeginDelete(w, c, role)
      PROVE  Promised(w)'
  BY <1>2, <1>3, <1>9 DEF BeginDelete, Responses
<1> QED
  BY <1>4, <1>5, <1>6, <1>7, <1>8, <1>9 DEF Arrive

LEMMA ServePromise ==
    ASSUME IInv, RevisionChain, NEW w \in Workers, Promised(w), Serve(w)
    PROVE  Promised(w)'
<1> DEFINE j == job[w]
           c == job[w].code
<1>1. /\ pc \in [Workers -> {"idle", "write", "audit", "reread", "preload", "done"}]
      /\ answer \in [Workers -> Answers] /\ view \in [Workers -> Views]
      /\ job \in [Workers -> Jobs]
      /\ j \in Jobs /\ audit \in [Codes -> SUBSET AuditRows]
      /\ pc[w] \in {"write", "audit", "reread", "preload"} => c \in Codes
      /\ pc[w] \in {"write", "audit"} => j.op \in Writes
  BY DEF IInv, Typed, StoreTyped, RequestTyped
<1>2. j.item.version \in Nat /\ \A d \in Codes : table[d].version \in Nat
  BY <1>1 DEF Jobs, Rows, IInv, Typed, StoreTyped
<1>3. CASE Write(w)
  <2>1. /\ pc[w] = "write" /\ pc'[w] = "audit" /\ answer'[w] = None /\ job' = job
        /\ Commit(w)
    BY <1>1, <1>3 DEF Write, Commit, Goto, Promised
  <2>2. j.op \in Changes => 0 < j.item.version /\ j.item.version <= table'[c].version
    <3>1. j.op \in Changes => table'[c] = j.item /\ j.item.version = table[c].version + 1
      BY <2>1, CommitRow DEF Changes
    <3> QED BY <1>1, <1>2, <2>1, <3>1
  <2> QED BY <2>1, <2>2, NoneAssumption DEF Promised, Responses
<1>4. CASE WriteMisses(w)
  <2>1. Miss[j.op] # "ok" /\ (j.op \in Changes => Miss[j.op] # "not_found") /\ job' = job
    BY <1>1, <1>4 DEF WriteMisses, Miss, Writes, Changes
  <2> QED BY <1>1, <1>4, <2>1, NoPromise DEF WriteMisses, Answer, Goto
<1>5. CASE WriteAudit(w)
  <2>1. /\ pc[w] = "audit" /\ job' = job /\ table' = table /\ kind' = kind /\ c \in Codes
        /\ AuditRow(j) \in audit'[c] /\ AuditRow(j)' = AuditRow(j)
    BY <1>1, <1>5 DEF WriteAudit, AuditRow, Audited
  <2>2. CASE j.op = "create" /\ Created(w)
    BY <1>1, <2>2, NoPromise DEF Created, Answer, Goto
  <2>3. CASE j.op = "delete" /\ Answer(w, "ok") /\ UNCHANGED view
    BY <1>1, <2>1, <2>3 DEF Answer, Goto, Promised, Changes
  <2>4. CASE j.op \in {"update", "transition"} /\ Goto(w, "reread") /\ UNCHANGED <<answer, view>>
    BY <1>1, <2>1, <2>4, NoneAssumption DEF Goto, Promised, Changes, Responses
  <2> QED BY <1>5, <2>2, <2>3, <2>4 DEF WriteAudit
<1>6. CASE Reread(w)
  <2>1. /\ pc[w] = "reread" /\ UNCHANGED stored /\ job' = job /\ Fetch(w, c) /\ c \in Codes
        /\ AuditRow(j)' = AuditRow(j) /\ Versioned' = Versioned
    BY <1>1, <1>6 DEF Reread, stored, AuditRow, Audited, Versioned
  <2>2. CASE ~Live(table[c]) /\ Answer(w, "not_found")
    <3>1. pc'[w] = "done" /\ answer'[w] = "not_found"
      BY <1>1, <2>2 DEF Answer, Goto
    <3>2. j.op \in Changes => 0 < table[c].version
      BY <1>2, <2>1 DEF Promised
    <3> QED BY <2>1, <2>2, <3>1, <3>2 DEF Promised, Live, stored
  <2>3. CASE Live(table[c]) /\ view' = [view EXCEPT ![w].version = table[c].version]
             /\ Versioned /\ Goto(w, "preload") /\ UNCHANGED answer
    <3>1. /\ view'[w].version = table[c].version /\ pc'[w] = "preload"
          /\ answer'[w] = None
      BY <1>1, <2>1, <2>3 DEF Views, Goto, Promised
    <3> QED BY <1>2, <2>1, <3>1, NoneAssumption DEF Promised, stored, Responses
  <2>4. CASE Live(table[c]) /\ view' = [view EXCEPT ![w].version = table[c].version]
             /\ ~Versioned /\ Answer(w, "ok")
    <3>1. /\ view'[w].version = table[c].version
          /\ pc'[w] = "done" /\ answer'[w] = "ok"
      BY <1>1, <2>1, <2>4 DEF Views, Answer, Goto
    <3> QED BY <1>2, <2>1, <2>4, <3>1 DEF Promised, stored
  <2> QED BY <2>1, <2>2, <2>3, <2>4 DEF Fetch
<1>7. CASE Preload(w)
  <2>1. /\ pc[w] = "preload" /\ UNCHANGED stored /\ job' = job /\ c \in Codes
        /\ AuditRow(j)' = AuditRow(j) /\ Versioned' = Versioned
        /\ pc'[w] = "done" /\ answer'[w] = "ok"
    BY <1>1, <1>7 DEF Preload, stored, AuditRow, Audited, Versioned, Answer, Goto
  <2>2. /\ view'[w].version = view[w].version
        /\ view'[w].revisions = Len(revisions[c])
    BY <1>1, <1>7 DEF Preload, Views
  <2>3. Versioned => Len(revisions[c]) = table[c].version
    BY <2>1 DEF RevisionChain
  <2> QED BY <2>1, <2>2, <2>3 DEF Promised, stored
<1>8. CASE Finish(w)
  BY <1>1, <1>8, NoPromise, NoJobNoChange DEF Finish, Goto
<1> QED
  BY <1>3, <1>4, <1>5, <1>6, <1>7, <1>8 DEF Serve

LEMMA FailPromise ==
    ASSUME IInv, NEW w \in Workers, Promised(w), Fail(w)
    PROVE  Promised(w)'
<1>1. /\ pc \in [Workers -> {"idle", "write", "audit", "reread", "preload", "done"}]
      /\ answer \in [Workers -> Answers]
      /\ pc[w] \in {"write", "audit"} => job[w].op \in Writes
  BY DEF IInv, Typed, RequestTyped
<1>2. \A a \in Responses \ {"ok", "not_found"} : Answer(w, a) => Promised(w)'
  BY <1>1, NoPromise DEF Answer, Goto
<1>3. ASSUME pc[w] = "audit", AuditErrs(w), UNCHANGED <<table, job>>
      PROVE  Promised(w)'
  <2>1. CASE job[w].op = "update" /\ Goto(w, "reread") /\ UNCHANGED <<answer, view>>
    BY <1>1, <1>3, <2>1, NoneAssumption DEF Goto, Promised, Moves, Changes, Responses
  <2>2. CASE Created(w) \/ Answer(w, "error")
    BY <1>2, <2>2 DEF Created, Responses
  <2> QED BY <1>3, <2>1, <2>2 DEF AuditErrs
<1> QED
  BY <1>2, <1>3 DEF Fail, DbFails, WriteUnseen, AuditLost, AuditUnseen, Responses

LEMMA StepAnswers ==
    ASSUME IInv, RevisionChain, AnswerInv, [Next]_vars
    PROVE  AnswerInv'
<1>1. \A w \in Workers : Promised(w)
  BY DEF AnswerInv
<1> SUFFICES ASSUME NEW u \in Workers PROVE Promised(u)'
  BY DEF AnswerInv
<1>2. ASSUME NEW w \in Workers, Arrive(w) \/ Serve(w) \/ Fail(w)
      PROVE  Promised(u)'
  <2>1. CASE u = w
    BY <1>1, <1>2, <2>1, ArrivePromise, ServePromise, FailPromise
  <2>2. CASE u # w
    <3>1. Alone(w)
      <4>1. CASE Arrive(w)
        BY <4>1, ArriveRests DEF IInv
      <4>2. CASE Serve(w)
        BY <4>2 DEF Serve, Write, Commit, WriteMisses, WriteAudit, Created, Reread, Fetch,
                    Preload, Finish, Answer, Goto, Alone, IInv, Typed, RequestTyped
      <4>3. CASE Fail(w)
        BY <4>3 DEF Fail, DbFails, WriteUnseen, Commit, AuditLost, AuditUnseen,
                    AuditErrs, Created, Answer, Goto, Alone, IInv, Typed, RequestTyped
      <4> QED BY <1>2, <4>1, <4>2, <4>3
    <3> QED BY <1>1, <2>2, <3>1, StandingPromise DEF Alone
  <2> QED BY <2>1, <2>2
<1>3. CASE Crash
  BY <1>3, NoPromise, NoJobNoChange DEF Crash
<1>4. CASE UNCHANGED vars
  BY <1>1, <1>4, StandingPromise DEF vars
<1> QED
  BY <1>2, <1>3, <1>4 DEF Next

LEMMA AnswersHold == Spec => [](IInv /\ RevisionChain /\ AnswerInv)
<1>1. Init => IInv /\ RevisionChain /\ AnswerInv
  <2>1. Init => AnswerInv
    BY NoneAssumption, NoJobNoChange
    DEF Init, NoJob, AnswerInv, Promised, Moves, Changes, Responses
  <2> QED BY <2>1, InitInv, InitChain
<1>2. IInv /\ RevisionChain /\ AnswerInv /\ [Next]_vars
      => IInv' /\ RevisionChain' /\ AnswerInv'
  BY StepInv, StepChain, StepAnswers
<1> QED
  BY <1>1, <1>2, PTL DEF Spec

\* Whatever fails, "ok" to a transition or a deletion means that its audit row
\* is in the log.
THEOREM MovesAcknowledged == Spec => []AcknowledgedMoveAudited
<1>1. AnswerInv => AcknowledgedMoveAudited
  BY DEF AnswerInv, Promised, Moves, AcknowledgedMoveAudited
<1> QED
  BY <1>1, AnswersHold, PTL

\* The record in the answer to a change is the one it wrote or a later one, and
\* comes with its revisions, although others write between the three queries; a
\* change that stood is said not to have found its record only if it was removed.
THEOREM AnswersShowWrites == Spec => []AnswerShowsOwnWrite
<1>1. IInv /\ AnswerInv => AnswerShowsOwnWrite
  <2> SUFFICES ASSUME IInv, AnswerInv, NEW w \in Workers,
                      job[w].op \in {"update", "transition"}
               PROVE  /\ answer[w] = "ok"
                         => /\ view[w].version >= job[w].item.version
                            /\ Versioned => view[w].revisions >= view[w].version
                      /\ answer[w] = "not_found" => table[job[w].code].deleted
    BY DEF AnswerShowsOwnWrite
  <2>1. /\ job[w].item.version \in Nat
        /\ view[w].version \in Nat /\ view[w].revisions \in Nat
    BY DEF IInv, Typed, RequestTyped, Jobs, Rows, Views
  <2>2. /\ answer[w] = "ok" => /\ job[w].item.version <= view[w].version
                               /\ Versioned => view[w].version <= view[w].revisions
        /\ answer[w] = "not_found" => table[job[w].code].deleted
    BY DEF AnswerInv, Promised, Changes
  <2> QED BY <2>1, <2>2
<1> QED
  BY <1>1, AnswersHold, PTL

LEMMA StepConflicts ==
    ASSUME IInv, AnswerInv, ConflictsStand, ~Pipelining, [Next]_vars
    PROVE  ConflictsStand'
<1>1. /\ pc \in [Workers -> {"idle", "write", "audit", "reread", "preload", "done"}]
      /\ answer \in [Workers -> Answers] /\ job \in [Workers -> Jobs]
  BY DEF IInv, Typed, RequestTyped
<1> SUFFICES ASSUME NEW u \in Workers, answer'[u] = "conflict"
             PROVE  /\ job'[u].code \in Codes
                    /\ \/ table'[job'[u].code].deleted
                       \/ job'[u].expected < table'[job'[u].code].version
  BY DEF ConflictsStand
<1>2. CASE answer[u] = "conflict" /\ job'[u] = job[u]
  <2>1. job[u].expected \in Nat
    BY <1>1 DEF Jobs
  <2> QED BY <1>2, <2>1, Growth DEF ConflictsStand
<1>3. CASE WriteMisses(u)
  <2>1. /\ pc[u] = "write" /\ job' = job /\ UNCHANGED table
        /\ ~Matches(job[u]) /\ Miss[job[u].op] = "conflict"
    BY <1>1, <1>3 DEF WriteMisses, stored, Answer, Goto
  <2>2. Sound(job[u]) /\ Fresh(job[u]) /\ job[u].code \in Codes
    BY <2>1 DEF IInv, Sound
  <2>3. job[u].op \in {"update", "transition"}
    BY <2>1, <2>2 DEF Miss, Sound, Writes
  <2>4. /\ table[job[u].code].version \in Nat /\ job[u].snap.version \in Nat
        /\ job[u].expected \in Nat
    BY <1>1, <2>2, Growth DEF Jobs, Rows
  <2>5. ~(Live(table[job[u].code]) /\ table[job[u].code].version = job[u].expected)
    BY <2>1, <2>3 DEF Matches
  <2>6. /\ job[u].snap.version \in 1 .. table[job[u].code].version
        /\ job[u].expected <= job[u].snap.version
    BY <2>2, <2>3 DEF Fresh
  <2> QED BY <2>1, <2>2, <2>4, <2>5, <2>6 DEF Live
<1>4. ASSUME NEW w \in Workers, Arrive(w) \/ Serve(w) \/ Fail(w)
      PROVE  \/ answer[u] = "conflict" /\ job'[u] = job[u]
             \/ WriteMisses(u)
  <2>1. CASE Arrive(w)
    <3>1. Alone(w)
      BY <2>1, ArriveRests DEF IInv
    <3>2. ASSUME w = u PROVE FALSE
      <4>1. pc[u] = "idle" /\ answer[u] = None
        BY <2>1, <3>2 DEF Arrive, TurnAway, BeginGet, BeginCreate, BeginUpdate,
                          BeginTransition, BeginDelete, AnswerInv, Promised
      <4>2. None # "conflict"
        BY NoneAssumption DEF Responses
      <4>3. \A a : a # "conflict" => ~Answer(u, a)
        BY <1>1 DEF Answer
      <4>4. \A a : a # "conflict" => ~Refuse(u, a)
        BY <4>3 DEF Refuse
      <4>5. \A j : ~Proceed(u, j)
        BY <4>1, <4>2 DEF Proceed
      <4>6. ~TurnAway(u)
        BY <4>4 DEF TurnAway
      <4>7. \A c \in Codes : ~BeginGet(u, c)
        BY <4>1, <4>2, <4>3 DEF BeginGet, Fetch
      <4>8. \A c \in Codes, role \in Roles : ~BeginCreate(u, c, role)
        BY <4>4, <4>5 DEF BeginCreate
      <4>9. \A c \in Codes, role \in Roles : ~BeginUpdate(u, c, role)
        BY <4>4, <4>5 DEF BeginUpdate
      <4>10. \A c \in Codes, role \in Roles : ~BeginTransition(u, c, role)
        BY <4>4, <4>5 DEF BeginTransition
      <4>11. \A c \in Codes, role \in Roles : ~BeginDelete(u, c, role)
        BY <4>4, <4>5 DEF BeginDelete
      <4> QED
        BY <2>1, <3>2, <4>6, <4>7, <4>8, <4>9, <4>10, <4>11 DEF Arrive
    <3> QED BY <3>1, <3>2 DEF Alone
  <2>2. CASE Serve(w)
    BY <1>1, <2>2, NoneAssumption
    DEF Serve, Write, Commit, WriteMisses, WriteAudit, Created, Reread, Fetch,
        Preload, Finish, Answer, Goto, Responses
  <2>3. CASE Fail(w)
    BY <1>1, <2>3
    DEF Fail, DbFails, WriteUnseen, Commit, AuditLost, AuditUnseen, AuditErrs,
        Created, Answer, Goto
  <2> QED BY <1>4, <2>1, <2>2, <2>3
<1>5. CASE Crash
  BY <1>5, NoneAssumption DEF Crash, Responses
<1>6. CASE UNCHANGED vars
  BY <1>2, <1>6 DEF vars
<1> QED
  BY <1>2, <1>3, <1>4, <1>5, <1>6 DEF Next

\* If clients send only versions they have seen, "record changed; refresh and
\* retry" is never said of a record that has not changed, also while it is on
\* its way.
THEOREM ConflictsJustified ==
    ASSUME ~Pipelining
    PROVE  Spec => []ConflictJustified
<1>1. Init => ConflictsStand
  BY NoneAssumption DEF Init, ConflictsStand, Responses
<1>2. IInv /\ AnswerInv /\ ConflictsStand /\ [Next]_vars => ConflictsStand'
  BY StepConflicts
<1>3. IInv /\ ConflictsStand => ConflictJustified
  <2> SUFFICES ASSUME IInv, ConflictsStand, NEW w \in Workers, answer[w] = "conflict"
               PROVE  \/ table[job[w].code].deleted
                      \/ table[job[w].code].version > job[w].expected
    BY DEF ConflictJustified
  <2>1. job[w].code \in Codes /\ job[w].expected \in Nat
    BY DEF IInv, Typed, RequestTyped, Jobs, ConflictsStand
  <2>2. table[job[w].code].version \in Nat
    BY <2>1 DEF IInv, Typed, StoreTyped, Rows
  <2> QED BY <2>1, <2>2 DEF ConflictsStand
<1> QED
  BY <1>1, <1>2, <1>3, AnswersHold, PTL DEF Spec

\* "Released or quarantined decisions must not be edited in place": with clients
\* that send only versions they have seen, the code keeps this promise, although
\* the write does not repeat the check.
THEOREM ResolvedKept ==
    ASSUME ~Pipelining
    PROVE  Spec => ResolvedFrozen
<1>1. IInv /\ [Next]_vars
      => [\A c \in Codes :
             Live(table[c]) /\ Locked(table[c]) => table'[c].data = table[c].data]_vars
  <2> SUFFICES ASSUME IInv, [Next]_vars, NEW c \in Codes,
                      Live(table[c]), Locked(table[c])
               PROVE  table'[c].data = table[c].data
    OBVIOUS
  <2>1. CASE Keeping
    BY <2>1 DEF Keeping
  <2>2. ASSUME NEW w \in Workers, Commit(w), job[w].code = c
        PROVE  table'[c].data = table[c].data
    <3>1. pc[w] = "write" /\ Matches(job[w]) /\ Sound(job[w]) /\ table[c] \in Rows
      BY <2>2 DEF Commit, IInv, Typed, StoreTyped
    <3>2. CASE job[w].op = "delete"
      BY <2>2, <3>1, <3>2, CommitRow DEF Rows
    <3>3. CASE job[w].op = "create"
      BY <2>2, <3>1, <3>3 DEF Matches, Live
    <3>4. CASE job[w].op \in {"update", "transition"}
      <4>1. job[w].snap = table[c] /\ table'[c] = job[w].item
        BY <2>2, <3>1, <3>4, CommitFresh, CommitRow
      <4>2. job[w].op # "update"
        BY <3>1, <4>1 DEF Sound
      <4> QED BY <3>1, <3>4, <4>1, <4>2, RowFields DEF Sound
    <3> QED BY <3>1, <3>2, <3>3, <3>4 DEF Sound, Writes
  <2>3. ASSUME NEW w \in Workers, Commit(w), job[w].code # c
        PROVE  table'[c].data = table[c].data
    BY <2>3, CommitRow
  <2> QED BY <2>1, <2>2, <2>3, StepShape DEF IInv, Committing
<1> QED
  BY <1>1, InvHolds, PTL DEF Spec, ResolvedFrozen
=============================================================================
