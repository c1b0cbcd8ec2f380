--------------------------- MODULE WorkbenchProofs ---------------------------
(***************************************************************************)
(* Theorems about Workbench for any codes, searches and number of requests    *)
(* under way.  The properties rest on IInv, which follows a row from the list  *)
(* over the dialog into the request and the reload after it (Seen, Shown,      *)
(* Honest): what the tab holds is a version the record has had.               *)
(***************************************************************************)
EXTENDS Workbench, Policies, TLAPS

Statuses(k) == DOMAIN Policy[k].next

\* A row before and after some steps of the server.
Older(old, new) ==
    /\ old.version <= new.version
    /\ old.version = new.version => old.status = new.status

\* What was read of a row some time ago.
Saw(k, row, seen) ==
    /\ seen.status \in Statuses(k)
    /\ Older(seen, row)

Real(k, tab) == \A c \in Codes : tab[c].version > 0 => tab[c].status \in Statuses(k)

Seen(k, tab, rows) ==
    \A c \in Codes : rows[c].version > 0 => Saw(k, tab[c], rows[c])

Shown(k, tab, i) ==
    /\ i.code \in Codes /\ i.version > 0 /\ i.target # None
    /\ Saw(k, tab[i.code], i)

\* A move that was offered to a role.
Entitled(k, i, role) ==
    role # None =>
        /\ role \in RequireMinimumRole("operator")
        /\ i.target = nextPermittedStatus(k, i.status, canReview(role))

Overtaken(tab, i) == i.code \in Codes /\ tab[i.code].version > i.version

\* What a request says about the records.
Honest(k, tab, r) ==
    /\ r.op = "none" => r = Free
    /\ r.op = "create" => r.item.code \in Codes /\ r.item.target = None
    /\ r.op = "transition" => Shown(k, tab, r.item)
    /\ r.op = "transition" /\ r.answer = "none" => Entitled(k, r.item, r.token)
    /\ r.op = "transition" /\ r.answer = "ok" => Overtaken(tab, r.item)
    /\ r.op = "load" /\ r.item.target # None => Overtaken(tab, r.item)
    /\ r.op = "load" /\ r.answer = "ok" /\ r.item.target # None
       => \/ r.rows[r.item.code].version > r.item.version
          \/ r.rows[r.item.code] = NotListed
    /\ Seen(k, tab, r.rows)

Claims ==
    /\ Real(kind, table)
    /\ Seen(kind, table, items)
    /\ pending # NoItem => Shown(kind, table, pending) /\ Entitled(kind, pending, session)
    /\ \A s \in Slots : Honest(kind, table, req[s])

SessionInv ==
    /\ SessionMatchesToken
    /\ initialized => session # None
    /\ authLoading <=> login # None
    /\ mounted => ~authLoading
    /\ ~mounted => query = Home /\ pending = NoItem

Waiting == \E s \in Slots : req[s].op # "none"

ViewInv ==
    /\ loading => Waiting
    /\ newest # None => req[newest].op = "load"
    /\ mounted /\ newest # None /\ req[newest].item = NoItem
       => req[newest].query = query
    /\ mounted /\ shownOf \notin {query, None} => error \/ Waiting

IInv == TypeOK /\ SessionInv /\ ViewInv /\ Claims

\* What the page offers of an aggregate is in its graph, and what is offered to
\* those who may not review is not reviewed.
Permitted(k) ==
    \A s \in Statuses(k), reviewer \in BOOLEAN :
        LET t == nextPermittedStatus(k, s, reviewer) IN
        t # None => /\ t \in Policy[k].next[s]
                    /\ {s, t} \cap Policy[k].reviewed # {} => reviewer

\* The assumption of the theorems; ServicesAgree shows it of this repository.
Agreeing == \A k \in Kinds : Permitted(k)

-----------------------------------------------------------------------------
(* The page and the services *)

\* The table of moves in the page and the four services agree: every move the
\* workbench offers is in the transition graph of its service, and those of
\* reviewed statuses are offered to reviewers and admins only.
THEOREM OffersPermitted ==
    ASSUME NEW k \in DOMAIN ServicePolicy,
           Policy[k].next = ServicePolicy[k].next,
           Policy[k].reviewed = ServicePolicy[k].reviewed
    PROVE  Permitted(k)
<1>1. CASE k = "PressUnit"
  BY <1>1 DEF Permitted, Statuses, nextPermittedStatus, OfferedTo, ServicePolicy,
              PressUnitPolicy, PressUnitTransitions
<1>2. CASE k = "PrintRun"
  BY <1>2 DEF Permitted, Statuses, nextPermittedStatus, OfferedTo, ServicePolicy,
              PrintRunPolicy, PrintRunTransitions
<1>3. CASE k = "ColorProof"
  BY <1>3 DEF Permitted, Statuses, nextPermittedStatus, OfferedTo, ServicePolicy,
              ColorProofPolicy, ColorProofTransitions
<1>4. CASE k = "ReleaseDecision"
  BY <1>4 DEF Permitted, Statuses, nextPermittedStatus, OfferedTo, ServicePolicy,
              ReleaseDecisionPolicy, ReleaseDecisionTransitions
<1> QED BY <1>1, <1>2, <1>3, <1>4 DEF ServicePolicy

LEMMA ServicesAgree ==
    ASSUME Kinds \subseteq DOMAIN ServicePolicy,
           \A k \in Kinds : /\ Policy[k].next = ServicePolicy[k].next
                            /\ Policy[k].reviewed = ServicePolicy[k].reviewed
    PROVE  Agreeing
BY OffersPermitted DEF Agreeing

-----------------------------------------------------------------------------
(* The server *)

LEMMA SawLater ==
    ASSUME NEW k, NEW old, NEW new, NEW seen,
           old.version \in Nat, new.version \in Nat, seen.version \in Nat,
           Older(old, new), Saw(k, old, seen)
    PROVE  Saw(k, new, seen)
BY DEF Older, Saw

TableTyped(k, tab) ==
    tab \in [Codes -> [version : Nat, status : Statuses(k) \cup {None},
                      data : Payloads \cup {None}, deleted : BOOLEAN]]

\* A write of one record.
LEMMA Putting ==
    ASSUME TypeOK, Real(kind, table), NEW c \in Codes, NEW row, Server!Put(c, row),
           row \in [version : Nat, status : Statuses(kind),
                    data : Payloads \cup {None}, deleted : BOOLEAN],
           Older(table[c], row)
    PROVE  /\ kind' = kind /\ TableTyped(kind, table') /\ Real(kind, table')
           /\ \A d \in Codes : Older(table[d], table'[d])
<1>1. kind' = kind /\ table' = [table EXCEPT ![c] = row] BY DEF Server!Put
<1>2. TableTyped(kind, table) BY DEF TypeOK, TableTyped, Statuses
<1>3. \A d \in Codes : Older(table[d], table[d]) BY <1>2 DEF Older, TableTyped
<1> QED BY <1>1, <1>2, <1>3 DEF TableTyped, Real

LEMMA ServerNext ==
    ASSUME TypeOK, Real(kind, table), NEW c \in Codes,
           Server!Create(c) \/ Server!Edit(c) \/ Server!Move(c) \/ Server!Remove(c)
    PROVE  /\ kind' = kind /\ TableTyped(kind, table') /\ Real(kind, table')
           /\ \A d \in Codes : Older(table[d], table'[d])
<1> DEFINE Typed(row) ==
       row \in [version : Nat, status : Statuses(kind),
                data : Payloads \cup {None}, deleted : BOOLEAN]
<1>1. /\ table[c] \in [version : Nat, status : Statuses(kind) \cup {None},
                       data : Payloads \cup {None}, deleted : BOOLEAN]
      /\ table[c].version > 0 => table[c].status \in Statuses(kind)
  BY DEF TypeOK, Statuses, Real
<1>2. /\ Policy[kind].initial \in Statuses(kind)
      /\ \A s \in Statuses(kind) : Server!Graph[s] \subseteq Statuses(kind)
  BY PolicyAssumption DEF TypeOK, Statuses, Server!Graph
<1>3. \E row : Server!Put(c, row) /\ Typed(row) /\ Older(table[c], row)
  <2>1. CASE Server!Create(c)
    <3>1. PICK d \in Payloads : Server!Put(c, Server!Row(1, Policy[kind].initial, d))
      BY <2>1 DEF Server!Create
    <3>2. Typed(Server!Row(1, Policy[kind].initial, d)) BY <1>2 DEF Server!Row
    <3>3. Older(table[c], Server!Row(1, Policy[kind].initial, d))
      BY <2>1 DEF Server!Create, Server!Row, Older
    <3> QED BY <3>1, <3>2, <3>3
  <2>2. CASE Server!Edit(c)
    <3>1. PICK d \in Payloads :
             Server!Put(c, Server!Row(table[c].version + 1, table[c].status, d))
      BY <2>2 DEF Server!Edit
    <3>2. Typed(Server!Row(table[c].version + 1, table[c].status, d))
      BY <1>1, <2>2 DEF Server!Row, Server!Edit, Server!Live
    <3>3. Older(table[c], Server!Row(table[c].version + 1, table[c].status, d))
      BY <1>1 DEF Server!Row, Older
    <3> QED BY <3>1, <3>2, <3>3
  <2>3. CASE Server!Move(c)
    <3>1. PICK t \in Server!Graph[table[c].status] :
             Server!Put(c, Server!Row(table[c].version + 1, t, table[c].data))
      BY <2>3 DEF Server!Move
    <3>2. Typed(Server!Row(table[c].version + 1, t, table[c].data))
      BY <1>1, <1>2, <2>3 DEF Server!Row, Server!Move, Server!Live
    <3>3. Older(table[c], Server!Row(table[c].version + 1, t, table[c].data))
      BY <1>1 DEF Server!Row, Older
    <3> QED BY <3>1, <3>2, <3>3
  <2>4. CASE Server!Remove(c)
    <3>1. Server!Put(c, [table[c] EXCEPT !.deleted = TRUE]) BY <2>4 DEF Server!Remove
    <3>2. Typed([table[c] EXCEPT !.deleted = TRUE])
      BY <1>1, <2>4 DEF Server!Remove, Server!Live
    <3>3. Older(table[c], [table[c] EXCEPT !.deleted = TRUE]) BY <1>1 DEF Older
    <3> QED BY <3>1, <3>2, <3>3
  <2> QED BY <2>1, <2>2, <2>3, <2>4
<1> QED BY <1>3, Putting

\* What the server does in a step, and leaves of a request it does not answer.
ServerMoves ==
    /\ kind' = kind /\ TableTyped(kind, table') /\ Real(kind, table')
    /\ \A c \in Codes : Older(table[c], table'[c])

LEMMA ServerQuiet ==
    ASSUME TypeOK, Real(kind, table), UNCHANGED server
    PROVE  ServerMoves
BY DEF TypeOK, ServerMoves, TableTyped, Statuses, Real, Older, server

\* A request that is answered moves the record only from the version and the
\* status that were shown, and then to the target.
LEMMA Moving ==
    ASSUME TypeOK, Claims, NEW s \in Slots, req[s].op = "transition",
           req[s].answer = "none", Verdict(req[s]) = "ok"
    PROVE  LET i == req[s].item IN
           /\ i.code \in Codes /\ table[i.code].version = i.version
           /\ table[i.code].status = i.status /\ i.version \in Nat
           /\ i.target \in Statuses(kind)
<1> DEFINE i == req[s].item
<1>1. i.code \in Codes /\ Saw(kind, table[i.code], i)
  BY DEF Claims, Honest, Shown
<1>2. table[i.code].version = i.version /\ i.target \in Policy[kind].next[table[i.code].status]
  BY DEF Verdict, MoveVerdict
<1>3. table[i.code].status = i.status /\ i.status \in Statuses(kind)
  BY <1>1, <1>2 DEF Saw, Older
<1>4. i.version \in Nat BY DEF TypeOK, Requests, Items
<1>5. i.target \in Statuses(kind)
  BY <1>2, <1>3, PolicyAssumption DEF Statuses, TypeOK
<1> QED BY <1>1, <1>2, <1>3, <1>4, <1>5

LEMMA Handling ==
    ASSUME TypeOK, Claims, NEW s \in Slots, Handle(s)
    PROVE  /\ ServerMoves
           /\ req[s].op = "transition" /\ req'[s].answer = "ok"
              => LET i == req[s].item IN
                 /\ table[i.code].status = i.status
                 /\ table'[i.code].status = i.target
                 /\ Overtaken(table', i)
<1> DEFINE r == req[s]
           i == r.item
<1>1. PICK v \in {Verdict(r), "unauthorized"} :
         /\ r.op # "none" /\ r.answer = "none"
         /\ req' = [req EXCEPT ![s] =
                Answered(r, IF v \in {"ok", "unauthorized"} THEN v ELSE "failed",
                         IF v = "ok" /\ r.op = "load" THEN Listed ELSE Nothing)]
         /\ \/ r.op = "create" /\ v = "ok" /\ Server!Create(i.code)
            \/ /\ r.op = "transition" /\ v = "ok"
               /\ Server!Put(i.code, Server!Row(i.version + 1, i.target, table[i.code].data))
            \/ (r.op = "load" \/ v # "ok") /\ UNCHANGED <<kind, table>>
  BY DEF Handle
<1>2. r \in Requests /\ Honest(kind, table, r) /\ Real(kind, table)
  BY DEF TypeOK, Claims
<1>3. req'[s].answer = IF v \in {"ok", "unauthorized"} THEN v ELSE "failed"
  BY <1>1, <1>2 DEF TypeOK, Answered, Requests
<1>4. CASE r.op = "create" /\ v = "ok" /\ Server!Create(i.code)
  <2>1. i.code \in Codes BY <1>2, <1>4 DEF Honest
  <2> QED BY <1>2, <1>4, <2>1, ServerNext DEF ServerMoves
<1>5. CASE /\ r.op = "transition" /\ v = "ok"
           /\ Server!Put(i.code, Server!Row(i.version + 1, i.target, table[i.code].data))
  <2> DEFINE row == Server!Row(i.version + 1, i.target, table[i.code].data)
  <2>1. /\ i.code \in Codes /\ table[i.code].version = i.version
        /\ table[i.code].status = i.status /\ i.version \in Nat
        /\ i.target \in Statuses(kind)
    BY <1>1, <1>5, Moving
  <2>2. /\ row \in [version : Nat, status : Statuses(kind),
                    data : Payloads \cup {None}, deleted : BOOLEAN]
        /\ Older(table[i.code], row) /\ row.version > i.version /\ row.status = i.target
    BY <2>1 DEF Server!Row, Older, TypeOK
  <2>3. ServerMoves
    <3> HIDE DEF row
    <3> QED BY <1>2, <1>5, <2>1, <2>2, Putting DEF ServerMoves, row
  <2>4. table'[i.code] = row BY <1>5, <2>1 DEF Server!Put, TypeOK
  <2> QED BY <2>1, <2>2, <2>3, <2>4 DEF Overtaken
<1>6. CASE (r.op = "load" \/ v # "ok") /\ UNCHANGED <<kind, table>>
  <2>1. ServerMoves BY <1>2, <1>6, ServerQuiet DEF server
  <2>2. ~(r.op = "transition" /\ req'[s].answer = "ok") BY <1>3, <1>6
  <2> QED BY <2>1, <2>2
<1> QED BY <1>1, <1>4, <1>5, <1>6

\* All steps but those of the server leave its records alone.
LEMMA ServerSteps ==
    ASSUME IInv, [Next]_vars
    PROVE  ServerMoves
<1>1. TypeOK /\ Claims /\ Real(kind, table) BY DEF IInv, Claims
<1>2. CASE UNCHANGED server BY <1>1, <1>2, ServerQuiet
<1>3. CASE \E s \in Slots : Handle(s) BY <1>1, <1>3, Handling
<1>4. CASE Others
  <2>1. PICK c \in Codes :
           Server!Create(c) \/ Server!Edit(c) \/ Server!Move(c) \/ Server!Remove(c)
    BY <1>4 DEF Others, Server!Next
  <2> QED BY <1>1, <2>1, ServerNext DEF ServerMoves
<1> QED
  BY <1>2, <1>3, <1>4
  DEF Next, vars, Reload, LoginAnswered, LoginFails, Cancel, switchRole, Propose, Mount,
      Confirm, Lost, Deliver, LoadArrives, LoadFails, WriteArrives, WriteFails, Submit,
      createRecord

-----------------------------------------------------------------------------
(* Types *)

LEMMA FreeTyped ==
    /\ NoItem \in Items /\ Nothing \in [Codes -> ListedRows] /\ Free \in Requests
    /\ \A c \in Codes : NewItem(c) \in Items
BY TabAssumption
   DEF TabAssumption, NewItem, NoItem, Items, Nothing, NotListed, ListedRows, Free, Requests

LEMMA RequestTyped ==
    ASSUME TypeOK, NEW op \in {"load", "create", "transition"}, NEW q \in Searches,
           NEW item \in Items, NEW mine \in BOOLEAN
    PROVE  Request(op, q, item, mine) \in Requests
BY FreeTyped DEF TypeOK, Request, Requests

LEMMA AnsweredTyped ==
    ASSUME NEW r \in Requests, NEW a \in {"none", "ok", "unauthorized", "failed"},
           NEW rows \in [Codes -> ListedRows]
    PROVE  Answered(r, a, rows) \in Requests
BY DEF Answered, Requests

LEMMA ListedTyped == ASSUME TypeOK PROVE Listed \in [Codes -> ListedRows]
BY DEF TypeOK, Listed, ListedRows, NotListed

LEMMA FreshTyped ==
    ASSUME NEW found \in Roles \cup {None}
    PROVE  /\ Fresh(found).session \in Roles \cup {None}
           /\ Fresh(found).authLoading \in BOOLEAN /\ Fresh(found).initialized \in BOOLEAN
           /\ Fresh(found).login \in Roles \cup {None}
BY DEF Fresh, Roles, roleRank

\* What is offered is a status.
LEMMA ProposeTyped ==
    ASSUME Agreeing, TypeOK, Seen(kind, table, items), NEW c \in Codes, Propose(c)
    PROVE  /\ pending' \in Items
           /\ items[c].status \in Statuses(kind) /\ items[c].version > 0
           /\ pending'.target \in Statuses(kind) /\ pending'.target # None
<1> DEFINE target == nextPermittedStatus(kind, items[c].status, canReview(session))
<1>1. items[c].version \in Nat \ {0} /\ items[c] \in ListedRows
  BY DEF Propose, TypeOK
<1>2. items[c].status \in Statuses(kind) BY <1>1 DEF Seen, Saw
<1>3. target # None /\ canReview(session) \in BOOLEAN
  BY DEF Propose, canReview
<1>4. target \in Policy[kind].next[items[c].status]
  BY <1>2, <1>3 DEF Agreeing, Permitted, TypeOK
<1>5. target \in Statuses(kind)
  BY <1>2, <1>4, PolicyAssumption DEF Statuses, TypeOK
<1>6. pending' = [code |-> c, version |-> items[c].version,
                  status |-> items[c].status, target |-> target]
  BY DEF Propose
<1> QED BY <1>1, <1>2, <1>3, <1>5, <1>6 DEF Items, Statuses

LEMMA InitTyped == ASSUME Init PROVE TypeOK
<1>1. kind \in Kinds BY DEF Init
<1>2. TableTyped(kind, table)
  <2> DEFINE Rows == [version : Nat, status : Statuses(kind) \cup {None},
                      data : Payloads \cup {None}, deleted : BOOLEAN]
  <2>1. Server!NoRow \in Rows BY DEF Server!NoRow
  <2>2. \A s \in Policy[kind].seeds, d \in Payloads : Server!Row(1, s, d) \in Rows
    BY <1>1, PolicyAssumption DEF Server!Row, Statuses
  <2>3. table \in [Codes -> Rows]
    <3> HIDE DEF Rows
    <3> QED BY <2>1, <2>2 DEF Init
  <2> QED BY <2>3 DEF TableTyped
<1>3. stored \in Roles \cup {None} BY TabAssumption DEF Init, TabAssumption
<1>4. /\ session \in Roles \cup {None} /\ authLoading \in BOOLEAN
      /\ initialized \in BOOLEAN /\ login \in Roles \cup {None}
  BY <1>3, FreshTyped DEF Init
<1>5. req \in [Slots -> Requests] /\ items \in [Codes -> ListedRows] /\ pending \in Items
  BY FreeTyped DEF Init
<1>6. Home \in Searches BY TabAssumption DEF TabAssumption
<1> QED BY <1>1, <1>2, <1>3, <1>4, <1>5, <1>6 DEF Init, TypeOK, TableTyped, Statuses

\* The requests of a step.
LEMMA RequestsTyped ==
    ASSUME IInv, [Next]_vars
    PROVE  req' \in [Slots -> Requests]
<1> USE FreeTyped, RequestTyped DEF IInv
<1>1. req \in [Slots -> Requests] /\ Home \in Searches
  BY TabAssumption DEF TypeOK, TabAssumption
<1>2. CASE UNCHANGED req BY <1>1, <1>2
<1>3. CASE Reload BY <1>3 DEF Reload
<1>4. ASSUME NEW role \in Users, switchRole(role) PROVE req' \in [Slots -> Requests]
  <2>1. \A r \in Requests : [r EXCEPT !.mine = FALSE] \in Requests BY DEF Requests
  <2> QED BY <1>1, <1>4, <2>1 DEF switchRole
<1>5. ASSUME NEW s \in Slots, Mount(s) PROVE req' \in [Slots -> Requests]
  <2>1. Request("load", Home, NoItem, FALSE) \in Requests BY <1>1
  <2> QED BY <1>1, <1>5, <2>1 DEF Mount, Load, Send
<1>6. ASSUME NEW s \in Slots, NEW q \in Searches, Submit(s, q)
      PROVE  req' \in [Slots -> Requests]
  <2>1. Request("load", q, NoItem, FALSE) \in Requests BY <1>1
  <2> QED BY <1>1, <1>6, <2>1 DEF Submit, Load, Send
<1>7. ASSUME NEW s \in Slots, Confirm(s) PROVE req' \in [Slots -> Requests]
  <2>1. Request("transition", Home, pending, TRUE) \in Requests BY <1>1 DEF TypeOK
  <2> QED BY <1>1, <1>7, <2>1 DEF Confirm, Send
<1>8. ASSUME NEW s \in Slots, NEW c \in Codes, createRecord(s, c)
      PROVE  req' \in [Slots -> Requests]
  <2>1. Request("create", Home, NewItem(c), FALSE) \in Requests BY <1>1
  <2> QED BY <1>1, <1>8, <2>1 DEF createRecord, Send
<1>9. ASSUME NEW s \in Slots, Handle(s) PROVE req' \in [Slots -> Requests]
  <2>1. PICK a \in {"ok", "unauthorized", "failed"}, rows \in [Codes -> ListedRows] :
           req' = [req EXCEPT ![s] = Answered(req[s], a, rows)]
    BY <1>9, ListedTyped DEF Handle
  <2>2. Answered(req[s], a, rows) \in Requests BY <1>1, AnsweredTyped
  <2> QED BY <1>1, <2>1, <2>2
<1>10. ASSUME NEW s \in Slots, Lost(s) PROVE req' \in [Slots -> Requests]
  <2>1. Answered(req[s], "failed", Nothing) \in Requests BY <1>1, AnsweredTyped
  <2> QED BY <1>1, <1>10, <2>1 DEF Lost
<1>11. ASSUME NEW s \in Slots, Deliver(s) PROVE req' \in [Slots -> Requests]
  <2>1. Request("load", Home, req[s].item, req[s].mine) \in Requests
    BY <1>1 DEF Requests
  <2> QED
    BY <1>1, <1>11, <2>1 DEF Deliver, LoadArrives, LoadFails, WriteArrives, WriteFails
<1> QED
  BY <1>2, <1>3, <1>4, <1>5, <1>6, <1>7, <1>8, <1>9, <1>10, <1>11
  DEF Next, vars, LoginAnswered, LoginFails, Others, Cancel, Propose

LEMMA SessionTyped ==
    ASSUME IInv, [Next]_vars
    PROVE  /\ stored' \in Roles \cup {None} /\ session' \in Roles \cup {None}
           /\ authLoading' \in BOOLEAN /\ initialized' \in BOOLEAN
           /\ login' \in Roles \cup {None}
<1>1. /\ stored \in Roles \cup {None} /\ session \in Roles \cup {None}
      /\ authLoading \in BOOLEAN /\ initialized \in BOOLEAN /\ login \in Roles \cup {None}
  BY DEF IInv, TypeOK
<1>2. CASE UNCHANGED auth BY <1>1, <1>2 DEF auth
<1>3. CASE Reload BY <1>1, <1>3, FreshTyped DEF Reload
<1>4. CASE LoginAnswered \/ LoginFails BY <1>1, <1>4 DEF LoginAnswered, LoginFails
<1>5. CASE \E role \in Users : switchRole(role)
  BY <1>1, <1>5, TabAssumption DEF TabAssumption, switchRole
<1>6. CASE \E s \in Slots : Mount(s)
  BY <1>1, <1>6 DEF Mount, initialize, auth, Roles, roleRank
<1>7. CASE \E s \in Slots : Deliver(s)
  BY <1>1, <1>7 DEF Deliver, LoadArrives, LoadFails, WriteArrives, WriteFails, Discard, auth
<1> QED
  BY <1>2, <1>3, <1>4, <1>5, <1>6, <1>7
  DEF Next, vars, Others, Cancel, Propose, Confirm, Handle, Lost, Submit, createRecord

LEMMA PageTyped ==
    ASSUME Agreeing, IInv, [Next]_vars
    PROVE  mounted' \in BOOLEAN /\ query' \in Searches /\ pending' \in Items
<1>1. /\ mounted \in BOOLEAN /\ query \in Searches /\ pending \in Items
      /\ NoItem \in Items /\ Home \in Searches /\ TypeOK /\ Seen(kind, table, items)
  BY FreeTyped, TabAssumption DEF TabAssumption, IInv, TypeOK, Claims
<1>2. CASE UNCHANGED page BY <1>1, <1>2 DEF page
<1>3. CASE Reload BY <1>1, <1>3 DEF Reload
<1>4. CASE Cancel BY <1>1, <1>4 DEF Cancel
<1>5. CASE \E role \in Users : switchRole(role) BY <1>1, <1>5 DEF switchRole
<1>6. CASE \E s \in Slots : Mount(s) BY <1>1, <1>6 DEF Mount
<1>7. CASE \E s \in Slots : Deliver(s)
  BY <1>1, <1>7 DEF Deliver, LoadArrives, LoadFails, WriteArrives, WriteFails, Close, page
<1>8. CASE \E c \in Codes : Propose(c) BY <1>1, <1>8, ProposeTyped DEF Propose
<1>9. CASE \E s \in Slots, q \in Searches : Submit(s, q) BY <1>1, <1>9 DEF Submit
<1> QED
  BY <1>2, <1>3, <1>4, <1>5, <1>6, <1>7, <1>8, <1>9
  DEF Next, vars, Others, LoginAnswered, LoginFails, Confirm, Handle, Lost, createRecord

LEMMA StoreTyped ==
    ASSUME IInv, [Next]_vars
    PROVE  /\ items' \in [Codes -> ListedRows] /\ loading' \in BOOLEAN /\ error' \in BOOLEAN
           /\ newest' \in Slots \cup {None} /\ shownOf' \in Searches \cup {None}
<1>1. /\ items \in [Codes -> ListedRows] /\ loading \in BOOLEAN /\ error \in BOOLEAN
      /\ newest \in Slots \cup {None} /\ shownOf \in Searches \cup {None}
      /\ Nothing \in [Codes -> ListedRows] /\ req \in [Slots -> Requests]
  BY FreeTyped DEF IInv, TypeOK
<1>2. CASE UNCHANGED <<store, view>> BY <1>1, <1>2 DEF store, view
<1>3. CASE Reload BY <1>1, <1>3 DEF Reload
<1>4. CASE \E s \in Slots : Mount(s) BY <1>1, <1>4 DEF Mount, Load, Send
<1>5. CASE \E s \in Slots : Confirm(s) BY <1>1, <1>5 DEF Confirm, Send, view
<1>6. CASE \E s \in Slots : Deliver(s)
  <2>1. \A s \in Slots : req[s].rows \in [Codes -> ListedRows] /\ req[s].query \in Searches
    BY <1>1 DEF Requests
  <2> QED
    BY <1>1, <1>6, <2>1
    DEF Deliver, LoadArrives, LoadFails, WriteArrives, WriteFails, view
<1>7. CASE \E s \in Slots, q \in Searches : Submit(s, q)
  BY <1>1, <1>7 DEF Submit, Load, Send
<1>8. CASE \E s \in Slots, c \in Codes : createRecord(s, c)
  BY <1>1, <1>8 DEF createRecord, Send, view
<1> QED
  BY <1>2, <1>3, <1>4, <1>5, <1>6, <1>7, <1>8
  DEF Next, vars, Others, Cancel, Propose, LoginAnswered, LoginFails, Handle, Lost, switchRole

LEMMA Typing ==
    ASSUME Agreeing, IInv, [Next]_vars
    PROVE  TypeOK'
<1>1. kind' = kind /\ TableTyped(kind, table') /\ kind \in Kinds
  BY ServerSteps DEF ServerMoves, IInv, TypeOK
<1>2. Requests' = Requests /\ Items' = Items /\ ListedRows' = ListedRows
  BY <1>1 DEF Requests, Items, ListedRows
<1> QED
  BY <1>1, <1>2, RequestsTyped, SessionTyped, PageTyped, StoreTyped
  DEF TypeOK, TableTyped, Statuses

-----------------------------------------------------------------------------
(* The session *)

LEMMA InitSession == ASSUME Init PROVE SessionInv
BY TabAssumption DEF TabAssumption, Roles, roleRank, Init, Fresh, SessionInv, SessionMatchesToken

LEMMA SessionKept == ASSUME IInv, [Next]_vars PROVE SessionInv'
<1> USE DEF SessionInv, SessionMatchesToken
<1>1. SessionInv BY DEF IInv
<1>2. CASE UNCHANGED <<auth, page>> BY <1>1, <1>2 DEF auth, page
<1>3. CASE Reload
  BY <1>1, <1>3, TabAssumption DEF TabAssumption, Roles, roleRank, Reload, Fresh
<1>4. CASE LoginAnswered \/ LoginFails
  BY <1>1, <1>4, TabAssumption DEF TabAssumption, LoginAnswered, LoginFails, page, IInv, TypeOK
<1>5. CASE \E role \in Users : switchRole(role)
  BY <1>1, <1>5, TabAssumption DEF TabAssumption, switchRole
<1>6. CASE \E s \in Slots : Mount(s)
  BY <1>1, <1>6, TabAssumption DEF TabAssumption, Mount, initialize, auth, Roles, roleRank
<1>7. CASE \E s \in Slots : Deliver(s)
  BY <1>1, <1>7
  DEF Deliver, LoadArrives, LoadFails, WriteArrives, WriteFails, Close, Discard, auth, page
<1>8. CASE Cancel \/ \E c \in Codes : Propose(c)
  BY <1>1, <1>8 DEF Cancel, Propose, auth
<1>9. CASE \E s \in Slots, q \in Searches : Submit(s, q) BY <1>1, <1>9 DEF Submit, auth
<1> QED
  BY <1>2, <1>3, <1>4, <1>5, <1>6, <1>7, <1>8, <1>9
  DEF Next, vars, Others, Confirm, Handle, Lost, createRecord

-----------------------------------------------------------------------------
(* The table of the page *)

LEMMA InitView == ASSUME Init PROVE ViewInv
BY DEF Init, ViewInv

\* A new request of slot s.
LEMMA Sending ==
    ASSUME TypeOK, NEW s \in Slots, NEW r, Send(s, r), r.op # "none"
    PROVE  /\ Waiting' /\ req'[s] = r /\ ~error'
           /\ \A t \in Slots : req[t].op # "none" => t # s /\ req'[t] = req[t]
BY DEF TypeOK, Send, Waiting, Free

\* The server answers: requests keep what they are about.
LEMMA Replying ==
    ASSUME TypeOK, NEW s \in Slots, Handle(s) \/ Lost(s)
    PROVE  \A t \in Slots : /\ req'[t].op = req[t].op /\ req'[t].item = req[t].item
                            /\ req'[t].query = req[t].query
<1>1. PICK a, rows : req' = [req EXCEPT ![s] = Answered(req[s], a, rows)]
  BY DEF Handle, Lost
<1>2. Answered(req[s], a, rows) = [req[s] EXCEPT !.answer = a, !.token = None, !.rows = rows]
  BY DEF Answered
<1>3. req[s] \in Requests /\ req \in [Slots -> Requests] BY DEF TypeOK
<1>4. /\ Answered(req[s], a, rows).op = req[s].op
      /\ Answered(req[s], a, rows).item = req[s].item
      /\ Answered(req[s], a, rows).query = req[s].query
  BY <1>2, <1>3 DEF Requests
<1> QED BY <1>1, <1>3, <1>4

LEMMA ViewKept == ASSUME IInv, [Next]_vars PROVE ViewInv'
<1>1. TypeOK /\ ViewInv /\ SessionInv /\ (newest = None \/ newest \in Slots)
  BY DEF IInv, TypeOK
<1> USE DEF ViewInv
<1>2. CASE UNCHANGED <<loading, error, req, view, mounted, query>>
  BY <1>1, <1>2 DEF Waiting, view
<1>3. CASE Reload BY <1>3 DEF Reload
<1>4. ASSUME NEW role \in Users, switchRole(role) PROVE ViewInv'
  <2>1. \A t \in Slots : req'[t].op = req[t].op
    <3>1. \A r \in Requests : [r EXCEPT !.mine = FALSE].op = r.op BY DEF Requests
    <3> QED BY <1>1, <1>4, <3>1 DEF switchRole, TypeOK
  <2>2. Waiting => Waiting' BY <2>1 DEF Waiting
  <2>3. ~mounted' /\ loading' = loading /\ newest' = newest
    BY <1>4 DEF switchRole, store, view
  <2> QED BY <1>1, <2>1, <2>2, <2>3
<1>5. ASSUME NEW s \in Slots, NEW q, Mount(s) \/ Submit(s, q) PROVE ViewInv'
  <2>1. PICK p \in {Home, q} : Load(s, p) /\ (mounted' => query' = p)
    BY <1>1, <1>5 DEF Mount, Submit, SessionInv
  <2> DEFINE r == Request("load", p, NoItem, FALSE)
  <2>2. r.op = "load" /\ r.query = p BY DEF Request
  <2>3. Waiting' /\ req'[s] = r
    <3> HIDE DEF r
    <3> QED BY <1>1, <2>1, <2>2, Sending DEF Load, r
  <2> QED BY <2>1, <2>2, <2>3 DEF Load
<1>6. ASSUME NEW s \in Slots, NEW c, Confirm(s) \/ createRecord(s, c)
      PROVE  ViewInv'
  <2>1. PICK r : Send(s, r) /\ r.op # "none" /\ UNCHANGED <<view, page>>
    BY <1>6 DEF Confirm, createRecord, Request, page
  <2>2. Waiting' /\ \A t \in Slots : req[t].op # "none" => req'[t] = req[t]
    BY <1>1, <2>1, Sending
  <2> QED BY <1>1, <2>1, <2>2 DEF view, page
<1>7. ASSUME NEW s \in Slots, Handle(s) \/ Lost(s) PROVE ViewInv'
  <2>1. UNCHANGED <<page, store, view>> BY <1>7 DEF Handle, Lost
  <2> QED BY <1>1, <1>7, <2>1, Replying DEF page, store, view, Waiting
<1>8. ASSUME NEW s \in Slots, LoadArrives(s) PROVE ViewInv'
  <2>1. /\ ~loading' /\ mounted' = mounted /\ query' = query /\ error' = error
        /\ \A t \in Slots : t # s => req'[t] = req[t]
    BY <1>1, <1>8 DEF LoadArrives, TypeOK
  <2>2. newest' # None => newest' = newest /\ newest # s
    BY <1>8 DEF LoadArrives
  <2>3. mounted => shownOf' \in {query, None}
    BY <1>1, <1>8, TabAssumption DEF LoadArrives, TabAssumption
  <2> QED BY <1>1, <2>1, <2>2, <2>3
<1>9. ASSUME NEW s \in Slots, LoadFails(s) \/ WriteFails(s) PROVE ViewInv'
  <2>1. /\ ~loading' /\ error' /\ mounted' = mounted /\ query' = query
        /\ \A t \in Slots : t # s => req'[t] = req[t]
    BY <1>1, <1>9 DEF LoadFails, WriteFails, page, TypeOK
  <2>2. newest' # None => newest' = newest /\ newest # s
    BY <1>1, <1>9 DEF LoadFails, WriteFails, view
  <2> QED BY <1>1, <2>1, <2>2
<1>10. ASSUME NEW s \in Slots, WriteArrives(s) PROVE ViewInv'
  <2>1. req[s].item # NoItem
    <3>1. Honest(kind, table, req[s]) /\ req[s].op \in {"create", "transition"}
      BY <1>10 DEF WriteArrives, IInv, Claims
    <3>2. req[s].item.code \in Codes BY <3>1 DEF Honest, Shown
    <3> QED BY <3>2, TabAssumption DEF TabAssumption, NoItem, NewItem
  <2>2. req'[s] = Request("load", Home, req[s].item, req[s].mine) /\ newest' = s
    BY <1>1, <1>10 DEF WriteArrives, TypeOK
  <2>3. req'[s].op = "load" /\ req'[s].item # NoItem BY <2>1, <2>2 DEF Request
  <2> QED BY <2>2, <2>3 DEF Waiting
<1> QED
  <2>1. CASE Others \/ Cancel \/ LoginAnswered \/ LoginFails \/ (\E c \in Codes : Propose(c))
             \/ UNCHANGED vars
    BY <1>2, <2>1 DEF vars, page, store, Others, Cancel, Propose, LoginAnswered, LoginFails
  <2> QED
    BY <2>1, <1>3, <1>4, <1>5, <1>6, <1>7, <1>8, <1>9, <1>10 DEF Next, Deliver

-----------------------------------------------------------------------------
(* What the tab says about the records *)

LEMMA SeenLater ==
    ASSUME NEW k, NEW old, NEW new, TableTyped(k, old), TableTyped(k, new),
           \A c \in Codes : Older(old[c], new[c]),
           NEW rows, \A c \in Codes : rows[c].version \in Nat, Seen(k, old, rows)
    PROVE  Seen(k, new, rows)
BY SawLater DEF Seen, TableTyped

LEMMA ShownLater ==
    ASSUME NEW k, NEW old, NEW new, TableTyped(k, old), TableTyped(k, new),
           \A c \in Codes : Older(old[c], new[c]),
           NEW i, i.version \in Nat, Shown(k, old, i)
    PROVE  Shown(k, new, i)
BY SawLater DEF Shown, TableTyped

LEMMA HonestLater ==
    ASSUME NEW k, NEW old, NEW new, TableTyped(k, old), TableTyped(k, new),
           \A c \in Codes : Older(old[c], new[c]),
           NEW r, r.item.version \in Nat, \A c \in Codes : r.rows[c].version \in Nat,
           Honest(k, old, r)
    PROVE  Honest(k, new, r)
<1>1. Overtaken(old, r.item) => Overtaken(new, r.item)
  BY DEF Overtaken, TableTyped, Older
<1>2. Seen(k, new, r.rows) BY SeenLater DEF Honest
<1>3. r.op = "transition" => Shown(k, new, r.item) BY ShownLater DEF Honest
<1> QED BY <1>1, <1>2, <1>3 DEF Honest

LEMMA NothingSeen ==
    ASSUME NEW k, NEW tab
    PROVE  Seen(k, tab, Nothing) /\ Honest(k, tab, Free)
<1>1. Seen(k, tab, Nothing) BY DEF Seen, Nothing, NotListed
<1>2. Free.op = "none" /\ Free.rows = Nothing BY DEF Free
<1> QED BY <1>1, <1>2 DEF Honest

\* A list of the server is what its records are.
LEMMA ListedSeen ==
    ASSUME TypeOK, Real(kind, table)
    PROVE  Seen(kind, table, Listed)
<1> SUFFICES ASSUME NEW c \in Codes, Listed[c].version > 0
             PROVE  Saw(kind, table[c], Listed[c])
    BY DEF Seen
<1>1. Server!Live(table[c]) /\ Listed[c].version = table[c].version
      /\ Listed[c].status = table[c].status
  BY DEF Listed, NotListed
<1> QED BY <1>1 DEF Saw, Older, Real, Server!Live, TypeOK

LEMMA InitClaims == ASSUME Init PROVE Claims
<1>1. Real(kind, table)
  BY PolicyAssumption DEF Init, Real, Statuses, Server!NoRow, Server!Row
<1> QED BY <1>1, NothingSeen DEF Init, Claims

\* A step of the server does not make what the tab holds untrue.
LEMMA ClaimsLater ==
    ASSUME IInv, ServerMoves
    PROVE  /\ Seen(kind, table', items)
           /\ pending # NoItem => Shown(kind, table', pending)
           /\ \A s \in Slots : Honest(kind, table', req[s])
<1>1. /\ TableTyped(kind, table) /\ TableTyped(kind, table')
      /\ \A c \in Codes : Older(table[c], table'[c])
  BY DEF IInv, TypeOK, TableTyped, Statuses, ServerMoves
<1>2. /\ \A c \in Codes : items[c].version \in Nat
      /\ pending.version \in Nat
      /\ \A s \in Slots : /\ req[s].item.version \in Nat
                          /\ \A c \in Codes : req[s].rows[c].version \in Nat
  BY DEF IInv, TypeOK, ListedRows, Items, Requests
<1> QED BY <1>1, <1>2, SeenLater, ShownLater, HonestLater DEF IInv, Claims

LEMMA ItemsKept ==
    ASSUME IInv, [Next]_vars, ServerMoves
    PROVE  Seen(kind, table', items')
<1>1. /\ Seen(kind, table', items) /\ Seen(kind, table', Nothing)
      /\ \A s \in Slots : Seen(kind, table', req[s].rows)
  BY ClaimsLater, NothingSeen DEF Honest
<1> QED
  BY <1>1
  DEF Next, vars, store, Reload, LoginAnswered, LoginFails, Others, Cancel, switchRole,
      Propose, Mount, Load, Submit, Confirm, createRecord, Handle, Lost, Deliver,
      LoadArrives, LoadFails, WriteArrives, WriteFails

LEMMA PendingKept ==
    ASSUME Agreeing, IInv, [Next]_vars, ServerMoves
    PROVE  pending' # NoItem
           => Shown(kind, table', pending') /\ Entitled(kind, pending', session')
<1>1. /\ pending # NoItem => Shown(kind, table', pending) /\ Entitled(kind, pending, session)
      /\ ~mounted => pending = NoItem
      /\ login # None => pending = NoItem
  BY ClaimsLater DEF IInv, Claims, SessionInv
<1>2. CASE pending' = NoItem BY <1>2
<1>3. CASE pending' = pending /\ session' = session BY <1>1, <1>3
<1>4. CASE LoginAnswered \/ \E s \in Slots : Mount(s)
  BY <1>1, <1>4 DEF LoginAnswered, Mount, page
<1>5. ASSUME NEW c \in Codes, Propose(c)
      PROVE  Shown(kind, table', pending') /\ Entitled(kind, pending', session')
  <2> DEFINE target == nextPermittedStatus(kind, items[c].status, canReview(session))
  <2>1. /\ pending' = [code |-> c, version |-> items[c].version,
                       status |-> items[c].status, target |-> target]
        /\ session' = session /\ canWrite
    BY <1>5 DEF Propose, auth
  <2>2. items[c].version > 0 /\ target # None
    BY <1>5, <2>1, ProposeTyped DEF IInv, Claims
  <2>3. Saw(kind, table'[c], items[c]) BY <2>2, ClaimsLater DEF Seen
  <2>4. Saw(kind, table'[c], pending') BY <2>1, <2>3 DEF Saw, Older
  <2>5. Shown(kind, table', pending')
    <3> HIDE DEF target
    <3> QED BY <2>1, <2>2, <2>4 DEF Shown
  <2>6. Entitled(kind, pending', session') BY <2>1 DEF Entitled, canWrite
  <2> QED BY <2>5, <2>6
<1> QED
  BY <1>2, <1>3, <1>4, <1>5
  DEF Next, vars, auth, page, Reload, LoginFails, Others, Cancel, switchRole, Submit,
      Confirm, createRecord, Handle, Lost, Deliver, LoadArrives, LoadFails,
      WriteArrives, WriteFails, Close

\* A load of the page says nothing about the records, nor does one for a record
\* that the server has moved on since.
LEMMA LoadHonest ==
    ASSUME NEW k, NEW tab, NEW q, NEW item, NEW mine,
           item.target # None => Overtaken(tab, item)
    PROVE  Honest(k, tab, Request("load", q, item, mine))
<1> DEFINE r == Request("load", q, item, mine)
<1>1. r.op = "load" /\ r.item = item /\ r.rows = Nothing /\ r.answer = "none"
  BY DEF Request
<1> HIDE DEF r
<1>2. Honest(k, tab, r) BY <1>1, NothingSeen DEF Honest
<1> QED BY <1>2 DEF r

LEMMA ConfirmHonest ==
    ASSUME IInv, NEW tab, pending # NoItem, Shown(kind, tab, pending)
    PROVE  Honest(kind, tab, Request("transition", Home, pending, TRUE))
<1> DEFINE r == Request("transition", Home, pending, TRUE)
<1>1. /\ r.op = "transition" /\ r.item = pending /\ r.rows = Nothing
      /\ r.answer = "none" /\ r.token = stored
  BY DEF Request
<1>2. Entitled(kind, pending, stored)
  BY DEF IInv, Claims, SessionInv, SessionMatchesToken, Entitled
<1> HIDE DEF r
<1>3. Honest(kind, tab, r) BY <1>1, <1>2, NothingSeen DEF Honest
<1> QED BY <1>3 DEF r

LEMMA CreateHonest ==
    ASSUME NEW k, NEW tab, NEW c \in Codes
    PROVE  Honest(k, tab, Request("create", Home, NewItem(c), FALSE))
<1> DEFINE r == Request("create", Home, NewItem(c), FALSE)
<1>1. /\ r.op = "create" /\ r.item.code = c /\ r.item.target = None /\ r.rows = Nothing
  BY DEF Request, NewItem
<1> HIDE DEF r
<1>2. Honest(k, tab, r) BY <1>1, NothingSeen DEF Honest
<1> QED BY <1>2 DEF r

\* A request once it is answered.
LEMMA AnswerHonest ==
    ASSUME NEW k, NEW tab, NEW r \in Requests, r.op # "none", Honest(k, tab, r),
           NEW a \in {"ok", "unauthorized", "failed"}, NEW rows, Seen(k, tab, rows),
           r.op = "transition" /\ a = "ok" => Overtaken(tab, r.item),
           r.op = "load" /\ a = "ok" /\ r.item.target # None
           => \/ rows[r.item.code].version > r.item.version
              \/ rows[r.item.code] = NotListed
    PROVE  Honest(k, tab, Answered(r, a, rows))
<1> DEFINE n == Answered(r, a, rows)
<1>1. n.op = r.op /\ n.item = r.item /\ n.answer = a /\ n.rows = rows
  BY DEF Answered, Requests
<1> HIDE DEF n
<1>2. Honest(k, tab, n) BY <1>1 DEF Honest
<1> QED BY <1>2 DEF n

LEMMA HandleHonest ==
    ASSUME IInv, ServerMoves, NEW s \in Slots, Handle(s)
    PROVE  Honest(kind, table', req'[s])
<1> DEFINE r == req[s]
           i == r.item
<1>1. PICK a \in {"ok", "unauthorized", "failed"}, rows \in {Listed, Nothing} :
         /\ req' = [req EXCEPT ![s] = Answered(r, a, rows)]
         /\ r.op = "load" /\ a = "ok" => rows = Listed
         /\ r.op # "none"
  BY DEF Handle
<1>2. TypeOK /\ Claims /\ r \in Requests /\ Honest(kind, table', r) /\ Honest(kind, table, r)
  BY ClaimsLater DEF IInv, TypeOK, Claims
<1>3. req'[s] = Answered(r, a, rows) BY <1>1, <1>2 DEF TypeOK
<1>4. req'[s].answer = a BY <1>2, <1>3 DEF Answered, Requests
<1>5. r.op = "transition" /\ a = "ok" => Overtaken(table', i)
  BY <1>2, <1>4, Handling
<1>6. Seen(kind, table', rows)
  <2>1. Seen(kind, table, Listed) BY <1>2, ListedSeen DEF Claims
  <2>2. \A c \in Codes : Listed[c].version \in Nat
    BY <1>2, ListedTyped DEF ListedRows
  <2>3. TableTyped(kind, table) /\ TableTyped(kind, table')
    BY <1>2 DEF TypeOK, TableTyped, Statuses, ServerMoves
  <2>4. Seen(kind, table', Listed) BY <2>1, <2>2, <2>3, SeenLater DEF ServerMoves
  <2> QED BY <1>1, <2>4, NothingSeen
<1>7. r.op = "load" /\ a = "ok" /\ i.target # None
      => rows[i.code].version > i.version \/ rows[i.code] = NotListed
  BY <1>1, <1>2 DEF Honest, Overtaken, Listed
<1> HIDE DEF r
<1> QED BY <1>1, <1>2, <1>3, <1>5, <1>6, <1>7, AnswerHonest

LEMMA RequestsHonest ==
    ASSUME IInv, [Next]_vars, ServerMoves
    PROVE  \A t \in Slots : Honest(kind, table', req'[t])
<1>1. /\ req \in [Slots -> Requests] /\ \A t \in Slots : Honest(kind, table', req[t])
      /\ Honest(kind, table', Free)
  BY ClaimsLater, NothingSeen DEF IInv, TypeOK
<1> DEFINE Goal == \A t \in Slots : Honest(kind, table', req'[t])
<1>2. CASE UNCHANGED req BY <1>1, <1>2
<1>3. CASE Reload BY <1>1, <1>3 DEF Reload
<1>4. ASSUME NEW role, switchRole(role) PROVE Goal
  <2> SUFFICES ASSUME NEW t \in Slots PROVE Honest(kind, table', req'[t])
    OBVIOUS
  <2> DEFINE n == [req[t] EXCEPT !.mine = FALSE]
  <2>1. req'[t] = n BY <1>4 DEF switchRole
  <2>2. /\ n.op = req[t].op /\ n.item = req[t].item /\ n.answer = req[t].answer
        /\ n.token = req[t].token /\ n.rows = req[t].rows
    BY <1>1 DEF Requests
  <2>3. req[t].op = "none" => n = Free
    <3>1. req[t].op = "none" => req[t] = Free BY <1>1 DEF Honest
    <3>2. \A r \in Requests : r.mine = FALSE => [r EXCEPT !.mine = FALSE] = r
      BY DEF Requests
    <3>3. Free.mine = FALSE BY DEF Free
    <3> QED BY <3>1, <3>2, <3>3, FreeTyped
  <2> HIDE DEF n
  <2>4. Honest(kind, table', req[t]) BY <1>1
  <2> QED BY <2>1, <2>2, <2>3, <2>4 DEF Honest
<1>5. ASSUME NEW s \in Slots, NEW q, Mount(s) \/ Submit(s, q) PROVE Goal
  <2>1. PICK p : req' = [req EXCEPT ![s] = Request("load", p, NoItem, FALSE)]
    BY <1>5 DEF Mount, Submit, Load, Send
  <2>2. Honest(kind, table', Request("load", p, NoItem, FALSE))
    BY LoadHonest DEF NoItem, NewItem
  <2> QED BY <1>1, <2>1, <2>2
<1>6. ASSUME NEW s \in Slots, Confirm(s) PROVE Goal
  <2>1. Honest(kind, table', Request("transition", Home, pending, TRUE))
    BY <1>6, ClaimsLater, ConfirmHonest DEF Confirm
  <2> QED BY <1>1, <1>6, <2>1 DEF Confirm, Send
<1>7. ASSUME NEW s \in Slots, NEW c \in Codes, createRecord(s, c) PROVE Goal
  <2>1. Honest(kind, table', Request("create", Home, NewItem(c), FALSE)) BY CreateHonest
  <2> QED BY <1>1, <1>7, <2>1 DEF createRecord, Send
<1>8. ASSUME NEW s \in Slots, Handle(s) PROVE Goal
  <2>1. \A t \in Slots : t # s => req'[t] = req[t] BY <1>1, <1>8 DEF Handle
  <2> QED BY <1>1, <1>8, <2>1, HandleHonest
<1>9. ASSUME NEW s \in Slots, Lost(s) PROVE Goal
  <2>1. req[s].op # "none" /\ req' = [req EXCEPT ![s] = Answered(req[s], "failed", Nothing)]
    BY <1>9 DEF Lost
  <2>2. Honest(kind, table', Answered(req[s], "failed", Nothing))
    BY <1>1, <2>1, NothingSeen, AnswerHonest
  <2> QED BY <1>1, <2>1, <2>2
<1>10. ASSUME NEW s \in Slots, LoadArrives(s) \/ LoadFails(s) \/ WriteFails(s) PROVE Goal
  BY <1>1, <1>10 DEF LoadArrives, LoadFails, WriteFails
<1>11. ASSUME NEW s \in Slots, WriteArrives(s) PROVE Goal
  <2>1. req[s].item.target # None => Overtaken(table', req[s].item)
    BY <1>1, <1>11 DEF WriteArrives, Honest
  <2>2. Honest(kind, table', Request("load", Home, req[s].item, req[s].mine))
    BY <2>1, LoadHonest
  <2> QED BY <1>1, <1>11, <2>2 DEF WriteArrives
<1> HIDE DEF Goal
<1>12. Goal
  BY <1>2, <1>3, <1>4, <1>5, <1>6, <1>7, <1>8, <1>9, <1>10, <1>11
  DEF Goal, Next, vars, Deliver, Others, Cancel, Propose, LoginAnswered, LoginFails
<1> QED BY <1>12 DEF Goal

\* A move is answered with success by the server alone.
LEMMA OnlyHandled ==
    ASSUME TypeOK, [Next]_vars, NEW s \in Slots, req[s].op = "transition",
           req[s].answer = "none", req'[s].answer = "ok"
    PROVE  Handle(s)
<1> SUFFICES ASSUME ~Handle(s) PROVE FALSE
    OBVIOUS
<1>1. req \in [Slots -> Requests] /\ req[s] # Free BY DEF TypeOK, Free
<1>2. Free.answer = "none" BY DEF Free
<1>3. \A op, q, item, mine : Request(op, q, item, mine).answer = "none" BY DEF Request
<1>4. CASE UNCHANGED req BY <1>4
<1>5. CASE Reload BY <1>2, <1>5 DEF Reload
<1>6. ASSUME NEW role, switchRole(role) PROVE FALSE
  <2>1. [req[s] EXCEPT !.mine = FALSE].answer = req[s].answer BY <1>1 DEF Requests
  <2> QED BY <1>6, <2>1 DEF switchRole
<1>7. ASSUME NEW t \in Slots, NEW q,
             Mount(t) \/ Submit(t, q) \/ Confirm(t) \/ createRecord(t, q) PROVE FALSE
  <2>1. req[t] = Free /\ \E r : req' = [req EXCEPT ![t] = r]
    BY <1>7 DEF Mount, Submit, Load, Confirm, createRecord, Send
  <2> QED BY <1>1, <2>1
<1>8. ASSUME NEW t \in Slots, Handle(t) PROVE FALSE
  <2>1. \E r : req' = [req EXCEPT ![t] = r] BY <1>8 DEF Handle
  <2>2. t # s BY <1>8
  <2> QED BY <1>1, <2>1, <2>2
<1>9. ASSUME NEW t \in Slots, Lost(t) PROVE FALSE
  <2>1. Answered(req[t], "failed", Nothing).answer = "failed" BY <1>1 DEF Answered, Requests
  <2> QED BY <1>1, <1>9, <2>1 DEF Lost
<1>10. ASSUME NEW t \in Slots, Deliver(t) PROVE FALSE
  BY <1>1, <1>2, <1>3, <1>10
  DEF Deliver, LoadArrives, LoadFails, WriteArrives, WriteFails
<1> QED
  BY <1>4, <1>5, <1>6, <1>7, <1>8, <1>9, <1>10
  DEF Next, vars, Others, Cancel, Propose, LoginAnswered, LoginFails

-----------------------------------------------------------------------------
(* Theorems *)

LEMMA Init_IInv == Init => IInv
BY InitTyped, InitSession, InitView, InitClaims DEF IInv

LEMMA Next_IInv == ASSUME Agreeing, IInv, [Next]_vars PROVE IInv'
<1>1. ServerMoves BY ServerSteps
<1>2. Claims'
  BY <1>1, ItemsKept, PendingKept, RequestsHonest DEF ServerMoves, Claims
<1> QED BY <1>2, Typing, SessionKept, ViewKept DEF IInv

LEMMA Invariance == ASSUME Agreeing PROVE Spec => []IInv
BY Init_IInv, Next_IInv, PTL DEF Spec

\* Any tab, over any aggregate whose policy agrees with the page: the state is
\* typed, however requests, logins and reloads interleave.
THEOREM TypeCorrect == ASSUME Agreeing PROVE Spec => []TypeOK
<1>1. IInv => TypeOK BY DEF IInv
<1> QED BY <1>1, Invariance, PTL

\* The role the page goes by is that of the token its requests carry, or they
\* carry none and are refused (useAuth, client.ts).
THEOREM SessionTruthful == ASSUME Agreeing PROVE Spec => []SessionMatchesToken
<1>1. IInv => SessionMatchesToken BY DEF IInv, SessionInv
<1> QED BY <1>1, Invariance, PTL

\* With any number of requests under way, the table and the loading screen wait
\* only for something that is under way (factory.ts, useAuth).
THEOREM NeverStuck == ASSUME Agreeing PROVE Spec => []BusyMeansWaiting
<1>1. ASSUME IInv PROVE BusyMeansWaiting
  BY <1>1 DEF IInv, ViewInv, SessionInv, Waiting, BusyMeansWaiting, Free
<1> QED BY <1>1, Invariance, PTL

\* The rows belong to the search and page above them once all is answered, but
\* for the reload of a write and a load that was overtaken (factory.ts).
THEOREM ViewTruthful == ASSUME Agreeing PROVE Spec => []ViewFollowsQuery
<1>1. ASSUME IInv PROVE ViewFollowsQuery
  BY <1>1 DEF IInv, ViewInv, Waiting, ViewFollowsQuery, Free
<1> QED BY <1>1, Invariance, PTL

\* The reload that closes a dialog shows the move it confirmed (factory.ts).
THEOREM ReloadTruthful == ASSUME Agreeing PROVE Spec => []ReloadShowsMove
<1>1. ASSUME IInv PROVE ReloadShowsMove
  BY <1>1 DEF IInv, Claims, Honest, ReloadShowsMove
<1> QED BY <1>1, Invariance, PTL

\* The server refuses an offered move for the role or the graph only if the
\* record has changed since it was listed (EntityPage.tsx, the services).
THEOREM RefusalsExplained == ASSUME Agreeing PROVE Spec => []RefusalExplained
<1>1. ASSUME IInv PROVE RefusalExplained
  <2> SUFFICES ASSUME NEW s \in Slots, req[s].op = "transition", req[s].answer = "none",
                      table[req[s].item.code].version = req[s].item.version
               PROVE  Verdict(req[s]) \notin {"forbidden", "illegal"}
    BY DEF RefusalExplained
  <2> DEFINE i == req[s].item
             role == req[s].token
  <2>1. Shown(kind, table, i) /\ Entitled(kind, i, role) /\ kind \in Kinds
    BY <1>1 DEF IInv, TypeOK, Claims, Honest
  <2>2. table[i.code].status = i.status /\ i.status \in Statuses(kind) /\ i.target # None
    BY <2>1 DEF Shown, Saw, Older
  <2>3. CASE role = None BY <2>3 DEF Verdict
  <2>4. CASE role # None
    <3>1. /\ role \in Admitted["transition"] /\ canReview(role) \in BOOLEAN
          /\ i.target = nextPermittedStatus(kind, i.status, canReview(role))
      BY <2>1, <2>4 DEF Entitled, Admitted, canReview
    <3>2. /\ i.target \in Policy[kind].next[i.status]
          /\ NeedsReview(i.status, i.target) => canReview(role)
      BY <2>1, <2>2, <3>1 DEF Agreeing, Permitted, NeedsReview
    <3> HIDE DEF i, role
    <3> QED BY <2>2, <3>1, <3>2 DEF Verdict, MoveVerdict, i, role
  <2> QED BY <2>3, <2>4
<1> QED BY <1>1, Invariance, PTL

\* A confirmed move happens from the status its dialog showed to the one it
\* named, or not at all (the dialog of EntityPage, the optimistic lock).
THEOREM MovesAsShown == ASSUME Agreeing PROVE Spec => MovesWhatWasShown
<1> DEFINE Faithful ==
       \A s \in Slots :
          LET i == req[s].item IN
          req[s].op = "transition" /\ req[s].answer = "none" /\ req'[s].answer = "ok"
          => /\ table[i.code].status = i.status
             /\ table'[i.code].status = i.target
<1>1. ASSUME IInv, [Next]_vars PROVE Faithful \/ UNCHANGED vars
  <2> SUFFICES ASSUME NEW s \in Slots, req[s].op = "transition", req[s].answer = "none",
                      req'[s].answer = "ok", ~UNCHANGED vars
               PROVE  /\ table[req[s].item.code].status = req[s].item.status
                      /\ table'[req[s].item.code].status = req[s].item.target
    OBVIOUS
  <2>1. TypeOK /\ Claims /\ req \in [Slots -> Requests] BY <1>1 DEF IInv, TypeOK
  <2>2. Handle(s) BY <1>1, <2>1, OnlyHandled
  <2> QED BY <2>1, <2>2, Handling
<1> QED BY <1>1, Invariance, PTL DEF Spec, MovesWhatWasShown
=============================================================================
