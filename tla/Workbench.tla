----------------------------- MODULE Workbench -----------------------------
(***************************************************************************)
(* One tab of the workbench over the server: the session hook (useAuth), the  *)
(* token in localStorage, the entity store of one aggregate and the page that *)
(* shows it.  The records are those of module RecordLifecycle, whose actions  *)
(* are the work of all other users.                                         *)
(*                                                                         *)
(* Requests leave the tab in one order and their answers arrive in any; each   *)
(* carries the token it found in localStorage when it was sent.  The server   *)
(* handles a request in one step, as RecordService implements RecordLifecycle  *)
(* for a client that, like this one, sends only versions it has been shown.    *)
(***************************************************************************)
EXTENDS Integers, FiniteSets, Rbac

CONSTANTS
    Kinds, Policy, Codes, Payloads, None,   \* as in RecordLifecycle
    Slots,          \* bound: as many requests of the tab are under way at one time
    Searches,       \* the searches and pages a user may ask for
    Home,           \* the first page without search, the defaults of load
    Users,          \* the roles one may switch to
    MaxVersion      \* bound: versions of a record

ASSUME PolicyAssumption ==
    \A k \in Kinds :
        /\ Policy[k].initial \in DOMAIN Policy[k].next
        /\ \A s \in DOMAIN Policy[k].next :
               Policy[k].next[s] \subseteq DOMAIN Policy[k].next
        /\ Policy[k].seeds \subseteq DOMAIN Policy[k].next

ASSUME TabAssumption ==
    /\ None \notin Codes \cup Slots \cup Roles
    /\ Home \in Searches /\ Users \subseteq Roles
    /\ MaxVersion \in Nat

VARIABLES
    kind, table,   \* the server's records
    stored,        \* the session in localStorage, by its role
    session,       \* the session in the state of useAuth
    authLoading,   \* its loading
    initialized,
    login,         \* the role a login under way asks for
    mounted,       \* is the page mounted?
    query,         \* its submitted search and page
    pending,       \* the record and the target of its confirmation dialog
    items,         \* the store: the rows listed
    loading, error,
    req,           \* the requests under way, by slot
    newest,        \* auxiliary: the slot of the latest load until it is answered
    shownOf        \* auxiliary: the query the rows were listed for, if they come
                   \* from the latest load and the page sent it

server == <<kind, table>>
auth == <<stored, session, authLoading, initialized, login>>
page == <<mounted, query, pending>>
store == <<items, loading, error>>
view == <<newest, shownOf>>
vars == <<server, auth, page, store, req, view>>

Server == INSTANCE RecordLifecycle WITH kind <- kind, table <- table

-----------------------------------------------------------------------------
(* What the page offers *)

OfferedTo(reviewer) ==
    [PressUnit |->
         [ready |-> "setup", setup |-> "printing", printing |-> "maintenance",
          maintenance |-> "printing"],
     PrintRun |->
         [setup |-> "printing", printing |-> "proofing",
          proofing |-> IF reviewer THEN "released" ELSE "hold",
          hold |-> "proofing", released |-> IF reviewer THEN "hold" ELSE None],
     ColorProof |->
         [captured |-> "review", review |-> IF reviewer THEN "accepted" ELSE None,
          accepted |-> IF reviewer THEN "review" ELSE None,
          rejected |-> IF reviewer THEN "review" ELSE None],
     ReleaseDecision |->
         [draft |-> IF reviewer THEN "release" ELSE "rework",
          release |-> IF reviewer THEN "rework" ELSE None,
          rework |-> IF reviewer THEN "release" ELSE None,
          quarantine |-> IF reviewer THEN "rework" ELSE None]]

\* (mutant of nextPermittedStatus: whoever may write is offered every move)
nextPermittedToAll(k, current, reviewer) == OfferedTo(TRUE)[k][current]

nextPermittedStatus(k, current, reviewer) == OfferedTo(reviewer)[k][current]

canWrite == session # None /\ session \in RequireMinimumRole("operator")

-----------------------------------------------------------------------------
(* Requests and the tab *)

NotListed == [version |-> 0, status |-> None]
Nothing == [c \in Codes |-> NotListed]

\* A list as the server answers it.  (No search hides a row: what is not listed
\* is not offered either.)
Listed ==
    [c \in Codes |->
        IF Server!Live(table[c])
        THEN [version |-> table[c].version, status |-> table[c].status]
        ELSE NotListed]

\* A row of the list and the status it is to move to; a new record has a code
\* only, and a load of the page is about no record.
NewItem(c) == [code |-> c, version |-> 0, status |-> None, target |-> None]
NoItem == NewItem(None)

\* mine: is the page whose dialog the request is about still mounted?
Request(op, q, item, mine) ==
    [op |-> op, query |-> q, item |-> item, token |-> stored,
     answer |-> "none", rows |-> Nothing, mine |-> mine]

Answered(r, answer, rows) ==
    [r EXCEPT !.answer = answer, !.token = None, !.rows = rows]

Free == [op |-> "none", query |-> Home, item |-> NoItem, token |-> None,
         answer |-> "none", rows |-> Nothing, mine |-> FALSE]

\* The tab after main.tsx has run and App has called initialize.
Fresh(found) ==
    [session |-> found, authLoading |-> found = None, initialized |-> found # None,
     login |-> IF found = None THEN "admin" ELSE None]

Init ==
    /\ kind \in Kinds
    /\ table \in [Codes -> {Server!NoRow} \cup
           {Server!Row(1, s, d) : s \in Policy[kind].seeds, d \in Payloads}]
    /\ stored \in {None} \cup Users
    /\ session = Fresh(stored).session /\ authLoading = Fresh(stored).authLoading
    /\ initialized = Fresh(stored).initialized /\ login = Fresh(stored).login
    /\ mounted = FALSE /\ query = Home /\ pending = NoItem
    /\ items = Nothing /\ loading = FALSE /\ error = FALSE
    /\ req = [s \in Slots |-> Free]
    /\ newest = None /\ shownOf = None

\* F5, or a crash of the tab: all that is left is localStorage.  The server may
\* have handled a request that was under way, or never sees it.
Reload ==
    /\ session' = Fresh(stored).session /\ authLoading' = Fresh(stored).authLoading
    /\ initialized' = Fresh(stored).initialized /\ login' = Fresh(stored).login
    /\ mounted' = FALSE /\ query' = Home /\ pending' = NoItem
    /\ items' = Nothing /\ loading' = FALSE /\ error' = FALSE
    /\ req' = [s \in Slots |-> Free]
    /\ newest' = None /\ shownOf' = None
    /\ UNCHANGED <<server, stored>>

\* The synchronous part of a call of the store.
Send(s, request) ==
    /\ req[s] = Free
    /\ req' = [req EXCEPT ![s] = request]
    /\ loading' = TRUE /\ error' = FALSE

Load(s, q) ==
    /\ Send(s, Request("load", q, NoItem, FALSE))
    /\ newest' = s /\ UNCHANGED <<items, shownOf>>

-----------------------------------------------------------------------------
(* The session *)

\* Nothing if a session was found; otherwise the login as admin, during which
\* App hides the page.
initialize ==
    IF initialized THEN UNCHANGED auth
    ELSE IF stored # None
    THEN /\ session' = stored /\ initialized' = TRUE
         /\ UNCHANGED <<stored, authLoading, login>>
    ELSE /\ authLoading' = TRUE /\ login' = "admin"
         /\ UNCHANGED <<stored, session, initialized>>

\* App shows its outlet again.  The effects of the page run: initialize, load.
Mount(s) ==
    /\ ~authLoading /\ ~mounted
    /\ initialize
    /\ mounted' = ~authLoading'
    /\ Load(s, Home)
    /\ UNCHANGED <<server, query, pending>>

\* App hides its outlet, which discards the state of the page.
switchRole(role) ==
    /\ mounted
    /\ authLoading' = TRUE /\ login' = role
    /\ mounted' = FALSE /\ query' = Home /\ pending' = NoItem
    /\ req' = [s \in Slots |-> [req[s] EXCEPT !.mine = FALSE]]
    /\ UNCHANGED <<server, stored, session, initialized, store, view>>

\* (mutant of LoginAnswered: the session is not saved)
LoginNotSaved ==
    /\ login # None
    /\ session' = login
    /\ initialized' = TRUE /\ authLoading' = FALSE /\ login' = None
    /\ UNCHANGED <<server, stored, page, store, req, view>>

LoginAnswered ==
    /\ login # None
    /\ stored' = login /\ session' = stored'
    /\ initialized' = TRUE /\ authLoading' = FALSE /\ login' = None
    /\ UNCHANGED <<server, page, store, req, view>>

\* The request is lost or the server fails; if its database does, the answer is
\* that the password is wrong, and this 401 clears the stored session.
LoginFails ==
    /\ login # None
    /\ authLoading' = FALSE /\ login' = None
    /\ stored' \in {stored, None}
    /\ UNCHANGED <<server, session, initialized, page, store, req, view>>

-----------------------------------------------------------------------------
(* The user of the page *)

\* (mutant of Submit: a search that the effect does not depend on)
SubmitWithoutLoad(s, q) ==
    /\ mounted /\ q # query
    /\ query' = q
    /\ UNCHANGED <<server, auth, mounted, pending, store, req, view>>

\* A search, or another page.  Submitting the same one again changes no state.
Submit(s, q) ==
    /\ mounted /\ q # query
    /\ query' = q /\ Load(s, q)
    /\ UNCHANGED <<server, auth, mounted, pending>>

\* The dialog of a row.  (Bound: only of rows below MaxVersion.)
Propose(c) ==
    LET target == nextPermittedStatus(kind, items[c].status, canReview(session))
    IN  /\ mounted /\ canWrite /\ pending = NoItem
        /\ items[c].version \in 1 .. MaxVersion - 1
        /\ target # None
        /\ pending' = [code |-> c, version |-> items[c].version,
                       status |-> items[c].status, target |-> target]
        /\ UNCHANGED <<server, auth, mounted, query, store, req, view>>

Cancel ==
    /\ pending # NoItem /\ pending' = NoItem
    /\ UNCHANGED <<server, auth, mounted, query, store, req, view>>

\* (mutant of Confirm: reloads without waiting for the answer to the move)
ConfirmAndReload(s) ==
    /\ pending # NoItem
    /\ \E t \in Slots \ {s} :
          /\ req[s] = Free /\ req[t] = Free
          /\ req' = [req EXCEPT ![s] = Request("transition", Home, pending, TRUE),
                                ![t] = Request("load", Home, pending, TRUE)]
          /\ newest' = t
    /\ loading' = TRUE /\ error' = FALSE
    /\ UNCHANGED <<server, auth, page, items, shownOf>>

\* The dialog stays open, and may be confirmed again.
Confirm(s) ==
    /\ pending # NoItem
    /\ Send(s, Request("transition", Home, pending, TRUE))
    /\ UNCHANGED <<server, auth, page, items, view>>

createRecord(s, c) ==
    /\ mounted /\ canWrite /\ pending = NoItem
    /\ Send(s, Request("create", Home, NewItem(c), FALSE))
    /\ UNCHANGED <<server, auth, page, items, view>>

-----------------------------------------------------------------------------
(* The server *)

NeedsReview(from, to) == {from, to} \cap Policy[kind].reviewed # {}

\* (mutant of MoveVerdict: moves the record whatever its version)
MoveVerdictUnversioned(r) ==
    LET row == table[r.item.code] IN
    IF ~Server!Live(row) THEN "missing"
    ELSE IF NeedsReview(row.status, r.item.target) /\ ~canReview(r.token)
         THEN "forbidden"
    ELSE IF r.item.target \notin Policy[kind].next[row.status] THEN "illegal"
    ELSE "ok"

\* The checks of Transition, in their order.
MoveVerdict(r) ==
    LET row == table[r.item.code] IN
    IF ~Server!Live(row) THEN "missing"
    ELSE IF NeedsReview(row.status, r.item.target) /\ ~canReview(r.token)
         THEN "forbidden"
    ELSE IF r.item.target \notin Policy[kind].next[row.status] THEN "illegal"
    ELSE IF row.version # r.item.version THEN "conflict"
    ELSE "ok"

\* The token and the role of the route come first, then the service.
Verdict(r) ==
    IF r.token = None THEN "unauthorized"
    ELSE IF r.op = "load" THEN "ok"
    ELSE IF r.token \notin Admitted[r.op] THEN "forbidden"
    ELSE IF r.op = "create"
    THEN IF table[r.item.code].version = 0 THEN "ok" ELSE "taken"
    ELSE MoveVerdict(r)

\* The tab tells a 401 and success from all other answers.  Whatever the token,
\* it may have reached its end by now.
Handle(s) ==
    LET r == req[s] IN
    \E verdict \in {Verdict(r), "unauthorized"} :
    /\ r.op # "none" /\ r.answer = "none"
    /\ req' = [req EXCEPT ![s] =
           Answered(r, IF verdict \in {"ok", "unauthorized"} THEN verdict ELSE "failed",
                    IF verdict = "ok" /\ r.op = "load" THEN Listed ELSE Nothing)]
    /\ \/ r.op = "create" /\ verdict = "ok" /\ Server!Create(r.item.code)
       \/ /\ r.op = "transition" /\ verdict = "ok"
          /\ Server!Put(r.item.code, Server!Row(r.item.version + 1, r.item.target,
                                                table[r.item.code].data))
       \/ (r.op = "load" \/ verdict # "ok") /\ UNCHANGED <<kind, table>>
    /\ UNCHANGED <<auth, page, store, view>>

\* A request or its answer is lost, or the server fails after its commit.
Lost(s) ==
    /\ req[s].op # "none" /\ req[s].answer # "failed"
    /\ req' = [req EXCEPT ![s] = Answered(@, "failed", Nothing)]
    /\ UNCHANGED <<server, auth, page, store, view>>

\* Everyone else: Create, Edit, Move and Remove, a step of the service each.
Others ==
    /\ Server!Next
    /\ \A c \in Codes : table'[c].version <= MaxVersion
    /\ UNCHANGED <<auth, page, store, req, view>>

-----------------------------------------------------------------------------
(* Answers *)

\* The reload after a move closes the dialog of the page that sent the move:
\* whichever dialog is open by then.
Close(r) ==
    pending' = IF r.item.target # None /\ r.mine THEN NoItem ELSE pending

\* A 401, to whatever request, discards the stored session.
Discard(r) == stored' = IF r.answer = "unauthorized" THEN None ELSE stored

LoadArrives(s) ==
    LET r == req[s] IN
    /\ r.op = "load" /\ r.answer = "ok"
    /\ items' = r.rows /\ loading' = FALSE
    /\ req' = [req EXCEPT ![s] = Free] /\ Close(r)
    /\ shownOf' = IF s = newest /\ r.item = NoItem THEN r.query ELSE None
    /\ newest' = IF s = newest THEN None ELSE newest
    /\ UNCHANGED <<server, auth, mounted, query, error>>

\* (mutant of LoadFails: the rows are lost)
LoadFailsBlank(s) ==
    LET r == req[s] IN
    /\ r.op = "load" /\ r.answer \notin {"none", "ok"}
    /\ error' = TRUE /\ loading' = FALSE /\ items' = None
    /\ req' = [req EXCEPT ![s] = Free] /\ Close(r) /\ Discard(r)
    /\ newest' = IF s = newest THEN None ELSE newest
    /\ UNCHANGED <<server, session, authLoading, initialized, login,
                   mounted, query, shownOf>>

\* load catches its errors, so the dialog closes after a failed reload too.
LoadFails(s) ==
    LET r == req[s] IN
    /\ r.op = "load" /\ r.answer \notin {"none", "ok"}
    /\ error' = TRUE /\ loading' = FALSE
    /\ req' = [req EXCEPT ![s] = Free] /\ Close(r) /\ Discard(r)
    /\ newest' = IF s = newest THEN None ELSE newest
    /\ UNCHANGED <<server, session, authLoading, initialized, login,
                   mounted, query, items, shownOf>>

\* After a successful write the store reloads, with the defaults.
WriteArrives(s) ==
    LET r == req[s] IN
    /\ r.op \in {"create", "transition"} /\ r.answer = "ok"
    /\ req' = [req EXCEPT ![s] = Request("load", Home, r.item, r.mine)]
    /\ loading' = TRUE /\ error' = FALSE /\ newest' = s
    /\ UNCHANGED <<server, auth, page, items, shownOf>>

\* (mutant of WriteFails: loading is not reset)
WriteFailsLoading(s) ==
    LET r == req[s] IN
    /\ r.op \in {"create", "transition"} /\ r.answer \notin {"none", "ok"}
    /\ error' = TRUE
    /\ req' = [req EXCEPT ![s] = Free] /\ Discard(r)
    /\ UNCHANGED <<server, session, authLoading, initialized, login,
                   page, items, loading, view>>

WriteFails(s) ==
    LET r == req[s] IN
    /\ r.op \in {"create", "transition"} /\ r.answer \notin {"none", "ok"}
    /\ error' = TRUE /\ loading' = FALSE
    /\ req' = [req EXCEPT ![s] = Free] /\ Discard(r)
    /\ UNCHANGED <<server, session, authLoading, initialized, login,
                   page, items, view>>

Deliver(s) == LoadArrives(s) \/ LoadFails(s) \/ WriteArrives(s) \/ WriteFails(s)

Next ==
    \/ Reload \/ LoginAnswered \/ LoginFails \/ Others \/ Cancel
    \/ \E role \in Users : switchRole(role)
    \/ \E c \in Codes : Propose(c)
    \/ \E s \in Slots :
          \/ Mount(s) \/ Confirm(s) \/ Handle(s) \/ Lost(s) \/ Deliver(s)
          \/ \E q \in Searches : Submit(s, q)
          \/ \E c \in Codes : createRecord(s, c)

Spec == Init /\ [][Next]_vars

-----------------------------------------------------------------------------
(* Properties *)

ListedRows == [version : Nat, status : DOMAIN Policy[kind].next \cup {None}]

Items == [code : Codes \cup {None}, version : Nat,
          status : DOMAIN Policy[kind].next \cup {None},
          target : DOMAIN Policy[kind].next \cup {None}]

Requests ==
    [op : {"none", "load", "create", "transition"}, query : Searches, item : Items,
     token : Roles \cup {None},
     answer : {"none", "ok", "unauthorized", "failed"},
     rows : [Codes -> ListedRows], mine : BOOLEAN]

\* The state stays within its declared types.
TypeOK ==
    /\ kind \in Kinds
    /\ table \in [Codes -> [version : Nat,
                            status : DOMAIN Policy[kind].next \cup {None},
                            data : Payloads \cup {None}, deleted : BOOLEAN]]
    /\ stored \in Roles \cup {None} /\ session \in Roles \cup {None}
    /\ authLoading \in BOOLEAN /\ initialized \in BOOLEAN
    /\ login \in Roles \cup {None}
    /\ mounted \in BOOLEAN /\ query \in Searches /\ pending \in Items
    /\ items \in [Codes -> ListedRows] /\ loading \in BOOLEAN /\ error \in BOOLEAN
    /\ req \in [Slots -> Requests]
    /\ newest \in Slots \cup {None} /\ shownOf \in Searches \cup {None}

\* The session whose role decides what the page offers is the one whose token
\* its requests carry, or they carry none: through failed logins, expired
\* tokens, 401s that arrive late, and reloads.
SessionMatchesToken ==
    /\ stored \in {None, session}
    /\ mounted => session # None

\* What the user confirmed is what happens: a move of this tab takes the record
\* from the status its dialog showed to the status it named, whatever others
\* did meanwhile and whatever was listed after the dialog had opened.
MovesWhatWasShown ==
    [][\A s \in Slots :
          LET i == req[s].item IN
          req[s].op = "transition" /\ req[s].answer = "none" /\ req'[s].answer = "ok"
          => /\ table[i.code].status = i.status
             /\ table'[i.code].status = i.target]_vars

\* The rights the workbench assumes are those the server grants: a move that
\* was offered is refused for the role or for the graph only if the record has
\* changed since it was listed.
RefusalExplained ==
    \A s \in Slots :
        LET i == req[s].item IN
        /\ req[s].op = "transition" /\ req[s].answer = "none"
        /\ Verdict(req[s]) \in {"forbidden", "illegal"}
        => table[i.code].version # i.version

\* The reload that closes a dialog lists the move it confirmed, or a later
\* version, or no longer the record: it is sent after the move was answered.
ReloadShowsMove ==
    \A s \in Slots :
        LET i == req[s].item IN
        req[s].op = "load" /\ req[s].answer = "ok" /\ i.target # None
        => req[s].rows[i.code].version > i.version \/ req[s].rows[i.code] = NotListed

\* When everything is answered without error, the rows belong to the search and
\* the page shown above them, unless the reload of a write has replaced them or
\* a load was overtaken by a later one.
ViewFollowsQuery ==
    mounted /\ ~error /\ (\A s \in Slots : req[s] = Free)
    => shownOf \in {query, None}

\* Nothing stays busy: the table waits only while a request of the tab is under
\* way, and App hides its page only while a login is, whichever of them fail
\* and in whatever order they are answered.
BusyMeansWaiting ==
    /\ loading => \E s \in Slots : req[s] # Free
    /\ authLoading => login # None
=============================================================================
