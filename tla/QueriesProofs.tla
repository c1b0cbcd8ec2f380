---------------------------- MODULE QueriesProofs ----------------------------
(***************************************************************************)
(* Proofs about module Queries, for any sizes, contents and bounds: typing,   *)
(* the agreement of the two clampings, and what a walk, a page and a summary   *)
(* promise.                                                                *)
(***************************************************************************)
EXTENDS Queries, FunctionTheorems, FiniteSetTheorems, TLAPS

BoundPage == [page : Nat \ {0}, size : 1 .. MaxSize]

LEMMA PagesAgree ==
    ASSUME NEW p \in Int, NEW s \in Int
    PROVE  /\ bindPage(p, s) \in BoundPage
           /\ normalizePage(bindPage(p, s)) = bindPage(p, s)
BY PagingAssumption DEF PagingAssumption, bindPage, normalizePage, BoundPage

LEMMA LimitsAgree ==
    ASSUME NEW n \in Int
    PROVE  /\ NormalizedLimit(n) \in 1 .. MaxSize
           /\ HistoryLimit(NormalizedLimit(n)) = NormalizedLimit(n)
           /\ WindowHours(n) \in 1 .. 24 * 90
           /\ ServiceWindow(WindowHours(n)) = WindowHours(n)
BY PagingAssumption
   DEF PagingAssumption, NormalizedLimit, HistoryLimit, WindowHours, ServiceWindow

\* Whatever a client writes, the second clamping of it changes nothing: the
\* repository reads the page the handler bound, which is the one the answer
\* names, and the same holds for the limit of a history and the window of a
\* summary, each cut in the query object and again below it.
THEOREM ClampingsAgree ==
    /\ \A p, s \in Int :
          /\ bindPage(p, s) \in BoundPage
          /\ normalizePage(bindPage(p, s)) = bindPage(p, s)
    /\ \A n \in Int :
          /\ NormalizedLimit(n) \in 1 .. MaxSize
          /\ HistoryLimit(NormalizedLimit(n)) = NormalizedLimit(n)
          /\ WindowHours(n) \in 1 .. 24 * 90
          /\ ServiceWindow(WindowHours(n)) = WindowHours(n)
BY PagesAgree, LimitsAgree

LEMMA NormalPage == ASSUME NEW q \in BoundPage PROVE normalizePage(q) = q
BY PagingAssumption DEF PagingAssumption, normalizePage, BoundPage

\* A set of rows is finite, and no larger than the bound.
LEMMA Countable ==
    ASSUME NEW S \in SUBSET Ids
    PROVE  IsFiniteSet(S) /\ Cardinality(S) \in 0 .. MaxRows
<1>1. IsFiniteSet(Ids) /\ Cardinality(Ids) = MaxRows
  BY PagingAssumption, FS_Interval DEF PagingAssumption, Ids
<1>2. IsFiniteSet(S) /\ Cardinality(S) <= Cardinality(Ids) BY <1>1, FS_Subset
<1>3. Cardinality(S) \in Nat BY <1>2, FS_CardinalityType
<1> QED BY <1>1, <1>2, <1>3, PagingAssumption DEF PagingAssumption

LEMMA ActorsCountable ==
    ASSUME NEW S \in SUBSET Actors PROVE Cardinality(S) \in Nat
BY PagingAssumption, FS_Subset, FS_CardinalityType DEF PagingAssumption

\* What an inserted or edited row is.
LEMMA RowTyped ==
    ASSUME TypeOK, NEW t \in Now, NEW w \in Contents[endpoint]
    PROVE  /\ t \in 0 .. MaxClock /\ w \in Content
           /\ [live |-> TRUE, stamp |-> t, what |-> w]
                  \in [live : BOOLEAN, stamp : -1 .. MaxClock, what : Content]
BY PagingAssumption DEF PagingAssumption, TypeOK, Now

LEMMA NoRowTyped == NoRow \in [live : BOOLEAN, stamp : -1 .. MaxClock, what : Content]
<1>1. PICK a \in Actors, e \in Entities : TRUE
  BY PagingAssumption DEF PagingAssumption
<1>2. [match |-> TRUE, actor |-> a, action |-> "transition", entity |-> e] \in Content
  BY PagingAssumption DEF PagingAssumption, Content
<1>3. (CHOOSE w \in Content : TRUE) \in Content BY <1>2
<1> QED BY <1>3, PagingAssumption DEF PagingAssumption, NoRow

LEMMA InitTyped == ASSUME Init PROVE TypeOK
<1>1. rows \in [Ids -> [live : BOOLEAN, stamp : -1 .. MaxClock, what : Content]]
  BY NoRowTyped DEF Init
<1>2. FirstPage \in Page /\ Answer(FirstPage, 0) \in [page : Nat \ {0}, size : Nat \ {0}, total : 0 .. MaxRows]
  BY PagingAssumption DEF PagingAssumption, FirstPage, Answer, Page
<1>3. NoSummary \in Found
  BY PagingAssumption DEF PagingAssumption, NoSummary, Found
<1>4. FirstPage \in Page
  BY PagingAssumption DEF PagingAssumption, FirstPage, Page
<1>5. 0 \in 0 .. MaxRows /\ 0 \in 0 .. MaxClock /\ 0 \in -Window .. MaxClock
  BY PagingAssumption DEF PagingAssumption
<1> QED BY <1>1, <1>2, <1>3, <1>4, <1>5 DEF Init, TypeOK

\* The queries of the summary.
LEMMA Summing ==
    ASSUME TypeOK, NEW this, NEW next \in {"transitions", "actors", "actions", "entities", "summed"},
           NEW found, Query(this, next, found), [summary EXCEPT ![this] = found] \in Found
    PROVE  TypeOK'
BY DEF TypeOK, Query, table, list

LEMMA Typing == ASSUME TypeOK, [Next]_vars PROVE TypeOK'
<1> USE DEF TypeOK
<1>1. CASE Writers
  <2>1. PICK i \in Ids : Insert(i) \/ Touch(i) \/ Remove(i) BY <1>1 DEF Writers
  <2>2. rows' \in [Ids -> [live : BOOLEAN, stamp : -1 .. MaxClock, what : Content]]
    <3>1. CASE Insert(i) BY <3>1, RowTyped DEF Insert
    <3>2. CASE Touch(i) BY <3>2, RowTyped DEF Touch
    <3>3. CASE Remove(i) BY <3>3 DEF Remove
    <3> QED BY <2>1, <3>1, <3>2, <3>3
  <2>3. owed' \subseteq Ids /\ left' \in BOOLEAN
    BY <2>1 DEF Insert, Touch, Remove
  <2> QED BY <1>1, <2>2, <2>3 DEF Writers, sums
<1>2. CASE Tick BY <1>2, PagingAssumption DEF PagingAssumption, Tick, list, sums
<1>3. CASE AskFirst
  <2>1. asked' \in Page
    <3>1. PICK p \in AskedPages, s \in AskedSizes : asked' = bindPage(p, s)
      BY <1>3 DEF AskFirst
    <3>2. p \in Int /\ s \in Int BY PagingAssumption DEF PagingAssumption
    <3>3. bindPage(p, s) \in BoundPage BY <3>2, PagesAgree
    <3>4. BoundPage \subseteq Page
      BY PagingAssumption DEF PagingAssumption, BoundPage, Page
    <3> QED BY <3>1, <3>3, <3>4
  <2>2. Matching \subseteq Ids BY DEF Matching
  <2>3. Answer(FirstPage, 0) \in [page : Nat \ {0}, size : Nat \ {0}, total : 0 .. MaxRows]
    BY PagingAssumption DEF PagingAssumption, FirstPage, Answer
  <2>4. FirstPage \in Page
    BY PagingAssumption DEF PagingAssumption, FirstPage, Page
  <2> QED BY <1>3, <2>1, <2>2, <2>3, <2>4 DEF AskFirst, sums
<1>4. CASE AskNext
  <2>1. walked + 1 \in Int /\ asked.size \in Int BY DEF Page
  <2>2. bindPage(walked + 1, asked.size) \in BoundPage BY <2>1, PagesAgree
  <2>3. BoundPage \subseteq Page
    BY PagingAssumption DEF PagingAssumption, BoundPage, Page
  <2> QED BY <1>4, <2>2, <2>3 DEF AskNext, table, sums
<1>5. CASE Count
  <2>1. Cardinality(Matching) \in 0 .. MaxRows BY Countable DEF Matching
  <2> QED BY <1>5, <2>1 DEF Count, table, sums
<1>6. CASE Find
  <2>1. normalizePage(asked) \in Page
    BY PagingAssumption DEF PagingAssumption, normalizePage, Page
  <2>2. items' \subseteq Ids /\ owed' \subseteq Ids
    BY <1>6 DEF Find, Leading, Matching
  <2>3. read' \in Page /\ meta' \in [page : Nat \ {0}, size : Nat \ {0}, total : 0 .. MaxRows]
    BY <1>6, <2>1 DEF Find, Answer, Page
  <2>4. 0 \in 0 .. MaxRows BY PagingAssumption DEF PagingAssumption
  <2> QED BY <1>6, <2>2, <2>3, <2>4 DEF Find, table, sums
<1>7. NoSummary \in Found /\ 0 \in 0 .. MaxRows /\ 0 \in -Window .. MaxClock
  BY PagingAssumption DEF PagingAssumption, NoSummary, Found
<1>8. CASE AskSummary
  BY <1>7, <1>8, PagingAssumption DEF PagingAssumption, AskSummary, table, list
<1>9. Recent \subseteq Ids BY DEF Recent
<1>10. CASE CountTotal
  <2>1. Cardinality(Recent) \in 0 .. MaxRows BY <1>9, Countable
  <2> QED BY <1>10, <2>1, Summing DEF CountTotal, Found
<1>11. CASE CountTransitions
  <2>1. Cardinality({i \in Recent : rows[i].what.action = "transition"}) \in 0 .. MaxRows
    BY <1>9, Countable
  <2> QED BY <1>11, <2>1, Summing DEF CountTransitions, Found
<1>12. CASE CountActors
  <2>1. {rows[i].what.actor : i \in Recent} \subseteq Actors BY <1>9 DEF Content
  <2>2. Cardinality({rows[i].what.actor : i \in Recent}) \in Nat BY <2>1, ActorsCountable
  <2> QED BY <1>12, <2>2, Summing DEF CountActors, Found
<1>13. CASE GroupActions
  <2>1. \A x \in Actions : Cardinality({i \in Recent : rows[i].what.action = x}) \in 0 .. MaxRows
    BY <1>9, Countable
  <2> QED BY <1>13, <2>1, Summing DEF GroupActions, Found
<1>14. CASE GroupEntities
  <2>1. \A e \in Entities : Cardinality({i \in Recent : rows[i].what.entity = e}) \in 0 .. MaxRows
    BY <1>9, Countable
  <2> QED BY <1>14, <2>1, Summing DEF GroupEntities, Found
<1>15. CASE Fails BY <1>7, <1>15 DEF Fails, table
<1>16. CASE UNCHANGED vars BY <1>16 DEF vars, table, list, sums
<1> QED BY <1>1, <1>2, <1>3, <1>4, <1>5, <1>6, <1>8, <1>10, <1>11, <1>12,
           <1>13, <1>14, <1>15, <1>16 DEF Next

\* Typing.
THEOREM TypeCorrect == Spec => []TypeOK
BY InitTyped, Typing, PTL DEF Spec
-----------------------------------------------------------------------------
(* Walks *)

\* The page about to be read follows the pages read, at the size of the walk,
\* and the last answer named it so.
Bookkeeping ==
    /\ asked \in BoundPage
    /\ pc \in {"count", "find"} => asked.page = walked + 1
    /\ endpoint = "summary" => walked = 0 /\ pc \notin {"count", "find"}
    /\ walked > 0 => read.size = asked.size
    /\ MetaNamesPageRead
    /\ \A i \in Ids : rows[i].live => rows[i].stamp >= 0

\* While no row has left the list, the rows owed are in it, and it has not
\* become shorter since it was counted.
Promised ==
    ~left =>
        /\ owed \subseteq Matching
        /\ pc = "find" => total <= Cardinality(Matching)

IInv == TypeOK /\ Bookkeeping /\ Promised /\ WalkSkipsNothing /\ PageHoldsItsTotal

LEMMA BookkeepingKept ==
    ASSUME TypeOK, Bookkeeping, [Next]_vars PROVE Bookkeeping'
<1> USE DEF Bookkeeping, MetaNamesPageRead
<1>1. CASE Writers
  <2>1. PICK i \in Ids : Insert(i) \/ Touch(i) \/ Remove(i) BY <1>1 DEF Writers
  <2>2. \A j \in Ids : rows'[j].live => rows'[j].stamp >= 0
    BY <2>1, RowTyped DEF Insert, Touch, Remove, TypeOK
  <2> QED BY <1>1, <2>2 DEF Writers
<1>2. CASE Tick BY <1>2 DEF Tick, list
<1>3. CASE AskFirst
  <2>1. PICK p \in AskedPages, s \in AskedSizes : asked' = bindPage(p, s)
    BY <1>3 DEF AskFirst
  <2>2. p \in Int /\ s \in Int /\ p <= 1 BY PagingAssumption DEF PagingAssumption
  <2>3. asked' \in BoundPage /\ asked'.page = 1
    BY <2>1, <2>2, PagesAgree DEF bindPage
  <2> QED BY <1>3, <2>3 DEF AskFirst
<1>4. CASE AskNext
  <2>1. walked + 1 \in Int /\ asked.size \in 1 .. MaxSize /\ walked \in Nat
    BY DEF TypeOK, BoundPage
  <2>2. bindPage(walked + 1, asked.size) = [page |-> walked + 1, size |-> asked.size]
    BY <2>1, PagingAssumption DEF bindPage, PagingAssumption
  <2>3. asked' \in BoundPage /\ asked'.page = walked + 1 /\ asked'.size = asked.size
    BY <1>4, <2>1, <2>2 DEF AskNext, BoundPage
  <2> QED BY <1>4, <2>3 DEF AskNext, table
<1>5. CASE Count BY <1>5 DEF Count, table
<1>6. CASE Find
  <2>1. normalizePage(asked) = asked BY NormalPage
  <2> QED BY <1>6, <2>1 DEF Find, Answer, table
<1>7. CASE AskSummary BY <1>7 DEF AskSummary, table, list
<1>8. CASE CountTotal BY <1>8 DEF CountTotal, Query, table, list
<1>9. CASE CountTransitions BY <1>9 DEF CountTransitions, Query, table, list
<1>10. CASE CountActors BY <1>10 DEF CountActors, Query, table, list
<1>11. CASE GroupActions BY <1>11 DEF GroupActions, Query, table, list
<1>12. CASE GroupEntities BY <1>12 DEF GroupEntities, Query, table, list
<1>13. CASE Fails BY <1>13 DEF Fails, table
<1>14. CASE UNCHANGED vars BY <1>14 DEF vars, table, list
<1> QED BY <1>1, <1>2, <1>3, <1>4, <1>5, <1>6, <1>7, <1>8, <1>9, <1>10, <1>11,
           <1>12, <1>13, <1>14 DEF Next

\* The rows listed before row i.
Ahead(i) == {j \in Matching : Before(j, i)}

\* While nothing leaves the list, it only grows, and a row that stays as it is
\* keeps all the rows ahead of it.
LEMMA ListGrows ==
    ASSUME TypeOK, Bookkeeping, Promised, Writers, ~left'
    PROVE  /\ ~left
           /\ Matching \subseteq Matching'
           /\ \A k \in owed' : k \in owed /\ Ahead(k) \subseteq Ahead(k)'
<1>1. PICK i \in Ids : Insert(i) \/ Touch(i) \/ Remove(i) BY DEF Writers
<1>2. endpoint' = endpoint BY DEF Writers
<1>3. CASE Insert(i)
  <2>1. ~rows[i].live BY <1>3 DEF Insert, Bookkeeping
  <2>2. \A j \in Ids : j # i => rows'[j] = rows[j] BY <1>3 DEF Insert, TypeOK
  <2>3. ~left /\ owed' = owed BY <1>3 DEF Insert
  <2>4. Matching \subseteq Matching' /\ i \notin Matching
    BY <2>1, <2>2 DEF Matching
  <2>5. owed \subseteq Matching BY <2>3 DEF Promised
  <2>6. \A j, k \in Matching : Before(j, k) => Before(j, k)'
    BY <1>2, <2>2, <2>4 DEF Before, Matching
  <2> QED BY <2>3, <2>4, <2>5, <2>6 DEF Ahead
<1>4. CASE Touch(i)
  <2>1. PICK t \in Now, w \in Contents[endpoint] :
           /\ t >= rows[i].stamp
           /\ rows' = [rows EXCEPT ![i] = [live |-> TRUE, stamp |-> t, what |-> w]]
           /\ left' = (left \/ (i \in Matching /\ ~w.match))
    BY <1>4 DEF Touch
  <2>2. \A j \in Ids : j # i => rows'[j] = rows[j] BY <2>1 DEF TypeOK
  <2>3. rows'[i] = [live |-> TRUE, stamp |-> t, what |-> w] BY <2>1 DEF TypeOK
  <2>4. ~left /\ (i \in Matching => w.match) BY <2>1
  <2>5. owed' = owed \ {i} /\ owed \subseteq Matching BY <1>4, <2>4 DEF Touch, Promised
  <2>6. Matching \subseteq Matching' BY <2>2, <2>3, <2>4 DEF Matching
  <2>7. t \in Int /\ \A j \in Ids : rows[j].stamp \in Int
    BY RowTyped DEF TypeOK
  <2>8. \A j, k \in Matching : k # i /\ Before(j, k) => Before(j, k)'
    BY <1>2, <2>1, <2>2, <2>3, <2>7 DEF Before, Matching
  <2> QED BY <2>4, <2>5, <2>6, <2>8 DEF Ahead
<1>5. CASE Remove(i)
  <2>1. ~left /\ i \notin Matching /\ owed' = owed BY <1>5 DEF Remove
  <2>2. \A j \in Ids : j # i => rows'[j] = rows[j] BY <1>5 DEF Remove, TypeOK
  <2>3. Matching \subseteq Matching' BY <2>1, <2>2 DEF Matching
  <2>4. owed \subseteq Matching BY <2>1 DEF Promised
  <2>5. \A j, k \in Matching : Before(j, k) => Before(j, k)'
    BY <1>2, <2>1, <2>2 DEF Before, Matching
  <2> QED BY <2>1, <2>3, <2>4, <2>5 DEF Ahead
<1> QED BY <1>1, <1>3, <1>4, <1>5

\* Larger sets of rows have more rows.
LEMMA Larger ==
    ASSUME NEW T \in SUBSET Ids, NEW S \in SUBSET T
    PROVE  /\ Cardinality(S) \in Nat /\ Cardinality(T) \in Nat
           /\ Cardinality(S) <= Cardinality(T)
<1>1. S \in SUBSET Ids OBVIOUS
<1>2. IsFiniteSet(T) /\ Cardinality(S) \in Nat /\ Cardinality(T) \in Nat
  BY <1>1, Countable, PagingAssumption DEF PagingAssumption
<1> QED BY <1>2, FS_Subset

LEMMA Ranges == Matching \in SUBSET Ids /\ \A i : Ahead(i) \in SUBSET Matching
BY DEF Matching, Ahead

\* The steps that neither change the table nor read a page.
LEMMA ElsewhereShape ==
    ASSUME [Next]_vars, ~Writers, ~Find
    PROVE  /\ UNCHANGED <<endpoint, rows>>
           /\ \/ AskFirst \/ AskNext \/ Count
              \/ /\ UNCHANGED <<left, owed, walked, read, meta, items>>
                 /\ pc' = "find" => pc = "find" /\ total' = total
<1>1. CASE Tick BY <1>1 DEF Tick, list
<1>2. CASE AskFirst BY <1>2 DEF AskFirst
<1>3. CASE AskNext BY <1>3 DEF AskNext, table
<1>4. CASE Count BY <1>4 DEF Count, table
<1>5. CASE AskSummary BY <1>5 DEF AskSummary, table, list
<1>6. CASE CountTotal BY <1>6 DEF CountTotal, Query, table, list
<1>7. CASE CountTransitions BY <1>7 DEF CountTransitions, Query, table, list
<1>8. CASE CountActors BY <1>8 DEF CountActors, Query, table, list
<1>9. CASE GroupActions BY <1>9 DEF GroupActions, Query, table, list
<1>10. CASE GroupEntities BY <1>10 DEF GroupEntities, Query, table, list
<1>11. CASE Fails BY <1>11 DEF Fails, table
<1>12. CASE UNCHANGED vars BY <1>12 DEF vars, table, list
<1> QED BY <1>1, <1>2, <1>3, <1>4, <1>5, <1>6, <1>7, <1>8, <1>9, <1>10, <1>11,
           <1>12 DEF Next

LEMMA PromisedKept ==
    ASSUME TypeOK, Bookkeeping, Promised, [Next]_vars PROVE Promised'
<1>1. SUFFICES ASSUME ~left'
               PROVE  /\ owed' \subseteq Matching'
                      /\ pc' = "find" => total' <= Cardinality(Matching)'
  BY DEF Promised
<1>2. CASE Writers
  <2>1. ~left /\ Matching \subseteq Matching' /\ owed' \subseteq owed
    BY <1>1, <1>2, ListGrows
  <2>2. Matching' \in SUBSET Ids BY DEF Matching, Ids
  <2>3. /\ Cardinality(Matching) \in Nat /\ Cardinality(Matching') \in Nat
        /\ Cardinality(Matching) <= Cardinality(Matching')
    BY <2>1, <2>2, Larger
  <2>4. total' = total /\ pc' = pc /\ total \in Nat
    BY <1>2, PagingAssumption DEF Writers, TypeOK, PagingAssumption
  <2> QED BY <2>1, <2>3, <2>4 DEF Promised
<1>3. CASE Find
  <2>1. rows' = rows /\ left' = left /\ owed' \subseteq owed /\ pc' = "idle"
    BY <1>3 DEF Find, table
  <2> QED BY <1>1, <2>1 DEF Promised, Matching
<1>4. CASE ~Writers /\ ~Find
  <2>1. Matching' = Matching BY <1>4, ElsewhereShape DEF Matching
  <2>2. CASE AskFirst BY <2>1, <2>2 DEF AskFirst
  <2>3. CASE AskNext BY <1>1, <2>1, <2>3 DEF AskNext, table, Promised
  <2>4. CASE Count
    <3>1. Cardinality(Matching) \in Nat BY Ranges, Larger
    <3> QED BY <1>1, <2>1, <2>4, <3>1 DEF Count, table, Promised
  <2> QED BY <1>1, <1>4, <2>1, <2>2, <2>3, <2>4, ElsewhereShape DEF Promised
<1> QED BY <1>2, <1>3, <1>4

\* What the two queries of a page say of it, in the words of the model.
LEMMA PageRead ==
    ASSUME TypeOK, Bookkeeping, Find
    PROVE  \E skipped \in SUBSET Matching, upto \in SUBSET Matching :
               /\ skipped \in Leading(walked * asked.size)
               /\ upto \in Leading(walked * asked.size + asked.size)
               /\ skipped \subseteq upto
               /\ items' = upto \ skipped /\ owed' = owed \ (upto \ skipped)
               /\ read' = asked /\ meta'.total = total /\ walked' = walked + 1
               /\ UNCHANGED <<endpoint, rows, left>>
<1>1. normalizePage(asked) = asked BY NormalPage DEF Bookkeeping
<1>2. asked.page = walked + 1 /\ walked \in Nat BY DEF Bookkeeping, Find, TypeOK
<1>3. Offset(asked) = walked * asked.size BY <1>2 DEF Offset
<1> QED BY <1>1, <1>3 DEF Find, Leading, Answer, table

\* The page after those of size s that make up the first n * s rows.
LEMMA OnePageOn ==
    ASSUME NEW n \in Nat, NEW s \in Nat
    PROVE  /\ n * s \in Nat /\ (n + 1) * s = n * s + s
           /\ (n + 1 - 1) * s = n * s
OBVIOUS

LEMMA SkipsNothingKept ==
    ASSUME TypeOK, Bookkeeping, Promised, WalkSkipsNothing, [Next]_vars
    PROVE  WalkSkipsNothing'
<1>1. SUFFICES ASSUME ~left', NEW i \in owed', Ordered(i)'
               PROVE  Cardinality(Ahead(i)') >= walked' * read'.size
  BY DEF WalkSkipsNothing, Ahead
<1>2. /\ walked \in Nat /\ read.size \in Nat /\ asked.size \in Nat
      /\ endpoint \in Endpoints
  BY PagingAssumption DEF TypeOK, Bookkeeping, BoundPage, PagingAssumption, Page
<1>3. CASE Writers
  <2>1. ~left /\ i \in owed /\ Matching \subseteq Matching' /\ Ahead(i) \subseteq Ahead(i)'
    BY <1>1, <1>3, ListGrows
  <2>2. Ahead(i)' \in SUBSET Ids BY DEF Ahead, Matching, Ids
  <2>3. /\ Cardinality(Ahead(i)) \in Nat /\ Cardinality(Ahead(i)') \in Nat
        /\ Cardinality(Ahead(i)) <= Cardinality(Ahead(i)')
    BY <2>1, <2>2, Larger
  <2>4. Ordered(i)
    <3>1. endpoint' = endpoint BY <1>3 DEF Writers
    <3>2. SUFFICES ASSUME endpoint = "audits", NEW j \in Matching, j # i
                   PROVE  rows[j].stamp # rows[i].stamp
      BY DEF Ordered
    <3>3. i \in Matching BY <2>1 DEF Promised
    <3>4. \E k \in Ids : Insert(k) BY <1>3, <3>2 DEF Writers, Touch, Remove
    <3>5. \A k \in Matching : rows'[k] = rows[k]
      BY <3>4 DEF Insert, TypeOK, Bookkeeping, Matching
    <3> QED BY <1>1, <2>1, <3>1, <3>2, <3>3, <3>5 DEF Ordered
  <2>5. Cardinality(Ahead(i)) >= walked * read.size
    BY <2>1, <2>4 DEF WalkSkipsNothing, Ahead
  <2>6. walked' = walked /\ read' = read BY <1>3 DEF Writers
  <2>7. walked * read.size \in Nat BY <1>2, OnePageOn
  <2> QED BY <2>3, <2>5, <2>6, <2>7
<1>4. CASE Find
  <2>1. PICK skipped \in SUBSET Matching, upto \in SUBSET Matching :
               /\ skipped \in Leading(walked * asked.size)
               /\ upto \in Leading(walked * asked.size + asked.size)
               /\ skipped \subseteq upto
               /\ items' = upto \ skipped /\ owed' = owed \ (upto \ skipped)
               /\ read' = asked /\ meta'.total = total /\ walked' = walked + 1
               /\ UNCHANGED <<endpoint, rows, left>>
    BY <1>4, PageRead
  <2> DEFINE n == walked * asked.size
  <2>2. n \in Nat /\ walked' * read'.size = n + asked.size /\ walked * read.size = n
    <3>1. CASE walked = 0
      <4>1. walked * read.size = 0 /\ n = 0 BY <1>2, <3>1
      <4>2. walked' = 1 /\ read'.size = asked.size BY <2>1, <3>1
      <4>3. walked' * read'.size = 1 * asked.size BY <4>2
      <4>4. 1 * asked.size = asked.size BY <1>2
      <4> HIDE DEF n
      <4> QED BY <1>2, <4>1, <4>3, <4>4
    <3>2. CASE walked > 0
      <4>1. read.size = asked.size BY <3>2 DEF Bookkeeping
      <4> QED BY <1>2, <2>1, <4>1, OnePageOn
    <3> QED BY <1>2, <3>1, <3>2
  <2>3. i \in owed /\ ~left /\ i \in Matching /\ i \notin upto \ skipped
    BY <1>1, <2>1 DEF Promised
  <2>4. Ordered(i) /\ Ahead(i)' = Ahead(i)
    BY <1>1, <2>1 DEF Ordered, Ahead, Matching, Before
  <2>5. Cardinality(Ahead(i)) >= n
    BY <2>2, <2>3, <2>4 DEF WalkSkipsNothing, Ahead
  <2>6. \A j \in Ids : rows[j].stamp \in Int BY DEF TypeOK
  <2>7. i \in Ids /\ i \notin Ahead(i) BY <2>3, <2>6 DEF Matching, Ahead, Before, Ids
  <2>8. i \notin skipped
    <3>1. SUFFICES ASSUME i \in skipped PROVE FALSE OBVIOUS
    <3>2. Ahead(i) \cup {i} \in SUBSET skipped
      BY <2>1, <3>1 DEF Leading, Ahead
    <3>3. skipped \in SUBSET Ids /\ Ahead(i) \in SUBSET Ids BY Ranges, <2>1
    <3>4. IsFiniteSet(Ahead(i)) /\ Cardinality(Ahead(i)) \in Nat
      BY <3>3, Countable, PagingAssumption DEF PagingAssumption
    <3>5. Cardinality(Ahead(i) \cup {i}) = Cardinality(Ahead(i)) + 1
      BY <2>7, <3>4, FS_AddElement
    <3>6. /\ Cardinality(Ahead(i) \cup {i}) <= Cardinality(skipped)
          /\ Cardinality(skipped) \in Nat
      BY <3>2, <3>3, Larger
    <3>7. Cardinality(skipped) <= n BY <2>1 DEF Leading
    <3> QED BY <2>2, <2>5, <3>4, <3>5, <3>6, <3>7
  <2>9. Cardinality(upto) = n + asked.size
    BY <2>1, <2>3, <2>8 DEF Leading
  <2>10. upto \in SUBSET Ahead(i)
    <3>1. SUFFICES ASSUME NEW j \in upto PROVE Before(j, i)
      BY <2>1 DEF Ahead
    <3>2. j # i /\ j \in Matching /\ j \in Ids BY <2>1, <2>3, <2>8 DEF Matching
    <3>3. ~Before(i, j) BY <2>1, <2>3, <2>8 DEF Leading
    <3>4. endpoint # "summary" BY <1>4 DEF Find, Bookkeeping
    <3>5. Before(i, j) \/ Before(j, i)
      BY <1>2, <2>4, <2>6, <2>7, <3>2, <3>4 DEF Ordered, Before, Endpoints, Ids
    <3> QED BY <3>3, <3>5
  <2>11. /\ Cardinality(upto) <= Cardinality(Ahead(i))
         /\ Cardinality(Ahead(i)) \in Nat /\ Cardinality(upto) \in Nat
    BY <2>10, Ranges, Larger
  <2> QED BY <2>2, <2>4, <2>9, <2>11
<1>5. CASE ~Writers /\ ~Find
  <2>1. UNCHANGED <<endpoint, rows>> BY <1>5, ElsewhereShape
  <2>2. Ahead(i)' = Ahead(i) /\ (Ordered(i)' <=> Ordered(i))
    BY <2>1 DEF Ahead, Matching, Before, Ordered
  <2>3. CASE AskFirst
    <3>1. walked' = 0 /\ read' = FirstPage BY <2>3 DEF AskFirst
    <3>2. walked' * read'.size = 0
      BY <3>1, PagingAssumption DEF FirstPage, PagingAssumption
    <3>3. Cardinality(Ahead(i)) \in Nat BY Ranges, Larger
    <3> QED BY <2>2, <3>2, <3>3
  <2>4. CASE ~AskFirst
    <3>1. UNCHANGED <<left, owed, walked, read>>
      BY <1>5, <2>4, ElsewhereShape DEF AskNext, Count, table
    <3> QED BY <1>1, <2>2, <3>1 DEF WalkSkipsNothing, Ahead
  <2> QED BY <2>3, <2>4
<1> QED BY <1>3, <1>4, <1>5

LEMMA PageHoldsKept ==
    ASSUME TypeOK, Bookkeeping, Promised, PageHoldsItsTotal, [Next]_vars
    PROVE  PageHoldsItsTotal'
<1>1. CASE Writers
  <2>1. UNCHANGED <<walked, items, read, meta>> BY <1>1 DEF Writers
  <2>2. ~left' => ~left BY <1>1 DEF Writers, Insert, Touch, Remove
  <2> QED BY <2>1, <2>2 DEF PageHoldsItsTotal, Offset
<1>2. CASE Find
  <2>1. PICK skipped \in SUBSET Matching, upto \in SUBSET Matching :
               /\ skipped \in Leading(walked * asked.size)
               /\ upto \in Leading(walked * asked.size + asked.size)
               /\ skipped \subseteq upto
               /\ items' = upto \ skipped /\ owed' = owed \ (upto \ skipped)
               /\ read' = asked /\ meta'.total = total /\ walked' = walked + 1
               /\ UNCHANGED <<endpoint, rows, left>>
    BY <1>2, PageRead
  <2> DEFINE n == walked * asked.size
  <2>2. /\ walked \in Nat /\ asked.size \in Nat /\ n \in Nat
        /\ asked.page = walked + 1
    <3>1. walked \in Nat /\ asked.size \in Nat
      BY PagingAssumption DEF TypeOK, Bookkeeping, BoundPage, PagingAssumption
    <3> QED BY <1>2, <3>1, OnePageOn DEF Find, Bookkeeping
  <2>3. Offset(read)' = n BY <2>1, <2>2 DEF Offset
  <2>4. skipped \in SUBSET Ids /\ upto \in SUBSET Ids BY <2>1, Ranges
  <2>5. /\ Cardinality(upto) \in Nat /\ Cardinality(skipped) \in Nat
        /\ IsFiniteSet(upto)
    BY <2>4, Countable, PagingAssumption DEF PagingAssumption
  <2>6. Cardinality(items') = Cardinality(upto) - Cardinality(skipped)
    <3>1. upto \cap skipped = skipped BY <2>1
    <3>2. Cardinality(upto \ skipped) = Cardinality(upto) - Cardinality(upto \cap skipped)
      BY <2>5, FS_Difference
    <3>3. items' = upto \ skipped BY <2>1
    <3> QED BY <3>1, <3>2, <3>3
  <2>7. Cardinality(skipped) <= n BY <2>1 DEF Leading
  <2>8. CASE upto # Matching
    <3>1. Cardinality(upto) = n + asked.size BY <2>1, <2>8 DEF Leading
    <3>2. Cardinality(items') >= read'.size BY <2>1, <2>2, <2>5, <2>6, <2>7, <3>1
    <3> QED BY <3>2 DEF PageHoldsItsTotal
  <2>9. CASE upto = Matching
    <3>1. SUFFICES ASSUME ~left' PROVE Cardinality(items') >= meta'.total - Offset(read)'
      BY DEF PageHoldsItsTotal
    <3>2. total <= Cardinality(Matching) BY <1>2, <2>1, <3>1 DEF Promised, Find
    <3>3. total \in Nat BY PagingAssumption DEF TypeOK, PagingAssumption
    <3> QED BY <2>1, <2>2, <2>3, <2>5, <2>6, <2>7, <2>9, <3>2, <3>3
  <2> QED BY <2>8, <2>9
<1>3. CASE ~Writers /\ ~Find
  <2>1. CASE AskFirst BY <2>1 DEF AskFirst, PageHoldsItsTotal
  <2>2. CASE ~AskFirst
    <3>1. UNCHANGED <<left, walked, items, read, meta>>
      BY <1>3, <2>2, ElsewhereShape DEF AskNext, Count, table
    <3> QED BY <3>1 DEF PageHoldsItsTotal, Offset
  <2> QED BY <2>1, <2>2
<1> QED BY <1>1, <1>2, <1>3

LEMMA Invariant == Spec => []IInv
<1>1. Init => IInv
  <2>1. SUFFICES ASSUME Init PROVE IInv OBVIOUS
  <2>2. TypeOK BY <2>1, InitTyped
  <2>3. Bookkeeping
    BY <2>1, PagingAssumption
       DEF Init, Bookkeeping, MetaNamesPageRead, BoundPage, FirstPage, NoRow, PagingAssumption
  <2>4. Promised /\ WalkSkipsNothing /\ PageHoldsItsTotal
    BY <2>1 DEF Init, Promised, WalkSkipsNothing, PageHoldsItsTotal
  <2> QED BY <2>2, <2>3, <2>4 DEF IInv
<1>2. IInv /\ [Next]_vars => IInv'
  BY Typing, BookkeepingKept, PromisedKept, SkipsNothingKept, PageHoldsKept DEF IInv
<1> QED BY <1>1, <1>2, PTL DEF Spec

\* A walk skips nothing: the rows ahead of one not yet shown never become fewer
\* while no row leaves the list, and each page read takes the next of them.
THEOREM WalksComplete == Spec => []WalkSkipsNothing
<1>1. IInv => WalkSkipsNothing BY DEF IInv
<1> QED BY <1>1, Invariant, PTL

\* A page holds what its total says: it was counted first, and the list has
\* only grown since.
THEOREM PagesHoldTotals == Spec => []PageHoldsItsTotal
<1>1. IInv => PageHoldsItsTotal BY DEF IInv
<1> QED BY <1>1, Invariant, PTL

\* Every answer names the page it was read from.
THEOREM MetaTruthful == Spec => []MetaNamesPageRead
<1>1. IInv => MetaNamesPageRead BY DEF IInv, Bookkeeping
<1> QED BY <1>1, Invariant, PTL
-----------------------------------------------------------------------------
(* The audit summary *)

\* The units of a table of counts are its cells.
LEMMA Cells ==
    ASSUME NEW D, NEW f, DOMAIN f = D
    PROVE  \A u : u \in Units(f) <=> \E x \in D : \E n \in 1 .. f[x] : u = <<x, n>>
<1>1. ASSUME NEW A, NEW x, NEW u PROVE u \in {x} \X A <=> \E n \in A : u = <<x, n>>
  OBVIOUS
<1>2. \A u : u \in Units(f) <=> \E x \in D : u \in {x} \X (1 .. f[x]) BY DEF Units
<1> QED BY <1>1, <1>2

\* The groups of a set, counted one by one, add up to the set: number the
\* members of each group, and group and number tell a member from every other.
LEMMA SumOfGroups ==
    ASSUME NEW S, IsFiniteSet(S), NEW D, NEW g \in [S -> D], NEW f,
           DOMAIN f = D, \A x \in D : f[x] = Cardinality({i \in S : g[i] = x})
    PROVE  Sum(f) = Cardinality(S)
<1> DEFINE Group(x) == {i \in S : g[i] = x}
           Places(x) == 1 .. f[x]
<1>1. \A x \in D : IsFiniteSet(Group(x)) BY FS_Subset
<1>2. \A x \in D : f[x] = Cardinality(Group(x)) OBVIOUS
<1>3. \A x \in D : \E b : b \in Bijection(Places(x), Group(x))
  BY <1>1, <1>2, FS_CardinalityType DEF ExistsBijection
<1>4. \A u : u \in Units(f) <=> \E x \in D : \E n \in Places(x) : u = <<x, n>>
  BY Cells
<1>5. /\ \A i \in S : i \in Group(g[i]) /\ g[i] \in D
      /\ \A x, i : i \in Group(x) => i \in S /\ g[i] = x
  OBVIOUS
<1> DEFINE num == [x \in D |-> CHOOSE b : b \in Bijection(Places(x), Group(x))]
<1> HIDE DEF Group, Places
<1>6. \A x \in D : num[x] \in Bijection(Places(x), Group(x)) BY <1>3
<1> HIDE DEF num
<1>7. ASSUME NEW x \in D
      PROVE  /\ \A n \in Places(x) : num[x][n] \in Group(x)
             /\ \A n, k \in Places(x) : num[x][n] = num[x][k] => n = k
             /\ \A i \in Group(x) : \E n \in Places(x) : num[x][n] = i
  <2> DEFINE b == num[x]
  <2>1. b \in Bijection(Places(x), Group(x)) BY <1>6
  <2> HIDE DEF b
  <2>2. /\ b \in [Places(x) -> Group(x)]
        /\ \A n, k \in Places(x) : b[n] = b[k] => n = k
        /\ \A i \in Group(x) : \E n \in Places(x) : b[n] = i
    BY <2>1, Fun_BijectionProperties
  <2> QED BY <2>2 DEF b
<1> DEFINE h == [u \in Units(f) |-> num[u[1]][u[2]]]
<1>8. \A x \in D : \A n \in Places(x) :
          <<x, n>> \in Units(f) /\ h[<<x, n>>] = num[x][n]
  BY <1>4
<1> HIDE DEF h
<1>9. ASSUME NEW x \in D, NEW n \in Places(x)
      PROVE  h[<<x, n>>] \in S /\ g[h[<<x, n>>]] = x
  <2>1. num[x][n] \in Group(x) BY <1>7
  <2>2. num[x][n] \in S /\ g[num[x][n]] = x BY <1>5, <2>1
  <2> QED BY <1>8, <2>2
<1>10. h \in [Units(f) -> S]
  <2>1. \A u \in Units(f) : h[u] \in S BY <1>4, <1>9
  <2> QED BY <2>1 DEF h
<1>11. ASSUME NEW u \in Units(f), NEW v \in Units(f), h[u] = h[v] PROVE u = v
  <2>1. PICK x \in D : \E n \in Places(x) : u = <<x, n>> BY <1>4
  <2>2. PICK n \in Places(x) : u = <<x, n>> BY <2>1
  <2>3. PICK y \in D : \E k \in Places(y) : v = <<y, k>> BY <1>4
  <2>4. PICK k \in Places(y) : v = <<y, k>> BY <2>3
  <2>5. x = y BY <1>9, <1>11, <2>2, <2>4
  <2>6. num[x][n] = num[x][k] BY <1>8, <1>11, <2>2, <2>4, <2>5
  <2> QED BY <1>7, <2>2, <2>4, <2>5, <2>6
<1>12. ASSUME NEW i \in S PROVE \E u \in Units(f) : h[u] = i
  <2>1. g[i] \in D /\ i \in Group(g[i]) BY <1>5
  <2>2. PICK n \in Places(g[i]) : num[g[i]][n] = i BY <1>7, <2>1
  <2> QED BY <1>8, <2>1, <2>2
<1>13. h \in Bijection(Units(f), S) BY <1>10, <1>11, <1>12, Fun_IsBij
<1>14. ExistsBijection(S, Units(f)) BY <1>13, Fun_ExistsBijSymmetric DEF ExistsBijection
<1> QED BY <1>14, FS_Bijection DEF Sum

\* The transitions in the window.
Transitions == {i \in Recent : rows[i].what.action = "transition"}

\* What each query leaves behind: what it found is no more than what is in the
\* window now, and in the end no more than what a later query found.
Summed ==
    /\ pc \in {"total", "transitions", "actors", "actions", "entities", "summed"} =>
           endpoint = "summary"
    /\ pc \in {"transitions", "actors", "actions"} =>
           summary.total <= Cardinality(Recent)
    /\ pc \in {"actors", "actions"} => summary.transitions <= Cardinality(Transitions)
    /\ pc = "actions" => summary.actors <= Cardinality(Recent)
    /\ pc \in {"entities", "summed"} =>
           /\ summary.total <= Sum(summary.actions)
           /\ summary.transitions <= summary.actions["transition"]
           /\ summary.actors <= Sum(summary.actions)
    /\ pc = "entities" =>
           Sum(summary.actions) \in Nat /\ Sum(summary.actions) <= Cardinality(Recent)
    /\ pc = "summed" => Sum(summary.actions) <= Sum(summary.entities)

\* The numbers of the rows in the window.
LEMMA WindowSizes ==
    ASSUME TypeOK
    PROVE  /\ Recent \in SUBSET Ids /\ Transitions \in SUBSET Recent
           /\ IsFiniteSet(Recent) /\ IsFiniteSet(Transitions)
           /\ Cardinality(Recent) \in Nat /\ Cardinality(Transitions) \in Nat
           /\ \A i \in Recent : rows[i].what \in Content
<1>1. Recent \in SUBSET Ids /\ Transitions \in SUBSET Recent BY DEF Recent, Transitions
<1>2. Transitions \in SUBSET Ids BY <1>1
<1> QED BY <1>1, <1>2, Countable, PagingAssumption DEF PagingAssumption, TypeOK

\* The three ways the rows in the window are counted by what they hold.
LEMMA GroupsAddUp ==
    ASSUME TypeOK
    PROVE  /\ Cardinality({rows[i].what.actor : i \in Recent}) <= Cardinality(Recent)
           /\ Sum([x \in Actions |-> Cardinality({i \in Recent : rows[i].what.action = x})])
                  = Cardinality(Recent)
           /\ Sum([e \in Entities |-> Cardinality({i \in Recent : rows[i].what.entity = e})])
                  = Cardinality(Recent)
<1>1. IsFiniteSet(Recent) /\ \A i \in Recent : rows[i].what \in Content BY WindowSizes
<1>2. Cardinality({rows[i].what.actor : i \in Recent}) <= Cardinality(Recent)
  <2> DEFINE A == {rows[i].what.actor : i \in Recent}
             a == [i \in Recent |-> rows[i].what.actor]
  <2>1. a \in [Recent -> A] /\ \A x \in A : \E i \in Recent : a[i] = x OBVIOUS
  <2>2. a \in Surjection(Recent, A) BY <2>1, Fun_IsSurj
  <2> QED BY <1>1, <2>2, FS_Surjection
<1>3. Sum([x \in Actions |-> Cardinality({i \in Recent : rows[i].what.action = x})])
          = Cardinality(Recent)
  <2> DEFINE g == [i \in Recent |-> rows[i].what.action]
             f == [x \in Actions |-> Cardinality({i \in Recent : rows[i].what.action = x})]
  <2>1. g \in [Recent -> Actions] BY <1>1 DEF Content
  <2>2. \A x : {i \in Recent : rows[i].what.action = x} = {i \in Recent : g[i] = x} OBVIOUS
  <2> HIDE DEF g
  <2>3. /\ DOMAIN f = Actions
        /\ \A x \in Actions : f[x] = Cardinality({i \in Recent : g[i] = x})
    BY <2>2
  <2> HIDE DEF f
  <2>4. Sum(f) = Cardinality(Recent) BY <1>1, <2>1, <2>3, SumOfGroups
  <2> QED BY <2>4 DEF f
<1>4. Sum([e \in Entities |-> Cardinality({i \in Recent : rows[i].what.entity = e})])
          = Cardinality(Recent)
  <2> DEFINE g == [i \in Recent |-> rows[i].what.entity]
             f == [e \in Entities |-> Cardinality({i \in Recent : rows[i].what.entity = e})]
  <2>1. g \in [Recent -> Entities] BY <1>1 DEF Content
  <2>2. \A x : {i \in Recent : rows[i].what.entity = x} = {i \in Recent : g[i] = x} OBVIOUS
  <2> HIDE DEF g
  <2>3. /\ DOMAIN f = Entities
        /\ \A x \in Entities : f[x] = Cardinality({i \in Recent : g[i] = x})
    BY <2>2
  <2> HIDE DEF f
  <2>4. Sum(f) = Cardinality(Recent) BY <1>1, <2>1, <2>3, SumOfGroups
  <2> QED BY <2>4 DEF f
<1> QED BY <1>2, <1>3, <1>4

\* While a summary is put together its window only fills: audits are never
\* edited or removed.
LEMMA WindowFills ==
    ASSUME TypeOK, TypeOK', Bookkeeping, endpoint = "summary",
           Writers \/ UNCHANGED rows, since' = since
    PROVE  /\ Cardinality(Recent) <= Cardinality(Recent')
           /\ Cardinality(Transitions) <= Cardinality(Transitions')
<1>1. ASSUME NEW i \in Recent PROVE i \in Ids /\ rows'[i] = rows[i]
  <2>1. i \in Ids /\ rows[i].live BY DEF Recent
  <2>2. CASE Writers
    <3>1. PICK j \in Ids : Insert(j) BY <2>2 DEF Writers, Touch, Remove
    <3>2. ~rows[j].live BY <3>1 DEF Insert, Bookkeeping
    <3> QED BY <2>1, <3>1, <3>2 DEF Insert, TypeOK
  <2> QED BY <2>1, <2>2
<1>2. Recent \subseteq Recent' /\ Transitions \subseteq Transitions'
  BY <1>1 DEF Recent, Transitions
<1>3. Recent' \in SUBSET Ids /\ Transitions' \in SUBSET Ids
  BY DEF Recent, Transitions, Ids
<1>4. Cardinality(Recent) <= Cardinality(Recent') BY <1>2, <1>3, Larger
<1>5. Cardinality(Transitions) <= Cardinality(Transitions') BY <1>2, <1>3, Larger
<1> QED BY <1>4, <1>5

\* The counts found, as numbers.
LEMMA SumsTyped ==
    ASSUME TypeOK
    PROVE  /\ summary.total \in Nat /\ summary.transitions \in Nat /\ summary.actors \in Nat
           /\ \A x \in Actions : summary.actions[x] \in Nat
           /\ summary \in Found
<1>1. summary \in Found BY DEF TypeOK
<1>2. 0 .. MaxRows \subseteq Nat BY PagingAssumption DEF PagingAssumption
<1> QED BY <1>1, <1>2 DEF Found

LEMMA SummedKept ==
    ASSUME TypeOK, Bookkeeping, Summed, [Next]_vars PROVE Summed'
<1>1. TypeOK' BY Typing
<1>2. /\ Cardinality(Recent) \in Nat /\ Cardinality(Transitions) \in Nat
      /\ Cardinality(Recent') \in Nat /\ Cardinality(Transitions') \in Nat
  <2>1. Recent' \in SUBSET Ids /\ Transitions' \in SUBSET Ids
    BY DEF Recent, Transitions, Ids
  <2> QED BY <2>1, WindowSizes, Countable, PagingAssumption DEF PagingAssumption
<1>3. ASSUME Writers \/ UNCHANGED rows, UNCHANGED <<endpoint, pc, since, summary>>
      PROVE  Summed'
  <2>1. CASE endpoint = "summary"
    <3>1. /\ Cardinality(Recent) <= Cardinality(Recent')
          /\ Cardinality(Transitions) <= Cardinality(Transitions')
      BY <1>1, <1>3, <2>1, WindowFills
    <3>2. pc = "entities" => Sum(summary.actions) <= Cardinality(Recent')
      BY <1>2, <3>1 DEF Summed
    <3> QED BY <1>2, <1>3, <3>1, <3>2, SumsTyped DEF Summed
  <2>2. CASE endpoint # "summary" BY <1>3, <2>2 DEF Summed
  <2> QED BY <2>1, <2>2
<1>4. CASE Writers BY <1>3, <1>4 DEF Writers, sums
<1>5. CASE Tick BY <1>3, <1>5 DEF Tick, sums
<1>6. CASE AskFirst BY <1>6 DEF AskFirst, Summed
<1>7. CASE AskNext
  <2>1. pc' = "count" BY <1>7 DEF AskNext
  <2> QED BY <2>1 DEF Summed
<1>8. CASE Count BY <1>8 DEF Count, Summed
<1>9. CASE Find BY <1>9 DEF Find, Summed
<1>10. CASE AskSummary BY <1>10 DEF AskSummary, Summed
<1>11. ASSUME NEW this, NEW next, NEW found, Query(this, next, found)
       PROVE  /\ pc = this /\ pc' = next /\ endpoint' = endpoint
              /\ Recent' = Recent /\ Transitions' = Transitions
              /\ summary' = [summary EXCEPT ![this] = found]
  BY <1>11 DEF Query, table, Recent, Transitions
<1>12. CASE CountTotal
  <2>1. /\ pc = "total" /\ pc' = "transitions" /\ endpoint' = endpoint /\ Recent' = Recent
        /\ summary' = [summary EXCEPT !.total = Cardinality(Recent)]
    BY <1>11, <1>12 DEF CountTotal
  <2>2. summary'.total = Cardinality(Recent) BY <2>1, SumsTyped DEF Found
  <2> QED BY <1>2, <2>1, <2>2 DEF Summed
<1>13. CASE CountTransitions
  <2>1. /\ pc = "transitions" /\ pc' = "actors" /\ endpoint' = endpoint
        /\ Recent' = Recent /\ Transitions' = Transitions
        /\ summary' = [summary EXCEPT !.transitions = Cardinality(Transitions)]
    BY <1>11, <1>13 DEF CountTransitions, Transitions
  <2>2. /\ summary'.transitions = Cardinality(Transitions)
        /\ summary'.total = summary.total
    BY <2>1, SumsTyped DEF Found
  <2> QED BY <1>2, <2>1, <2>2 DEF Summed
<1>14. CASE CountActors
  <2> DEFINE found == Cardinality({rows[i].what.actor : i \in Recent})
  <2>1. /\ pc = "actors" /\ pc' = "actions" /\ endpoint' = endpoint
        /\ Recent' = Recent /\ Transitions' = Transitions
        /\ summary' = [summary EXCEPT !.actors = found]
    BY <1>11, <1>14 DEF CountActors
  <2>2. found <= Cardinality(Recent) BY GroupsAddUp
  <2> HIDE DEF found
  <2>3. /\ summary'.actors = found /\ summary'.total = summary.total
        /\ summary'.transitions = summary.transitions
    BY <2>1, SumsTyped DEF Found
  <2> QED BY <2>1, <2>2, <2>3 DEF Summed
<1>15. CASE GroupActions
  <2> DEFINE found == [x \in Actions |-> Cardinality({i \in Recent : rows[i].what.action = x})]
  <2>1. /\ pc = "actions" /\ pc' = "entities" /\ endpoint' = endpoint /\ Recent' = Recent
        /\ summary' = [summary EXCEPT !.actions = found]
    BY <1>11, <1>15 DEF GroupActions
  <2>2. found["transition"] = Cardinality(Transitions)
    BY PagingAssumption DEF PagingAssumption, Transitions
  <2>3. Sum(found) = Cardinality(Recent) BY GroupsAddUp
  <2> HIDE DEF found
  <2>4. /\ summary'.actions = found /\ summary'.total = summary.total
        /\ summary'.transitions = summary.transitions /\ summary'.actors = summary.actors
    BY <2>1, SumsTyped DEF Found
  <2>5. Sum(summary'.actions) = Cardinality(Recent) BY <2>3, <2>4
  <2> QED BY <1>2, <2>1, <2>2, <2>4, <2>5 DEF Summed
<1>16. CASE GroupEntities
  <2> DEFINE found == [e \in Entities |-> Cardinality({i \in Recent : rows[i].what.entity = e})]
  <2>1. /\ pc = "entities" /\ pc' = "summed" /\ endpoint' = endpoint
        /\ summary' = [summary EXCEPT !.entities = found]
    BY <1>11, <1>16 DEF GroupEntities
  <2>2. Sum(found) = Cardinality(Recent) BY GroupsAddUp
  <2> HIDE DEF found
  <2>3. /\ summary'.entities = found /\ summary'.total = summary.total
        /\ summary'.transitions = summary.transitions /\ summary'.actors = summary.actors
        /\ summary'.actions = summary.actions
    BY <2>1, SumsTyped DEF Found
  <2>4. Sum(summary'.entities) = Cardinality(Recent) BY <2>2, <2>3
  <2> QED BY <2>1, <2>3, <2>4 DEF Summed
<1>17. CASE Fails BY <1>17 DEF Fails, Summed
<1>18. CASE UNCHANGED vars BY <1>3, <1>18 DEF vars, table, sums
<1> QED BY <1>4, <1>5, <1>6, <1>7, <1>8, <1>9, <1>10, <1>12, <1>13, <1>14, <1>15,
           <1>16, <1>17, <1>18 DEF Next

\* The five queries of AuditService.Summary, between which audits are written,
\* find more and more: neither the total, nor the transitions, nor the actors
\* exceed what the groups after them show.
THEOREM SummariesGrow == Spec => []SummaryGrows
<1>1. Init => Summed BY DEF Init, Summed
<1>2. IInv /\ Summed /\ [Next]_vars => Summed' BY SummedKept DEF IInv
<1>3. Summed => SummaryGrows BY DEF Summed, SummaryGrows
<1> QED BY <1>1, <1>2, <1>3, Invariant, PTL DEF Spec
=============================================================================
