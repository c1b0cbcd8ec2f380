---------------------------- MODULE StartupProofs ----------------------------
(***************************************************************************)
(* Proofs about module Startup, for any tables, codes, seeds and number of   *)
(* attempts.  The safety properties need two facts about the database at     *)
(* once: a table holds rows only if its seeds are among those it once held,   *)
(* and the tables a start has passed are seeded.                            *)
(***************************************************************************)
EXTENDS Startup, TLAPS

Seeded(t) == \A c \in Seeds[t] : rows[t][c] # "absent"
Virgin(t) == \A c \in Codes : rows[t][c] = "absent"

\* Users come after the seeds.
SeedsFirst == \A t \in Tables : Virgin(t) \/ Seeded(t)

\* The tables before the one being visited are seeded, and all of them are
\* when Seed has returned.
Passed ==
    /\ pc \in {"count", "insert", "revise"} =>
           \A i \in DOMAIN SeedOrder : i < visit => Seeded(SeedOrder[i])
    /\ pc = "redis" \/ Up => \A t \in Tables : Seeded(t)

\* What Count found still holds at the insert, and an open transaction holds
\* the seeds of a versioned table without rows.
OpenTransaction ==
    /\ pc = "insert" => IsEmpty(Table)
    /\ pc = "revise" => Virgin(Table) /\ Table \in Versioned /\ tx = Seeds[Table]

\* What the start has not yet reached is visited from the first table on.
FirstVisit == pc \in {"dial", "ping", "again", "wait", "migrate"} => visit = 1

IInv == TypeOK /\ SeedsFirst /\ Passed /\ OpenTransaction /\ FirstVisit /\ RevisionWithEveryRow

\* A table is a position of SeedOrder, and it has seeds among the codes.
LEMMA TableFacts ==
    /\ Len(SeedOrder) \in Nat /\ Len(SeedOrder) >= 1
    /\ DOMAIN SeedOrder = 1 .. Len(SeedOrder)
    /\ \A i \in DOMAIN SeedOrder : SeedOrder[i] \in Tables
    /\ \A t \in Tables : \E i \in DOMAIN SeedOrder : t = SeedOrder[i]
    /\ \A t \in Tables : Seeds[t] \subseteq Codes /\ Seeds[t] # {}
    /\ MaxAttempts \in Nat /\ MaxAttempts >= 1
<1>1. SeedOrder \in Seq(Tables) /\ SeedOrder # <<>>
  BY StartupAssumption DEF StartupAssumption
<1>2. /\ Len(SeedOrder) \in Nat /\ Len(SeedOrder) >= 1
      /\ DOMAIN SeedOrder = 1 .. Len(SeedOrder)
  BY <1>1
<1>3. \A i \in DOMAIN SeedOrder : SeedOrder[i] \in Tables
  BY DEF Tables
<1>4. \A t \in Tables : \E i \in DOMAIN SeedOrder : t = SeedOrder[i]
  BY DEF Tables
<1>5. \A t \in Tables : Seeds[t] \subseteq Codes /\ Seeds[t] # {}
  BY StartupAssumption DEF StartupAssumption
<1>6. MaxAttempts \in Nat /\ MaxAttempts >= 1
  BY StartupAssumption DEF StartupAssumption
<1> QED BY <1>2, <1>3, <1>4, <1>5, <1>6

\* What the two writes of Seed leave is typed.
LEMMA Writing ==
    ASSUME TypeOK
    PROVE  /\ Table \in Tables
           /\ Written(Table) \in [Tables -> [Codes -> States]]
BY TableFacts DEF TypeOK, Table, Written, States

LEMMA Committing ==
    ASSUME TypeOK, CommitSeeds
    PROVE  /\ rows' \in [Tables -> [Codes -> States]]
           /\ revised' \in [Tables -> SUBSET Codes]
BY Writing DEF TypeOK, CommitSeeds

LEMMA Typing == ASSUME TypeOK, [Next]_vars PROVE TypeOK'
<1> USE DEF TypeOK, States, Steps
<1>1. ASSUME Progress PROVE TypeOK'
  <2>1. CASE Boot
    <3>1. 1 \in DOMAIN SeedOrder /\ 1 \in 1 .. MaxAttempts BY TableFacts
    <3> QED BY <2>1, <3>1 DEF Boot, database, outside
  <2>2. CASE Dial BY <2>2 DEF Dial, database, outside
  <2>3. CASE Ping BY <2>3 DEF Ping, Goto, database, outside
  <2>4. CASE PingAgain BY <2>4 DEF PingAgain, Answers, database, outside
  <2>5. CASE Wait BY <2>5, TableFacts DEF Wait, Attempt, Goto, Exit, database, outside
  <2>6. CASE Migrate BY <2>6 DEF Migrate, Goto, Exit, database, outside
  <2>7. CASE Count BY <2>7, TableFacts DEF Count, NextTable, Goto, Exit, database, outside
  <2>8. CASE Insert BY <2>8, TableFacts, Writing DEF Insert, NextTable, Goto, Exit, database, outside, Table
  <2>9. CASE Revise
    <3>1. CASE ~Answers BY <2>9, <3>1 DEF Revise, Exit, database, outside
    <3>2. CASE Answers
      <4>1. visit' \in DOMAIN SeedOrder BY <2>9, <3>2, TableFacts DEF Revise
      <4> QED BY <2>9, <3>2, <4>1, Committing DEF Revise, outside
    <3> QED BY <3>1, <3>2
  <2>10. CASE PingRedis BY <2>10 DEF PingRedis, Goto, Exit, database, outside
  <2>11. CASE Drain BY <2>11 DEF Drain, Exit, database, outside
  <2> QED BY <1>1, <2>1, <2>2, <2>3, <2>4, <2>5, <2>6, <2>7, <2>8, <2>9, <2>10, <2>11 DEF Progress
<1>2. CASE SeedUnseen
  <2>1. CASE pc = "insert"
    BY <1>2, <2>1, Writing DEF SeedUnseen, Exit, outside
  <2>2. CASE pc = "revise"
    BY <1>2, <2>2, Committing DEF SeedUnseen, Exit, outside
  <2> QED BY <1>2, <2>1, <2>2 DEF SeedUnseen
<1>3. CASE Stop BY <1>3 DEF Stop, Goto, Exit, process, database
<1>4. CASE Crash BY <1>4 DEF Crash, Exit, database, outside
<1>5. CASE Deadline BY <1>5 DEF Deadline, database, outside
<1>6. CASE Outage BY <1>6 DEF Outage, process, database
<1>7. CASE OperatorStarts BY <1>7 DEF OperatorStarts, process, database
<1>8. CASE CalmDown BY <1>8 DEF CalmDown, process, database
<1>9. ASSUME NEW t \in Tables, NEW c \in Codes, UserCreates(t, c) \/ UserRemoves(t, c)
      PROVE  TypeOK'
  BY <1>9 DEF UserCreates, UserRemoves, process, outside
<1>10. CASE UNCHANGED vars BY <1>10 DEF vars, process, database, outside
<1> QED BY <1>1, <1>2, <1>3, <1>4, <1>5, <1>6, <1>7, <1>8, <1>9, <1>10 DEF Next

\* A table that is empty and whose seeds are not in the way has no rows at all.
LEMMA EmptyIsVirgin ==
    ASSUME IInv, IsEmpty(Table), ~Clash(Table)
    PROVE  Virgin(Table)
<1>1. Table \in Tables BY Writing DEF IInv
<1>2. PICK c \in Seeds[Table] : rows[Table][c] = "absent"
  BY <1>1, TableFacts DEF Clash
<1> QED BY <1>1, <1>2 DEF IInv, SeedsFirst, Seeded

\* What the database looks like after Seed has written the rows of its table.
LEMMA Filled ==
    ASSUME IInv, rows' = Written(Table)
    PROVE  /\ \A t \in Tables : Seeded(t) => Seeded(t)'
           /\ \A t \in Tables : t = Table => Seeded(t)'
           /\ SeedsFirst'
           /\ \A t \in Tables, c \in Codes :
                 rows'[t][c] # "absent" =>
                     rows[t][c] # "absent" \/ (t = Table /\ c \in Seeds[Table])
<1> USE DEF IInv, TypeOK
<1>1. Table \in Tables /\ Seeds[Table] \subseteq Codes
  BY TableFacts, Writing
<1>2. \A t \in Tables \ {Table} : rows'[t] = rows[t]
  BY DEF Written
<1>3. \A c \in Codes : rows'[Table][c] = IF c \in Seeds[Table] THEN "live" ELSE rows[Table][c]
  BY <1>1 DEF Written
<1>4. \A t \in Tables : Seeded(t) => Seeded(t)'
  BY <1>1, <1>2, <1>3, TableFacts DEF Seeded
<1>5. \A t \in Tables : t = Table => Seeded(t)'
  BY <1>1, <1>3 DEF Seeded
<1>6. SeedsFirst'
  BY <1>1, <1>2, <1>4, <1>5 DEF SeedsFirst, Virgin
<1> QED BY <1>1, <1>2, <1>3, <1>4, <1>5, <1>6

\* Steps that leave the database alone keep what is said of it.
LEMMA Kept ==
    ASSUME IInv, UNCHANGED database
    PROVE  /\ SeedsFirst' /\ RevisionWithEveryRow'
           /\ \A t \in Tables : (Seeded(t) => Seeded(t)') /\ (Virgin(t) => Virgin(t)')
BY DEF IInv, database, SeedsFirst, RevisionWithEveryRow, Seeded, Virgin

\* A process that has ended says nothing about where it stood.
LEMMA Ended ==
    ASSUME Exit
    PROVE  Passed' /\ OpenTransaction' /\ FirstVisit'
BY DEF Exit, Passed, OpenTransaction, FirstVisit, Up

\* Once its table is seeded, the start goes on to the next one or is done.
LEMMA TableDone ==
    ASSUME IInv, pc \in {"count", "insert", "revise"},
           \A t \in Tables : Seeded(t) => Seeded(t)',
           \A t \in Tables : t = Table => Seeded(t)',
           \/ visit < Len(SeedOrder) /\ pc' = "count" /\ visit' = visit + 1
           \/ ~(visit < Len(SeedOrder)) /\ pc' = "redis" /\ visit' = visit
    PROVE  Passed' /\ OpenTransaction' /\ FirstVisit'
<1> USE DEF IInv, TypeOK
<1>1. \A i \in DOMAIN SeedOrder : i < visit => Seeded(SeedOrder[i])
  BY DEF Passed
<1>2. \A i \in DOMAIN SeedOrder : i <= visit => Seeded(SeedOrder[i])'
  BY <1>1, TableFacts DEF Table
<1>3. CASE visit < Len(SeedOrder)
  <2>1. \A i \in DOMAIN SeedOrder : i < visit' => Seeded(SeedOrder[i])'
    BY <1>2, <1>3, TableFacts
  <2> QED BY <1>3, <2>1 DEF Passed, OpenTransaction, FirstVisit, Up
<1>4. CASE ~(visit < Len(SeedOrder))
  <2>1. \A i \in DOMAIN SeedOrder : Seeded(SeedOrder[i])'
    BY <1>2, <1>4, TableFacts
  <2>2. \A t \in Tables : Seeded(t)'
    BY <2>1, TableFacts
  <2> QED BY <1>4, <2>2 DEF Passed, OpenTransaction, FirstVisit, Up
<1> QED BY <1>3, <1>4

\* The transaction of a versioned table brings the revisions of its rows.
LEMMA CommitRevises ==
    ASSUME IInv, pc = "revise", CommitSeeds
    PROVE  RevisionWithEveryRow'
<1> USE DEF IInv, TypeOK
<1>1. Table \in Tables /\ tx = Seeds[Table]
  BY Writing DEF OpenTransaction
<1>2. \A t \in Tables : revised[t] \subseteq revised'[t]
  BY <1>1 DEF CommitSeeds
<1>3. \A t \in Tables : t = Table => Seeds[t] \subseteq revised'[t]
  BY <1>1 DEF CommitSeeds
<1>4. \A t \in Tables, c \in Codes :
          rows'[t][c] # "absent" =>
              rows[t][c] # "absent" \/ (t = Table /\ c \in Seeds[Table])
  BY Filled DEF CommitSeeds
<1>5. Versioned \subseteq Tables BY StartupAssumption DEF StartupAssumption
<1> QED BY <1>2, <1>3, <1>4, <1>5 DEF RevisionWithEveryRow

LEMMA StartPreserves == ASSUME IInv, Progress PROVE IInv'
<1> USE DEF IInv
<1>1. TypeOK' BY Typing DEF Next
<1>2. ASSUME UNCHANGED database, Passed', OpenTransaction', FirstVisit'
      PROVE  IInv'
  BY <1>1, <1>2, Kept
<1>3. CASE Boot
  <2>1. UNCHANGED database /\ pc' = "dial" /\ visit' = 1 BY <1>3 DEF Boot
  <2> QED BY <1>2, <2>1 DEF Passed, OpenTransaction, FirstVisit, Up
<1>4. CASE Dial \/ Ping \/ PingAgain
  <2>1. /\ UNCHANGED <<database, visit>> /\ FirstVisit
        /\ pc \in {"dial", "ping", "again"}
        /\ pc' \in {"ping", "wait", "migrate", "again"}
    BY <1>4 DEF Dial, Ping, PingAgain, Goto
  <2> QED BY <1>2, <2>1 DEF Passed, OpenTransaction, FirstVisit, Up
<1>5. CASE Wait
  <2>1. CASE Exit BY <1>2, <1>5, <2>1, Ended DEF Wait
  <2>2. CASE ~Exit
    <3>1. /\ UNCHANGED <<database, visit>> /\ pc = "wait"
          /\ pc' \in {"dial", "migrate"}
      BY <1>5, <2>2 DEF Wait, Attempt, Goto
    <3> QED BY <1>2, <3>1 DEF Passed, OpenTransaction, FirstVisit, Up
  <2> QED BY <2>1, <2>2
<1>6. CASE Migrate
  <2>1. CASE Exit BY <1>2, <1>6, <2>1, Ended DEF Migrate
  <2>2. CASE ~Exit
    <3>1. UNCHANGED <<database, visit>> /\ pc' = "count" /\ visit = 1
      BY <1>6, <2>2 DEF Migrate, Goto, FirstVisit
    <3>2. Passed' BY <3>1, TableFacts DEF Passed, Up
    <3> QED BY <1>2, <3>1, <3>2 DEF OpenTransaction, FirstVisit
  <2> QED BY <2>1, <2>2
<1>7. CASE Count
  <2>1. CASE Exit BY <1>2, <1>7, <2>1, Ended DEF Count
  <2>2. CASE IsEmpty(Table) /\ ~Exit
    <3>1. UNCHANGED <<database, visit>> /\ pc = "count" /\ pc' = "insert"
      BY <1>7, <2>2 DEF Count, Goto
    <3>2. Passed' BY <3>1, Kept, TableFacts DEF Passed, Up, database, Seeded
    <3>3. OpenTransaction'
      BY <2>2, <3>1 DEF OpenTransaction, IsEmpty, Table, database
    <3> QED BY <1>2, <3>1, <3>2, <3>3 DEF FirstVisit
  <2>3. CASE ~IsEmpty(Table) /\ ~Exit
    <3>1. UNCHANGED database /\ pc = "count" /\ NextTable
      BY <1>7, <2>3 DEF Count
    <3>2. Seeded(Table) BY <2>3, Writing DEF SeedsFirst, Virgin, IsEmpty
    <3>3. \A t \in Tables : Seeded(t) => Seeded(t)' BY <3>1, Kept
    <3>4. \A t \in Tables : t = Table => Seeded(t)' BY <3>2, <3>3
    <3> QED BY <1>2, <3>1, <3>3, <3>4, TableDone DEF NextTable, Goto
  <2> QED BY <2>1, <2>2, <2>3
<1>8. CASE Insert
  <2>1. CASE Exit /\ UNCHANGED database BY <1>2, <2>1, Ended
  <2>2. CASE Answers /\ ~Clash(Table) /\ Table \in Versioned /\ ~Exit
    <3>1. /\ UNCHANGED <<database, visit>> /\ pc = "insert" /\ pc' = "revise"
          /\ tx' = Seeds[Table]
      BY <1>8, <2>2 DEF Insert
    <3>2. Virgin(Table) BY <2>2, <3>1, EmptyIsVirgin DEF OpenTransaction
    <3>3. Passed' BY <3>1, TableFacts DEF Passed, Up, database, Seeded
    <3>4. OpenTransaction'
      BY <2>2, <3>1, <3>2 DEF OpenTransaction, Virgin, Table, database
    <3> QED BY <1>2, <3>1, <3>3, <3>4 DEF FirstVisit
  <2>3. CASE /\ Answers /\ ~Clash(Table) /\ Table \notin Versioned
             /\ rows' = Written(Table) /\ NextTable /\ UNCHANGED revised
             /\ pc = "insert"
    <3>1. Passed' /\ OpenTransaction' /\ FirstVisit'
      BY <2>3, Filled, TableDone DEF NextTable, Goto
    <3>2. RevisionWithEveryRow'
      BY <2>3, Filled, TableFacts DEF RevisionWithEveryRow, TypeOK, Written
    <3> QED BY <1>1, <2>3, <3>1, <3>2, Filled
  <2> QED BY <1>8, <2>1, <2>2, <2>3 DEF Insert
<1>9. CASE Revise
  <2>1. CASE ~Answers BY <1>2, <1>9, <2>1, Ended DEF Revise
  <2>2. CASE Answers
    <3>1. CommitSeeds /\ pc = "revise" /\ rows' = Written(Table)
      BY <1>9, <2>2 DEF Revise, CommitSeeds
    <3>2. Passed' /\ OpenTransaction' /\ FirstVisit'
      BY <1>9, <2>2, <3>1, Filled, TableDone DEF Revise
    <3>3. RevisionWithEveryRow' BY <3>1, CommitRevises
    <3> QED BY <1>1, <3>1, <3>2, <3>3, Filled
  <2> QED BY <2>1, <2>2
<1>10. CASE PingRedis
  <2>1. CASE Exit BY <1>2, <1>10, <2>1, Ended DEF PingRedis
  <2>2. CASE ~Exit
    <3>1. UNCHANGED database /\ pc = "redis" /\ pc' = "serving"
      BY <1>10, <2>2 DEF PingRedis, Goto
    <3>2. Passed' BY <3>1, Kept DEF Passed, Up
    <3> QED BY <1>2, <3>1, <3>2 DEF OpenTransaction, FirstVisit
  <2> QED BY <2>1, <2>2
<1>11. CASE Drain BY <1>2, <1>11, Ended DEF Drain
<1> QED BY <1>3, <1>4, <1>5, <1>6, <1>7, <1>8, <1>9, <1>10, <1>11 DEF Progress

\* Nothing is said of the surroundings.
LEMMA Unmoved ==
    ASSUME IInv, TypeOK', UNCHANGED <<pc, visit, tx, database>>
    PROVE  IInv'
BY DEF IInv, database, SeedsFirst, Passed, OpenTransaction, FirstVisit,
       RevisionWithEveryRow, Seeded, Virgin, Table, IsEmpty, Up

LEMMA StepPreserves == ASSUME IInv, [Next]_vars PROVE IInv'
<1> USE DEF IInv
<1>1. TypeOK' BY Typing
<1>2. ASSUME UNCHANGED database, Passed', OpenTransaction', FirstVisit'
      PROVE  IInv'
  BY <1>1, <1>2, Kept
<1>3. CASE Progress BY <1>3, StartPreserves
<1>4. CASE SeedUnseen
  <2>1. Passed' /\ OpenTransaction' /\ FirstVisit' BY <1>4, Ended DEF SeedUnseen
  <2>2. rows' = Written(Table) BY <1>4 DEF SeedUnseen, CommitSeeds
  <2>3. RevisionWithEveryRow'
    <3>1. CASE pc = "insert" /\ Table \notin Versioned /\ UNCHANGED revised
      BY <2>2, <3>1, Filled, TableFacts DEF RevisionWithEveryRow, TypeOK, Written
    <3>2. CASE pc = "revise" /\ CommitSeeds BY <3>2, CommitRevises
    <3> QED BY <1>4, <3>1, <3>2 DEF SeedUnseen
  <2> QED BY <1>1, <2>1, <2>2, <2>3, Filled
<1>5. CASE Stop
  <2>1. UNCHANGED database BY <1>5 DEF Stop
  <2>2. CASE pc = "serving"
    <3>1. pc' = "draining" BY <1>5, <2>2 DEF Stop, Goto
    <3> QED BY <1>2, <2>1, <2>2, <3>1, Kept DEF Passed, OpenTransaction, FirstVisit, Up
  <2>3. CASE pc # "serving" /\ Starting
    BY <1>2, <1>5, <2>1, <2>3, Ended DEF Stop
  <2>4. CASE pc # "serving" /\ ~Starting
    <3>1. UNCHANGED <<process, database>> BY <1>5, <2>4 DEF Stop
    <3> QED BY <1>1, <3>1, Unmoved DEF process
  <2> QED BY <2>2, <2>3, <2>4
<1>6. CASE Crash BY <1>2, <1>6, Ended DEF Crash
<1>7. CASE Deadline \/ Outage \/ OperatorStarts \/ CalmDown \/ UNCHANGED vars
  <2>1. UNCHANGED <<pc, visit, tx, database>>
    BY <1>7 DEF Deadline, Outage, OperatorStarts, CalmDown, process, vars
  <2> QED BY <1>1, <2>1, Unmoved
<1>8. ASSUME NEW t \in Tables, NEW c \in Codes, UserCreates(t, c) \/ UserRemoves(t, c)
      PROVE  IInv'
  <2>1. Up /\ UNCHANGED <<pc, visit, tx>> /\ rows'[t] \in [Codes -> States]
    BY <1>1, <1>8 DEF UserCreates, UserRemoves, process, TypeOK
  <2>2. \A u \in Tables, d \in Codes : rows[u][d] # "absent" => rows'[u][d] # "absent"
    BY <1>8 DEF UserCreates, UserRemoves, TypeOK
  <2>3. \A u \in Tables : Seeded(u)'
    BY <2>1, <2>2, TableFacts DEF Passed, Seeded
  <2>4. RevisionWithEveryRow'
    <3>1. Versioned \subseteq Tables BY StartupAssumption DEF StartupAssumption
    <3>2. CASE UserCreates(t, c)
      BY <3>1, <3>2 DEF UserCreates, RevisionWithEveryRow, TypeOK
    <3>3. CASE UserRemoves(t, c)
      BY <3>1, <3>3 DEF UserRemoves, RevisionWithEveryRow, TypeOK
    <3> QED BY <1>8, <3>2, <3>3
  <2> QED BY <1>1, <2>1, <2>3, <2>4 DEF SeedsFirst, Passed, OpenTransaction, FirstVisit, Up
<1> QED BY <1>3, <1>4, <1>5, <1>6, <1>7, <1>8 DEF Next

-----------------------------------------------------------------------------
LEMMA InitTyped == Init => TypeOK
<1> SUFFICES ASSUME Init PROVE TypeOK OBVIOUS
<1>1. 1 \in DOMAIN SeedOrder /\ 1 \in 1 .. MaxAttempts BY TableFacts
<1>2. rows \in [Tables -> [Codes -> States]] BY DEF Init, States
<1>3. revised \in [Tables -> SUBSET Codes] BY DEF Init
<1> QED BY <1>1, <1>2, <1>3 DEF Init, TypeOK

\* Every variable keeps its type, whatever stops the process.
THEOREM TypeCorrect == Spec => []TypeOK
<1>1. Init => TypeOK BY InitTyped
<1> QED BY <1>1, Typing, PTL DEF Spec

THEOREM InvHolds == Spec => []IInv
<1>1. ASSUME Init PROVE IInv
  <2>1. \A t \in Tables : Virgin(t) BY <1>1 DEF Init, Virgin
  <2>2. pc = "down" /\ visit = 1 BY <1>1 DEF Init
  <2>3. RevisionWithEveryRow
    BY <2>1, StartupAssumption DEF StartupAssumption, RevisionWithEveryRow, Virgin
  <2> QED BY <1>1, <2>1, <2>2, <2>3, InitTyped
          DEF IInv, SeedsFirst, Passed, Up, OpenTransaction, FirstVisit
<1> QED BY <1>1, StepPreserves, PTL DEF Spec

\* A serving process has seeded tables, for any tables, seeds, codes and bound
\* on the attempts, after any sequence of crashes, outages and restarts.
THEOREM ServesSeeded == Spec => []SeededWhenServing
<1>1. IInv => SeededWhenServing
  BY DEF IInv, Passed, SeededWhenServing, Seeded
<1> QED BY <1>1, InvHolds, PTL

\* No row without its first revision.
THEOREM RowsHaveRevisions == Spec => []RevisionWithEveryRow
<1>1. IInv => RevisionWithEveryRow BY DEF IInv
<1> QED BY <1>1, InvHolds, PTL

\* Seeding writes to tables that never held a row, and to no other.
THEOREM SeedsOnlyVirgins == Spec => OnlyVirginTablesSeeded
<1>1. ASSUME IInv, [Next]_vars, NEW t \in Tables, Starting, rows'[t] # rows[t]
      PROVE  Virgin(t)
  <2>1. /\ pc \in {"insert", "revise"} /\ rows' = Written(Table)
        /\ pc = "insert" => ~Clash(Table)
    <3>1. rows' # rows BY <1>1
    <3>2. CASE Insert BY <3>1, <3>2 DEF Insert, database
    <3>3. CASE Revise BY <3>1, <3>3 DEF Revise, CommitSeeds, database
    <3>4. CASE SeedUnseen BY <3>4 DEF SeedUnseen, CommitSeeds
    <3>5. ASSUME NEW u \in Tables, NEW c \in Codes, UserCreates(u, c) \/ UserRemoves(u, c)
          PROVE  FALSE
      BY <1>1, <3>5 DEF UserCreates, UserRemoves, Up, Starting, Steps
    <3> QED BY <1>1, <3>1, <3>2, <3>3, <3>4, <3>5 DEF Next, Progress, Boot, Dial, Ping,
          PingAgain, Wait, Migrate, Count, PingRedis, Drain, Stop, Crash, Deadline, Outage,
          OperatorStarts, CalmDown, database, vars
  <2>2. Table \in Tables BY <1>1, Writing DEF IInv
  <2>3. t = Table BY <1>1, <2>1, <2>2 DEF Written, IInv, TypeOK
  <2>4. Virgin(Table)
    BY <1>1, <2>1, EmptyIsVirgin DEF IInv, OpenTransaction
  <2> QED BY <2>3, <2>4
<1>2. IInv /\ [Next]_vars =>
          [\A t \in Tables : Starting /\ rows'[t] # rows[t] =>
               \A c \in Codes : rows[t][c] = "absent"]_vars
  BY <1>1 DEF Virgin
<1> QED BY <1>2, InvHolds, PTL DEF Spec, OnlyVirginTablesSeeded
=============================================================================
