-------------------------- MODULE RecordLifecycle --------------------------
(***************************************************************************)
(* What an aggregate service promises its callers about one table of        *)
(* records, with every operation a single atomic step: a record is created  *)
(* in its initial status, edited only while it is not locked, moved only    *)
(* along its transition graph, each write counting its version up by one,   *)
(* and once removed it never changes again, nor is its code reused.         *)
(*                                                                         *)
(* Removal is promised for any live record.  The services mean to allow it  *)
(* only in the deletable statuses, but that is not what they deliver: see    *)
(* DeleteOnlyDeletable in RecordService.                                    *)
(***************************************************************************)
EXTENDS Integers

CONSTANTS
    Kinds,      \* the aggregates: press units, print runs, ...
    Policy,     \* what distinguishes each aggregate (module Policies)
    Codes,      \* business codes, unique over live and removed records alike
    Payloads,   \* the editable business fields, as one value
    None        \* the status and payload of a record that does not exist

VARIABLES
    kind,       \* the aggregate this table belongs to; it never changes
    table       \* the record of each code

vars == <<kind, table>>

Graph == Policy[kind].next

NoRow == [version |-> 0, status |-> None, data |-> None, deleted |-> FALSE]

Row(version, status, data) ==
    [version |-> version, status |-> status, data |-> data, deleted |-> FALSE]

Live(row) == row.version > 0 /\ ~row.deleted

Init ==
    /\ kind \in Kinds
    /\ table \in [Codes -> {NoRow} \cup
           {Row(1, s, d) : s \in Policy[kind].seeds, d \in Payloads}]

Put(c, row) == table' = [table EXCEPT ![c] = row] /\ UNCHANGED kind

Create(c) ==
    /\ table[c].version = 0
    /\ \E d \in Payloads : Put(c, Row(1, Policy[kind].initial, d))

Edit(c) ==
    /\ Live(table[c])
    /\ table[c].status \notin Policy[kind].locked
    /\ \E d \in Payloads :
           Put(c, Row(table[c].version + 1, table[c].status, d))

Move(c) ==
    /\ Live(table[c])
    /\ \E t \in Graph[table[c].status] :
           Put(c, Row(table[c].version + 1, t, table[c].data))

Remove(c) ==
    /\ Live(table[c])
    /\ Put(c, [table[c] EXCEPT !.deleted = TRUE])

Next == \E c \in Codes : Create(c) \/ Edit(c) \/ Move(c) \/ Remove(c)

Spec == Init /\ [][Next]_vars
=============================================================================
