----------------------------- MODULE MCQueries -----------------------------
(***************************************************************************)
(* Queries instantiated for TLC: sizes small enough for a walk of several    *)
(* pages, with every way a client can misspell them, and two values of        *)
(* whatever a query tells apart.                                            *)
(***************************************************************************)
EXTENDS Queries

FirstPages == {-1, 1}

\* Missing, one, too large.
Sizes == {0, 1, 4}

TwoActions == {"transition", "update"}

\* The lists tell apart what the search selects, the summary the rest.
Rows ==
    LET any == [match |-> TRUE, actor |-> "a1", action |-> "update", entity |-> "e1"]
        lists == {any, [any EXCEPT !.match = FALSE]}
    IN  [records |-> lists, audits |-> lists,
         summary |-> {any, [any EXCEPT !.action = "transition"],
                      [any EXCEPT !.actor = "a2", !.entity = "e2"]}]
=============================================================================
