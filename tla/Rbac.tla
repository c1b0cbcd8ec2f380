-------------------------------- MODULE Rbac --------------------------------
(***************************************************************************)
(* The four roles a token may carry, and the two route guards the handlers *)
(* register: RequireMinimumRole(operator) in front of every write, and      *)
(* RequireRoles(admin) in front of a deletion.                              *)
(***************************************************************************)
EXTENDS Integers

roleRank == [viewer |-> 1, operator |-> 2, reviewer |-> 3, admin |-> 4]

Roles == DOMAIN roleRank

RequireMinimumRole(minimum) == {r \in Roles : roleRank[r] >= roleRank[minimum]}

\* The roles that get past the guards of each route of an aggregate.
Admitted == [get        |-> Roles,
             create     |-> RequireMinimumRole("operator"),
             update     |-> RequireMinimumRole("operator"),
             transition |-> RequireMinimumRole("operator"),
             delete     |-> {"admin"}]

Ops == DOMAIN Admitted

\* The service-level check: accepting, releasing and quarantining are theirs.
canReview(role) == role \in {"reviewer", "admin"}
=============================================================================
