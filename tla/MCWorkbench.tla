---------------------------- MODULE MCWorkbench ----------------------------
(***************************************************************************)
(* Workbench instantiated for TLC over the real policies.                    *)
(***************************************************************************)
EXTENDS Workbench, Policies, TLC

Decisions == {"ReleaseDecision"}
Switchable == {"operator", "admin"}
SlotSymmetry == Permutations(Slots)

\* One seeded decision, a draft, or none.
DraftPolicy == [ServicePolicy EXCEPT !.ReleaseDecision.seeds = {"draft"}]
=============================================================================
