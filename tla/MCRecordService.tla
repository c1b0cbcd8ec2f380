-------------------------- MODULE MCRecordService --------------------------
(***************************************************************************)
(* RecordService instantiated for TLC: the four real policies, one code (the *)
(* requests on different codes share no row), and as many workers as can     *)
(* interfere on it.                                                        *)
(***************************************************************************)
EXTENDS RecordService, Policies, TLC

AllKinds == DOMAIN ServicePolicy
VersionedKinds == {"PrintRun", "ReleaseDecision"}
Decisions == {"ReleaseDecision"}
OneOfEachShape == {"PressUnit", "ReleaseDecision"}

Symmetry == Permutations(Workers) \cup Permutations(Payloads)
=============================================================================
