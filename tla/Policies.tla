------------------------------ MODULE Policies ------------------------------
(***************************************************************************)
(* What distinguishes the four aggregate services from one another. Their  *)
(* Create, Update, Transition and Delete share one skeleton (module         *)
(* RecordService); each service differs from the others only in            *)
(*   initial    the status of a new record,                                 *)
(*   next       its transition graph,                                       *)
(*   reviewed   the statuses only reviewer/admin may enter or leave,        *)
(*   locked     the statuses in which Update answers ErrLocked,             *)
(*   deletable  the statuses in which Delete does not answer ErrLocked,     *)
(*   versioned  whether each write also appends an immutable revision,      *)
(*   seeds      the statuses of the rows database.Seed inserts.             *)
(***************************************************************************)

PressUnitTransitions ==
    [ready       |-> {"setup", "printing"},
     setup       |-> {"printing", "maintenance", "ready"},
     printing    |-> {"maintenance", "setup"},
     maintenance |-> {"printing"}]

PrintRunTransitions ==
    [setup    |-> {"printing"},
     printing |-> {"proofing", "hold", "setup"},
     proofing |-> {"hold", "released", "printing"},
     hold     |-> {"proofing"},
     released |-> {"hold"}]

ColorProofTransitions ==
    [captured |-> {"review"},
     review   |-> {"accepted", "rejected", "captured"},
     accepted |-> {"review"},
     rejected |-> {"review"}]

ReleaseDecisionTransitions ==
    [draft      |-> {"release", "rework"},
     release    |-> {"rework", "quarantine", "draft"},
     rework     |-> {"quarantine", "release"},
     quarantine |-> {"rework"}]

\* No role check beyond the route's, no lock, deletable in every status.
PressUnitPolicy ==
    [initial |-> "ready", next |-> PressUnitTransitions, reviewed |-> {},
     locked |-> {}, deletable |-> DOMAIN PressUnitTransitions,
     versioned |-> FALSE, seeds |-> {"ready", "setup", "printing"}]

\* A released run may still be edited: only Transition and Delete look at it.
PrintRunPolicy ==
    [initial |-> "setup", next |-> PrintRunTransitions,
     reviewed |-> {"released"}, locked |-> {}, deletable |-> {"setup"},
     versioned |-> TRUE, seeds |-> {"setup", "printing", "proofing"}]

\* An accepted proof may be edited by an operator and deleted by an admin.
ColorProofPolicy ==
    [initial |-> "captured", next |-> ColorProofTransitions,
     reviewed |-> {"accepted", "rejected"}, locked |-> {},
     deletable |-> DOMAIN ColorProofTransitions,
     versioned |-> FALSE, seeds |-> {"captured", "review", "accepted"}]

\* The one service whose Update refuses resolved records.
ReleaseDecisionPolicy ==
    [initial |-> "draft", next |-> ReleaseDecisionTransitions,
     reviewed |-> {"release", "quarantine"},
     locked |-> {"release", "quarantine"}, deletable |-> {"draft"},
     versioned |-> TRUE, seeds |-> {"draft", "release", "rework"}]

ServicePolicy == [PressUnit       |-> PressUnitPolicy,
                  PrintRun        |-> PrintRunPolicy,
                  ColorProof      |-> ColorProofPolicy,
                  ReleaseDecision |-> ReleaseDecisionPolicy]
=============================================================================
