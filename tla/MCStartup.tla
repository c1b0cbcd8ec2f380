----------------------------- MODULE MCStartup -----------------------------
(* Startup on the tables of database.Seed.  While the server serves, users   *)
(* change one table of each sort, without and with revisions.               *)
EXTENDS Startup

SeedOrderOfCode == <<"User", "PressUnit", "PrintRun", "ColorProof", "ReleaseDecision">>
TablesWithRevisions == {"PrintRun", "ReleaseDecision"}
ApiTables == {"PressUnit", "PrintRun"}
\* Two seeds in a table, so that one can be removed without the other.
FewSeeds == [User |-> {"a"}, PressUnit |-> {"a", "b"}, PrintRun |-> {"a"},
             ColorProof |-> {"a"}, ReleaseDecision |-> {"b"}]
=============================================================================
