SPECIFICATION FairSpec
\* A serving process with nothing left to create or remove may idle.
CHECK_DEADLOCK FALSE
CONSTANTS
    SeedOrder <- SeedOrderOfCode
    Versioned <- TablesWithRevisions
    Managed <- ApiTables
    Codes = {"a", "b"}
    Seeds <- FewSeeds
    UseRedis = TRUE
    MaxAttempts = 3
INVARIANTS
    TypeOK
    SeededWhenServing
    RevisionWithEveryRow
PROPERTIES
    OnlyVirginTablesSeeded
    ComesBack
