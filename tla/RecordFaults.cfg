SPECIFICATION Spec
CONSTANTS
    Kinds <- OneOfEachShape
    Policy <- ServicePolicy
    Codes = {c1}
    Payloads = {p1}
    None = None
    Workers = {w1, w2}
    MaxVersion = 3
    MaxFaults = 1
    Pipelining = FALSE
SYMMETRY Symmetry
INVARIANTS
    AuditAccounted
    AcknowledgedMoveAudited
    AnswerShowsOwnWrite
    ConflictJustified
