SPECIFICATION Spec
CONSTANTS
    Kinds <- Decisions
    Policy <- ServicePolicy
    Codes = {c1}
    Payloads = {p1}
    None = None
    Workers = {w1, w2}
    MaxVersion = 3
    MaxFaults = 1
    Pipelining = FALSE
SYMMETRY Symmetry
INVARIANTS
    EveryChangeAudited
