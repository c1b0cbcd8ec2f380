SPECIFICATION Spec
CONSTANTS
    Kinds <- Decisions
    Policy <- ServicePolicy
    Codes = {c1}
    Payloads = {p1, p2}
    None = None
    Workers = {w1, w2}
    MaxVersion = 4
    MaxFaults = 0
    Pipelining = TRUE
SYMMETRY Symmetry
PROPERTIES
    ResolvedFrozen
