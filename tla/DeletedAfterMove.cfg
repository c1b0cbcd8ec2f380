SPECIFICATION Spec
CONSTANTS
    Kinds <- VersionedKinds
    Policy <- ServicePolicy
    Codes = {c1}
    Payloads = {p1}
    None = None
    Workers = {w1, w2}
    MaxVersion = 3
    MaxFaults = 0
    Pipelining = FALSE
SYMMETRY Symmetry
PROPERTIES
    DeleteOnlyDeletable
