SPECIFICATION Spec
CONSTANTS
    Kinds <- VersionedKinds
    Policy <- ServicePolicy
    Codes = {c1}
    Payloads = {p1, p2}
    None = None
    Workers = {w1, w2}
    MaxVersion = 3
    MaxFaults = 0
    Pipelining = TRUE
SYMMETRY Symmetry
INVARIANTS
    RevisionChain
PROPERTIES
    TombstoneFrozen
    UnremovableOvertaken
