SPECIFICATION Spec
CONSTANTS
    Kinds <- AllKinds
    Policy <- ServicePolicy
    Codes = {c1}
    Payloads = {p1, p2}
    None = None
    Workers = {w1, w2}
    MaxVersion = 3
    MaxFaults = 0
    Pipelining = FALSE
SYMMETRY Symmetry
INVARIANTS
    TypeOK
    FreshSnapshot
    AuditTruthful
PROPERTIES
    ReviewGateHeld
    ImplementsLifecycle
