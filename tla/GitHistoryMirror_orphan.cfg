CONSTANTS
    Artifacts = {a1}
    Versions = {v1}
    Keys = {}
    Names = {n1}
    D1 = TRUE
    Ops = {"create", "delete", "mirror"}
    MaxCalls = 1
    None = None
    Workers = {w1}
    Budget = 1
    MaxAttempts = 2

SPECIFICATION MirrorSpec
SYMMETRY Symmetry
INVARIANTS NoOrphanRepository

CHECK_DEADLOCK FALSE
