CONSTANTS
    Artifacts = {a1}
    Versions = {v1, v2, v3}
    Keys = {}
    Names = {n1}
    D1 = FALSE
    Ops = {"create", "publish", "stage", "promote", "restore", "mirror"}
    MaxCalls = 0
    None = None
    Workers = {w1}
    Budget = 3
    MaxAttempts = 2

SPECIFICATION MirrorSpec
SYMMETRY Symmetry
INVARIANTS NextCommitFits

CHECK_DEADLOCK FALSE
