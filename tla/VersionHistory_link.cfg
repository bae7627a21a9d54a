CONSTANTS
    Artifacts = {a1}
    Versions = {v1}
    Keys = {k1}
    Names = {n1}
    D1 = TRUE
    Ops = {"create", "access"}
    MaxCalls = 2
    None = None

SPECIFICATION Spec
SYMMETRY Symmetry
INVARIANTS LinkLogAgrees

CHECK_DEADLOCK FALSE
