CONSTANTS
    Artifacts = {a1}
    Versions = {v1, v2, v3}
    Keys = {k1}
    Names = {n1}
    D1 = FALSE
    Ops = {"create", "publish", "stage", "promote", "restore"}
    MaxCalls = 0
    None = None

SPECIFICATION Spec
SYMMETRY Symmetry
PROPERTIES AcceptedNumbersIncrease

CHECK_DEADLOCK FALSE
