CONSTANTS
    Artifacts = {a1}
    Versions = {v1, v2, v3, v4}
    Keys = {}
    Names = {n1}
    D1 = TRUE
    Ops = {"create", "publish", "stage", "promote", "rejected", "delete"}
    MaxCalls = 2
    None = None

SPECIFICATION Spec
SYMMETRY Symmetry
PROPERTIES
    AcceptedNumbersIncrease

CHECK_DEADLOCK FALSE
