CONSTANTS
    Artifacts = {a1}
    Versions = {v1, v2}
    Keys = {k1}
    Names = {n1}
    D1 = TRUE
    Ops = {"create", "publish", "archive"}
    MaxCalls = 2
    None = None

SPECIFICATION Spec
SYMMETRY Symmetry
PROPERTIES ArchivedStaysClosed

CHECK_DEADLOCK FALSE
