CONSTANTS
    Artifacts = {a1, a2}
    Versions = {v1, v2, v3}
    Keys = {k1}
    Names = {n1}
    D1 = FALSE
    Ops = {"create", "publish", "stage", "promote", "rejected", "superseded", "restore", "access", "rename", "tags", "delete", "archive", "mirror"}
    MaxCalls = 0
    None = None

SPECIFICATION Spec
SYMMETRY Symmetry
INVARIANTS
    LinkLogAgrees
PROPERTIES
    ArchivedStaysClosed

CHECK_DEADLOCK FALSE
