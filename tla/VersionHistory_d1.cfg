CONSTANTS
    Artifacts = {a1}
    Versions = {v1, v2, v3}
    Keys = {k1}
    Names = {n1}
    D1 = TRUE
    Ops = {"create", "publish", "stage", "promote", "rejected", "restore", "delete"}
    MaxCalls = 2
    None = None

SPECIFICATION Spec
SYMMETRY Symmetry
INVARIANTS
    HistoryIsSound
    OneEffectPerKey
PROPERTIES
    HistoryIsImmutable
    KeepsAcceptedHistory

CHECK_DEADLOCK FALSE
