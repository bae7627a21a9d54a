CONSTANTS
    Artifacts = {a1}
    Versions = {v1, v2, v3}
    Keys = {}
    Names = {n1}
    D1 = FALSE
    Ops = {"create", "publish", "stage", "promote", "delete", "mirror"}
    MaxCalls = 0
    None = None
    Workers = {w1, w2}
    Budget = 2
    MaxAttempts = 2

SPECIFICATION MirrorSpec
SYMMETRY Symmetry
INVARIANTS
    OneOwner
    MirrorFollowsHistory
    BudgetKept
    NextCommitFits
    DeletionIsQueued
PROPERTIES
    PublishedHistoryStays

CHECK_DEADLOCK FALSE
