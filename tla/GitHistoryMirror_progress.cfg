CONSTANTS
    Artifacts = {a1}
    Versions = {v1, v2}
    Keys = {}
    Names = {n1}
    D1 = FALSE
    Ops = {"create", "publish", "stage", "promote", "delete", "mirror", "purge"}
    MaxCalls = 0
    None = None
    Workers = {w1}
    Budget = 2
    MaxAttempts = 2

SPECIFICATION FairMirrorSpec
INVARIANTS
    NoOrphanRepository
PROPERTIES
    MirrorCatchesUp
    DeletedRepositoryGoes

CHECK_DEADLOCK FALSE
