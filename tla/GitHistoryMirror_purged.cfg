CONSTANTS
    Artifacts = {a1}
    Versions = {v1}
    Keys = {}
    Names = {n1}
    D1 = FALSE
    Ops = {"create", "mirror", "purge"}
    MaxCalls = 0
    None = None
    Workers = {w1}
    Budget = 2
    MaxAttempts = 2

SPECIFICATION FairMirrorSpec
PROPERTIES MirrorComesBack

CHECK_DEADLOCK FALSE
