\* A renewal that arrives after the lease lapsed and a cleanup pass stamped the upload.
SPECIFICATION Spec
CONSTANTS
    Uploads = {u1}
    Keys = {k1}
    Requests = {r1}
    Cleaners = {c1}
    NumFiles = 2
    Lifetime = 1
    Lease = 2
    RenewalWindow = 1
    Settle = 1
    FilesPerPass = 1
    EntriesPerPass = 2
    InstallConcurrency = 1
    CommitNeedsPrepared = FALSE
    MaxTime = 4
    MaxAttempts = 1
    LastStop = 4
    NoUpload = NoUpload
    NoKey = NoKey
    NoFile = NoFile
INVARIANTS
    CleanupExcludesLeases
\* The clock and the supply of ids are bounded, so the instance runs dry.
CHECK_DEADLOCK FALSE
