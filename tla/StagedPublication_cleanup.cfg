\* Two requests prepare and commit an upload of two files, one file per pass, against
\* a cleanup pass that may fail or crash.
SPECIFICATION Spec
CONSTANTS
    Uploads = {u1}
    Keys = {k1}
    Requests = {r1, r2}
    Cleaners = {c1}
    NumFiles = 2
    Lifetime = 1
    Lease = 2
    RenewalWindow = 1
    Settle = 1
    FilesPerPass = 1
    EntriesPerPass = 2
    InstallConcurrency = 1
    CommitNeedsPrepared = FALSE
    MaxTime = 3
    MaxAttempts = 2
    LastStop = 3
    NoUpload = NoUpload
    NoKey = NoKey
    NoFile = NoFile
SYMMETRY Symmetry
INVARIANTS
    PreparedIsComplete
    PublishedBytesInstalled
    CleanedMeansReclaimed
PROPERTIES
    SealedIsFinal
    CleanupIsExclusive

\* The clock and the supply of ids are bounded, so the instance runs dry.
CHECK_DEADLOCK FALSE
