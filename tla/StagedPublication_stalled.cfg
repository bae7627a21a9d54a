\* A preparation that outlives its lease and the expiry, against one cleanup pass.
SPECIFICATION Spec
CONSTANTS
    Uploads = {u1}
    Keys = {k1}
    Requests = {r1}
    Cleaners = {c1}
    NumFiles = 2
    Lifetime = 2
    Lease = 1
    RenewalWindow = 0
    Settle = 1
    FilesPerPass = 1
    EntriesPerPass = 2
    InstallConcurrency = 1
    CommitNeedsPrepared = FALSE
    MaxTime = 4
    MaxAttempts = 1
    LastStop = 4
    NoUpload = NoUpload
    NoKey = NoKey
    NoFile = NoFile
INVARIANTS
    NoRowsWithoutBytes
\* The clock and the supply of ids are bounded, so the instance runs dry.
CHECK_DEADLOCK FALSE
