\* The same, asking that the upload row itself goes away.
SPECIFICATION FairSpec
CONSTANTS
    Uploads = {u1}
    Keys = {}
    Requests = {r1}
    Cleaners = {c1}
    NumFiles = 1
    Lifetime = 2
    Lease = 1
    RenewalWindow = 0
    Settle = 1
    FilesPerPass = 2
    EntriesPerPass = 1
    InstallConcurrency = 1
    CommitNeedsPrepared = FALSE
    MaxTime = 6
    MaxAttempts = 1
    LastStop = 4
    NoUpload = NoUpload
    NoKey = NoKey
    NoFile = NoFile
PROPERTIES
    StoppedPassIsResumed
\* The clock and the supply of ids are bounded, so the instance runs dry.
CHECK_DEADLOCK FALSE
