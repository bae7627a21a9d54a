\* Two requests create, resume, purge, upload, prepare and commit two uploads under
\* one key, with one takeover of the preparation (Postgres and D1 commit check).
SPECIFICATION Spec
CONSTANTS
    Uploads = {u1, u2}
    Keys = {k1}
    Requests = {r1, r2}
    Cleaners = {}
    NumFiles = 1
    Lifetime = 1
    Lease = 1
    RenewalWindow = 1
    Settle = 1
    FilesPerPass = 1
    EntriesPerPass = 1
    InstallConcurrency = 1
    CommitNeedsPrepared = TRUE
    MaxTime = 2
    MaxAttempts = 2
    LastStop = 2
    NoUpload = NoUpload
    NoKey = NoKey
    NoFile = NoFile
SYMMETRY Symmetry
INVARIANTS
    OneFenceHolder
    PublicationsAreSound
PROPERTIES
    PreparedIsStable
\* The clock and the supply of ids are bounded, so the instance runs dry.
CHECK_DEADLOCK FALSE
