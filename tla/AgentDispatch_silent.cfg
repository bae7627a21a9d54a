\* A viewer and a read that fails a dispatch (SQLite).
SPECIFICATION Spec
CONSTANTS
    Agents = {g1}
    Dispatches = {d1}
    Threads = {t1}
    Artifacts = {x1}
    Polled = {x1}
    Lease = 1
    Stale = 1
    Retention = 1
    AtomicClaim = TRUE
    AtomicListing = TRUE
    LazyReadBumps = FALSE
    AtomicClear = TRUE
    MaxTime = 2
    MaxRevision = 4
    MaxCalls = 1
    LastPoll = 0
    ArtifactOf <- OneArtifact
    None = None
INVARIANTS
    RevisionNamesThePage
\* The clock, the ids and the revisions are bounded, so the instance runs dry.
CHECK_DEADLOCK FALSE
