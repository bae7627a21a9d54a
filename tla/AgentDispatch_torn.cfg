\* A viewer whose page and revision are read apart (Postgres, D1).
SPECIFICATION Spec
CONSTANTS
    Agents = {g1}
    Dispatches = {d1}
    Threads = {t1}
    Artifacts = {x1}
    Polled = {x1}
    Lease = 1
    Stale = 1
    Retention = 1
    AtomicClaim = FALSE
    AtomicListing = FALSE
    LazyReadBumps = TRUE
    AtomicClear = FALSE
    MaxTime = 2
    MaxRevision = 4
    MaxCalls = 1
    LastPoll = 0
    ArtifactOf <- OneArtifact
    None = None
INVARIANTS
    RevisionNamesThePage
\* The clock, the ids and the revisions are bounded, so the instance runs dry.
CHECK_DEADLOCK FALSE
