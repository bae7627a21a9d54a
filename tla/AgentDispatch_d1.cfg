\* One thread sent, answered, reopened and sent again on D1, by an agent that stops polling.
SPECIFICATION FairSpec
CONSTANTS
    Agents = {g1}
    Dispatches = {d1, d2}
    Threads = {t1}
    Artifacts = {x1}
    Polled = {x1}
    Lease = 0
    Stale = 0
    Retention = 0
    AtomicClaim = FALSE
    AtomicListing = FALSE
    LazyReadBumps = TRUE
    AtomicClear = FALSE
    MaxTime = 2
    MaxRevision = 4
    MaxCalls = 1
    LastPoll = 0
    ArtifactOf <- OneArtifact
    None = None
PROPERTIES
    WorkComesBack

\* The clock, the ids and the revisions are bounded, so the instance runs dry.
CHECK_DEADLOCK FALSE
