\* A clear that lists a thread before it is sent, and deletes it afterwards (D1).
SPECIFICATION Spec
CONSTANTS
    Agents = {g1}
    Dispatches = {d1}
    Threads = {t1}
    Artifacts = {x1}
    Polled = {}
    Lease = 1
    Stale = 1
    Retention = 1
    AtomicClaim = FALSE
    AtomicListing = FALSE
    LazyReadBumps = TRUE
    AtomicClear = FALSE
    MaxTime = 0
    MaxRevision = 4
    MaxCalls = 2
    LastPoll = 0
    ArtifactOf <- OneArtifact
    None = None
INVARIANTS
    BundleHeld
\* The clock, the ids and the revisions are bounded, so the instance runs dry.
CHECK_DEADLOCK FALSE
