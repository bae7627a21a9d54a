\* Two overlapping polls of one agent on D1.
SPECIFICATION Spec
CONSTANTS
    Agents = {g1}
    Dispatches = {d1, d2}
    Threads = {t1, t2}
    Artifacts = {x1}
    Polled = {}
    Lease = 1
    Stale = 1
    Retention = 1
    AtomicClaim = FALSE
    AtomicListing = FALSE
    LazyReadBumps = TRUE
    AtomicClear = FALSE
    MaxTime = 0
    MaxRevision = 4
    MaxCalls = 2
    LastPoll = 0
    ArtifactOf <- OneArtifact
    None = None
SYMMETRY Symmetry
INVARIANTS
    OneActiveClaim
\* The clock, the ids and the revisions are bounded, so the instance runs dry.
CHECK_DEADLOCK FALSE
