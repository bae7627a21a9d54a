\* Overlapping sends, claims, reports, cancels and comment edits, and a viewer (SQLite).
SPECIFICATION Spec
CONSTANTS
    Agents = {g1}
    Dispatches = {d1, d2}
    Threads = {t1, t2}
    Artifacts = {x1}
    Polled = {x1}
    Lease = 0
    Stale = 0
    Retention = 0
    AtomicClaim = TRUE
    AtomicListing = TRUE
    LazyReadBumps = FALSE
    AtomicClear = TRUE
    MaxTime = 1
    MaxRevision = 4
    MaxCalls = 2
    LastPoll = 0
    ArtifactOf <- OneArtifact
    None = None
SYMMETRY Symmetry
INVARIANTS
    OneActiveClaim
    BundlesAreSound
    NoStrandedThread
    ViewerShowsNothingStale
PROPERTIES
    SettledIsFinal
\* The clock, the ids and the revisions are bounded, so the instance runs dry.
CHECK_DEADLOCK FALSE
