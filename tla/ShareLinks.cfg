CONSTANTS
    Links = {l1}
    Guests = {g1}
    Calls = {m1, m2}
    Keys = {k1, k2}
    MaxVersion = 3
    MaxRevision = 3
    MaxThreads = 1
    MaxReviewVersion = 2
    Scenarios = {{"join", "lease", "change", "publish", "stage"}, {"join", "lease", "change", "policy"}, {"join", "lease", "change", "expire", "delete"}, {"join", "comment", "change", "policy"}, {"join", "comment", "change", "publish"}, {"join", "comment", "thread", "change"}, {"join", "thread", "update", "publish"}, {"public", "access", "policy", "publish", "delete"}, {"change", "access", "expire", "several"}}
    None = None
SPECIFICATION Spec
SYMMETRY Symmetry
INVARIANTS
    VisitorsStayWithinLinks
    PrivateEndsLinks
    OneWriterPerRevision

CHECK_DEADLOCK FALSE
