CONSTANTS
    Servers = {s1, s2}
    Requests = {r1}
    Creds = {c1, c2}
    Principals = {p1}
    TTL = 2
    Margin = 1
    CacheSize = 1
    BootstrapLife = 5
    Lifetimes = {3}
    MaxTime = 3
    MaxLeases = 1
    MaxSweeps = 1
    Scenarios = {{"session", "request", "deactivate", "several"}, {"key", "deactivate", "several"}, {"session", "request", "logout"}, {"session", "request", "bootstrap", "crash", "deactivate"}, {"key", "request", "deactivate"}}
    None = None

SPECIFICATION Spec
SYMMETRY Symmetry
INVARIANTS
    RevocationIsSound
    SweepsEndAccess
PROPERTIES
    KeysDieWithMember

CHECK_DEADLOCK FALSE
