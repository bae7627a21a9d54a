CONSTANTS
    Handlers = {h1, h2}
    Attempts = {t1, t2}
    Invites = {i1}
    Subjects = {p1, p2}
    Emails = {owner, ann, bob}
    Owner = owner
    AutoAdmit = {ann, bob}
    Protect = FALSE
    MaxUses = 1
    MaxMembers = 3
    Scenarios = {{"plain", "local"}, {"local", "bearer"}, {"founded", "plain", "admit", "deactivate"}, {"founded", "admit", "deactivate", "invite"}}
    None = None

SPECIFICATION Spec
SYMMETRY Symmetry
INVARIANTS
    InstallationIsOwned
    InviteUsesAreMembers
    SessionsAreSound
PROPERTIES
    InviteDiesWithInviter

CHECK_DEADLOCK FALSE
