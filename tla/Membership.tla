------------------------------ MODULE Membership ------------------------------
(***************************************************************************)
(* Who is a member of the installation, and how people become one: browser *)
(* sign-in through an identity provider, the local owner's sign-in, invites *)
(* and the administrators' calls.                                          *)
(*                                                                         *)
(* A sign-in is a handler that makes one repository call per step, so that *)
(* other sign-ins and administrators act between any two of its calls.     *)
(* Member rows are never deleted and a member's e-mail and role never      *)
(* change: the table is a sequence and a member's id is its place in it.   *)
(* Time is abstract: an invite or a sign-in attempt may run out at any     *)
(* moment.                                                                 *)
(***************************************************************************)
EXTENDS Integers, Sequences, FiniteSets, FiniteSetsExt

CONSTANTS
    Handlers,     \* requests under way at the server
    Attempts,     \* rows of login_attempts
    Invites,      \* rows of installation_invites
    Subjects,     \* people, as the identity provider names them
    Emails,
    Owner,        \* bootstrapAdministratorEmail
    AutoAdmit,    \* e-mails of an automatically admitted domain
    Protect,      \* protectBootstrapAdministrator
    MaxUses,      \* bound: max_uses of a link invite
    MaxMembers,   \* bound: rows of installation_members
    Scenarios,    \* the sets of operations that are explored together
    None

ASSUME MembershipAssumption ==
    /\ Owner \in Emails /\ AutoAdmit \subseteq Emails
    /\ Protect \in BOOLEAN
    /\ MaxUses \in Nat \ {0} /\ MaxMembers \in Nat \ {0}
    /\ Scenarios \subseteq
          SUBSET {"founded", "local", "plain", "bearer", "admit", "deactivate", "invite"}
    /\ None \notin Emails \cup Subjects \cup Attempts \cup Invites

VARIABLES
    members,      \* installation_members
    identities,   \* external_identities: the member bound to a subject, 0 if none
    invites,      \* installation_invites
    attempts,     \* login_attempts
    sessions,     \* application_sessions that are not revoked
    handler,      \* where each request is, and what it has read
    ops           \* the scenario: the operations this installation is used for

vars == <<members, identities, invites, attempts, sessions, handler, ops>>

Verifications == {"unverified", "verified", "asserted"}
Steps == {"idle", "provider", "identity", "email", "invite", "redeem", "count",
          "admit", "bind", "session"}

NoInvite == [st |-> "none", by |-> 0, email |-> None, role |-> "member", max |-> 0, used |-> 0]
NoAttempt == [st |-> "none", invite |-> None, local |-> FALSE]
Idle == [at |-> "idle", attempt |-> None, invite |-> None, local |-> FALSE, subject |-> None,
         email |-> None, ver |-> "unverified", member |-> 0, role |-> "member"]

Ids == 1..Len(members)
Active(m) == members[m].active
ActiveAdministrator(m) == Active(m) /\ members[m].role = "administrator"
ByEmail(e) == {m \in Ids : members[m].email = e}

TypeOK ==
    /\ members \in Seq([email : Emails, role : {"administrator", "member"}, active : BOOLEAN,
                        how : {"owner", "automatic", "manual", "invite"},
                        invite : Invites \cup {None}])
    /\ Len(members) <= MaxMembers
    /\ identities \in [Subjects -> 0..MaxMembers]
    /\ invites \in [Invites -> [st : {"none", "open", "ended"}, by : 0..MaxMembers,
                                email : Emails \cup {None}, role : {"administrator", "member"},
                                max : 0..MaxUses, used : 0..MaxUses]]
    /\ attempts \in [Attempts -> [st : {"none", "open", "spent"},
                                  invite : Invites \cup {None}, local : BOOLEAN]]
    /\ sessions \subseteq [attempt : Attempts, member : 1..MaxMembers,
                           subject : Subjects \cup {None}]
    /\ handler \in [Handlers -> [at : Steps, attempt : Attempts \cup {None},
                                 invite : Invites \cup {None}, local : BOOLEAN,
                                 subject : Subjects \cup {None}, email : Emails \cup {None},
                                 ver : Verifications, member : 0..MaxMembers,
                                 role : {"administrator", "member"}]]

NewMember(email, role, how, invite) ==
    [email |-> email, role |-> role, active |-> TRUE, how |-> how, invite |-> invite]

\* An empty installation, or one whose owner has signed in locally.
Init ==
    /\ ops \in Scenarios
    /\ members = IF "founded" \in ops THEN <<NewMember(Owner, "administrator", "owner", None)>>
                 ELSE <<>>
    /\ identities = [s \in Subjects |-> 0]
    /\ invites = [i \in Invites |-> NoInvite]
    /\ attempts = [a \in Attempts |-> NoAttempt]
    /\ sessions = {}
    /\ handler = [h \in Handlers |-> Idle]

Goto(h, step) == handler' = [handler EXCEPT ![h].at = step]
Found(h, m, step) == handler' = [handler EXCEPT ![h].member = m, ![h].at = step]
End(h) == handler' = [handler EXCEPT ![h] = Idle]

-----------------------------------------------------------------------------
(* Invites                                                                 *)

\* inviteStatus = active: neither revoked nor expired (ended), nor used up.
InviteActive(i) == invites[i].st = "open" /\ invites[i].used < invites[i].max

\* Mutant: the person a one-person invite names is not compared.
RefusedIfDead(i, email) == ~InviteActive(i)

\* redemptionRefusal, of the row the redeeming transaction reads.
RedemptionRefused(i, email) ==
    \/ ~InviteActive(i)
    \/ invites[i].email # None /\ invites[i].email # email

\* An invite whose inviter is no longer an active administrator counts as revoked.
EffectivelyActive(i) == InviteActive(i) /\ ActiveAdministrator(invites[i].by)

\* The requester of an administrator's call.  Its authentication may be a
\* cached one, so a deactivated administrator is not excluded here.
Administrators == {m \in Ids : members[m].role = "administrator"}

\* create: a one-person invite names somebody who is not a member and works
\* once; a link invite admits members only, up to its cap.
CreateInvite(by, i, email, role, max) ==
    /\ "invite" \in ops
    /\ by \in Administrators
    /\ invites[i].st = "none"
    /\ email # None => ByEmail(email) = {} /\ max = 1
    /\ email = None => role = "member"
    /\ invites' = [invites EXCEPT ![i] = [st |-> "open", by |-> by, email |-> email,
                                          role |-> role, max |-> max, used |-> 0]]
    /\ UNCHANGED <<members, identities, attempts, sessions, handler, ops>>

RevokeInvite(by, i) ==
    /\ by \in Administrators
    /\ InviteActive(i)
    /\ invites' = [invites EXCEPT ![i].st = "ended"]
    /\ UNCHANGED <<members, identities, attempts, sessions, handler, ops>>

ExpireInvite(i) ==
    /\ invites[i].st = "open"
    /\ invites' = [invites EXCEPT ![i].st = "ended"]
    /\ UNCHANGED <<members, identities, attempts, sessions, handler, ops>>

-----------------------------------------------------------------------------
(* Member rows                                                             *)

\* UNIQUE (installation_id, email), a deactivated member's row included.
Insertable(email) == Len(members) < MaxMembers /\ ByEmail(email) = {}

\* The administrator's admitMember.
AdmitMember(by, email, role) ==
    /\ "admit" \in ops
    /\ by \in Administrators
    /\ Insertable(email)
    /\ members' = Append(members, NewMember(email, role, "manual", None))
    /\ UNCHANGED <<identities, invites, attempts, sessions, handler, ops>>

\* Mutant: the count and the update are not one transaction with a guard.
DeactivationAnyway(m) == TRUE

\* deactivateMember counts the active administrators inside its transaction.
DeactivationAllowed(m) ==
    ActiveAdministrator(m) => Cardinality({x \in Ids : ActiveAdministrator(x)}) > 1

\* The member's sessions are revoked in the same transaction.
DeactivateMember(by, m) ==
    /\ "deactivate" \in ops
    /\ by \in Administrators /\ m \in Ids /\ by # m
    /\ Protect => members[m].email # Owner
    /\ DeactivationAllowed(m)
    /\ members' = [members EXCEPT ![m].active = FALSE]
    /\ sessions' = {s \in sessions : s.member # m}
    /\ UNCHANGED <<identities, invites, attempts, handler, ops>>

-----------------------------------------------------------------------------
(* Sign-in                                                                 *)

\* start, for a plain sign-in, an invite planLogin found active, or (local)
\* issueLocalBrowserLogin.  planLogin's reads decide only whether the browser
\* is sent to the provider: complete checks the invite again.
StartLogin(a, i, local) ==
    /\ attempts[a].st = "none"
    /\ IF i # None THEN ~local /\ EffectivelyActive(i)
       ELSE (IF local THEN "local" ELSE "plain") \in ops
    /\ attempts' = [attempts EXCEPT ![a] = [st |-> "open", invite |-> i, local |-> local]]
    /\ UNCHANGED <<members, identities, invites, sessions, handler, ops>>

ExpireAttempt(a) ==
    /\ attempts[a].st = "open"
    /\ attempts' = [attempts EXCEPT ![a].st = "spent"]
    /\ UNCHANGED <<members, identities, invites, sessions, handler, ops>>

\* Mutant: the row's consumed_at and expires_at are not looked at.
ConsumableAgain(a) == attempts[a].st \in {"open", "spent"}
Consumable(a) == attempts[a].st = "open"

\* The browser's callback consumes the attempt before the provider is asked.
\* A callback that is repeated finds it consumed and is refused.
Callback(h, a) ==
    /\ handler[h].at = "idle" /\ Consumable(a)
    /\ attempts' = [attempts EXCEPT ![a].st = "spent"]
    /\ handler' = [handler EXCEPT ![h] =
                     [Idle EXCEPT !.attempt = a, !.invite = attempts[a].invite,
                                  !.local = attempts[a].local,
                                  !.email = IF attempts[a].local THEN Owner ELSE None,
                                  !.at = IF attempts[a].local THEN "email" ELSE "provider"]]
    /\ UNCHANGED <<members, identities, invites, sessions, ops>>

\* authenticateExternalIdentity: a bearer token names an identity by itself.
Bearer(h) ==
    /\ "bearer" \in ops
    /\ handler[h].at = "idle"
    /\ Goto(h, "provider")
    /\ UNCHANGED <<members, identities, invites, attempts, sessions, ops>>

\* The provider's answer: a subject, the e-mail it has there now, and whether
\* the provider verified that e-mail.
ProviderAnswers(h, s, e, v) ==
    /\ handler[h].at = "provider"
    /\ handler' = [handler EXCEPT ![h].subject = s, ![h].email = e, ![h].ver = v,
                                  ![h].at = "identity"]
    /\ UNCHANGED <<members, identities, invites, attempts, sessions, ops>>

\* A repository or provider failure, or a crash of the server, at any point.
Fail(h) ==
    /\ handler[h].at # "idle"
    /\ End(h)
    /\ UNCHANGED <<members, identities, invites, attempts, sessions, ops>>

\* findActiveMemberByExternalIdentity.
FindByIdentity(h) ==
    LET m == identities[handler[h].subject]
    IN  /\ handler[h].at = "identity"
        /\ IF handler[h].ver = "unverified" THEN End(h)
           ELSE IF m # 0 /\ Active(m) THEN Found(h, m, "bind")
           ELSE Goto(h, "email")
        /\ UNCHANGED <<members, identities, invites, attempts, sessions, ops>>

\* findActiveMemberByEmail; loginAsLocalOwner asks the same of the owner and
\* binds no identity.
FindByEmail(h) ==
    LET known == {m \in ByEmail(handler[h].email) : Active(m)}
        absent == IF handler[h].invite # None THEN "invite" ELSE "count"
    IN  /\ handler[h].at = "email"
        /\ IF known = {} THEN Goto(h, absent)
           ELSE LET m == CHOOSE m \in known : TRUE
                IN  IF ~handler[h].local THEN Found(h, m, "bind")
                    ELSE IF members[m].role = "administrator" THEN Found(h, m, "session")
                    ELSE End(h)
        /\ UNCHANGED <<members, identities, invites, attempts, sessions, ops>>

\* Mutant: the inviter's standing is not checked.
InviterStandsAlways(i) == TRUE
InviterStands(i) == ActiveAdministrator(invites[i].by)

\* redeemInvite's reads: "An invite is only as good as the administrator
\* standing behind it."
FindInvite(h) ==
    /\ handler[h].at = "invite"
    /\ IF handler[h].ver = "asserted" /\ InviterStands(handler[h].invite)
       THEN Goto(h, "redeem")
       ELSE End(h)
    /\ UNCHANGED <<members, identities, invites, attempts, sessions, ops>>

\* redeemInvite's transaction: the use, the member and the binding, or nothing.
RedeemInvite(h) ==
    LET i == handler[h].invite
        s == handler[h].subject
        m == Len(members) + 1
    IN  /\ handler[h].at = "redeem" /\ Len(members) < MaxMembers
        /\ IF RedemptionRefused(i, handler[h].email) \/ ~Insertable(handler[h].email)
                \/ identities[s] # 0
           THEN End(h) /\ UNCHANGED <<members, identities, invites>>
           ELSE /\ invites' = [invites EXCEPT ![i].used = @ + 1]
                /\ members' = Append(members,
                                NewMember(handler[h].email, invites[i].role, "invite", i))
                /\ identities' = [identities EXCEPT ![s] = m]
                /\ Found(h, m, "session")
        /\ UNCHANGED <<attempts, sessions, ops>>

\* Mutant: the first sign-in of an empty installation owns it.
OwnsInstallationFirst(email) == members = <<>>
OwnsInstallation(email) == members = <<>> /\ email = Owner

\* hasMembers, and who may be admitted without an invite: the owner of an empty
\* installation, and verified e-mails of an automatically admitted domain.
CountMembers(h) ==
    LET owns == OwnsInstallation(handler[h].email)
        automatic == /\ ~handler[h].local /\ members # <<>> /\ handler[h].ver = "asserted"
                     /\ handler[h].email \in AutoAdmit
    IN  /\ handler[h].at = "count"
        /\ IF owns \/ automatic
           THEN handler' = [handler EXCEPT ![h].at = "admit",
                                           ![h].role = IF owns THEN "administrator" ELSE "member"]
           ELSE End(h)
        /\ UNCHANGED <<members, identities, invites, attempts, sessions, ops>>

\* admitMember commits the row by itself; binding the identity is a later call.
AdmitOnLogin(h) ==
    LET owner == handler[h].role = "administrator"
    IN  /\ handler[h].at = "admit" /\ Len(members) < MaxMembers
        /\ IF Insertable(handler[h].email)
           THEN /\ members' = Append(members, NewMember(handler[h].email, handler[h].role,
                                                IF owner THEN "owner" ELSE "automatic", None))
                /\ Found(h, Len(members) + 1, IF handler[h].local THEN "session" ELSE "bind")
           ELSE End(h) /\ UNCHANGED members
        /\ UNCHANGED <<identities, invites, attempts, sessions, ops>>

\* Mutant: the upsert takes an identity over from the member it is bound to.
BindableTaking(s, m) == \A x \in Subjects \ {s} : identities[x] # m

\* PRIMARY KEY (provider, subject) and UNIQUE (provider, member_id): neither the
\* subject nor the member is bound to another.
Bindable(s, m) ==
    /\ identities[s] \in {0, m}
    /\ \A x \in Subjects \ {s} : identities[x] # m

\* bindExternalIdentity.
BindIdentity(h) ==
    LET s == handler[h].subject
        m == handler[h].member
    IN  /\ handler[h].at = "bind"
        /\ IF Bindable(s, m)
           THEN identities' = [identities EXCEPT ![s] = m] /\ Goto(h, "session")
           ELSE End(h) /\ UNCHANGED identities
        /\ UNCHANGED <<members, invites, attempts, sessions, ops>>

\* issueSession inserts the row whatever has become of the member; every use of
\* it asks for an active member.  A bearer authentication ends without one.
IssueSession(h) ==
    /\ handler[h].at = "session"
    /\ sessions' = IF handler[h].attempt = None THEN sessions
                   ELSE sessions \cup {[attempt |-> handler[h].attempt,
                                        member |-> handler[h].member,
                                        subject |-> handler[h].subject]}
    /\ End(h)
    /\ UNCHANGED <<members, identities, invites, attempts, ops>>

-----------------------------------------------------------------------------
Administer ==
    \E by \in Administrators :
       \/ \E e \in Emails, r \in {"administrator", "member"} : AdmitMember(by, e, r)
       \/ \E m \in Ids : DeactivateMember(by, m)
       \/ \E i \in Invites, e \in Emails \cup {None}, r \in {"administrator", "member"},
             n \in 1..MaxUses : CreateInvite(by, i, e, r, n)
       \/ \E i \in Invites : RevokeInvite(by, i)

SignIn(h) ==
    \/ \E a \in Attempts : Callback(h, a)
    \/ Bearer(h)
    \/ \E s \in Subjects, e \in Emails, v \in Verifications : ProviderAnswers(h, s, e, v)
    \/ FindByIdentity(h)
    \/ FindByEmail(h)
    \/ FindInvite(h)
    \/ RedeemInvite(h)
    \/ CountMembers(h)
    \/ AdmitOnLogin(h)
    \/ BindIdentity(h)
    \/ IssueSession(h)
    \/ Fail(h)

Next ==
    \/ Administer
    \/ \E h \in Handlers : SignIn(h)
    \/ \E a \in Attempts, i \in Invites \cup {None}, local \in BOOLEAN : StartLogin(a, i, local)
    \/ \E a \in Attempts : ExpireAttempt(a)
    \/ \E i \in Invites : ExpireInvite(i)

Spec == Init /\ [][Next]_vars

-----------------------------------------------------------------------------
(* Properties                                                              *)

\* "The installation must retain one active administrator": two administrators
\* deactivating each other at once leave one, and there is none to lose before
\* the owner signs in.
AdministratorRemains == members # <<>> => \E m \in Ids : ActiveAdministrator(m)

\* An invite's use count is the number of members it admitted, it never passes
\* the cap, and a one-person invite admitted nobody else, however many sign-ins
\* hold the invite at once and wherever one of them fails.
InviteUsesAreMembers ==
    \A i \in Invites :
       LET admitted == {m \in Ids : members[m].invite = i}
       IN  /\ invites[i].used = Cardinality(admitted)
           /\ invites[i].used <= invites[i].max
           /\ invites[i].email # None => \A m \in admitted : members[m].email = invites[i].email

\* A session of an active member is held by the person bound to that member: a
\* deactivated person gets no session again, not with a new e-mail that is
\* admitted automatically, and one person never signs in as another whose
\* e-mail the provider has passed on to them.
SessionsFollowIdentities ==
    \A s \in sessions :
       s.subject # None /\ Active(s.member) =>
          /\ identities[s.subject] = s.member
          /\ \A x \in Subjects : identities[x] = s.member => x = s.subject

\* One sign-in attempt gives one session, however often its callback is sent.
OneSessionPerAttempt == \A s, t \in sessions : s.attempt = t.attempt => s = t

\* The first member is the configured owner, and no other member owns the
\* installation: nobody else can be the first to sign in.
OwnerIsFirst == \A m \in Ids : members[m].how = "owner" <=> m = 1 /\ members[m].email = Owner

\* The installation belongs to its owner from the first sign-in and to an active
\* administrator ever after.
InstallationIsOwned == TypeOK /\ OwnerIsFirst /\ AdministratorRemains

\* A session goes to one person, once for each attempt.
SessionsAreSound == SessionsFollowIdentities /\ OneSessionPerAttempt

\* The sign-ins that have found the inviter of i standing and not redeemed yet.
Redeeming(i) == {h \in Handlers : handler[h].at = "redeem" /\ handler[h].invite = i}

\* Once its inviter is deactivated an invite admits only through redemptions
\* that had read the inviter before, and no sign-in joins them.
InviteDiesWithInviter ==
    [][\A i \in Invites :
          invites[i].st # "none" /\ ~ActiveAdministrator(invites[i].by) =>
             /\ Redeeming(i)' \subseteq Redeeming(i)
             /\ Redeeming(i) = {} => invites'[i].used = invites[i].used]_vars

==============================================================================
