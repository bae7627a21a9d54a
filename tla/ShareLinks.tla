------------------------------ MODULE ShareLinks ------------------------------
(***************************************************************************)
(* Who may see one artifact without an account: its public link and its    *)
(* share links, the guests that join through a share link, the preview     *)
(* leases and comments of these guests, and the managers' calls that       *)
(* create, change, rotate and revoke links, change the access setting and  *)
(* the installation's policy, while new versions become current.           *)
(*                                                                         *)
(* A visitor's request reads the link, the policy and the artifact at      *)
(* different moments; each read is a step.  Requests share nothing but the *)
(* rows they insert with their last step, so one request under way at a    *)
(* time is enough.  Managers are taken to hold the permission to share.    *)
(***************************************************************************)
EXTENDS Integers, Sequences, FiniteSets

CONSTANTS
    Links,        \* share_links rows
    Guests,       \* guest_principals rows, each with its one session
    Calls,        \* managers' calls under way
    Keys,         \* idempotency keys of access changes
    MaxVersion,   \* bound: saved versions
    MaxRevision,  \* bound: revisions of a link
    MaxThreads,   \* bound: threads beside which a member opens no other
    MaxReviewVersion,  \* bound: saved versions in the scenarios in which guests write
    Scenarios,    \* the sets of operations that are explored together
    None

ASSUME ShareAssumption ==
    /\ MaxVersion \in Nat \ {0} /\ MaxRevision \in Nat \ {0} /\ MaxThreads \in Nat
    /\ MaxReviewVersion \in 1..MaxVersion
    /\ None \notin Links \cup Guests \cup Keys
    /\ Scenarios \subseteq SUBSET {"join", "lease", "comment", "thread", "public", "change", "update",
                                   "access", "policy", "publish", "stage", "delete", "expire",
                                   "several"}

VARIABLES
    artifact,     \* the versions (count), the current one, the open candidates on it,
                  \* the access setting, and whether it is deleted
    policy,       \* "off": links disabled; else the most that guests may hold
    link, guest,
    leases,       \* preview leases of guests
    comments,     \* threads, of guests and (guest = None) of members
    replies,      \* replies of guests
    used,         \* idempotency rows of change_access
    req,          \* the visitor's request
    call,
    seen,         \* history: what was the case at some moment since req began
    ops

vars == <<artifact, policy, link, guest, leases, comments, replies, used, req, call, seen, ops>>

Latest == 0       \* the link target that follows the current version

NoLink == [st |-> "none", target |-> Latest, comment |-> FALSE, expired |-> FALSE,
           gen |-> 1, rev |-> 1]
NoGuest == [link |-> None, gen |-> 1, named |-> FALSE, ended |-> FALSE]
NoThread == [guest |-> None, version |-> 0]
NoRequest == [kind |-> "idle", todo |-> <<>>, guest |-> None, link |-> None, row |-> NoLink,
              named |-> FALSE, version |-> 0, viewing |-> 0, thread |-> NoThread]
NoCall == [at |-> "idle", kind |-> "none", link |-> None, target |-> Latest, comment |-> FALSE,
           rev |-> 1, to |-> "account", key |-> None, expected |-> 0, wasPublic |-> FALSE,
           held |-> {}]
NothingSeen == [aim |-> {}, promoted |-> {}, current |-> {}, public |-> {},
                on |-> FALSE, write |-> FALSE, allowed |-> FALSE]

Versions == 1..artifact.count
Targets == {Latest} \cup Versions
Kinds == {"create", "update", "rotate", "revoke", "access"}
Steps == {"session", "link", "policy", "target", "aim", "may", "named", "viewing", "thread",
          "current", "join", "name", "lease", "write", "amend", "remove", "serve", "public"}

\* A pinned target, a lease and a comment name versions that are saved, and a reply
\* stands under a thread that has not been removed.
TypeOK ==
    /\ artifact \in [count : 1..MaxVersion, current : Versions, open : SUBSET Versions,
                     access : {"account", "public"}, deleted : BOOLEAN]
    /\ policy \in {"off", "view", "comment"}
    /\ link \in [Links -> [st : {"none", "live", "revoked"}, target : Targets, comment : BOOLEAN,
                           expired : BOOLEAN, gen : 1..MaxRevision, rev : 1..MaxRevision]]
    /\ guest \in [Guests -> [link : Links \cup {None}, gen : 1..MaxRevision, named : BOOLEAN,
                             ended : BOOLEAN]]
    /\ leases \subseteq [guest : Guests, version : Versions]
    /\ comments \subseteq [guest : Guests \cup {None}, version : Versions]
    /\ replies \subseteq [guest : Guests, thread : comments]
    /\ used \in [Keys -> [to : {"none", "account", "public"}, expected : 0..artifact.count]]
    /\ req.todo \in Seq(Steps) /\ req.version \in 0..artifact.count
    /\ \A m \in Calls : call[m].kind \in Kinds \cup {"none"} /\ call[m].target \in Targets

Init ==
    /\ artifact = [count |-> 1, current |-> 1, open |-> {}, access |-> "account", deleted |-> FALSE]
    /\ policy = "comment"
    /\ link = [l \in Links |-> NoLink]
    /\ guest = [g \in Guests |-> NoGuest]
    /\ leases = {} /\ comments = {} /\ replies = {}
    /\ used = [k \in Keys |-> [to |-> "none", expected |-> 0]]
    /\ req = NoRequest
    /\ call = [m \in Calls |-> NoCall]
    /\ seen = NothingSeen
    /\ ops \in Scenarios

visitorVars == <<guest, leases, comments, replies, req>>
managerVars == <<link, used, call>>

-----------------------------------------------------------------------------
(* History: every action ends with Witness                                 *)

\* The operations that need permission to comment.
WriteKinds == {"comment", "amend", "remove"}

\* What holds now, as far as it matters to the request: the version that its link
\* opens for its guest, the policy, the guest's permission to comment, the current
\* version and the public one.
Holds ==
    LET row == link[req.link]
        admitted == /\ req.guest # None
                    /\ row.st = "live" /\ ~row.expired /\ row.gen = guest[req.guest].gen
    IN  [aim |-> IF admitted
                 THEN {IF row.target = Latest THEN artifact.current ELSE row.target} ELSE {},
         promoted |-> {},
         current |-> IF req.kind \in WriteKinds THEN {artifact.current} ELSE {},
         public |-> IF req.kind = "public" /\ artifact.access = "public" /\ ~artifact.deleted
                    THEN {artifact.current} ELSE {},
         on |-> policy # "off",
         write |-> admitted /\ row.comment,
         allowed |-> req.kind \in WriteKinds /\ policy = "comment"]

Merge(s, h, promoted) ==
    [aim |-> s.aim \cup h.aim, promoted |-> s.promoted \cup promoted,
     current |-> s.current \cup h.current, public |-> s.public \cup h.public,
     on |-> s.on \/ h.on, write |-> s.write \/ h.write, allowed |-> s.allowed \/ h.allowed]

\* The history is kept from the state in which a request begins to its last step.
Witness ==
    seen' = IF req'.kind = "idle" THEN NothingSeen
            ELSE IF req.kind = "idle" THEN Holds'
            ELSE IF req.todo = <<>> THEN seen
            ELSE Merge(seen, Holds', IF artifact'.current \in artifact.open
                                     THEN {artifact'.current} ELSE {})

-----------------------------------------------------------------------------
(* The artifact and the policy                                             *)

GuestsWrite == {"comment", "thread"} \cap ops # {}
MoreVersions == artifact.count < IF GuestsWrite THEN MaxReviewVersion ELSE MaxVersion

\* publishVersion: a new version becomes current; candidates on the old are stale.
Publish ==
    /\ "publish" \in ops
    /\ ~artifact.deleted /\ MoreVersions
    /\ artifact' = [artifact EXCEPT !.count = @ + 1, !.current = artifact.count + 1, !.open = {}]
    /\ UNCHANGED <<policy, visitorVars, managerVars, ops>>
    /\ Witness

StageCandidate ==
    /\ "stage" \in ops
    /\ ~artifact.deleted /\ MoreVersions
    /\ artifact' = [artifact EXCEPT !.count = @ + 1, !.open = @ \cup {artifact.count + 1}]
    /\ UNCHANGED <<policy, visitorVars, managerVars, ops>>
    /\ Witness

PromoteCandidate(v) ==
    /\ ~artifact.deleted
    /\ artifact' = [artifact EXCEPT !.current = v, !.open = {}]
    /\ UNCHANGED <<policy, visitorVars, managerVars, ops>>
    /\ Witness

DeleteArtifact ==
    /\ "delete" \in ops
    /\ ~artifact.deleted
    /\ artifact' = [artifact EXCEPT !.deleted = TRUE]
    /\ UNCHANGED <<policy, visitorVars, managerVars, ops>>
    /\ Witness

WriteAccessPolicy(p) ==
    /\ "policy" \in ops
    /\ p # policy
    /\ policy' = p
    /\ UNCHANGED <<artifact, visitorVars, managerVars, ops>>
    /\ Witness

\* A link's expires_at, and the end of a guest's session, pass.
ExpireLink(l) ==
    /\ "expire" \in ops
    /\ link[l].st = "live" /\ ~link[l].expired
    /\ link' = [link EXCEPT ![l].expired = TRUE]
    /\ UNCHANGED <<artifact, policy, visitorVars, used, call, ops>>
    /\ Witness

ExpireGuestSession(g) ==
    /\ "expire" \in ops
    /\ guest[g].link # None /\ ~guest[g].ended
    /\ guest' = [guest EXCEPT ![g].ended = TRUE]
    /\ UNCHANGED <<artifact, policy, leases, comments, replies, req, managerVars, ops>>
    /\ Witness

-----------------------------------------------------------------------------
(* Managers' calls                                                         *)

\* The calls' settings: permission to comment only within the policy's maximum
\* (validateShareLinkPermissions), and only where guests comment.
PermissionAllowed(comment) == comment => policy = "comment" /\ GuestsWrite

\* getVersionDetails: any saved version, a candidate too.
TargetExists(t) == t \in Targets

\* requireSharer and validated: reads only, which the write does not repeat.
Sharer == policy # "off" /\ ~artifact.deleted

\* A scenario that is not about several calls has one at a time.
Start(m, c) ==
    /\ call[m].at = "idle"
    /\ "several" \in ops \/ \A n \in Calls : call[n].at = "idle"
    /\ call' = [call EXCEPT ![m] = c]
    /\ UNCHANGED <<artifact, policy, visitorVars, link, used, ops>>
    /\ Witness

CreateLink(m, t, comment) ==
    /\ {"change", "update"} \cap ops # {} /\ \E l \in Links : link[l].st = "none"
    /\ Sharer /\ TargetExists(t) /\ PermissionAllowed(comment)
    /\ Start(m, [NoCall EXCEPT !.at = "write", !.kind = "create", !.target = t, !.comment = comment])

\* requireLink; a link that has reached the bound on revisions is left alone.
Exists(l) == link[l].st # "none" /\ link[l].rev < MaxRevision

\* expectedRevision is what the manager has loaded: the present one, for an
\* older one can only conflict.
UpdateLink(m, l, t, comment) ==
    /\ {"change", "update"} \cap ops # {}
    /\ Exists(l) /\ Sharer /\ TargetExists(t) /\ PermissionAllowed(comment)
    /\ Start(m, [NoCall EXCEPT !.at = "write", !.kind = "update", !.link = l, !.rev = link[l].rev,
                               !.target = t, !.comment = comment])

RotateLink(m, l) ==
    /\ "change" \in ops
    /\ Exists(l) /\ Sharer
    /\ Start(m, [NoCall EXCEPT !.at = "write", !.kind = "rotate", !.link = l, !.rev = link[l].rev])

\* revoke asks for the artifact, not for the policy.
RevokeLink(m, l) ==
    /\ "change" \in ops
    /\ Exists(l) /\ ~artifact.deleted
    /\ Start(m, [NoCall EXCEPT !.at = "write", !.kind = "revoke", !.link = l])

Refuse(m) == call' = [call EXCEPT ![m] = NoCall]
\* A finished call is remembered where calls run side by side.
Finish(m) == IF "several" \in ops THEN call' = [call EXCEPT ![m].at = "done"] ELSE Refuse(m)

\* createShareLink inserts, whatever has happened since the checks.
InsertLink(m, l) ==
    /\ call[m].at = "write" /\ call[m].kind = "create" /\ link[l].st = "none"
    /\ link' = [link EXCEPT ![l] = [NoLink EXCEPT !.st = "live", !.target = call[m].target,
                                                  !.comment = call[m].comment]]
    /\ Finish(m)
    /\ UNCHANGED <<artifact, policy, visitorVars, used, ops>>
    /\ Witness

\* Mutant: the update does not compare the revision.
ChangeableAnyRevision(l, rev) == link[l].st = "live"
\* WHERE revision = expected AND revoked_at IS NULL.
Changeable(l, rev) == link[l].st = "live" /\ link[l].rev = rev

\* updateShareLink also sets a new expiry, in the future.
WriteUpdate(m) ==
    LET l == call[m].link
    IN  /\ call[m].at = "write" /\ call[m].kind = "update" /\ link[l].rev < MaxRevision
        /\ IF Changeable(l, call[m].rev)
           THEN /\ link' = [link EXCEPT ![l].target = call[m].target, ![l].comment = call[m].comment,
                                        ![l].expired = FALSE, ![l].rev = @ + 1]
                /\ Finish(m)
           ELSE Refuse(m) /\ UNCHANGED link
        /\ UNCHANGED <<artifact, policy, visitorVars, used, ops>>
        /\ Witness

WriteRotation(m) ==
    LET l == call[m].link
    IN  /\ call[m].at = "write" /\ call[m].kind = "rotate" /\ link[l].rev < MaxRevision
        /\ IF Changeable(l, call[m].rev)
           THEN /\ link' = [link EXCEPT ![l].gen = @ + 1, ![l].rev = @ + 1]
                /\ Finish(m)
           ELSE Refuse(m) /\ UNCHANGED link
        /\ UNCHANGED <<artifact, policy, visitorVars, used, ops>>
        /\ Witness

Revoked(row) == [row EXCEPT !.st = "revoked", !.rev = @ + 1]

WriteRevocation(m) ==
    LET l == call[m].link
    IN  /\ call[m].at = "write" /\ call[m].kind = "revoke" /\ link[l].rev < MaxRevision
        /\ link' = [link EXCEPT ![l] = IF @.st = "live" THEN Revoked(@) ELSE @]
        /\ Finish(m)
        /\ UNCHANGED <<artifact, policy, visitorVars, used, ops>>
        /\ Witness

\* changeAccess reads the artifact, and the policy if it is to be public.
ChangeAccess(m, to, k) ==
    /\ "access" \in ops
    /\ ~artifact.deleted /\ (to = "public" => policy # "off")
    /\ Start(m, [NoCall EXCEPT !.at = "write", !.kind = "access", !.to = to, !.key = k,
                               !.expected = artifact.current,
                               !.wasPublic = (artifact.access = "public")])

\* changeAccessSetting: a replay of the key's first effect, a conflict, or the
\* change.  A replay goes on as the change does.
Replayed(m) == used[call[m].key] = [to |-> call[m].to, expected |-> call[m].expected]
Applicable(m) ==
    /\ used[call[m].key].to = "none"
    /\ ~artifact.deleted /\ artifact.current = call[m].expected

CommitAccess(m) ==
    /\ call[m].at = "write" /\ call[m].kind = "access"
    /\ IF Replayed(m) \/ Applicable(m)
       THEN /\ artifact' = IF Replayed(m) THEN artifact ELSE [artifact EXCEPT !.access = call[m].to]
            /\ used' = [used EXCEPT ![call[m].key] = [to |-> call[m].to, expected |-> call[m].expected]]
            /\ call' = [call EXCEPT ![m].at = IF call[m].wasPublic /\ call[m].to = "account"
                                              THEN "revokeAll" ELSE "done",
                                    ![m].held = {l \in Links : link[l].st # "none"}]
       ELSE Refuse(m) /\ UNCHANGED <<artifact, used>>
    /\ UNCHANGED <<policy, visitorVars, link, ops>>
    /\ Witness

\* Mutant: only the links that still admit guests are revoked.
EndedUnexpired == {l \in Links : link[l].st = "live" /\ ~link[l].expired}
\* Every link of the artifact that is not revoked, the expired ones too.
Ended == {l \in Links : link[l].st = "live"}

\* revokeArtifactShareLinks, a transaction of its own.
RevokeArtifactLinks(m) ==
    /\ call[m].at = "revokeAll" /\ \A l \in Links : link[l].rev < MaxRevision
    /\ link' = [l \in Links |-> IF l \in Ended THEN Revoked(link[l]) ELSE link[l]]
    /\ Finish(m)
    /\ UNCHANGED <<artifact, policy, visitorVars, used, ops>>
    /\ Witness

\* A call is answered, or fails or is cut off at any of its steps.
EndCall(m) ==
    /\ call[m].at # "idle"
    /\ Refuse(m)
    /\ UNCHANGED <<artifact, policy, visitorVars, link, used, ops>>
    /\ Witness

-----------------------------------------------------------------------------
(* Visitors' requests                                                      *)

\* Mutant: the generation a guest joined with is not compared.
AdmitsAnyGeneration(row, gen) == row.st = "live" /\ ~row.expired
\* resolveActiveGuest: isShareLinkActive, and not rotated since the guest joined.
Admits(row, gen) == row.st = "live" /\ ~row.expired /\ row.gen = gen

\* The reads of each operation, in order.  authenticate makes the first pass over
\* link, policy and target, the operation's requireActive the second, and
\* authorization resolves the guest once more before a lease or a comment.  A thread is
\* looked for (requireTargetThread) after a pass and a check of its own.
Pass == <<"link", "policy", "target">>
FindsThread == <<"viewing", "link", "policy", "thread">>
Todo(kind) ==
    CASE kind = "join"    -> <<"policy", "target", "join">>
      [] kind = "name"    -> <<"session">> \o Pass \o Pass \o <<"name">>
      [] kind = "lease"   -> <<"session">> \o Pass \o Pass \o <<"current", "link", "policy", "lease">>
      [] kind = "comment" -> <<"session">> \o Pass \o Pass
                               \o <<"link", "may", "named", "viewing", "link", "may", "write">>
      [] kind = "amend"   -> <<"session">> \o Pass \o Pass \o <<"link", "may", "named">>
                               \o Pass \o FindsThread \o <<"link", "may", "amend">>
      [] kind = "remove"  -> <<"session">> \o Pass \o Pass \o FindsThread
                               \o <<"link", "may", "link", "may", "remove">>
      [] kind = "read"    -> <<"link", "policy", "aim", "serve">>
      [] kind = "public"  -> <<"policy", "public">>

Begin(q) ==
    /\ req.kind = "idle"
    /\ req' = [q EXCEPT !.todo = Todo(q.kind)]
    /\ UNCHANGED <<artifact, policy, guest, leases, comments, replies, managerVars, ops>>
    /\ Witness

\* startSession finds the link by its token, so at its present generation.
Open(l) ==
    /\ "join" \in ops
    /\ Admits(link[l], link[l].gen)
    /\ Begin([NoRequest EXCEPT !.kind = "join", !.link = l, !.row = link[l]])

\* A guest's own operation; viewing is the version the page shows, 0 if unsaid.
Act(g, kind, viewing) ==
    /\ guest[g].link # None
    /\ kind \in ops \/ (kind = "name" /\ GuestsWrite)
    /\ viewing = 0 \/ kind = "comment"
    /\ Begin([NoRequest EXCEPT !.kind = kind, !.guest = g, !.link = guest[g].link,
                               !.viewing = viewing])

\* "amend" is a reply, a change of the thread's state or an edit of the guest's own
\* words, "remove" the deletion of the guest's own thread or reply.
ActOnThread(g, kind, thread, viewing) ==
    /\ "thread" \in ops
    /\ guest[g].link # None
    /\ Begin([NoRequest EXCEPT !.kind = kind, !.guest = g, !.link = guest[g].link,
                               !.viewing = viewing, !.thread = thread])

\* authorizePreviewContent: findPreviewLease joins the artifact.  The guest's
\* session is not asked for.
Read(lease) ==
    /\ ~artifact.deleted
    /\ Begin([NoRequest EXCEPT !.kind = "read", !.guest = lease.guest, !.version = lease.version,
                               !.link = guest[lease.guest].link])

\* Mutant: the policy alone decides.
PublicUnlessDeleted == ~artifact.deleted
Public == ~artifact.deleted /\ artifact.access = "public"

\* resolvePublicArtifact reads the setting and the current version together.
OpenPublic ==
    /\ "public" \in ops
    /\ Public
    /\ Begin([NoRequest EXCEPT !.kind = "public", !.version = artifact.current])

At(step) == req.todo # <<>> /\ Head(req.todo) = step

\* What will be read again before it is used is forgotten.
Kept(q) ==
    [q EXCEPT !.row = IF q.todo # <<>> /\ Head(q.todo) = "link" THEN NoLink ELSE @,
              !.version = IF \E i \in DOMAIN q.todo : q.todo[i] = "target" THEN 0 ELSE @]

\* The request passes the step as q, or is refused.
Proceed(ok, q) ==
    /\ req' = IF ok THEN Kept([q EXCEPT !.todo = Tail(@)]) ELSE NoRequest
    /\ UNCHANGED <<artifact, policy, guest, leases, comments, replies, managerVars, ops>>
    /\ Witness

FindGuestSession == At("session") /\ Proceed(~guest[req.guest].ended, req)

FindGuest ==
    /\ At("link")
    /\ Proceed(Admits(link[req.link], guest[req.guest].gen),
               [req EXCEPT !.row = link[req.link], !.named = guest[req.guest].named])

ReadPolicy == At("policy") /\ Proceed(policy # "off", req)

Aim == IF req.row.target = Latest THEN artifact.current ELSE req.row.target

\* targetOf, with the artifact as it is now and the link as it was read.
FindTarget == At("target") /\ Proceed(~artifact.deleted, [req EXCEPT !.version = Aim])

\* Mutant: the lease's version is not compared with the link's target.
LeaseServesAny == req.row.target = Latest => ~artifact.deleted
\* guestTarget, and the comparison with the lease; a pinned link asks for no artifact.
LeaseServes ==
    /\ req.row.target = Latest => ~artifact.deleted
    /\ Aim = req.version

CheckLease == At("aim") /\ Proceed(LeaseServes, req)

\* Mutant: the policy's maximum is not applied to the link's permissions.
MayWriteLink == req.row.comment /\ policy # "off"
\* resolveEffectiveAccess of a guest, for comment writing.
MayWrite == req.row.comment /\ policy = "comment"

AuthorizeComment == At("may") /\ Proceed(MayWrite, req)

RequireNamed == At("named") /\ Proceed(req.named, req)

\* The guest is looking at the link's target, as far as is said.
RequireViewing == At("viewing") /\ Proceed(req.viewing \in {0, req.version}, [req EXCEPT !.viewing = 0])

\* Mutant: a thread on any version of the artifact will do.
OnTargetAny(thread) == thread \in comments
\* A thread on the link's version target; any other thread is reported as missing.
OnTarget(thread) == thread \in comments /\ thread.version = req.version

RequireTargetThread == At("thread") /\ Proceed(~artifact.deleted /\ OnTarget(req.thread), req)

FindCurrent == At("current") /\ Proceed(~artifact.deleted, req)

Serve == \/ At("serve") /\ Proceed(TRUE, req)
         \/ At("public") /\ Proceed(TRUE, req)

\* The request's last step writes a row and leaves nothing to do.
Done == req' = [req EXCEPT !.todo = <<>>]

\* createGuest asks only that the link exists.
CreateGuest(g) ==
    /\ At("join") /\ guest[g].link = None
    /\ guest' = [guest EXCEPT ![g] = [NoGuest EXCEPT !.link = req.link, !.gen = req.row.gen]]
    /\ Done
    /\ UNCHANGED <<artifact, policy, leases, comments, replies, managerVars, ops>>
    /\ Witness

SetGuestIdentity ==
    /\ At("name")
    /\ guest' = [guest EXCEPT ![req.guest].named = TRUE]
    /\ Done
    /\ UNCHANGED <<artifact, policy, leases, comments, replies, managerVars, ops>>
    /\ Witness

CreatePreviewLease ==
    /\ At("lease")
    /\ leases' = leases \cup {[guest |-> req.guest, version |-> req.version]}
    /\ Done
    /\ UNCHANGED <<artifact, policy, guest, comments, replies, managerVars, ops>>
    /\ Witness

CreateThread ==
    /\ At("write") /\ ~artifact.deleted
    /\ comments' = comments \cup {[guest |-> req.guest, version |-> req.version]}
    /\ Done
    /\ UNCHANGED <<artifact, policy, guest, leases, replies, managerVars, ops>>
    /\ Witness

Reply == [guest |-> req.guest, thread |-> req.thread]

\* createReply, to an open thread, or updateThread (state, own words) and updateReply
\* (own words), whose effect is not kept.  Each finds the thread once more.
AmendThread ==
    /\ At("amend") /\ ~artifact.deleted /\ req.thread \in comments
    /\ replies' \in {replies, replies \cup {Reply}}
    /\ Done
    /\ UNCHANGED <<artifact, policy, guest, leases, comments, managerVars, ops>>
    /\ Witness

\* Mutant: the replies of a removed thread stay.
WithoutThreadOnly(thread) == replies
WithoutThread(thread) == {r \in replies : r.thread # thread}

\* deleteThread takes the replies along; a dispatch may hold the thread, which fails.
RemoveThread ==
    /\ At("remove") /\ ~artifact.deleted
    /\ req.thread \in comments /\ req.thread.guest = req.guest
    /\ comments' = comments \ {req.thread} /\ replies' = WithoutThread(req.thread)
    /\ Done
    /\ UNCHANGED <<artifact, policy, guest, leases, managerVars, ops>>
    /\ Witness

RemoveReply ==
    /\ At("remove") /\ ~artifact.deleted
    /\ req.thread \in comments /\ Reply \in replies
    /\ replies' = replies \ {Reply}
    /\ Done
    /\ UNCHANGED <<artifact, policy, guest, leases, comments, managerVars, ops>>
    /\ Witness

\* Members open threads and, as moderators, remove those of anybody.
OpenMemberThread(v) ==
    /\ "thread" \in ops
    /\ ~artifact.deleted /\ Cardinality(comments) < MaxThreads
    /\ comments' = comments \cup {[guest |-> None, version |-> v]}
    /\ UNCHANGED <<artifact, policy, guest, leases, replies, req, managerVars, ops>>
    /\ Witness

ModerateThread(thread) ==
    /\ "thread" \in ops
    /\ ~artifact.deleted
    /\ comments' = comments \ {thread} /\ replies' = WithoutThread(thread)
    /\ UNCHANGED <<artifact, policy, guest, leases, req, managerVars, ops>>
    /\ Witness

\* The request is answered, or fails or is cut off.
EndRequest ==
    /\ req.kind # "idle"
    /\ req' = NoRequest
    /\ UNCHANGED <<artifact, policy, guest, leases, comments, replies, managerVars, ops>>
    /\ Witness

-----------------------------------------------------------------------------
ArtifactStep ==
    \/ Publish \/ StageCandidate \/ DeleteArtifact
    \/ \E v \in artifact.open : PromoteCandidate(v)
    \/ \E p \in {"off", "view", "comment"} : WriteAccessPolicy(p)
    \/ \E l \in Links : ExpireLink(l)
    \/ \E g \in Guests : ExpireGuestSession(g)

ManagerStep ==
    \E m \in Calls :
       \/ \E t \in 0..MaxVersion, comment \in BOOLEAN :
             \/ CreateLink(m, t, comment)
             \/ \E l \in Links : UpdateLink(m, l, t, comment)
       \/ \E l \in Links : RotateLink(m, l) \/ RevokeLink(m, l) \/ InsertLink(m, l)
       \/ WriteUpdate(m) \/ WriteRotation(m) \/ WriteRevocation(m)
       \/ \E to \in {"account", "public"}, k \in Keys : ChangeAccess(m, to, k)
       \/ CommitAccess(m) \/ RevokeArtifactLinks(m) \/ EndCall(m)

VisitorStep ==
    \/ \E l \in Links : Open(l)
    \/ \E g \in Guests, kind \in {"name", "lease", "comment"}, v \in {0, artifact.current} :
          Act(g, kind, v)
    \/ \E g \in Guests, kind \in {"amend", "remove"}, t \in comments, v \in {0, artifact.current} :
          ActOnThread(g, kind, t, v)
    \/ \E lease \in leases : Read(lease)
    \/ OpenPublic
    \/ FindGuestSession \/ FindGuest \/ ReadPolicy \/ FindTarget \/ CheckLease
    \/ AuthorizeComment \/ RequireNamed \/ RequireViewing \/ RequireTargetThread
    \/ FindCurrent \/ Serve
    \/ \E g \in Guests : CreateGuest(g)
    \/ SetGuestIdentity \/ CreatePreviewLease \/ CreateThread
    \/ AmendThread \/ RemoveThread \/ RemoveReply
    \/ EndRequest

MemberStep ==
    \/ \E v \in Versions : OpenMemberThread(v)
    \/ \E t \in comments : ModerateThread(t)

Next == ArtifactStep \/ MemberStep \/ ManagerStep \/ VisitorStep

Spec == Init /\ [][Next]_vars

-----------------------------------------------------------------------------
(* Properties                                                              *)

Completed(kind) == req.kind = kind /\ req.todo = <<>>

\* "A guest's lease serves only while its link admits them and still targets this
\* version": content that is served through a guest's lease was open to the guest
\* at some moment since the request began, through a live, unexpired link of the
\* guest's generation, with links enabled at some such moment, although link,
\* policy and current version are read apart.  The exception is a candidate that
\* was promoted in between.
GuestReadsTarget ==
    Completed("read") =>
       /\ req.version \in seen.aim \cup seen.promoted
       /\ seen.aim # {} /\ seen.on

\* No comment is saved, answered, edited or removed by a guest who was not admitted,
\* with permission to comment, at some moment since the request began; it is on a
\* version that was the link's target or was current in that time, although thread,
\* link and current version are read apart.
GuestWritesAllowed ==
    \A kind \in WriteKinds : Completed(kind) =>
       /\ seen.write /\ seen.allowed
       /\ (IF kind = "comment" THEN req.version ELSE req.thread.version) \in seen.aim \cup seen.current

\* The bare link opens what was current while the artifact was public, with links
\* enabled at some moment since the request began.
PublicReadsPublic ==
    Completed("public") => req.version \in seen.public /\ seen.on

\* What visitors without an account read and write was open to them at some moment
\* of the request, although its reads are apart and links, policy, access setting
\* and versions change between them.
VisitorsStayWithinLinks == TypeOK /\ GuestReadsTarget /\ GuestWritesAllowed /\ PublicReadsPublic

\* "Turning a public artifact private also ends every share link to it": of the
\* links that existed when the setting changed none is left when the call is done,
\* not even an expired one, which an update could extend.
PrivateEndsLinks ==
    \A m \in Calls :
       call[m].at = "done" /\ call[m].kind = "access" /\ call[m].to = "account"
          /\ call[m].wasPublic =>
             \A l \in call[m].held : link[l].st = "revoked"

\* Of the managers who loaded the same revision of a link one changes it.
OneWriterPerRevision ==
    \A m, n \in Calls :
       /\ m # n /\ call[m].at = "done" /\ call[n].at = "done"
       /\ {call[m].kind, call[n].kind} \subseteq {"update", "rotate"}
       /\ call[m].link = call[n].link
       => call[m].rev # call[n].rev

==============================================================================
