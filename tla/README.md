# Verification of Artifact Server

TLA+ models of the parts of Artifact Server in which several actors work on the
same rows and objects: staged publication and its cleanup, agent dispatch over
artifact comments, the version history, the Git mirror of that history,
membership and sign-in, the end of access in several processes, and the links
through which people without an account see an artifact. TLC checks the models on
small instances, and TLAPS proves their safety properties for every instance.

Source paths are relative to the repository root. `SQ` stands for
`src/storage/sqlite-artifact-repository.ts`, `PG` for
`src/storage/postgres-artifact-repository.ts`, and `D1` for
`deploy/cloudflare/src/d1-artifact-repository.ts`. `PROJECT.json` maps every
definition to its lines.

## 1. Inventory

A server process (Node with SQLite or Postgres, or a Cloudflare worker with D1)
exposes services over HTTP and MCP. Services are sequences of awaited calls to
a repository, to a staging store and to a blob store. Several servers may share
one database, every call can fail, and a process can stop between any two calls.

| Component | State | Operations | What makes it correct |
| --- | --- | --- | --- |
| Staged uploads and publication (`application/staged-upload.ts`, `publish-artifact.ts`) | upload rows, file rows, idempotency records, staged objects, blobs | create (fresh, key-bound, resumed), reuse, put, commit | a published version has its bytes, one key publishes once, sealing is final |
| Publication preparation (`publication-preparation.ts`) | lease, attempt number, installed files, prepared entries | claim, renew, install, record, extend expiry, mark, release | one holder of the fence, a completed preparation is complete |
| Staging cleanup (`expired-staging-cleanup.ts`, `committed-staging-cleanup.ts`) | cleanup stamp, cleaned mark | select, claim, remove bytes, remove rows, release, sweep | never removes what a preparation needs, forgets nothing, resumes |
| Agent dispatch (`agent-dispatch.ts`) | agents with last-seen times, dispatches with leases | register, disconnect, send, claim, report, cancel, lazy transitions | one claim per agent, bundles stay intact, settled is final, work comes back |
| Artifact comments (`artifact-comments.ts`) | threads with dispatch markers, replies, revision counter | create, edit, resolve, reopen, delete, clear, reply, poll | no hidden thread without a live dispatch, the revision names the page |
| Version history (`artifact-management.ts`, `publish-artifact.ts`) | artifacts, versions, records, actions, jobs | publish, stage, promote, close, restore, access, rename, tags, delete | current is accepted, history immutable, numbers gapless, a key takes effect once |
| Project settings (`project-management.ts`, `project-git-history.ts`) | archive mark, mirror setting | archive, restore, enable, disable | an archived project gains nothing |
| Git history mirror (`git-history/git-history-mirror.ts`, provider) | jobs with leases, budget reservations, mappings, remote repositories | backfill, claim, reserve, create, push, tag, confirm, complete, delete | the branch is the accepted history, one writer, budget kept, nothing orphaned |
| Git history purge (`git-history/git-history-purge.ts`) | repository rows, remotes | delete repositories of a disabled project, complete | interruptible, removes everything |
| Identity, login, invitations (`installation-access.ts`, `interactive-login.ts`, `invitations.ts`) | members, bound identities, invites, sign-in attempts, sessions | start, callback, redeem, admit, bind, deactivate, invite, revoke | an administrator remains, an invite's uses are its members, sessions belong to the person bound |
| Authentication and its end (`installation-access.ts`, `authentication-cache.ts`, `content-access.ts`) | credentials, a cache per process, content sessions, bootstraps, sleeping sweeps | authenticate, issue, rotate, revoke, sign out, deactivate, sweep | a revoked credential dies within the time to live, content access ends with it |
| Share links, guests, public links (`share-links.ts`, `guest-review.ts`, `content-access.ts`) | links with revision and generation, guests, preview leases, policy, access setting | create, update, rotate, revoke, join, name, lease, read, comment, reply, edit, remove, open publicly, change access | nothing is served or saved that was not allowed during the request, one writer per revision, private ends the links |
| Linked artifacts, grants and project access | see `PROJECT.json` | | not modelled |
| Activity, catalog, comparison, manifest parsing, HTTP routing, MCP, CLI, lifecycle tools, web and site, deployment | | | read-only, I/O, pure formatting or front ends |

How they interact: `commitUpload` drives a preparation, then calls the version
history transaction that seals the upload; that transaction also queues a Git
history job when the project mirrors; deleting an artifact ends its mirror jobs
and queues the deletion of its repository. Comment operations and dispatches
share the threads. Deactivating a member ends sessions, keys and content access;
making an artifact private ends its share links; a guest's comment is a thread
of the artifact's comments. Cleanup passes and mirror workers are background loops; the
dispatch has no loop at all and works lazily on reads.

What is hard here: leases that run out under a holder that goes on; several
awaited calls that read, decide and write; D1, which has no interactive
transaction, so that an operation is a few reads and one guarded batch; cleanup
of two stores (rows and objects) that cannot be changed together; retries with
one idempotency key; crashes between two removals; liveness that rests on
lazily applied transitions; authentication that is cached in every process;
requests that read link, policy and artifact at different moments. `PROJECT.json` lists these hazards at their lines.

## 2. Modules

| Module | Models | Extends |
| --- | --- | --- |
| `StagedPublication` | uploads, preparation, publication, both cleanups | |
| `StagedPublicationProofs` | types and published bytes | `StagedPublication` |
| `StagingSafetyProofs` | fence, keys, preparation and cleanup | `StagedPublicationProofs` |
| `AgentDispatch` | agents, dispatches, comment threads, viewers | |
| `AgentDispatchProofs` | theorems about it | `AgentDispatch` |
| `AcceptedHistory` | abstract specification: what version history promises | |
| `VersionHistory` | artifacts, versions and settings of a project on each store | (refines `AcceptedHistory`) |
| `VersionHistoryProofs` | theorems about it, the refinement included | `VersionHistory` |
| `GitHistoryMirror` | mirror workers, provider, purge, composed with the history that feeds them | `VersionHistory` |
| `GitHistoryMirrorProofs` | theorems about the composition | `GitHistoryMirror`, `VersionHistoryProofs` |
| `Membership` | sign-ins, invites, members, identities, sessions | |
| `MembershipProofs` | theorems about it | `Membership` |
| `AccessRevocation` | credentials, caches, content access and its sweeps, in several processes | |
| `AccessRevocationProofs` | theorems about it | `AccessRevocation` |
| `ShareLinks` | one artifact's links, guests and public access | |
| `ShareLinksProofs` | theorems about it | `ShareLinks` |
| `MC*` | symmetry sets and constant functions for TLC | the module of that name |

An operator whose comment starts with "Mutant" is a deliberately wrong version
of the definition that follows it. It is never used by the specification: it
records a mistake that the properties reveal. `PROJECT.json` names one for each
property of a run; the others break a further part of a property that is a
conjunction of named parts.

### StagedPublication

One action is one awaited call: a repository transaction or a call to a store.
`upload[u]` is the row of `staged_uploads` with its file and manifest-entry
rows; `staged` and `blobs` are the two stores, `receipt` the idempotency
records, `req` and `pass` the local variables of requests and cleanup passes in
flight, `now` the clock. A call carries a clock that the service read before it; the
lease is renewed by two steps, the reading of the clock (`PrepareChunk`) and the statement
that arrives later (`PrepareRenew`), because there an old time decides what the other
statements refuse: it revives a lease behind a cleanup stamp. Passes and purges keep the time
at which they selected an upload (`t` of `pass` and `req`). The claim of a preparation and the
extension of the expiry take the clock of their statement: an earlier one refuses more
(`Claimable` wants the old lease over, and no stamp at all) and writes a lease or an expiry that
ends sooner, as a tick later does. A request that stalls is one whose next action is not
taken while `Tick` is; a request that fails is `Fail`. All uploads declare the
same files, because the races are between retries of one publication, and a
file is present or absent (the digest check of an install is its success).
`CommitNeedsPrepared` selects the extra commit check of Postgres and D1. Limits
on sizes and rates, reading of the uploaded body, and manifest validation are
left out.

### AgentDispatch

One action is one repository transaction. A service call reads the agent and
the clock first, so `calls` holds calls in flight with what they read. Four
constants name the differences between the stores: `AtomicClaim` is false for
D1, where `claimNextDispatch` takes four round trips; `AtomicClear` is false for D1, where
`clearThreads` lists (`ClearList`), deletes what it listed (`ClearDelete`) and bumps the revision
(`ClearBump`) in three, and true for SQLite. It is not claimed for Postgres, whose listing locks the
thread rows (`FOR UPDATE OF thread`, PG 3761) but joins the states of their dispatches
without a lock. `AtomicListing` is true
only for SQLite, which reads page and revision in one snapshot; `LazyReadBumps`
is true only for D1, where `findDispatch` bumps the revision when it fails a
dispatch. A held long poll is a sequence of claims. Left out: audit actions and
answers (they change nothing that is modelled), idempotent replays, activity
beacons, and `observeAddressed`, which no service calls. Deleting an artifact is
soft and leaves its threads alone.

### VersionHistory and AcceptedHistory

On SQLite and Postgres an operation is one step (`D1 = FALSE`). On D1 it is `Ask`
(idempotency lookup and project check), `ReadRows` and the batch, whose guards
re-check part of what was read; `calls` carries what the reads saw. The key `None`
is a key that is sent once. `receipt` is written in the same step as the effect;
`effects` is a history variable counting effects per key. `AcceptedHistory` knows
only heads, accepted sets and open candidates; `KeepsAcceptedHistory` says that
every step of every store maps to one of its steps or to a stutter.

### GitHistoryMirror

A commit is deterministic in its version, parent and tree, so it is modelled by
the sequence of versions from the root to itself; the branch is one such
sequence and a tag another. The lease of a job is the flag `live`: renewals are
left out, and `ExpireLease` may strike a worker that goes on. Each of the
worker's awaited calls is a step that may also fail (`Fail`), stop for ever
(`Abandon`) or, behind a fence, lose its claim (`LoseLease`). The provider is
external: it is modelled from the calls the worker makes (create if absent,
fast-forward push, tag, delete). A finished deletion ends all jobs of the artifact on SQLite
and the worker's own on Postgres and D1; `CompleteDeletion` does either. The purge reads
its plan once (`ReadPurgePlan`), then takes repository after repository, whatever is enabled
meanwhile; its page is the repository it is at. Backoff times, copy planning and capability
probes are left out.

### Membership

A sign-in is a handler that makes one repository call per step: `at` is the call
it makes next, and the other fields of `handler[h]` are what it has read. The
members table is a sequence, because rows are never deleted. The provider is
external: it may answer with any subject, any e-mail and any verification, also
with an e-mail that belonged to somebody else before. Requesters of
administrators' calls need not be active: their authentication may be a cached
one (that is the subject of `AccessRevocation`). Expiry is a step that may happen
at any time. Taken as given: one provider; roles and e-mails do not change, and
no operation of the code makes a deactivated member active again.

### AccessRevocation

A step is what runs between two awaits of a request, of an operation that issues
or ends access, or of a sleeping sweep. `cache[s][c]` is the time until which
process `s` honours `c` without asking; `began` is the time a request read first,
from which the cache counts. `swept` is a history variable. One clock stands for
those of all processes. `leases` are content sessions and preview leases (one
table), whose 12 hours outlast every other time here.

### ShareLinks

One artifact. A visitor's request is a list of reads (`Todo`) that are done one
step at a time, the last of which serves or inserts; `seen` is a history variable that
collects, over the whole request, what the link, the policy and the artifact
allowed at each moment. Requests share only the rows that their last step
inserts, so one request at a time is enough, while the calls of managers, each a
check and a write, overlap it and each other. Managers are taken to hold the
permission to share. The revision that a manager's call expects is the one that
is present when the call begins: an older one can only conflict. Guests answer,
change and remove threads, their own and those of members (who may remove any thread in
between); of a thread its author and version are kept, not its words or its state, so a
refused reply to a resolved thread is one of the failures that `EndRequest` stands for.

## 3. Runs

All runs pass. Every clock, counter and supply of ids is bounded
by a named constant; the bounds make instances run dry, so the configurations
turn the deadlock check off (clients may stop asking at any time as well).

| Run | Instance | Shows |
| --- | --- | --- |
| `staged_retry` | 2 uploads, 2 requests, 1 key, 1 file, 2 attempts per upload, time to 2 | fence unique after a takeover (`OneFenceHolder`), a completed preparation stays (`PreparedIsStable`), `PublicationsAreSound` (types, one key publishes once: `OnePublicationPerKey`) |
| `staged_cleanup` | 1 upload of 2 files, one file per pass, 2 requests, 1 cleanup pass failing or crashing at any time, time to 3 | `PreparedIsComplete`, `PublishedBytesInstalled`, `CleanupIsExclusive` (`StampBeforeRemoval`, `StampEndsClaims`, `LeaseKeepsRows`), `CleanedMeansReclaimed`, `SealedIsFinal` |
| `staged_abandoned` | 1 upload of 2 files, 2 passes stopping at will until time 4, time to 6, fairness | `AbandonedFilesReclaimed` |
| `dispatch_claims` | SQLite; 2 dispatches, 2 threads, 1 agent, 2 calls in flight, 1 viewer | `OneActiveClaim`, `BundlesAreSound` (types, `BundleHeld`), `NoStrandedThread`, `ViewerShowsNothingStale`, `SettledIsFinal` |
| `dispatch_d1` | D1; 2 dispatches for 1 thread, fairness | `WorkComesBack` |
| `history_sqlite` | 2 artifacts, 3 versions, all 13 operations | `LinkLogAgrees`, `ArchivedStaysClosed` |
| `history_d1` | D1; 1 artifact, 3 versions, 2 overlapping operations, one shared key | `HistoryIsSound` (types, `CurrentIsAccepted`, `NumbersAreGapless`), `OneEffectPerKey`, `HistoryIsImmutable`, `KeepsAcceptedHistory` (refinement) |
| `mirror_branch` | 1 artifact, 3 versions, budget for 2, 2 workers, 2 attempts per job | `OneOwner`, `MirrorFollowsHistory` (types, `BranchIsHistory`, `MappedIsOnBranch`), `BudgetKept`, `NextCommitFits`, `PublishedHistoryStays` (`RefsAdvance`, `MappingsStay`), `DeletionIsQueued` |
| `mirror_progress` | 1 artifact, 2 versions, 1 worker, purge, fairness | `MirrorCatchesUp`, `DeletedRepositoryGoes`, `NoOrphanRepository` |
| `membership` | 2 sign-ins under way, 2 attempts, 2 people, 3 e-mails, 1 invite, 3 members | `InstallationIsOwned` (types, `AdministratorRemains`, `OwnerIsFirst`), `InviteUsesAreMembers`, `SessionsAreSound` (`SessionsFollowIdentities`, `OneSessionPerAttempt`), `InviteDiesWithInviter` |
| `revocation` | 2 processes with caches of one entry, 2 credentials of 1 member, 1 request, time to 3 | `RevocationIsSound` (types, `BoundedStaleness`), `SweepsEndAccess`, `KeysDieWithMember` |
| `share_links` | 1 link, 1 guest, 1 request, 2 managers' calls, 2 keys, 3 versions (2 where guests write), 3 revisions | `VisitorsStayWithinLinks` (types, `GuestReadsTarget`, `GuestWritesAllowed`, `PublicReadsPublic`), `PrivateEndsLinks`, `OneWriterPerRevision` |

In the last three, `Scenarios` is a set of sets of operations: an initial state chooses
one of them, so that the operations whose interplay matters are explored together and
the others do not multiply the states.

Why the bounds are enough. Two requests are what a race needs, and the fence
compares two attempts, so two attempts contain the takeover; two files with one
file per pass contain the interrupted and the resumed pass. Lifetimes and
leases of one tick with a clock of two or three ticks let each lease lapse, each
upload expire and each settle delay pass, before or after any other step. In
`staged_cleanup` the lease is two ticks and is renewed from one tick before its end, so that
a renewal can be under way, with the time it read, while the lease lapses and a pass
stamps the upload. In
`dispatch_claims` the zero lengths of lease and staleness mean that they are over
at the next tick. Three versions are the smallest history with a candidate
between two accepted versions. The two workers of `mirror_branch` include the
one that goes on after it lost its lease; two attempts per job contain one
retry, and the third version meets an exhausted budget. Two sign-ins, or two
administrators, are what a race for a use, a binding or the last administrator
needs, and a third member is the one that is admitted late. In `revocation` the
time to live is 2, the margin 1 and the clock runs to 3, so that a second sweep falls
due and leases can follow it; a cache of one entry evicts. In `share_links` three
versions hold a published, a staged and a current one, and a link of three
revisions is created, changed and changed back, or rotated; where guests write, two
versions are enough for a link to move away from a thread, and one thread of a member
meets those of the guest. Symmetry is used for ids only, and not in runs with liveness.

The runs of `GitHistoryMirror` leave out the operation `restore`,
which leads to the divergence of `VersionHistory_numbers` (section 6). Without it
`AcceptedNumbersIncrease` holds: `tlc -config VersionHistory_order.cfg MCVersionHistory`, kept
beside the runs, checks it on D1 (4 versions, 2 overlapping operations), and
`NumbersIncrease` of section 5 proves it. The theorems
`BranchesAreChains`, `GitIsAppendOnly`, `DeletionsQueued`, `BudgetIsKept` and `OwnerIsUnique` of section 5 do
not: they say what is left of the mirror with restores and purges. `MirrorCatchesUp` excepts
versions of a purged repository for the reason given there, and versions for which the
budget has no room; `mirror_progress` has one worker, because with a bound on attempts
a second worker's interference could use all of them up. `NoOrphanRepository` is
checked with one worker: a provider call of a second, stale worker may land
arbitrarily late. For the same reason `BranchIsHistory` says nothing of the tags of a
deleted artifact: with three workers a late `createRepository` makes an empty repository
after the deletion, and another stale worker then pushes its tag alone.

## 4. Fairness

- `StagedPublication`: weak fairness of the clock and of each cleanup pass that can
  go on. `startStagingCleanupSchedule` repeats passes for as long as the server runs.
  Requests have no fairness, and passes fail or crash freely until `LastStop`.
- `AgentDispatch`: weak fairness of the clock and of `ListDispatches`. Nothing in the
  code applies the transitions by itself: `WorkComesBack` holds only if somebody
  keeps reading dispatches, and this is the assumption that says so.
- `GitHistoryMirror`: weak fairness of each worker's loop (`startGitHistoryMirrorWorker`
  repeats passes), of the calls it waits for (they end, with an answer or by a
  timeout) and of the expiry of a lease that no running worker renews. Failures are
  bounded by `MaxAttempts`.

## 5. Proofs

Every invariant and every action property of the runs, and the refinement of
`AcceptedHistory`, is a theorem. The theorems hold for every value of the constants under
the assumptions the modules name (`TimesAssumption` and the others: lengths of time are
natural numbers, model values are distinct from ids) and the hypotheses in the table
below. Almost no property is inductive as it stands. What is missing each time is what a
row, a request in flight or a worker *remembers*, and what of it the others cannot take
away; so each module defines one inductive invariant of this kind and has one lemma per
action, or per shape of step where many actions do the same to the rows.

| Module | Theorems | Inductive invariant |
| --- | --- | --- |
| `StagedPublicationProofs` | `TypeCorrect`, `PublishedBytes` | `Backed` |
| `StagingSafetyProofs` | `FenceIsExclusive`, `PublicationIsUnique`, `PreparedComplete`, `CleanupExclusive`, `CleanedIsReclaimed`, `SealedStays`, `PreparedStays` | `SafetyInv` |
| `AgentDispatchProofs` | `DispatchTypes`, `BundlesHeld`, `NoneStranded`, `OneClaim`, `SettledFinal`, `ViewersAreFresh` | `Consistent`, `NoSplitClaim`, `ViewerSound` |
| `VersionHistoryProofs` | `HistorySound`, `EffectOnce`, `HistoryImmutable`, `HistoryRefines`, `NumbersIdentify`, `LinkLog`, `ArchivedClosed` | `HistoryInv` |
| `GitHistoryMirrorProofs` | `OwnerIsUnique`, `BudgetIsKept`, `MirrorFollows`, `NextFits`, `NumbersIncrease`, `BranchesAreChains`, `GitIsAppendOnly`, `HistoryUnderMirror`, `NoneOrphaned`, `DeletionsQueued` | `OwnerInv`, `BranchInv`, `TipInv`, `BuiltInv`, `OrphanInv`, `QueueInv` |
| `MembershipProofs` | `Owned`, `UsesAreMembers`, `SessionsSoundAlways`, `InviteDies` | `MembershipInv` |
| `AccessRevocationProofs` | `TypeCorrect`, `StalenessBounded`, `SweepsSound`, `KeysDie` | `IInv`, `RotationSound` |
| `ShareLinksProofs` | `VisitorsStay`, `PrivateEnds`, `OneWriter` | `ShareInv` |

### Hypotheses

Ten theorems need more than the assumptions of their modules. All properties but the last do not
hold without their hypothesis; the last column says why, with configurations of section 6.

| Theorem | Hypothesis | Because |
| --- | --- | --- |
| `OneClaim` | `AtomicClaim` (SQLite, Postgres) | `AgentDispatch_twoclaims` |
| `BundlesHeld` | `AtomicClear` (SQLite) | `AgentDispatch_cleared` |
| `ViewersAreFresh` | `AtomicListing`, `AtomicClear` (SQLite) | the torn read of `AgentDispatch_torn` leaves a stale thread under the current revision, and so does a clear between its delete and its bump |
| `LinkLog` | `~D1` | `VersionHistory_link` |
| `ArchivedClosed` | `~D1` | `VersionHistory_archived` |
| `NumbersIncrease` | no `restore` among `Ops` | `VersionHistory_numbers`; so restores are all that breaks the promise |
| `NextFits` | no `restore`, no `purge` among `Ops` | `GitHistoryMirror_late`; between the steps of a purge the branch is gone and its mappings are not |
| `MirrorFollows` | no `restore`, no `purge` among `Ops` | a restore lets a lower number be accepted late (`VersionHistory_numbers`); a purge deletes the repository before it marks the mappings, so that for a while they name commits that are gone |
| `NoneOrphaned` | one worker, `~D1` | `GitHistoryMirror_orphan`, and the late `createRepository` of a second worker (section 3) |
| `KeysDie` | `IsFiniteSet(Creds)` | the property counts keys |

### Arguments

- *Types* (`TypeCorrect`, `DispatchTypes`, and parts of the other invariants). They also say
  that a request, pass or call in flight names the rows it works on.
- *Published bytes.* The sealing transaction trusts file rows, and its request trusts
  what it read. `Backed`: every record of an installed file, durable or in the memory of
  a request, is backed by a blob, and a request that is storing has a blob for every
  file it has passed. Cleanup never removes blobs, so only the install and the recording
  have to establish it.
- *Staging.* `SafetyInv` says of the row with its bytes (`RowSound`), of each request
  (`PreparationSound`, `WriterSound`) and of each pass (`PassSound`) what the others leave
  alone. Two parts carry the argument. The attempt of a holder is at most the row's, and a claim
  raises the row's, so a fence is never shared. A file that a preparation has not installed
  is among those it still has to do, although it computed them from rows read before its claim,
  because files only become installed. `CleanupExclusive` says of every step what it may do to
an open upload: no claim passes the stamp, so the attempt stays and a lease behind it can only
come from a renewal that carries this attempt and a time before the lease's end; passes
and purges remove rows only where the row's lease is over at the time they carry, which is never
ahead of the clock, so that a lease that was renewed meanwhile keeps its rows. A step rewrites a row in one of
  a few ways (`Legal`, `Seals`), and the lemmas are about these ways, not about pairs of actions.
  `CleanedIsReclaimed` rests on `WriterSound`: a put that is under way started before the upload
  expired, hence it has ended when the settle delay is over.
- *Dispatch.* `BundleHeld` and `NoStrandedThread` are inductive only together
  (`Consistent`): a bundle keeps its markers because nobody else may mark a thread that
  carries one, and a marker is dropped exactly by the step that settles its dispatch or
  reopens the thread. Only the clear of D1 takes threads off a bundle, because it deletes what
  an earlier step listed; so `BundlesHeld` needs `AtomicClear`, while `NoneStranded` and
  `SettledFinal` hold for all three stores. `NoSplitClaim` says that no
  call is between the rounds of a split claim. `ViewerSound`: a page read together with its
  revision is a part of the current page as long as the revision is the same, since each
  step that takes a thread off the page, or edits it, raises the revision.
- *History.* On D1 a batch writes what was read earlier. `CallsSound` says what these reads
  are still good for: the number was the next one and may have been taken since, so that the
  uniqueness guard decides; a restorable version stays restorable. `EffectsRecorded` ties
  the history variable to the receipts. `HistoryStep` describes what any operation
  may do to history (add a version, move a candidate, point current, retire an artifact), on all
  stores alike; `HistoryImmutable` and `HistoryRefines` follow from it, the latter by matching
  each of these shapes with a step of `AcceptedHistory`.
- *Mirror.* `OwnerInv` contains `HistoryInv`, because jobs are made by the history's
  transactions. An artifact has at most one claimed job, and two workers never carry the same
  attempt of a job, whence `OneOwner`. `BudgetIsKept` rests on
  the guard of the reservation: no other step adds to what is used. `BranchInv` adds that without restores a version is accepted with a number above
  all accepted ones (`OrderSound`). So the previous accepted version of a version never
  changes, and every commit that is built, by whichever worker, is the recorded commit of the
  predecessor with the version at its end (`WorkSound`, `MappingSound`). Two workers that build
  the same version build the same commit, and a fast-forward push of a stale worker
  cannot take anything off the branch. `TipInv` adds that a branch ends in a version all of whose
  predecessors are recorded and that a worker builds only such versions; two versions of which neither is
  recorded cannot both be of this kind, so the next version finds its parent, or itself, at the tip,
  whoever pushed it.
- *Mirror with restores and purges*. What is left needs no `BranchInv`. `BuiltInv`: until it is
  pushed, the commit of a worker is one longer than the tip it read as the parent, and the push requires
  that the tip still is this parent; hence `GitIsAppendOnly`. That branches are chains of
  accepted versions (`BranchesAreChains`) is a part of `OwnerInv`: the worker read version and
  parent from rows that history never changes. `HistoryUnderMirror` holds because no step of the mirror writes the
  rows of the history (`MirrorMoves`), so that `HistoryRefines` and the others carry over.
- *Deletions.* `QueueInv` says of every store, for any number of workers: a deletion job belongs to
  a row that is `deleting` or `deleted`, a `deleting` row has a job that is queued or claimed, and no
  deleted artifact has a `provisioned` row. On D1 the worker that
  records coordinates queues nothing; there it is decisive that the batch of the deletion ended
  the mirror jobs (`JobsEnded`), so that this worker has lost its claim. With one worker
  and transactional deletes also a repository without a row is known. `OrphanInv`: a repository whose coordinates are not recorded yet has a
  pending job that found or made it (`RepoSound`, `HolderSound`), and one whose coordinates
  are recorded is handed to the deletion job in the transaction that deletes the artifact.
- *Membership.* What a request relies on only grows (`Grows`): member rows stay, bound
  identities stay bound, consumed attempts stay consumed. So `RequestSound` survives the steps of
  others, and a step is proved by what it does to its own request and to the tables it
  writes. `AdministratorRemains` follows from the guard of the deactivation inside its transaction.
- *Revocation.* A request that has found a row which was revoked since began before
  the revocation (`RequestBound`), so the entry it fills lasts no longer than the time to
  live after it (`CacheBound`); an authenticated request began within that time, and so
  did the one behind each lease (`LeaseBound`); a lease that is left after a pair of
  sweeps was made after the second one (`SweepBound`), whence the difference of
  the two times is at least the margin. `KeysDie` needs in addition that a rotation holds a key of the
  principal it was started for, so it replaces a key and adds none.
- *Share links.* `ShareInv` says of a visitor's request, by the steps it still has to do,
  what it has seen: one that no longer has to ask for the permission had it at a moment recorded in
  `seen`, and likewise for target, thread, lease and policy. `seen` only grows during a
  request, so nobody else can disturb this. `CallsSound` does the same for managers.

`NumbersIdentify` and `BranchesAreChains` state consequences of the inductive invariants that no
run lists: that no two versions of an artifact share a number, and what a branch contains.

Only model-checked: the liveness properties `AbandonedFilesReclaimed`, `WorkComesBack`,
`MirrorCatchesUp` and `DeletedRepositoryGoes`. They rest on fairness, hence on `ENABLED`, which is
outside TLAPS.

## 6. Divergences

The models also show where the code and its documents disagree. Each configuration
of this table violates its property; they are kept beside the runs of section 3.

| Configuration | Property | What TLC shows |
| --- | --- | --- |
| `AgentDispatch_silent` | `RevisionNamesThePage` | `findDispatch` on SQLite and Postgres fails the dispatch of an absent agent and returns its threads to the default listing without touching `comment_revision` (SQ 5479-5510), so a viewer that polls by revision keeps a page without them; `artifact-comments-spec.md:256` lists dispatch release among the changes that increment the counter, and D1 does |
| `VersionHistory_numbers` | `AcceptedNumbersIncrease` | publish 1, stage 2 on it, publish 3, restore 1, promote 2: the base is current again and 2 joins accepted history after 3; `git-history-spec.md:113` concludes from the base check that "accepted numbers only increase", which `NumbersIncrease` proves where nothing is restored |
| `GitHistoryMirror_late` | `NextCommitFits` | the consequence of `VersionHistory_numbers`: the promoted version wants a parent below the branch tip (`git_history_predecessor_mismatch`), so neither it nor its successors can be mirrored; `git-history-spec.md:261` calls any other tip "a transient anomaly", which `NextFits` proves without restores and purges |
| `GitHistoryMirror_purged` | `MirrorComesBack` | after a purge the finished jobs keep reconciliation (SQ 933) from queueing the versions again when the project is enabled; `git-history-spec.md:42` promises a job for "an older unmapped version" |
| `GitHistoryMirror_orphan` | `NoOrphanRepository` | on D1 an artifact deleted between the creation of its repository and the recording of the coordinates leaves a repository without a job (`git-history-spec.md:308`) |
| `StagedPublication_stranded` | `StoppedPassIsResumed` | the listing of expired uploads joins file rows (SQ 3245), so a pass that stops after the last file row strands the upload row; `expired-staging-cleanup.ts:179` |
| `StagedPublication_stalled` | `NoRowsWithoutBytes` | `extendStagedUploadExpiry` compares the attempt and not the lease: a preparation that outlived its lease revives an upload that a pass is emptying; `docs/publication-preparation.md:60-64` |
| `StagedPublication_purge` | `NoRowsWithoutBytes` | a `createUpload` retry removes the staged bytes of its expired upload under a running preparation (same document) |
| `StagedPublication_renewal` | `CleanupExcludesLeases` | `renewUploadPreparation` compares the lease with a clock read before the call and does not look at the cleanup stamp (`publication-preparation.ts:230`, SQ 3356): it arrives after the lease lapsed and a pass stamped the upload, and makes the lease live again; `docs/publication-preparation.md:60`: "expired-staging cleanup never races an active preparation". `CleanupExclusive` proves what is left |
| `AgentDispatch_cleared` | `BundleHeld` | on D1 `clearThreads` lists, then deletes without another look at the dispatch (D1 4456-4485, unlike `deleteThread`), so a thread that is sent in between is deleted under its dispatch; the comment at D1 4447: "Clearing never yanks work out from under an agent" |
| `AgentDispatch_twoclaims` | `OneActiveClaim` | on D1 two overlapping polls claim two dispatches (D1 5001: "while a claim is held, the next claim waits") |
| `AgentDispatch_torn` | `RevisionNamesThePage` | on Postgres and D1 page and revision are read by two statements (PG 3583), so a change between them leaves an old page under the new revision |
| `VersionHistory_archived` | `ArchivedStaysClosed` | on D1 the project is checked before the batch only; `phase-8-project-scoped-artifacts.md:46-47` |
| `VersionHistory_link` | `LinkLogAgrees` | on D1 two overlapping access changes compare with the setting they read, and the log of public links ends on the wrong action (`action-insert.ts:116`) |

Five more are visible in the models as the exceptions their properties make:

- `KeysDieWithMember` excepts issuances: `issueApiKey` looks the member up, and a deactivation
  between that read and the insertion leaves a live key of a deactivated member.
- `SweepsEndAccess` excepts bootstraps: one that was issued before the access was ended is
  exchanged for a content session after both sweeps (`exchangeContentBootstrap` asks nothing
  of its holder). It also speaks only of completed pairs of sweeps: the second sweep of a
  process that stops is not repeated.
- `PrivateEndsLinks` is about calls that were answered. When `changeAccess` fails between the access
  change and `revokeArtifactShareLinks` (`artifact-management.ts:775`) the links stay active, and the
  retry reads the setting as private and revokes nothing. A link inserted by a creation
  that passed its checks earlier survives as well. Conversely, replaying an old
  make-private key while the artifact is public again revokes links although the setting
  does not change, against the comment at `artifact-management.ts:772`.
- `GuestReadsTarget` excepts a candidate that was promoted during the request: the link is read
  as following the current version, and the current version is read after a manager
  pinned the link elsewhere and promoted the candidate. Likewise `GuestWritesAllowed` lets a comment
  land on a version that was current, but not the link's target, during the request.
- `BranchIsHistory` excepts the tags of a deleted artifact: `createRepository`
  (`git-history-mirror.ts:393`) of a worker that lost its lease can reach the provider after
  the deletion job, and the repository it leaves holds no branch, at most a stale tag.

None of them endangers a published version: `PublishedBytesInstalled`, `SealedIsFinal` and
`HistoryIsImmutable` hold in the same models.

## 7. Not modelled

Components with status `not_modelled` in `PROJECT.json`, with their reasons. Within the
modelled ones: how a storage provider makes a put or an install atomic, request
size and rate limits, grants and project access modes (members' calls start where
they are authorized), changes of roles, the
isolation level of Postgres (its transactions are taken as serial), and the database
trigger that keeps `current_version_id` accepted (`CurrentIsAccepted` shows that it
never has to fire).

## 8. Plan

Done: the models and runs of section 3; a theorem for each of their invariants and action
properties, and for the refinement of `AcceptedHistory` (section 5).

1. Grants and project access modes beside the guests of `ShareLinks`.
2. The operation store of the CLI, linked sources, graceful shutdown.
