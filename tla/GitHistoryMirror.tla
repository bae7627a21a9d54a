--------------------------- MODULE GitHistoryMirror ---------------------------
(***************************************************************************)
(* The optional Git mirror of the version history: the workers that claim  *)
(* the jobs VersionHistory queues, the repositories they keep at the Git   *)
(* provider, and the operator's purge.                                     *)
(*                                                                         *)
(* A commit is deterministic: version, parent and tree fix its id.  It is  *)
(* modelled by the sequence of versions from the root commit to itself,    *)
(* and the branch "main" by the commit it points to (<<>>: no commit).     *)
(*                                                                         *)
(* The lease of a claim is the flag "live" of its job; renewals are left   *)
(* out, and a lease may run out under a worker that goes on: a step of a   *)
(* slow worker that has lost its lease is a step of this model.            *)
(***************************************************************************)
EXTENDS VersionHistory, Sequences

CONSTANTS
    Workers,      \* mirror workers of the installation
    Budget,       \* storage_budget_bytes; every version copies one unit
    MaxAttempts   \* bound: claims of one job, and so failures and lost leases

ASSUME MirrorBounds ==
    /\ None \notin Workers
    /\ "approved" \notin Artifacts /\ None # "approved"
    /\ Budget \in Nat /\ MaxAttempts \in Nat

VARIABLES
    mapping,      \* git_history_mappings: the status and the recorded commit
    reservation,  \* git_history_budget_reservations.state of a version's job
    remote,       \* the repository of each artifact at the provider
    worker,       \* where each worker is in processJob
    purging       \* the purge command: None, "approved", or the artifact it is at

mirrorRows == <<mapping, reservation>>
mirrorVars == <<mapping, reservation, remote, worker, purging>>
allVars == <<historyVars, mirrorVars>>

NoMapping == [st |-> "none", commit |-> <<>>]
NoRemote == [exists |-> FALSE, main |-> <<>>, tags |-> [v \in Versions |-> <<>>]]
EmptyRemote == [NoRemote EXCEPT !.exists = TRUE]
Idle == [at |-> "idle", job |-> None, att |-> 0, parent |-> <<>>, commit |-> <<>>]

Jobs == Versions \cup Artifacts
ArtifactOf(j) == IF j \in Artifacts THEN j ELSE version[j].art
JobsOf(a) == {a} \cup VersionsOf(a)
Mapped(v) == mapping[v].st = "recorded"

AcceptedBelow(v) ==
    {u \in VersionsOf(version[v].art) : Accepted(u) /\ version[u].num < version[v].num}

\* The highest-numbered accepted version below v.
Predecessor(v) ==
    CHOOSE u \in AcceptedBelow(v) : \A x \in AcceptedBelow(v) : version[x].num <= version[u].num

-----------------------------------------------------------------------------
(* claimGitHistoryJob                                                      *)

\* Mutant: versions published before the project was enabled get no job.
BackfilledNever(v) == FALSE

\* The lowest unmapped accepted version of a live artifact gets a job, if it
\* never had one, while the project is enabled.
Backfilled(v) ==
    /\ mirroring /\ version[v].st # "none" /\ Live(version[v].art)
    /\ Accepted(v) /\ ~Mapped(v) /\ job[v].st = "none"
    /\ \A u \in AcceptedBelow(v) : Mapped(u)

\* The job rows once missing jobs are inserted and expired claims requeued.
Refreshed ==
    [j \in Jobs |->
       IF j \in Versions /\ Backfilled(j) THEN [job[j] EXCEPT !.st = "queued"]
       ELSE IF job[j].st = "claimed" /\ ~job[j].live THEN [job[j] EXCEPT !.st = "queued"]
       ELSE job[j]]

\* Mutant: a claimed job does not keep the others of its artifact back.
ClaimableBeside(j) ==
    /\ Refreshed[j].st = "queued"
    /\ j \in Versions => mirroring /\ Accepted(j) /\ \A u \in AcceptedBelow(j) : Mapped(u)

\* Mutant: a disabled project keeps its deletions waiting.
ClaimableEnabled(j) ==
    /\ Refreshed[j].st = "queued" /\ mirroring
    /\ j \in Versions => Accepted(j) /\ \A u \in AcceptedBelow(j) : Mapped(u)
    /\ \A k \in JobsOf(ArtifactOf(j)) : Refreshed[k].st # "claimed"

Claimable(j) ==
    /\ Refreshed[j].st = "queued"
    /\ j \in Versions => mirroring /\ Accepted(j) /\ \A u \in AcceptedBelow(j) : Mapped(u)
    /\ \A k \in JobsOf(ArtifactOf(j)) : Refreshed[k].st # "claimed"

\* The backoff is left out: any claimable job may be the first available.
ClaimGitHistoryJob(w, j) ==
    /\ worker[w].at = "idle"
    /\ Claimable(j) /\ job[j].att < MaxAttempts
    /\ job' = [Refreshed EXCEPT ![j] = [st |-> "claimed", att |-> @.att + 1, live |-> TRUE]]
    /\ worker' = [worker EXCEPT ![w] = [Idle EXCEPT !.at = "claimed", !.job = j,
                                                    !.att = job[j].att + 1]]
    /\ UNCHANGED <<settings, rows, records, repo, calls, mirrorRows, remote, purging>>

\* A pass that finds nothing to claim keeps the rows it refreshed.
ClaimNothing(w) ==
    /\ worker[w].at = "idle"
    /\ Refreshed # job /\ \A j \in Jobs : ~Claimable(j)
    /\ job' = Refreshed
    /\ UNCHANGED <<settings, rows, records, repo, calls, mirrorVars>>

\* assertGitHistoryClaim, renewGitHistoryJob
Owns(w) ==
    /\ job[worker[w].job].st = "claimed" /\ job[worker[w].job].live
    /\ job[worker[w].job].att = worker[w].att

-----------------------------------------------------------------------------
(* Leaving a job                                                           *)

Goes(w, at) == worker' = [worker EXCEPT ![w].at = at]
Leaves(w) == worker' = [worker EXCEPT ![w] = Idle]

\* releaseGitHistoryJob
Released(w) ==
    LET j == worker[w].job IN
    IF job[j].st = "claimed" /\ job[j].att = worker[w].att
    THEN [job EXCEPT ![j].st = "queued", ![j].live = FALSE] ELSE job

GivesUp(w) ==
    /\ Leaves(w)
    /\ job' = Released(w)
    /\ UNCHANGED <<settings, rows, records, repo, calls, mirrorRows, remote, purging>>

\* GitHistoryLeaseLost: the row is left to its new owner.
LosesLease(w) ==
    /\ ~Owns(w)
    /\ Leaves(w)
    /\ UNCHANGED <<historyVars, mirrorRows, remote, purging>>

\* A request to the store, the blobs or the provider fails.
Fail(w) == worker[w].at # "idle" /\ worker[w].att < MaxAttempts /\ GivesUp(w)

\* The process stops, or the renewal loop interrupts the job.
Abandon(w) ==
    /\ worker[w].at # "idle" /\ worker[w].att < MaxAttempts
    /\ Leaves(w)
    /\ UNCHANGED <<historyVars, mirrorRows, remote, purging>>

Runs(w, j) == worker[w].at # "idle" /\ worker[w].job = j /\ worker[w].att = job[j].att

\* 45 seconds without a renewal; a worker that runs the job renews every 15,
\* unless it stalls.
ExpireLease(j) ==
    /\ job[j].st = "claimed" /\ job[j].live
    /\ job[j].att < MaxAttempts
    /\ job' = [job EXCEPT ![j].live = FALSE]
    /\ UNCHANGED <<settings, rows, records, repo, calls, mirrorVars>>

-----------------------------------------------------------------------------
(* processJob                                                              *)

Act(w, at) == worker[w].at = at

\* findGitHistoryMapping, findVersionRecord, findGitHistoryPredecessorMapping;
\* a deletion job reads the coordinates.
FindVersion(w) ==
    LET v == worker[w].job IN
    /\ Act(w, "claimed")
    /\ \/ /\ v \in Artifacts
          /\ Goes(w, IF HasRepo(v) THEN "remove" ELSE "removed")
          /\ UNCHANGED historyVars
       \/ /\ v \in Versions /\ Mapped(v)
          /\ worker' = [worker EXCEPT ![w].at = "complete", ![w].commit = mapping[v].commit]
          /\ UNCHANGED historyVars
       \/ /\ v \in Versions /\ ~Mapped(v)
          /\ IF version[v].num = 1 \/ Mapped(Predecessor(v))
             THEN LET p == IF version[v].num = 1 THEN <<>> ELSE mapping[Predecessor(v)].commit IN
                  /\ worker' = [worker EXCEPT ![w].at = "reserve", ![w].parent = p,
                                              ![w].commit = Append(p, v)]
                  /\ UNCHANGED historyVars
             ELSE Leaves(w) /\ job' = Released(w)
                  /\ UNCHANGED <<settings, rows, records, repo, calls>>
    /\ UNCHANGED <<mirrorRows, remote, purging>>

Used == {v \in Versions : reservation[v] \in {"reserved", "committed"}}

\* Mutant: the version itself is not counted.
FitsOver(v) == Cardinality(Used) <= Budget

Fits(v) == Cardinality(Used) + 1 <= Budget

ReserveBudget(w) ==
    LET v == worker[w].job IN
    /\ Act(w, "reserve") /\ Owns(w)
    /\ IF reservation[v] # "none" \/ Fits(v)
       THEN /\ Goes(w, "find")
            /\ reservation' = [reservation EXCEPT ![v] = IF @ = "none" THEN "reserved" ELSE @]
            /\ UNCHANGED historyVars
       ELSE /\ Leaves(w) /\ job' = Released(w)
            /\ UNCHANGED <<settings, rows, records, repo, calls, reservation>>
    /\ UNCHANGED <<mapping, remote, purging>>

FindRepository(w) ==
    LET status == repo[ArtifactOf(worker[w].job)] IN
    /\ Act(w, "find")
    /\ Goes(w, CASE status = "none" -> "create" [] status = "provisioned" -> "lookup"
                 [] OTHER -> "remove")
    /\ UNCHANGED <<historyVars, mirrorRows, remote, purging>>

\* createRepository adopts a repository that exists under the name.
CreateRepository(w) ==
    LET a == ArtifactOf(worker[w].job) IN
    /\ Act(w, "create")
    /\ remote' = [remote EXCEPT ![a] = IF @.exists THEN @ ELSE EmptyRemote]
    /\ Goes(w, "record")
    /\ UNCHANGED <<historyVars, mirrorRows, purging>>

\* Mutant: the deletion is marked and not queued.
DeletionQueuedNever(jobs, a) == jobs

\* queueGitHistoryDeletionIfPresent, for a repository that has coordinates.
DeletionQueued(jobs, a) ==
    IF jobs[a].st = "none" THEN [jobs EXCEPT ![a].st = "queued"] ELSE jobs

\* The row is inserted once; a tombstone queues its deletion.  D1 queues
\* nothing here: it ended the job together with the artifact.
RecordRepository(w) ==
    LET a == ArtifactOf(worker[w].job)
        gone == artifact[a].st = "deleted"
        stored == IF repo[a] # "none" THEN repo[a]
                  ELSE IF gone THEN "deleting" ELSE "provisioned"
        queues == gone /\ ~D1 /\ stored # "deleted" IN
    /\ Act(w, "record") /\ Owns(w)
    /\ repo' = [repo EXCEPT ![a] = IF queues THEN "deleting" ELSE stored]
    /\ job' = IF queues THEN DeletionQueued(job, a) ELSE job
    /\ Goes(w, IF repo'[a] = "provisioned" THEN "lookup" ELSE "remove")
    /\ UNCHANGED <<settings, rows, records, calls, mirrorRows, remote, purging>>

\* deleteRepository; an absent repository deletes successfully.
RemoveRepository(w) ==
    /\ Act(w, "remove")
    /\ remote' = [remote EXCEPT ![ArtifactOf(worker[w].job)] = NoRemote]
    /\ Goes(w, "removed")
    /\ UNCHANGED <<historyVars, mirrorRows, purging>>

\* completeGitHistoryRepositoryRemoval; the jobs in "ended" are done.
Removal(a, ended) ==
    /\ repo' = IF repo[a] = "none" THEN repo ELSE [repo EXCEPT ![a] = "deleted"]
    /\ mapping' = [v \in Versions |->
                     IF v \in VersionsOf(a) /\ mapping[v].st # "none"
                     THEN [mapping[v] EXCEPT !.st = "deleted"] ELSE mapping[v]]
    /\ reservation' = [v \in Versions |->
                         IF v \in VersionsOf(a) /\ reservation[v] # "none"
                         THEN "released" ELSE reservation[v]]
    /\ job' = [j \in Jobs |->
                 IF j \in ended /\ job[j].st # "none"
                 THEN [job[j] EXCEPT !.st = "done", !.live = FALSE] ELSE job[j]]

\* completeGitHistoryDeletion ends every job of the artifact on SQLite, and the
\* worker's own on Postgres and D1: either may happen.
CompleteDeletion(w) ==
    LET a == ArtifactOf(worker[w].job) IN
    /\ Act(w, "removed") /\ Owns(w)
    /\ \E ended \in {JobsOf(a), {worker[w].job}} : Removal(a, ended)
    /\ Leaves(w)
    /\ UNCHANGED <<settings, rows, records, calls, remote, purging>>

-----------------------------------------------------------------------------
(* The provider: lookupGitHistoryCommit and commitGitHistoryVersion        *)

Remote(w) == remote[ArtifactOf(worker[w].job)]
TagOf(w) == Remote(w).tags[worker[w].job]

AtTip(v, tip) == Len(tip) > 0 /\ tip[Len(tip)] = v

\* Mutant: a commit found at the tip is adopted without its tag.
LookupUntagged(w) ==
    LET adopt(commit, then) == IF commit = worker[w].commit THEN then ELSE "mismatch" IN
    IF ~Remote(w).exists THEN "unavailable"
    ELSE IF TagOf(w) # <<>> THEN adopt(TagOf(w), "complete")
    ELSE IF AtTip(worker[w].job, Remote(w).main) THEN adopt(Remote(w).main, "complete")
    ELSE "commit"

\* A tagged commit of the version is adopted, a commit at the tip is tagged
\* first; assertVersionCommit requires that it has the expected parent.
Lookup(w) ==
    LET adopt(commit, then) == IF commit = worker[w].commit THEN then ELSE "mismatch" IN
    IF ~Remote(w).exists THEN "unavailable"
    ELSE IF TagOf(w) # <<>> THEN adopt(TagOf(w), "complete")
    ELSE IF AtTip(worker[w].job, Remote(w).main) THEN adopt(Remote(w).main, "repair")
    ELSE "commit"

LookupCommit(w) ==
    /\ Act(w, "lookup")
    /\ IF Lookup(w) \in {"unavailable", "mismatch"} THEN GivesUp(w)
       ELSE Goes(w, Lookup(w)) /\ UNCHANGED <<historyVars, mirrorRows, remote, purging>>

\* The workspace is built on the tip; the claim is asserted before the push.
BuildCommit(w) ==
    /\ Act(w, "commit")
    /\ IF Remote(w).exists /\ Remote(w).main = worker[w].parent
       THEN /\ Owns(w) /\ Goes(w, "push")
            /\ UNCHANGED <<historyVars, mirrorRows, remote, purging>>
       ELSE GivesUp(w)

\* Mutant: the push is forced.
FastForwardForced(w) == Remote(w).exists

\* Receive-pack moves the branch only from the tip the push names.
FastForward(w) == Remote(w).exists /\ Remote(w).main = worker[w].parent

PushBranch(w) ==
    /\ Act(w, "push")
    /\ IF FastForward(w)
       THEN /\ remote' = [remote EXCEPT ![ArtifactOf(worker[w].job)].main = worker[w].commit]
            /\ Goes(w, "pushed")
            /\ UNCHANGED <<historyVars, mirrorRows, purging>>
       ELSE GivesUp(w)

\* The claim is asserted again before the tag is pushed, after the branch or
\* to repair a tag that a lost attempt left out.
AssertOwner(w) ==
    /\ worker[w].at \in {"pushed", "repair"} /\ Owns(w)
    /\ Goes(w, IF Act(w, "pushed") THEN "tag" ELSE "retag")
    /\ UNCHANGED <<historyVars, mirrorRows, remote, purging>>

PushTag(w) ==
    /\ worker[w].at \in {"tag", "retag"}
    /\ IF Remote(w).exists /\ TagOf(w) \in {<<>>, worker[w].commit}
       THEN /\ remote' = [remote EXCEPT
                            ![ArtifactOf(worker[w].job)].tags[worker[w].job] = worker[w].commit]
            /\ Goes(w, IF Act(w, "tag") THEN "tagged" ELSE "retagged")
            /\ UNCHANGED <<historyVars, mirrorRows, purging>>
       ELSE GivesUp(w)

\* assertPushedRefs; a repair reads the tag only.
ConfirmRefs(w) ==
    /\ worker[w].at \in {"tagged", "retagged"} /\ Owns(w)
    /\ IF TagOf(w) = worker[w].commit /\ (Act(w, "tagged") => Remote(w).main = worker[w].commit)
       THEN /\ Goes(w, "complete")
            /\ UNCHANGED <<historyVars, mirrorRows, remote, purging>>
       ELSE GivesUp(w)

\* completeGitHistoryMirror
CompleteMirror(w) ==
    LET v == worker[w].job
        a == version[v].art
        done == [job EXCEPT ![v].st = "done", ![v].live = FALSE] IN
    /\ Act(w, "complete") /\ Owns(w)
    /\ IF Live(a)
       THEN /\ mapping' = [mapping EXCEPT ![v] =
                             IF @.st = "none" THEN [st |-> "recorded", commit |-> worker[w].commit]
                             ELSE @]
            /\ reservation' = [reservation EXCEPT ![v] = IF @ = "reserved" THEN "committed" ELSE @]
            /\ job' = done
            /\ Leaves(w) /\ UNCHANGED repo
       ELSE /\ reservation' = [reservation EXCEPT ![v] = IF @ = "reserved" THEN "released" ELSE @]
            /\ job' = IF HasRepo(a) THEN DeletionQueued(done, a) ELSE done
            /\ repo' = IF HasRepo(a) THEN [repo EXCEPT ![a] = "deleting"] ELSE repo
            /\ Goes(w, "remove") /\ UNCHANGED mapping
    /\ UNCHANGED <<settings, rows, records, calls, remote, purging>>

\* The steps that touch the store under the claim end when it is gone.
Fenced == {"reserve", "record", "removed", "commit", "pushed", "repair", "tagged", "retagged",
           "complete"}

LoseLease(w) == worker[w].at \in Fenced /\ LosesLease(w)

Work(w) ==
    \/ FindVersion(w) \/ ReserveBudget(w) \/ FindRepository(w) \/ CreateRepository(w)
    \/ RecordRepository(w) \/ RemoveRepository(w) \/ CompleteDeletion(w) \/ LookupCommit(w)
    \/ BuildCommit(w) \/ PushBranch(w) \/ AssertOwner(w) \/ PushTag(w) \/ ConfirmRefs(w)
    \/ CompleteMirror(w) \/ LoseLease(w)

-----------------------------------------------------------------------------
(* applyGitHistoryPurge                                                    *)

\* The plan is read once: a project that is enabled afterwards stops nothing.
ReadPurgePlan ==
    /\ "purge" \in Ops /\ purging = None
    /\ ~mirroring
    /\ purging' = "approved"
    /\ UNCHANGED <<historyVars, mirrorRows, remote, worker>>

\* The next repository of the drain: provider first, then the rows.
PurgeRepository(a) ==
    /\ purging = "approved" /\ HasRepo(a)
    /\ remote' = [remote EXCEPT ![a] = NoRemote]
    /\ purging' = a
    /\ UNCHANGED <<historyVars, mirrorRows, worker>>

CompletePurge ==
    /\ purging \in Artifacts
    /\ Removal(purging, JobsOf(purging))
    /\ purging' = "approved"
    /\ UNCHANGED <<settings, rows, records, calls, remote, worker>>

\* The drain ends, or is interrupted, also after the provider's confirmation.
EndPurge ==
    /\ purging # None
    /\ purging' = None
    /\ UNCHANGED <<historyVars, mirrorRows, remote, worker>>

-----------------------------------------------------------------------------
MirrorInit ==
    /\ HistoryInit
    /\ mapping = [v \in Versions |-> NoMapping]
    /\ reservation = [v \in Versions |-> "none"]
    /\ remote = [a \in Artifacts |-> NoRemote]
    /\ worker = [w \in Workers |-> Idle]
    /\ purging = None

MirrorNext ==
    \/ HistoryNext /\ UNCHANGED mirrorVars
    \/ \E w \in Workers : Work(w) \/ ClaimNothing(w) \/ Fail(w) \/ Abandon(w)
    \/ \E w \in Workers, j \in Jobs : ClaimGitHistoryJob(w, j)
    \/ \E j \in Jobs : ExpireLease(j)
    \/ \E a \in Artifacts : PurgeRepository(a)
    \/ ReadPurgePlan \/ CompletePurge \/ EndPurge

MirrorSpec == MirrorInit /\ [][MirrorNext]_allVars

\* startGitHistoryMirrorWorker repeats passes for ever and a lease nobody renews
\* runs out; requests end, with an answer or by their 10 second timeout.
MirrorFairness ==
    /\ \A w \in Workers : WF_allVars(Work(w)) /\ WF_allVars(ClaimNothing(w))
    /\ \A w \in Workers, j \in Jobs : WF_allVars(ClaimGitHistoryJob(w, j))
    /\ \A j \in Jobs : WF_allVars(ExpireLease(j) /\ \A w \in Workers : ~Runs(w, j))

FairMirrorSpec == MirrorSpec /\ MirrorFairness

-----------------------------------------------------------------------------
(* Properties                                                              *)

Steps == {"idle", "claimed", "reserve", "find", "create", "record", "remove", "removed",
          "lookup", "commit", "push", "pushed", "repair", "tag", "retag", "tagged", "retagged",
          "complete"}

\* The types of the mirror's rows, of the workers' state and of the remotes.
MirrorTypeOK ==
    /\ mapping \in [Versions -> [st : {"none", "recorded", "deleted"}, commit : Seq(Versions)]]
    /\ reservation \in [Versions -> {"none", "reserved", "committed", "released"}]
    /\ remote \in [Artifacts -> [exists : BOOLEAN, main : Seq(Versions),
                                 tags : [Versions -> Seq(Versions)]]]
    /\ worker \in [Workers -> [at : Steps, job : Jobs \cup {None}, att : 0..MaxAttempts,
                               parent : Seq(Versions), commit : Seq(Versions)]]
    /\ purging \in Artifacts \cup {None, "approved"}

\* Two workers never hold the claim of the same artifact, whatever its jobs:
\* leases that ran out and were claimed again are fenced by the attempt.
OneOwner ==
    \A w, x \in Workers :
        /\ w # x /\ worker[w].at # "idle" /\ worker[x].at # "idle"
        /\ Owns(w) /\ Owns(x)
        => ArtifactOf(worker[w].job) # ArtifactOf(worker[x].job)

IsPrefixOf(s, t) == Len(s) <= Len(t) /\ \A i \in 1..Len(s) : s[i] = t[i]

\* The branch of a repository holds accepted versions of its artifact in the
\* order of their numbers, each once, also when a worker that lost its lease
\* pushes late.  While the artifact is not deleted every tag is a commit of the
\* branch; afterwards a late createRepository may bring an empty repository
\* back, and a late push its tag alone.
BranchIsHistory ==
    \A a \in Artifacts :
        LET main == remote[a].main IN
        /\ \A i \in 1..Len(main) : main[i] \in VersionsOf(a) /\ Accepted(main[i])
        /\ \A i, k \in 1..Len(main) : i < k => version[main[i]].num < version[main[k]].num
        /\ artifact[a].st # "deleted" =>
             \A v \in Versions : IsPrefixOf(remote[a].tags[v], main)

\* A recorded mapping names a commit the repository has, under its tag, whose
\* parent is the commit mapped for the previous accepted version.
MappedIsOnBranch ==
    \A v \in Versions :
        LET a == version[v].art
            commit == mapping[v].commit IN
        Mapped(v) /\ repo[a] = "provisioned" =>
            /\ remote[a].exists /\ remote[a].tags[v] = commit
            /\ IsPrefixOf(commit, remote[a].main)
            /\ commit = Append(IF AcceptedBelow(v) = {} THEN <<>>
                               ELSE mapping[Predecessor(v)].commit, v)

\* What the rows and the provider hold of an artifact agrees with its accepted
\* history and with each other, whatever workers crashed or lost their lease.
MirrorFollowsHistory == MirrorTypeOK /\ BranchIsHistory /\ MappedIsOnBranch

\* A repository keeps its commits and its tags.
RemoteGrows(a) ==
    /\ remote[a].exists => remote'[a].exists
    /\ IsPrefixOf(remote[a].main, remote'[a].main)
    /\ \A v \in Versions : remote[a].tags[v] # <<>> => remote'[a].tags[v] = remote[a].tags[v]

\* It goes forward unless it is removed: no branch is forced, no tag moves.
RefsAdvance == \A a \in Artifacts : remote[a].exists /\ remote'[a].exists => RemoteGrows(a)

\* A mapping keeps the commit it was recorded with; at most it is marked as
\* deleted.
MappingsStay ==
    \A v \in Versions : mapping[v].st # "none" =>
        mapping'[v].commit = mapping[v].commit /\ mapping'[v].st \in {mapping[v].st, "deleted"}

\* Published Git history is never rewritten, although workers that lost their
\* leases go on pushing and recording.
PublishedHistoryStays == [][RefsAdvance /\ MappingsStay]_allVars

\* Reserved and committed bytes together stay within the budget, although a
\* reservation outlives the attempt that made it and several workers reserve.
BudgetKept == Cardinality(Used) <= Budget

\* A repository of a deleted artifact is never forgotten: its deletion is
\* queued, or the mirror job that is about to find the tombstone is.
NoOrphanRepository ==
    \A a \in Artifacts :
        artifact[a].st = "deleted" /\ remote[a].exists =>
            \/ repo[a] = "deleting" /\ job[a].st \in {"queued", "claimed"}
            \/ repo[a] = "none" /\ \E v \in VersionsOf(a) : job[v].st \in {"queued", "claimed"}

\* Of several workers one may create a repository late.  Those whose coordinates
\* are recorded are still removed with their artifact, or a job is there to do it.
DeletionIsQueued ==
    \A a \in Artifacts : artifact[a].st = "deleted" /\ repo[a] # "none" =>
        \/ repo[a] = "deleted"
        \/ repo[a] = "deleting" /\ job[a].st \in {"queued", "claimed"}

\* When no worker is at work on an artifact, the version to mirror next finds
\* the tip of the branch at its parent, or at itself after a lost answer: every
\* other tip is transient.
NextCommitFits ==
    \A v \in Versions :
        LET a == version[v].art
            parent == IF AcceptedBelow(v) = {} THEN <<>> ELSE mapping[Predecessor(v)].commit IN
        /\ version[v].st # "none" /\ Accepted(v) /\ ~Mapped(v)
        /\ \A u \in AcceptedBelow(v) : Mapped(u)
        /\ repo[a] = "provisioned"
        /\ \A w \in Workers : worker[w].at = "idle" \/ ArtifactOf(worker[w].job) # a
        => remote[a].main \in {parent, Append(parent, v)}

\* The installation's operator has purged the artifact's repository.
Purged(a) == repo[a] # "none" /\ ~remote[a].exists

\* While a project stays enabled, every accepted version of a live artifact is
\* mirrored in the end, whichever requests failed on the way, unless the budget
\* has no room for it or a purge removed the repository (nothing creates that
\* one again).
MirrorCatchesUp ==
    \A v \in Versions :
        (Accepted(v) /\ mirroring) ~>
            \/ Mapped(v) \/ ~mirroring
            \/ reservation[v] = "none" /\ Cardinality(Used) >= Budget
            \/ \E a \in Artifacts : v \in VersionsOf(a) /\ (~Live(a) \/ Purged(a))

\* The same without the exception of a purge.
MirrorComesBack ==
    \A v \in Versions :
        (Accepted(v) /\ mirroring) ~>
            (Mapped(v) \/ ~mirroring \/ \E a \in Artifacts : v \in VersionsOf(a) /\ ~Live(a))

\* The repository of a deleted artifact is removed from the provider in the
\* end, also when the project is disabled.
DeletedRepositoryGoes ==
    \A a \in Artifacts :
        (artifact[a].st = "deleted" /\ repo[a] # "none") ~> ~remote[a].exists

==============================================================================
