------------------------ MODULE GitHistoryMirrorProofs ------------------------
(***************************************************************************)
(* What GitHistoryMirror promises for any number of artifacts, versions,   *)
(* workers, lost leases and failures, on every store: at most one worker   *)
(* holds the claim of an artifact, the budget is kept, branches are chains *)
(* of accepted versions and never rewritten, recorded repositories are     *)
(* removed with their artifact, and the history keeps its promises.        *)
(* Without restores and purges the repository at the provider follows the  *)
(* accepted history, and the next version fits.  With one worker no        *)
(* repository of a deleted artifact is forgotten.                          *)
(***************************************************************************)
EXTENDS GitHistoryMirror, VersionHistoryProofs, SequenceTheorems, WellFoundedInduction

MappingRows == [st : {"none", "recorded", "deleted"}, commit : Seq(Versions)]
RemoteRows == [exists : BOOLEAN, main : Seq(Versions), tags : [Versions -> Seq(Versions)]]
WorkerRows == [at : Steps, job : Jobs \cup {None}, att : 0..MaxAttempts,
               parent : Seq(Versions), commit : Seq(Versions)]

\* The first version of an artifact is accepted from the start.
FirstAccepted ==
    \A v \in Versions : version[v].st # "none" /\ version[v].num = 1 => Accepted(v)

\* Jobs are those of accepted versions and of artifacts; of one artifact at
\* most one is claimed.
JobsSound ==
    /\ \A v \in Versions : job[v].st # "none" => Accepted(v)
    /\ \A j, k \in Jobs :
          job[j].st = "claimed" /\ job[k].st = "claimed" /\ ArtifactOf(j) = ArtifactOf(k) => j = k

\* Accepted versions of an artifact in the order of their numbers.
Chain(s, a, ver) ==
    /\ \A i \in 1..Len(s) : ver[s[i]].st \in AcceptedStates /\ ver[s[i]].art = a
    /\ \A i, k \in 1..Len(s) : i < k => ver[s[i]].num < ver[s[k]].num

\* The commit of a version.
CommitFor(s, v, ver) == Chain(s, ver[v].art, ver) /\ AtTip(v, s)

\* The steps of a worker that has found what to mirror.
Building == Steps \ {"idle", "claimed", "remove", "removed"}

\* A worker carries the attempt of an earlier or the present claim of its job, and
\* what it builds is a commit of its version.
WorkerSound(w) ==
    /\ worker[w].at # "idle" =>
          /\ worker[w].job \in Jobs
          /\ worker[w].att <= job[worker[w].job].att
          /\ worker[w].job \in Versions => Accepted(worker[w].job)
    /\ worker[w].at \in Building =>
          worker[w].job \in Versions /\ CommitFor(worker[w].commit, worker[w].job, version)

\* No two workers carry the same attempt of a job.
WorkersSound ==
    /\ \A w \in Workers : WorkerSound(w)
    /\ \A w, x \in Workers :
          w # x /\ worker[w].at # "idle" /\ worker[x].at # "idle" /\ worker[w].job = worker[x].job
          => worker[w].att # worker[x].att

\* Branches are chains, and so is every recorded commit.
ChainsSound ==
    /\ \A a \in Artifacts : Chain(remote[a].main, a, version)
    /\ \A v \in Versions : mapping[v].st # "none" =>
          Accepted(v) /\ CommitFor(mapping[v].commit, v, version)

OwnerInv ==
    HistoryInv /\ MirrorTypeOK /\ FirstAccepted /\ JobsSound /\ WorkersSound /\ ChainsSound

-----------------------------------------------------------------------------
(* What every step but a claim does                                        *)

Deleted(a) == artifact[a].st = "deleted"

\* Numbers stay, too.
Remembers == Grows /\ \A v \in Versions : version[v].st # "none" => version'[v].num = version[v].num

\* No job is claimed, and new ones are of accepted versions or deleted artifacts.
JobsSettle ==
    \A j \in Jobs :
        /\ job'[j].att = job[j].att
        /\ job'[j].st = "claimed" => job[j].st = "claimed"
        /\ job'[j].st # "none" =>
             job[j].st # "none" \/ (IF j \in Versions THEN Accepted(j)' ELSE Deleted(j)')

\* A worker leaves, or goes on with its job and its commit.
Follows(w) ==
    \/ worker'[w].at = "idle"
    \/ /\ worker[w].at # "idle"
       /\ worker'[w].job = worker[w].job /\ worker'[w].att = worker[w].att
       /\ worker'[w].parent = worker[w].parent /\ worker'[w].commit = worker[w].commit
       /\ worker'[w].at \in Building => worker[w].at \in Building
       /\ worker'[w].at \in Building \ {"complete"} => worker[w].at \in Building \ {"complete"}

\* The names of the types.
LEMMA MirrorTypes ==
  MirrorTypeOK <=> /\ mapping \in [Versions -> MappingRows]
                   /\ reservation \in [Versions -> {"none", "reserved", "committed", "released"}]
                   /\ remote \in [Artifacts -> RemoteRows]
                   /\ worker \in [Workers -> WorkerRows]
                   /\ purging \in Artifacts \cup {None, "approved"}
  BY DEF MirrorTypeOK, MappingRows, RemoteRows, WorkerRows

\* A chain stays one while history grows.
LEMMA ChainKept ==
  ASSUME HistoryInv, Remembers, NEW s \in Seq(Versions), NEW a, Chain(s, a, version)
  PROVE  Chain(s, a, version')
  <1>1. \A i \in 1..Len(s) : s[i] \in Versions
    BY ElementOfSeq
  <1>2. \A i \in 1..Len(s) : /\ version'[s[i]].st \in AcceptedStates
                             /\ version'[s[i]].art = a /\ version'[s[i]].num = version[s[i]].num
    BY <1>1 DEF Chain, Remembers, Grows, Accepted, AcceptedStates
  <1> QED
    BY <1>2 DEF Chain

\* So does a commit of a version.
LEMMA CommitKept ==
  ASSUME HistoryInv, Remembers, NEW s \in Seq(Versions), NEW v \in Versions, Accepted(v),
         CommitFor(s, v, version)
  PROVE  CommitFor(s, v, version')
  <1>1. version'[v].art = version[v].art
    BY DEF Remembers, Grows, Accepted, AcceptedStates
  <1> QED
    BY <1>1, ChainKept DEF CommitFor

\* Accepted versions stay accepted.
LEMMA AcceptedKept ==
  ASSUME Remembers, NEW v \in Versions, Accepted(v)
  PROVE  Accepted(v)'
  BY DEF Remembers, Grows, Accepted, AcceptedStates

\* The claims of the workers are kept by a step that claims nothing.
LEMMA OwnersKept ==
  ASSUME OwnerInv, Remembers, JobsSettle, \A w \in Workers : Follows(w),
         MirrorTypeOK'
  PROVE  JobsSound' /\ WorkersSound'
  <1> USE DEF OwnerInv
  <1>1. \A v \in Versions : job'[v].st # "none" => Accepted(v)'
    BY AcceptedKept DEF JobsSound, JobsSettle, Jobs
  <1>2. ASSUME NEW j \in Jobs, job[j].st = "claimed"
        PROVE  ArtifactOf(j)' = ArtifactOf(j)
    <2>1. j \in Versions => Accepted(j)
      BY <1>2 DEF JobsSound
    <2> QED
      BY <2>1 DEF ArtifactOf, Remembers, Grows, Accepted, AcceptedStates, Jobs
  <1>3. JobsSound'
    BY <1>1, <1>2 DEF JobsSound, JobsSettle, Jobs
  <1>4. ASSUME NEW w \in Workers
        PROVE  WorkerSound(w)'
    <2>1. CASE worker'[w].at = "idle"
      BY <2>1 DEF WorkerSound, Building
    <2>2. CASE worker'[w].at # "idle"
      <3>1. /\ worker[w].at # "idle"
            /\ worker'[w].job = worker[w].job /\ worker'[w].att = worker[w].att
            /\ worker'[w].commit = worker[w].commit
            /\ worker'[w].at \in Building => worker[w].at \in Building
        BY <2>2 DEF Follows
      <3>2. WorkerSound(w)
        BY DEF WorkersSound
      <3>3. worker[w].commit \in Seq(Versions)
        BY DEF MirrorTypeOK
      <3>4. worker'[w].job \in Jobs /\ worker'[w].att <= job'[worker'[w].job].att
        BY <3>1, <3>2 DEF WorkerSound, JobsSettle
      <3>5. worker'[w].job \in Versions => Accepted(worker[w].job)'
        BY <3>1, <3>2 DEF WorkerSound, Remembers, Grows, Accepted, AcceptedStates
      <3>6. worker'[w].at \in Building =>
              worker'[w].job \in Versions /\ CommitFor(worker'[w].commit, worker'[w].job, version')
        BY <3>1, <3>2, <3>3, CommitKept DEF WorkerSound
      <3> QED
        BY <3>4, <3>5, <3>6 DEF WorkerSound
    <2> QED
      BY <2>1, <2>2
  <1>5. WorkersSound'
    BY <1>4 DEF WorkersSound, Follows
  <1> QED
    BY <1>3, <1>5

-----------------------------------------------------------------------------
(* The steps of the history                                                *)

\* History remembers.
LEMMA HistoryRemembers ==
  ASSUME HistoryInv, HistoryStep
  PROVE  Remembers
  <1>1. ASSUME NEW a, NEW v \in Versions, NEW st, NEW b, st # "none", Adds(a, v, st, b)
        PROVE  Remembers
    BY <1>1 DEF Adds, Remembers, Grows, Accepted, AcceptedStates
  <1>2. ASSUME NEW v \in Versions, NEW st, st # "none", Moves(v, st)
        PROVE  Remembers
    BY <1>2 DEF Moves, Remembers, Grows, Accepted, AcceptedStates
  <1>3. ASSUME version' = version
        PROVE  Remembers
    BY <1>3 DEF Remembers, Grows, Accepted
  <1> QED
    BY <1>1, <1>2, <1>3 DEF HistoryStep, ForwardStep, Closing

\* A version that joins an artifact gets a number above those of its versions.
LEMMA AddedIsHighest ==
  ASSUME HistoryInv, HistoryInv', NEW a \in Artifacts, NEW v \in Versions, NEW st, NEW b, st # "none",
         Adds(a, v, st, b)
  PROVE  /\ \A u \in VersionsOf(a) : version[u].num < version'[v].num
         /\ version'[v].num \in Nat
  <1> DEFINE n == version'[v].num
             c == Cardinality(VersionsOf(a))
  <1>1. n \in Nat
    BY DEF HistoryInv, TypeOK, VersionRows
  <1>2. VersionsOf(a)' = VersionsOf(a) \cup {v} /\ v \notin VersionsOf(a)
    BY DEF VersionsOf, Adds
  <1>3. NumbersOf(a)' = NumbersOf(a) \cup {n}
    <2>1. \A u \in VersionsOf(a) : version'[u] = version[u]
      BY <1>2 DEF Adds, VersionsOf
    <2> QED
      BY <1>2, <2>1 DEF NumbersOf
  <1>4. c \in Nat /\ Cardinality(VersionsOf(a) \cup {v}) = c + 1
    BY <1>2, VersionsFinite, FS_AddElement
  <1>5. NumbersOf(a) = 1..c /\ NumbersOf(a)' = 1..(c + 1)
    BY <1>2, <1>4 DEF HistoryInv, NumbersAreGapless
  <1>6. n = c + 1
    <2>1. c + 1 \in NumbersOf(a)' /\ c + 1 \notin NumbersOf(a)
      BY <1>4, <1>5
    <2> QED
      BY <1>3, <2>1
  <1>7. \A u \in VersionsOf(a) : version[u].num \in 1..c
    BY <1>5 DEF NumbersOf
  <1> QED
    BY <1>1, <1>4, <1>6, <1>7

\* The first version of an artifact is never a candidate: that has a base below it.
LEMMA HistoryFirst ==
  ASSUME HistoryInv, HistoryInv', HistoryStep, FirstAccepted
  PROVE  FirstAccepted'
  <1>1. ASSUME NEW a \in Artifacts, NEW v \in Versions, Adds(a, v, "mainline", None)
        PROVE  FirstAccepted'
    BY <1>1 DEF Adds, FirstAccepted, Accepted, AcceptedStates
  <1>2. ASSUME NEW a \in Artifacts, NEW v \in Versions, Live(a),
               Adds(a, v, "candidate", artifact[a].cur)
        PROVE  FirstAccepted'
    <2>1. artifact[a].cur \in VersionsOf(a)
      BY <1>2 DEF Live, HistoryInv, CurrentIsAccepted
    <2>2. version[artifact[a].cur].num >= 1
      <3>1. version[artifact[a].cur].num \in NumbersOf(a)
        BY <2>1 DEF NumbersOf
      <3> QED
        BY <3>1, VersionsFinite DEF HistoryInv, NumbersAreGapless
    <2>3. version[artifact[a].cur].num \in Nat
      BY <2>1 DEF HistoryInv, TypeOK, VersionRows, VersionsOf
    <2>4. version'[v].num # 1
      BY <1>2, <2>1, <2>2, <2>3, AddedIsHighest
    <2> QED
      BY <1>2, <2>4 DEF Adds, FirstAccepted, Accepted
  <1>3. ASSUME NEW v \in Versions, NEW st, st # "none", Moves(v, st)
        PROVE  FirstAccepted'
    BY <1>3 DEF Moves, FirstAccepted, Accepted, AcceptedStates
  <1>4. ASSUME version' = version
        PROVE  FirstAccepted'
    BY <1>4 DEF FirstAccepted, Accepted
  <1> QED
    BY <1>1, <1>2, <1>3, <1>4 DEF HistoryStep, ForwardStep, Closing

\* What a step of the history leaves of the repositories and of deleted artifacts.
KeepsRepos ==
    \A a \in Artifacts :
        /\ Deleted(a) => Deleted(a)'
        /\ ~Deleted(a)' => repo'[a] = repo[a] /\ job'[a] = job[a]
        /\ repo'[a] # repo[a] => repo'[a] = "deleting"
        /\ Deleted(a)' /\ ~Deleted(a) => repo'[a] # "provisioned"

\* A write queues the job of the version it accepts, or the deletion of a repository.
LEMMA WriteJobs ==
  ASSUME HistoryInv, NEW c, c \in calls \/ (~D1 /\ c \in Commands), Write(c)
  PROVE  JobsSettle /\ KeepsRepos
  <1>1. Ready(c)
    BY DEF Write, CommitNewArtifact, CommitVersion, StageCandidate, PromoteCandidate, CloseCandidate,
           RestoreVersion, ChangeAccessSetting, RenameArtifact, ChangeTags, DeleteArtifact
  <1>2. Formed(c) /\ StillGood(c)
    BY <1>1, ReadyStillGood
  <1>3. /\ c.art \in Artifacts /\ artifact \in [Artifacts -> ArtifactRows]
        /\ version \in [Versions -> VersionRows] /\ job \in [Jobs -> JobRows]
        /\ repo \in [Artifacts -> {"none", "provisioned", "deleting", "deleted"}]
    BY <1>2 DEF Formed, CommandRows, HistoryInv, TypeOK, Jobs
  <1>4. Artifacts \cap Versions = {}
    BY HistoryNames DEF HistoryNames
  <1>5. ASSUME NEW v \in Versions, job' = MirrorQueued(v), version'[v].st \in AcceptedStates
        PROVE  JobsSettle /\ \A a \in Artifacts : job'[a] = job[a]
    <2>1. \A j \in Jobs : j # v => job'[j] = job[j]
      BY <1>3, <1>5 DEF MirrorQueued
    <2>2. job'[v].att = job[v].att /\ (job'[v].st = "claimed" => job[v].st = "claimed")
      BY <1>3, <1>5 DEF MirrorQueued, Jobs, JobRows
    <2> QED
      BY <1>4, <1>5, <2>1, <2>2 DEF JobsSettle, Accepted, Jobs
  <1>6. ASSUME job' = job
        PROVE  JobsSettle
    BY <1>6 DEF JobsSettle
  <1>7. ASSUME repo' = repo, \A a \in Artifacts : job'[a] = job[a],
               \A a \in Artifacts : Deleted(a)' <=> Deleted(a)
        PROVE  KeepsRepos
    BY <1>7 DEF KeepsRepos
  <1>8. CASE \/ \E public \in BOOLEAN : CommitNewArtifact(c, public)
             \/ CommitVersion(c) \/ PromoteCandidate(c)
    <2>1. c.arg \in Versions
      BY <1>2, <1>8 DEF Formed, CommitNewArtifact, CommitVersion, PromoteCandidate, Publishing
    <2>2. job' = MirrorQueued(c.arg) /\ repo' = repo
      BY <1>8 DEF CommitNewArtifact, CommitVersion, PromoteCandidate
    <2>3. version'[c.arg].st \in AcceptedStates
      <3>1. ASSUME NEW public \in BOOLEAN, CommitNewArtifact(c, public)
            PROVE  version'[c.arg].st = "mainline"
        BY <1>3, <2>1, <3>1 DEF CommitNewArtifact
      <3>2. CASE CommitVersion(c)
        BY <1>3, <2>1, <3>2 DEF CommitVersion, AcceptedStates
      <3>3. CASE PromoteCandidate(c)
        BY <1>3, <2>1, <3>3 DEF PromoteCandidate, AcceptedStates, VersionRows
      <3> QED
        BY <1>8, <3>1, <3>2, <3>3 DEF AcceptedStates
    <2>4. \A a \in Artifacts : Deleted(a)' <=> Deleted(a)
      <3>1. ASSUME NEW public \in BOOLEAN, CommitNewArtifact(c, public)
            PROVE  \A a \in Artifacts : Deleted(a)' <=> Deleted(a)
        BY <1>3, <3>1 DEF CommitNewArtifact, Deleted
      <3>2. CASE CommitVersion(c)
        BY <1>3, <3>2 DEF CommitVersion, Deleted, ArtifactRows
      <3>3. CASE PromoteCandidate(c)
        BY <1>3, <3>3 DEF PromoteCandidate, Deleted, ArtifactRows
      <3> QED
        BY <1>8, <3>1, <3>2, <3>3
    <2> QED
      BY <1>5, <1>7, <2>1, <2>2, <2>3, <2>4
  <1>9. CASE \/ StageCandidate(c) \/ CloseCandidate(c) \/ RestoreVersion(c) \/ ChangeAccessSetting(c)
             \/ ChangeTags(c) \/ \E n \in Names : RenameArtifact(c, n)
    <2>1. job' = job /\ repo' = repo
      BY <1>9 DEF StageCandidate, CloseCandidate, RestoreVersion, ChangeAccessSetting, ChangeTags,
                  RenameArtifact
    <2>2. \A a \in Artifacts : Deleted(a)' <=> Deleted(a)
      BY <1>3, <1>9 DEF StageCandidate, CloseCandidate, RestoreVersion, ChangeAccessSetting, ChangeTags,
                  RenameArtifact, Deleted, ArtifactRows
    <2> QED
      BY <1>6, <1>7, <2>1, <2>2
  <1>10. CASE DeleteArtifact(c)
    <2>1. /\ job' = JobsAfterDelete(c.art) /\ version' = version
          /\ repo' = IF HasRepo(c.art) THEN [repo EXCEPT ![c.art] = "deleting"] ELSE repo
          /\ artifact' = [artifact EXCEPT ![c.art].st = "deleted"]
      BY <1>10 DEF DeleteArtifact
    <2>2. Deleted(c.art)' /\ \A a \in Artifacts : a # c.art => artifact'[a] = artifact[a]
      BY <1>3, <2>1 DEF Deleted, ArtifactRows
    <2>3. \A j \in Jobs : /\ job'[j].att = job[j].att
                          /\ job'[j].st = "claimed" => job[j].st = "claimed"
                          /\ j # c.art => (job'[j].st # "none" => job[j].st # "none")
                          /\ j \in Artifacts /\ j # c.art => job'[j] = job[j]
      <3> SUFFICES ASSUME NEW j \in Jobs
                   PROVE  /\ job'[j].att = job[j].att
                          /\ job'[j].st = "claimed" => job[j].st = "claimed"
                          /\ j # c.art => (job'[j].st # "none" => job[j].st # "none")
                          /\ j \in Artifacts /\ j # c.art => job'[j] = job[j]
        OBVIOUS
      <3>1. job[j] \in JobRows
        BY <1>3
      <3>2. job'[j] \in {[job[j] EXCEPT !.st = "queued"], [job[j] EXCEPT !.st = "done", !.live = FALSE], job[j]}
            /\ (j # c.art => job'[j] # [job[j] EXCEPT !.st = "queued"] \/ job'[j] = job[j]
                              \/ job[j].st \in {"queued", "claimed"})
            /\ (j \notin VersionsOf(c.art) /\ j # c.art => job'[j] = job[j])
            /\ (j # c.art /\ job'[j] # job[j] => job[j].st \in {"queued", "claimed"})
        BY <2>1 DEF JobsAfterDelete, Jobs
      <3>3. j \in Artifacts => j \notin VersionsOf(c.art)
        BY <1>4 DEF VersionsOf
      <3> QED
        BY <3>1, <3>2, <3>3 DEF JobRows
    <2>4. JobsSettle
      BY <1>3, <1>4, <2>2, <2>3 DEF JobsSettle, Jobs
    <2>5. KeepsRepos
      BY <1>3, <2>1, <2>2, <2>3 DEF KeepsRepos, Deleted, HasRepo, Jobs
    <2> QED
      BY <2>4, <2>5
  <1> QED
    BY <1>8, <1>9, <1>10 DEF Write

\* So does every step of the history.
LEMMA HistoryJobs ==
  ASSUME HistoryInv, [HistoryNext]_historyVars
  PROVE  JobsSettle /\ KeepsRepos
  <1>1. ASSUME UNCHANGED <<artifact, job, repo>>
        PROVE  JobsSettle /\ KeepsRepos
    BY <1>1 DEF JobsSettle, KeepsRepos, Deleted
  <1>2. CASE UNCHANGED historyVars
    BY <1>1, <1>2 DEF historyVars
  <1>3. ASSUME NEW c \in Commands, Ask(c) \/ (~D1 /\ Write(c))
        PROVE  JobsSettle /\ KeepsRepos
    BY <1>1, <1>3, WriteJobs DEF Ask, rows
  <1>4. ASSUME NEW c \in calls, ReadRows(c) \/ Write(c) \/ DropCall(c)
        PROVE  JobsSettle /\ KeepsRepos
    BY <1>1, <1>4, WriteJobs DEF ReadRows, DropCall, rows
  <1>5. CASE SetProjectArchive \/ StoreGitHistorySetting
    BY <1>1, <1>5 DEF SetProjectArchive, StoreGitHistorySetting, rows
  <1> QED
    BY <1>2, <1>3, <1>4, <1>5 DEF HistoryNext

\* The claims and the chains survive every step of the history.
LEMMA HistoryKeepsOwners ==
  ASSUME OwnerInv, [HistoryNext]_historyVars, UNCHANGED mirrorVars
  PROVE  OwnerInv' /\ Remembers
  <1> USE DEF OwnerInv
  <1>1. HistoryInv' /\ HistoryStep
    BY NextInv, NextMoves
  <1>2. Remembers /\ FirstAccepted'
    BY <1>1, HistoryRemembers, HistoryFirst
  <1>3. UNCHANGED <<mapping, reservation, remote, worker, purging>>
    BY DEF mirrorVars
  <1>4. MirrorTypeOK'
    BY <1>3 DEF MirrorTypeOK
  <1>5. \A w \in Workers : Follows(w)
    BY <1>3 DEF Follows
  <1>6. JobsSound' /\ WorkersSound'
    BY <1>2, <1>4, <1>5, HistoryJobs, OwnersKept
  <1>7. ASSUME NEW a \in Artifacts
        PROVE  Chain(remote'[a].main, a, version')
    BY <1>2, <1>3, ChainKept, MirrorTypes DEF ChainsSound, RemoteRows
  <1>8. ASSUME NEW v \in Versions, mapping'[v].st # "none"
        PROVE  Accepted(v)' /\ CommitFor(mapping'[v].commit, v, version')
    BY <1>2, <1>3, <1>8, AcceptedKept, CommitKept, MirrorTypes DEF ChainsSound, MappingRows
  <1>9. ChainsSound'
    BY <1>7, <1>8 DEF ChainsSound
  <1> QED
    BY <1>1, <1>2, <1>4, <1>6, <1>9

-----------------------------------------------------------------------------
(* The steps of the mirror                                                 *)

RepoStates == {"none", "provisioned", "deleting", "deleted"}

\* A step of the mirror leaves the history alone.
Aside ==
    /\ UNCHANGED <<settings, rows, records, calls>>
    /\ job' \in [Jobs -> JobRows] /\ repo' \in [Artifacts -> RepoStates]

\* So what is said of the history stays true.
LEMMA HistoryAside ==
  ASSUME HistoryInv, Aside
  PROVE  HistoryInv' /\ Remembers
  <1>1. UNCHANGED <<archived, mirroring, artifact, version, receipt, linked, effects, calls>>
    BY DEF Aside, settings, rows, records
  <1>2. Remembers /\ Grows
    BY <1>1 DEF Remembers, Grows, Accepted
  <1>3. TypeOK'
    BY <1>1 DEF HistoryInv, TypeOK, Aside, RepoStates, Jobs
  <1>4. CallsSound'
    BY <1>1, <1>2, CallsSoundAfter
  <1>5. NumbersAreGapless'
    BY <1>1, VersionsKept
  <1>6. CurrentIsAccepted'
    BY <1>1, <1>2, CurrentKept
  <1>7. RowsSound' /\ EffectsRecorded'
    BY <1>1 DEF HistoryInv, RowsSound, EffectsRecorded
  <1> QED
    BY <1>2, <1>3, <1>4, <1>5, <1>6, <1>7 DEF HistoryInv

\* A step that claims nothing keeps the claims, and the chains if its pushes and its
\* records are chains.
LEMMA OwnerStep ==
  ASSUME OwnerInv, Aside, MirrorTypeOK', JobsSettle, \A w \in Workers : Follows(w),
         \A a \in Artifacts : Chain(remote'[a].main, a, version),
         \A v \in Versions : mapping'[v].st # "none" =>
            Accepted(v) /\ CommitFor(mapping'[v].commit, v, version)
  PROVE  OwnerInv'
  <1> USE DEF OwnerInv
  <1>1. HistoryInv' /\ Remembers /\ version' = version
    BY HistoryAside DEF Aside, rows
  <1>2. JobsSound' /\ WorkersSound'
    BY <1>1, OwnersKept
  <1>3. FirstAccepted' /\ ChainsSound'
    BY <1>1 DEF FirstAccepted, Accepted, ChainsSound
  <1> QED
    BY <1>1, <1>2, <1>3

\* Worker w moves to a step, and the other workers stay where they are.
Turns(w, at) ==
    /\ worker' \in [Workers -> WorkerRows]
    /\ worker'[w].at = at
    /\ \A x \in Workers : x # w => worker'[x] = worker[x]
    /\ \A x \in Workers : Follows(x)

\* Going on to a step turns to it.
LEMMA GoesTurns ==
  ASSUME MirrorTypeOK, NEW w \in Workers, NEW at \in Steps, Goes(w, at), worker[w].at # "idle",
         at \in Building => worker[w].at \in Building,
         at \in Building \ {"complete"} => worker[w].at \in Building \ {"complete"}
  PROVE  Turns(w, at)
  <1>1. worker \in [Workers -> WorkerRows] /\ worker' = [worker EXCEPT ![w].at = at]
    BY MirrorTypes DEF Goes
  <1>2. /\ worker'[w].at = at /\ worker'[w].job = worker[w].job /\ worker'[w].att = worker[w].att
        /\ worker'[w].parent = worker[w].parent /\ worker'[w].commit = worker[w].commit
        /\ worker' \in [Workers -> WorkerRows]
    BY <1>1 DEF WorkerRows
  <1>3. \A x \in Workers : x # w => worker'[x] = worker[x]
    BY <1>1
  <1>4. \A x \in Workers : Follows(x)
    BY <1>2, <1>3 DEF Follows
  <1> QED
    BY <1>2, <1>3, <1>4 DEF Turns

\* Leaving turns to idle.
LEMMA LeavesTurns ==
  ASSUME MirrorTypeOK, NEW w \in Workers, Leaves(w)
  PROVE  Turns(w, "idle")
  <1>1. worker \in [Workers -> WorkerRows] /\ worker' = [worker EXCEPT ![w] = Idle]
    BY MirrorTypes DEF Leaves
  <1>2. Idle \in WorkerRows /\ Idle.at = "idle"
    <2>1. 0 \in 0..MaxAttempts /\ <<>> \in Seq(Versions)
      BY MirrorBounds, EmptySeq DEF MirrorBounds
    <2> QED
      BY <2>1 DEF Idle, WorkerRows, Steps
  <1>3. worker'[w].at = "idle" /\ \A x \in Workers : x # w => worker'[x] = worker[x]
    BY <1>1, <1>2
  <1>4. \A x \in Workers : Follows(x)
    BY <1>3 DEF Follows
  <1> QED
    BY <1>1, <1>2, <1>3, <1>4 DEF Turns

\* The job a worker releases goes back to the queue.
LEMMA ReleasedSettles ==
  ASSUME OwnerInv, NEW w \in Workers, worker[w].at # "idle", job' \in {job, Released(w)}
  PROVE  job' \in [Jobs -> JobRows] /\ JobsSettle
  <1> DEFINE j == worker[w].job
  <1>1. j \in Jobs /\ job \in [Jobs -> JobRows]
    BY DEF OwnerInv, WorkersSound, WorkerSound, HistoryInv, TypeOK, Jobs
  <1>2. CASE job' = job
    BY <1>1, <1>2 DEF JobsSettle
  <1>3. CASE job' = [job EXCEPT ![j].st = "queued", ![j].live = FALSE] /\ job[j].st = "claimed"
    <2>1. job' \in [Jobs -> JobRows] /\ job'[j].att = job[j].att /\ job'[j].st = "queued"
      BY <1>1, <1>3 DEF JobRows
    <2>2. \A k \in Jobs : k # j => job'[k] = job[k]
      BY <1>1, <1>3
    <2> QED
      BY <1>3, <2>1, <2>2 DEF JobsSettle
  <1> QED
    BY <1>2, <1>3 DEF Released

\* A step that changes jobs, reservations and workers only.
Quiet ==
    /\ Aside /\ UNCHANGED <<repo, mapping, remote, purging>>
    /\ reservation' \in [Versions -> {"none", "reserved", "committed", "released"}]
    /\ worker' \in [Workers -> WorkerRows]
    /\ JobsSettle /\ \A x \in Workers : Follows(x)

\* Such a step keeps the claims and the chains.
LEMMA QuietOwners ==
  ASSUME OwnerInv, Quiet
  PROVE  OwnerInv'
  <1>1. MirrorTypeOK'
    BY MirrorTypes DEF Quiet, OwnerInv, MirrorTypeOK, WorkerRows
  <1> QED
    BY <1>1, OwnerStep DEF Quiet, OwnerInv, ChainsSound

\* Giving up is one.
LEMMA GivesUpQuiet ==
  ASSUME OwnerInv, NEW w \in Workers, worker[w].at # "idle", GivesUp(w)
  PROVE  Quiet /\ Turns(w, "idle")
  <1>1. /\ Leaves(w) /\ job' = Released(w)
        /\ UNCHANGED <<settings, rows, records, repo, calls, mapping, reservation, remote, purging>>
    BY DEF GivesUp, mirrorRows
  <1>2. Turns(w, "idle")
    BY <1>1, LeavesTurns DEF OwnerInv
  <1>3. job' \in [Jobs -> JobRows] /\ JobsSettle
    BY <1>1, ReleasedSettles
  <1> QED
    BY <1>1, <1>2, <1>3 DEF Quiet, Turns, Aside, OwnerInv, HistoryInv, TypeOK, MirrorTypeOK, RepoStates

\* So is a turn of a worker that leaves everything else alone.
LEMMA TurnQuiet ==
  ASSUME OwnerInv, NEW w \in Workers, NEW at, Turns(w, at),
         UNCHANGED <<historyVars, mirrorRows, remote, purging>>
  PROVE  Quiet
  <1>1. UNCHANGED <<archived, mirroring, artifact, version, receipt, linked, effects, job, repo, calls,
                    mapping, reservation, remote, purging>>
    BY DEF historyVars, mirrorRows
  <1>2. Aside
    BY <1>1 DEF Aside, settings, rows, records, OwnerInv, HistoryInv, TypeOK, RepoStates, Jobs
  <1>3. JobsSettle
    BY <1>1 DEF JobsSettle
  <1> QED
    BY <1>1, <1>2, <1>3 DEF Quiet, Turns, OwnerInv, MirrorTypeOK

-----------------------------------------------------------------------------
(* The predecessor of a version, and its commit                            *)

\* Every accepted version but the first has a predecessor, the highest accepted
\* version below it.
LEMMA PredecessorIs ==
  ASSUME HistoryInv, FirstAccepted, NEW v \in Versions, Accepted(v)
  PROVE  /\ version[v].num = 1 <=> AcceptedBelow(v) = {}
         /\ AcceptedBelow(v) # {} =>
              /\ Predecessor(v) \in AcceptedBelow(v)
              /\ \A x \in AcceptedBelow(v) : version[x].num <= version[Predecessor(v)].num
  <1> DEFINE a == version[v].art
             n == version[v].num
             B == AcceptedBelow(v)
             c == Cardinality(VersionsOf(a))
  <1>1. v \in VersionsOf(a) /\ a \in Artifacts
    BY DEF VersionsOf, Accepted, AcceptedStates, HistoryInv, RowsSound
  <1>2. NumbersOf(a) = 1..c /\ c \in Nat
    BY <1>1, VersionsFinite DEF HistoryInv, NumbersAreGapless
  <1>3. \A u \in VersionsOf(a) : version[u].num \in 1..c
    BY <1>2 DEF NumbersOf
  <1>4. n \in 1..c /\ n \in Nat
    BY <1>1, <1>2, <1>3
  <1>5. ASSUME n = 1
        PROVE  B = {}
    BY <1>2, <1>3, <1>5 DEF AcceptedBelow
  <1>6. ASSUME n # 1
        PROVE  B # {}
    <2>1. 1 \in NumbersOf(a) /\ 1 < n
      BY <1>2, <1>4, <1>6
    <2>2. PICK u \in VersionsOf(a) : version[u].num = 1
      BY <2>1 DEF NumbersOf
    <2>3. Accepted(u)
      BY <2>2 DEF FirstAccepted, VersionsOf
    <2> QED
      BY <2>1, <2>2, <2>3 DEF AcceptedBelow
  <1>7. ASSUME B # {}
        PROVE  \E u \in B : \A x \in B : version[x].num <= version[u].num
    <2> DEFINE T == {n - version[u].num : u \in B}
    <2>1. \A u \in B : version[u].num \in Nat /\ version[u].num < n
      BY <1>2, <1>3 DEF AcceptedBelow
    <2>2. T \subseteq Nat /\ T # {}
      BY <1>4, <1>7, <2>1
    <2> HIDE DEF T, B
    <2>3. PICK t \in T : \A y \in T : ~(<<y, t>> \in OpToRel(<, Nat))
      BY <2>2, WFMin, NatLessThanWellFounded, Zenon
    <2>4. \A y \in T : ~(y < t)
      BY <2>2, <2>3 DEF OpToRel
    <2>5. PICK u \in B : t = n - version[u].num
      BY DEF T
    <2>6. ASSUME NEW x \in B
          PROVE  version[x].num <= version[u].num
      <3>1. n - version[x].num \in T
        BY DEF T
      <3>2. ~(n - version[x].num < n - version[u].num)
        BY <2>4, <2>5, <3>1
      <3> QED
        BY <1>4, <2>1, <3>2
    <2> QED
      BY <2>6
  <1>8. B # {} => Predecessor(v) \in B /\ \A x \in B : version[x].num <= version[Predecessor(v)].num
    BY <1>7 DEF Predecessor
  <1> QED
    BY <1>5, <1>6, <1>8

\* A version on top of the commit of a lower version of its artifact is a commit of it.
LEMMA AppendCommit ==
  ASSUME HistoryInv, NEW v \in Versions, Accepted(v), NEW p \in Seq(Versions),
         \/ p = <<>>
         \/ \E u \in AcceptedBelow(v) : CommitFor(p, u, version)
  PROVE  Append(p, v) \in Seq(Versions) /\ CommitFor(Append(p, v), v, version)
  <1> DEFINE s == Append(p, v)
             a == version[v].art
  <1>1. /\ s \in Seq(Versions) /\ Len(s) = Len(p) + 1 /\ Len(p) \in Nat
        /\ \A i \in 1..Len(p) : s[i] = p[i]
        /\ s[Len(p) + 1] = v
    BY AppendProperties, LenProperties
  <1>2. Chain(p, a, version) /\ \A i \in 1..Len(p) : version[p[i]].num < version[v].num
    <2>1. CASE p = <<>>
      <3>1. 1..Len(p) = {}
        BY <2>1, EmptySeq
      <3> QED
        BY <3>1 DEF Chain
    <2>2. ASSUME NEW u \in AcceptedBelow(v), CommitFor(p, u, version)
          PROVE  Chain(p, a, version) /\ \A i \in 1..Len(p) : version[p[i]].num < version[v].num
      <3>1. version[u].art = a /\ version[u].num < version[v].num /\ u \in Versions
        BY DEF AcceptedBelow, VersionsOf
      <3>2. Chain(p, a, version) /\ Len(p) > 0 /\ p[Len(p)] = u
        BY <2>2, <3>1 DEF CommitFor, AtTip
      <3>3. \A x \in Versions : version[x].num \in Nat
        BY DEF HistoryInv, TypeOK, VersionRows
      <3>4. ASSUME NEW i \in 1..Len(p)
            PROVE  version[p[i]].num < version[v].num
        <4>1. p[i] \in Versions
          BY ElementOfSeq
        <4>2. i < Len(p) => version[p[i]].num < version[u].num
          BY <1>1, <3>2 DEF Chain
        <4>3. i = Len(p) \/ i < Len(p)
          BY <1>1
        <4> QED
          BY <3>1, <3>2, <3>3, <4>1, <4>2, <4>3
      <3> QED
        BY <3>2, <3>4
    <2> QED
      BY <2>1, <2>2
  <1> HIDE DEF s
  <1>3. Chain(s, a, version)
    <2>1. \A i \in 1..Len(s) : version[s[i]].st \in AcceptedStates /\ version[s[i]].art = a
      <3>1. \A i \in 1..Len(s) : i \in 1..Len(p) \/ i = Len(p) + 1
        BY <1>1
      <3> QED
        BY <1>1, <1>2, <3>1 DEF Chain, Accepted
    <2>2. ASSUME NEW i \in 1..Len(s), NEW k \in 1..Len(s), i < k
          PROVE  version[s[i]].num < version[s[k]].num
      <3>1. i \in 1..Len(p) /\ (k \in 1..Len(p) \/ k = Len(p) + 1)
        BY <1>1, <2>2
      <3> QED
        BY <1>1, <1>2, <2>2, <3>1 DEF Chain
    <2> QED
      BY <2>1, <2>2 DEF Chain
  <1>4. AtTip(v, s)
    BY <1>1 DEF AtTip
  <1> QED
    BY <1>1, <1>3, <1>4 DEF CommitFor, s

-----------------------------------------------------------------------------
(* The steps of a worker                                                   *)

\* What a worker carries, by its types and by its claim.
LEMMA WorkerTypes ==
  ASSUME OwnerInv, NEW w \in Workers
  PROVE  /\ worker[w] \in WorkerRows /\ WorkerSound(w)
         /\ worker[w].at # "idle" => worker[w].job \in Jobs /\ ArtifactOf(worker[w].job) \in Artifacts
         /\ worker[w].at \in Building =>
              worker[w].job \in Versions /\ version[worker[w].job].art \in Artifacts
              /\ ArtifactOf(worker[w].job) = version[worker[w].job].art
  <1>1. worker[w] \in WorkerRows /\ WorkerSound(w)
    BY MirrorTypes DEF OwnerInv, WorkersSound
  <1>2. \A v \in Versions : Accepted(v) => version[v].art \in Artifacts
    BY DEF OwnerInv, HistoryInv, RowsSound, Accepted, AcceptedStates
  <1>3. Artifacts \cap Versions = {}
    BY HistoryNames DEF HistoryNames
  <1>4. worker[w].at \in Building => worker[w].at # "idle"
    BY DEF Building
  <1> QED
    BY <1>1, <1>2, <1>3, <1>4 DEF WorkerSound, ArtifactOf, Jobs

\* A worker that has found what to mirror, at a step that builds.
Finds(w, at, p, s) ==
    /\ worker[w].at = "claimed" /\ worker[w].job \in Versions
    /\ worker' \in [Workers -> WorkerRows]
    /\ worker'[w].at = at /\ worker'[w].job = worker[w].job /\ worker'[w].att = worker[w].att
    /\ worker'[w].parent = p /\ worker'[w].commit = s
    /\ \A x \in Workers : x # w => worker'[x] = worker[x]
    /\ UNCHANGED <<historyVars, mirrorRows, remote, purging>>

\* It keeps its claim.
LEMMA FindsOwners ==
  ASSUME OwnerInv, NEW w \in Workers, NEW at \in Building, NEW p, NEW s,
         Finds(w, at, p, s), CommitFor(s, worker[w].job, version)
  PROVE  OwnerInv'
  <1> USE DEF OwnerInv
  <1>1. UNCHANGED <<archived, mirroring, artifact, version, receipt, linked, effects, job, repo, calls,
                    mapping, reservation, remote, purging>>
    BY DEF Finds, historyVars, mirrorRows
  <1>2. HistoryInv'
    BY <1>1, HistoryAside DEF Aside, settings, rows, records, HistoryInv, TypeOK, RepoStates, Jobs
  <1>3. MirrorTypeOK'
    BY <1>1, MirrorTypes DEF Finds, MirrorTypeOK, WorkerRows
  <1>4. FirstAccepted' /\ JobsSound' /\ ChainsSound'
    BY <1>1 DEF FirstAccepted, Accepted, JobsSound, ArtifactOf, ChainsSound
  <1>5. ASSUME NEW x \in Workers
        PROVE  WorkerSound(x)'
    <2>1. CASE x # w
      BY <1>1, <2>1 DEF WorkersSound, WorkerSound, Finds, Accepted
    <2>2. CASE x = w
      BY <1>1, <2>2 DEF WorkersSound, WorkerSound, Finds, Accepted
    <2> QED
      BY <2>1, <2>2
  <1>6. WorkersSound'
    BY <1>5 DEF WorkersSound, Finds
  <1> QED
    BY <1>2, <1>3, <1>4, <1>6

\* The version, its mapping and that of its predecessor: the worker turns to another
\* step, or knows the commit.
LEMMA FindVersionDoes ==
  ASSUME OwnerInv, NEW w \in Workers, FindVersion(w)
  PROVE  \/ Quiet /\ Turns(w, "idle")
         \/ /\ Quiet /\ worker[w].job \in Artifacts
            /\ Turns(w, "remove") \/ Turns(w, "removed")
         \/ /\ Mapped(worker[w].job)
            /\ Finds(w, "complete", worker[w].parent, mapping[worker[w].job].commit)
            /\ CommitFor(mapping[worker[w].job].commit, worker[w].job, version)
         \/ \E p \in Seq(Versions) :
              /\ p = IF AcceptedBelow(worker[w].job) = {} THEN <<>>
                     ELSE mapping[Predecessor(worker[w].job)].commit
              /\ AcceptedBelow(worker[w].job) # {} => Mapped(Predecessor(worker[w].job))
              /\ Finds(w, "reserve", p, Append(p, worker[w].job))
              /\ CommitFor(Append(p, worker[w].job), worker[w].job, version)
  <1> DEFINE v == worker[w].job
  <1>1. /\ worker[w].at = "claimed" /\ v \in Jobs /\ MirrorTypeOK
        /\ worker \in [Workers -> WorkerRows] /\ mapping \in [Versions -> MappingRows]
    BY WorkerTypes, MirrorTypes DEF FindVersion, Act, OwnerInv
  <1>2. ASSUME v \in Artifacts, Goes(w, IF HasRepo(v) THEN "remove" ELSE "removed"),
               UNCHANGED historyVars, UNCHANGED <<mirrorRows, remote, purging>>
        PROVE  /\ Quiet /\ worker[w].job \in Artifacts
               /\ Turns(w, "remove") \/ Turns(w, "removed")
    <2>1. PICK at \in {"remove", "removed"} : Goes(w, at)
      BY <1>2
    <2>2. Turns(w, at)
      BY <1>1, <2>1, GoesTurns DEF Steps, Building
    <2>3. Quiet
      BY <1>2, <2>2, TurnQuiet
    <2> QED
      BY <1>2, <2>2, <2>3
  <1>3. ASSUME v \in Versions, Mapped(v), UNCHANGED <<historyVars, mirrorRows, remote, purging>>,
               worker' = [worker EXCEPT ![w].at = "complete", ![w].commit = mapping[v].commit]
        PROVE  /\ Finds(w, "complete", worker[w].parent, mapping[v].commit)
               /\ CommitFor(mapping[v].commit, v, version)
    <2>1. mapping[v].commit \in Seq(Versions) /\ CommitFor(mapping[v].commit, v, version)
      BY <1>1, <1>3 DEF Mapped, OwnerInv, ChainsSound, MappingRows
    <2>2. Finds(w, "complete", worker[w].parent, mapping[v].commit)
      <3>1. PICK row : row = [worker[w] EXCEPT !.at = "complete", !.commit = mapping[v].commit]
        OBVIOUS
      <3>2. /\ row \in WorkerRows /\ row.at = "complete" /\ row.job = v /\ row.att = worker[w].att
            /\ row.parent = worker[w].parent /\ row.commit = mapping[v].commit
        BY <1>1, <2>1, <3>1 DEF WorkerRows, Steps
      <3>3. worker' = [worker EXCEPT ![w] = row]
        BY <1>3, <3>1
      <3> QED
        BY <1>1, <1>3, <3>2, <3>3 DEF Finds
    <2> QED
      BY <2>1, <2>2
  <1>4. ASSUME v \in Versions, UNCHANGED <<historyVars, mirrorRows, remote, purging>>,
               version[v].num = 1 \/ Mapped(Predecessor(v)), NEW p,
               p = IF version[v].num = 1 THEN <<>> ELSE mapping[Predecessor(v)].commit,
               worker' = [worker EXCEPT ![w].at = "reserve", ![w].parent = p,
                                        ![w].commit = Append(p, v)]
        PROVE  /\ p \in Seq(Versions)
               /\ p = IF AcceptedBelow(v) = {} THEN <<>> ELSE mapping[Predecessor(v)].commit
               /\ AcceptedBelow(v) # {} => Mapped(Predecessor(v))
               /\ Finds(w, "reserve", p, Append(p, v))
               /\ CommitFor(Append(p, v), v, version)
    <2>1. Accepted(v) /\ HistoryInv /\ FirstAccepted
      BY <1>1, <1>4, WorkerTypes DEF WorkerSound, OwnerInv
    <2>2. /\ version[v].num = 1 <=> AcceptedBelow(v) = {}
          /\ AcceptedBelow(v) # {} => Predecessor(v) \in AcceptedBelow(v)
      BY <1>4, <2>1, PredecessorIs
    <2>3. AcceptedBelow(v) \subseteq Versions
      BY DEF AcceptedBelow, VersionsOf
    <2>4. p \in Seq(Versions) /\ (p = <<>> \/ \E u \in AcceptedBelow(v) : CommitFor(p, u, version))
      <3>1. CASE AcceptedBelow(v) = {}
        BY <1>4, <2>2, <3>1, EmptySeq
      <3>2. CASE AcceptedBelow(v) # {}
        BY <1>1, <1>4, <2>2, <2>3, <3>2 DEF Mapped, OwnerInv, ChainsSound, MappingRows
      <3> QED
        BY <3>1, <3>2
    <2>5. Append(p, v) \in Seq(Versions) /\ CommitFor(Append(p, v), v, version)
      BY <1>4, <2>1, <2>4, AppendCommit
    <2>6. Finds(w, "reserve", p, Append(p, v))
      <3>1. PICK s : s = Append(p, v)
        OBVIOUS
      <3>2. PICK row : row = [worker[w] EXCEPT !.at = "reserve", !.parent = p, !.commit = s]
        OBVIOUS
      <3>3. /\ row \in WorkerRows /\ row.at = "reserve" /\ row.job = v /\ row.att = worker[w].att
            /\ row.parent = p /\ row.commit = s
        BY <1>1, <2>4, <2>5, <3>1, <3>2 DEF WorkerRows, Steps
      <3>4. worker' = [worker EXCEPT ![w] = row]
        BY <1>4, <3>1, <3>2
      <3>5. Finds(w, "reserve", p, s)
        BY <1>1, <1>4, <3>3, <3>4 DEF Finds
      <3> QED
        BY <3>1, <3>5
    <2> QED
      BY <1>4, <2>2, <2>4, <2>5, <2>6
  <1>5. ASSUME Leaves(w), job' = Released(w), UNCHANGED <<settings, rows, records, repo, calls>>,
               UNCHANGED <<mirrorRows, remote, purging>>
        PROVE  Quiet /\ Turns(w, "idle")
    BY <1>1, <1>5, GivesUpQuiet DEF GivesUp
  <1>6. CASE v \in Artifacts /\ Goes(w, IF HasRepo(v) THEN "remove" ELSE "removed")
             /\ UNCHANGED historyVars
    <2>1. UNCHANGED <<mirrorRows, remote, purging>>
      BY DEF FindVersion
    <2> QED
      BY <1>2, <1>6, <2>1
  <1>7. CASE ~(v \in Artifacts /\ Goes(w, IF HasRepo(v) THEN "remove" ELSE "removed")
               /\ UNCHANGED historyVars)
    BY <1>3, <1>4, <1>5, <1>7 DEF FindVersion
  <1> QED
    BY <1>6, <1>7

\* The budget is asked for a version; a worker without room gives up.
LEMMA ReserveBudgetDoes ==
  ASSUME OwnerInv, NEW w \in Workers, ReserveBudget(w)
  PROVE  Quiet /\ (Turns(w, "idle") \/ Turns(w, "find"))
  <1>1. worker[w].at = "reserve" /\ worker[w].job \in Versions /\ MirrorTypeOK
    BY WorkerTypes DEF ReserveBudget, Act, Building, Steps, OwnerInv
  <1>2. ASSUME Goes(w, "find"), UNCHANGED historyVars, UNCHANGED <<mapping, remote, purging>>,
               reservation' = [reservation EXCEPT ![worker[w].job] = IF @ = "none" THEN "reserved" ELSE @]
        PROVE  Quiet /\ Turns(w, "find")
    <2>1. Turns(w, "find")
      BY <1>1, <1>2, GoesTurns DEF Steps, Building
    <2>2. reservation' \in [Versions -> {"none", "reserved", "committed", "released"}]
      BY <1>1, <1>2 DEF MirrorTypeOK
    <2>3. Aside /\ repo' = repo
      BY <1>2 DEF Aside, historyVars, settings, rows, records, OwnerInv, HistoryInv, TypeOK, RepoStates, Jobs
    <2>4. JobsSettle
      BY <1>2 DEF JobsSettle, historyVars
    <2> QED
      BY <1>2, <2>1, <2>2, <2>3, <2>4 DEF Quiet, Turns
  <1>3. ASSUME Leaves(w), job' = Released(w), UNCHANGED <<mapping, remote, purging>>,
               UNCHANGED <<settings, rows, records, repo, calls, reservation>>
        PROVE  Quiet /\ Turns(w, "idle")
    BY <1>1, <1>3, GivesUpQuiet DEF GivesUp, mirrorRows
  <1> QED
    BY <1>2, <1>3 DEF ReserveBudget

\* The repository of the artifact is looked up.
LEMMA FindRepositoryDoes ==
  ASSUME OwnerInv, NEW w \in Workers, FindRepository(w)
  PROVE  /\ Quiet /\ worker[w].at = "find"
         /\ \/ Turns(w, "create") \/ Turns(w, "lookup")
            \/ Turns(w, "remove") /\ repo[ArtifactOf(worker[w].job)] \in {"deleting", "deleted"}
  <1> DEFINE status == repo[ArtifactOf(worker[w].job)]
  <1>1. worker[w].at = "find" /\ MirrorTypeOK /\ UNCHANGED <<historyVars, mirrorRows, remote, purging>>
    BY DEF FindRepository, Act, OwnerInv
  <1>2. status \in RepoStates
    BY <1>1, WorkerTypes DEF OwnerInv, HistoryInv, TypeOK, RepoStates
  <1>3. PICK at \in {"create", "lookup", "remove"} :
          Goes(w, at) /\ (at = "remove" => status \in {"deleting", "deleted"})
    BY <1>2 DEF FindRepository, RepoStates
  <1>4. Turns(w, at)
    BY <1>1, <1>3, GoesTurns DEF Steps, Building
  <1> QED
    BY <1>1, <1>3, <1>4, TurnQuiet

\* The commit is looked for at the provider.
LEMMA LookupCommitDoes ==
  ASSUME OwnerInv, NEW w \in Workers, LookupCommit(w)
  PROVE  /\ Quiet /\ worker[w].at = "lookup"
         /\ \/ Turns(w, "idle")
            \/ Turns(w, "complete") /\ Remote(w).exists /\ TagOf(w) # <<>> /\ TagOf(w) = worker[w].commit
            \/ Turns(w, "repair") /\ Remote(w).exists /\ Remote(w).main = worker[w].commit
            \/ Turns(w, "commit")
  <1>1. worker[w].at = "lookup" /\ MirrorTypeOK
    BY DEF LookupCommit, Act, OwnerInv
  <1>2. Lookup(w) \in {"unavailable", "mismatch", "complete", "repair", "commit"}
        /\ (Lookup(w) = "complete" => Remote(w).exists /\ TagOf(w) # <<>> /\ TagOf(w) = worker[w].commit)
        /\ (Lookup(w) = "repair" => Remote(w).exists /\ Remote(w).main = worker[w].commit)
    BY DEF Lookup
  <1>3. CASE Lookup(w) \in {"unavailable", "mismatch"}
    BY <1>1, <1>3, GivesUpQuiet DEF LookupCommit
  <1>4. CASE Lookup(w) \notin {"unavailable", "mismatch"}
    <2>1. PICK at \in {"complete", "repair", "commit"} : at = Lookup(w)
      BY <1>2, <1>4
    <2>2. Goes(w, at) /\ UNCHANGED <<historyVars, mirrorRows, remote, purging>>
      BY <1>4, <2>1 DEF LookupCommit
    <2>3. Turns(w, at)
      BY <1>1, <2>2, GoesTurns DEF Steps, Building
    <2> QED
      BY <1>1, <1>2, <2>1, <2>2, <2>3, TurnQuiet
  <1> QED
    BY <1>3, <1>4

\* The other steps that only turn.
LEMMA TurnsOnly ==
  ASSUME OwnerInv, NEW w \in Workers,
         BuildCommit(w) \/ AssertOwner(w) \/ ConfirmRefs(w) \/ LoseLease(w) \/ Fail(w) \/ Abandon(w)
  PROVE  /\ Quiet
         /\ \/ Turns(w, "idle")
            \/ worker[w].at = "commit" /\ Turns(w, "push")
            \/ worker[w].at \in {"pushed", "repair"} /\ (Turns(w, "tag") \/ Turns(w, "retag"))
            \/ /\ worker[w].at \in {"tagged", "retagged"} /\ Turns(w, "complete")
               /\ TagOf(w) = worker[w].commit
  <1>1. worker[w].at # "idle" /\ MirrorTypeOK
    BY DEF BuildCommit, AssertOwner, ConfirmRefs, LoseLease, Fail, Abandon, Act, OwnerInv, Fenced
  <1>2. ASSUME NEW at \in {"push", "tag", "retag", "complete"}, Goes(w, at),
               UNCHANGED <<historyVars, mirrorRows, remote, purging>>,
               worker[w].at \in Building \ {"complete"}
        PROVE  Quiet /\ Turns(w, at)
    BY <1>1, <1>2, GoesTurns, TurnQuiet DEF Steps, Building
  <1>3. ASSUME GivesUp(w)
        PROVE  Quiet /\ Turns(w, "idle")
    BY <1>1, <1>3, GivesUpQuiet
  <1>4. ASSUME Leaves(w), UNCHANGED <<historyVars, mirrorRows, remote, purging>>
        PROVE  Quiet /\ Turns(w, "idle")
    BY <1>1, <1>4, LeavesTurns, TurnQuiet
  <1>5. CASE BuildCommit(w)
    BY <1>2, <1>3, <1>5 DEF BuildCommit, Act, Building, Steps
  <1>6. CASE AssertOwner(w)
    <2>1. PICK at \in {"tag", "retag"} : Goes(w, at)
      BY <1>6 DEF AssertOwner
    <2> QED
      BY <1>2, <1>6, <2>1 DEF AssertOwner, Building, Steps
  <1>7. CASE ConfirmRefs(w)
    BY <1>2, <1>3, <1>7 DEF ConfirmRefs, Building, Steps
  <1>8. CASE LoseLease(w) \/ Fail(w) \/ Abandon(w)
    BY <1>3, <1>4, <1>8 DEF LoseLease, LosesLease, Fail, Abandon
  <1> QED
    BY <1>5, <1>6, <1>7, <1>8

\* Jobs that wait again because their lease ran out, or for the first time.
LEMMA RefreshedSettles ==
  ASSUME OwnerInv
  PROVE  /\ Refreshed \in [Jobs -> JobRows]
         /\ \A j \in Jobs :
              /\ Refreshed[j].att = job[j].att
              /\ Refreshed[j].st = "claimed" => job[j].st = "claimed"
              /\ Refreshed[j].st # "none" => job[j].st # "none" \/ (j \in Versions /\ Accepted(j))
  <1>1. job \in [Jobs -> JobRows]
    BY DEF OwnerInv, HistoryInv, TypeOK, Jobs
  <1>2. ASSUME NEW j \in Jobs
        PROVE  /\ Refreshed[j] \in JobRows
               /\ Refreshed[j].att = job[j].att
               /\ Refreshed[j].st = "claimed" => job[j].st = "claimed"
               /\ Refreshed[j].st # "none" => job[j].st # "none" \/ (j \in Versions /\ Accepted(j))
    <2>1. job[j] \in JobRows
      BY <1>1
    <2>2. \/ Refreshed[j] = job[j]
          \/ /\ Refreshed[j] = [job[j] EXCEPT !.st = "queued"]
             /\ job[j].st # "none" \/ (j \in Versions /\ Accepted(j))
      BY DEF Refreshed, Backfilled
    <2> QED
      BY <2>1, <2>2 DEF JobRows
  <1>3. Refreshed = [j \in Jobs |-> Refreshed[j]]
    BY DEF Refreshed
  <1> QED
    BY <1>2, <1>3

\* A lease that runs out, and a pass that finds nothing, leave the workers alone.
LEMMA JobsOnly ==
  ASSUME OwnerInv, (\E j \in Jobs : ExpireLease(j)) \/ \E w \in Workers : ClaimNothing(w)
  PROVE  Quiet /\ worker' = worker
  <1>1. /\ UNCHANGED <<settings, rows, records, repo, calls, mapping, reservation, remote, worker, purging>>
        /\ version' = version
    BY DEF ExpireLease, ClaimNothing, mirrorVars, rows
  <1>2. job \in [Jobs -> JobRows]
    BY DEF OwnerInv, HistoryInv, TypeOK, Jobs
  <1>3. job' \in [Jobs -> JobRows] /\ JobsSettle
    <2>1. ASSUME NEW j \in Jobs, ExpireLease(j)
          PROVE  job' \in [Jobs -> JobRows] /\ JobsSettle
      <3>1. job' = [job EXCEPT ![j].live = FALSE]
        BY <2>1 DEF ExpireLease
      <3>2. job' \in [Jobs -> JobRows] /\ \A k \in Jobs : job'[k].st = job[k].st /\ job'[k].att = job[k].att
        BY <1>2, <3>1 DEF JobRows
      <3> QED
        BY <3>2 DEF JobsSettle
    <2>2. ASSUME NEW w \in Workers, ClaimNothing(w)
          PROVE  job' \in [Jobs -> JobRows] /\ JobsSettle
      <3>1. job' = Refreshed
        BY <2>2 DEF ClaimNothing
      <3> QED
        BY <1>1, <3>1, RefreshedSettles DEF JobsSettle, Accepted
    <2> QED
      BY <2>1, <2>2
  <1>4. \A x \in Workers : Follows(x)
    BY <1>1 DEF Follows
  <1> QED
    BY <1>1, <1>3, <1>4 DEF Quiet, Aside, OwnerInv, HistoryInv, TypeOK, MirrorTypeOK, RepoStates, WorkerRows

\* A step at the provider touches one repository.
AtProvider(a, r) ==
    /\ UNCHANGED <<historyVars, mirrorRows>>
    /\ remote' = [remote EXCEPT ![a] = r]
    /\ r \in RemoteRows
    /\ purging' \in Artifacts \cup {None, "approved"}
    /\ worker' \in [Workers -> WorkerRows]
    /\ \A x \in Workers : Follows(x)

\* It keeps the claims, and the chains if it leaves one.
LEMMA ProviderOwners ==
  ASSUME OwnerInv, NEW a \in Artifacts, NEW r, AtProvider(a, r), Chain(r.main, a, version)
  PROVE  OwnerInv'
  <1>1. UNCHANGED <<archived, mirroring, artifact, version, receipt, linked, effects, job, repo, calls,
                    mapping, reservation>>
    BY DEF AtProvider, historyVars, mirrorRows
  <1>2. Aside
    BY <1>1 DEF Aside, settings, rows, records, OwnerInv, HistoryInv, TypeOK, RepoStates, Jobs
  <1>3. JobsSettle
    BY <1>1 DEF JobsSettle
  <1>4. remote \in [Artifacts -> RemoteRows]
    BY MirrorTypes DEF OwnerInv
  <1>5. remote' \in [Artifacts -> RemoteRows] /\ remote'[a] = r
        /\ \A x \in Artifacts : x # a => remote'[x] = remote[x]
    BY <1>4 DEF AtProvider
  <1>6. MirrorTypeOK'
    <2>1. /\ mapping' \in [Versions -> MappingRows]
          /\ reservation' \in [Versions -> {"none", "reserved", "committed", "released"}]
      BY <1>1, MirrorTypes DEF OwnerInv
    <2> QED
      BY <1>5, <2>1 DEF AtProvider, MirrorTypeOK, MappingRows, RemoteRows, WorkerRows
  <1>7. \A x \in Artifacts : Chain(remote'[x].main, x, version)
    BY <1>5 DEF OwnerInv, ChainsSound
  <1>8. \A v \in Versions : mapping'[v].st # "none" =>
          Accepted(v) /\ CommitFor(mapping'[v].commit, v, version)
    BY <1>1 DEF OwnerInv, ChainsSound
  <1> QED
    BY <1>2, <1>3, <1>6, <1>7, <1>8, OwnerStep DEF AtProvider

\* No commit is a chain.
LEMMA EmptyChain == \A a, ver : Chain(<<>>, a, ver)
  <1>1. 1..Len(<<>>) = {}
    BY EmptySeq
  <1> QED
    BY <1>1 DEF Chain

\* Repositories of no commit.
LEMMA NoRemoteType ==
  /\ NoRemote \in RemoteRows /\ EmptyRemote \in RemoteRows
  /\ NoRemote.main = <<>> /\ EmptyRemote.main = <<>> /\ EmptyRemote.exists
  /\ \A v \in Versions : EmptyRemote.tags[v] = <<>>
  <1>1. <<>> \in Seq(Versions)
    BY EmptySeq
  <1>2. NoRemote \in RemoteRows /\ NoRemote.main = <<>> /\ \A v \in Versions : NoRemote.tags[v] = <<>>
    BY <1>1 DEF NoRemote, RemoteRows
  <1>3. EmptyRemote \in RemoteRows /\ EmptyRemote.main = <<>> /\ EmptyRemote.exists
        /\ EmptyRemote.tags = NoRemote.tags
    BY <1>2 DEF EmptyRemote, RemoteRows
  <1> QED
    BY <1>2, <1>3

\* A repository that exists is adopted, otherwise an empty one is made.
LEMMA CreateRepositoryDoes ==
  ASSUME OwnerInv, NEW w \in Workers, CreateRepository(w)
  PROVE  LET a == ArtifactOf(worker[w].job) IN
         /\ worker[w].at = "create" /\ Turns(w, "record") /\ purging' = purging
         /\ AtProvider(a, IF remote[a].exists THEN remote[a] ELSE EmptyRemote)
         /\ OwnerInv'
  <1> DEFINE a == ArtifactOf(worker[w].job)
             r == IF remote[a].exists THEN remote[a] ELSE EmptyRemote
  <1>1. /\ worker[w].at = "create" /\ Goes(w, "record") /\ MirrorTypeOK
        /\ remote' = [remote EXCEPT ![a] = IF @.exists THEN @ ELSE EmptyRemote]
        /\ UNCHANGED <<historyVars, mirrorRows, purging>>
    BY DEF CreateRepository, Act, OwnerInv
  <1>2. a \in Artifacts
    BY <1>1, WorkerTypes
  <1>3. r \in RemoteRows /\ Chain(r.main, a, version)
    BY <1>1, <1>2, NoRemoteType, EmptyChain, MirrorTypes DEF OwnerInv, ChainsSound
  <1>4. Turns(w, "record")
    BY <1>1, GoesTurns DEF Steps, Building
  <1>5. AtProvider(a, r)
    BY <1>1, <1>3, <1>4, MirrorTypes DEF AtProvider, Turns
  <1>6. OwnerInv'
    BY <1>2, <1>3, <1>5, ProviderOwners
  <1> QED
    BY <1>1, <1>4, <1>5, <1>6

\* A repository is removed.
LEMMA RemoveRepositoryDoes ==
  ASSUME OwnerInv, NEW w \in Workers, RemoveRepository(w)
  PROVE  /\ worker[w].at = "remove" /\ Turns(w, "removed") /\ purging' = purging
         /\ AtProvider(ArtifactOf(worker[w].job), NoRemote)
         /\ OwnerInv'
  <1> DEFINE a == ArtifactOf(worker[w].job)
  <1>1. /\ worker[w].at = "remove" /\ Goes(w, "removed") /\ MirrorTypeOK
        /\ remote' = [remote EXCEPT ![a] = NoRemote]
        /\ UNCHANGED <<historyVars, mirrorRows, purging>>
    BY DEF RemoveRepository, Act, OwnerInv
  <1>2. a \in Artifacts
    BY <1>1, WorkerTypes
  <1>3. Turns(w, "removed")
    BY <1>1, GoesTurns DEF Steps, Building
  <1>4. AtProvider(a, NoRemote)
    BY <1>1, <1>3, NoRemoteType, MirrorTypes DEF AtProvider, Turns
  <1>5. OwnerInv'
    BY <1>2, <1>4, NoRemoteType, EmptyChain, ProviderOwners
  <1> QED
    BY <1>1, <1>3, <1>4, <1>5

\* The branch moves to the commit of the worker, or the worker gives up.
LEMMA PushBranchDoes ==
  ASSUME OwnerInv, NEW w \in Workers, PushBranch(w)
  PROVE  /\ OwnerInv' /\ worker[w].at = "push"
         /\ \/ Quiet /\ Turns(w, "idle")
            \/ /\ FastForward(w) /\ Turns(w, "pushed") /\ purging' = purging
               /\ AtProvider(ArtifactOf(worker[w].job), [Remote(w) EXCEPT !.main = worker[w].commit])
  <1> DEFINE a == ArtifactOf(worker[w].job)
             r == [remote[a] EXCEPT !.main = worker[w].commit]
  <1>1. worker[w].at = "push" /\ MirrorTypeOK
    BY DEF PushBranch, Act, OwnerInv
  <1>2. /\ a \in Artifacts /\ worker[w].commit \in Seq(Versions) /\ a = version[worker[w].job].art
        /\ CommitFor(worker[w].commit, worker[w].job, version)
    BY <1>1, WorkerTypes DEF WorkerSound, Building, Steps, WorkerRows
  <1>3. CASE FastForward(w)
    <2>1. /\ Goes(w, "pushed") /\ UNCHANGED <<historyVars, mirrorRows, purging>>
          /\ remote' = [remote EXCEPT ![a].main = worker[w].commit]
      BY <1>3 DEF PushBranch
    <2>2. remote \in [Artifacts -> RemoteRows]
      BY <1>1, MirrorTypes
    <2>3. r \in RemoteRows /\ r.main = worker[w].commit /\ remote' = [remote EXCEPT ![a] = r]
      BY <1>2, <2>1, <2>2 DEF RemoteRows
    <2>4. Turns(w, "pushed")
      BY <1>1, <2>1, GoesTurns DEF Steps, Building
    <2>5. AtProvider(a, r)
      BY <1>1, <2>1, <2>3, <2>4, MirrorTypes DEF AtProvider, Turns
    <2>6. OwnerInv'
      BY <1>2, <2>3, <2>5, ProviderOwners DEF CommitFor
    <2> QED
      BY <1>1, <1>3, <2>1, <2>4, <2>5, <2>6 DEF Remote
  <1>4. CASE ~FastForward(w)
    BY <1>1, <1>4, GivesUpQuiet, QuietOwners DEF PushBranch
  <1> QED
    BY <1>3, <1>4

\* The tag of the version is set to the commit of the worker, or the worker gives up.
LEMMA PushTagDoes ==
  ASSUME OwnerInv, NEW w \in Workers, PushTag(w)
  PROVE  /\ OwnerInv' /\ worker[w].at \in {"tag", "retag"}
         /\ \/ Quiet /\ Turns(w, "idle")
            \/ /\ Turns(w, "tagged") \/ Turns(w, "retagged")
               /\ purging' = purging
               /\ Remote(w).exists /\ TagOf(w) \in {<<>>, worker[w].commit}
               /\ AtProvider(ArtifactOf(worker[w].job),
                             [Remote(w) EXCEPT !.tags[worker[w].job] = worker[w].commit])
  <1> DEFINE a == ArtifactOf(worker[w].job)
             v == worker[w].job
             r == [remote[a] EXCEPT !.tags[v] = worker[w].commit]
  <1>1. worker[w].at \in {"tag", "retag"} /\ MirrorTypeOK
    BY DEF PushTag, Act, OwnerInv
  <1>2. a \in Artifacts /\ v \in Versions /\ worker[w].commit \in Seq(Versions)
    BY <1>1, WorkerTypes DEF Building, Steps, WorkerRows
  <1>3. CASE Remote(w).exists /\ TagOf(w) \in {<<>>, worker[w].commit}
    <2>1. /\ UNCHANGED <<historyVars, mirrorRows, purging>>
          /\ remote' = [remote EXCEPT ![a].tags[v] = worker[w].commit]
      BY <1>3 DEF PushTag
    <2>2. PICK at \in {"tagged", "retagged"} : Goes(w, at)
      BY <1>3 DEF PushTag
    <2>3. remote \in [Artifacts -> RemoteRows]
      BY <1>1, MirrorTypes
    <2>4. r \in RemoteRows /\ r.main = remote[a].main /\ remote' = [remote EXCEPT ![a] = r]
      BY <1>2, <2>1, <2>3 DEF RemoteRows
    <2>5. Turns(w, at)
      BY <1>1, <2>2, GoesTurns DEF Steps, Building
    <2>6. AtProvider(a, r)
      BY <1>1, <2>1, <2>4, <2>5, MirrorTypes DEF AtProvider, Turns
    <2>7. OwnerInv'
      BY <1>2, <2>4, <2>6, ProviderOwners DEF OwnerInv, ChainsSound
    <2> QED
      BY <1>1, <1>3, <2>1, <2>5, <2>6, <2>7 DEF Remote
  <1>4. CASE ~(Remote(w).exists /\ TagOf(w) \in {<<>>, worker[w].commit})
    BY <1>1, <1>4, GivesUpQuiet, QuietOwners DEF PushTag
  <1> QED
    BY <1>3, <1>4

\* The purge removes a repository, too.
LEMMA PurgeRepositoryOwners ==
  ASSUME OwnerInv, NEW a \in Artifacts, PurgeRepository(a)
  PROVE  OwnerInv'
  <1>1. AtProvider(a, NoRemote)
    BY NoRemoteType, MirrorTypes DEF PurgeRepository, AtProvider, Follows, OwnerInv
  <1> QED
    BY <1>1, NoRemoteType, EmptyChain, ProviderOwners

\* A deletion that is queued is a job of its artifact.
LEMMA DeletionQueuedSettles ==
  ASSUME NEW jobs \in [Jobs -> JobRows], NEW a \in Artifacts
  PROVE  /\ DeletionQueued(jobs, a) \in [Jobs -> JobRows]
         /\ \A j \in Jobs : j # a => DeletionQueued(jobs, a)[j] = jobs[j]
         /\ DeletionQueued(jobs, a)[a].att = jobs[a].att
         /\ DeletionQueued(jobs, a)[a].st = "claimed" => jobs[a].st = "claimed"
  BY DEF DeletionQueued, Jobs, JobRows

\* The row of a repository is written; that of a deleted artifact is queued for removal.
LEMMA RecordRepositoryDoes ==
  ASSUME OwnerInv, NEW w \in Workers, RecordRepository(w)
  PROVE  LET a == ArtifactOf(worker[w].job) IN
         /\ OwnerInv' /\ worker[w].at = "record" /\ JobsSettle
         /\ UNCHANGED <<artifact, version, mapping, reservation, remote, purging>>
         /\ \A x \in Artifacts : x # a => repo'[x] = repo[x]
         /\ repo[a] = "none" /\ ~Deleted(a) => repo'[a] = "provisioned"
         /\ repo[a] = "none" /\ Deleted(a) => repo'[a] = "deleting"
         /\ repo[a] # "none" => repo'[a] = repo[a] \/ (Deleted(a) /\ repo'[a] = "deleting")
         /\ (Turns(w, "lookup") /\ repo'[a] = "provisioned")
              \/ (Turns(w, "remove") /\ repo'[a] # "provisioned")
  <1> DEFINE a == ArtifactOf(worker[w].job)
             gone == artifact[a].st = "deleted"
             stored == IF repo[a] # "none" THEN repo[a] ELSE IF gone THEN "deleting" ELSE "provisioned"
             queues == gone /\ ~D1 /\ stored # "deleted"
  <1>1. /\ worker[w].at = "record" /\ MirrorTypeOK
        /\ repo' = [repo EXCEPT ![a] = IF queues THEN "deleting" ELSE stored]
        /\ job' = IF queues THEN DeletionQueued(job, a) ELSE job
        /\ Goes(w, IF repo'[a] = "provisioned" THEN "lookup" ELSE "remove")
        /\ UNCHANGED <<settings, rows, records, calls, mirrorRows, remote, purging>>
    BY DEF RecordRepository, Act, OwnerInv
  <1>2. a \in Artifacts /\ a \notin Versions
    BY <1>1, WorkerTypes, HistoryNames DEF HistoryNames
  <1>3. job \in [Jobs -> JobRows] /\ repo \in [Artifacts -> RepoStates]
    BY DEF OwnerInv, HistoryInv, TypeOK, Jobs, RepoStates
  <1>4. UNCHANGED <<artifact, version, mapping, reservation, remote, purging>>
    BY <1>1 DEF rows, mirrorRows
  <1>5. repo' \in [Artifacts -> RepoStates] /\ repo'[a] = (IF queues THEN "deleting" ELSE stored)
        /\ \A x \in Artifacts : x # a => repo'[x] = repo[x]
    BY <1>1, <1>2, <1>3 DEF RepoStates
  <1>6. job' \in [Jobs -> JobRows] /\ JobsSettle
    <2>1. CASE queues
      <3>1. job' = DeletionQueued(job, a)
        BY <1>1, <2>1
      <3> QED
        BY <1>2, <1>3, <1>4, <2>1, <3>1, DeletionQueuedSettles DEF JobsSettle, Deleted
    <2>2. CASE ~queues
      BY <1>1, <1>3, <2>2 DEF JobsSettle
    <2> QED
      BY <2>1, <2>2
  <1>7. Aside
    BY <1>1, <1>5, <1>6 DEF Aside
  <1>8. (Turns(w, "lookup") /\ repo'[a] = "provisioned") \/ (Turns(w, "remove") /\ repo'[a] # "provisioned")
    <2>1. PICK at \in {"lookup", "remove"} : Goes(w, at) /\ (at = "lookup" <=> repo'[a] = "provisioned")
      BY <1>1
    <2>2. Turns(w, at)
      BY <1>1, <2>1, GoesTurns DEF Steps, Building
    <2> QED
      BY <2>1, <2>2
  <1>9. worker' \in [Workers -> WorkerRows] /\ \A x \in Workers : Follows(x)
    BY <1>8 DEF Turns
  <1>10. MirrorTypeOK'
    BY <1>1, <1>4, <1>9 DEF MirrorTypeOK, WorkerRows
  <1>11. OwnerInv'
    <2>1. /\ \A x \in Artifacts : Chain(remote'[x].main, x, version)
          /\ \A v \in Versions : mapping'[v].st # "none" =>
               Accepted(v) /\ CommitFor(mapping'[v].commit, v, version)
      BY <1>4 DEF OwnerInv, ChainsSound
    <2> QED
      BY <1>6, <1>7, <1>9, <1>10, <2>1, OwnerStep
  <1> QED
    BY <1>1, <1>4, <1>5, <1>6, <1>8, <1>11 DEF Deleted

\* The rows of a repository that is gone are closed; no commit is forgotten.
LEMMA RemovalDoes ==
  ASSUME OwnerInv, NEW a \in Artifacts, NEW ended, Removal(a, ended),
         UNCHANGED <<settings, rows, records, calls, remote>>,
         worker' \in [Workers -> WorkerRows], \A x \in Workers : Follows(x),
         purging' \in Artifacts \cup {None, "approved"}
  PROVE  /\ OwnerInv' /\ JobsSettle
         /\ \A x \in Artifacts : x # a => repo'[x] = repo[x]
         /\ \A v \in Versions : reservation'[v] \in {reservation[v], "released"}
         /\ \A v \in Versions :
              /\ mapping'[v].commit = mapping[v].commit
              /\ mapping'[v].st = "none" <=> mapping[v].st = "none"
              /\ mapping'[v].st = "recorded" => mapping[v].st = "recorded"
  <1>1. /\ job \in [Jobs -> JobRows] /\ repo \in [Artifacts -> RepoStates]
        /\ mapping \in [Versions -> MappingRows]
        /\ reservation \in [Versions -> {"none", "reserved", "committed", "released"}]
        /\ remote \in [Artifacts -> RemoteRows]
    BY MirrorTypes DEF OwnerInv, HistoryInv, TypeOK, Jobs, RepoStates
  <1>2. /\ repo' = IF repo[a] = "none" THEN repo ELSE [repo EXCEPT ![a] = "deleted"]
        /\ mapping' = [v \in Versions |->
                         IF v \in VersionsOf(a) /\ mapping[v].st # "none"
                         THEN [mapping[v] EXCEPT !.st = "deleted"] ELSE mapping[v]]
        /\ reservation' = [v \in Versions |->
                             IF v \in VersionsOf(a) /\ reservation[v] # "none"
                             THEN "released" ELSE reservation[v]]
        /\ job' = [j \in Jobs |->
                     IF j \in ended /\ job[j].st # "none"
                     THEN [job[j] EXCEPT !.st = "done", !.live = FALSE] ELSE job[j]]
    BY DEF Removal
  <1>3. repo' \in [Artifacts -> RepoStates] /\ \A x \in Artifacts : x # a => repo'[x] = repo[x]
    BY <1>1, <1>2 DEF RepoStates
  <1>4. ASSUME NEW v \in Versions
        PROVE  /\ mapping'[v] \in MappingRows
               /\ mapping'[v].commit = mapping[v].commit
               /\ mapping'[v].st = "none" <=> mapping[v].st = "none"
               /\ mapping'[v].st = "recorded" => mapping[v].st = "recorded"
    <2>1. mapping[v] \in MappingRows
      BY <1>1
    <2>2. \/ mapping'[v] = mapping[v]
          \/ mapping'[v] = [mapping[v] EXCEPT !.st = "deleted"] /\ mapping[v].st # "none"
      BY <1>2
    <2> QED
      BY <2>1, <2>2 DEF MappingRows
  <1>5. mapping' \in [Versions -> MappingRows]
    <2>1. mapping' = [v \in Versions |-> mapping'[v]]
      BY <1>2
    <2> QED
      BY <1>4, <2>1
  <1>6. /\ reservation' \in [Versions -> {"none", "reserved", "committed", "released"}]
        /\ \A v \in Versions : reservation'[v] \in {reservation[v], "released"}
    BY <1>1, <1>2
  <1>7. ASSUME NEW j \in Jobs
        PROVE  /\ job'[j] \in JobRows /\ job'[j].att = job[j].att
               /\ job'[j].st = "claimed" => job[j].st = "claimed"
               /\ job'[j].st # "none" => job[j].st # "none"
    <2>1. job[j] \in JobRows
      BY <1>1
    <2>2. \/ job'[j] = job[j]
          \/ job'[j] = [job[j] EXCEPT !.st = "done", !.live = FALSE] /\ job[j].st # "none"
      BY <1>2
    <2> QED
      BY <2>1, <2>2 DEF JobRows
  <1>8. job' \in [Jobs -> JobRows] /\ JobsSettle
    <2>1. job' = [j \in Jobs |-> job'[j]]
      BY <1>2
    <2> QED
      BY <1>7, <2>1 DEF JobsSettle
  <1>9. Aside
    BY <1>3, <1>8 DEF Aside
  <1>10. MirrorTypeOK'
    BY <1>1, <1>5, <1>6 DEF MirrorTypeOK, MappingRows, WorkerRows, RemoteRows
  <1>11. OwnerInv'
    <2>1. /\ \A x \in Artifacts : Chain(remote'[x].main, x, version)
          /\ \A v \in Versions : mapping'[v].st # "none" =>
               Accepted(v) /\ CommitFor(mapping'[v].commit, v, version)
      BY <1>4 DEF OwnerInv, ChainsSound
    <2> QED
      BY <1>8, <1>9, <1>10, <2>1, OwnerStep
  <1> QED
    BY <1>3, <1>4, <1>6, <1>8, <1>11

\* The jobs that a completed deletion may end are jobs of its artifact.
LEMMA DeletionEnds ==
  ASSUME OwnerInv, NEW w \in Workers, CompleteDeletion(w)
  PROVE  LET a == ArtifactOf(worker[w].job) IN
         a \in Artifacts /\ \E ended \in SUBSET JobsOf(a) : Removal(a, ended)
  <1>1. worker[w].job \in Jobs /\ ArtifactOf(worker[w].job) \in Artifacts
    BY WorkerTypes DEF OwnerInv, CompleteDeletion, Act
  <1>2. worker[w].job \in Versions => version[worker[w].job].st # "none"
    BY <1>1 DEF OwnerInv, JobsSound, CompleteDeletion, Owns, Accepted, AcceptedStates
  <1>3. worker[w].job \in JobsOf(ArtifactOf(worker[w].job))
    BY <1>1, <1>2 DEF JobsOf, ArtifactOf, VersionsOf, Jobs
  <1> QED
    BY <1>1, <1>3 DEF CompleteDeletion, JobsOf

\* The deletion of a repository is completed.
LEMMA CompleteDeletionDoes ==
  ASSUME OwnerInv, NEW w \in Workers, CompleteDeletion(w)
  PROVE  LET a == ArtifactOf(worker[w].job) IN
         /\ OwnerInv' /\ worker[w].at = "removed" /\ Turns(w, "idle") /\ JobsSettle /\ a \in Artifacts
         /\ UNCHANGED <<artifact, version, remote, purging>>
         /\ \A x \in Artifacts : x # a => repo'[x] = repo[x]
         /\ \A v \in Versions : reservation'[v] \in {reservation[v], "released"}
         /\ \A v \in Versions :
              /\ mapping'[v].commit = mapping[v].commit
              /\ mapping'[v].st = "none" <=> mapping[v].st = "none"
              /\ mapping'[v].st = "recorded" => mapping[v].st = "recorded"
  <1>1. /\ worker[w].at = "removed" /\ Leaves(w)
        /\ \E ended \in {JobsOf(ArtifactOf(worker[w].job)), {worker[w].job}} :
              Removal(ArtifactOf(worker[w].job), ended)
        /\ UNCHANGED <<settings, rows, records, calls, remote, purging>>
    BY DEF CompleteDeletion, Act
  <1>2. Turns(w, "idle") /\ ArtifactOf(worker[w].job) \in Artifacts
    BY <1>1, LeavesTurns, WorkerTypes DEF OwnerInv
  <1>3. purging' \in Artifacts \cup {None, "approved"}
    BY <1>1 DEF OwnerInv, MirrorTypeOK
  <1> QED
    BY <1>1, <1>2, <1>3, RemovalDoes DEF Turns, rows

\* So is that of the purge, unless it is interrupted.
LEMMA CompletePurgeDoes ==
  ASSUME OwnerInv, CompletePurge
  PROVE  /\ OwnerInv'
         /\ \A v \in Versions : reservation'[v] \in {reservation[v], "released"}
  <1>1. /\ purging \in Artifacts /\ Removal(purging, JobsOf(purging)) /\ purging' = "approved"
        /\ UNCHANGED <<settings, rows, records, calls, remote, worker>>
    BY DEF CompletePurge, OwnerInv, MirrorTypeOK
  <1>2. worker' \in [Workers -> WorkerRows] /\ \A x \in Workers : Follows(x)
    BY <1>1, MirrorTypes DEF OwnerInv, Follows
  <1>3. PICK a \in Artifacts : a = purging
    BY <1>1
  <1> QED
    BY <1>1, <1>2, <1>3, RemovalDoes

\* The beginning and the end of a purge change no row.
LEMMA EndPurgeDoes ==
  ASSUME OwnerInv, ReadPurgePlan \/ EndPurge
  PROVE  OwnerInv' /\ reservation' = reservation
  <1>1. /\ UNCHANGED <<historyVars, mapping, reservation, remote, worker>>
        /\ purging' \in {None, "approved"}
    BY DEF ReadPurgePlan, EndPurge, mirrorRows
  <1>2. Aside
    BY <1>1 DEF Aside, historyVars, settings, rows, records, OwnerInv, HistoryInv, TypeOK, RepoStates, Jobs
  <1>3. JobsSettle /\ \A x \in Workers : Follows(x)
    BY <1>1 DEF JobsSettle, Follows, historyVars
  <1>4. MirrorTypeOK'
    BY <1>1 DEF OwnerInv, MirrorTypeOK
  <1> QED
    BY <1>1, <1>2, <1>3, <1>4, OwnerStep DEF OwnerInv, ChainsSound

\* A worker that finds its artifact deleted removes the repository instead of
\* recording the commit.
LEMMA CompleteMirrorDoes ==
  ASSUME OwnerInv, NEW w \in Workers, CompleteMirror(w)
  PROVE  LET v == worker[w].job
             a == version[v].art IN
         /\ OwnerInv' /\ worker[w].at = "complete" /\ JobsSettle
         /\ UNCHANGED <<artifact, version, remote, purging>>
         /\ \A x \in Artifacts : x # a => repo'[x] = repo[x]
         /\ \A u \in Versions : u # v => mapping'[u] = mapping[u]
         /\ mapping[v].st # "none" => mapping'[v] = mapping[v]
         /\ \A u \in Versions : reservation'[u] \in {"reserved", "committed"} =>
                                  reservation[u] \in {"reserved", "committed"}
         /\ \/ /\ Live(a) /\ Turns(w, "idle") /\ repo' = repo
               /\ mapping[v].st = "none" =>
                    mapping'[v] = [st |-> "recorded", commit |-> worker[w].commit]
            \/ /\ Deleted(a) /\ Turns(w, "remove") /\ mapping' = mapping
               /\ repo'[a] \in {repo[a], "deleting"}
  <1>1. worker[w].at = "complete" /\ MirrorTypeOK /\ UNCHANGED <<settings, rows, records, calls, remote, purging>>
    BY DEF CompleteMirror, Act, OwnerInv
  <1> PICK v \in Versions, a \in Artifacts : v = worker[w].job /\ a = version[v].art
    BY <1>1, WorkerTypes DEF Building, Steps
  <1> DEFINE done == [job EXCEPT ![v].st = "done", ![v].live = FALSE]
  <1>2. /\ v \in Versions /\ v \in Jobs /\ a \in Artifacts /\ a \notin Versions /\ Accepted(v)
        /\ worker[w].commit \in Seq(Versions) /\ CommitFor(worker[w].commit, v, version)
    BY <1>1, WorkerTypes, HistoryNames DEF WorkerSound, Building, Steps, WorkerRows, HistoryNames, Jobs
  <1>3. /\ job \in [Jobs -> JobRows] /\ repo \in [Artifacts -> RepoStates]
        /\ mapping \in [Versions -> MappingRows]
        /\ reservation \in [Versions -> {"none", "reserved", "committed", "released"}]
        /\ remote \in [Artifacts -> RemoteRows]
    BY MirrorTypes DEF OwnerInv, HistoryInv, TypeOK, Jobs, RepoStates
  <1>4. UNCHANGED <<artifact, version, remote, purging>>
    BY <1>1 DEF rows
  <1>5. /\ done \in [Jobs -> JobRows] /\ done[v].att = job[v].att /\ done[v].st = "done"
        /\ \A j \in Jobs : j # v => done[j] = job[j]
    <2>1. PICK row : row = [job[v] EXCEPT !.st = "done", !.live = FALSE]
      OBVIOUS
    <2>2. row \in JobRows /\ row.att = job[v].att /\ row.st = "done"
      BY <1>2, <1>3, <2>1 DEF JobRows
    <2>3. done = [job EXCEPT ![v] = row]
      BY <2>1
    <2> HIDE DEF done
    <2> QED
      BY <1>2, <1>3, <2>2, <2>3
  <1> HIDE DEF done
  <1>6. CASE Live(a)
    <2>1. /\ mapping' = [mapping EXCEPT ![v] =
                             IF @.st = "none" THEN [st |-> "recorded", commit |-> worker[w].commit]
                             ELSE @]
          /\ reservation' = [reservation EXCEPT ![v] = IF @ = "reserved" THEN "committed" ELSE @]
          /\ job' = done /\ Leaves(w) /\ UNCHANGED repo
      BY <1>6 DEF CompleteMirror, done
    <2>2. Turns(w, "idle")
      BY <1>1, <2>1, LeavesTurns
    <2>3. JobsSettle /\ job' \in [Jobs -> JobRows]
      <3>1. done[v].st # "none" => Accepted(v)'
        BY <1>2, <1>4 DEF Accepted
      <3> QED
        BY <1>2, <1>5, <2>1, <3>1 DEF JobsSettle
    <2>4. Aside
      BY <1>1, <1>3, <2>1, <2>3 DEF Aside
    <2>5. /\ \A u \in Versions : u # v => mapping'[u] = mapping[u]
          /\ mapping[v].st # "none" => mapping'[v] = mapping[v]
          /\ mapping[v].st = "none" => mapping'[v] = [st |-> "recorded", commit |-> worker[w].commit]
      BY <1>2, <1>3, <2>1
    <2>6. mapping' \in [Versions -> MappingRows]
      <3>1. [st |-> "recorded", commit |-> worker[w].commit] \in MappingRows
        BY <1>2 DEF MappingRows
      <3> QED
        BY <1>2, <1>3, <2>1, <3>1
    <2>7. /\ reservation' \in [Versions -> {"none", "reserved", "committed", "released"}]
          /\ \A u \in Versions : reservation'[u] \in {"reserved", "committed"} =>
                                  reservation[u] \in {"reserved", "committed"}
      BY <1>2, <1>3, <2>1
    <2>8. MirrorTypeOK'
      BY <1>1, <1>3, <1>4, <2>2, <2>6, <2>7 DEF MirrorTypeOK, MappingRows, WorkerRows, RemoteRows, Turns
    <2>9. \A u \in Versions : mapping'[u].st # "none" =>
            Accepted(u) /\ CommitFor(mapping'[u].commit, u, version)
      BY <1>2, <2>5 DEF OwnerInv, ChainsSound
    <2>10. OwnerInv'
      BY <1>4, <2>2, <2>3, <2>4, <2>8, <2>9, OwnerStep DEF OwnerInv, ChainsSound, Turns
    <2> QED
      BY <1>1, <1>4, <1>6, <2>1, <2>2, <2>3, <2>5, <2>7, <2>10
  <1>7. CASE ~Live(a)
    <2>1. /\ reservation' = [reservation EXCEPT ![v] = IF @ = "reserved" THEN "released" ELSE @]
          /\ job' = IF HasRepo(a) THEN DeletionQueued(done, a) ELSE done
          /\ repo' = IF HasRepo(a) THEN [repo EXCEPT ![a] = "deleting"] ELSE repo
          /\ Goes(w, "remove") /\ UNCHANGED mapping
      BY <1>7 DEF CompleteMirror, done
    <2>2. Turns(w, "remove")
      BY <1>1, <2>1, GoesTurns DEF Steps, Building
    <2>3. Deleted(a)
      BY <1>2, <1>7 DEF Live, Deleted, OwnerInv, HistoryInv, RowsSound, TypeOK, ArtifactRows, Accepted,
                         AcceptedStates
    <2>4. JobsSettle /\ job' \in [Jobs -> JobRows]
      <3>1. done[v].st # "none" => Accepted(v)'
        BY <1>2, <1>4 DEF Accepted
      <3>2. Deleted(a)'
        BY <1>4, <2>3 DEF Deleted
      <3>3. CASE ~HasRepo(a)
        BY <1>2, <1>5, <2>1, <3>1, <3>3 DEF JobsSettle
      <3>4. CASE HasRepo(a)
        <4>1. job' = DeletionQueued(done, a)
          BY <2>1, <3>4
        <4>2. /\ job' \in [Jobs -> JobRows] /\ \A j \in Jobs : j # a => job'[j] = done[j]
              /\ job'[a].att = done[a].att
              /\ job'[a].st = "claimed" => done[a].st = "claimed"
          BY <1>2, <1>5, <4>1, DeletionQueuedSettles
        <4>3. done[a] = job[a] /\ a \in Jobs /\ a # v
          BY <1>2, <1>5 DEF Jobs
        <4>4. ASSUME NEW j \in Jobs
              PROVE  /\ job'[j].att = job[j].att
                     /\ job'[j].st = "claimed" => job[j].st = "claimed"
                     /\ job'[j].st # "none" =>
                          job[j].st # "none" \/ (IF j \in Versions THEN Accepted(j)' ELSE Deleted(j)')
          <5>1. CASE j = a
            BY <1>2, <3>2, <4>2, <4>3, <5>1
          <5>2. CASE j = v
            BY <1>2, <1>5, <3>1, <4>2, <4>3, <5>2
          <5>3. CASE j # a /\ j # v
            BY <1>5, <4>2, <5>3
          <5> QED
            BY <5>1, <5>2, <5>3
        <4> QED
          BY <4>2, <4>4 DEF JobsSettle
      <3> QED
        BY <3>3, <3>4
    <2>5. /\ repo' \in [Artifacts -> RepoStates] /\ repo'[a] \in {repo[a], "deleting"}
          /\ \A x \in Artifacts : x # a => repo'[x] = repo[x]
      BY <1>2, <1>3, <2>1 DEF RepoStates
    <2>6. Aside
      BY <1>1, <2>4, <2>5 DEF Aside
    <2>7. /\ reservation' \in [Versions -> {"none", "reserved", "committed", "released"}]
          /\ \A u \in Versions : reservation'[u] \in {"reserved", "committed"} =>
                                  reservation[u] \in {"reserved", "committed"}
      BY <1>2, <1>3, <2>1
    <2>8. MirrorTypeOK'
      BY <1>1, <1>3, <1>4, <2>1, <2>2, <2>7 DEF MirrorTypeOK, MappingRows, WorkerRows, RemoteRows, Turns
    <2>9. OwnerInv'
      BY <1>4, <2>1, <2>2, <2>4, <2>6, <2>8, OwnerStep DEF OwnerInv, ChainsSound, Turns
    <2> QED
      BY <1>1, <1>4, <2>1, <2>2, <2>3, <2>4, <2>5, <2>7, <2>9
  <1> QED
    BY <1>6, <1>7

\* A claim is given while no job of the artifact is claimed, and its attempt is new.
LEMMA ClaimDoes ==
  ASSUME OwnerInv, NEW w \in Workers, NEW j \in Jobs, ClaimGitHistoryJob(w, j)
  PROVE  /\ OwnerInv'
         /\ UNCHANGED <<artifact, version, calls, repo, mapping, reservation, remote, purging>>
         /\ worker'[w].at = "claimed" /\ worker'[w].job = j
         /\ \A x \in Workers : x # w => worker'[x] = worker[x]
         /\ job[j].st # "none" \/ (j \in Versions /\ Accepted(j))
         /\ \A k \in Artifacts : job'[k].st # "none" => job[k].st # "none"
  <1> USE DEF OwnerInv
  <1> DEFINE row == [st |-> "claimed", att |-> job[j].att + 1, live |-> TRUE]
             mine == [Idle EXCEPT !.at = "claimed", !.job = j, !.att = job[j].att + 1]
  <1>1. /\ worker[w].at = "idle" /\ Claimable(j) /\ job[j].att < MaxAttempts
        /\ UNCHANGED <<settings, rows, records, repo, calls, mapping, reservation, remote, purging>>
    BY DEF ClaimGitHistoryJob, mirrorRows
  <1>2. UNCHANGED <<archived, mirroring, artifact, version, receipt, linked, effects, calls>>
    BY <1>1 DEF settings, rows, records
  <1>3. job \in [Jobs -> JobRows] /\ worker \in [Workers -> WorkerRows] /\ job[j].att \in Nat
    BY MirrorTypes DEF HistoryInv, TypeOK, Jobs, JobRows
  <1>4. /\ Refreshed \in [Jobs -> JobRows]
        /\ \A k \in Jobs :
              /\ Refreshed[k].att = job[k].att
              /\ Refreshed[k].st = "claimed" => job[k].st = "claimed"
              /\ Refreshed[k].st # "none" => job[k].st # "none" \/ (k \in Versions /\ Accepted(k))
    BY RefreshedSettles
  <1>5. job' = [Refreshed EXCEPT ![j] = row]
    <2>1. job' = [Refreshed EXCEPT ![j] = [st |-> "claimed", att |-> Refreshed[j].att + 1, live |-> TRUE]]
      BY DEF ClaimGitHistoryJob
    <2> QED
      BY <1>4, <2>1
  <1>6. worker' = [worker EXCEPT ![w] = mine]
    BY DEF ClaimGitHistoryJob
  <1>7. /\ row \in JobRows /\ mine \in WorkerRows
        /\ mine.at = "claimed" /\ mine.job = j /\ mine.att = job[j].att + 1
    <2>1. job[j].att + 1 \in 0..MaxAttempts /\ job[j].att + 1 \in Nat /\ <<>> \in Seq(Versions)
          /\ 0 \in 0..MaxAttempts
      BY <1>1, <1>3, MirrorBounds, EmptySeq DEF MirrorBounds
    <2>2. Idle \in WorkerRows
      BY <2>1 DEF Idle, WorkerRows, Steps
    <2> QED
      BY <2>1, <2>2 DEF JobRows, WorkerRows, Steps
  <1> HIDE DEF mine
  <1>8. /\ job' \in [Jobs -> JobRows] /\ job'[j] = row /\ \A k \in Jobs : k # j => job'[k] = Refreshed[k]
        /\ worker' \in [Workers -> WorkerRows] /\ worker'[w] = mine
        /\ \A x \in Workers : x # w => worker'[x] = worker[x]
    BY <1>3, <1>4, <1>5, <1>6, <1>7
  <1>9. HistoryInv'
    BY <1>1, <1>8, HistoryAside DEF Aside, HistoryInv, TypeOK, RepoStates
  <1>10. MirrorTypeOK'
    BY <1>1, <1>8, MirrorTypes DEF MirrorTypeOK, WorkerRows
  <1>11. FirstAccepted' /\ ChainsSound'
    BY <1>1, <1>2 DEF FirstAccepted, Accepted, ChainsSound
  <1>12. /\ Refreshed[j].st = "queued"
         /\ \A k \in JobsOf(ArtifactOf(j)) : Refreshed[k].st # "claimed"
    BY <1>1 DEF Claimable
  <1>13. JobsSound'
    <2>1. \A k \in Jobs : ArtifactOf(k)' = ArtifactOf(k)
      BY <1>2 DEF ArtifactOf
    <2>2. \A v \in Versions : job'[v].st # "none" => Accepted(v)'
      <3>1. \A v \in Versions : Refreshed[v].st # "none" => Accepted(v)
        BY <1>4 DEF JobsSound, Jobs
      <3> QED
        BY <1>2, <1>8, <1>12, <3>1 DEF Accepted, Jobs
    <2>3. ASSUME NEW k \in Jobs, k # j, job'[k].st = "claimed"
          PROVE  ArtifactOf(k) # ArtifactOf(j) /\ job[k].st = "claimed"
      <3>1. Refreshed[k].st = "claimed" /\ job[k].st = "claimed"
        BY <1>4, <1>8, <2>3
      <3>2. k \in Versions => k \in VersionsOf(version[k].art)
        BY <3>1 DEF JobsSound, VersionsOf, Accepted, AcceptedStates
      <3>3. k \in JobsOf(ArtifactOf(k))
        BY <3>2 DEF JobsOf, ArtifactOf, Jobs
      <3> QED
        BY <1>12, <3>1, <3>3
    <2>4. \A k, l \in Jobs : job'[k].st = "claimed" /\ job'[l].st = "claimed"
                             /\ ArtifactOf(k) = ArtifactOf(l) => k = l
      BY <2>3 DEF JobsSound
    <2> QED
      BY <2>1, <2>2, <2>4 DEF JobsSound
  <1>14. \A k \in Jobs : job[k].att \in Nat /\ job'[k].att \in Nat /\ job[k].att <= job'[k].att
    <2>1. \A k \in Jobs : job[k].att \in Nat
      BY <1>3 DEF JobRows
    <2>2. job'[j].att = job[j].att + 1 /\ \A k \in Jobs : k # j => job'[k].att = job[k].att
      BY <1>4, <1>8
    <2> QED
      BY <2>1, <2>2
  <1>15. ASSUME NEW x \in Workers
         PROVE  WorkerSound(x)'
    <2>1. CASE x = w
      <3>1. j \in Versions => Accepted(j)'
        BY <1>2, <1>4, <1>12 DEF JobsSound, Accepted
      <3>2. worker'[x].at \notin Building
        BY <1>7, <1>8, <2>1 DEF Building
      <3>3. worker'[x].att <= job'[worker'[x].job].att
        BY <1>3, <1>7, <1>8, <2>1
      <3> QED
        BY <1>7, <1>8, <2>1, <3>1, <3>2, <3>3 DEF WorkerSound
    <2>2. CASE x # w
      <3>1. WorkerSound(x) /\ worker'[x] = worker[x] /\ worker[x].att \in Nat
        BY <1>3, <1>8, <2>2, MirrorBounds DEF WorkersSound, WorkerRows, MirrorBounds
      <3>2. worker'[x].at # "idle" => worker'[x].att <= job'[worker'[x].job].att
        BY <1>14, <3>1 DEF WorkerSound
      <3> QED
        BY <1>2, <3>1, <3>2 DEF WorkerSound, Accepted
    <2> QED
      BY <2>1, <2>2
  <1>16. ASSUME NEW x \in Workers, NEW y \in Workers, x # y, worker'[x].at # "idle", worker'[y].at # "idle",
                worker'[x].job = worker'[y].job
         PROVE  worker'[x].att # worker'[y].att
    <2>1. \A z \in Workers : z # w /\ worker[z].at # "idle" /\ worker[z].job = j =>
            worker'[z].att # job[j].att + 1
      <3> SUFFICES ASSUME NEW z \in Workers, z # w, worker[z].at # "idle", worker[z].job = j
                   PROVE  worker'[z].att # job[j].att + 1
        OBVIOUS
      <3>1. worker[z].att <= job[j].att /\ worker[z].att \in Nat
        BY <1>3, MirrorBounds DEF WorkersSound, WorkerSound, WorkerRows, MirrorBounds
      <3> QED
        BY <1>3, <1>8, <3>1
    <2>2. CASE x = w
      BY <1>7, <1>8, <1>16, <2>1, <2>2
    <2>3. CASE y = w
      BY <1>7, <1>8, <1>16, <2>1, <2>3
    <2>4. CASE x # w /\ y # w
      BY <1>8, <1>16, <2>4 DEF WorkersSound
    <2> QED
      BY <2>2, <2>3, <2>4
  <1>17. WorkersSound'
    BY <1>15, <1>16 DEF WorkersSound
  <1>18. \A k \in Artifacts : job'[k].st # "none" => job[k].st # "none"
    <2>1. \A k \in Artifacts : k \in Jobs /\ k \notin Versions
      BY HistoryNames DEF HistoryNames, Jobs
    <2> QED
      BY <1>4, <1>8, <1>12, <2>1
  <1> QED
    BY <1>1, <1>2, <1>4, <1>7, <1>8, <1>9, <1>10, <1>11, <1>12, <1>13, <1>17, <1>18

-----------------------------------------------------------------------------
(* One owner, the budget, the branch                                       *)

\* The steps of a worker at its job.
LEMMA WorkOwners ==
  ASSUME OwnerInv, NEW w \in Workers, Work(w) \/ Fail(w) \/ Abandon(w)
  PROVE  OwnerInv'
  <1>1. CASE FindVersion(w)
    <2>1. "complete" \in Building /\ "reserve" \in Building
      BY DEF Building, Steps
    <2> QED
      BY <1>1, <2>1, FindVersionDoes, QuietOwners, FindsOwners
  <1>2. CASE ReserveBudget(w) \/ FindRepository(w) \/ LookupCommit(w)
    BY <1>2, ReserveBudgetDoes, FindRepositoryDoes, LookupCommitDoes, QuietOwners
  <1>3. CASE BuildCommit(w) \/ AssertOwner(w) \/ ConfirmRefs(w) \/ LoseLease(w) \/ Fail(w) \/ Abandon(w)
    BY <1>3, TurnsOnly, QuietOwners
  <1>4. CASE \/ CreateRepository(w) \/ RecordRepository(w) \/ RemoveRepository(w) \/ CompleteDeletion(w)
             \/ PushBranch(w) \/ PushTag(w) \/ CompleteMirror(w)
    BY <1>4, CreateRepositoryDoes, RecordRepositoryDoes, RemoveRepositoryDoes, CompleteDeletionDoes,
       PushBranchDoes, PushTagDoes, CompleteMirrorDoes
  <1> QED
    BY <1>1, <1>2, <1>3, <1>4 DEF Work

\* Every step keeps the claims and the chains.
LEMMA NextOwners == OwnerInv /\ [MirrorNext]_allVars => OwnerInv'
  <1> SUFFICES ASSUME OwnerInv, [MirrorNext]_allVars PROVE OwnerInv'
    OBVIOUS
  <1>1. CASE [HistoryNext]_historyVars /\ UNCHANGED mirrorVars
    BY <1>1, HistoryKeepsOwners
  <1>2. CASE \E w \in Workers : Work(w) \/ ClaimNothing(w) \/ Fail(w) \/ Abandon(w)
    BY <1>2, WorkOwners, JobsOnly, QuietOwners
  <1>3. CASE \E w \in Workers, j \in Jobs : ClaimGitHistoryJob(w, j)
    BY <1>3, ClaimDoes
  <1>4. CASE \E j \in Jobs : ExpireLease(j)
    BY <1>4, JobsOnly, QuietOwners
  <1>5. CASE (\E a \in Artifacts : PurgeRepository(a)) \/ CompletePurge \/ ReadPurgePlan \/ EndPurge
    BY <1>5, PurgeRepositoryOwners, CompletePurgeDoes, EndPurgeDoes
  <1>6. CASE UNCHANGED allVars
    BY <1>1, <1>6 DEF allVars
  <1> QED
    BY <1>1, <1>2, <1>3, <1>4, <1>5, <1>6 DEF MirrorNext

\* Nothing is claimed, mirrored or reserved at first.
LEMMA InitOwners == MirrorInit => OwnerInv /\ BudgetKept
  <1> SUFFICES ASSUME MirrorInit PROVE OwnerInv /\ BudgetKept
    OBVIOUS
  <1>1. HistoryInv
    BY InitInv DEF MirrorInit
  <1>2. MirrorTypeOK
    <2>1. Idle \in WorkerRows /\ NoRemote \in RemoteRows /\ NoMapping \in MappingRows
      <3>1. 0 \in 0..MaxAttempts /\ <<>> \in Seq(Versions)
        BY MirrorBounds, EmptySeq DEF MirrorBounds
      <3> QED
        BY <3>1, NoRemoteType DEF Idle, WorkerRows, Steps, NoMapping, MappingRows
    <2> QED
      BY <2>1, MirrorTypes DEF MirrorInit
  <1>3. FirstAccepted /\ JobsSound
    BY DEF MirrorInit, HistoryInit, NoVersion, NoJob, FirstAccepted, JobsSound, Jobs
  <1>4. WorkersSound
    BY DEF MirrorInit, Idle, WorkersSound, WorkerSound, Building
  <1>5. ChainsSound
    BY EmptyChain, NoRemoteType DEF MirrorInit, ChainsSound, NoMapping
  <1>6. BudgetKept
    <2>1. Used = {}
      BY DEF MirrorInit, Used
    <2> QED
      BY <2>1, FS_EmptySet, MirrorBounds DEF BudgetKept, MirrorBounds
  <1> QED
    BY <1>1, <1>2, <1>3, <1>4, <1>5, <1>6 DEF OwnerInv

\* So the invariant holds throughout.
LEMMA OwnerInvariant == MirrorSpec => []OwnerInv
  BY InitOwners, NextOwners, PTL DEF MirrorSpec

\* Theorem: at most one worker holds the claim of an artifact, on every store and for any
\* number of workers, leases that run out, crashes and claims that follow: the jobs of
\* an artifact are claimed one at a time, and every claim has an attempt of its own.
THEOREM OwnerIsUnique == MirrorSpec => []OneOwner
  <1>1. OwnerInv => OneOwner
    <2> SUFFICES ASSUME OwnerInv, NEW w \in Workers, NEW x \in Workers, w # x,
                        worker[w].at # "idle", worker[x].at # "idle", Owns(w), Owns(x),
                        ArtifactOf(worker[w].job) = ArtifactOf(worker[x].job)
                 PROVE  FALSE
      BY DEF OneOwner
    <2>1. worker[w].job \in Jobs /\ worker[x].job \in Jobs
      BY WorkerTypes
    <2>2. worker[w].job = worker[x].job
      BY <2>1 DEF OwnerInv, JobsSound, Owns
    <2> QED
      BY <2>2 DEF OwnerInv, WorkersSound, Owns
  <1> QED
    BY <1>1, OwnerInvariant, PTL

\* A step that reserves nothing keeps the budget.
LEMMA BudgetNotRaised ==
  ASSUME BudgetKept,
         \A v \in Versions : reservation'[v] \in {"reserved", "committed"} =>
                               reservation[v] \in {"reserved", "committed"}
  PROVE  BudgetKept'
  <1>1. Used' \in SUBSET Used /\ Used \in SUBSET Versions
    BY DEF Used
  <1>2. IsFiniteSet(Used)
    BY <1>1, HistoryNames, FS_Subset DEF HistoryNames
  <1>3. IsFiniteSet(Used') /\ Cardinality(Used') <= Cardinality(Used)
    BY <1>1, <1>2, FS_Subset
  <1>4. Cardinality(Used') \in Nat /\ Cardinality(Used) \in Nat /\ Budget \in Nat
    BY <1>2, <1>3, FS_CardinalityType, MirrorBounds DEF MirrorBounds
  <1> QED
    BY <1>3, <1>4 DEF BudgetKept

\* A reservation is made while there is room for it.
LEMMA ReservationFits ==
  ASSUME OwnerInv, BudgetKept, NEW w \in Workers, ReserveBudget(w)
  PROVE  BudgetKept'
  <1> PICK v \in Versions : v = worker[w].job
    BY WorkerTypes DEF ReserveBudget, Act, Building, Steps
  <1>1. CASE reservation[v] # "none" \/ ~Fits(v)
    <2>1. reservation' = reservation
      BY <1>1 DEF ReserveBudget, OwnerInv, MirrorTypeOK
    <2> QED
      BY <2>1, BudgetNotRaised
  <1>2. CASE reservation[v] = "none" /\ Fits(v)
    <2>1. reservation' = [reservation EXCEPT ![v] = IF @ = "none" THEN "reserved" ELSE @]
      BY <1>2 DEF ReserveBudget
    <2>2. \A u \in Versions : u # v => reservation'[u] = reservation[u]
      BY <2>1 DEF OwnerInv, MirrorTypeOK
    <2>3. Used' \in SUBSET (Used \cup {v}) /\ Used \in SUBSET Versions
      BY <2>2 DEF Used
    <2>4. IsFiniteSet(Used)
      BY <2>3, HistoryNames, FS_Subset DEF HistoryNames
    <2>5. /\ IsFiniteSet(Used \cup {v}) /\ Cardinality(Used) \in Nat
          /\ Cardinality(Used \cup {v}) \in {Cardinality(Used), Cardinality(Used) + 1}
      BY <2>4, FS_AddElement, FS_CardinalityType
    <2>6. IsFiniteSet(Used') /\ Cardinality(Used') <= Cardinality(Used \cup {v})
      BY <2>3, <2>5, FS_Subset
    <2>7. Cardinality(Used') \in Nat /\ Budget \in Nat
      BY <2>6, FS_CardinalityType, MirrorBounds DEF MirrorBounds
    <2> QED
      BY <1>2, <2>5, <2>6, <2>7 DEF Fits, BudgetKept
  <1> QED
    BY <1>1, <1>2

\* Theorem: reserved and committed units together never exceed the budget, for any number
\* of workers that reserve and of attempts that leave their reservation behind.
THEOREM BudgetIsKept == MirrorSpec => []BudgetKept
  <1>1. OwnerInv /\ BudgetKept /\ [MirrorNext]_allVars => BudgetKept'
    <2> SUFFICES ASSUME OwnerInv, BudgetKept, [MirrorNext]_allVars PROVE BudgetKept'
      OBVIOUS
    <2>1. ASSUME reservation' = reservation
          PROVE  BudgetKept'
      BY <2>1, BudgetNotRaised
    <2>2. ASSUME NEW w \in Workers, ReserveBudget(w)
          PROVE  BudgetKept'
      BY <2>2, ReservationFits
    <2>3. ASSUME \A v \in Versions : reservation'[v] \in {reservation[v], "released"}
          PROVE  BudgetKept'
      BY <2>3, BudgetNotRaised
    <2>4. ASSUME NEW w \in Workers, CompleteMirror(w)
          PROVE  BudgetKept'
      BY <2>4, CompleteMirrorDoes, BudgetNotRaised
    <2>5. ASSUME NEW w \in Workers, CompleteDeletion(w)
          PROVE  BudgetKept'
      BY <2>3, <2>5, CompleteDeletionDoes
    <2>6. CASE CompletePurge
      BY <2>3, <2>6, CompletePurgeDoes
    <2>7. ASSUME NEW w \in Workers,
                 \/ FindVersion(w) \/ FindRepository(w) \/ CreateRepository(w) \/ RecordRepository(w)
                 \/ RemoveRepository(w) \/ LookupCommit(w) \/ BuildCommit(w) \/ PushBranch(w)
                 \/ AssertOwner(w) \/ PushTag(w) \/ ConfirmRefs(w) \/ LoseLease(w)
                 \/ ClaimNothing(w) \/ Fail(w) \/ Abandon(w)
          PROVE  BudgetKept'
      BY <2>1, <2>7 DEF FindVersion, FindRepository, CreateRepository, RecordRepository, RemoveRepository,
         LookupCommit, BuildCommit, PushBranch, AssertOwner, PushTag, ConfirmRefs, LoseLease, LosesLease,
         ClaimNothing, Fail, Abandon, GivesUp, mirrorRows, mirrorVars
    <2>8. CASE \/ HistoryNext /\ UNCHANGED mirrorVars
               \/ \E w \in Workers, j \in Jobs : ClaimGitHistoryJob(w, j)
               \/ \E j \in Jobs : ExpireLease(j)
               \/ \E a \in Artifacts : PurgeRepository(a)
               \/ ReadPurgePlan \/ EndPurge \/ UNCHANGED allVars
      BY <2>1, <2>8 DEF ClaimGitHistoryJob, ExpireLease, PurgeRepository, ReadPurgePlan, EndPurge,
         mirrorRows, mirrorVars, allVars
    <2> QED
      BY <2>2, <2>4, <2>5, <2>6, <2>7, <2>8 DEF MirrorNext, Work
  <1> QED
    BY <1>1, InitOwners, OwnerInvariant, PTL DEF MirrorSpec

-----------------------------------------------------------------------------
(* Numbers, without restores                                               *)

\* Current has the highest accepted number, and a candidate is above its base.
OrderSound ==
    /\ \A c \in calls : c.op \in Ops
    /\ \A a \in Artifacts, v \in Versions :
          artifact[a].st # "none" /\ version[v].art = a /\ Accepted(v) =>
             version[v].num <= version[artifact[a].cur].num
    /\ \A v \in Versions : version[v].st = "candidate" =>
          /\ version[v].base \in Versions /\ version[version[v].base].st # "none"
          /\ version[version[v].base].num < version[v].num

\* A version is accepted with a number above every accepted one of its artifact.
Ascends ==
    \A u, v \in Versions :
        /\ ~Accepted(u) /\ Accepted(u)' /\ Accepted(v) /\ version[v].art = version'[u].art
        => version[v].num < version'[u].num

\* Every step that restores nothing.
LEMMA ForwardAscends ==
  ASSUME HistoryInv, HistoryInv', OrderSound, ForwardStep
  PROVE  Ascends
  <1>1. \A v \in Versions : Accepted(v) => v \in VersionsOf(version[v].art)
    BY DEF VersionsOf, Accepted, AcceptedStates
  <1>2. ASSUME NEW a \in Artifacts, NEW x \in Versions, NEW st, NEW b, st # "none", Adds(a, x, st, b)
        PROVE  Ascends
    <2>1. \A u \in VersionsOf(a) : version[u].num < version'[x].num
      BY <1>2, AddedIsHighest
    <2> QED
      BY <1>1, <1>2, <2>1 DEF Adds, Ascends, Accepted, AcceptedStates
  <1>3. ASSUME NEW a \in Artifacts, NEW x \in Versions, version[x].art = a,
               version[x].base = artifact[a].cur, Moves(x, "promoted"), Points(a, x)
        PROVE  Ascends
    <2>1. version[artifact[a].cur].num < version[x].num /\ artifact[a].cur \in Versions
      BY <1>3 DEF OrderSound, Moves
    <2>2. artifact[a].st # "none"
      BY <1>3 DEF HistoryInv, RowsSound, Moves
    <2>3. \A v \in Versions : version[v].num \in Nat
      BY DEF HistoryInv, TypeOK, VersionRows
    <2>4. \A v \in Versions : Accepted(v) /\ version[v].art = a => version[v].num < version[x].num
      BY <2>1, <2>2, <2>3 DEF OrderSound
    <2> QED
      BY <1>3, <2>4 DEF Moves, Ascends, Accepted
  <1>4. ASSUME NEW x \in Versions, NEW st \in Closing, Moves(x, st)
        PROVE  Ascends
    BY <1>4 DEF Moves, Ascends, Accepted, AcceptedStates, Closing
  <1>5. ASSUME version' = version
        PROVE  Ascends
    BY <1>5 DEF Ascends, Accepted
  <1> QED
    BY <1>2, <1>3, <1>4, <1>5 DEF ForwardStep

\* The order is kept, too.
LEMMA ForwardOrders ==
  ASSUME HistoryInv, HistoryInv', OrderSound, ForwardStep, \A c \in calls' : c.op \in Ops
  PROVE  OrderSound'
  <1> DEFINE Cur == \A a \in Artifacts, v \in Versions :
                       artifact[a].st # "none" /\ version[v].art = a /\ Accepted(v) =>
                          version[v].num <= version[artifact[a].cur].num
             Base == \A v \in Versions : version[v].st = "candidate" =>
                       /\ version[v].base \in Versions /\ version[version[v].base].st # "none"
                       /\ version[version[v].base].num < version[v].num
  <1>0. Cur /\ Base
    BY DEF OrderSound
  <1>1. /\ \A v \in Versions : version[v].num \in Nat /\ version'[v].num \in Nat
        /\ \A v \in Versions : Accepted(v) => v \in VersionsOf(version[v].art)
    BY DEF HistoryInv, TypeOK, VersionRows, VersionsOf, Accepted, AcceptedStates
  <1>2. \A a \in Artifacts : artifact[a].st # "none" =>
          artifact[a].cur \in VersionsOf(a) /\ artifact[a].cur \in Versions
    BY DEF HistoryInv, CurrentIsAccepted, VersionsOf
  <1>3. Ascends
    BY ForwardAscends
  <1>4. ASSUME NEW a \in Artifacts, NEW x \in Versions, Adds(a, x, "mainline", None), Points(a, x)
        PROVE  Cur' /\ Base'
    <2>1. \A u \in VersionsOf(a) : version[u].num < version'[x].num
      BY <1>4, AddedIsHighest
    <2>2. Base'
      BY <1>0, <1>4 DEF Adds
    <2>3. ASSUME NEW y \in Artifacts, NEW v \in Versions, artifact'[y].st # "none", version'[v].art = y,
                 Accepted(v)'
          PROVE  version'[v].num <= version'[artifact'[y].cur].num
      <3>1. CASE y = a
        <4>1. artifact'[y].cur = x
          BY <1>4, <3>1 DEF Points
        <4>2. CASE v = x
          BY <1>1, <4>1, <4>2
        <4>3. CASE v # x
          <5>1. version'[v] = version[v]
            BY <1>4, <4>3 DEF Adds
          <5>2. v \in VersionsOf(a)
            BY <1>1, <2>3, <3>1, <5>1 DEF Accepted
          <5> QED
            BY <1>1, <2>1, <4>1, <5>1, <5>2
        <4> QED
          BY <4>2, <4>3
      <3>2. CASE y # a
        <4>1. artifact'[y] = artifact[y] /\ version'[v] = version[v]
          BY <1>4, <2>3, <3>2 DEF Points, Adds
        <4>2. artifact[y].cur # x /\ artifact[y].cur \in Versions
          BY <1>2, <1>4, <2>3, <4>1 DEF VersionsOf, Adds
        <4>3. version'[artifact'[y].cur] = version[artifact[y].cur]
          BY <1>4, <4>1, <4>2 DEF Adds
        <4> QED
          BY <1>0, <2>3, <4>1, <4>3 DEF Accepted
      <3> QED
        BY <3>1, <3>2
    <2> QED
      BY <2>2, <2>3
  <1>5. ASSUME NEW a \in Artifacts, NEW x \in Versions, Live(a), Adds(a, x, "candidate", artifact[a].cur),
               artifact' = artifact
        PROVE  Cur' /\ Base'
    <2>1. artifact[a].cur \in VersionsOf(a) /\ artifact[a].cur \in Versions
      BY <1>2, <1>5 DEF Live
    <2>2. version[artifact[a].cur].num < version'[x].num
      BY <1>5, <2>1, AddedIsHighest
    <2>3. \A y \in Versions : version[y].st # "none" => version'[y] = version[y]
      BY <1>5 DEF Adds
    <2>4. Base'
      <3>1. ASSUME NEW v \in Versions, version'[v].st = "candidate", v # x
            PROVE  /\ version'[v].base \in Versions /\ version'[version'[v].base].st # "none"
                   /\ version'[version'[v].base].num < version'[v].num
        BY <1>0, <1>5, <2>3, <3>1 DEF Adds
      <3>2. /\ version'[x].base \in Versions /\ version'[version'[x].base].st # "none"
            /\ version'[version'[x].base].num < version'[x].num
        BY <1>5, <2>1, <2>2, <2>3 DEF Adds, VersionsOf
      <3> QED
        BY <3>1, <3>2
    <2>5. Cur'
      <3>1. ASSUME NEW y \in Artifacts, NEW v \in Versions, artifact[y].st # "none", version'[v].art = y,
                   Accepted(v)'
            PROVE  version'[v].num <= version'[artifact[y].cur].num
        <4>1. v # x
          BY <1>5, <3>1 DEF Adds, Accepted, AcceptedStates
        <4>2. version'[v] = version[v] /\ version'[artifact[y].cur] = version[artifact[y].cur]
          BY <1>2, <1>5, <2>3, <3>1, <4>1 DEF Adds, VersionsOf
        <4> QED
          BY <1>0, <3>1, <4>2 DEF Accepted
      <3> QED
        BY <1>5, <3>1
    <2> QED
      BY <2>4, <2>5
  <1>6. ASSUME NEW x \in Versions, NEW st \in {"promoted"} \cup Closing, Moves(x, st)
        PROVE  Base' /\ \A v \in Versions : version'[v].num = version[v].num /\ version'[v].art = version[v].art
    <2>1. \A v \in Versions : /\ version'[v].num = version[v].num /\ version'[v].art = version[v].art
                              /\ version'[v].base = version[v].base
                              /\ version[v].st # "none" => version'[v].st # "none"
                              /\ version'[v].st = "candidate" => version[v].st = "candidate"
      BY <1>6 DEF Moves, Closing
    <2> QED
      BY <1>0, <2>1
  <1>7. ASSUME NEW a \in Artifacts, NEW x \in Versions, version[x].art = a,
               version[x].base = artifact[a].cur, Moves(x, "promoted"), Points(a, x)
        PROVE  Cur' /\ Base'
    <2>1. Base' /\ \A v \in Versions : version'[v].num = version[v].num /\ version'[v].art = version[v].art
      BY <1>6, <1>7
    <2>2. ASSUME NEW y \in Artifacts, NEW v \in Versions, artifact'[y].st # "none", version'[v].art = y,
                 Accepted(v)'
          PROVE  version'[v].num <= version'[artifact'[y].cur].num
      <3>1. CASE v = x
        BY <1>1, <1>7, <2>1, <2>2, <3>1 DEF Points
      <3>2. CASE v # x
        <4>1. Accepted(v)
          BY <1>7, <2>2, <3>2 DEF Moves, Accepted
        <4>2. CASE y = a
          <5>1. ~Accepted(x) /\ Accepted(x)' /\ version'[x].art = a
            BY <1>7 DEF Moves, Accepted, AcceptedStates
          <5>2. version[v].num < version'[x].num
            BY <1>3, <2>1, <2>2, <4>1, <4>2, <5>1 DEF Ascends
          <5> QED
            BY <1>1, <1>7, <2>1, <4>2, <5>2 DEF Points
        <4>3. CASE y # a
          BY <1>0, <1>2, <1>7, <2>1, <2>2, <4>1, <4>3 DEF Points
        <4> QED
          BY <4>2, <4>3
      <3> QED
        BY <3>1, <3>2
    <2> QED
      BY <2>1, <2>2
  <1>8. ASSUME NEW x \in Versions, NEW st \in Closing, Moves(x, st), artifact' = artifact
        PROVE  Cur' /\ Base'
    <2>1. Base' /\ \A v \in Versions : version'[v].num = version[v].num /\ version'[v].art = version[v].art
      BY <1>6, <1>8
    <2>2. \A v \in Versions : Accepted(v)' => Accepted(v)
      BY <1>8 DEF Moves, Accepted, AcceptedStates, Closing
    <2> QED
      BY <1>0, <1>2, <1>8, <2>1, <2>2
  <1>9. ASSUME version' = version, \A a \in Artifacts : artifact'[a].cur = artifact[a].cur,
               \A a \in Artifacts : artifact'[a].st # "none" => artifact[a].st # "none" \/ artifact'[a].st = "live"
        PROVE  Cur' /\ Base'
    <2>1. \A a \in Artifacts, v \in Versions : version[v].art = a /\ Accepted(v) => artifact[a].st # "none"
      BY DEF HistoryInv, RowsSound, Accepted, AcceptedStates
    <2> QED
      BY <1>0, <1>9, <2>1 DEF Accepted
  <1>10. ASSUME NEW a \in Artifacts, Retires(a), version' = version
         PROVE  Cur' /\ Base'
    BY <1>9, <1>10 DEF Retires
  <1>11. ASSUME Stays, version' = version
         PROVE  Cur' /\ Base'
    <2>1. \A a \in Artifacts : artifact'[a].st \in {"none", "live", "deleted"}
      BY DEF HistoryInv, TypeOK, ArtifactRows
    <2> QED
      BY <1>9, <1>11, <2>1 DEF Stays
  <1>12. Cur' /\ Base'
    BY <1>4, <1>5, <1>7, <1>8, <1>10, <1>11 DEF ForwardStep
  <1> QED
    BY <1>12 DEF OrderSound

\* Without restores in Ops, no command in flight restores.
LEMMA NextForward ==
  ASSUME HistoryInv, OrderSound, "restore" \notin Ops, [HistoryNext]_historyVars
  PROVE  ForwardStep /\ \A c \in calls' : c.op \in Ops
  <1>1. ASSUME NEW c \in Commands
        PROVE  c.op \in Ops
    BY DEF Commands, Command
  <1>2. ASSUME UNCHANGED rows
        PROVE  ForwardStep
    BY <1>2 DEF ForwardStep, Stays, rows
  <1>3. ASSUME NEW c, Write(c)
        PROVE  calls' \subseteq calls
    BY <1>3 DEF Write, CommitNewArtifact, CommitVersion, StageCandidate, PromoteCandidate, CloseCandidate,
       RestoreVersion, ChangeAccessSetting, RenameArtifact, ChangeTags, DeleteArtifact, Record
  <1>4. ASSUME NEW c, c \in calls \/ (~D1 /\ c \in Commands), Write(c)
        PROVE  ForwardStep
    BY <1>1, <1>4, WriteMoves DEF OrderSound
  <1>5. CASE UNCHANGED historyVars
    BY <1>2, <1>5 DEF historyVars, rows, OrderSound
  <1>6. ASSUME NEW c \in Commands, Ask(c) \/ (~D1 /\ Write(c))
        PROVE  ForwardStep /\ \A d \in calls' : d.op \in Ops
    BY <1>1, <1>2, <1>3, <1>4, <1>6 DEF Ask, OrderSound
  <1>7. ASSUME NEW c \in calls, ReadRows(c) \/ Write(c) \/ DropCall(c)
        PROVE  ForwardStep /\ \A d \in calls' : d.op \in Ops
    <2>1. CASE ReadRows(c)
      <3>1. c.op \in Ops /\ c \in CommandRows
        BY DEF OrderSound, HistoryInv, CallsSound, Formed
      <3>2. [c EXCEPT !.at = "read", !.num = NextNumber(c.art), !.from = artifact[c.art].public].op = c.op
        BY <3>1 DEF CommandRows
      <3> QED
        BY <1>2, <2>1, <3>1, <3>2 DEF ReadRows, OrderSound
    <2>2. CASE Write(c) \/ DropCall(c)
      BY <1>2, <1>3, <1>4, <2>2 DEF DropCall, OrderSound
    <2> QED
      BY <1>7, <2>1, <2>2
  <1>8. CASE SetProjectArchive \/ StoreGitHistorySetting
    BY <1>2, <1>8 DEF SetProjectArchive, StoreGitHistorySetting, OrderSound
  <1> QED
    BY <1>5, <1>6, <1>7, <1>8 DEF HistoryNext

\* Nothing has a number at first.
LEMMA InitOrder == HistoryInit => OrderSound
  BY DEF HistoryInit, OrderSound, NoVersion, NoArtifact

\* Theorem: without restores accepted numbers only increase, on every store, as the
\* specification of the mirror concludes from the base check of promotions.  Restores are all
\* that is missing there (VersionHistory_numbers shows that they break it): candidates that are
\* promoted late, publishers that race and D1's stale reads do not.
THEOREM NumbersIncrease ==
  ASSUME "restore" \notin Ops
  PROVE  Spec => AcceptedNumbersIncrease
  <1> DEFINE Inv == HistoryInv /\ OrderSound
  <1>1. HistoryInit => Inv
    BY InitInv, InitOrder
  <1>2. Inv /\ [HistoryNext]_historyVars => Inv' /\ Ascends
    <2> SUFFICES ASSUME HistoryInv, OrderSound, [HistoryNext]_historyVars
                 PROVE  HistoryInv' /\ OrderSound' /\ Ascends
      OBVIOUS
    <2>1. HistoryInv'
      BY NextInv
    <2>2. ForwardStep /\ \A c \in calls' : c.op \in Ops
      BY NextForward
    <2> QED
      BY <2>1, <2>2, ForwardOrders, ForwardAscends
  <1>3. AcceptedNumbersIncrease <=> [][Ascends]_historyVars
    <2>1. Ascends <=> \A v, w \in Versions :
                        /\ ~Accepted(v) /\ Accepted(v)'
                        /\ Accepted(w) /\ version[w].art = version'[v].art
                        => version[w].num < version'[v].num
      BY DEF Ascends
    <2> QED
      BY <2>1, PTL DEF AcceptedNumbersIncrease
  <1> HIDE DEF Inv
  <1> QED
    BY <1>1, <1>2, <1>3, PTL DEF Spec

-----------------------------------------------------------------------------
(* The branch, without restores and without purges                         *)

\* AcceptedBelow and Predecessor, of given rows.
Below(v, ver) ==
    {u \in {x \in Versions : ver[x].st # "none" /\ ver[x].art = ver[v].art} :
       ver[u].st \in AcceptedStates /\ ver[u].num < ver[v].num}

Pred(v, ver) == CHOOSE u \in Below(v, ver) : \A x \in Below(v, ver) : ver[x].num <= ver[u].num

\* A commit on the commit that is recorded for the previous accepted version.
OnParent(s, v, ver, map) ==
    /\ s = Append(IF Below(v, ver) = {} THEN <<>> ELSE map[Pred(v, ver)].commit, v)
    /\ Below(v, ver) # {} => map[Pred(v, ver)].st # "none"

\* Only the deletion of an artifact removes its repository, and until then every tag is
\* a commit of the branch.
RemoteSound(a) ==
    /\ repo[a] = "provisioned" => ~Deleted(a) /\ remote[a].exists
    /\ ~Deleted(a) =>
         /\ repo[a] \in {"none", "provisioned"} /\ job[a].st = "none"
         /\ \A v \in Versions : IsPrefixOf(remote[a].tags[v], remote[a].main)
         /\ ~remote[a].exists => remote[a].main = <<>> /\ \A v \in Versions : remote[a].tags[v] = <<>>

\* A recorded commit is on its parent, and under its tag until the artifact is deleted.
MappingSound(v) ==
    /\ mapping[v].st # "none" => OnParent(mapping[v].commit, v, version, mapping)
    /\ Mapped(v) /\ ~Deleted(version[v].art) =>
         remote[version[v].art].exists /\ remote[version[v].art].tags[v] = mapping[v].commit

\* The steps of a worker that has seen its commit on the branch.
OnBranch == {"pushed", "repair", "tag", "retag", "tagged", "retagged", "complete"}

\* What a worker builds is on its parent; what it has pushed is on the branch until the
\* artifact is deleted, and only then does it remove the repository.
WorkSound(w) ==
    /\ worker[w].at \in Building => OnParent(worker[w].commit, worker[w].job, version, mapping)
    /\ worker[w].at \in Building \ {"complete"} =>
         worker[w].commit = Append(worker[w].parent, worker[w].job)
    /\ worker[w].at # "idle" /\ ~Deleted(ArtifactOf(worker[w].job)) =>
         /\ worker[w].job \in Versions /\ worker[w].at \notin {"remove", "removed"}
         /\ worker[w].at \in OnBranch \cup {"record"} => Remote(w).exists
         /\ worker[w].at \in OnBranch => IsPrefixOf(worker[w].commit, Remote(w).main)
         /\ worker[w].at = "complete" => TagOf(w) = worker[w].commit

BranchInv ==
    /\ OwnerInv /\ OrderSound /\ purging = None
    /\ \A a \in Artifacts : RemoteSound(a)
    /\ \A v \in Versions : MappingSound(v)
    /\ \A w \in Workers : WorkSound(w)

\* The operators of the model are those of its rows.
LEMMA BelowIs ==
  ASSUME NEW v
  PROVE  AcceptedBelow(v) = Below(v, version) /\ Predecessor(v) = Pred(v, version)
  <1>1. AcceptedBelow(v) = Below(v, version)
    BY DEF AcceptedBelow, Below, VersionsOf, Accepted
  <1> QED
    BY <1>1 DEF Predecessor, Pred

\* Facts on prefixes.
LEMMA Prefixes ==
  ASSUME NEW s \in Seq(Versions), NEW t \in Seq(Versions)
  PROVE  /\ IsPrefixOf(s, s) /\ IsPrefixOf(<<>>, s)
         /\ \A u \in Seq(Versions) : IsPrefixOf(s, t) /\ IsPrefixOf(t, u) => IsPrefixOf(s, u)
         /\ \A v \in Versions : IsPrefixOf(s, Append(s, v))
  <1>1. Len(s) \in Nat /\ Len(t) \in Nat /\ \A u \in Seq(Versions) : Len(u) \in Nat
    BY LenProperties
  <1>2. IsPrefixOf(s, s) /\ IsPrefixOf(<<>>, s)
    BY <1>1, EmptySeq DEF IsPrefixOf
  <1>3. ASSUME NEW u \in Seq(Versions), IsPrefixOf(s, t), IsPrefixOf(t, u)
        PROVE  IsPrefixOf(s, u)
    BY <1>1, <1>3 DEF IsPrefixOf
  <1>4. ASSUME NEW v \in Versions
        PROVE  IsPrefixOf(s, Append(s, v))
    BY <1>1, AppendProperties DEF IsPrefixOf
  <1> QED
    BY <1>2, <1>3, <1>4

\* What every step leaves: the accepted versions below an accepted one, the recorded
\* commits, and the repositories of the artifacts that are not deleted.
Frame ==
    /\ Remembers
    /\ \A v \in Versions : Accepted(v) => Below(v, version') = Below(v, version)
    /\ \A v \in Versions : mapping[v].st # "none" =>
          /\ mapping'[v].st # "none" /\ mapping'[v].commit = mapping[v].commit
          /\ mapping'[v].st = "recorded" => mapping[v].st = "recorded"
    /\ \A a \in Artifacts : (Deleted(a) => Deleted(a)') /\ (~Deleted(a)' => RemoteGrows(a))

\* The commit that a version is to be built on stays.
LEMMA ParentKept ==
  ASSUME OwnerInv, Frame, NEW v \in Versions, Accepted(v), NEW s, OnParent(s, v, version, mapping)
  PROVE  OnParent(s, v, version', mapping')
  <1> DEFINE B == Below(v, version)
  <1>1. Below(v, version') = B
    BY DEF Frame
  <1>2. \A x \in B : x \in Versions /\ version'[x].num = version[x].num
    BY DEF Below, Frame, Remembers
  <1>3. Pred(v, version') = Pred(v, version)
    <2>1. \A u : (u \in B /\ \A x \in B : version[x].num <= version[u].num)
              <=> (u \in B /\ \A x \in B : version'[x].num <= version'[u].num)
      BY <1>2
    <2>2. Pred(v, version) = CHOOSE u \in B : \A x \in B : version[x].num <= version[u].num
      BY DEF Pred
    <2>3. Pred(v, version') = CHOOSE u \in B : \A x \in B : version'[x].num <= version'[u].num
      BY <1>1 DEF Pred
    <2> HIDE DEF B
    <2> QED
      BY <2>1, <2>2, <2>3
  <1>4. B # {} => Pred(v, version) \in Versions
    BY <1>2, BelowIs, PredecessorIs DEF OwnerInv
  <1>5. B # {} => /\ mapping'[Pred(v, version)].st # "none"
                  /\ mapping'[Pred(v, version)].commit = mapping[Pred(v, version)].commit
    BY <1>4 DEF Frame, OnParent
  <1> QED
    BY <1>1, <1>3, <1>5 DEF OnParent

\* A recorded commit stays recorded, and under its tag.
LEMMA MappingKept ==
  ASSUME BranchInv, OwnerInv', Frame, NEW v \in Versions, mapping'[v].st # "none" => mapping[v].st # "none"
  PROVE  MappingSound(v)'
  <1> SUFFICES ASSUME mapping'[v].st # "none"
               PROVE  MappingSound(v)'
    BY DEF MappingSound, Mapped
  <1>1. /\ mapping[v].st # "none" /\ mapping'[v].commit = mapping[v].commit
        /\ mapping'[v].st = "recorded" => mapping[v].st = "recorded"
    BY DEF Frame
  <1>2. /\ OwnerInv /\ MappingSound(v) /\ Accepted(v) /\ CommitFor(mapping[v].commit, v, version)
        /\ mapping[v].commit \in Seq(Versions)
    BY <1>1, MirrorTypes DEF BranchInv, OwnerInv, ChainsSound, MappingRows
  <1>3. OnParent(mapping'[v].commit, v, version', mapping')
    BY <1>1, <1>2, ParentKept DEF MappingSound
  <1>4. version'[v].art = version[v].art /\ version[v].art \in Artifacts
    BY <1>2 DEF Frame, Remembers, Grows, Accepted, AcceptedStates, OwnerInv, HistoryInv, RowsSound
  <1>5. mapping[v].commit # <<>>
    BY <1>2, EmptySeq DEF CommitFor, AtTip
  <1>6. ASSUME mapping'[v].st = "recorded", ~Deleted(version[v].art)'
        PROVE  remote'[version[v].art].exists /\ remote'[version[v].art].tags[v] = mapping[v].commit
    <2> PICK a \in Artifacts : a = version[v].art
      BY <1>4
    <2>1. ~Deleted(a)'
      BY <1>4, <1>6 DEF Deleted
    <2>2. ~Deleted(a) /\ RemoteGrows(a)
      BY <2>1 DEF Frame
    <2>3. remote[a].exists /\ remote[a].tags[v] = mapping[v].commit
      BY <1>1, <1>2, <1>6, <2>2 DEF MappingSound, Mapped
    <2> QED
      BY <1>5, <2>2, <2>3 DEF RemoteGrows
  <1> QED
    BY <1>1, <1>3, <1>4, <1>6 DEF MappingSound, Mapped, Deleted

\* A worker that goes on keeps what it stands on; what its new step stands on is to be
\* shown.
LEMMA WorkKept ==
  ASSUME BranchInv, OwnerInv', Frame, NEW w \in Workers, Follows(w),
         NEW a \in Artifacts, worker[w].at # "idle" => a = ArtifactOf(worker[w].job),
         ~Deleted(a)' /\ worker'[w].at # "idle" =>
           /\ worker'[w].at \notin {"remove", "removed"}
           /\ worker'[w].at \in OnBranch \cup {"record"} =>
                worker[w].at \in OnBranch \cup {"record"} \/ remote'[a].exists
           /\ worker'[w].at \in OnBranch =>
                worker[w].at \in OnBranch \/ IsPrefixOf(worker[w].commit, remote'[a].main)
           /\ worker'[w].at = "complete" =>
                worker[w].at = "complete" \/ remote'[a].tags[worker[w].job] = worker[w].commit
  PROVE  WorkSound(w)'
  <1>1. CASE worker'[w].at = "idle"
    BY <1>1 DEF WorkSound, Building
  <1>2. CASE worker'[w].at # "idle"
    <2> PICK j, s : j = worker[w].job /\ s = worker[w].commit
      OBVIOUS
    <2>1. /\ worker[w].at # "idle" /\ worker'[w].job = j /\ worker'[w].commit = s
          /\ worker'[w].parent = worker[w].parent
          /\ worker'[w].at \in Building => worker[w].at \in Building
          /\ worker'[w].at \in Building \ {"complete"} => worker[w].at \in Building \ {"complete"}
      BY <1>2 DEF Follows
    <2>2. OwnerInv /\ WorkSound(w) /\ WorkerSound(w)
      BY DEF BranchInv, OwnerInv, WorkersSound
    <2>3. s \in Seq(Versions) /\ j \in Jobs /\ (j \in Versions => Accepted(j))
      BY <2>1, <2>2, MirrorTypes DEF OwnerInv, WorkerRows, WorkerSound
    <2>4. worker'[w].at \in Building =>
            j \in Versions /\ CommitFor(s, j, version) /\ OnParent(s, j, version', mapping')
      BY <2>1, <2>2, <2>3, ParentKept DEF WorkSound, WorkerSound
    <2>5. ArtifactOf(j) = a /\ ArtifactOf(j)' = a
      BY <2>1, <2>3 DEF ArtifactOf, Frame, Remembers, Grows, Accepted, AcceptedStates, Jobs
    <2>6. ASSUME ~Deleted(a)'
          PROVE  /\ j \in Versions /\ worker'[w].at \notin {"remove", "removed"}
                 /\ worker'[w].at \in OnBranch \cup {"record"} => remote'[a].exists
                 /\ worker'[w].at \in OnBranch => IsPrefixOf(s, remote'[a].main)
                 /\ worker'[w].at = "complete" => remote'[a].tags[j] = s
      <3>1. ~Deleted(a) /\ RemoteGrows(a)
        BY <2>6 DEF Frame
      <3>2. /\ j \in Versions /\ worker[w].at \notin {"remove", "removed"}
            /\ worker[w].at \in OnBranch \cup {"record"} => remote[a].exists
            /\ worker[w].at \in OnBranch => IsPrefixOf(s, remote[a].main)
            /\ worker[w].at = "complete" => remote[a].tags[j] = s
        BY <2>1, <2>2, <2>5, <3>1 DEF WorkSound, Remote, TagOf
      <3>3. remote[a].main \in Seq(Versions) /\ remote'[a].main \in Seq(Versions)
        BY <2>2 DEF OwnerInv, MirrorTypeOK
      <3>4. IsPrefixOf(s, remote[a].main) => IsPrefixOf(s, remote'[a].main)
        BY <2>3, <3>1, <3>3, Prefixes DEF RemoteGrows
      <3>5. worker'[w].at = "complete" => s # <<>>
        <4>1. worker'[w].at = "complete" => CommitFor(s, j, version)
          BY <2>4 DEF Building, Steps
        <4> QED
          BY <4>1, EmptySeq DEF CommitFor, AtTip
      <3>6. worker'[w].at = "complete" => remote'[a].tags[j] = s
        BY <1>2, <2>6, <3>1, <3>2, <3>5 DEF RemoteGrows
      <3> QED
        BY <1>2, <2>6, <3>1, <3>2, <3>4, <3>6 DEF RemoteGrows
    <2>7. worker'[w].at \in Building \ {"complete"} => s = Append(worker'[w].parent, j)
      BY <2>1, <2>2 DEF WorkSound
    <2> QED
      BY <2>1, <2>4, <2>5, <2>6, <2>7 DEF WorkSound, Remote, TagOf, Deleted
  <1> QED
    BY <1>1, <1>2

\* A worker that stays keeps what it stands on.
LEMMA WorkSame ==
  ASSUME BranchInv, OwnerInv', Frame, NEW w \in Workers, worker'[w] = worker[w]
  PROVE  WorkSound(w)'
  <1>1. CASE worker[w].at = "idle"
    BY <1>1 DEF WorkSound, Building
  <1>2. CASE worker[w].at # "idle"
    <2>1. PICK a \in Artifacts : a = ArtifactOf(worker[w].job)
      BY <1>2, WorkerTypes DEF BranchInv
    <2>2. Follows(w)
      BY <1>2 DEF Follows
    <2>3. ~Deleted(a)' => worker[w].at \notin {"remove", "removed"}
      BY <1>2, <2>1 DEF BranchInv, WorkSound, Frame
    <2> QED
      BY <2>1, <2>2, <2>3, WorkKept
  <1> QED
    BY <1>1, <1>2

\* The history moves forward under the mirror.
LEMMA HistoryFrame ==
  ASSUME BranchInv, "restore" \notin Ops, [HistoryNext]_historyVars, UNCHANGED mirrorVars
  PROVE  Frame /\ OwnerInv' /\ OrderSound' /\ KeepsRepos
  <1>1. OwnerInv /\ HistoryInv /\ OrderSound
    BY DEF BranchInv, OwnerInv
  <1>2. OwnerInv' /\ HistoryInv' /\ Remembers
    BY <1>1, HistoryKeepsOwners DEF OwnerInv
  <1>3. ForwardStep /\ OrderSound' /\ Ascends
    BY <1>1, <1>2, NextForward, ForwardOrders, ForwardAscends
  <1>4. JobsSettle /\ KeepsRepos
    BY <1>1, HistoryJobs
  <1>5. UNCHANGED <<mapping, reservation, remote, worker, purging>>
    BY DEF mirrorVars
  <1>6. ASSUME NEW v \in Versions, Accepted(v)
        PROVE  Below(v, version') = Below(v, version)
    <2>1. version'[v].art = version[v].art /\ version'[v].num = version[v].num
      BY <1>2, <1>6 DEF Remembers, Grows, Accepted, AcceptedStates
    <2>2. ASSUME NEW u \in Versions
          PROVE  u \in Below(v, version) => u \in Below(v, version')
      BY <1>2, <2>1 DEF Below, Remembers, Grows, Accepted, AcceptedStates
    <2>3. ASSUME NEW u \in Versions, u \in Below(v, version')
          PROVE  u \in Below(v, version)
      <3>1. Accepted(u)' /\ version'[u].art = version[v].art /\ version'[u].num < version[v].num
        BY <2>1, <2>3 DEF Below, Accepted
      <3>2. version'[u].num \in Nat /\ version[v].num \in Nat
        BY <1>1, <1>2 DEF HistoryInv, TypeOK, VersionRows
      <3>3. Accepted(u)
        BY <1>3, <1>6, <3>1, <3>2 DEF Ascends
      <3>4. version'[u].art = version[u].art /\ version'[u].num = version[u].num /\ version[u].st # "none"
        BY <1>2, <3>3 DEF Remembers, Grows, Accepted, AcceptedStates
      <3> QED
        BY <3>1, <3>3, <3>4 DEF Below, Accepted
    <2>4. Below(v, version) \subseteq Versions /\ Below(v, version') \subseteq Versions
      BY DEF Below
    <2> QED
      BY <2>2, <2>3, <2>4
  <1>7. ASSUME NEW a \in Artifacts
        PROVE  RemoteGrows(a)
    <2>1. remote[a].main \in Seq(Versions)
      BY <1>1 DEF OwnerInv, MirrorTypeOK
    <2> QED
      BY <1>5, <2>1, Prefixes DEF RemoteGrows
  <1>8. Frame
    BY <1>2, <1>4, <1>5, <1>6, <1>7 DEF Frame, KeepsRepos
  <1> QED
    BY <1>2, <1>3, <1>4, <1>8

LEMMA HistoryKeepsBranch ==
  ASSUME BranchInv, "restore" \notin Ops, [HistoryNext]_historyVars, UNCHANGED mirrorVars
  PROVE  BranchInv'
  <1>1. Frame /\ OwnerInv' /\ OrderSound' /\ KeepsRepos
    BY HistoryFrame
  <1>2. UNCHANGED <<mapping, reservation, remote, worker, purging>>
    BY DEF mirrorVars
  <1>3. ASSUME NEW a \in Artifacts
        PROVE  RemoteSound(a)'
    BY <1>1, <1>2 DEF BranchInv, RemoteSound, KeepsRepos
  <1>4. \A v \in Versions : MappingSound(v)'
    BY <1>1, <1>2, MappingKept
  <1>5. \A w \in Workers : WorkSound(w)'
    BY <1>1, <1>2, WorkSame
  <1> QED
    BY <1>1, <1>2, <1>3, <1>4, <1>5 DEF BranchInv

\* The steps of the mirror leave the history alone.
LEMMA AsideFrame ==
  ASSUME BranchInv, UNCHANGED <<artifact, version>>,
         \A v \in Versions : mapping[v].st # "none" =>
            /\ mapping'[v].st # "none" /\ mapping'[v].commit = mapping[v].commit
            /\ mapping'[v].st = "recorded" => mapping[v].st = "recorded",
         \A a \in Artifacts : ~Deleted(a) => RemoteGrows(a)
  PROVE  Frame
  BY DEF Frame, Remembers, Grows, Accepted, Deleted

\* A repository that stays grows.
LEMMA SameGrows ==
  ASSUME OwnerInv, NEW a \in Artifacts, remote'[a] = remote[a]
  PROVE  RemoteGrows(a)
  <1>1. remote[a].main \in Seq(Versions)
    BY DEF OwnerInv, MirrorTypeOK
  <1> QED
    BY <1>1, Prefixes DEF RemoteGrows

\* The order does not look at the mirror.
LEMMA OrderAside ==
  ASSUME OrderSound, UNCHANGED <<artifact, version, calls>>
  PROVE  OrderSound'
  BY DEF OrderSound, Accepted

\* A quiet turn of a worker.
LEMMA QuietBranch ==
  ASSUME BranchInv, Quiet, NEW w \in Workers, NEW at, Turns(w, at),
         NEW a \in Artifacts, a = ArtifactOf(worker[w].job), worker[w].at # "idle",
         ~Deleted(a) /\ at # "idle" =>
           /\ at \notin {"remove", "removed"}
           /\ at \in OnBranch \cup {"record"} => worker[w].at \in OnBranch \cup {"record"} \/ remote[a].exists
           /\ at \in OnBranch => worker[w].at \in OnBranch \/ IsPrefixOf(worker[w].commit, remote[a].main)
           /\ at = "complete" => worker[w].at = "complete" \/ remote[a].tags[worker[w].job] = worker[w].commit
  PROVE  BranchInv'
  <1>1. /\ OwnerInv /\ OwnerInv' /\ JobsSettle
        /\ UNCHANGED <<artifact, version, calls, repo, mapping, remote, purging>>
    BY QuietOwners DEF BranchInv, Quiet, Aside, rows
  <1>2. Frame
    BY <1>1, AsideFrame, SameGrows
  <1>3. \A v \in Versions : MappingSound(v)'
    BY <1>1, <1>2, MappingKept
  <1>4. ASSUME NEW b \in Artifacts
        PROVE  RemoteSound(b)'
    <2>1. RemoteSound(b) /\ b \in Jobs /\ b \notin Versions
      BY HistoryNames DEF BranchInv, Jobs, HistoryNames
    <2>2. ~Deleted(b) => job'[b].st = "none"
      BY <1>1, <2>1 DEF RemoteSound, JobsSettle, Deleted
    <2> QED
      BY <1>1, <2>1, <2>2 DEF RemoteSound, Deleted
  <1>5. Follows(w) /\ worker'[w].at = at /\ \A x \in Workers : x # w => worker'[x] = worker[x]
    BY DEF Turns
  <1>6. WorkSound(w)'
    BY <1>1, <1>2, <1>5, WorkKept DEF Deleted
  <1>7. \A x \in Workers : WorkSound(x)'
    BY <1>1, <1>2, <1>5, <1>6, WorkSame
  <1> QED
    BY <1>1, <1>3, <1>4, <1>7, OrderAside DEF BranchInv

\* A quiet step that moves no worker.
LEMMA IdleBranch ==
  ASSUME BranchInv, Quiet, worker' = worker
  PROVE  BranchInv'
  <1>1. /\ OwnerInv /\ OwnerInv' /\ JobsSettle
        /\ UNCHANGED <<artifact, version, calls, repo, mapping, remote, purging>>
    BY QuietOwners DEF BranchInv, Quiet, Aside, rows
  <1>2. Frame
    BY <1>1, AsideFrame, SameGrows
  <1>3. \A v \in Versions : MappingSound(v)'
    BY <1>1, <1>2, MappingKept
  <1>4. ASSUME NEW b \in Artifacts
        PROVE  RemoteSound(b)'
    <2>1. RemoteSound(b) /\ b \in Jobs /\ b \notin Versions
      BY HistoryNames DEF BranchInv, Jobs, HistoryNames
    <2>2. ~Deleted(b) => job'[b].st = "none"
      BY <1>1, <2>1 DEF RemoteSound, JobsSettle, Deleted
    <2> QED
      BY <1>1, <2>1, <2>2 DEF RemoteSound, Deleted
  <1>5. \A x \in Workers : WorkSound(x)'
    BY <1>1, <1>2, WorkSame
  <1> QED
    BY <1>1, <1>3, <1>4, <1>5, OrderAside DEF BranchInv

\* A worker that has found what to mirror.
LEMMA FindsBranch ==
  ASSUME BranchInv, OwnerInv', NEW w \in Workers, NEW at \in {"complete", "reserve"}, NEW p, NEW s,
         Finds(w, at, p, s), OnParent(s, worker[w].job, version, mapping),
         at = "reserve" => s = Append(p, worker[w].job),
         at = "complete" /\ ~Deleted(version[worker[w].job].art) =>
           LET r == remote[version[worker[w].job].art] IN
           r.exists /\ IsPrefixOf(s, r.main) /\ r.tags[worker[w].job] = s
  PROVE  BranchInv'
  <1>1. UNCHANGED <<artifact, version, calls, job, repo, mapping, reservation, remote, purging>>
    BY DEF Finds, historyVars, mirrorRows
  <1>2. OwnerInv /\ Frame
    BY <1>1, AsideFrame, SameGrows DEF BranchInv
  <1>3. \A v \in Versions : MappingSound(v)'
    BY <1>1, <1>2, MappingKept
  <1>4. \A b \in Artifacts : RemoteSound(b)'
    BY <1>1 DEF BranchInv, RemoteSound, Deleted
  <1>5. WorkSound(w)'
    <2>1. /\ worker'[w].at = at /\ worker'[w].job = worker[w].job /\ worker'[w].parent = p
          /\ worker'[w].commit = s /\ worker[w].job \in Versions
      BY DEF Finds
    <2>2. ArtifactOf(worker[w].job) = version[worker[w].job].art
      BY <2>1, HistoryNames DEF ArtifactOf, HistoryNames
    <2>3. ArtifactOf(worker[w].job)' = ArtifactOf(worker[w].job)
      BY <1>1, <2>1 DEF ArtifactOf
    <2> QED
      BY <1>1, <2>1, <2>2, <2>3 DEF WorkSound, Remote, TagOf, Deleted, OnBranch, ArtifactOf
  <1>6. \A x \in Workers : WorkSound(x)'
    BY <1>1, <1>2, <1>5, WorkSame DEF Finds
  <1> QED
    BY <1>1, <1>3, <1>4, <1>6, OrderAside DEF BranchInv

\* Finding the version.
LEMMA FindVersionBranch ==
  ASSUME BranchInv, NEW w \in Workers, FindVersion(w)
  PROVE  BranchInv'
  <1>1. OwnerInv /\ OwnerInv' /\ worker[w].at = "claimed" /\ WorkSound(w) /\ WorkerSound(w)
    BY WorkOwners DEF BranchInv, FindVersion, Act, Work, OwnerInv, WorkersSound
  <1>2. PICK a \in Artifacts : a = ArtifactOf(worker[w].job)
    BY <1>1, WorkerTypes
  <1>3. CASE Quiet /\ Turns(w, "idle")
    BY <1>1, <1>2, <1>3, QuietBranch
  <1>4. CASE Quiet /\ worker[w].job \in Artifacts /\ (Turns(w, "remove") \/ Turns(w, "removed"))
    <2>1. Deleted(a)
      BY <1>1, <1>2, <1>4, HistoryNames DEF WorkSound, HistoryNames
    <2> QED
      BY <1>1, <1>2, <1>4, <2>1, QuietBranch
  <1>5. CASE /\ Mapped(worker[w].job)
             /\ Finds(w, "complete", worker[w].parent, mapping[worker[w].job].commit)
    <2> PICK v, p, s : v \in Versions /\ v = worker[w].job /\ p = worker[w].parent /\ s = mapping[v].commit
      BY <1>5 DEF Finds
    <2>1. MappingSound(v) /\ mapping[v].st = "recorded" /\ Accepted(v)
      BY <1>1, <1>5 DEF BranchInv, Mapped, WorkerSound
    <2>2. OnParent(s, v, version, mapping)
      BY <2>1 DEF MappingSound
    <2>3. ASSUME ~Deleted(version[v].art)
          PROVE  /\ remote[version[v].art].exists /\ remote[version[v].art].tags[v] = s
                 /\ IsPrefixOf(s, remote[version[v].art].main)
      <3>1. remote[version[v].art].exists /\ remote[version[v].art].tags[v] = s
        BY <2>1, <2>3 DEF MappingSound, Mapped
      <3>2. version[v].art \in Artifacts
        BY <1>1, <2>1 DEF OwnerInv, HistoryInv, RowsSound, Accepted, AcceptedStates
      <3>3. IsPrefixOf(remote[version[v].art].tags[v], remote[version[v].art].main)
        BY <2>3, <3>2 DEF BranchInv, RemoteSound
      <3> QED
        BY <3>1, <3>3
    <2>4. Finds(w, "complete", p, s)
      BY <1>5
    <2> QED
      BY <1>1, <2>2, <2>3, <2>4, FindsBranch
  <1>6. ASSUME NEW p \in Seq(Versions),
               p = IF AcceptedBelow(worker[w].job) = {} THEN <<>>
                   ELSE mapping[Predecessor(worker[w].job)].commit,
               AcceptedBelow(worker[w].job) # {} => Mapped(Predecessor(worker[w].job)),
               Finds(w, "reserve", p, Append(p, worker[w].job))
        PROVE  BranchInv'
    <2> PICK v, s : v = worker[w].job /\ s = Append(p, v)
      OBVIOUS
    <2>1. AcceptedBelow(v) = Below(v, version) /\ Predecessor(v) = Pred(v, version)
      BY BelowIs
    <2>2. OnParent(s, v, version, mapping)
      BY <1>6, <2>1 DEF OnParent, Mapped
    <2>3. Finds(w, "reserve", p, s)
      BY <1>6
    <2> QED
      BY <1>1, <2>2, <2>3, FindsBranch
  <1> QED
    BY <1>1, <1>3, <1>4, <1>5, <1>6, FindVersionDoes

\* The steps that only turn.
LEMMA QuietWorkBranch ==
  ASSUME BranchInv, NEW w \in Workers,
         \/ ReserveBudget(w) \/ FindRepository(w) \/ LookupCommit(w) \/ BuildCommit(w)
         \/ AssertOwner(w) \/ ConfirmRefs(w) \/ LoseLease(w) \/ Fail(w) \/ Abandon(w)
  PROVE  BranchInv'
  <1>1. OwnerInv /\ WorkSound(w)
    BY DEF BranchInv
  <1>2. worker[w].at # "idle"
    BY DEF ReserveBudget, FindRepository, LookupCommit, BuildCommit, AssertOwner, ConfirmRefs, LoseLease,
       Fail, Abandon, Act, Fenced
  <1>3. PICK a \in Artifacts : a = ArtifactOf(worker[w].job)
    BY <1>1, <1>2, WorkerTypes
  <1>4. RemoteSound(a) /\ WorkSound(w) /\ remote[a] = Remote(w)
    BY <1>3 DEF BranchInv, Remote
  <1>5. ASSUME NEW at \in {"idle", "find", "create", "lookup", "commit", "push"}, Quiet, Turns(w, at)
        PROVE  BranchInv'
    BY <1>2, <1>3, <1>5, QuietBranch DEF OnBranch
  <1>6. CASE ReserveBudget(w)
    BY <1>1, <1>5, <1>6, ReserveBudgetDoes
  <1>7. CASE FindRepository(w)
    <2>1. CASE Quiet /\ Turns(w, "remove") /\ repo[a] \in {"deleting", "deleted"}
      <3>1. Deleted(a)
        BY <1>4, <2>1 DEF RemoteSound
      <3> QED
        BY <1>2, <1>3, <2>1, <3>1, QuietBranch
    <2> QED
      BY <1>1, <1>3, <1>5, <1>7, <2>1, FindRepositoryDoes
  <1>8. CASE LookupCommit(w)
    <2>1. worker[w].at = "lookup" /\ worker[w].job \in Versions /\ worker[w].commit \in Seq(Versions) /\ Quiet
      BY <1>1, <1>8, LookupCommitDoes, WorkerTypes DEF Building, Steps, WorkerRows
    <2>2. CASE Turns(w, "complete") /\ Remote(w).exists /\ TagOf(w) = worker[w].commit
      <3>1. remote[a].tags[worker[w].job] = worker[w].commit /\ remote[a].exists
        BY <1>4, <2>2 DEF TagOf
      <3>2. ~Deleted(a) => IsPrefixOf(worker[w].commit, remote[a].main)
        BY <1>4, <2>1, <3>1 DEF RemoteSound
      <3> QED
        BY <1>2, <1>3, <2>1, <2>2, <3>1, <3>2, QuietBranch
    <2>3. CASE Turns(w, "repair") /\ Remote(w).exists /\ Remote(w).main = worker[w].commit
      <3>1. IsPrefixOf(worker[w].commit, remote[a].main)
        BY <1>4, <2>1, <2>3, Prefixes
      <3> QED
        BY <1>2, <1>3, <1>4, <2>1, <2>3, <3>1, QuietBranch
    <2> QED
      BY <1>1, <1>5, <1>8, <2>1, <2>2, <2>3, LookupCommitDoes
  <1>9. CASE BuildCommit(w) \/ AssertOwner(w) \/ ConfirmRefs(w) \/ LoseLease(w) \/ Fail(w) \/ Abandon(w)
    <2>1. ASSUME NEW at \in {"tag", "retag"}, Quiet, Turns(w, at), worker[w].at \in {"pushed", "repair"}
          PROVE  BranchInv'
      BY <1>2, <1>3, <2>1, QuietBranch DEF OnBranch
    <2>2. CASE /\ Quiet /\ worker[w].at \in {"tagged", "retagged"} /\ Turns(w, "complete")
               /\ TagOf(w) = worker[w].commit
      <3>1. remote[a].tags[worker[w].job] = worker[w].commit
        BY <1>4, <2>2 DEF TagOf
      <3> QED
        BY <1>2, <1>3, <2>2, <3>1, QuietBranch DEF OnBranch
    <2> QED
      BY <1>1, <1>5, <1>9, <2>1, <2>2, TurnsOnly
  <1> QED
    BY <1>6, <1>7, <1>8, <1>9

\* A step of a worker at the provider.
LEMMA ProviderBranch ==
  ASSUME BranchInv, OwnerInv', NEW w \in Workers, NEW at, Turns(w, at), worker[w].at # "idle",
         NEW a \in Artifacts, a = ArtifactOf(worker[w].job), NEW r, AtProvider(a, r), purging' = purging,
         ~Deleted(a) =>
           /\ r.exists /\ IsPrefixOf(remote[a].main, r.main)
           /\ \A v \in Versions : remote[a].tags[v] # <<>> => r.tags[v] = remote[a].tags[v]
           /\ \A v \in Versions : IsPrefixOf(r.tags[v], r.main)
           /\ at # "idle" =>
                /\ at \notin {"remove", "removed"} /\ at # "complete"
                /\ at \in OnBranch => IsPrefixOf(worker[w].commit, r.main)
  PROVE  BranchInv'
  <1>1. OwnerInv /\ UNCHANGED <<artifact, version, calls, job, repo, mapping, reservation, purging>>
    BY DEF BranchInv, AtProvider, historyVars, mirrorRows
  <1>2. remote'[a] = r /\ \A b \in Artifacts : b # a => remote'[b] = remote[b]
    BY <1>1 DEF AtProvider, OwnerInv, MirrorTypeOK
  <1>3. ASSUME NEW b \in Artifacts, ~Deleted(b)
        PROVE  RemoteGrows(b)
    <2>1. CASE b = a
      BY <1>2, <1>3, <2>1 DEF RemoteGrows
    <2>2. CASE b # a
      BY <1>1, <1>2, <2>2, SameGrows
    <2> QED
      BY <2>1, <2>2
  <1>4. Frame
    BY <1>1, <1>3, AsideFrame
  <1>5. \A v \in Versions : MappingSound(v)'
    BY <1>1, <1>4, MappingKept
  <1>6. ASSUME NEW b \in Artifacts
        PROVE  RemoteSound(b)'
    <2>1. RemoteSound(b)
      BY DEF BranchInv
    <2>2. CASE b = a
      BY <1>1, <1>2, <2>1, <2>2 DEF RemoteSound, Deleted
    <2>3. CASE b # a
      BY <1>1, <1>2, <2>1, <2>3 DEF RemoteSound, Deleted
    <2> QED
      BY <2>2, <2>3
  <1>7. Follows(w) /\ worker'[w].at = at /\ \A x \in Workers : x # w => worker'[x] = worker[x]
    BY DEF Turns
  <1>8. WorkSound(w)'
    BY <1>1, <1>2, <1>4, <1>7, WorkKept DEF Deleted
  <1>9. \A x \in Workers : WorkSound(x)'
    BY <1>1, <1>4, <1>7, <1>8, WorkSame
  <1> QED
    BY <1>1, <1>5, <1>6, <1>9, OrderAside DEF BranchInv

\* A repository is made empty, or adopted as it is.
LEMMA CreateRepositoryBranch ==
  ASSUME BranchInv, NEW w \in Workers, CreateRepository(w)
  PROVE  BranchInv'
  <1>1. OwnerInv
    BY DEF BranchInv
  <1>2. worker[w].at = "create" /\ Turns(w, "record") /\ purging' = purging /\ OwnerInv'
    BY <1>1, CreateRepositoryDoes
  <1>3. PICK a \in Artifacts : a = ArtifactOf(worker[w].job)
    BY <1>1, <1>2, WorkerTypes
  <1> PICK r : r = IF remote[a].exists THEN remote[a] ELSE EmptyRemote
    OBVIOUS
  <1>4. AtProvider(a, r)
    BY <1>1, <1>3, CreateRepositoryDoes
  <1>5. RemoteSound(a) /\ remote[a].main \in Seq(Versions)
    BY <1>1 DEF BranchInv, OwnerInv, MirrorTypeOK
  <1>6. ASSUME ~Deleted(a)
        PROVE  /\ r.exists /\ IsPrefixOf(remote[a].main, r.main)
               /\ \A v \in Versions : remote[a].tags[v] # <<>> => r.tags[v] = remote[a].tags[v]
               /\ \A v \in Versions : IsPrefixOf(r.tags[v], r.main)
    <2>1. CASE remote[a].exists
      BY <1>5, <1>6, <2>1, Prefixes DEF RemoteSound
    <2>2. CASE ~remote[a].exists
      <3>1. <<>> \in Seq(Versions) /\ r = EmptyRemote
        BY <2>2, EmptySeq
      <3> QED
        BY <1>5, <1>6, <2>2, <3>1, NoRemoteType, Prefixes DEF RemoteSound
    <2> QED
      BY <2>1, <2>2
  <1> QED
    BY <1>2, <1>3, <1>4, <1>6, ProviderBranch DEF OnBranch

\* A worker that removes a repository has seen its artifact deleted.
LEMMA RemoveRepositoryBranch ==
  ASSUME BranchInv, NEW w \in Workers, RemoveRepository(w)
  PROVE  BranchInv'
  <1>1. OwnerInv
    BY DEF BranchInv
  <1>2. worker[w].at = "remove" /\ Turns(w, "removed") /\ purging' = purging /\ OwnerInv'
    BY <1>1, RemoveRepositoryDoes
  <1>3. PICK a \in Artifacts : a = ArtifactOf(worker[w].job)
    BY <1>1, <1>2, WorkerTypes
  <1>4. AtProvider(a, NoRemote)
    BY <1>1, <1>3, RemoveRepositoryDoes
  <1>5. Deleted(a)
    BY <1>2, <1>3 DEF BranchInv, WorkSound
  <1> QED
    BY <1>2, <1>3, <1>4, <1>5, ProviderBranch

\* The branch moves forward from the parent of the commit.
LEMMA PushBranchBranch ==
  ASSUME BranchInv, NEW w \in Workers, PushBranch(w)
  PROVE  BranchInv'
  <1>1. OwnerInv
    BY DEF BranchInv
  <1>2. worker[w].at = "push" /\ OwnerInv'
    BY <1>1, PushBranchDoes
  <1>3. PICK a \in Artifacts : a = ArtifactOf(worker[w].job)
    BY <1>1, <1>2, WorkerTypes
  <1>4. CASE Quiet /\ Turns(w, "idle")
    BY <1>2, <1>3, <1>4, QuietBranch
  <1>5. CASE /\ FastForward(w) /\ Turns(w, "pushed") /\ purging' = purging
             /\ AtProvider(a, [Remote(w) EXCEPT !.main = worker[w].commit])
    <2> PICK s, p, j, r : /\ s = worker[w].commit /\ p = worker[w].parent /\ j = worker[w].job
                          /\ r = [remote[a] EXCEPT !.main = s]
      OBVIOUS
    <2>1. remote[a] \in RemoteRows /\ s \in Seq(Versions) /\ p \in Seq(Versions) /\ j \in Versions
      BY <1>1, <1>2, MirrorTypes, WorkerTypes DEF OwnerInv, WorkerRows, Building, Steps
    <2>2. remote[a].exists /\ remote[a].main = p /\ AtProvider(a, r)
      BY <1>3, <1>5 DEF FastForward, Remote
    <2>3. r.main = s /\ r.exists /\ r.tags = remote[a].tags
      BY <2>1, <2>2 DEF RemoteRows
    <2>4. s = Append(p, j)
      BY <1>2 DEF BranchInv, WorkSound, Building, Steps
    <2>5. IsPrefixOf(p, s) /\ IsPrefixOf(s, s)
      <3>1. IsPrefixOf(s, s) /\ \A v \in Versions : IsPrefixOf(p, Append(p, v))
        BY <2>1, Prefixes
      <3> QED
        BY <2>1, <2>4, <3>1
    <2>6. ASSUME ~Deleted(a), NEW v \in Versions
          PROVE  IsPrefixOf(r.tags[v], r.main)
      <3>1. IsPrefixOf(remote[a].tags[v], p)
        BY <2>2, <2>6 DEF BranchInv, RemoteSound
      <3>2. remote[a].tags[v] \in Seq(Versions)
        BY <2>1 DEF RemoteRows
      <3> QED
        BY <2>1, <2>3, <2>5, <3>1, <3>2, Prefixes
    <2>7. worker[w].at # "idle" /\ IsPrefixOf(worker[w].commit, r.main)
      BY <1>2, <2>3, <2>5
    <2>8. /\ IsPrefixOf(remote[a].main, r.main)
          /\ \A v \in Versions : remote[a].tags[v] # <<>> => r.tags[v] = remote[a].tags[v]
      BY <2>2, <2>3, <2>5
    <2>9. PICK at : at = "pushed"
      OBVIOUS
    <2>10. AtProvider(a, r) /\ Turns(w, at) /\ purging' = purging
      BY <1>5, <2>2, <2>9
    <2>11. at \notin {"remove", "removed"} /\ at # "complete" /\ r.exists
      BY <2>3, <2>9
    <2> QED
      BY <1>2, <1>3, <2>6, <2>7, <2>8, <2>10, <2>11, ProviderBranch
  <1> QED
    BY <1>1, <1>3, <1>4, <1>5, PushBranchDoes

\* The tag of a version is set to a commit of the branch, and never moved.
LEMMA PushTagBranch ==
  ASSUME BranchInv, NEW w \in Workers, PushTag(w)
  PROVE  BranchInv'
  <1>1. OwnerInv
    BY DEF BranchInv
  <1>2. worker[w].at \in {"tag", "retag"} /\ OwnerInv'
    BY <1>1, PushTagDoes
  <1>3. PICK a \in Artifacts : a = ArtifactOf(worker[w].job)
    BY <1>1, <1>2, WorkerTypes
  <1>4. CASE Quiet /\ Turns(w, "idle")
    BY <1>2, <1>3, <1>4, QuietBranch
  <1>5. ASSUME NEW at \in {"tagged", "retagged"}, Turns(w, at), purging' = purging,
               Remote(w).exists, TagOf(w) \in {<<>>, worker[w].commit},
               AtProvider(a, [Remote(w) EXCEPT !.tags[worker[w].job] = worker[w].commit])
        PROVE  BranchInv'
    <2>0. PICK s, j, r : s = worker[w].commit /\ j = worker[w].job /\ r = [remote[a] EXCEPT !.tags[j] = s]
      OBVIOUS
    <2>1. remote[a] \in RemoteRows /\ s \in Seq(Versions) /\ j \in Versions
      BY <1>1, <1>2, <2>0, MirrorTypes, WorkerTypes DEF OwnerInv, WorkerRows, Building, Steps
    <2>2. remote[a].exists /\ remote[a].tags[j] \in {<<>>, s} /\ AtProvider(a, r)
      BY <1>3, <1>5, <2>0 DEF TagOf, Remote
    <2>3. /\ r.main = remote[a].main /\ r.exists /\ r.tags[j] = s
          /\ \A v \in Versions : v # j => r.tags[v] = remote[a].tags[v]
      BY <2>0, <2>1, <2>2 DEF RemoteRows
    <2>4. IsPrefixOf(remote[a].main, r.main)
      BY <2>1, <2>3, Prefixes DEF RemoteRows
    <2>5. \A v \in Versions : remote[a].tags[v] # <<>> => r.tags[v] = remote[a].tags[v]
      BY <2>2, <2>3
    <2>6. ASSUME ~Deleted(a)
          PROVE  IsPrefixOf(s, r.main) /\ \A v \in Versions : IsPrefixOf(r.tags[v], r.main)
      <3>1. IsPrefixOf(s, remote[a].main)
        BY <1>2, <1>3, <2>0, <2>6 DEF BranchInv, WorkSound, OnBranch, Remote
      <3>2. \A v \in Versions : IsPrefixOf(remote[a].tags[v], remote[a].main)
        BY <2>6 DEF BranchInv, RemoteSound
      <3> QED
        BY <2>3, <3>1, <3>2
    <2>7. worker[w].at # "idle" /\ (~Deleted(a) => IsPrefixOf(worker[w].commit, r.main))
      BY <1>2, <2>0, <2>6
    <2>8. AtProvider(a, r) /\ Turns(w, at) /\ purging' = purging
      BY <1>5, <2>2
    <2>9. at \notin {"remove", "removed"} /\ at # "complete" /\ r.exists
      BY <2>3
    <2>10. ~Deleted(a) =>
             /\ r.exists /\ IsPrefixOf(remote[a].main, r.main)
             /\ \A v \in Versions : remote[a].tags[v] # <<>> => r.tags[v] = remote[a].tags[v]
             /\ \A v \in Versions : IsPrefixOf(r.tags[v], r.main)
             /\ at # "idle" =>
                  /\ at \notin {"remove", "removed"} /\ at # "complete"
                  /\ at \in OnBranch => IsPrefixOf(worker[w].commit, r.main)
      BY <2>4, <2>5, <2>6, <2>7, <2>9
    <2> QED
      BY <1>2, <1>3, <2>7, <2>8, <2>10, ProviderBranch
  <1> QED
    BY <1>1, <1>3, <1>4, <1>5, PushTagDoes

\* A step of a worker that changes rows and leaves the provider alone.
LEMMA RowsBranch ==
  ASSUME BranchInv, OwnerInv', JobsSettle, UNCHANGED <<artifact, version, calls, remote, purging>>,
         NEW w \in Workers, NEW at, Turns(w, at), worker[w].at # "idle",
         NEW a \in Artifacts, a = ArtifactOf(worker[w].job),
         ~Deleted(a) => at \notin OnBranch \cup {"record", "remove", "removed"},
         \A b \in Artifacts : b # a => repo'[b] = repo[b],
         repo'[a] = "provisioned" => ~Deleted(a) /\ remote[a].exists,
         ~Deleted(a) => repo'[a] \in {"none", "provisioned"},
         Frame,
         \A v \in Versions : mapping'[v].st # "none" => mapping[v].st # "none" \/ MappingSound(v)'
  PROVE  BranchInv'
  <1>1. \A v \in Versions : MappingSound(v)'
    <2>1. \A v \in Versions : (mapping'[v].st # "none" => mapping[v].st # "none") \/ MappingSound(v)'
      OBVIOUS
    <2> QED
      BY <2>1, MappingKept
  <1>2. ASSUME NEW b \in Artifacts
        PROVE  RemoteSound(b)'
    <2>1. RemoteSound(b) /\ b \in Jobs /\ b \notin Versions
      BY HistoryNames DEF BranchInv, Jobs, HistoryNames
    <2>2. ~Deleted(b) => job'[b].st = "none"
      BY <2>1 DEF RemoteSound, JobsSettle, Deleted
    <2>3. CASE b = a
      BY <2>1, <2>2, <2>3 DEF RemoteSound, Deleted
    <2>4. CASE b # a
      BY <2>1, <2>2, <2>4 DEF RemoteSound, Deleted
    <2> QED
      BY <2>3, <2>4
  <1>3. Follows(w) /\ worker'[w].at = at /\ \A x \in Workers : x # w => worker'[x] = worker[x]
    BY DEF Turns
  <1>4. ~Deleted(a)' => at \notin OnBranch \cup {"record", "remove", "removed"}
    BY DEF Deleted
  <1>5. at = "complete" => at \in OnBranch
    BY DEF OnBranch
  <1>6. WorkSound(w)'
    BY <1>3, <1>4, <1>5, WorkKept
  <1>7. \A x \in Workers : WorkSound(x)'
    BY <1>3, <1>6, WorkSame
  <1> QED
    BY <1>1, <1>2, <1>7, OrderAside DEF BranchInv

\* The row of a repository is written while the provider has it.
LEMMA RecordRepositoryBranch ==
  ASSUME BranchInv, NEW w \in Workers, RecordRepository(w)
  PROVE  BranchInv'
  <1>1. OwnerInv
    BY DEF BranchInv
  <1>2. /\ worker[w].at = "record" /\ OwnerInv' /\ JobsSettle
        /\ UNCHANGED <<artifact, version, mapping, remote, purging>>
    BY <1>1, RecordRepositoryDoes
  <1>3. calls' = calls
    BY DEF RecordRepository
  <1>4. PICK a \in Artifacts : a = ArtifactOf(worker[w].job)
    BY <1>1, <1>2, WorkerTypes
  <1>5. RemoteSound(a) /\ (~Deleted(a) => remote[a].exists)
    BY <1>2, <1>4 DEF BranchInv, WorkSound, Remote
  <1>6. /\ \A x \in Artifacts : x # a => repo'[x] = repo[x]
        /\ repo[a] = "none" /\ ~Deleted(a) => repo'[a] = "provisioned"
        /\ repo[a] = "none" /\ Deleted(a) => repo'[a] = "deleting"
        /\ repo[a] # "none" => repo'[a] = repo[a] \/ (Deleted(a) /\ repo'[a] = "deleting")
        /\ \/ Turns(w, "lookup") /\ repo'[a] = "provisioned"
           \/ Turns(w, "remove") /\ repo'[a] # "provisioned"
    BY <1>1, <1>4, RecordRepositoryDoes
  <1>7. Frame
    BY <1>1, <1>2, AsideFrame, SameGrows
  <1>8. PICK at \in {"lookup", "remove"} : Turns(w, at) /\ (at = "remove" => repo'[a] # "provisioned")
    BY <1>6
  <1>9. /\ repo'[a] = "provisioned" => ~Deleted(a) /\ remote[a].exists
        /\ ~Deleted(a) => repo'[a] = "provisioned"
    BY <1>5, <1>6 DEF RemoteSound
  <1>10. ~Deleted(a) => at \notin OnBranch \cup {"record", "remove", "removed"}
    BY <1>8, <1>9 DEF OnBranch
  <1>11. ~Deleted(a) => repo'[a] \in {"none", "provisioned"}
    BY <1>9
  <1>12. \A v \in Versions : mapping'[v].st # "none" => mapping[v].st # "none" \/ MappingSound(v)'
    BY <1>2
  <1> QED
    BY <1>2, <1>3, <1>4, <1>6, <1>7, <1>8, <1>9, <1>10, <1>11, <1>12, RowsBranch

\* The rows of a deleted artifact are closed.
LEMMA CompleteDeletionBranch ==
  ASSUME BranchInv, NEW w \in Workers, CompleteDeletion(w)
  PROVE  BranchInv'
  <1>1. OwnerInv
    BY DEF BranchInv
  <1>2. /\ worker[w].at = "removed" /\ OwnerInv' /\ JobsSettle /\ Turns(w, "idle")
        /\ UNCHANGED <<artifact, version, remote, purging>>
        /\ \A v \in Versions :
              /\ mapping'[v].commit = mapping[v].commit
              /\ mapping'[v].st = "none" <=> mapping[v].st = "none"
              /\ mapping'[v].st = "recorded" => mapping[v].st = "recorded"
    BY <1>1, CompleteDeletionDoes
  <1>3. calls' = calls
    BY DEF CompleteDeletion
  <1>4. PICK a \in Artifacts : a = ArtifactOf(worker[w].job)
    BY <1>1, <1>2, WorkerTypes
  <1>5. Deleted(a) /\ RemoteSound(a)
    BY <1>2, <1>4 DEF BranchInv, WorkSound
  <1>6. \A x \in Artifacts : x # a => repo'[x] = repo[x]
    BY <1>1, <1>4, CompleteDeletionDoes
  <1>7. repo'[a] # "provisioned"
    <2>1. repo \in [Artifacts -> RepoStates] /\ repo[a] # "provisioned"
      BY <1>1, <1>5 DEF OwnerInv, HistoryInv, TypeOK, RepoStates, RemoteSound
    <2> QED
      BY <1>4, <2>1 DEF CompleteDeletion, Removal
  <1>8. Frame
    BY <1>1, <1>2, AsideFrame, SameGrows
  <1>9. \A v \in Versions : mapping'[v].st # "none" => mapping[v].st # "none" \/ MappingSound(v)'
    BY <1>2
  <1> QED
    BY <1>2, <1>3, <1>4, <1>5, <1>6, <1>7, <1>8, <1>9, RowsBranch

\* A commit is recorded while it is on the branch and under its tag.
LEMMA CompleteMirrorBranch ==
  ASSUME BranchInv, NEW w \in Workers, CompleteMirror(w)
  PROVE  BranchInv'
  <1>1. OwnerInv
    BY DEF BranchInv
  <1>2. /\ worker[w].at = "complete" /\ OwnerInv' /\ JobsSettle
        /\ UNCHANGED <<artifact, version, remote, purging>>
    BY <1>1, CompleteMirrorDoes
  <1>3. calls' = calls
    BY DEF CompleteMirror
  <1>4. PICK v \in Versions : v = worker[w].job /\ Accepted(v)
    BY <1>1, <1>2, WorkerTypes DEF Building, Steps, WorkerSound
  <1>5. PICK a \in Artifacts : a = ArtifactOf(worker[w].job) /\ a = version[v].art
    BY <1>1, <1>2, <1>4, WorkerTypes, HistoryNames DEF ArtifactOf, HistoryNames
  <1>6. PICK s : s = worker[w].commit
    OBVIOUS
  <1>7. /\ \A x \in Artifacts : x # a => repo'[x] = repo[x]
        /\ \A u \in Versions : u # v => mapping'[u] = mapping[u]
        /\ mapping[v].st # "none" => mapping'[v] = mapping[v]
        /\ \/ /\ Live(a) /\ Turns(w, "idle") /\ repo' = repo
              /\ mapping[v].st = "none" => mapping'[v] = [st |-> "recorded", commit |-> s]
           \/ /\ Deleted(a) /\ Turns(w, "remove") /\ mapping' = mapping
              /\ repo'[a] \in {repo[a], "deleting"}
    BY <1>1, <1>4, <1>5, <1>6, CompleteMirrorDoes
  <1>8. RemoteSound(a) /\ WorkSound(w)
    BY DEF BranchInv
  <1>9. Frame
    <2>1. \A u \in Versions : mapping[u].st # "none" => mapping'[u] = mapping[u]
      BY <1>7
    <2> QED
      BY <1>1, <1>2, <2>1, AsideFrame, SameGrows
  <1>10. ASSUME mapping'[v].st # "none", mapping[v].st = "none"
         PROVE  MappingSound(v)'
    <2>1. mapping'[v].commit = s
      BY <1>7, <1>10
    <2>2. OnParent(s, v, version, mapping)
      BY <1>2, <1>4, <1>6, <1>8 DEF WorkSound, Building, Steps
    <2>3. OnParent(s, v, version', mapping')
      BY <1>1, <1>4, <1>9, <2>2, ParentKept
    <2>4. ~Deleted(a) => remote[a].exists /\ remote[a].tags[v] = s
      BY <1>2, <1>4, <1>5, <1>6, <1>8 DEF WorkSound, Remote, TagOf, OnBranch
    <2> QED
      BY <1>2, <1>5, <2>1, <2>3, <2>4 DEF MappingSound, Deleted
  <1>11. \A u \in Versions : mapping'[u].st # "none" => mapping[u].st # "none" \/ MappingSound(u)'
    BY <1>7, <1>10
  <1>12. PICK at \in {"idle", "remove"} : Turns(w, at) /\ (at = "remove" => Deleted(a))
    BY <1>7
  <1>13. ~Deleted(a) => at \notin OnBranch \cup {"record", "remove", "removed"}
    BY <1>12 DEF OnBranch
  <1>14. /\ repo'[a] = "provisioned" => ~Deleted(a) /\ remote[a].exists
         /\ ~Deleted(a) => repo'[a] \in {"none", "provisioned"}
    BY <1>7, <1>8 DEF RemoteSound
  <1> QED
    BY <1>2, <1>3, <1>5, <1>7, <1>9, <1>11, <1>12, <1>13, <1>14, RowsBranch

\* A claim of a deletion is one of a deleted artifact.
LEMMA ClaimBranch ==
  ASSUME BranchInv, NEW w \in Workers, NEW j \in Jobs, ClaimGitHistoryJob(w, j)
  PROVE  BranchInv'
  <1>1. OwnerInv
    BY DEF BranchInv
  <1>2. /\ OwnerInv'
        /\ UNCHANGED <<artifact, version, calls, repo, mapping, reservation, remote, purging>>
        /\ worker'[w].at = "claimed" /\ worker'[w].job = j
        /\ \A x \in Workers : x # w => worker'[x] = worker[x]
        /\ job[j].st # "none" \/ (j \in Versions /\ Accepted(j))
        /\ \A k \in Artifacts : job'[k].st # "none" => job[k].st # "none"
    BY <1>1, ClaimDoes
  <1>3. Frame
    BY <1>1, <1>2, AsideFrame, SameGrows
  <1>4. \A v \in Versions : MappingSound(v)'
    BY <1>2, <1>3, MappingKept
  <1>5. \A b \in Artifacts : RemoteSound(b)'
    BY <1>2 DEF BranchInv, RemoteSound, Deleted
  <1>6. WorkSound(w)'
    <2>1. ASSUME j \notin Versions
          PROVE  Deleted(ArtifactOf(j))'
      <3>1. j \in Artifacts /\ job[j].st # "none"
        BY <1>2, <2>1 DEF Jobs
      <3>2. Deleted(j)
        BY <3>1 DEF BranchInv, RemoteSound
      <3> QED
        BY <1>2, <3>1, <3>2 DEF ArtifactOf, Deleted
    <2> QED
      BY <1>2, <2>1 DEF WorkSound, Building, OnBranch
  <1>7. \A x \in Workers : WorkSound(x)'
    BY <1>2, <1>3, <1>6, WorkSame
  <1> QED
    BY <1>2, <1>4, <1>5, <1>7, OrderAside DEF BranchInv

\* Every step keeps the branch.
LEMMA NextBranch ==
  ASSUME "restore" \notin Ops, "purge" \notin Ops, BranchInv, [MirrorNext]_allVars
  PROVE  BranchInv'
  <1>1. CASE [HistoryNext]_historyVars /\ UNCHANGED mirrorVars
    BY <1>1, HistoryKeepsBranch
  <1>2. ASSUME NEW w \in Workers, Work(w) \/ Fail(w) \/ Abandon(w)
        PROVE  BranchInv'
    <2>1. CASE FindVersion(w)
      BY <2>1, FindVersionBranch
    <2>2. CASE \/ ReserveBudget(w) \/ FindRepository(w) \/ LookupCommit(w) \/ BuildCommit(w)
               \/ AssertOwner(w) \/ ConfirmRefs(w) \/ LoseLease(w) \/ Fail(w) \/ Abandon(w)
      BY <2>2, QuietWorkBranch
    <2>3. CASE CreateRepository(w) \/ RemoveRepository(w) \/ PushBranch(w) \/ PushTag(w)
      BY <2>3, CreateRepositoryBranch, RemoveRepositoryBranch, PushBranchBranch, PushTagBranch
    <2>4. CASE RecordRepository(w) \/ CompleteDeletion(w) \/ CompleteMirror(w)
      BY <2>4, RecordRepositoryBranch, CompleteDeletionBranch, CompleteMirrorBranch
    <2> QED
      BY <1>2, <2>1, <2>2, <2>3, <2>4 DEF Work
  <1>3. CASE \E w \in Workers, j \in Jobs : ClaimGitHistoryJob(w, j)
    BY <1>3, ClaimBranch
  <1>4. CASE (\E w \in Workers : ClaimNothing(w)) \/ (\E j \in Jobs : ExpireLease(j))
    <2>1. Quiet
      BY <1>4, JobsOnly DEF BranchInv
    <2>2. worker' = worker
      BY <1>4 DEF ClaimNothing, ExpireLease, mirrorVars
    <2> QED
      BY <2>1, <2>2, IdleBranch
  <1>5. CASE (\E a \in Artifacts : PurgeRepository(a)) \/ CompletePurge \/ ReadPurgePlan \/ EndPurge
    BY <1>5, HistoryNames, MirrorBounds DEF BranchInv, PurgeRepository, CompletePurge,
       ReadPurgePlan, EndPurge
  <1>6. CASE UNCHANGED allVars
    BY <1>1, <1>6 DEF allVars
  <1> QED
    BY <1>1, <1>2, <1>3, <1>4, <1>5, <1>6 DEF MirrorNext

\* Nothing is accepted, mapped or at the provider at first.
LEMMA InitBranch == MirrorInit => BranchInv
  <1> SUFFICES ASSUME MirrorInit PROVE BranchInv
    OBVIOUS
  <1>1. OwnerInv /\ purging = None
    BY InitOwners DEF MirrorInit
  <1>2. OrderSound
    BY InitOrder DEF MirrorInit
  <1>3. \A v \in Versions : MappingSound(v)
    BY DEF MirrorInit, MappingSound, Mapped, NoMapping
  <1>4. \A w \in Workers : WorkSound(w)
    BY DEF MirrorInit, WorkSound, Idle, Building
  <1>5. ASSUME NEW a \in Artifacts
        PROVE  RemoteSound(a)
    <2>1. remote[a].main = <<>> /\ \A v \in Versions : remote[a].tags[v] = <<>>
      BY DEF MirrorInit, NoRemote
    <2>2. IsPrefixOf(<<>>, <<>>)
      BY EmptySeq, Prefixes
    <2>3. repo[a] = "none" /\ job[a].st = "none"
      BY DEF MirrorInit, HistoryInit, NoJob
    <2> QED
      BY <2>1, <2>2, <2>3 DEF RemoteSound
  <1> QED
    BY <1>1, <1>2, <1>3, <1>4, <1>5 DEF BranchInv

\* What the invariant says of the repositories.
LEMMA BranchFollows == BranchInv => MirrorFollowsHistory
  <1> SUFFICES ASSUME BranchInv PROVE MirrorFollowsHistory
    OBVIOUS
  <1>1. OwnerInv /\ MirrorTypeOK /\ ChainsSound
    BY DEF BranchInv, OwnerInv
  <1>2. ASSUME NEW a \in Artifacts
        PROVE  /\ \A i \in 1..Len(remote[a].main) :
                    remote[a].main[i] \in VersionsOf(a) /\ Accepted(remote[a].main[i])
               /\ \A i, k \in 1..Len(remote[a].main) :
                    i < k => version[remote[a].main[i]].num < version[remote[a].main[k]].num
               /\ artifact[a].st # "deleted" =>
                    \A v \in Versions : IsPrefixOf(remote[a].tags[v], remote[a].main)
    <2> PICK main : main = remote[a].main
      OBVIOUS
    <2>1. main \in Seq(Versions) /\ Chain(main, a, version)
      BY <1>1 DEF MirrorTypeOK, ChainsSound
    <2>2. \A i \in 1..Len(main) : main[i] \in Versions
      BY <2>1, ElementOfSeq
    <2>3. \A i \in 1..Len(main) : main[i] \in VersionsOf(a) /\ Accepted(main[i])
      BY <2>1, <2>2 DEF Chain, VersionsOf, Accepted, AcceptedStates
    <2>4. \A i, k \in 1..Len(main) : i < k => version[main[i]].num < version[main[k]].num
      BY <2>1 DEF Chain
    <2> QED
      BY <2>3, <2>4 DEF BranchInv, RemoteSound, Deleted
  <1>3. BranchIsHistory
    BY <1>2 DEF BranchIsHistory
  <1>4. ASSUME NEW v \in Versions, Mapped(v), repo[version[v].art] = "provisioned"
        PROVE  /\ remote[version[v].art].exists /\ remote[version[v].art].tags[v] = mapping[v].commit
               /\ IsPrefixOf(mapping[v].commit, remote[version[v].art].main)
               /\ mapping[v].commit = Append(IF AcceptedBelow(v) = {} THEN <<>>
                                             ELSE mapping[Predecessor(v)].commit, v)
    <2>1. Accepted(v) /\ mapping[v].st # "none"
      BY <1>1, <1>4 DEF ChainsSound, Mapped
    <2>2. PICK a \in Artifacts : a = version[v].art
      BY <1>1, <2>1 DEF OwnerInv, HistoryInv, RowsSound, Accepted, AcceptedStates
    <2>3. RemoteSound(a) /\ MappingSound(v)
      BY DEF BranchInv
    <2>4. ~Deleted(a)
      BY <1>4, <2>2, <2>3 DEF RemoteSound
    <2>5. remote[a].exists /\ remote[a].tags[v] = mapping[v].commit
      BY <1>4, <2>2, <2>3, <2>4 DEF MappingSound
    <2>6. IsPrefixOf(mapping[v].commit, remote[a].main)
      BY <2>3, <2>4, <2>5 DEF RemoteSound
    <2>7. mapping[v].commit = Append(IF AcceptedBelow(v) = {} THEN <<>>
                                     ELSE mapping[Predecessor(v)].commit, v)
      BY <2>1, <2>3, BelowIs DEF MappingSound, OnParent
    <2> QED
      BY <2>2, <2>5, <2>6, <2>7
  <1>5. MappedIsOnBranch
    BY <1>4 DEF MappedIsOnBranch
  <1> QED
    BY <1>1, <1>3, <1>5 DEF MirrorFollowsHistory

\* Theorem: the rows and the provider agree with the accepted history and with each other,
\* for any number of workers, lost leases, failures and late pushes, on every store.  Two
\* things are excluded.  A restore brings back the base of an old candidate, whose
\* promotion accepts a number below the tip.  A purge leaves its repository "provisioned"
\* in the rows until they are closed.
THEOREM MirrorFollows ==
  ASSUME "restore" \notin Ops, "purge" \notin Ops
  PROVE  MirrorSpec => []MirrorFollowsHistory
  <1>1. BranchInv /\ [MirrorNext]_allVars => BranchInv'
    BY NextBranch
  <1> QED
    BY <1>1, InitBranch, BranchFollows, PTL DEF MirrorSpec

-----------------------------------------------------------------------------
(* The tip of the branch, without restores and without purges              *)

\* Every accepted version below v has been mapped.
Due(v) == \A u \in Below(v, version) : mapping[u].st # "none"

\* Until the artifact is deleted no mapping of it is, and its branch ends in a version
\* that stands on the commits recorded for all the accepted ones below.
TipSound(a) ==
    ~Deleted(a) =>
      /\ \A v \in Versions : version[v].art = a => mapping[v].st # "deleted"
      /\ remote[a].main # <<>> =>
           \E v \in Versions : /\ Accepted(v) /\ version[v].art = a /\ Due(v)
                               /\ OnParent(remote[a].main, v, version, mapping)

\* A worker has a version to mirror that is due.
WorkDue(w) == worker[w].at # "idle" /\ worker[w].job \in Versions => Due(worker[w].job)

TipInv ==
    BranchInv /\ (\A a \in Artifacts : TipSound(a)) /\ (\A w \in Workers : WorkDue(w))

\* What a step may do to a branch: a worker pushes what it has built, or nothing happens.
TipStep ==
    /\ Frame
    /\ \A v \in Versions : mapping'[v].st = "deleted" =>
          mapping[v].st # "none" /\ (mapping[v].st = "deleted" \/ Deleted(version[v].art))
    /\ \A a \in Artifacts : ~Deleted(a)' =>
          \/ remote'[a].main \in {remote[a].main, <<>>}
          \/ \E w \in Workers : /\ worker[w].at \in Building /\ ArtifactOf(worker[w].job) = a
                                /\ remote'[a].main = worker[w].commit
    /\ \A w \in Workers : worker'[w].at # "idle" =>
          \/ worker[w].at # "idle" /\ worker'[w].job = worker[w].job
          \/ worker'[w].job \in Versions => Accepted(worker'[w].job) /\ Due(worker'[w].job)

\* A version that is due stays due.
LEMMA DueKept ==
  ASSUME Frame, NEW v \in Versions, Accepted(v), Due(v)
  PROVE  Due(v)'
  <1>1. Below(v, version') = Below(v, version) /\ Below(v, version) \subseteq Versions
    BY DEF Frame, Below
  <1> QED
    BY <1>1 DEF Due, Frame

\* Such steps keep the tip.
LEMMA TipKept ==
  ASSUME TipInv, BranchInv', TipStep
  PROVE  TipInv'
  <1>1. OwnerInv /\ OwnerInv' /\ Frame /\ BranchInv
    BY DEF TipInv, TipStep, BranchInv
  <1>2. ASSUME NEW v \in Versions, Accepted(v)
        PROVE  Accepted(v)' /\ version'[v].art = version[v].art
    BY <1>1, <1>2 DEF Frame, Remembers, Grows, Accepted, AcceptedStates
  <1>3. ASSUME NEW w \in Workers
        PROVE  WorkDue(w)'
    <2> SUFFICES ASSUME worker'[w].at # "idle", worker'[w].job \in Versions
                 PROVE  Due(worker[w].job)'
      BY DEF WorkDue
    <2> PICK v \in Versions : v = worker'[w].job
      OBVIOUS
    <2>1. Accepted(v) /\ Due(v)
      <3>1. CASE worker[w].at # "idle" /\ worker'[w].job = worker[w].job
        BY <1>1, <3>1, WorkerTypes DEF TipInv, WorkDue, WorkerSound
      <3> QED
        BY <3>1 DEF TipStep
    <2>2. Due(v)'
      BY <1>1, <2>1, DueKept
    <2> QED
      BY <2>2 DEF Due
  <1>4. ASSUME NEW a \in Artifacts, ~Deleted(a)', NEW v \in Versions, version'[v].art = a
        PROVE  mapping'[v].st # "deleted"
    <2> SUFFICES ASSUME mapping'[v].st = "deleted" PROVE FALSE
      OBVIOUS
    <2>1. ~Deleted(a) /\ TipSound(a)
      BY <1>1, <1>4 DEF Frame, TipInv
    <2>2. mapping[v].st # "none" /\ (mapping[v].st = "deleted" \/ Deleted(version[v].art))
      BY DEF TipStep
    <2>3. version[v].art = a
      BY <1>1, <1>2, <1>4, <2>2 DEF OwnerInv, ChainsSound
    <2> QED
      BY <2>1, <2>2, <2>3 DEF TipSound
  <1>5. ASSUME NEW a \in Artifacts, ~Deleted(a)', remote'[a].main # <<>>
        PROVE  \E v \in Versions : /\ Accepted(v)' /\ version'[v].art = a /\ Due(v)'
                                   /\ OnParent(remote'[a].main, v, version', mapping')
    <2>1. ~Deleted(a) /\ TipSound(a)
      BY <1>1, <1>5 DEF Frame, TipInv
    <2> PICK s : s = remote'[a].main
      OBVIOUS
    <2>2. PICK v \in Versions : /\ Accepted(v) /\ version[v].art = a /\ Due(v)
                               /\ OnParent(s, v, version, mapping)
      <3>1. CASE remote'[a].main = remote[a].main
        BY <1>5, <2>1, <3>1 DEF TipSound
      <3>2. ASSUME NEW w \in Workers, worker[w].at \in Building, ArtifactOf(worker[w].job) = a,
                   remote'[a].main = worker[w].commit
            PROVE  \E v \in Versions : /\ Accepted(v) /\ version[v].art = a /\ Due(v)
                                       /\ OnParent(s, v, version, mapping)
        <4>1. worker[w].at # "idle"
          BY <3>2 DEF Building
        <4>2. worker[w].job \in Versions /\ Accepted(worker[w].job) /\ version[worker[w].job].art = a
          BY <1>1, <3>2, <4>1, WorkerTypes DEF WorkerSound
        <4>3. Due(worker[w].job)
          BY <4>1, <4>2 DEF TipInv, WorkDue
        <4>4. OnParent(worker[w].commit, worker[w].job, version, mapping)
          BY <1>1, <3>2 DEF BranchInv, WorkSound
        <4> QED
          BY <3>2, <4>2, <4>3, <4>4
      <3> QED
        BY <1>5, <3>1, <3>2 DEF TipStep
    <2>3. Due(v)' /\ OnParent(s, v, version', mapping')
      BY <1>1, <2>2, DueKept, ParentKept
    <2> QED
      BY <1>2, <2>2, <2>3
  <1>6. \A a \in Artifacts : TipSound(a)'
    BY <1>4, <1>5 DEF TipSound
  <1> QED
    BY <1>3, <1>6 DEF TipInv

\* A quiet step moves no branch.
LEMMA QuietTip ==
  ASSUME BranchInv, Quiet
  PROVE  TipStep
  <1>1. UNCHANGED <<artifact, version, mapping, remote>>
    BY DEF Quiet, Aside, rows
  <1>2. Frame
    BY <1>1, AsideFrame, SameGrows DEF BranchInv
  <1>3. \A w \in Workers : worker'[w].at # "idle" => worker[w].at # "idle" /\ worker'[w].job = worker[w].job
    BY DEF Quiet, Follows
  <1> QED
    BY <1>1, <1>2, <1>3 DEF TipStep

\* A worker that finds its version stays with its job.
LEMMA FindVersionTip ==
  ASSUME BranchInv, NEW w \in Workers, FindVersion(w)
  PROVE  TipStep
  <1>1. OwnerInv
    BY DEF BranchInv
  <1>2. ASSUME NEW at, NEW p, NEW s, Finds(w, at, p, s)
        PROVE  TipStep
    <2>1. UNCHANGED <<artifact, version, mapping, remote>>
      BY <1>2 DEF Finds, historyVars, mirrorRows
    <2>2. Frame
      BY <1>1, <2>1, AsideFrame, SameGrows
    <2>3. \A x \in Workers : worker'[x].at # "idle" => worker[x].at # "idle" /\ worker'[x].job = worker[x].job
      BY <1>2 DEF Finds
    <2> QED
      BY <2>1, <2>2, <2>3 DEF TipStep
  <1> QED
    BY <1>1, <1>2, FindVersionDoes, QuietTip

\* Steps at the provider: only a push moves a branch, and it moves it to what was built.
LEMMA ProviderTip ==
  ASSUME BranchInv, NEW w \in Workers, NEW a \in Artifacts, NEW r, AtProvider(a, r),
         ~Deleted(a) =>
           /\ remote[a].exists => r.exists
           /\ IsPrefixOf(remote[a].main, r.main)
           /\ \A v \in Versions : remote[a].tags[v] # <<>> => r.tags[v] = remote[a].tags[v]
           /\ \/ r.main \in {remote[a].main, <<>>}
              \/ /\ worker[w].at \in Building /\ ArtifactOf(worker[w].job) = a
                 /\ r.main = worker[w].commit
  PROVE  TipStep
  <1>1. OwnerInv /\ UNCHANGED <<artifact, version, mapping>>
    BY DEF BranchInv, AtProvider, historyVars, mirrorRows, rows
  <1>2. remote'[a] = r /\ \A b \in Artifacts : b # a => remote'[b] = remote[b]
    BY <1>1 DEF AtProvider, OwnerInv, MirrorTypeOK
  <1>3. \A b \in Artifacts : ~Deleted(b) => RemoteGrows(b)
    <2>1. ~Deleted(a) => RemoteGrows(a)
      BY <1>2 DEF RemoteGrows
    <2> QED
      BY <1>1, <1>2, <2>1, SameGrows
  <1>4. Frame
    BY <1>1, <1>3, AsideFrame
  <1>5. \A x \in Workers : worker'[x].at # "idle" => worker[x].at # "idle" /\ worker'[x].job = worker[x].job
    BY DEF AtProvider, Follows
  <1>6. \A b \in Artifacts : ~Deleted(b)' =>
          \/ remote'[b].main \in {remote[b].main, <<>>}
          \/ \E x \in Workers : /\ worker[x].at \in Building /\ ArtifactOf(worker[x].job) = b
                                /\ remote'[b].main = worker[x].commit
    BY <1>1, <1>2 DEF Deleted
  <1> QED
    BY <1>1, <1>4, <1>5, <1>6 DEF TipStep

\* What a worker does at the provider and to the rows.
LEMMA WorkTip ==
  ASSUME TipInv, BranchInv', NEW w \in Workers, Work(w) \/ Fail(w) \/ Abandon(w)
  PROVE  TipStep
  <1>1. BranchInv /\ OwnerInv /\ WorkSound(w)
    BY DEF TipInv, BranchInv
  <1>2. CASE FindVersion(w)
    BY <1>1, <1>2, FindVersionTip
  <1>3. CASE \/ ReserveBudget(w) \/ FindRepository(w) \/ LookupCommit(w) \/ BuildCommit(w)
             \/ AssertOwner(w) \/ ConfirmRefs(w) \/ LoseLease(w) \/ Fail(w) \/ Abandon(w)
    <2>1. Quiet
      BY <1>1, <1>3, ReserveBudgetDoes, FindRepositoryDoes, LookupCommitDoes, TurnsOnly
    <2> QED
      BY <1>1, <2>1, QuietTip
  <1>4. CASE CreateRepository(w)
    <2>1. PICK a \in Artifacts : a = ArtifactOf(worker[w].job)
      BY <1>1, <1>4, CreateRepositoryDoes, WorkerTypes
    <2>2. PICK r : r = IF remote[a].exists THEN remote[a] ELSE EmptyRemote
      OBVIOUS
    <2>3. AtProvider(a, r) /\ RemoteSound(a) /\ remote[a] \in RemoteRows
      BY <1>1, <1>4, <2>1, <2>2, CreateRepositoryDoes, MirrorTypes DEF BranchInv, OwnerInv
    <2>4. CASE remote[a].exists
      BY <1>1, <2>2, <2>3, <2>4, Prefixes, ProviderTip DEF RemoteRows
    <2>5. CASE ~remote[a].exists
      <3>1. r.main = <<>> /\ r.exists /\ IsPrefixOf(<<>>, <<>>)
        BY <2>2, <2>5, NoRemoteType, EmptySeq, Prefixes
      <3>2. ~Deleted(a) => remote[a].main = <<>> /\ \A v \in Versions : remote[a].tags[v] = <<>>
        BY <2>3, <2>5 DEF RemoteSound
      <3> QED
        BY <1>1, <2>3, <2>5, <3>1, <3>2, ProviderTip
    <2> QED
      BY <2>4, <2>5
  <1>5. CASE RemoveRepository(w)
    <2>1. AtProvider(ArtifactOf(worker[w].job), NoRemote) /\ worker[w].at = "remove"
      BY <1>1, <1>5, RemoveRepositoryDoes
    <2>2. PICK a \in Artifacts : a = ArtifactOf(worker[w].job)
      BY <1>1, <2>1, WorkerTypes
    <2>3. Deleted(a) /\ AtProvider(a, NoRemote)
      BY <1>1, <2>1, <2>2 DEF WorkSound
    <2> QED
      BY <1>1, <2>3, ProviderTip
  <1>6. CASE PushBranch(w)
    <2>1. worker[w].at = "push"
      BY <1>1, <1>6, PushBranchDoes
    <2>2. PICK a \in Artifacts : a = ArtifactOf(worker[w].job)
      BY <1>1, <2>1, WorkerTypes
    <2>3. CASE Quiet
      BY <1>1, <2>3, QuietTip
    <2>4. CASE FastForward(w) /\ AtProvider(a, [Remote(w) EXCEPT !.main = worker[w].commit])
      <3>1. PICK s, p, r : s = worker[w].commit /\ p = worker[w].parent /\ r = [remote[a] EXCEPT !.main = s]
        OBVIOUS
      <3>2. /\ remote[a] \in RemoteRows /\ p \in Seq(Versions) /\ worker[w].job \in Versions
            /\ worker[w].at \in Building
        BY <1>1, <2>1, <3>1, MirrorTypes, WorkerTypes DEF OwnerInv, WorkerRows, Building, Steps
      <3>3. AtProvider(a, r) /\ remote[a].exists /\ remote[a].main = p
        BY <2>2, <2>4, <3>1 DEF FastForward, Remote
      <3>4. r.main = s /\ r.exists /\ r.tags = remote[a].tags
        BY <3>1, <3>2, <3>3 DEF RemoteRows
      <3>5. s = Append(p, worker[w].job)
        BY <1>1, <2>1, <3>1 DEF WorkSound, Building, Steps
      <3>6. IsPrefixOf(p, s)
        <4>1. \A v \in Versions : IsPrefixOf(p, Append(p, v))
          BY <3>2, Prefixes
        <4> QED
          BY <3>2, <3>5, <4>1
      <3>7. /\ IsPrefixOf(remote[a].main, r.main) /\ r.main = worker[w].commit
            /\ \A v \in Versions : remote[a].tags[v] # <<>> => r.tags[v] = remote[a].tags[v]
        BY <3>1, <3>3, <3>4, <3>6
      <3>8. AtProvider(a, r) /\ r.exists /\ ArtifactOf(worker[w].job) = a
        BY <2>2, <3>3, <3>4
      <3> QED
        BY <1>1, <3>2, <3>7, <3>8, ProviderTip
    <2> QED
      BY <1>1, <1>6, <2>2, <2>3, <2>4, PushBranchDoes
  <1>7. CASE PushTag(w)
    <2>1. worker[w].at \in {"tag", "retag"}
      BY <1>1, <1>7, PushTagDoes
    <2>2. PICK a \in Artifacts : a = ArtifactOf(worker[w].job)
      BY <1>1, <2>1, WorkerTypes
    <2>3. CASE Quiet
      BY <1>1, <2>3, QuietTip
    <2>4. CASE /\ TagOf(w) \in {<<>>, worker[w].commit}
               /\ AtProvider(a, [Remote(w) EXCEPT !.tags[worker[w].job] = worker[w].commit])
      <3>1. PICK s, j, r : s = worker[w].commit /\ j = worker[w].job /\ r = [remote[a] EXCEPT !.tags[j] = s]
        OBVIOUS
      <3>2. remote[a] \in RemoteRows /\ j \in Versions
        BY <1>1, <2>1, <3>1, MirrorTypes, WorkerTypes DEF OwnerInv, Building, Steps
      <3>3. AtProvider(a, r) /\ remote[a].tags[j] \in {<<>>, s}
        BY <2>2, <2>4, <3>1 DEF Remote, TagOf
      <3>4. /\ r.main = remote[a].main /\ r.exists = remote[a].exists /\ r.tags[j] = s
            /\ \A v \in Versions : v # j => r.tags[v] = remote[a].tags[v]
        BY <3>1, <3>2 DEF RemoteRows
      <3>5. IsPrefixOf(remote[a].main, r.main)
        BY <3>2, <3>4, Prefixes DEF RemoteRows
      <3>6. \A v \in Versions : remote[a].tags[v] # <<>> => r.tags[v] = remote[a].tags[v]
        BY <3>3, <3>4
      <3>7. (remote[a].exists => r.exists) /\ r.main = remote[a].main
        BY <3>4
      <3> QED
        BY <1>1, <3>3, <3>5, <3>6, <3>7, ProviderTip
    <2> QED
      BY <1>1, <1>7, <2>2, <2>3, <2>4, PushTagDoes
  <1>8. CASE RecordRepository(w) \/ CompleteDeletion(w) \/ CompleteMirror(w)
    <2>1. /\ UNCHANGED <<artifact, version, remote>> /\ worker[w].at # "idle"
          /\ \E at : Turns(w, at)
      BY <1>1, <1>8, RecordRepositoryDoes, CompleteDeletionDoes, CompleteMirrorDoes
    <2>2. \A x \in Workers : worker'[x].at # "idle" => worker[x].at # "idle" /\ worker'[x].job = worker[x].job
      BY <2>1 DEF Turns, Follows
    <2>3. /\ \A v \in Versions : mapping[v].st # "none" =>
               /\ mapping'[v].st # "none" /\ mapping'[v].commit = mapping[v].commit
               /\ mapping'[v].st = "recorded" => mapping[v].st = "recorded"
          /\ \A v \in Versions : mapping'[v].st = "deleted" =>
               mapping[v].st # "none" /\ (mapping[v].st = "deleted" \/ Deleted(version[v].art))
      <3>1. CASE RecordRepository(w)
        BY <1>1, <3>1, RecordRepositoryDoes
      <3>2. CASE CompleteMirror(w)
        <4>1. PICK v \in Versions : v = worker[w].job
          BY <1>1, <3>2, CompleteMirrorDoes, WorkerTypes DEF Building, Steps
        <4>2. /\ \A u \in Versions : u # v => mapping'[u] = mapping[u]
              /\ mapping[v].st # "none" => mapping'[v] = mapping[v]
              /\ \/ mapping[v].st = "none" => mapping'[v] = [st |-> "recorded", commit |-> worker[w].commit]
                 \/ mapping' = mapping
          BY <1>1, <3>2, <4>1, CompleteMirrorDoes
        <4>3. mapping[v].st = "none" => mapping'[v].st # "deleted"
          BY <4>2
        <4> QED
          BY <4>2, <4>3
      <3>3. CASE CompleteDeletion(w)
        <4>1. PICK a \in Artifacts : a = ArtifactOf(worker[w].job)
          BY <1>1, <3>3, CompleteDeletionDoes
        <4>2. Deleted(a)
          BY <1>1, <3>3, <4>1, CompleteDeletionDoes DEF WorkSound
        <4>3. \A v \in Versions :
                /\ mapping'[v].commit = mapping[v].commit
                /\ mapping'[v].st = "none" <=> mapping[v].st = "none"
                /\ mapping'[v].st = "recorded" => mapping[v].st = "recorded"
          BY <1>1, <3>3, CompleteDeletionDoes
        <4>4. \A v \in Versions : mapping'[v].st = mapping[v].st \/ version[v].art = a
          <5>1. mapping' = [v \in Versions |-> IF v \in VersionsOf(a) /\ mapping[v].st # "none"
                                              THEN [mapping[v] EXCEPT !.st = "deleted"] ELSE mapping[v]]
            BY <3>3, <4>1 DEF CompleteDeletion, Removal
          <5> QED
            BY <5>1 DEF VersionsOf
        <4> QED
          BY <4>2, <4>3, <4>4
      <3> QED
        BY <1>8, <3>1, <3>2, <3>3
    <2>4. Frame
      BY <1>1, <2>1, <2>3, AsideFrame, SameGrows
    <2> QED
      BY <2>1, <2>2, <2>3, <2>4 DEF TipStep
  <1> QED
    BY <1>2, <1>3, <1>4, <1>5, <1>6, <1>7, <1>8 DEF Work

\* A version is claimed when every accepted one below is mapped.
LEMMA ClaimTip ==
  ASSUME BranchInv, NEW w \in Workers, NEW j \in Jobs, ClaimGitHistoryJob(w, j)
  PROVE  TipStep
  <1>1. OwnerInv
    BY DEF BranchInv
  <1>2. /\ UNCHANGED <<artifact, version, mapping, remote>> /\ worker'[w].job = j
        /\ \A x \in Workers : x # w => worker'[x] = worker[x]
    BY <1>1, ClaimDoes
  <1>3. Frame
    BY <1>1, <1>2, AsideFrame, SameGrows
  <1>4. j \in Versions => Accepted(j) /\ Due(j)
    BY BelowIs DEF ClaimGitHistoryJob, Claimable, Due, Mapped
  <1>5. \A x \in Workers : worker'[x].at # "idle" =>
          \/ worker[x].at # "idle" /\ worker'[x].job = worker[x].job
          \/ worker'[x].job \in Versions => Accepted(worker'[x].job) /\ Due(worker'[x].job)
    BY <1>2, <1>4
  <1> QED
    BY <1>2, <1>3, <1>5 DEF TipStep

\* Every step keeps the tip.
LEMMA NextTip ==
  ASSUME "restore" \notin Ops, "purge" \notin Ops, TipInv, [MirrorNext]_allVars
  PROVE  TipInv'
  <1>1. BranchInv /\ OwnerInv /\ BranchInv'
    BY NextBranch DEF TipInv, BranchInv
  <1>2. CASE [HistoryNext]_historyVars /\ UNCHANGED mirrorVars
    <2>1. Frame /\ UNCHANGED <<mapping, remote, worker>>
      BY <1>1, <1>2, HistoryFrame DEF mirrorVars
    <2>2. TipStep
      BY <2>1 DEF TipStep
    <2> QED
      BY <1>1, <2>2, TipKept
  <1>3. CASE \E w \in Workers : Work(w) \/ Fail(w) \/ Abandon(w)
    BY <1>1, <1>3, WorkTip, TipKept
  <1>4. CASE \E w \in Workers, j \in Jobs : ClaimGitHistoryJob(w, j)
    BY <1>1, <1>4, ClaimTip, TipKept
  <1>5. CASE (\E w \in Workers : ClaimNothing(w)) \/ (\E j \in Jobs : ExpireLease(j))
    BY <1>1, <1>5, JobsOnly, QuietTip, TipKept
  <1>6. CASE (\E a \in Artifacts : PurgeRepository(a)) \/ CompletePurge \/ ReadPurgePlan \/ EndPurge
    BY <1>1, <1>6, HistoryNames, MirrorBounds DEF BranchInv, PurgeRepository, CompletePurge,
       ReadPurgePlan, EndPurge
  <1>7. CASE UNCHANGED allVars
    BY <1>2, <1>7 DEF allVars
  <1> QED
    BY <1>2, <1>3, <1>4, <1>5, <1>6, <1>7 DEF MirrorNext

\* There is no branch and no work at first.
LEMMA InitTip == MirrorInit => TipInv
  <1> SUFFICES ASSUME MirrorInit PROVE TipInv
    OBVIOUS
  <1>1. \A a \in Artifacts : TipSound(a)
    BY DEF MirrorInit, TipSound, NoRemote, NoMapping
  <1>2. \A w \in Workers : WorkDue(w)
    BY DEF MirrorInit, WorkDue, Idle
  <1> QED
    BY <1>1, <1>2, InitBranch DEF TipInv

\* The branch ends at the parent of the next version, or at that version.
LEMMA TipFits ==
  ASSUME TipInv, NEW v \in Versions, version[v].st # "none", Accepted(v), ~Mapped(v),
         \A u \in AcceptedBelow(v) : Mapped(u), repo[version[v].art] = "provisioned",
         NEW p, p = IF AcceptedBelow(v) = {} THEN <<>> ELSE mapping[Predecessor(v)].commit
  PROVE  remote[version[v].art].main \in {p, Append(p, v)}
  <1>1. BranchInv /\ OwnerInv /\ HistoryInv /\ FirstAccepted /\ NumbersAreGapless
    BY DEF TipInv, BranchInv, OwnerInv, HistoryInv
  <1>2. PICK a \in Artifacts : a = version[v].art
    BY <1>1 DEF HistoryInv, RowsSound
  <1>3. ~Deleted(a) /\ RemoteSound(a) /\ TipSound(a)
    BY <1>1, <1>2 DEF TipInv, BranchInv, RemoteSound
  <1>4. PICK s : s = remote[a].main
    OBVIOUS
  <1>5. s \in Seq(Versions) /\ Chain(s, a, version)
    BY <1>1, <1>4 DEF OwnerInv, MirrorTypeOK, ChainsSound
  <1>6. mapping[v].st = "none"
    <2>1. mapping[v].st \in {"none", "recorded", "deleted"}
      BY <1>1, MirrorTypes DEF OwnerInv, MappingRows
    <2> QED
      BY <1>2, <1>3, <2>1 DEF TipSound, Mapped
  <1>7. AcceptedBelow(v) = Below(v, version) /\ Predecessor(v) = Pred(v, version)
    BY BelowIs
  <1>8. \A x \in Versions : version[x].num \in Nat
    BY <1>1 DEF HistoryInv, TypeOK, VersionRows
  <1>9. ASSUME NEW t \in Versions, Accepted(t), version[t].art = a, Due(t), t # v
        PROVE  version[t].num < version[v].num
    <2>1. v \in VersionsOf(a) /\ t \in VersionsOf(a)
      BY <1>2, <1>9 DEF VersionsOf, Accepted, AcceptedStates
    <2>2. version[t].num # version[v].num
      BY <1>1, <1>9, <2>1, NumbersUnique
    <2>3. v \notin Below(t, version)
      BY <1>6, <1>9 DEF Due
    <2>4. ~(version[v].num < version[t].num)
      BY <1>2, <1>9, <2>1, <2>3 DEF Below, VersionsOf, Accepted
    <2> QED
      BY <1>8, <2>2, <2>4
  <1>10. CASE s = <<>>
    <2>1. AcceptedBelow(v) = {}
      <3> SUFFICES ASSUME AcceptedBelow(v) # {} PROVE FALSE
        OBVIOUS
      <3>1. PICK u \in AcceptedBelow(v) : u \in Versions /\ version[u].art = a /\ Mapped(u)
        BY <1>2 DEF AcceptedBelow, VersionsOf
      <3>2. remote[a].tags[u] = mapping[u].commit /\ IsPrefixOf(remote[a].tags[u], s)
        BY <1>1, <1>3, <1>4, <3>1 DEF BranchInv, MappingSound, RemoteSound
      <3>3. Len(mapping[u].commit) > 0
        BY <1>1, <3>1 DEF OwnerInv, ChainsSound, CommitFor, AtTip, Mapped
      <3>4. Len(mapping[u].commit) \in Nat
        BY <1>1, <3>1, MirrorTypes, LenProperties DEF OwnerInv, MappingRows
      <3> QED
        BY <1>10, <3>2, <3>3, <3>4, EmptySeq DEF IsPrefixOf
    <2> QED
      BY <1>2, <1>4, <1>10, <2>1
  <1>11. CASE s # <<>>
    <2>1. PICK t \in Versions : /\ Accepted(t) /\ version[t].art = a /\ Due(t)
                               /\ OnParent(s, t, version, mapping)
      BY <1>3, <1>4, <1>11 DEF TipSound
    <2>2. CASE t = v
      BY <1>2, <1>4, <1>7, <2>1, <2>2 DEF OnParent
    <2>3. CASE t # v
      <3>1. t \in AcceptedBelow(v)
        BY <1>2, <1>9, <2>1, <2>3 DEF AcceptedBelow, VersionsOf, Accepted, AcceptedStates
      <3>2. PICK u \in AcceptedBelow(v) : u = Predecessor(v) /\ version[t].num <= version[u].num
        BY <1>1, <3>1, PredecessorIs
      <3>3. u \in Versions /\ version[u].art = a /\ Mapped(u) /\ u \in VersionsOf(a) /\ Accepted(u)
        BY <1>2, <3>2 DEF AcceptedBelow, VersionsOf
      <3>4. MappingSound(u) /\ mapping[u].commit \in Seq(Versions)
        BY <1>1, <3>3, MirrorTypes DEF OwnerInv, MappingRows, BranchInv
      <3>5. t = u
        <4>1. IsPrefixOf(mapping[u].commit, s)
          BY <1>3, <1>4, <3>3, <3>4 DEF MappingSound, RemoteSound
        <4>2. PICK i \in 1..Len(s) : s[i] = u
          <5>1. /\ Len(mapping[u].commit) > 0 /\ mapping[u].commit[Len(mapping[u].commit)] = u
            BY <1>1, <3>3 DEF OwnerInv, ChainsSound, CommitFor, AtTip, Mapped
          <5>2. Len(mapping[u].commit) \in Nat /\ Len(s) \in Nat
            BY <1>5, <3>4, LenProperties
          <5> QED
            BY <4>1, <5>1, <5>2 DEF IsPrefixOf
        <4>3. Len(s) \in 1..Len(s) /\ s[Len(s)] = t /\ Len(s) \in Nat
          <5>1. PICK q : s = Append(q, t) /\ q \in Seq(Versions)
            <6>1. Below(t, version) # {} => Pred(t, version) \in Versions
              BY <1>1, <2>1, BelowIs, PredecessorIs DEF AcceptedBelow, VersionsOf
            <6>2. <<>> \in Seq(Versions) /\ mapping \in [Versions -> MappingRows]
              BY <1>1, MirrorTypes, EmptySeq DEF OwnerInv
            <6> QED
              BY <2>1, <6>1, <6>2 DEF OnParent, MappingRows
          <5> QED
            BY <5>1, AppendProperties, LenProperties
        <4>4. i = Len(s) \/ version[u].num < version[t].num
          BY <1>5, <4>2, <4>3 DEF Chain
        <4> QED
          BY <1>8, <3>2, <3>3, <4>2, <4>3, <4>4
      <3>6. s = mapping[u].commit
        BY <2>1, <3>3, <3>4, <3>5 DEF OnParent, MappingSound, Mapped
      <3> QED
        BY <1>2, <1>4, <3>1, <3>2, <3>6
    <2> QED
      BY <2>2, <2>3
  <1> QED
    BY <1>10, <1>11

\* Theorem: without restores and purges the branch never gets in the way of the next
\* version, for any number of workers, lost leases, failures and late pushes, on every
\* store.  The next version finds the tip at its parent or at itself, also while
\* workers are busy.  Hence git_history_predecessor_mismatch is transient, as the specification
\* of the mirror assumes, unless a restore lets a version join history late, which makes it
\* last (GitHistoryMirror_late), or a purge takes the branch away.
THEOREM NextFits ==
  ASSUME "restore" \notin Ops, "purge" \notin Ops
  PROVE  MirrorSpec => []NextCommitFits
  <1>1. TipInv /\ [MirrorNext]_allVars => TipInv'
    BY NextTip
  <1>2. TipInv => NextCommitFits
    BY TipFits DEF NextCommitFits
  <1> QED
    BY <1>1, <1>2, InitTip, PTL DEF MirrorSpec

-----------------------------------------------------------------------------
(* What restores and purges leave, for any number of workers               *)

\* A step of the mirror moves no artifact and no version.
LEMMA MirrorMoves ==
  ASSUME HistoryInv, [MirrorNext]_allVars
  PROVE  HistoryStep
  <1>1. ASSUME UNCHANGED rows
        PROVE  HistoryStep
    BY <1>1 DEF HistoryStep, ForwardStep, Stays, rows
  <1>2. CASE HistoryNext
    BY <1>2, NextMoves
  <1>3. ASSUME UNCHANGED historyVars
        PROVE  UNCHANGED rows
    BY <1>3 DEF historyVars, rows
  <1>4. ASSUME NEW w \in Workers, Work(w)
        PROVE  UNCHANGED rows
    <2>1. CASE \/ FindVersion(w) \/ ReserveBudget(w) \/ FindRepository(w) \/ CreateRepository(w)
               \/ RecordRepository(w) \/ RemoveRepository(w) \/ CompleteDeletion(w)
      BY <1>3, <2>1 DEF FindVersion, ReserveBudget, FindRepository, CreateRepository, RecordRepository,
         RemoveRepository, CompleteDeletion
    <2>2. CASE \/ LookupCommit(w) \/ BuildCommit(w) \/ PushBranch(w) \/ AssertOwner(w) \/ PushTag(w)
               \/ ConfirmRefs(w) \/ CompleteMirror(w) \/ LoseLease(w)
      BY <1>3, <2>2 DEF LookupCommit, BuildCommit, PushBranch, AssertOwner, PushTag, ConfirmRefs,
         CompleteMirror, LoseLease, LosesLease, GivesUp
    <2> QED
      BY <1>4, <2>1, <2>2 DEF Work
  <1>5. CASE \/ \E w \in Workers : ClaimNothing(w) \/ Fail(w) \/ Abandon(w)
             \/ \E w \in Workers, j \in Jobs : ClaimGitHistoryJob(w, j)
             \/ \E j \in Jobs : ExpireLease(j)
             \/ \E a \in Artifacts : PurgeRepository(a)
             \/ CompletePurge \/ ReadPurgePlan \/ EndPurge
    BY <1>1, <1>3, <1>5 DEF ClaimNothing, Fail, Abandon, GivesUp, ClaimGitHistoryJob, ExpireLease,
       PurgeRepository, CompletePurge, ReadPurgePlan, EndPurge
  <1>6. CASE UNCHANGED allVars
    BY <1>1, <1>3, <1>6 DEF allVars
  <1> QED
    BY <1>1, <1>2, <1>4, <1>5, <1>6 DEF MirrorNext

\* Theorem: the mirror is never truth.  While workers claim, push, fail and lose their
\* leases, while jobs and coordinates are written beside the rows and repositories are
\* purged, the store keeps every promise of its history: it implements AcceptedHistory, is
\* append-only, numbers without gaps and lets a key take effect once.
THEOREM HistoryUnderMirror ==
  MirrorSpec => /\ KeepsAcceptedHistory
                /\ [][Immutably]_historyVars
                /\ []HistoryIsSound
                /\ []OneEffectPerKey
  <1>1. OwnerInv => HistoryInv /\ HistoryIsSound /\ OneEffectPerKey
    BY DEF OwnerInv, HistoryInv, HistoryIsSound, EffectsRecorded, OneEffectPerKey
  <1>2. OwnerInv /\ [MirrorNext]_allVars => [History!Next]_(History!abstractVars)
    BY <1>1, MirrorMoves, StepRefines
  <1>3. OwnerInv /\ [MirrorNext]_allVars => Immutably
    BY <1>1, MirrorMoves, StepImmutable
  <1>4. MirrorInit => History!Init
    BY InitRefines DEF MirrorInit
  <1> QED
    BY <1>1, <1>2, <1>3, <1>4, OwnerInvariant, PTL DEF MirrorSpec, KeepsAcceptedHistory, History!Spec

\* Theorem: on every store, and whatever is restored, purged, lost or late, a branch holds
\* accepted versions of its artifact, each once and in the order of their numbers, and a
\* recorded commit is such a chain that ends in its own version: a candidate never
\* becomes an ancestor, and no version of another artifact gets into a repository.
THEOREM BranchesAreChains == MirrorSpec => []ChainsSound
  <1>1. OwnerInv => ChainsSound
    BY DEF OwnerInv
  <1> QED
    BY <1>1, OwnerInvariant, PTL

\* A worker that has not pushed yet has one commit more than the tip it read.
WorkBuilt(w) ==
    worker[w].at \in Building \ {"complete"} =>
        worker[w].commit = Append(worker[w].parent, worker[w].job)

BuiltInv == OwnerInv /\ \A w \in Workers : WorkBuilt(w)

\* Workers that go on with what they have keep it so.
LEMMA BuiltKept ==
  ASSUME BuiltInv, OwnerInv', \A w \in Workers : Follows(w)
  PROVE  BuiltInv'
  BY DEF BuiltInv, WorkBuilt, Follows, Building

\* Where no request reaches the provider or the mappings.
LEMMA AsideAdvances ==
  ASSUME OwnerInv, UNCHANGED <<mapping, remote>>
  PROVE  RefsAdvance /\ MappingsStay
  BY SameGrows DEF RefsAdvance, MappingsStay

\* One repository changes at the provider.
LEMMA ProviderAdvances ==
  ASSUME OwnerInv, NEW a \in Artifacts, NEW r, AtProvider(a, r),
         remote[a].exists /\ r.exists =>
           /\ IsPrefixOf(remote[a].main, r.main)
           /\ \A v \in Versions : remote[a].tags[v] # <<>> => r.tags[v] = remote[a].tags[v]
  PROVE  RefsAdvance /\ MappingsStay
  <1>1. mapping' = mapping
    BY DEF AtProvider, mirrorRows
  <1>2. remote'[a] = r /\ \A b \in Artifacts : b # a => remote'[b] = remote[b]
    BY DEF AtProvider, OwnerInv, MirrorTypeOK
  <1>3. remote[a].exists /\ r.exists => RemoteGrows(a)
    BY <1>2 DEF RemoteGrows
  <1> QED
    BY <1>1, <1>2, <1>3, SameGrows DEF RefsAdvance, MappingsStay

\* The branch is pushed from the tip that was read as the parent.
LEMMA PushAdvances ==
  ASSUME OwnerInv, NEW w \in Workers, WorkBuilt(w), PushBranch(w)
  PROVE  RefsAdvance /\ MappingsStay
  <1>1. worker[w].at = "push"
    BY PushBranchDoes
  <1>2. PICK a \in Artifacts : a = ArtifactOf(worker[w].job)
    BY <1>1, WorkerTypes
  <1>3. CASE Quiet
    BY <1>3, AsideAdvances DEF Quiet
  <1>4. CASE FastForward(w) /\ AtProvider(a, [Remote(w) EXCEPT !.main = worker[w].commit])
    <2>1. PICK s, p, r : s = worker[w].commit /\ p = worker[w].parent /\ r = [remote[a] EXCEPT !.main = s]
      OBVIOUS
    <2>2. remote[a] \in RemoteRows /\ p \in Seq(Versions) /\ worker[w].job \in Versions
      BY <1>1, <2>1, MirrorTypes, WorkerTypes DEF OwnerInv, WorkerRows, Building, Steps
    <2>3. AtProvider(a, r) /\ remote[a].main = p
      BY <1>2, <1>4, <2>1 DEF FastForward, Remote
    <2>4. r.main = s /\ r.tags = remote[a].tags
      BY <2>1, <2>2 DEF RemoteRows
    <2>5. s = Append(p, worker[w].job)
      BY <1>1, <2>1 DEF WorkBuilt, Building, Steps
    <2>6. IsPrefixOf(p, s)
      <3>1. \A v \in Versions : IsPrefixOf(p, Append(p, v))
        BY <2>2, Prefixes
      <3> QED
        BY <2>2, <2>5, <3>1
    <2>7. /\ IsPrefixOf(remote[a].main, r.main)
          /\ \A v \in Versions : remote[a].tags[v] # <<>> => r.tags[v] = remote[a].tags[v]
      BY <2>3, <2>4, <2>6
    <2>8. AtProvider(a, r)
      BY <2>3
    <2> QED
      BY <2>7, <2>8, ProviderAdvances
  <1> QED
    BY <1>2, <1>3, <1>4, PushBranchDoes

\* A tag is set once.
LEMMA TagAdvances ==
  ASSUME OwnerInv, NEW w \in Workers, PushTag(w)
  PROVE  RefsAdvance /\ MappingsStay
  <1>1. worker[w].at \in {"tag", "retag"}
    BY PushTagDoes
  <1>2. PICK a \in Artifacts : a = ArtifactOf(worker[w].job)
    BY <1>1, WorkerTypes
  <1>3. CASE Quiet
    BY <1>3, AsideAdvances DEF Quiet
  <1>4. CASE /\ TagOf(w) \in {<<>>, worker[w].commit}
             /\ AtProvider(a, [Remote(w) EXCEPT !.tags[worker[w].job] = worker[w].commit])
    <2>1. PICK s, j, r : s = worker[w].commit /\ j = worker[w].job /\ r = [remote[a] EXCEPT !.tags[j] = s]
      OBVIOUS
    <2>2. remote[a] \in RemoteRows /\ j \in Versions
      BY <1>1, <2>1, MirrorTypes, WorkerTypes DEF OwnerInv, Building, Steps
    <2>3. AtProvider(a, r) /\ remote[a].tags[j] \in {<<>>, s}
      BY <1>2, <1>4, <2>1 DEF Remote, TagOf
    <2>4. /\ r.main = remote[a].main /\ r.tags[j] = s
          /\ \A v \in Versions : v # j => r.tags[v] = remote[a].tags[v]
      BY <2>1, <2>2 DEF RemoteRows
    <2>5. IsPrefixOf(remote[a].main, r.main)
      BY <2>2, <2>4, Prefixes DEF RemoteRows
    <2>6. \A v \in Versions : remote[a].tags[v] # <<>> => r.tags[v] = remote[a].tags[v]
      BY <2>3, <2>4
    <2>7. AtProvider(a, r)
      BY <2>3
    <2> QED
      BY <2>5, <2>6, <2>7, ProviderAdvances
  <1> QED
    BY <1>2, <1>3, <1>4, PushTagDoes

\* Every step of a worker.
LEMMA WorkAdvances ==
  ASSUME BuiltInv, NEW w \in Workers, Work(w) \/ Fail(w) \/ Abandon(w)
  PROVE  BuiltInv' /\ RefsAdvance /\ MappingsStay
  <1>1. OwnerInv /\ OwnerInv' /\ WorkBuilt(w)
    BY WorkOwners DEF BuiltInv
  <1>2. ASSUME Quiet
        PROVE  BuiltInv' /\ RefsAdvance /\ MappingsStay
    BY <1>1, <1>2, BuiltKept, AsideAdvances DEF Quiet
  <1>3. CASE FindVersion(w)
    <2>1. ASSUME NEW at \in {"complete", "reserve"}, NEW p, NEW s, Finds(w, at, p, s),
                 at = "reserve" => s = Append(p, worker[w].job)
          PROVE  BuiltInv' /\ RefsAdvance /\ MappingsStay
      <3>1. RefsAdvance /\ MappingsStay
        BY <1>1, <2>1, AsideAdvances DEF Finds, mirrorRows
      <3>2. WorkBuilt(w)'
        BY <2>1 DEF Finds, WorkBuilt
      <3>3. \A x \in Workers : x # w => WorkBuilt(x)'
        BY <2>1 DEF Finds, BuiltInv, WorkBuilt
      <3> QED
        BY <1>1, <3>1, <3>2, <3>3 DEF BuiltInv
    <2> QED
      BY <1>1, <1>2, <1>3, <2>1, FindVersionDoes
  <1>4. CASE \/ ReserveBudget(w) \/ FindRepository(w) \/ LookupCommit(w) \/ BuildCommit(w)
             \/ AssertOwner(w) \/ ConfirmRefs(w) \/ LoseLease(w) \/ Fail(w) \/ Abandon(w)
    BY <1>1, <1>2, <1>4, ReserveBudgetDoes, FindRepositoryDoes, LookupCommitDoes, TurnsOnly
  <1>5. ASSUME \A x \in Workers : Follows(x), RefsAdvance, MappingsStay
        PROVE  BuiltInv' /\ RefsAdvance /\ MappingsStay
    BY <1>1, <1>5, BuiltKept
  <1>6. CASE CreateRepository(w)
    <2>1. PICK a \in Artifacts : a = ArtifactOf(worker[w].job)
      BY <1>1, <1>6, CreateRepositoryDoes, WorkerTypes
    <2>2. PICK r : r = IF remote[a].exists THEN remote[a] ELSE EmptyRemote
      OBVIOUS
    <2>3. AtProvider(a, r) /\ remote[a] \in RemoteRows
      BY <1>1, <1>6, <2>1, <2>2, CreateRepositoryDoes, MirrorTypes DEF OwnerInv
    <2>4. remote[a].exists => r = remote[a] /\ IsPrefixOf(remote[a].main, remote[a].main)
      BY <2>2, <2>3, Prefixes DEF RemoteRows
    <2>5. RefsAdvance /\ MappingsStay
      BY <1>1, <2>3, <2>4, ProviderAdvances
    <2> QED
      BY <1>5, <2>3, <2>5 DEF AtProvider
  <1>7. CASE RemoveRepository(w)
    <2>1. AtProvider(ArtifactOf(worker[w].job), NoRemote) /\ worker[w].at = "remove"
      BY <1>1, <1>7, RemoveRepositoryDoes
    <2>2. PICK a \in Artifacts : a = ArtifactOf(worker[w].job)
      BY <1>1, <2>1, WorkerTypes
    <2>3. AtProvider(a, NoRemote) /\ ~NoRemote.exists
      BY <2>1, <2>2 DEF NoRemote
    <2>4. RefsAdvance /\ MappingsStay
      BY <1>1, <2>3, ProviderAdvances
    <2> QED
      BY <1>5, <2>3, <2>4 DEF AtProvider
  <1>8. CASE PushBranch(w) \/ PushTag(w)
    <2>1. RefsAdvance /\ MappingsStay
      BY <1>1, <1>8, PushAdvances, TagAdvances
    <2>2. \A x \in Workers : Follows(x)
      BY <1>1, <1>8, PushBranchDoes, PushTagDoes DEF Quiet, Turns
    <2> QED
      BY <1>5, <2>1, <2>2
  <1>9. CASE RecordRepository(w)
    <2>1. UNCHANGED <<mapping, remote>> /\ \A x \in Workers : Follows(x)
      BY <1>1, <1>9, RecordRepositoryDoes DEF Turns
    <2> QED
      BY <1>1, <1>5, <2>1, AsideAdvances
  <1>10. ASSUME remote' = remote
         PROVE  RefsAdvance
    BY <1>1, <1>10, SameGrows DEF RefsAdvance
  <1>11. CASE CompleteDeletion(w)
    <2>1. /\ remote' = remote /\ \A x \in Workers : Follows(x)
          /\ \A v \in Versions :
                /\ mapping'[v].commit = mapping[v].commit
                /\ mapping'[v].st = "none" <=> mapping[v].st = "none"
                /\ mapping'[v].st = "recorded" => mapping[v].st = "recorded"
      BY <1>1, <1>11, CompleteDeletionDoes DEF Turns
    <2>2. MappingsStay
      BY <1>1, <2>1 DEF MappingsStay, OwnerInv, MirrorTypeOK
    <2> QED
      BY <1>5, <1>10, <2>1, <2>2
  <1>12. CASE CompleteMirror(w)
    <2>1. PICK v \in Versions : v = worker[w].job
      BY <1>1, <1>12, CompleteMirrorDoes, WorkerTypes DEF Building, Steps
    <2>2. /\ remote' = remote /\ \A x \in Workers : Follows(x)
          /\ \A u \in Versions : u # v => mapping'[u] = mapping[u]
          /\ mapping[v].st # "none" => mapping'[v] = mapping[v]
      BY <1>1, <1>12, <2>1, CompleteMirrorDoes DEF Turns
    <2>3. MappingsStay
      BY <2>2 DEF MappingsStay
    <2> QED
      BY <1>5, <1>10, <2>2, <2>3
  <1> QED
    BY <1>3, <1>4, <1>6, <1>7, <1>8, <1>9, <1>11, <1>12 DEF Work

\* The steps of the operator's purge.
LEMMA PurgeAdvances ==
  ASSUME BuiltInv, (\E a \in Artifacts : PurgeRepository(a)) \/ CompletePurge \/ ReadPurgePlan \/ EndPurge
  PROVE  RefsAdvance /\ MappingsStay /\ worker' = worker
  <1>1. OwnerInv
    BY DEF BuiltInv
  <1>2. ASSUME NEW a \in Artifacts, PurgeRepository(a)
        PROVE  RefsAdvance /\ MappingsStay
    <2>1. remote'[a] = NoRemote /\ mapping' = mapping /\ \A b \in Artifacts : b # a => remote'[b] = remote[b]
      BY <1>1, <1>2 DEF PurgeRepository, mirrorRows, OwnerInv, MirrorTypeOK
    <2> QED
      BY <1>1, <2>1, SameGrows DEF RefsAdvance, MappingsStay, NoRemote
  <1>3. CASE CompletePurge
    <2>1. remote' = remote
      BY <1>3 DEF CompletePurge
    <2>2. mapping' = [v \in Versions |->
                        IF v \in VersionsOf(purging) /\ mapping[v].st # "none"
                        THEN [mapping[v] EXCEPT !.st = "deleted"] ELSE mapping[v]]
      BY <1>3 DEF CompletePurge, Removal
    <2>3. mapping \in [Versions -> MappingRows]
      BY <1>1, MirrorTypes DEF OwnerInv
    <2>4. MappingsStay
      BY <2>2, <2>3 DEF MappingsStay, MappingRows
    <2> QED
      BY <1>1, <1>3, <2>1, <2>4, SameGrows DEF RefsAdvance, CompletePurge
  <1>4. CASE ReadPurgePlan \/ EndPurge
    BY <1>1, <1>4, AsideAdvances DEF ReadPurgePlan, EndPurge, mirrorRows
  <1>5. worker' = worker
    BY DEF PurgeRepository, CompletePurge, ReadPurgePlan, EndPurge
  <1> QED
    BY <1>2, <1>3, <1>4, <1>5

\* Every step.
LEMMA NextAdvances ==
  ASSUME BuiltInv, [MirrorNext]_allVars
  PROVE  BuiltInv' /\ RefsAdvance /\ MappingsStay
  <1>1. OwnerInv /\ OwnerInv'
    BY NextOwners DEF BuiltInv
  <1>2. ASSUME worker' = worker
        PROVE  BuiltInv'
    BY <1>1, <1>2 DEF BuiltInv, WorkBuilt
  <1>3. CASE UNCHANGED mirrorVars
    BY <1>1, <1>2, <1>3, AsideAdvances DEF mirrorVars
  <1>4. CASE \E w \in Workers : Work(w) \/ Fail(w) \/ Abandon(w)
    BY <1>4, WorkAdvances
  <1>5. ASSUME NEW w \in Workers, NEW j \in Jobs, ClaimGitHistoryJob(w, j)
        PROVE  BuiltInv' /\ RefsAdvance /\ MappingsStay
    <2>1. /\ UNCHANGED <<mapping, remote>> /\ worker'[w].at = "claimed"
          /\ \A x \in Workers : x # w => worker'[x] = worker[x]
      BY <1>1, <1>5, ClaimDoes
    <2>2. \A x \in Workers : WorkBuilt(x)'
      BY <2>1 DEF BuiltInv, WorkBuilt, Building
    <2> QED
      BY <1>1, <2>1, <2>2, AsideAdvances DEF BuiltInv
  <1>6. CASE (\E w \in Workers : ClaimNothing(w)) \/ (\E j \in Jobs : ExpireLease(j))
    BY <1>1, <1>2, <1>6, JobsOnly, AsideAdvances DEF Quiet
  <1>7. CASE (\E a \in Artifacts : PurgeRepository(a)) \/ CompletePurge \/ ReadPurgePlan \/ EndPurge
    BY <1>2, <1>7, PurgeAdvances
  <1>8. CASE UNCHANGED allVars
    BY <1>3, <1>8 DEF allVars
  <1> QED
    BY <1>3, <1>4, <1>5, <1>6, <1>7, <1>8 DEF MirrorNext

\* Theorem: published Git history is never rewritten, on every store and whatever is
\* restored, purged, lost or late: until its repository is removed a branch is only
\* fast-forwarded and a tag never moves, and a recorded mapping keeps its commit and, once
\* a removal has marked it, its mark, although workers that lost their leases go on
\* pushing.
THEOREM GitIsAppendOnly == MirrorSpec => PublishedHistoryStays
  <1>1. MirrorInit => BuiltInv
    BY InitOwners DEF MirrorInit, BuiltInv, WorkBuilt, Idle, Building
  <1>2. BuiltInv /\ [MirrorNext]_allVars => BuiltInv' /\ RefsAdvance /\ MappingsStay
    BY NextAdvances
  <1> QED
    BY <1>1, <1>2, PTL DEF MirrorSpec, PublishedHistoryStays

-----------------------------------------------------------------------------
(* No repository is forgotten, with one worker                             *)

Pending(j) == job[j].st \in {"queued", "claimed"}

\* The steps of a worker before the row of the repository is written.
Early == {"claimed", "reserve", "find", "create", "record"}

\* A repository without a row is known to the job that made it; one whose row is to be
\* deleted has its job, and one whose row is deleted is gone.
RepoSound(a) ==
    /\ repo[a] = "none" /\ remote[a].exists => \E v \in VersionsOf(a) : Pending(v)
    /\ job[a].st # "none" => repo[a] \in {"deleting", "deleted"}
    /\ repo[a] = "deleting" => Pending(a)
    /\ repo[a] = "deleted" => ~remote[a].exists
    /\ Deleted(a) => repo[a] # "provisioned"

\* A worker makes a repository only where there is no row, while its job is there.
HolderSound(w) ==
    worker[w].at # "idle" =>
        /\ job[worker[w].job].st # "none"
        /\ worker[w].at \in Early /\ repo[ArtifactOf(worker[w].job)] = "none" => Pending(worker[w].job)
        /\ worker[w].at \in {"create", "record"} => repo[ArtifactOf(worker[w].job)] = "none"
        /\ worker[w].at \notin Early => repo[ArtifactOf(worker[w].job)] # "none"
        /\ worker[w].at = "removed" => ~remote[ArtifactOf(worker[w].job)].exists

OrphanInv ==
    /\ OwnerInv
    /\ \A a \in Artifacts : RepoSound(a)
    /\ \A v \in Versions : mapping[v].st # "none" => repo[version[v].art] # "none"
    /\ \A w \in Workers : HolderSound(w)
    /\ purging \in Artifacts => repo[purging] # "none" /\ ~remote[purging].exists

\* No job is ended, and no deletion queued.
JobsStay ==
    \A j \in Jobs :
        /\ Pending(j) => Pending(j)'
        /\ job[j].st # "none" => job'[j].st # "none"
        /\ j \in Artifacts /\ job'[j].st # "none" => job[j].st # "none"

\* A worker leaves, or goes on to a step that the row of its repository allows.
HolderMoves(w) ==
    worker'[w].at # "idle" =>
        /\ worker[w].at # "idle" /\ worker'[w].job = worker[w].job
        /\ worker'[w].at \in Early => worker[w].at \in Early
        /\ worker'[w].at \in {"create", "record"} => repo[ArtifactOf(worker[w].job)] = "none"
        /\ worker'[w].at \notin Early => repo[ArtifactOf(worker[w].job)] # "none"
        /\ worker'[w].at = "removed" => ~remote[ArtifactOf(worker[w].job)].exists

\* A worker that stays is one.
LEMMA HolderStays ==
  ASSUME OrphanInv, NEW w \in Workers, worker'[w] = worker[w]
  PROVE  HolderMoves(w)
  BY DEF OrphanInv, HolderSound, HolderMoves

\* A step that leaves the rows of the repositories, and which of them exist.
LEMMA OrphanQuiet ==
  ASSUME OrphanInv, OwnerInv', UNCHANGED <<artifact, version, repo, mapping, purging>>, JobsStay,
         \A a \in Artifacts : remote'[a].exists <=> remote[a].exists,
         \A x \in Workers : HolderMoves(x)
  PROVE  OrphanInv'
  <1>1. OwnerInv /\ Artifacts \subseteq Jobs /\ Versions \subseteq Jobs
    BY DEF OrphanInv, Jobs
  <1>2. ASSUME NEW a \in Artifacts
        PROVE  RepoSound(a)'
    <2>1. RepoSound(a)
      BY DEF OrphanInv
    <2>2. VersionsOf(a)' = VersionsOf(a) /\ VersionsOf(a) \subseteq Versions
      BY DEF VersionsOf
    <2>3. \A j \in Jobs : Pending(j) => Pending(j)'
      BY DEF JobsStay
    <2>4. repo'[a] = "none" /\ remote'[a].exists => \E v \in VersionsOf(a)' : Pending(v)'
      BY <1>1, <2>1, <2>2, <2>3 DEF RepoSound
    <2>5. repo'[a] = "deleting" => Pending(a)'
      BY <1>1, <2>1, <2>3 DEF RepoSound
    <2>6. job'[a].st # "none" => repo'[a] \in {"deleting", "deleted"}
      BY <1>1, <2>1 DEF RepoSound, JobsStay
    <2> QED
      BY <2>1, <2>4, <2>5, <2>6 DEF RepoSound, Deleted
  <1>3. ASSUME NEW x \in Workers, worker'[x].at # "idle"
        PROVE  HolderSound(x)'
    <2> PICK j : j = worker[x].job
      OBVIOUS
    <2>1. PICK a \in Artifacts : a = ArtifactOf(j)
      BY <1>1, <1>3, WorkerTypes DEF HolderMoves
    <2>2. /\ j \in Jobs /\ worker'[x].job = j /\ ArtifactOf(j)' = a
          /\ worker[x].at # "idle"
      BY <1>1, <1>3, <2>1, WorkerTypes DEF HolderMoves, ArtifactOf
    <2>3. /\ job[j].st # "none"
          /\ worker[x].at \in Early /\ repo[a] = "none" => Pending(j)
      BY <2>1, <2>2 DEF OrphanInv, HolderSound
    <2>4. /\ worker'[x].at \in Early => worker[x].at \in Early
          /\ worker'[x].at \in {"create", "record"} => repo[a] = "none"
          /\ worker'[x].at \notin Early => repo[a] # "none"
          /\ worker'[x].at = "removed" => ~remote[a].exists
      BY <1>3, <2>1 DEF HolderMoves
    <2>5. job'[j].st # "none" /\ (Pending(j) => Pending(j)')
      BY <2>2, <2>3 DEF JobsStay
    <2>6. Pending(worker[x].job)' <=> Pending(j)'
      BY <2>2 DEF Pending
    <2>7. ArtifactOf(worker[x].job)' = a
      BY <2>2 DEF ArtifactOf
    <2> QED
      BY <2>2, <2>3, <2>4, <2>5, <2>6, <2>7 DEF HolderSound
  <1>4. \A x \in Workers : HolderSound(x)'
    BY <1>3 DEF HolderSound
  <1>5. purging' \in Artifacts => repo'[purging'] # "none" /\ ~remote'[purging'].exists
    BY <1>1 DEF OrphanInv, OwnerInv, MirrorTypeOK
  <1> QED
    BY <1>2, <1>4, <1>5 DEF OrphanInv

\* Where a worker goes.
LEMMA GoesAt ==
  ASSUME MirrorTypeOK, NEW w \in Workers, NEW at
  PROVE  /\ Goes(w, at) => /\ worker'[w].at = at /\ worker'[w].job = worker[w].job
                           /\ \A x \in Workers : x # w => worker'[x] = worker[x]
         /\ Leaves(w) => /\ worker'[w].at = "idle"
                         /\ \A x \in Workers : x # w => worker'[x] = worker[x]
  <1>1. worker \in [Workers -> WorkerRows] /\ Idle.at = "idle"
    BY MirrorTypes DEF Idle
  <1> QED
    BY <1>1 DEF Goes, Leaves, WorkerRows

\* A job that is released, or a row that is refreshed, is still to be done.
LEMMA ReleasedStays ==
  ASSUME OwnerInv, NEW w \in Workers, worker[w].at # "idle", job' \in {job, Released(w)}
  PROVE  JobsStay
  <1> DEFINE j == worker[w].job
  <1>1. j \in Jobs /\ job \in [Jobs -> JobRows]
    BY DEF OwnerInv, WorkersSound, WorkerSound, HistoryInv, TypeOK, Jobs
  <1>2. CASE job' = job
    BY <1>2 DEF JobsStay, Pending
  <1>3. CASE job' = [job EXCEPT ![j].st = "queued", ![j].live = FALSE] /\ job[j].st = "claimed"
    <2>1. job'[j].st = "queued" /\ \A k \in Jobs : k # j => job'[k] = job[k]
      BY <1>1, <1>3 DEF JobRows
    <2> QED
      BY <1>3, <2>1 DEF JobsStay, Pending
  <1> QED
    BY <1>2, <1>3 DEF Released

\* The same of a pass over the rows, and of a lease that runs out.
LEMMA RefreshedStays ==
  ASSUME OwnerInv
  PROVE  /\ \A j \in Jobs : /\ Pending(j) => Refreshed[j].st \in {"queued", "claimed"}
                            /\ job[j].st # "none" => Refreshed[j].st # "none"
                            /\ j \in Artifacts /\ Refreshed[j].st # "none" => job[j].st # "none"
         /\ (\E j \in Jobs : ExpireLease(j)) \/ (\E w \in Workers : ClaimNothing(w)) => JobsStay
  <1>1. job \in [Jobs -> JobRows] /\ Artifacts \cap Versions = {}
    BY HistoryNames DEF OwnerInv, HistoryInv, TypeOK, Jobs, HistoryNames
  <1>2. ASSUME NEW j \in Jobs
        PROVE  /\ Pending(j) => Refreshed[j].st \in {"queued", "claimed"}
               /\ job[j].st # "none" => Refreshed[j].st # "none"
               /\ j \in Artifacts /\ Refreshed[j].st # "none" => job[j].st # "none"
    <2>1. job[j] \in JobRows
      BY <1>1
    <2>2. \/ Refreshed[j] = [job[j] EXCEPT !.st = "queued"] /\ (j \in Artifacts => job[j].st # "none")
          \/ Refreshed[j] = job[j]
      BY <1>1 DEF Refreshed
    <2>3. [job[j] EXCEPT !.st = "queued"].st = "queued"
      BY <2>1 DEF JobRows
    <2> QED
      BY <2>2, <2>3 DEF Pending
  <1>3. ASSUME NEW j \in Jobs, ExpireLease(j)
        PROVE  JobsStay
    <2>1. job'[j].st = job[j].st /\ \A k \in Jobs : k # j => job'[k] = job[k]
      BY <1>1, <1>3 DEF ExpireLease, JobRows
    <2>2. \A k \in Jobs : job'[k].st = job[k].st
      BY <2>1
    <2> QED
      BY <2>2 DEF JobsStay, Pending
  <1>4. ASSUME NEW w \in Workers, ClaimNothing(w)
        PROVE  JobsStay
    <2>1. job' = Refreshed
      BY <1>4 DEF ClaimNothing
    <2> QED
      BY <1>2, <2>1 DEF JobsStay, Pending
  <1> QED
    BY <1>2, <1>3, <1>4

\* A worker reads what it works on.
LEMMA FindVersionMoves ==
  ASSUME OrphanInv, NEW w \in Workers, FindVersion(w)
  PROVE  HolderMoves(w) /\ job' \in {job, Released(w)} /\ \A x \in Workers : x # w => worker'[x] = worker[x]
  <1>1. OwnerInv /\ MirrorTypeOK /\ worker[w].at = "claimed" /\ worker \in [Workers -> WorkerRows]
    BY MirrorTypes DEF OrphanInv, OwnerInv, FindVersion, Act
  <1>2. PICK j, a : /\ j = worker[w].job /\ a = ArtifactOf(j) /\ j \in Jobs /\ a \in Artifacts
                    /\ (j \in Versions => Accepted(j)) /\ job[j].st # "none"
    BY <1>1, WorkerTypes DEF OrphanInv, WorkerSound, HolderSound
  <1>3. RepoSound(a) /\ repo[a] \in RepoStates
    BY <1>1, <1>2 DEF OrphanInv, OwnerInv, HistoryInv, TypeOK, RepoStates
  <1>4. "claimed" \in Early /\ "reserve" \in Early /\ "complete" \notin Early
    BY DEF Early
  <1>5. CASE j \in Artifacts /\ Goes(w, IF HasRepo(j) THEN "remove" ELSE "removed") /\ job' = job
    <2>1. PICK at : at = IF HasRepo(j) THEN "remove" ELSE "removed"
      OBVIOUS
    <2>2. worker'[w].at = at /\ worker'[w].job = j /\ \A x \in Workers : x # w => worker'[x] = worker[x]
      BY <1>1, <1>2, <1>5, <2>1, GoesAt
    <2>3. a = j /\ repo[a] # "none" /\ (at = "removed" => ~remote[a].exists)
      BY <1>2, <1>3, <1>5, <2>1 DEF ArtifactOf, RepoSound, HasRepo, RepoStates
    <2>4. at \notin {"create", "record"} /\ at \notin Early
      BY <2>1 DEF Early
    <2> QED
      BY <1>1, <1>2, <1>5, <2>2, <2>3, <2>4 DEF HolderMoves
  <1>6. CASE /\ j \in Versions /\ Mapped(j) /\ job' = job
             /\ worker' = [worker EXCEPT ![w].at = "complete", ![w].commit = mapping[j].commit]
    <2>1. worker'[w].at = "complete" /\ worker'[w].job = j /\ \A x \in Workers : x # w => worker'[x] = worker[x]
      BY <1>1, <1>2, <1>6 DEF WorkerRows
    <2>2. repo[a] # "none"
      BY <1>2, <1>6, HistoryNames DEF OrphanInv, Mapped, ArtifactOf, HistoryNames
    <2> QED
      BY <1>1, <1>2, <1>4, <1>6, <2>1, <2>2 DEF HolderMoves
  <1>7. ASSUME NEW p, j \in Versions, job' = job,
               worker' = [worker EXCEPT ![w].at = "reserve", ![w].parent = p, ![w].commit = Append(p, j)]
        PROVE  HolderMoves(w) /\ job' = job /\ \A x \in Workers : x # w => worker'[x] = worker[x]
    <2>1. worker'[w].at = "reserve" /\ worker'[w].job = j /\ \A x \in Workers : x # w => worker'[x] = worker[x]
      BY <1>1, <1>2, <1>7 DEF WorkerRows
    <2> QED
      BY <1>1, <1>2, <1>4, <1>7, <2>1 DEF HolderMoves
  <1>8. CASE Leaves(w) /\ job' = Released(w)
    BY <1>1, <1>8, GoesAt DEF HolderMoves
  <1> QED
    BY <1>1, <1>2, <1>5, <1>6, <1>7, <1>8 DEF FindVersion, historyVars

\* The other steps that leave the rows of the repositories alone.
LEMMA QuietWorkMoves ==
  ASSUME OrphanInv, NEW w \in Workers,
         \/ ReserveBudget(w) \/ FindRepository(w) \/ LookupCommit(w) \/ BuildCommit(w) \/ PushBranch(w)
         \/ AssertOwner(w) \/ PushTag(w) \/ ConfirmRefs(w) \/ LoseLease(w) \/ Fail(w) \/ Abandon(w)
  PROVE  HolderMoves(w) /\ job' \in {job, Released(w)} /\ \A x \in Workers : x # w => worker'[x] = worker[x]
  <1>1. OwnerInv /\ MirrorTypeOK /\ worker[w].at # "idle"
    BY DEF OrphanInv, OwnerInv, ReserveBudget, FindRepository, LookupCommit, BuildCommit, PushBranch,
       AssertOwner, PushTag, ConfirmRefs, LoseLease, Fail, Abandon, Act, Fenced
  <1>2. PICK j, a : /\ j = worker[w].job /\ a = ArtifactOf(j) /\ j \in Jobs /\ a \in Artifacts
    BY <1>1, WorkerTypes
  <1>3. worker[w].at \notin Early => repo[a] # "none"
    BY <1>1, <1>2 DEF OrphanInv, HolderSound
  <1>4. CASE Leaves(w) /\ job' \in {job, Released(w)}
    BY <1>1, <1>4, GoesAt DEF HolderMoves
  <1>5. ASSUME NEW at \in Steps \ (Early \cup {"removed"}), Goes(w, at), job' = job, repo[a] # "none"
        PROVE  HolderMoves(w) /\ job' = job /\ \A x \in Workers : x # w => worker'[x] = worker[x]
    <2>1. worker'[w].at = at /\ worker'[w].job = j /\ \A x \in Workers : x # w => worker'[x] = worker[x]
      BY <1>1, <1>2, <1>5, GoesAt
    <2>2. at \notin Early /\ at \notin {"create", "record", "removed"}
      BY <1>5 DEF Early
    <2> QED
      BY <1>1, <1>2, <1>5, <2>1, <2>2 DEF HolderMoves
  <1>6. CASE ReserveBudget(w)
    <2>1. CASE Goes(w, "find") /\ job' = job
      <3>1. worker'[w].at = "find" /\ worker'[w].job = j /\ \A x \in Workers : x # w => worker'[x] = worker[x]
        BY <1>1, <1>2, <2>1, GoesAt
      <3> QED
        BY <1>1, <1>2, <1>6, <2>1, <3>1 DEF HolderMoves, Early, ReserveBudget, Act
    <2> QED
      BY <1>4, <1>6, <2>1 DEF ReserveBudget, historyVars
  <1>7. CASE FindRepository(w)
    <2>1. repo[a] \in RepoStates /\ worker[w].at = "find" /\ job' = job
      BY <1>1, <1>2, <1>7 DEF OwnerInv, HistoryInv, TypeOK, RepoStates, FindRepository, Act, historyVars
    <2>2. CASE repo[a] = "none" /\ Goes(w, "create")
      <3>1. worker'[w].at = "create" /\ worker'[w].job = j /\ \A x \in Workers : x # w => worker'[x] = worker[x]
        BY <1>1, <1>2, <2>2, GoesAt
      <3> QED
        BY <1>1, <1>2, <2>1, <2>2, <3>1 DEF HolderMoves, Early
    <2>3. CASE repo[a] # "none" /\ (Goes(w, "lookup") \/ Goes(w, "remove"))
      <3>1. {"lookup", "remove"} \subseteq Steps \ (Early \cup {"removed"})
        BY DEF Steps, Early
      <3> QED
        BY <1>5, <2>1, <2>3, <3>1
    <2> QED
      BY <1>2, <1>7, <2>1, <2>2, <2>3 DEF FindRepository, RepoStates
  <1>8. CASE \/ LookupCommit(w) \/ BuildCommit(w) \/ PushBranch(w) \/ AssertOwner(w) \/ PushTag(w)
             \/ ConfirmRefs(w)
    <2>1. repo[a] # "none"
      BY <1>3, <1>8 DEF LookupCommit, BuildCommit, PushBranch, AssertOwner, PushTag, ConfirmRefs, Act, Early
    <2>2. CASE GivesUp(w)
      BY <1>4, <2>2 DEF GivesUp
    <2>3. ASSUME ~GivesUp(w)
          PROVE  /\ job' = job
                 /\ \E at \in {"complete", "repair", "commit", "push", "pushed", "tag", "retag", "tagged",
                               "retagged"} : Goes(w, at)
      BY <1>8, <2>3 DEF LookupCommit, BuildCommit, PushBranch, AssertOwner, PushTag, ConfirmRefs, historyVars,
         Lookup
    <2>4. {"complete", "repair", "commit", "push", "pushed", "tag", "retag", "tagged", "retagged"}
            \subseteq Steps \ (Early \cup {"removed"})
      BY DEF Steps, Early
    <2> QED
      BY <1>5, <2>1, <2>2, <2>3, <2>4
  <1>9. CASE LoseLease(w) \/ Fail(w) \/ Abandon(w)
    BY <1>4, <1>9 DEF LoseLease, LosesLease, Fail, GivesUp, Abandon, historyVars
  <1> QED
    BY <1>6, <1>7, <1>8, <1>9

\* They forget no repository.
LEMMA QuietWorkOrphan ==
  ASSUME OrphanInv, NEW w \in Workers,
         \/ FindVersion(w) \/ ReserveBudget(w) \/ FindRepository(w) \/ LookupCommit(w) \/ BuildCommit(w)
         \/ PushBranch(w) \/ AssertOwner(w) \/ PushTag(w) \/ ConfirmRefs(w) \/ LoseLease(w) \/ Fail(w)
         \/ Abandon(w)
  PROVE  OrphanInv'
  <1>1. OwnerInv /\ MirrorTypeOK /\ worker[w].at # "idle"
    BY DEF OrphanInv, OwnerInv, FindVersion, ReserveBudget, FindRepository, LookupCommit, BuildCommit, PushBranch,
       AssertOwner, PushTag, ConfirmRefs, LoseLease, Fail, Abandon, Act, Fenced
  <1>2. OwnerInv'
    BY <1>1, WorkOwners DEF Work
  <1>3. UNCHANGED <<artifact, version, repo, mapping, purging>>
    BY DEF FindVersion, ReserveBudget, FindRepository, LookupCommit, BuildCommit, PushBranch, AssertOwner, PushTag,
       ConfirmRefs, LoseLease, LosesLease, Fail, GivesUp, Abandon, historyVars, mirrorRows, rows
  <1>4. HolderMoves(w) /\ job' \in {job, Released(w)} /\ \A x \in Workers : x # w => worker'[x] = worker[x]
    BY FindVersionMoves, QuietWorkMoves
  <1>5. JobsStay
    BY <1>1, <1>4, ReleasedStays
  <1>6. \A x \in Workers : HolderMoves(x)
    BY <1>4, HolderStays
  <1>7. \A a \in Artifacts : remote'[a].exists <=> remote[a].exists
    <2>1. remote \in [Artifacts -> RemoteRows] /\ ArtifactOf(worker[w].job) \in Artifacts
      BY <1>1, MirrorTypes, WorkerTypes
    <2>2. CASE remote' = remote
      BY <2>2
    <2>3. CASE remote' = [remote EXCEPT ![ArtifactOf(worker[w].job)].main = worker[w].commit]
      BY <2>1, <2>3 DEF RemoteRows
    <2>4. CASE remote' = [remote EXCEPT
                            ![ArtifactOf(worker[w].job)].tags[worker[w].job] = worker[w].commit]
      BY <2>1, <2>4 DEF RemoteRows
    <2> QED
      BY <2>2, <2>3, <2>4 DEF FindVersion, ReserveBudget, FindRepository, LookupCommit, BuildCommit, PushBranch,
         AssertOwner, PushTag, ConfirmRefs, LoseLease, LosesLease, Fail, GivesUp, Abandon
  <1> QED
    BY <1>1, <1>2, <1>3, <1>5, <1>6, <1>7, OrphanQuiet

Alone == \A x, y \in Workers : x = y

\* What OrphanInv is, part by part.
LEMMA OrphanParts ==
  ASSUME OwnerInv', \A a \in Artifacts : RepoSound(a)', \A w \in Workers : HolderSound(w)',
         \A v \in Versions : mapping'[v].st # "none" => repo'[version'[v].art] # "none",
         purging' \in Artifacts => repo'[purging'] # "none" /\ ~remote'[purging'].exists
  PROVE  OrphanInv'
  BY DEF OrphanInv

\* What a repository needs of the rows, where its own are left alone.
LEMMA RepoKept ==
  ASSUME NEW a \in Artifacts, RepoSound(a), version' = version, artifact' = artifact,
         repo'[a] = repo[a], remote'[a].exists => remote[a].exists,
         \A j \in {a} \cup VersionsOf(a) : Pending(j) => Pending(j)',
         job'[a].st # "none" => job[a].st # "none"
  PROVE  RepoSound(a)'
  <1>1. VersionsOf(a)' = VersionsOf(a)
    BY DEF VersionsOf
  <1> QED
    BY <1>1 DEF RepoSound, Deleted

\* A worker makes the repository while its own job is pending.
LEMMA CreateRepositoryOrphan ==
  ASSUME OrphanInv, Alone, NEW w \in Workers, CreateRepository(w)
  PROVE  OrphanInv'
  <1>1. OwnerInv /\ MirrorTypeOK /\ worker[w].at = "create" /\ OwnerInv' /\ remote \in [Artifacts -> RemoteRows]
    BY CreateRepositoryDoes, MirrorTypes DEF OrphanInv, OwnerInv
  <1>2. PICK v \in Versions, a \in Artifacts : v = worker[w].job /\ a = ArtifactOf(v) /\ v \in VersionsOf(a)
    <2>1. worker[w].job \in Versions /\ Accepted(worker[w].job) /\ ArtifactOf(worker[w].job) \in Artifacts
          /\ ArtifactOf(worker[w].job) = version[worker[w].job].art
      BY <1>1, WorkerTypes DEF Building, Steps, WorkerSound
    <2> QED
      BY <2>1 DEF VersionsOf, Accepted, AcceptedStates
  <1>3. repo[a] = "none" /\ Pending(v) /\ job[v].st # "none"
    BY <1>1, <1>2 DEF OrphanInv, HolderSound, Early
  <1>4. /\ UNCHANGED <<artifact, version, repo, mapping, purging, job>>
        /\ worker'[w].at = "record" /\ worker'[w].job = v
        /\ \A b \in Artifacts : b # a => remote'[b] = remote[b]
    BY <1>1, <1>2, GoesAt DEF CreateRepository, historyVars, mirrorRows, rows
  <1>5. ASSUME NEW b \in Artifacts
        PROVE  RepoSound(b)'
    <2>1. CASE b # a
      BY <1>4, <2>1, RepoKept DEF OrphanInv, Pending
    <2>2. CASE b = a
      <3>1. VersionsOf(a)' = VersionsOf(a) /\ Pending(v)'
        BY <1>3, <1>4 DEF VersionsOf, Pending
      <3>2. RepoSound(a)
        BY DEF OrphanInv
      <3> QED
        BY <1>2, <1>3, <1>4, <2>2, <3>1, <3>2 DEF RepoSound, Deleted
    <2> QED
      BY <2>1, <2>2
  <1>6. HolderSound(w)'
    <2>1. ArtifactOf(worker[w].job)' = a /\ (Pending(worker[w].job)' <=> Pending(v)')
      BY <1>2, <1>4 DEF ArtifactOf, Pending
    <2> QED
      BY <1>3, <1>4, <2>1 DEF HolderSound, Early, Pending
  <1>7. purging' \in Artifacts => repo'[purging'] # "none" /\ ~remote'[purging'].exists
    <2>1. purging \in Artifacts => purging # a
      BY <1>1, <1>3 DEF OrphanInv, MirrorTypeOK
    <2> QED
      BY <1>4, <2>1 DEF OrphanInv
  <1>8. \A u \in Versions : mapping'[u].st # "none" => repo'[version'[u].art] # "none"
    BY <1>4 DEF OrphanInv
  <1>9. \A x \in Workers : HolderSound(x)'
    BY <1>6 DEF Alone
  <1> QED
    BY <1>1, <1>5, <1>7, <1>8, <1>9, OrphanParts

\* The row is written; that of a deleted artifact is queued for deletion.
LEMMA RecordRepositoryOrphan ==
  ASSUME OrphanInv, Alone, ~D1, NEW w \in Workers, RecordRepository(w)
  PROVE  OrphanInv'
  <1>1. /\ OwnerInv /\ MirrorTypeOK /\ worker[w].at = "record" /\ OwnerInv'
        /\ UNCHANGED <<artifact, version, mapping, remote, purging>>
    BY RecordRepositoryDoes DEF OrphanInv, OwnerInv
  <1>2. PICK v, a : /\ v = worker[w].job /\ a = ArtifactOf(v) /\ v \in Versions /\ v # a
                    /\ a \in Artifacts /\ a \in Jobs /\ v \in Jobs /\ a \notin Versions
    BY <1>1, WorkerTypes, HistoryNames DEF Building, Steps, HistoryNames, Jobs
  <1>3. RepoSound(a) /\ repo[a] = "none" /\ job[a].st = "none" /\ job[v].st # "none"
    BY <1>1, <1>2 DEF OrphanInv, HolderSound, RepoSound
  <1>4. /\ job \in [Jobs -> JobRows] /\ repo \in [Artifacts -> RepoStates]
    BY <1>1 DEF OwnerInv, HistoryInv, TypeOK, Jobs, RepoStates
  <1>5. /\ repo'[a] = IF Deleted(a) THEN "deleting" ELSE "provisioned"
        /\ \A b \in Artifacts : b # a => repo'[b] = repo[b]
        /\ job' = IF Deleted(a) THEN [job EXCEPT ![a].st = "queued"] ELSE job
    BY <1>2, <1>3, <1>4 DEF RecordRepository, DeletionQueued, Deleted
  <1>6. /\ \A j \in Jobs : j # a => job'[j] = job[j]
        /\ Deleted(a) => job'[a].st = "queued"
        /\ ~Deleted(a) => job'[a].st = "none"
    BY <1>2, <1>3, <1>4, <1>5 DEF JobRows
  <1>7. ASSUME NEW b \in Artifacts
        PROVE  RepoSound(b)'
    <2>1. CASE b # a
      <3>1. \A j \in {b} \cup VersionsOf(b) : j \in Jobs /\ j # a
        BY <1>2, <2>1 DEF VersionsOf, Jobs
      <3> QED
        BY <1>1, <1>5, <1>6, <2>1, <3>1, RepoKept DEF OrphanInv, Pending
    <2>2. CASE b = a
      BY <1>1, <1>3, <1>5, <1>6, <2>2 DEF RepoSound, Deleted, Pending
    <2> QED
      BY <2>1, <2>2
  <1>8. HolderSound(w)'
    <2>1. PICK at \in {"lookup", "remove"} : Goes(w, at)
      BY DEF RecordRepository
    <2>2. worker'[w].at = at /\ worker'[w].job = v
      BY <1>1, <1>2, <2>1, GoesAt
    <2>3. ArtifactOf(worker[w].job)' = a
      BY <1>1, <1>2, <2>2 DEF ArtifactOf
    <2> QED
      BY <1>2, <1>3, <1>5, <1>6, <2>2, <2>3 DEF HolderSound, Early
  <1>9. purging' \in Artifacts => repo'[purging'] # "none" /\ ~remote'[purging'].exists
    <2>1. purging \in Artifacts => purging # a
      BY <1>1, <1>3 DEF OrphanInv, MirrorTypeOK
    <2> QED
      BY <1>1, <1>5, <2>1 DEF OrphanInv
  <1>10. ASSUME NEW u \in Versions, mapping'[u].st # "none"
         PROVE  repo'[version'[u].art] # "none"
    <2>1. version[u].art \in Artifacts /\ repo[version[u].art] # "none"
      BY <1>1, <1>10 DEF OrphanInv, OwnerInv, ChainsSound, HistoryInv, RowsSound, Accepted, AcceptedStates
    <2> QED
      BY <1>1, <1>3, <1>5, <2>1
  <1>11. \A x \in Workers : HolderSound(x)'
    BY <1>8 DEF Alone
  <1> QED
    BY <1>1, <1>7, <1>9, <1>10, <1>11, OrphanParts

\* The repository is removed by the worker, or by the purge.
LEMMA RemoveOrphan ==
  ASSUME OrphanInv, OwnerInv', NEW a \in Artifacts, repo[a] # "none",
         UNCHANGED <<artifact, version, repo, mapping, job>>,
         remote' = [remote EXCEPT ![a] = NoRemote], purging' \in {purging, a},
         \A w \in Workers : \/ worker'[w] = worker[w]
                            \/ /\ worker[w].at = "remove" /\ worker'[w].at = "removed"
                               /\ worker'[w].job = worker[w].job /\ ArtifactOf(worker[w].job) = a
  PROVE  OrphanInv'
  <1>1. OwnerInv /\ remote \in [Artifacts -> RemoteRows] /\ purging \in Artifacts \cup {None, "approved"}
    BY MirrorTypes DEF OrphanInv, OwnerInv
  <1>2. ~remote'[a].exists /\ \A b \in Artifacts : b # a => remote'[b] = remote[b]
    BY <1>1 DEF NoRemote
  <1>3. \A b \in Artifacts : remote'[b].exists => remote[b].exists
    BY <1>2
  <1>4. \A b \in Artifacts : RepoSound(b)'
    BY <1>3, RepoKept DEF OrphanInv, Pending
  <1>5. ASSUME NEW w \in Workers, worker'[w].at # "idle"
        PROVE  HolderSound(w)'
    <2>1. worker[w].at # "idle" /\ worker'[w].job = worker[w].job
      BY <1>5
    <2>2. PICK j, b : j = worker[w].job /\ b = ArtifactOf(j) /\ j \in Jobs /\ b \in Artifacts
      BY <1>1, <2>1, WorkerTypes
    <2>3. ArtifactOf(worker[w].job)' = b /\ (Pending(worker[w].job)' <=> Pending(j))
      BY <2>1, <2>2 DEF ArtifactOf, Pending
    <2>4. HolderSound(w)
      BY DEF OrphanInv
    <2>5. CASE worker'[w] = worker[w]
      BY <1>3, <2>1, <2>2, <2>3, <2>4, <2>5 DEF HolderSound
    <2>6. CASE worker[w].at = "remove" /\ worker'[w].at = "removed" /\ b = a
      BY <1>2, <2>1, <2>2, <2>3, <2>4, <2>6 DEF HolderSound, Early
    <2> QED
      BY <2>2, <2>5, <2>6
  <1>6. \A w \in Workers : HolderSound(w)'
    BY <1>5 DEF HolderSound
  <1>7. purging' \in Artifacts => repo'[purging'] # "none" /\ ~remote'[purging'].exists
    BY <1>1, <1>2, <1>3 DEF OrphanInv
  <1> QED
    BY <1>4, <1>6, <1>7, OrphanParts DEF OrphanInv

\* The rows of a repository that is gone are closed.
LEMMA RemovalOrphan ==
  ASSUME OrphanInv, OwnerInv', NEW a \in Artifacts, repo[a] # "none", ~remote[a].exists,
         NEW ended \in SUBSET JobsOf(a), Removal(a, ended),
         UNCHANGED <<artifact, version, remote>>, purging' \in {purging, "approved"},
         \A w \in Workers : worker'[w].at = "idle" \/ worker'[w] = worker[w]
  PROVE  OrphanInv'
  <1>1. /\ OwnerInv /\ job \in [Jobs -> JobRows] /\ repo \in [Artifacts -> RepoStates]
        /\ purging \in Artifacts \cup {None, "approved"} /\ mapping \in [Versions -> MappingRows]
        /\ Artifacts \cap Versions = {}
    BY MirrorTypes, HistoryNames DEF OrphanInv, OwnerInv, HistoryInv, TypeOK, Jobs, RepoStates, HistoryNames
  <1>2. repo'[a] = "deleted" /\ \A b \in Artifacts : b # a => repo'[b] = repo[b]
    BY <1>1 DEF Removal
  <1>3. ASSUME NEW j \in Jobs
        PROVE  /\ job'[j].st = "none" <=> job[j].st = "none"
               /\ ArtifactOf(j) # a => job'[j] = job[j]
    <2>1. job[j] \in JobRows /\ [job[j] EXCEPT !.st = "done", !.live = FALSE].st = "done"
      BY <1>1 DEF JobRows
    <2>2. job'[j] = IF j \in ended /\ job[j].st # "none"
                    THEN [job[j] EXCEPT !.st = "done", !.live = FALSE] ELSE job[j]
      BY DEF Removal
    <2>3. ArtifactOf(j) # a => j \notin ended
      BY <1>1 DEF JobsOf, VersionsOf, ArtifactOf
    <2> QED
      BY <2>1, <2>2, <2>3
  <1>4. ASSUME NEW b \in Artifacts
        PROVE  RepoSound(b)'
    <2>1. RepoSound(b) /\ b \in Jobs
      BY DEF OrphanInv, Jobs
    <2>2. CASE b # a
      <3>1. ASSUME NEW j \in {b} \cup VersionsOf(b)
            PROVE  job'[j] = job[j]
        <4>1. j \in Jobs /\ ArtifactOf(j) = b
          BY <1>1, <3>1 DEF VersionsOf, ArtifactOf, Jobs
        <4> QED
          BY <1>3, <2>2, <4>1
      <3> QED
        BY <1>2, <2>1, <2>2, <3>1, RepoKept DEF Pending
    <2>3. CASE b = a
      BY <1>2, <2>3 DEF RepoSound
    <2> QED
      BY <2>2, <2>3
  <1>5. ASSUME NEW w \in Workers, worker'[w].at # "idle"
        PROVE  HolderSound(w)'
    <2>1. worker'[w] = worker[w] /\ worker[w].at # "idle" /\ HolderSound(w)
      BY <1>5 DEF OrphanInv
    <2>2. PICK j, b : j = worker[w].job /\ b = ArtifactOf(j) /\ j \in Jobs /\ b \in Artifacts
      BY <1>1, <2>1, WorkerTypes
    <2>3. ArtifactOf(worker[w].job)' = b /\ (Pending(worker[w].job)' <=> job'[j].st \in {"queued", "claimed"})
      BY <2>1, <2>2 DEF ArtifactOf, Pending
    <2>4. CASE b # a
      BY <1>2, <1>3, <2>1, <2>2, <2>3, <2>4 DEF HolderSound, Pending
    <2>5. CASE b = a
      BY <1>2, <1>3, <2>1, <2>2, <2>3, <2>5 DEF HolderSound
    <2> QED
      BY <2>4, <2>5
  <1>6. \A w \in Workers : HolderSound(w)'
    BY <1>5 DEF HolderSound
  <1>7. purging' \in Artifacts => repo'[purging'] # "none" /\ ~remote'[purging'].exists
    BY <1>1, <1>2, MirrorBounds DEF OrphanInv
  <1>8. ASSUME NEW u \in Versions, mapping'[u].st # "none"
        PROVE  repo'[version'[u].art] # "none"
    <2>1. mapping[u].st # "none"
      BY <1>1, <1>8 DEF Removal
    <2>2. version[u].art \in Artifacts /\ repo[version[u].art] # "none"
      BY <1>1, <2>1 DEF OrphanInv, OwnerInv, ChainsSound, HistoryInv, RowsSound, Accepted, AcceptedStates
    <2> QED
      BY <1>2, <2>2
  <1> QED
    BY <1>4, <1>6, <1>7, <1>8, OrphanParts

\* A commit is recorded, or the repository of a deleted artifact goes.
LEMMA CompleteMirrorOrphan ==
  ASSUME OrphanInv, Alone, NEW w \in Workers, CompleteMirror(w)
  PROVE  OrphanInv'
  <1>1. OwnerInv /\ MirrorTypeOK /\ worker[w].at = "complete" /\ OwnerInv'
        /\ UNCHANGED <<artifact, version, remote, purging>>
    BY CompleteMirrorDoes DEF OrphanInv, OwnerInv
  <1>2. PICK v, a : /\ v = worker[w].job /\ a = version[v].art /\ a = ArtifactOf(v) /\ v \in Versions
                    /\ a \in Artifacts /\ a \in Jobs /\ v \in Jobs /\ a \notin Versions
    BY <1>1, WorkerTypes, HistoryNames DEF Building, Steps, HistoryNames, Jobs
  <1>3. RepoSound(a) /\ repo[a] # "none" /\ job[v].st # "none"
    BY <1>1, <1>2 DEF OrphanInv, HolderSound, Early
  <1>4. job \in [Jobs -> JobRows] /\ repo \in [Artifacts -> RepoStates]
    BY <1>1 DEF OwnerInv, HistoryInv, TypeOK, Jobs, RepoStates
  <1> DEFINE done == [job EXCEPT ![v].st = "done", ![v].live = FALSE]
  <1>5. done[v].st = "done" /\ \A j \in Jobs : j # v => done[j] = job[j]
    BY <1>2, <1>4 DEF JobRows
  <1>6. repo' = repo /\ job' = done
    <2>1. CASE Live(a)
      BY <1>2, <2>1 DEF CompleteMirror
    <2>2. CASE ~Live(a)
      <3>1. Deleted(a)
        BY <1>1, <1>2, <2>2, CompleteMirrorDoes
      <3>2. repo[a] \in {"deleting", "deleted"} /\ (HasRepo(a) => repo[a] = "deleting")
        BY <1>2, <1>3, <1>4, <3>1 DEF RepoSound, RepoStates, HasRepo
      <3>3. repo[a] = "deleting" => done[a].st # "none"
        BY <1>2, <1>3, <1>5 DEF RepoSound, Pending
      <3>4. /\ job' = IF HasRepo(a) THEN DeletionQueued(done, a) ELSE done
            /\ repo' = IF HasRepo(a) THEN [repo EXCEPT ![a] = "deleting"] ELSE repo
        BY <1>2, <2>2 DEF CompleteMirror
      <3>5. job' = done
        BY <3>2, <3>3, <3>4 DEF DeletionQueued
      <3> QED
        BY <1>4, <3>2, <3>4, <3>5
    <2> QED
      BY <2>1, <2>2
  <1>7. ASSUME NEW b \in Artifacts
        PROVE  RepoSound(b)'
    <2>1. RepoSound(b) /\ b \in Jobs /\ b # v
      BY <1>2, HistoryNames DEF OrphanInv, Jobs, HistoryNames
    <2>2. CASE b # a
      <3>1. \A j \in {b} \cup VersionsOf(b) : j \in Jobs /\ j # v
        BY <1>2, <2>1, <2>2 DEF VersionsOf, Jobs
      <3> QED
        BY <1>1, <1>5, <1>6, <2>1, <3>1, RepoKept DEF Pending
    <2>3. CASE b = a
      BY <1>1, <1>3, <1>5, <1>6, <2>1, <2>3 DEF RepoSound, Deleted, Pending
    <2> QED
      BY <2>2, <2>3
  <1>8. HolderSound(w)'
    <2>1. CASE Leaves(w)
      BY <1>1, <2>1, GoesAt DEF HolderSound
    <2>2. CASE Goes(w, "remove")
      <3>1. worker'[w].at = "remove" /\ worker'[w].job = v
        BY <1>1, <1>2, <2>2, GoesAt
      <3>2. ArtifactOf(worker[w].job)' = a
        BY <1>1, <1>2, <3>1 DEF ArtifactOf
      <3> QED
        BY <1>3, <1>5, <1>6, <3>1, <3>2 DEF HolderSound, Early
    <2> QED
      BY <2>1, <2>2 DEF CompleteMirror
  <1>9. purging' \in Artifacts => repo'[purging'] # "none" /\ ~remote'[purging'].exists
    BY <1>1, <1>6 DEF OrphanInv
  <1>10. ASSUME NEW u \in Versions, mapping'[u].st # "none"
         PROVE  repo'[version'[u].art] # "none"
    <2>1. u # v => mapping'[u] = mapping[u]
      BY <1>1, <1>2, CompleteMirrorDoes
    <2> QED
      BY <1>1, <1>2, <1>3, <1>6, <1>10, <2>1 DEF OrphanInv
  <1>11. \A x \in Workers : HolderSound(x)'
    BY <1>8 DEF Alone
  <1> QED
    BY <1>1, <1>7, <1>9, <1>10, <1>11, OrphanParts

\* A claimed job is pending, and no other job ends.
LEMMA ClaimOrphan ==
  ASSUME OrphanInv, NEW w \in Workers, NEW j \in Jobs, ClaimGitHistoryJob(w, j)
  PROVE  OrphanInv'
  <1>1. /\ OwnerInv /\ OwnerInv'
        /\ UNCHANGED <<artifact, version, repo, mapping, remote, purging>>
        /\ worker'[w].at = "claimed" /\ worker'[w].job = j
        /\ \A x \in Workers : x # w => worker'[x] = worker[x]
    BY ClaimDoes DEF OrphanInv
  <1>2. job'[j].st = "claimed" /\ \A k \in Jobs : k # j => job'[k] = Refreshed[k]
    BY DEF ClaimGitHistoryJob, Refreshed
  <1>3. JobsStay
    <2>1. j \in Artifacts => job[j].st # "none"
      BY <1>1, ClaimDoes, HistoryNames DEF HistoryNames
    <2>2. \A k \in Jobs : /\ Pending(k) => Refreshed[k].st \in {"queued", "claimed"}
                          /\ job[k].st # "none" => Refreshed[k].st # "none"
                          /\ k \in Artifacts /\ Refreshed[k].st # "none" => job[k].st # "none"
      BY <1>1, RefreshedStays
    <2> QED
      BY <1>2, <2>1, <2>2 DEF JobsStay, Pending
  <1>4. ASSUME NEW a \in Artifacts
        PROVE  RepoSound(a)'
    <2>1. \A k \in {a} \cup VersionsOf(a) : k \in Jobs
      BY DEF VersionsOf, Jobs
    <2> QED
      BY <1>1, <1>3, <2>1, RepoKept DEF OrphanInv, JobsStay
  <1>5. ASSUME NEW x \in Workers
        PROVE  HolderSound(x)'
    <2>1. CASE x = w
      BY <1>1, <1>2, <2>1 DEF HolderSound, Early, Pending
    <2>2. CASE x # w /\ worker[x].at # "idle"
      <3>1. HolderSound(x) /\ worker'[x] = worker[x] /\ worker[x].job \in Jobs
        BY <1>1, <2>2, WorkerTypes DEF OrphanInv
      <3>2. /\ ArtifactOf(worker[x].job)' = ArtifactOf(worker[x].job)
            /\ Pending(worker[x].job)' <=> job'[worker[x].job].st \in {"queued", "claimed"}
        BY <1>1, <3>1 DEF ArtifactOf, Pending
      <3>3. /\ Pending(worker[x].job) => job'[worker[x].job].st \in {"queued", "claimed"}
            /\ job[worker[x].job].st # "none" => job'[worker[x].job].st # "none"
        BY <1>3, <3>1 DEF JobsStay, Pending
      <3> QED
        BY <1>1, <3>1, <3>2, <3>3 DEF HolderSound
    <2>3. CASE x # w /\ worker[x].at = "idle"
      BY <1>1, <2>3 DEF HolderSound
    <2> QED
      BY <2>1, <2>2, <2>3
  <1> QED
    BY <1>1, <1>4, <1>5, OrphanParts DEF OrphanInv

\* A step of the history leaves the mirror jobs pending, unless D1 ends them with their
\* artifact, and the deletion of an artifact queues that of a repository that has a row.
QueuesDeletion ==
    /\ ~D1 => \A v \in Versions : Pending(v) => Pending(v)'
    /\ D1 => \A v \in Versions : Pending(v)' =>
          \/ artifact'[version'[v].art].st # "deleted"
          \/ /\ Pending(v)
             /\ version[v].st # "none" /\ ~Deleted(version[v].art) => artifact'[version[v].art].st # "deleted"
    /\ \A v \in Versions : job[v].st # "none" => job'[v].st # "none"
    /\ \A a \in Artifacts :
          \/ repo'[a] = repo[a] /\ job'[a] = job[a] /\ (Deleted(a)' => Deleted(a) \/ ~HasRepo(a))
          \/ /\ HasRepo(a) /\ repo'[a] = "deleting"
             /\ job'[a].st = IF job[a].st = "none" THEN "queued" ELSE job[a].st

\* Every write.
LEMMA WriteQueues ==
  ASSUME HistoryInv, NEW c, c \in calls \/ (~D1 /\ c \in Commands), Write(c)
  PROVE  QueuesDeletion
  <1>1. Ready(c)
    BY DEF Write, CommitNewArtifact, CommitVersion, StageCandidate, PromoteCandidate, CloseCandidate,
           RestoreVersion, ChangeAccessSetting, RenameArtifact, ChangeTags, DeleteArtifact
  <1>2. Formed(c) /\ StillGood(c)
    BY <1>1, ReadyStillGood
  <1>3. /\ c.art \in Artifacts /\ artifact \in [Artifacts -> ArtifactRows]
        /\ version \in [Versions -> VersionRows] /\ job \in [Jobs -> JobRows]
        /\ repo \in [Artifacts -> RepoStates] /\ Artifacts \cap Versions = {}
    BY <1>2, HistoryNames DEF Formed, CommandRows, HistoryInv, TypeOK, Jobs, RepoStates, HistoryNames
  <1>4. CASE \/ \E public \in BOOLEAN : CommitNewArtifact(c, public)
             \/ CommitVersion(c) \/ PromoteCandidate(c)
    <2>1. c.arg \in Versions
      BY <1>2, <1>4 DEF Formed, CommitNewArtifact, CommitVersion, PromoteCandidate, Publishing
    <2>2. job' = MirrorQueued(c.arg) /\ repo' = repo
      BY <1>4 DEF CommitNewArtifact, CommitVersion, PromoteCandidate
    <2>3. /\ job'[c.arg] = job[c.arg] \/ (job[c.arg].st = "none" /\ job'[c.arg].st = "queued")
          /\ \A j \in Jobs : j # c.arg => job'[j] = job[j]
      BY <1>3, <2>1, <2>2 DEF MirrorQueued, Jobs, JobRows
    <2>4. \A a \in Artifacts : Deleted(a)' => Deleted(a)
      <3>1. ASSUME NEW public \in BOOLEAN, CommitNewArtifact(c, public)
            PROVE  \A a \in Artifacts : Deleted(a)' => Deleted(a)
        BY <1>3, <3>1 DEF CommitNewArtifact, Deleted
      <3>2. CASE CommitVersion(c)
        BY <1>3, <3>2 DEF CommitVersion, Deleted, ArtifactRows
      <3>3. CASE PromoteCandidate(c)
        BY <1>3, <3>3 DEF PromoteCandidate, Deleted, ArtifactRows
      <3> QED
        BY <1>4, <3>1, <3>2, <3>3
    <2>5. artifact'[version'[c.arg].art].st # "deleted"
      <3>1. ASSUME NEW public \in BOOLEAN, CommitNewArtifact(c, public)
            PROVE  version'[c.arg].art = c.art /\ artifact'[c.art].st = "live"
        BY <1>3, <2>1, <3>1 DEF CommitNewArtifact
      <3>2. CASE CommitVersion(c)
        <4>1. artifact[c.art].st = "live" /\ version'[c.arg].art = c.art
          BY <1>3, <2>1, <3>2 DEF CommitVersion, Current, Live
        <4>2. artifact'[c.art].st = "live"
          BY <1>3, <3>2, <4>1 DEF CommitVersion, ArtifactRows
        <4> QED
          BY <4>1, <4>2
      <3>3. CASE PromoteCandidate(c)
        <4>1. artifact[c.art].st = "live" /\ version'[c.arg].art = c.art
          BY <1>3, <2>1, <3>3 DEF PromoteCandidate, OpenCandidate, OnBase, Live, VersionRows
        <4>2. artifact'[c.art].st = "live"
          BY <1>3, <3>3, <4>1 DEF PromoteCandidate, ArtifactRows
        <4> QED
          BY <4>1, <4>2
      <3> QED
        BY <1>4, <3>1, <3>2, <3>3
    <2>6. ASSUME NEW v \in Versions, version[v].st # "none", ~Deleted(version[v].art)
          PROVE  artifact'[version[v].art].st # "deleted"
      BY <2>4, <2>6 DEF HistoryInv, RowsSound, Deleted
    <2>7. ASSUME NEW v \in Versions, Pending(v)'
          PROVE  v = c.arg \/ Pending(v)
      BY <1>3, <2>3, <2>7 DEF Pending, Jobs
    <2>8. ASSUME NEW v \in Versions
          PROVE  /\ Pending(v) => Pending(v)'
                 /\ job[v].st # "none" => job'[v].st # "none"
      BY <2>3 DEF Pending, Jobs
    <2>9. \A a \in Artifacts : repo'[a] = repo[a] /\ job'[a] = job[a]
      BY <1>3, <2>1, <2>2, <2>3 DEF Jobs
    <2> QED
      BY <2>4, <2>5, <2>6, <2>7, <2>8, <2>9 DEF QueuesDeletion
  <1>5. CASE \/ StageCandidate(c) \/ CloseCandidate(c) \/ RestoreVersion(c) \/ ChangeAccessSetting(c)
             \/ ChangeTags(c) \/ \E n \in Names : RenameArtifact(c, n)
    <2>1. job' = job /\ repo' = repo
      BY <1>5 DEF StageCandidate, CloseCandidate, RestoreVersion, ChangeAccessSetting, ChangeTags,
                  RenameArtifact
    <2>2. \A a \in Artifacts : Deleted(a)' => Deleted(a)
      <3>1. CASE StageCandidate(c) \/ CloseCandidate(c)
        BY <3>1 DEF StageCandidate, CloseCandidate, Deleted
      <3>2. CASE RestoreVersion(c) \/ ChangeAccessSetting(c)
        BY <1>3, <3>2 DEF RestoreVersion, ChangeAccessSetting, Deleted, ArtifactRows
      <3>3. CASE ChangeTags(c) \/ \E n \in Names : RenameArtifact(c, n)
        BY <1>3, <3>3 DEF ChangeTags, RenameArtifact, Deleted, ArtifactRows
      <3> QED
        BY <1>5, <3>1, <3>2, <3>3
    <2>3. ASSUME NEW v \in Versions, version[v].st # "none", ~Deleted(version[v].art)
          PROVE  artifact'[version[v].art].st # "deleted"
      BY <2>2, <2>3 DEF HistoryInv, RowsSound, Deleted
    <2>4. \A j \in Jobs : Pending(j)' <=> Pending(j)
      BY <2>1 DEF Pending
    <2> QED
      BY <2>1, <2>2, <2>3, <2>4 DEF QueuesDeletion, Jobs
  <1>6. CASE DeleteArtifact(c)
    <2>1. /\ job' = JobsAfterDelete(c.art)
          /\ repo' = IF HasRepo(c.art) THEN [repo EXCEPT ![c.art] = "deleting"] ELSE repo
          /\ artifact' = [artifact EXCEPT ![c.art].st = "deleted"]
      BY <1>6 DEF DeleteArtifact
    <2>2. \A j \in Jobs :
            job'[j] = IF j = c.art /\ HasRepo(c.art) /\ job[j].st = "none"
                      THEN [job[j] EXCEPT !.st = "queued"]
                      ELSE IF j \in VersionsOf(c.art) /\ D1 /\ job[j].st \in {"queued", "claimed"}
                      THEN [job[j] EXCEPT !.st = "done", !.live = FALSE] ELSE job[j]
      BY <2>1 DEF JobsAfterDelete, Jobs
    <2>3. [job[c.art] EXCEPT !.st = "queued"].st = "queued"
      BY <1>3 DEF Jobs, JobRows
    <2>4. ASSUME NEW v \in Versions
          PROVE  /\ ~D1 => job'[v] = job[v]
                 /\ job[v].st # "none" => job'[v].st # "none"
                 /\ Pending(v)' => Pending(v) /\ ~(D1 /\ v \in VersionsOf(c.art))
      <3>1. v \in Jobs /\ v # c.art /\ job[v] \in JobRows
        BY <1>3 DEF Jobs
      <3>2. [job[v] EXCEPT !.st = "done", !.live = FALSE].st = "done"
        BY <3>1 DEF JobRows
      <3>3. job'[v] = IF v \in VersionsOf(c.art) /\ D1 /\ job[v].st \in {"queued", "claimed"}
                      THEN [job[v] EXCEPT !.st = "done", !.live = FALSE] ELSE job[v]
        BY <2>2, <3>1
      <3> QED
        BY <3>2, <3>3 DEF Pending
    <2>6. ASSUME NEW v \in Versions, D1, Pending(v)', version[v].st # "none", ~Deleted(version[v].art)
          PROVE  artifact'[version[v].art].st # "deleted"
      <3>1. version[v].art # c.art
        BY <2>4, <2>6 DEF VersionsOf
      <3> QED
        BY <1>3, <2>1, <2>6, <3>1 DEF Deleted
    <2>5. ASSUME NEW a \in Artifacts
          PROVE  \/ repo'[a] = repo[a] /\ job'[a] = job[a] /\ (Deleted(a)' => Deleted(a) \/ ~HasRepo(a))
                 \/ /\ HasRepo(a) /\ repo'[a] = "deleting"
                    /\ job'[a].st = IF job[a].st = "none" THEN "queued" ELSE job[a].st
      <3>1. a \in Jobs /\ a \notin VersionsOf(c.art)
        BY <1>3 DEF Jobs, VersionsOf
      <3>2. CASE a # c.art
        BY <1>3, <2>1, <2>2, <3>1, <3>2 DEF Deleted
      <3>3. CASE a = c.art /\ HasRepo(a)
        BY <1>3, <2>1, <2>2, <2>3, <3>1, <3>3
      <3>4. CASE a = c.art /\ ~HasRepo(a)
        BY <2>1, <2>2, <3>1, <3>4
      <3> QED
        BY <3>2, <3>3, <3>4
    <2> QED
      BY <2>4, <2>5, <2>6 DEF QueuesDeletion, Pending
  <1> QED
    BY <1>4, <1>5, <1>6 DEF Write

\* Every step of the history.
LEMMA HistoryQueues ==
  ASSUME HistoryInv, [HistoryNext]_historyVars
  PROVE  QueuesDeletion
  <1>1. ASSUME UNCHANGED <<artifact, job, repo>>
        PROVE  QueuesDeletion
    <2>1. \A j \in Jobs : Pending(j)' <=> Pending(j)
      BY <1>1 DEF Pending
    <2> QED
      BY <1>1, <2>1 DEF QueuesDeletion, Deleted, Jobs
  <1>2. CASE UNCHANGED historyVars
    BY <1>1, <1>2 DEF historyVars
  <1>3. ASSUME NEW c \in Commands, Ask(c) \/ (~D1 /\ Write(c))
        PROVE  QueuesDeletion
    BY <1>1, <1>3, WriteQueues DEF Ask, rows
  <1>4. ASSUME NEW c \in calls, ReadRows(c) \/ Write(c) \/ DropCall(c)
        PROVE  QueuesDeletion
    BY <1>1, <1>4, WriteQueues DEF ReadRows, DropCall, rows
  <1>5. CASE SetProjectArchive \/ StoreGitHistorySetting
    BY <1>1, <1>5 DEF SetProjectArchive, StoreGitHistorySetting, rows
  <1> QED
    BY <1>2, <1>3, <1>4, <1>5 DEF HistoryNext

\* The history forgets no repository.
LEMMA HistoryKeepsOrphans ==
  ASSUME OrphanInv, ~D1, [HistoryNext]_historyVars, UNCHANGED mirrorVars
  PROVE  OrphanInv'
  <1>1. OwnerInv /\ HistoryInv
    BY DEF OrphanInv, OwnerInv
  <1>2. OwnerInv' /\ Remembers
    BY <1>1, HistoryKeepsOwners
  <1>3. QueuesDeletion
    BY <1>1, HistoryQueues
  <1>4. UNCHANGED <<mapping, reservation, remote, worker, purging>>
    BY DEF mirrorVars
  <1>5. \A a \in Artifacts : /\ repo'[a] = "none" <=> repo[a] = "none"
                             /\ job[a].st # "none" => job'[a].st # "none"
    BY <1>3 DEF QueuesDeletion, HasRepo
  <1>6. \A v \in Versions : version[v].st # "none" =>
          version'[v].st # "none" /\ version'[v].art = version[v].art
    BY <1>2 DEF Remembers, Grows, AcceptedStates
  <1>7. ASSUME NEW a \in Artifacts
        PROVE  RepoSound(a)'
    <2>1. RepoSound(a)
      BY DEF OrphanInv
    <2>2. repo'[a] = "none" /\ remote'[a].exists => \E v \in VersionsOf(a)' : Pending(v)'
      <3>1. \A v \in VersionsOf(a) : v \in VersionsOf(a)' /\ (Pending(v) => Pending(v)')
        BY <1>3, <1>6 DEF VersionsOf, QueuesDeletion
      <3> QED
        BY <1>4, <1>5, <2>1, <3>1 DEF RepoSound
    <2>3. CASE repo'[a] = repo[a] /\ job'[a] = job[a] /\ (Deleted(a)' => Deleted(a) \/ ~HasRepo(a))
      BY <1>4, <2>1, <2>2, <2>3 DEF RepoSound, Pending, HasRepo
    <2>4. CASE /\ HasRepo(a) /\ repo'[a] = "deleting"
               /\ job'[a].st = IF job[a].st = "none" THEN "queued" ELSE job[a].st
      <3>1. Pending(a)'
        BY <2>1, <2>4 DEF RepoSound, Pending, HasRepo
      <3> QED
        BY <2>2, <2>4, <3>1 DEF RepoSound
    <2> QED
      BY <1>3, <2>3, <2>4 DEF QueuesDeletion
  <1>8. ASSUME NEW w \in Workers, worker[w].at # "idle"
        PROVE  HolderSound(w)'
    <2>1. PICK j, a : /\ j = worker[w].job /\ a = ArtifactOf(j) /\ j \in Jobs /\ a \in Artifacts
                      /\ (j \in Versions => Accepted(j)) /\ worker'[w].job = j
      BY <1>1, <1>4, <1>8, WorkerTypes DEF WorkerSound
    <2>2. HolderSound(w) /\ RepoSound(a)
      BY <2>1 DEF OrphanInv
    <2>3. ArtifactOf(worker[w].job)' = a
      BY <1>6, <2>1 DEF ArtifactOf, Accepted, AcceptedStates, Jobs
    <2>4. job[j].st # "none" => job'[j].st # "none"
      BY <1>3, <1>5, <2>1 DEF QueuesDeletion, Jobs
    <2>5. repo[a] = "none" /\ job[j].st # "none" => j \in Versions
      BY <2>1, <2>2 DEF RepoSound, ArtifactOf, Jobs
    <2>6. j \in Versions /\ Pending(j) => Pending(worker[w].job)'
      BY <1>3, <2>1 DEF QueuesDeletion, Pending
    <2> QED
      BY <1>4, <1>5, <1>8, <2>1, <2>2, <2>3, <2>4, <2>5, <2>6 DEF HolderSound
  <1>9. \A w \in Workers : HolderSound(w)'
    BY <1>4, <1>8 DEF HolderSound
  <1>10. purging' \in Artifacts => repo'[purging'] # "none" /\ ~remote'[purging'].exists
    BY <1>1, <1>4, <1>5 DEF OrphanInv, OwnerInv, MirrorTypeOK
  <1>11. ASSUME NEW v \in Versions, mapping'[v].st # "none"
         PROVE  repo'[version'[v].art] # "none"
    <2>1. Accepted(v) /\ version[v].art \in Artifacts /\ repo[version[v].art] # "none"
      BY <1>1, <1>4, <1>11 DEF OrphanInv, OwnerInv, ChainsSound, HistoryInv, RowsSound, Accepted, AcceptedStates
    <2> QED
      BY <1>5, <1>6, <2>1 DEF Accepted, AcceptedStates
  <1> QED
    BY <1>2, <1>7, <1>9, <1>10, <1>11, OrphanParts

\* Every step.
LEMMA NextOrphan ==
  ASSUME Alone, ~D1, OrphanInv, [MirrorNext]_allVars
  PROVE  OrphanInv'
  <1>1. CASE [HistoryNext]_historyVars /\ UNCHANGED mirrorVars
    BY <1>1, HistoryKeepsOrphans
  <1>2. OwnerInv /\ OwnerInv' /\ MirrorTypeOK
    BY NextOwners DEF OrphanInv, OwnerInv
  <1>3. ASSUME NEW w \in Workers, Work(w) \/ Fail(w) \/ Abandon(w)
        PROVE  OrphanInv'
    <2>1. CASE \/ FindVersion(w) \/ ReserveBudget(w) \/ FindRepository(w) \/ LookupCommit(w) \/ BuildCommit(w)
               \/ PushBranch(w) \/ AssertOwner(w) \/ PushTag(w) \/ ConfirmRefs(w) \/ LoseLease(w) \/ Fail(w)
               \/ Abandon(w)
      BY <2>1, QuietWorkOrphan
    <2>2. CASE CreateRepository(w) \/ RecordRepository(w) \/ CompleteMirror(w)
      BY <2>2, CreateRepositoryOrphan, RecordRepositoryOrphan, CompleteMirrorOrphan
    <2>3. CASE RemoveRepository(w)
      <3>1. worker[w].at = "remove" /\ UNCHANGED <<artifact, version, repo, mapping, job, purging>>
        BY <2>3 DEF RemoveRepository, Act, historyVars, mirrorRows
      <3>2. PICK a \in Artifacts : a = ArtifactOf(worker[w].job)
        BY <1>2, <3>1, WorkerTypes
      <3>3. repo[a] # "none"
        BY <3>1, <3>2 DEF OrphanInv, HolderSound, Early
      <3>4. remote' = [remote EXCEPT ![a] = NoRemote] /\ Goes(w, "removed")
        BY <2>3, <3>2 DEF RemoveRepository
      <3>5. \A x \in Workers : \/ worker'[x] = worker[x]
                               \/ /\ worker[x].at = "remove" /\ worker'[x].at = "removed"
                                  /\ worker'[x].job = worker[x].job /\ ArtifactOf(worker[x].job) = a
        BY <1>2, <3>1, <3>2, <3>4, GoesAt
      <3> QED
        BY <1>2, <3>1, <3>3, <3>4, <3>5, RemoveOrphan
    <2>4. CASE CompleteDeletion(w)
      <3>1. worker[w].at = "removed" /\ UNCHANGED <<artifact, version, remote, purging>> /\ Leaves(w)
        BY <2>4 DEF CompleteDeletion, Act, rows
      <3>2. PICK a \in Artifacts : /\ a = ArtifactOf(worker[w].job)
                                    /\ \E ended \in SUBSET JobsOf(a) : Removal(a, ended)
        BY <1>2, <2>4, DeletionEnds
      <3>3. repo[a] # "none" /\ ~remote[a].exists
        BY <3>1, <3>2 DEF OrphanInv, HolderSound, Early
      <3>4. \A x \in Workers : worker'[x].at = "idle" \/ worker'[x] = worker[x]
        BY <1>2, <3>1, GoesAt
      <3> QED
        BY <1>2, <3>1, <3>2, <3>3, <3>4, RemovalOrphan
    <2> QED
      BY <1>3, <2>1, <2>2, <2>3, <2>4 DEF Work
  <1>4. CASE \E w \in Workers, j \in Jobs : ClaimGitHistoryJob(w, j)
    BY <1>4, ClaimOrphan
  <1>5. CASE (\E w \in Workers : ClaimNothing(w)) \/ (\E j \in Jobs : ExpireLease(j))
    <2>1. JobsStay
      BY <1>2, <1>5, RefreshedStays
    <2>2. UNCHANGED <<artifact, version, repo, mapping, remote, worker, purging>>
      BY <1>5 DEF ClaimNothing, ExpireLease, mirrorVars, rows
    <2>3. \A x \in Workers : HolderMoves(x)
      BY <2>2, HolderStays
    <2> QED
      BY <1>2, <2>1, <2>2, <2>3, OrphanQuiet
  <1>6. ASSUME NEW a \in Artifacts, PurgeRepository(a)
        PROVE  OrphanInv'
    <2>1. /\ UNCHANGED <<artifact, version, repo, mapping, job, worker>> /\ repo[a] # "none"
          /\ remote' = [remote EXCEPT ![a] = NoRemote] /\ purging' = a
      BY <1>6 DEF PurgeRepository, historyVars, mirrorRows, HasRepo
    <2> QED
      BY <1>2, <2>1, RemoveOrphan
  <1>7. CASE CompletePurge
    <2>1. PICK a \in Artifacts : a = purging /\ Removal(a, JobsOf(a))
      BY <1>2, <1>7 DEF CompletePurge, MirrorTypeOK
    <2>2. UNCHANGED <<artifact, version, remote, worker>> /\ purging' = "approved"
      BY <1>7 DEF CompletePurge, rows
    <2>3. repo[a] # "none" /\ ~remote[a].exists
      BY <2>1, <2>2 DEF OrphanInv
    <2> QED
      BY <1>2, <2>1, <2>2, <2>3, RemovalOrphan
  <1>8. CASE ReadPurgePlan \/ EndPurge
    <2>1. /\ UNCHANGED <<artifact, version, repo, mapping, job, remote, worker>>
          /\ purging' \in {None, "approved"}
      BY <1>8 DEF ReadPurgePlan, EndPurge, historyVars, mirrorRows
    <2>2. \A a \in Artifacts : RepoSound(a)'
      BY <2>1, RepoKept DEF OrphanInv, Pending
    <2>3. \A x \in Workers : HolderSound(x)'
      BY <2>1 DEF OrphanInv, HolderSound, ArtifactOf, Pending
    <2>4. purging' \notin Artifacts
      BY <2>1, HistoryNames, MirrorBounds
    <2> QED
      BY <1>2, <2>1, <2>2, <2>3, <2>4, OrphanParts DEF OrphanInv
  <1>9. CASE UNCHANGED allVars
    BY <1>1, <1>9 DEF allVars
  <1> QED
    BY <1>1, <1>3, <1>4, <1>5, <1>6, <1>7, <1>8, <1>9 DEF MirrorNext

\* Nothing is there at first.
LEMMA InitOrphan == MirrorInit => OrphanInv
  <1> SUFFICES ASSUME MirrorInit PROVE OrphanInv
    OBVIOUS
  <1>1. OwnerInv /\ purging = None
    BY InitOwners DEF MirrorInit
  <1>2. \A a \in Artifacts : RepoSound(a)
    BY DEF MirrorInit, HistoryInit, NoJob, NoRemote, NoArtifact, RepoSound, Deleted
  <1>3. \A w \in Workers : HolderSound(w)
    BY DEF MirrorInit, Idle, HolderSound
  <1>4. \A v \in Versions : mapping[v].st = "none"
    BY DEF MirrorInit, NoMapping
  <1> QED
    BY <1>1, <1>2, <1>3, <1>4, HistoryNames DEF OrphanInv

\* Theorem: where one worker runs and deletions are one transaction, a repository of a
\* deleted artifact is never forgotten, whatever fails, crashes or is purged: a row is
\* queued with its deletion, and a repository that has no row yet belongs to a job that
\* is still pending.  The hypotheses are needed.  D1 ends that job with the artifact, and a
\* second worker that lost its lease may create the repository after it was removed.
THEOREM NoneOrphaned ==
  ASSUME \A x, y \in Workers : x = y, ~D1
  PROVE  MirrorSpec => []NoOrphanRepository
  <1>1. OrphanInv => NoOrphanRepository
    <2> SUFFICES ASSUME OrphanInv, NEW a \in Artifacts, Deleted(a), remote[a].exists
                 PROVE  \/ repo[a] = "deleting" /\ Pending(a)
                        \/ repo[a] = "none" /\ \E v \in VersionsOf(a) : Pending(v)
      BY DEF NoOrphanRepository, Deleted, Pending
    <2>1. RepoSound(a) /\ repo[a] \in RepoStates
      BY DEF OrphanInv, OwnerInv, HistoryInv, TypeOK, RepoStates
    <2> QED
      BY <2>1 DEF RepoSound, RepoStates
  <1>2. OrphanInv /\ [MirrorNext]_allVars => OrphanInv'
    BY NextOrphan DEF Alone
  <1> QED
    BY <1>1, <1>2, InitOrphan, PTL DEF MirrorSpec

-----------------------------------------------------------------------------
(* A recorded repository is deleted with its artifact, for any number of   *)
(* workers                                                                 *)

\* A deletion job belongs to a row that is to be deleted, or is; a row that is to be
\* deleted has its job; a deleted artifact has no row that says "provisioned".
QueueSound(a) ==
    /\ job[a].st # "none" => repo[a] \in {"deleting", "deleted"}
    /\ repo[a] = "deleting" => Pending(a)
    /\ Deleted(a) => repo[a] # "provisioned"

\* D1 ends the mirror jobs in the batch that deletes the artifact.
JobsEnded == D1 => \A v \in Versions : Pending(v) => ~Deleted(version[v].art)

QueueInv == OwnerInv /\ (\A a \in Artifacts : QueueSound(a)) /\ JobsEnded

\* A step that leaves the rows, and adds no deletion job nor, on D1, a job of a deleted
\* artifact.
LEMMA QueueQuiet ==
  ASSUME QueueInv, OwnerInv', UNCHANGED <<artifact, version, repo>>,
         \A j \in Jobs : Pending(j) => Pending(j)',
         \A a \in Artifacts : job'[a].st # "none" => job[a].st # "none",
         \A v \in Versions : Pending(v)' => Pending(v) \/ ~Deleted(version[v].art)
  PROVE  QueueInv'
  <1>1. \A a \in Artifacts : QueueSound(a)'
    BY DEF QueueInv, QueueSound, Deleted, Jobs
  <1>2. JobsEnded'
    BY DEF QueueInv, JobsEnded, Deleted
  <1> QED
    BY <1>1, <1>2 DEF QueueInv

\* The history.
LEMMA HistoryKeepsQueue ==
  ASSUME QueueInv, [HistoryNext]_historyVars, UNCHANGED mirrorVars
  PROVE  QueueInv'
  <1>1. OwnerInv /\ HistoryInv /\ JobsSound
    BY DEF QueueInv, OwnerInv
  <1>2. OwnerInv' /\ Remembers /\ QueuesDeletion
    BY <1>1, HistoryKeepsOwners, HistoryQueues
  <1>3. ASSUME NEW a \in Artifacts
        PROVE  QueueSound(a)'
    <2>1. QueueSound(a)
      BY DEF QueueInv
    <2>2. CASE repo'[a] = repo[a] /\ job'[a] = job[a] /\ (Deleted(a)' => Deleted(a) \/ ~HasRepo(a))
      BY <2>1, <2>2 DEF QueueSound, Pending, HasRepo
    <2>3. CASE /\ HasRepo(a) /\ repo'[a] = "deleting"
               /\ job'[a].st = IF job[a].st = "none" THEN "queued" ELSE job[a].st
      BY <2>1, <2>3 DEF QueueSound, Pending, HasRepo
    <2> QED
      BY <1>2, <2>2, <2>3 DEF QueuesDeletion
  <1>4. ASSUME D1, NEW v \in Versions, Pending(v)'
        PROVE  ~Deleted(version[v].art)'
    <2>1. CASE artifact'[version'[v].art].st # "deleted"
      BY <2>1 DEF Deleted
    <2>2. CASE /\ Pending(v)
               /\ version[v].st # "none" /\ ~Deleted(version[v].art) => artifact'[version[v].art].st # "deleted"
      <3>1. version[v].st # "none" /\ ~Deleted(version[v].art)
        BY <1>1, <1>4, <2>2 DEF QueueInv, JobsEnded, JobsSound, Pending, Accepted, AcceptedStates
      <3>2. version'[v].art = version[v].art
        BY <1>2, <3>1 DEF Remembers, Grows
      <3> QED
        BY <2>2, <3>1, <3>2 DEF Deleted
    <2> QED
      BY <1>2, <1>4, <2>1, <2>2 DEF QueuesDeletion
  <1> QED
    BY <1>2, <1>3, <1>4 DEF QueueInv, JobsEnded

\* A worker that leaves the rows of the repositories.
LEMMA QuietWorkQueue ==
  ASSUME QueueInv, NEW w \in Workers,
         \/ FindVersion(w) \/ ReserveBudget(w) \/ FindRepository(w) \/ CreateRepository(w) \/ RemoveRepository(w)
         \/ LookupCommit(w) \/ BuildCommit(w) \/ PushBranch(w) \/ AssertOwner(w) \/ PushTag(w) \/ ConfirmRefs(w)
         \/ LoseLease(w) \/ Fail(w) \/ Abandon(w)
  PROVE  QueueInv'
  <1>1. OwnerInv /\ OwnerInv'
    BY WorkOwners DEF QueueInv, Work
  <1>2. worker[w].at # "idle"
    BY DEF FindVersion, ReserveBudget, FindRepository, CreateRepository, RemoveRepository, LookupCommit,
       BuildCommit, PushBranch, AssertOwner, PushTag, ConfirmRefs, LoseLease, Fail, Abandon, Act, Fenced
  <1>3. UNCHANGED <<artifact, version, repo>> /\ job' \in {job, Released(w)}
    BY DEF FindVersion, ReserveBudget, FindRepository, CreateRepository, RemoveRepository, LookupCommit,
       BuildCommit, PushBranch, AssertOwner, PushTag, ConfirmRefs, LoseLease, LosesLease, Fail, GivesUp, Abandon,
       historyVars, rows
  <1>4. JobsStay
    BY <1>1, <1>2, <1>3, ReleasedStays
  <1>5. \A j \in Jobs : Pending(j)' => Pending(j)
    <2>1. job \in [Jobs -> JobRows]
      BY <1>1 DEF OwnerInv, HistoryInv, TypeOK, Jobs
    <2>2. CASE job' = job
      BY <2>2 DEF Pending
    <2>3. CASE job' = Released(w) /\ job' # job
      <3>1. PICK k : k = worker[w].job
        OBVIOUS
      <3>2. job[k].st = "claimed" /\ job' = [job EXCEPT ![k].st = "queued", ![k].live = FALSE]
        BY <2>3, <3>1 DEF Released
      <3>3. \A j \in Jobs : j # k => job'[j] = job[j]
        BY <2>1, <3>2
      <3> QED
        BY <3>2, <3>3 DEF Pending
    <2> QED
      BY <1>3, <2>2, <2>3
  <1> QED
    BY <1>1, <1>3, <1>4, <1>5, QueueQuiet DEF JobsStay, Jobs

\* The row is written; that of a deleted artifact is queued for deletion.  On D1 the
\* artifact of a claimed job is not deleted.
LEMMA RecordRepositoryQueue ==
  ASSUME QueueInv, NEW w \in Workers, RecordRepository(w)
  PROVE  QueueInv'
  <1>1. /\ OwnerInv /\ MirrorTypeOK /\ worker[w].at = "record" /\ OwnerInv' /\ Owns(w)
        /\ UNCHANGED <<artifact, version>>
    BY RecordRepositoryDoes DEF QueueInv, OwnerInv, RecordRepository
  <1>2. PICK v, a : /\ v = worker[w].job /\ a = ArtifactOf(v) /\ v \in Versions /\ a = version[v].art
                    /\ a \in Artifacts /\ a \in Jobs /\ a \notin Versions
    BY <1>1, WorkerTypes, HistoryNames DEF Building, Steps, HistoryNames, Jobs
  <1>3. QueueSound(a) /\ (D1 => ~Deleted(a))
    BY <1>1, <1>2 DEF QueueInv, JobsEnded, Owns, Pending
  <1>4. job \in [Jobs -> JobRows] /\ repo \in [Artifacts -> RepoStates]
    BY <1>1 DEF OwnerInv, HistoryInv, TypeOK, Jobs, RepoStates
  <1>5. PICK stored : stored = IF repo[a] # "none" THEN repo[a] ELSE IF Deleted(a) THEN "deleting" ELSE "provisioned"
    OBVIOUS
  <1>6. PICK queues \in BOOLEAN : queues = (Deleted(a) /\ ~D1 /\ stored # "deleted")
    OBVIOUS
  <1>7. /\ repo' = [repo EXCEPT ![a] = IF queues THEN "deleting" ELSE stored]
        /\ job' = IF queues THEN DeletionQueued(job, a) ELSE job
    BY <1>2, <1>5, <1>6 DEF RecordRepository, Deleted
  <1>8. /\ repo'[a] = IF queues THEN "deleting" ELSE stored
        /\ \A b \in Artifacts : b # a => repo'[b] = repo[b]
    BY <1>2, <1>4, <1>7
  <1>9. /\ \A j \in Jobs : j # a => job'[j] = job[j]
        /\ job'[a].st = IF queues /\ job[a].st = "none" THEN "queued" ELSE job[a].st
    BY <1>2, <1>4, <1>7 DEF DeletionQueued, JobRows
  <1>10. QueueSound(a)'
    <2>1. CASE queues
      <3>1. repo'[a] = "deleting"
        BY <1>8, <2>1
      <3>2. repo[a] \in {"none", "deleting"}
        BY <1>2, <1>3, <1>4, <1>5, <1>6, <2>1 DEF QueueSound, RepoStates
      <3>3. job'[a].st \in {"queued", "claimed"}
        BY <1>3, <1>9, <2>1, <3>2 DEF QueueSound, Pending
      <3> QED
        BY <3>1, <3>3 DEF QueueSound, Pending
    <2>2. CASE ~queues
      <3>1. repo'[a] = stored /\ job'[a].st = job[a].st /\ (Deleted(a)' <=> Deleted(a))
        BY <1>1, <1>8, <1>9, <2>2 DEF Deleted
      <3>2. Deleted(a) => repo[a] = "deleted"
        BY <1>3, <1>5, <1>6, <2>2
      <3>3. CASE repo[a] # "none"
        BY <1>3, <1>5, <3>1, <3>3 DEF QueueSound, Pending
      <3>4. CASE repo[a] = "none"
        BY <1>3, <1>5, <3>1, <3>2, <3>4 DEF QueueSound, Pending
      <3> QED
        BY <3>3, <3>4
    <2> QED
      BY <1>6, <2>1, <2>2
  <1>11. ASSUME NEW b \in Artifacts, b # a
         PROVE  QueueSound(b)'
    BY <1>1, <1>8, <1>9, <1>11 DEF QueueInv, QueueSound, Pending, Deleted, Jobs
  <1>12. \A u \in Versions : job'[u] = job[u]
    BY <1>2, <1>9 DEF Jobs
  <1>13. JobsEnded'
    BY <1>1, <1>12 DEF QueueInv, JobsEnded, Pending, Deleted
  <1> QED
    BY <1>1, <1>10, <1>11, <1>13 DEF QueueInv

\* The rows of a repository that is gone are closed.
LEMMA RemovalQueue ==
  ASSUME QueueInv, OwnerInv', NEW a \in Artifacts, NEW ended \in SUBSET JobsOf(a),
         Removal(a, ended), UNCHANGED <<artifact, version>>
  PROVE  QueueInv'
  <1>1. /\ job \in [Jobs -> JobRows] /\ repo \in [Artifacts -> RepoStates] /\ Artifacts \cap Versions = {}
    BY HistoryNames DEF QueueInv, OwnerInv, HistoryInv, TypeOK, Jobs, RepoStates, HistoryNames
  <1>2. /\ repo'[a] = IF repo[a] = "none" THEN "none" ELSE "deleted"
        /\ \A b \in Artifacts : b # a => repo'[b] = repo[b]
    BY <1>1 DEF Removal
  <1>3. ASSUME NEW j \in Jobs
        PROVE  /\ job'[j].st = "none" <=> job[j].st = "none"
               /\ Pending(j)' => Pending(j)
               /\ j \in Artifacts /\ j # a => job'[j] = job[j]
    <2>1. job[j] \in JobRows /\ [job[j] EXCEPT !.st = "done", !.live = FALSE].st = "done"
      BY <1>1 DEF JobRows
    <2>2. job'[j] = IF j \in ended /\ job[j].st # "none"
                    THEN [job[j] EXCEPT !.st = "done", !.live = FALSE] ELSE job[j]
      BY DEF Removal
    <2>3. j \in Artifacts /\ j # a => j \notin ended
      BY <1>1 DEF JobsOf, VersionsOf
    <2> QED
      BY <2>1, <2>2, <2>3 DEF Pending
  <1>4. ASSUME NEW b \in Artifacts
        PROVE  QueueSound(b)'
    <2>1. QueueSound(b) /\ b \in Jobs
      BY DEF QueueInv, Jobs
    <2>2. CASE b # a
      BY <1>2, <1>3, <2>1, <2>2 DEF QueueSound, Pending, Deleted
    <2>3. CASE b = a
      BY <1>2, <1>3, <2>1, <2>3 DEF QueueSound, Pending, Deleted
    <2> QED
      BY <2>2, <2>3
  <1>5. JobsEnded'
    BY <1>3 DEF QueueInv, JobsEnded, Jobs, Deleted
  <1> QED
    BY <1>4, <1>5 DEF QueueInv

\* A job ends, and the repository of an artifact that was deleted meanwhile is queued.
LEMMA CompleteMirrorQueue ==
  ASSUME QueueInv, NEW w \in Workers, CompleteMirror(w)
  PROVE  QueueInv'
  <1>1. OwnerInv /\ MirrorTypeOK /\ worker[w].at = "complete" /\ OwnerInv' /\ UNCHANGED <<artifact, version>>
    BY CompleteMirrorDoes DEF QueueInv, OwnerInv
  <1>2. PICK v, a : /\ v = worker[w].job /\ a = version[v].art /\ v \in Versions /\ v \in Jobs
                    /\ a \in Artifacts /\ a \in Jobs /\ a \notin Versions /\ v \notin Artifacts
    BY <1>1, WorkerTypes, HistoryNames DEF Building, Steps, HistoryNames, Jobs
  <1>3. QueueSound(a)
    BY <1>2 DEF QueueInv
  <1>4. job \in [Jobs -> JobRows] /\ repo \in [Artifacts -> RepoStates]
    BY <1>1 DEF OwnerInv, HistoryInv, TypeOK, Jobs, RepoStates
  <1>5. PICK done : done = [job EXCEPT ![v].st = "done", ![v].live = FALSE]
    OBVIOUS
  <1>6. done \in [Jobs -> JobRows] /\ done[v].st = "done" /\ \A j \in Jobs : j # v => done[j] = job[j]
    BY <1>2, <1>4, <1>5 DEF JobRows
  <1>7. PICK queues \in BOOLEAN : queues = (~Live(a) /\ HasRepo(a))
    OBVIOUS
  <1>8. /\ repo' = IF queues THEN [repo EXCEPT ![a] = "deleting"] ELSE repo
        /\ job' = IF queues THEN DeletionQueued(done, a) ELSE done
    BY <1>2, <1>5, <1>7 DEF CompleteMirror
  <1>9. /\ \A b \in Artifacts : b # a => repo'[b] = repo[b]
        /\ repo'[a] = IF queues THEN "deleting" ELSE repo[a]
    BY <1>2, <1>4, <1>8
  <1>10. /\ \A j \in Jobs : j \notin {a, v} => job'[j] = job[j]
         /\ job'[v].st = "done"
         /\ job'[a].st = IF queues /\ job[a].st = "none" THEN "queued" ELSE job[a].st
    <2>1. v # a /\ done[a] = job[a] /\ [done[a] EXCEPT !.st = "queued"].st = "queued"
      BY <1>2, <1>6 DEF JobRows
    <2>2. DeletionQueued(done, a) =
            IF job[a].st = "none" THEN [done EXCEPT ![a] = [done[a] EXCEPT !.st = "queued"]] ELSE done
      BY <2>1 DEF DeletionQueued
    <2> QED
      BY <1>2, <1>6, <1>8, <2>1, <2>2
  <1>11. ASSUME NEW b \in Artifacts
         PROVE  QueueSound(b)'
    <2>1. CASE b # a
      <3>1. b \in Jobs /\ b # v
        BY <1>2, <1>11 DEF Jobs
      <3> QED
        BY <1>1, <1>9, <1>10, <2>1, <3>1 DEF QueueInv, QueueSound, Pending, Deleted
    <2>2. CASE b = a /\ ~queues
      BY <1>1, <1>3, <1>9, <1>10, <2>2 DEF QueueSound, Pending, Deleted
    <2>3. CASE b = a /\ queues
      BY <1>3, <1>7, <1>9, <1>10, <2>3 DEF QueueSound, Pending, HasRepo
    <2> QED
      BY <1>7, <2>1, <2>2, <2>3
  <1>12. \A u \in Versions : Pending(u)' => Pending(u)
    BY <1>2, <1>10 DEF Pending, Jobs
  <1>13. JobsEnded'
    BY <1>1, <1>12 DEF QueueInv, JobsEnded, Deleted
  <1> QED
    BY <1>1, <1>11, <1>13 DEF QueueInv

\* A pass over the rows queues what was claimed, or the version of a live artifact.
LEMMA RefreshedQueue ==
  ASSUME OwnerInv, NEW v \in Versions, Refreshed[v].st \in {"queued", "claimed"}
  PROVE  Pending(v) \/ ~Deleted(version[v].art)
  <1>1. v \in Jobs /\ job \in [Jobs -> JobRows]
    BY DEF OwnerInv, HistoryInv, TypeOK, Jobs
  <1>2. Backfilled(v) \/ job[v].st = "claimed" \/ Refreshed[v] = job[v]
    BY <1>1 DEF Refreshed
  <1> QED
    BY <1>2 DEF Backfilled, Live, Deleted, Pending

\* Every step.
LEMMA NextQueue ==
  ASSUME QueueInv, [MirrorNext]_allVars
  PROVE  QueueInv'
  <1>1. OwnerInv /\ OwnerInv' /\ MirrorTypeOK
    BY NextOwners DEF QueueInv, OwnerInv
  <1>2. CASE [HistoryNext]_historyVars /\ UNCHANGED mirrorVars
    BY <1>2, HistoryKeepsQueue
  <1>3. ASSUME NEW w \in Workers, Work(w) \/ Fail(w) \/ Abandon(w)
        PROVE  QueueInv'
    <2>1. CASE CompleteDeletion(w)
      <3>1. worker[w].at = "removed" /\ UNCHANGED <<artifact, version>>
        BY <2>1 DEF CompleteDeletion, Act, rows
      <3>2. PICK a \in Artifacts : \E ended \in SUBSET JobsOf(a) : Removal(a, ended)
        BY <1>1, <2>1, DeletionEnds
      <3> QED
        BY <1>1, <3>1, <3>2, RemovalQueue
    <2> QED
      BY <1>3, <2>1, QuietWorkQueue, RecordRepositoryQueue, CompleteMirrorQueue DEF Work
  <1>4. ASSUME NEW w \in Workers, NEW j \in Jobs, ClaimGitHistoryJob(w, j)
        PROVE  QueueInv'
    <2>1. UNCHANGED <<artifact, version, repo>> /\ Refreshed[j].st = "queued"
          /\ (j \in Artifacts => job[j].st # "none")
      BY <1>1, <1>4, ClaimDoes, HistoryNames DEF HistoryNames, ClaimGitHistoryJob, Claimable
    <2>2. job'[j].st = "claimed" /\ \A k \in Jobs : k # j => job'[k] = Refreshed[k]
      BY <1>4 DEF ClaimGitHistoryJob, Refreshed
    <2>3. \A k \in Jobs : Pending(k) => Pending(k)'
      BY <1>1, <2>2, RefreshedStays DEF Pending
    <2>4. \A a \in Artifacts : job'[a].st # "none" => job[a].st # "none"
      BY <1>1, <2>1, <2>2, RefreshedStays DEF Jobs
    <2>5. \A v \in Versions : Pending(v)' => Pending(v) \/ ~Deleted(version[v].art)
      BY <1>1, <2>1, <2>2, RefreshedQueue DEF Pending, Jobs
    <2> QED
      BY <1>1, <2>1, <2>3, <2>4, <2>5, QueueQuiet
  <1>5. ASSUME NEW w \in Workers, ClaimNothing(w)
        PROVE  QueueInv'
    <2>1. UNCHANGED <<artifact, version, repo>> /\ job' = Refreshed
      BY <1>5 DEF ClaimNothing, rows
    <2>2. /\ \A k \in Jobs : Pending(k) => Pending(k)'
          /\ \A a \in Artifacts : job'[a].st # "none" => job[a].st # "none"
      BY <1>1, <2>1, RefreshedStays DEF Pending, Jobs
    <2>3. \A v \in Versions : Pending(v)' => Pending(v) \/ ~Deleted(version[v].art)
      BY <1>1, <2>1, RefreshedQueue DEF Pending
    <2> QED
      BY <1>1, <2>1, <2>2, <2>3, QueueQuiet
  <1>6. ASSUME NEW j \in Jobs, ExpireLease(j)
        PROVE  QueueInv'
    <2>1. UNCHANGED <<artifact, version, repo>> /\ job' = [job EXCEPT ![j].live = FALSE]
      BY <1>6 DEF ExpireLease, rows
    <2>2. job \in [Jobs -> JobRows]
      BY <1>1 DEF OwnerInv, HistoryInv, TypeOK, Jobs
    <2>3. \A k \in Jobs : job'[k].st = job[k].st
      BY <2>1, <2>2 DEF JobRows
    <2> QED
      BY <1>1, <2>1, <2>3, QueueQuiet DEF Pending, Jobs
  <1>7. CASE (\E a \in Artifacts : PurgeRepository(a)) \/ ReadPurgePlan \/ EndPurge
    BY <1>2, <1>1, <1>7, QueueQuiet DEF PurgeRepository, ReadPurgePlan, EndPurge, historyVars, rows, Pending
  <1>8. CASE CompletePurge
    <2>1. PICK a \in Artifacts : a = purging /\ Removal(a, JobsOf(a))
      BY <1>1, <1>8 DEF CompletePurge, MirrorTypeOK
    <2>2. UNCHANGED <<artifact, version>>
      BY <1>8 DEF CompletePurge, rows
    <2> QED
      BY <1>1, <2>1, <2>2, RemovalQueue
  <1>9. CASE UNCHANGED allVars
    BY <1>2, <1>9 DEF allVars
  <1> QED
    BY <1>2, <1>3, <1>4, <1>5, <1>6, <1>7, <1>8, <1>9 DEF MirrorNext

\* Theorem: on every store and for any number of workers, whatever fails, loses its lease,
\* is restored or is purged, a repository whose coordinates are recorded never outlives its
\* artifact unnoticed: it is marked as deleted, or a deletion job is queued or claimed for
\* it.  What NoneOrphaned adds for one worker is the repository that has no row yet, and
\* the one that is made again after its removal.
THEOREM DeletionsQueued == MirrorSpec => []DeletionIsQueued
  <1>1. MirrorInit => QueueInv
    <2> SUFFICES ASSUME MirrorInit PROVE QueueInv
      OBVIOUS
    <2>1. OwnerInv
      BY InitOwners DEF MirrorInit
    <2>2. \A a \in Artifacts : job[a].st = "none" /\ repo[a] = "none"
      BY DEF MirrorInit, HistoryInit, NoJob
    <2>3. \A v \in Versions : job[v].st = "none"
      BY DEF MirrorInit, HistoryInit, NoJob
    <2> QED
      BY <2>1, <2>2, <2>3 DEF QueueInv, QueueSound, JobsEnded, Pending
  <1>2. QueueInv => DeletionIsQueued
    <2> SUFFICES ASSUME QueueInv, NEW a \in Artifacts, Deleted(a), repo[a] # "none"
                 PROVE  repo[a] = "deleted" \/ (repo[a] = "deleting" /\ Pending(a))
      BY DEF DeletionIsQueued, Deleted, Pending
    <2>1. repo[a] \in RepoStates
      BY DEF QueueInv, OwnerInv, HistoryInv, TypeOK, RepoStates
    <2> QED
      BY <2>1 DEF QueueInv, QueueSound, RepoStates
  <1>3. QueueInv /\ [MirrorNext]_allVars => QueueInv'
    BY NextQueue
  <1> QED
    BY <1>1, <1>2, <1>3, PTL DEF MirrorSpec

==============================================================================
