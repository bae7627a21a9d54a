---------------------------- MODULE VersionHistory ----------------------------
(***************************************************************************)
(* The version history of the artifacts of one project: publications,      *)
(* staged candidates, restores, access and name changes and deletions,     *)
(* with the idempotency records, the actions they log and the Git history  *)
(* jobs they queue in the same transaction.                                *)
(*                                                                         *)
(* SQLite and Postgres run an operation as one transaction under a lock.   *)
(* D1 has no interactive transactions: an operation checks the key and the *)
(* project, then reads the artifact, and then sends one atomic batch       *)
(* whose guards re-check part of what was read.  A command in flight       *)
(* ("calls") carries what it read.                                         *)
(*                                                                         *)
(* The staged upload that a publication commits is the business of         *)
(* StagedPublication: here every upload is ready.                          *)
(***************************************************************************)
EXTENDS Integers, FiniteSets

CONSTANTS
    Artifacts,       \* artifact ids
    Versions,        \* version ids
    Keys,            \* idempotency keys clients send more than once
    Names,           \* artifact names and tag lists
    D1,              \* the store is Cloudflare D1; FALSE for SQLite and Postgres
    Ops,             \* bound: the operations clients ask for
    MaxCalls,        \* bound: commands in flight
    None

ASSUME HistoryNames ==
    /\ IsFiniteSet(Versions)
    /\ None \notin Artifacts \cup Versions \cup Keys
    /\ Artifacts \cap Versions = {}
    /\ Names # {}
    /\ D1 \in BOOLEAN
    /\ MaxCalls \in Nat

VARIABLES
    archived,   \* projects.archived_at is set
    mirroring,  \* git_history_project_settings.enabled
    artifact,   \* artifacts rows, with their tags
    version,    \* versions rows
    receipt,    \* idempotency_records rows
    linked,     \* the latest public-link action of each artifact
    effects,    \* how many operations took effect under a key
    job,        \* git_history_jobs: one per version, one deletion per artifact
    repo,       \* git_history_repositories.status
    calls       \* commands in flight on D1

rows == <<artifact, version>>
records == <<receipt, linked, effects>>
settings == <<archived, mirroring>>
historyVars == <<archived, mirroring, artifact, version, receipt, linked, effects,
                 job, repo, calls>>

NoArtifact == [st |-> "none", cur |-> None, public |-> FALSE, name |-> None, tags |-> None]
NoVersion == [st |-> "none", art |-> None, num |-> 0, base |-> None]
NoJob == [st |-> "none", att |-> 0, live |-> FALSE]

\* acceptedVersionStates
AcceptedStates == {"mainline", "promoted"}
Accepted(v) == version[v].st \in AcceptedStates

VersionsOf(a) == {v \in Versions : version[v].st # "none" /\ version[v].art = a}
Live(a) == artifact[a].st = "live"

NumbersOf(a) == {version[v].num : v \in VersionsOf(a)}

\* "COALESCE(MAX(number), 0) + 1"
IsNextNumber(n, a) ==
    /\ n = 1 \/ n - 1 \in NumbersOf(a)
    /\ \A m \in NumbersOf(a) : m < n

Numbers == 1..(Cardinality(Versions) + 1)

NextNumber(a) == CHOOSE n \in Numbers : IsNextNumber(n, a)

-----------------------------------------------------------------------------
(* Commands                                                                *)

\* art: the artifact; exp: expectedCurrentVersionId; arg: what the operation
\* is asked for; num, from: what D1 read (the next number, the access setting).
Command(op, key, a, exp, arg) ==
    [op |-> op, key |-> key, art |-> a, exp |-> exp, arg |-> arg,
     at |-> "checked", num |-> 0, from |-> FALSE]

Publishing == {"create", "publish", "stage"}

\* CandidateClosure: the outcome is the state the candidate ends in.
Closing == {"rejected", "superseded"}

\* Operations name what the client saw: an existing version as the expected
\* one, an unused id for a new version.  The key None stands for a key that is
\* sent once.
Commands ==
    LET Used == {v \in Versions : version[v].st # "none"}
        Fresh == Versions \ Used
        For(ops, exp, arg) ==
          {Command(op, k, a, e, x) : op \in Ops \cap ops, k \in Keys \cup {None},
                                     a \in Artifacts, e \in exp, x \in arg} IN
    For({"create"}, {None}, Fresh) \cup For({"publish", "stage"}, Used, Fresh)
    \cup For({"promote"} \cup Closing, {None}, Used) \cup For({"restore"}, Used, Used)
    \cup For({"access"}, Used, BOOLEAN) \cup For({"rename", "tags"}, Used, Names)
    \cup For({"delete"}, Used, {None})

\* A recorded key makes the operation a replay or a conflict: nothing changes.
Unused(key) == key # None => receipt[key] = None

\* Mutant: an archived project takes publications.
CheckedArchived(c) == Unused(c.key)

\* The checks that come first: findIdempotentResult and assertProjectActive.
Checked(c) == Unused(c.key) /\ (c.op \in Publishing => ~archived)

\* Mutant: a deleted artifact still moves.
CurrentDeleted(c) == artifact[c.art].st # "none" /\ artifact[c.art].cur = c.exp

\* assertExpectedCurrentVersion
Current(c) == Live(c.art) /\ artifact[c.art].cur = c.exp

\* readOpenCandidate
OpenCandidate(v, a) == version[v].st = "candidate" /\ version[v].art = a

\* Mutant: any version of the artifact is restored.
RestorableAny(v, a) == version[v].art = a

Restorable(v, a) == version[v].art = a /\ Accepted(v)

\* What each operation requires of the rows it reads.
Permitted(c) ==
    \/ c.op = "create"
    \/ c.op \in {"publish", "stage", "access", "rename", "tags", "delete"} /\ Current(c)
    \/ c.op = "restore" /\ Current(c) /\ Restorable(c.arg, c.art)
    \/ /\ c.op = "promote" /\ Live(c.art) /\ OpenCandidate(c.arg, c.art)
       /\ artifact[c.art].cur = version[c.arg].base
    \/ c.op \in Closing /\ Live(c.art) /\ OpenCandidate(c.arg, c.art)

-----------------------------------------------------------------------------
(* The reads of D1                                                         *)

\* The idempotency record and the project are read first.
Ask(c) ==
    /\ D1
    /\ Cardinality(calls) < MaxCalls
    /\ Checked(c)
    /\ calls' = calls \cup {c}
    /\ UNCHANGED <<settings, rows, records, job, repo>>

\* The artifact, the candidate or target, and the next version number.
ReadRows(c) ==
    /\ c.at = "checked"
    /\ Permitted(c)
    /\ calls' = (calls \ {c}) \cup
                  {[c EXCEPT !.at = "read", !.num = NextNumber(c.art),
                             !.from = artifact[c.art].public]}
    /\ UNCHANGED <<settings, rows, records, job, repo>>

\* A check, a guard or a lost request ends the operation without a trace.
DropCall(c) ==
    /\ calls' = calls \ {c}
    /\ UNCHANGED <<settings, rows, records, job, repo>>

\* What a command stands on when it writes: the transaction's own checks, or
\* the reads of its earlier round trips.
Ready(c) ==
    IF D1 THEN c.at = "read" ELSE Checked(c) /\ Permitted(c)

NumberFor(c) == IF D1 THEN c.num ELSE NextNumber(c.art)
AccessFrom(c) == IF D1 THEN c.from ELSE artifact[c.art].public

-----------------------------------------------------------------------------
(* The writes                                                              *)

\* Mutant: the record of a key is overwritten.
UnrecordedAlways(c) == TRUE

\* The primary key of idempotency_records.
Unrecorded(c) == Unused(c.key)

\* insertIdempotency, and the action row every operation writes.
Record(c, v) ==
    /\ Unrecorded(c)
    /\ receipt' = IF c.key = None THEN receipt ELSE [receipt EXCEPT ![c.key] = v]
    /\ effects' = IF c.key = None THEN effects ELSE [effects EXCEPT ![c.key] = @ + 1]
    /\ calls' = calls \ {c}

\* queueMirrorJobIfEnabled: "INSERT OR IGNORE", the id derives from the version.
MirrorQueued(v) ==
    IF mirroring /\ job[v].st = "none" THEN [job EXCEPT ![v].st = "queued"] ELSE job

\* Mutant: making an artifact private is not logged.
LinkActionEnableOnly(from, to, last) == IF from # to /\ to THEN "enable" ELSE last

\* publicLinkTransition
LinkAction(from, to, last) ==
    IF from = to THEN last ELSE IF to THEN "enable" ELSE "disable"

\* applyNewArtifactCommit, with the access setting of the new artifact.
CommitNewArtifact(c, public) ==
    /\ c.op = "create" /\ Ready(c)
    /\ artifact[c.art].st = "none"
    /\ version[c.arg].st = "none"
    /\ Record(c, c.arg)
    /\ artifact' = [artifact EXCEPT ![c.art] =
                      [st |-> "live", cur |-> c.arg, public |-> public,
                       name |-> CHOOSE n \in Names : TRUE, tags |-> CHOOSE n \in Names : TRUE]]
    /\ version' = [version EXCEPT ![c.arg] =
                     [st |-> "mainline", art |-> c.art, num |-> 1, base |-> None]]
    /\ linked' = [linked EXCEPT ![c.art] = LinkAction(FALSE, public, @)]
    /\ job' = MirrorQueued(c.arg)
    /\ UNCHANGED <<settings, repo>>

\* Mutant: the batch does not notice a number taken since it was read.
NumberFreeUnchecked(c) == TRUE

\* UNIQUE (artifact_id, number)
NumberFree(c) == NumberFor(c) \notin NumbersOf(c.art)

\* applyVersionCommit without "stage".
CommitVersion(c) ==
    /\ c.op = "publish" /\ Ready(c)
    /\ Current(c)
    /\ version[c.arg].st = "none"
    /\ NumberFree(c)
    /\ Record(c, c.arg)
    /\ artifact' = [artifact EXCEPT ![c.art].cur = c.arg]
    /\ version' = [version EXCEPT ![c.arg] =
                     [st |-> "mainline", art |-> c.art, num |-> NumberFor(c), base |-> None]]
    /\ job' = MirrorQueued(c.arg)
    /\ UNCHANGED <<settings, linked, repo>>

\* applyVersionCommit with "stage": current stays, no mirror job.
StageCandidate(c) ==
    /\ c.op = "stage" /\ Ready(c)
    /\ Current(c)
    /\ version[c.arg].st = "none"
    /\ NumberFree(c)
    /\ Record(c, c.arg)
    /\ version' = [version EXCEPT ![c.arg] =
                     [st |-> "candidate", art |-> c.art, num |-> NumberFor(c), base |-> c.exp]]
    /\ UNCHANGED <<settings, artifact, linked, job, repo>>

\* Mutant: the repointing of a promotion does not look at the base again.
OnBaseRead(c) == Live(c.art)

\* "... AND base_version_id = (SELECT current_version_id ...)"
OnBase(c) == Live(c.art) /\ artifact[c.art].cur = version[c.arg].base

PromoteCandidate(c) ==
    /\ c.op = "promote" /\ Ready(c)
    /\ OpenCandidate(c.arg, c.art)
    /\ OnBase(c)
    /\ Record(c, c.arg)
    /\ version' = [version EXCEPT ![c.arg].st = "promoted"]
    /\ artifact' = [artifact EXCEPT ![c.art].cur = c.arg]
    /\ job' = MirrorQueued(c.arg)
    /\ UNCHANGED <<settings, linked, repo>>

\* closeCandidate; the batch of D1 does not look at the artifact.
CloseCandidate(c) ==
    /\ c.op \in Closing /\ Ready(c)
    /\ OpenCandidate(c.arg, c.art)
    /\ Record(c, c.arg)
    /\ version' = [version EXCEPT ![c.arg].st = c.op]
    /\ UNCHANGED <<settings, artifact, linked, job, repo>>

\* The guard of D1 compares current with the target after the update, so a
\* restore that finds the target already current also goes through.
RestoreVersion(c) ==
    /\ c.op = "restore" /\ Ready(c)
    /\ Current(c) \/ (D1 /\ Live(c.art) /\ artifact[c.art].cur = c.arg)
    /\ Record(c, c.arg)
    /\ artifact' = [artifact EXCEPT ![c.art].cur = c.arg]
    /\ UNCHANGED <<settings, version, linked, job, repo>>

\* The companion action compares with the setting that was read.
ChangeAccessSetting(c) ==
    /\ c.op = "access" /\ Ready(c)
    /\ Current(c)
    /\ Record(c, c.exp)
    /\ artifact' = [artifact EXCEPT ![c.art].public = c.arg]
    /\ linked' = [linked EXCEPT ![c.art] = LinkAction(AccessFrom(c), c.arg, @)]
    /\ UNCHANGED <<settings, version, job, repo>>

\* renameArtifact: the name is compared and swapped too.
RenameArtifact(c, expectedName) ==
    /\ c.op = "rename" /\ Ready(c)
    /\ Current(c)
    /\ artifact[c.art].name = expectedName
    /\ Record(c, c.exp)
    /\ artifact' = [artifact EXCEPT ![c.art].name = c.arg]
    /\ UNCHANGED <<settings, version, linked, job, repo>>

ChangeTags(c) ==
    /\ c.op = "tags" /\ Ready(c)
    /\ Current(c)
    /\ Record(c, c.exp)
    /\ artifact' = [artifact EXCEPT ![c.art].tags = c.arg]
    /\ UNCHANGED <<settings, version, linked, job, repo>>

HasRepo(a) == repo[a] \in {"provisioned", "deleting"}

\* The job rows deleteArtifact leaves: D1 ends the mirror jobs, and a
\* repository that has coordinates is queued for deletion.
JobsAfterDelete(a) ==
    [j \in Versions \cup Artifacts |->
       IF j = a /\ HasRepo(a) /\ job[j].st = "none" THEN [job[j] EXCEPT !.st = "queued"]
       ELSE IF j \in VersionsOf(a) /\ D1 /\ job[j].st \in {"queued", "claimed"}
            THEN [job[j] EXCEPT !.st = "done", !.live = FALSE]
       ELSE job[j]]

DeleteArtifact(c) ==
    /\ c.op = "delete" /\ Ready(c)
    /\ Current(c)
    /\ Record(c, c.exp)
    /\ artifact' = [artifact EXCEPT ![c.art].st = "deleted"]
    /\ job' = JobsAfterDelete(c.art)
    /\ repo' = IF HasRepo(c.art) THEN [repo EXCEPT ![c.art] = "deleting"] ELSE repo
    /\ UNCHANGED <<settings, version, linked>>

-----------------------------------------------------------------------------
(* The project                                                             *)

SetProjectArchive ==
    /\ "archive" \in Ops
    /\ archived' = ~archived
    /\ UNCHANGED <<mirroring, rows, records, job, repo, calls>>

\* storeProjectGitHistorySetting
StoreGitHistorySetting ==
    /\ "mirror" \in Ops
    /\ mirroring' = ~mirroring
    /\ UNCHANGED <<archived, rows, records, job, repo, calls>>

-----------------------------------------------------------------------------
HistoryInit ==
    /\ archived = FALSE
    /\ mirroring = FALSE
    /\ artifact = [a \in Artifacts |-> NoArtifact]
    /\ version = [v \in Versions |-> NoVersion]
    /\ receipt = [k \in Keys |-> None]
    /\ linked = [a \in Artifacts |-> "disable"]
    /\ effects = [k \in Keys |-> 0]
    /\ job = [j \in Versions \cup Artifacts |-> NoJob]
    /\ repo = [a \in Artifacts |-> "none"]
    /\ calls = {}

Write(c) ==
    \/ \E public \in BOOLEAN : CommitNewArtifact(c, public)
    \/ CommitVersion(c) \/ StageCandidate(c) \/ PromoteCandidate(c) \/ CloseCandidate(c)
    \/ RestoreVersion(c) \/ ChangeAccessSetting(c) \/ ChangeTags(c) \/ DeleteArtifact(c)
    \/ \E n \in Names : RenameArtifact(c, n)

HistoryNext ==
    \/ \E c \in Commands : Ask(c) \/ (~D1 /\ Write(c))
    \/ \E c \in calls : ReadRows(c) \/ Write(c) \/ DropCall(c)
    \/ SetProjectArchive \/ StoreGitHistorySetting

Spec == HistoryInit /\ [][HistoryNext]_historyVars

-----------------------------------------------------------------------------
(* Properties                                                              *)

ArtifactRows ==
    [st : {"none", "live", "deleted"}, cur : Versions \cup {None}, public : BOOLEAN,
     name : Names \cup {None}, tags : Names \cup {None}]

VersionRows ==
    [st : {"none", "mainline", "candidate", "promoted", "rejected", "superseded"},
     art : Artifacts \cup {None}, num : Nat, base : Versions \cup {None}]

JobRows == [st : {"none", "queued", "claimed", "done"}, att : Nat, live : BOOLEAN]

\* The types of the rows of the version history tables.
TypeOK ==
    /\ archived \in BOOLEAN /\ mirroring \in BOOLEAN
    /\ artifact \in [Artifacts -> ArtifactRows]
    /\ version \in [Versions -> VersionRows]
    /\ receipt \in [Keys -> Versions \cup {None}]
    /\ linked \in [Artifacts -> {"enable", "disable"}]
    /\ effects \in [Keys -> Nat]
    /\ job \in [Versions \cup Artifacts -> JobRows]
    /\ repo \in [Artifacts -> {"none", "provisioned", "deleting", "deleted"}]

\* The current version of an artifact, deleted or not, is a version of that
\* artifact in accepted history: no order of promotions, restores, closures
\* and publications leaves an open or closed candidate current.  (The trigger
\* artifacts_current_version_accepted is not modelled: it never has to fire.)
CurrentIsAccepted ==
    \A a \in Artifacts : artifact[a].st # "none" =>
        /\ artifact[a].cur \in VersionsOf(a)
        /\ Accepted(artifact[a].cur)

\* The versions of an artifact are numbered 1, 2, 3 ... without a gap and
\* without a repetition, candidates included, although publishers compute the
\* next number before their write.
NumbersAreGapless ==
    \A a \in Artifacts : NumbersOf(a) = 1..Cardinality(VersionsOf(a))

\* The rows of every artifact form a history: typed, numbered without gaps, and
\* with an accepted version as the current one.
HistoryIsSound == TypeOK /\ NumbersAreGapless /\ CurrentIsAccepted

\* A key that several requests carry takes effect once: the checks of
\* overlapping requests may all pass, the primary key of the record decides.
OneEffectPerKey == \A k \in Keys : effects[k] <= 1

\* History is append-only: a saved version keeps its artifact, number and base,
\* and the only change of state is that of a candidate, which is closed or
\* becomes current in the step that promotes it, and then it leaves its base.
HistoryIsImmutable ==
    [][\A v \in Versions :
         LET from == version[v]
             to == version'[v] IN
         from.st # "none" =>
           /\ <<to.art, to.num, to.base>> = <<from.art, from.num, from.base>>
           /\ \/ to.st = from.st
              \/ from.st = "candidate" /\ to.st \in Closing
              \/ /\ from.st = "candidate" /\ to.st = "promoted"
                 /\ artifact[from.art].cur = from.base
                 /\ artifact'[from.art].cur = v]_historyVars

\* While a project is archived it gains no artifact and no version.
ArchivedStaysClosed ==
    [][archived /\ archived' =>
         \A v \in Versions : version[v].st = "none" => version'[v].st = "none"]_historyVars

\* The public-link actions tell the history of the access setting: the latest
\* one of an artifact says what its setting is.
LinkLogAgrees ==
    \A a \in Artifacts : artifact[a].public <=> linked[a] = "enable"

\* A version joins accepted history with a number above every accepted one.
AcceptedNumbersIncrease ==
    [][\A v, w \in Versions :
         /\ ~Accepted(v) /\ Accepted(v)'
         /\ Accepted(w) /\ version[w].art = version'[v].art
         => version[w].num < version'[v].num]_historyVars

\* Every store implements the promise of AcceptedHistory.
History == INSTANCE AcceptedHistory WITH
    head <- [a \in Artifacts |-> artifact[a].cur],
    accepted <- [a \in Artifacts |-> {v \in VersionsOf(a) : Accepted(v)}],
    open <- {<<version[v].art, v, version[v].base>> :
               v \in {w \in Versions : version[w].st = "candidate"}},
    spent <- {v \in Versions : version[v].st # "none"},
    gone <- {a \in Artifacts : artifact[a].st = "deleted"}

\* The operations implement AcceptedHistory: current moves to a version accepted
\* in that step, to a candidate of the version it leaves or back to an accepted
\* version, and it stays where it is once the artifact is deleted.
KeepsAcceptedHistory == History!Spec

==============================================================================
