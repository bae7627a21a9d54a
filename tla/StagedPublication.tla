-------------------------- MODULE StagedPublication --------------------------
(***************************************************************************)
(* Staged publication: how bytes travel from a client to an immutable      *)
(* version.  A client creates a staged upload, puts every declared file    *)
(* into staging, and asks for a commit.  The commit drives a preparation   *)
(* (install every staged file as a content-addressed blob, under a fenced  *)
(* lease) and then seals the upload in one repository transaction.         *)
(* Cleanup passes reclaim expired uploads and the staging of committed     *)
(* ones.  Requests and passes run concurrently, on several servers, and    *)
(* may stop between any two of their awaited calls.                        *)
(*                                                                         *)
(* One action is one awaited repository transaction or storage call.  The  *)
(* variable "upload" is the staged_uploads row together with its           *)
(* staged_upload_files and prepared_manifest_entries rows; "req" and       *)
(* "pass" are the local variables of the requests and cleanup passes in    *)
(* flight.  Every upload declares the same manifest, because the           *)
(* interesting races are between retries of one publication.               *)
(***************************************************************************)
EXTENDS Integers, FiniteSets

CONSTANTS
    Uploads,            \* upload ids available to createUpload
    Keys,               \* idempotency keys
    Requests,           \* server requests in flight
    Cleaners,           \* cleanup passes in flight
    NumFiles,           \* files declared by the manifest, in path order
    Lifetime,           \* uploadLifetimeMilliseconds, in clock ticks
    Lease,              \* preparationLeaseSeconds
    RenewalWindow,      \* preparationRenewalSeconds
    Settle,             \* settleDelayMilliseconds of the cleanup policy
    FilesPerPass,       \* config.filesPerPass
    EntriesPerPass,     \* config.preparedEntriesPerPass
    InstallConcurrency, \* installConcurrency
    CommitNeedsPrepared,\* the Postgres and D1 commit check; FALSE for SQLite
    MaxTime,            \* bound: the clock stops here
    MaxAttempts,        \* bound: preparation claims per upload
    LastStop,           \* bound: cleanup passes fail or crash until this time
    NoUpload, NoKey, NoFile

ASSUME TimesAssumption ==
    /\ Lifetime \in Nat \ {0}
    /\ Lease \in Nat \ {0}
    /\ Settle \in Nat \ {0}
    /\ RenewalWindow \in Nat
    /\ MaxTime \in Nat
    /\ MaxAttempts \in Nat
    /\ LastStop \in Int

ASSUME BudgetAssumption ==
    /\ NumFiles \in Nat \ {0}
    /\ FilesPerPass \in Nat \ {0}
    /\ EntriesPerPass \in Nat \ {0}
    /\ InstallConcurrency \in Nat \ {0}
    /\ CommitNeedsPrepared \in BOOLEAN

ASSUME NamesAssumption ==
    /\ NoUpload \notin Uploads
    /\ NoKey \notin Keys
    /\ NoFile \notin 1..NumFiles

Files == 1..NumFiles
NoTime == -1

VARIABLES
    now,     \* the application clock
    upload,  \* upload rows, by id
    staged,  \* bytes in staging storage, by upload id
    blobs,   \* installed content-addressed blobs; a file stands for its digest
    receipt, \* idempotency_records: the upload a key published, or NoUpload
    req,     \* local variables of every request
    pass     \* local variables of every cleanup pass

vars == <<now, upload, staged, blobs, receipt, req, pass>>

-----------------------------------------------------------------------------
(* Rows and local variables                                                *)

AbsentRow ==
    [status |-> "absent", key |-> NoKey, expires |-> 0, prep |-> "none",
     attempts |-> 0, lease |-> NoTime, cleanup |-> NoTime, entries |-> 0,
     files |-> {}, uploaded |-> {}, installed |-> {}, swept |-> {},
     cleaned |-> FALSE]

RemovedRow == [AbsentRow EXCEPT !.status = "removed"]

\* createKeyBoundUpload: the row createStagedUpload inserts at the current time.
OpenRow(k) ==
    [AbsentRow EXCEPT !.status = "open", !.key = k,
                      !.expires = now + Lifetime, !.files = Files]

IdleReq ==
    [pc |-> "idle", u |-> NoUpload, k |-> NoKey, f |-> NoFile, exp |-> 0,
     t |-> 0, snap |-> {}, att |-> 0, lease |-> 0, todo |-> {}, chunk |-> {},
     landed |-> {}, more |-> FALSE]

IdlePass == [pc |-> "idle", u |-> NoUpload, f |-> NoFile, t |-> 0, todo |-> {}]

SetRow(u, row) == upload' = [upload EXCEPT ![u] = row]
SetReq(r, q) == req' = [req EXCEPT ![r] = q]
SetPass(c, p) == pass' = [pass EXCEPT ![c] = p]

\* The first n elements of a set of files, in path order.
FirstN(S, n) == {f \in S : Cardinality({g \in S : g < f}) < n}

\* "lease IS NULL OR lease <= t": no preparation can be running at t.
LeaseOver(row, t) == row.lease = NoTime \/ row.lease <= t

\* "status = 'open' AND expires_at > t"
Accepting(row, t) == row.status = "open" /\ row.expires > t

\* readStagedUploadByHeader rejects a row whose file rows no longer
\* produce the stored manifest digest.
Readable(row) == row.files = Files

HoldsKey(row, k) == row.key = k /\ row.status \in {"open", "committed"}

\* "status = 'open' AND preparation_state = 'claimed' AND
\* preparation_attempts = ?": the fence around every write of a preparation.
\* The lease time is compared by renewals only.
Fenced(q) ==
    LET row == upload[q.u] IN
    /\ row.status = "open"
    /\ row.prep = "claimed"
    /\ row.attempts = q.att

\* Mutant: the delete condition without the status.
ReclaimableAnyStatus(row, expiredBefore, t) ==
    row.expires <= expiredBefore /\ LeaseOver(row, t)

\* The condition shared by the statements of expired-upload cleanup.
Reclaimable(row, expiredBefore, t) ==
    /\ row.status = "open"
    /\ row.expires <= expiredBefore
    /\ LeaseOver(row, t)

-----------------------------------------------------------------------------
(* Environment                                                             *)

Tick ==
    /\ now < MaxTime
    /\ now' = now + 1
    /\ UNCHANGED <<upload, staged, blobs, receipt, req, pass>>

\* A request stops: it fails with an error, is interrupted, or its server
\* crashes.  No handler releases a preparation claim on this path.
Fail(r) ==
    /\ req[r].pc # "idle"
    /\ SetReq(r, IdleReq)
    /\ UNCHANGED <<now, upload, staged, blobs, receipt, pass>>

-----------------------------------------------------------------------------
(* createUpload                                                            *)

\* The upload is handed to the reuse loop with the files not yet uploaded.
Reusing(u, files) == [IdleReq EXCEPT !.pc = "reuse", !.u = u, !.todo = files]

\* Without an idempotency key a fresh upload is inserted directly.
CreateFresh(r, u) ==
    /\ req[r].pc = "idle"
    /\ upload[u].status = "absent"
    /\ SetRow(u, OpenRow(NoKey))
    /\ SetReq(r, Reusing(u, Files))
    /\ UNCHANGED <<now, staged, blobs, receipt, pass>>

\* A key without a publication or an upload goes on to insert one; a live
\* upload of the key is resumed; an expired one is removed first.  A key with a
\* receipt, and a committed upload of another key, end the request unchanged.
CreateRead(r, k) ==
    /\ req[r].pc = "idle"
    /\ receipt[k] = NoUpload
    /\ \/ /\ \A u \in Uploads : ~HoldsKey(upload[u], k)
          /\ SetReq(r, [IdleReq EXCEPT !.pc = "insert", !.k = k])
       \/ \E u \in Uploads :
             LET row == upload[u] IN
             /\ HoldsKey(row, k) /\ Readable(row)
             /\ \/ /\ Accepting(row, now)
                   /\ SetReq(r, Reusing(u, Files \ row.uploaded))
                \/ /\ row.status = "open" /\ row.expires <= now
                   /\ SetReq(r, [IdleReq EXCEPT !.pc = "purge", !.u = u, !.k = k,
                                                !.exp = row.expires, !.t = now,
                                                !.todo = Files])
    /\ UNCHANGED <<now, upload, staged, blobs, receipt, pass>>

\* removeExpiredStagedUpload of the service, first half: staging.remove of
\* every file, with no cleanup claim and no look at the preparation lease.
PurgeFile(r) ==
    LET me == req[r] IN
    /\ me.pc = "purge"
    /\ \E f \in me.todo :
          /\ staged' = [staged EXCEPT ![me.u] = @ \ {f}]
          /\ SetReq(r, [me EXCEPT !.todo = me.todo \ {f}])
    /\ UNCHANGED <<now, upload, blobs, receipt, pass>>

\* Second half: the conditional delete, whose outcome is ignored.
PurgeRow(r) ==
    LET me == req[r] IN
    /\ me.pc = "purge"
    /\ me.todo = {}
    /\ \/ Reclaimable(upload[me.u], me.exp, me.t) /\ SetRow(me.u, RemovedRow)
       \/ ~Reclaimable(upload[me.u], me.exp, me.t) /\ UNCHANGED upload
    /\ SetReq(r, [IdleReq EXCEPT !.pc = "reinsert", !.k = me.k])
    /\ UNCHANGED <<now, staged, blobs, receipt, pass>>

\* createStagedUpload of a key-bound upload: the unique index admits it only
\* while no other upload holds the key.
CreateInsert(r, u) ==
    LET k == req[r].k IN
    /\ req[r].pc \in {"insert", "reinsert"}
    /\ upload[u].status = "absent"
    /\ \A v \in Uploads : ~HoldsKey(upload[v], k)
    /\ SetRow(u, OpenRow(k))
    /\ SetReq(r, Reusing(u, Files))
    /\ UNCHANGED <<now, staged, blobs, receipt, pass>>

\* The unique index refused a first insert: the raced upload is resumed when
\* it is open and live.  (After a purge the refusal is an error.)
CreateRaced(r) ==
    /\ req[r].pc = "insert"
    /\ \E u \in Uploads :
          /\ HoldsKey(upload[u], req[r].k)
          /\ Readable(upload[u])
          /\ Accepting(upload[u], now)
          /\ SetReq(r, Reusing(u, Files \ upload[u].uploaded))
    /\ UNCHANGED <<now, upload, staged, blobs, receipt, pass>>

\* hasReusableContent, and a blob that verifies.
ReusableContent(f) == \E u \in Uploads : upload[u].status = "committed" /\ f \in blobs

\* createUploadWithReuse: content that a committed version of the project
\* holds is marked uploaded and installed.  Without read authority, or when the
\* blob cannot be read, the file is left for the client to upload.
ReuseFile(r) ==
    LET me == req[r]
        row == upload[me.u] IN
    /\ me.pc = "reuse"
    /\ \E f \in me.todo :
          /\ SetReq(r, [me EXCEPT !.todo = me.todo \ {f}])
          /\ \/ /\ ReusableContent(f)
                /\ Accepting(row, now) /\ f \in row.files
                /\ SetRow(me.u, [row EXCEPT !.uploaded = row.uploaded \cup {f},
                                            !.installed = row.installed \cup {f}])
             \/ UNCHANGED upload
    /\ UNCHANGED <<now, staged, blobs, receipt, pass>>

CreateDone(r) ==
    /\ req[r].pc = "reuse"
    /\ req[r].todo = {}
    /\ SetReq(r, IdleReq)
    /\ UNCHANGED <<now, upload, staged, blobs, receipt, pass>>

-----------------------------------------------------------------------------
(* uploadFile, and each part of uploadBatch                                *)

PutStart(r, u, f) ==
    /\ req[r].pc = "idle"
    /\ Accepting(upload[u], now)
    /\ f \in upload[u].files
    /\ SetReq(r, [IdleReq EXCEPT !.pc = "put", !.u = u, !.f = f,
                                 !.exp = upload[u].expires])
    /\ UNCHANGED <<now, upload, staged, blobs, receipt, pass>>

\* staging.put under abortSignalUntil(slot.expiresAt): a verified temporary
\* file renamed over the slot.
PutBytes(r) ==
    LET me == req[r] IN
    /\ me.pc = "put"
    /\ now <= me.exp
    /\ staged' = [staged EXCEPT ![me.u] = @ \cup {me.f}]
    /\ SetReq(r, [me EXCEPT !.pc = "mark"])
    /\ UNCHANGED <<now, upload, blobs, receipt, pass>>

\* markStagedFileUploaded
PutMark(r) ==
    LET me == req[r]
        row == upload[me.u] IN
    /\ me.pc = "mark"
    /\ Accepting(row, now)
    /\ me.f \in row.files
    /\ SetRow(me.u, [row EXCEPT !.uploaded = row.uploaded \cup {me.f}])
    /\ SetReq(r, IdleReq)
    /\ UNCHANGED <<now, staged, blobs, receipt, pass>>

-----------------------------------------------------------------------------
(* commitUpload: read, then prepareUpload                                  *)

ReadyToPrepare(row) ==
    /\ Readable(row)
    /\ Accepting(row, now)
    /\ row.uploaded = Files

\* commitUpload reads the upload; publication later skips exactly the files
\* this snapshot saw installed.  (The commit of a sealed upload only replays
\* its receipt and is not a step.)
CommitStart(r, u, k) ==
    /\ req[r].pc = "idle"
    /\ ReadyToPrepare(upload[u])
    /\ SetReq(r, [IdleReq EXCEPT !.pc = "fetch", !.u = u, !.k = k,
                                 !.snap = upload[u].installed])
    /\ UNCHANGED <<now, upload, staged, blobs, receipt, pass>>

\* Mutant: the pass forgets the files it does not get to.
FilesLeftForgotten(row) == FALSE

\* remainingUninstalled > 0: the pass leaves files for the next one.
FilesLeft(row) == Files \ row.installed # FirstN(Files \ row.installed, FilesPerPass)

\* prepareUpload re-reads the row and sizes this pass.
PrepareFetch(r) ==
    LET me == req[r]
        row == upload[me.u] IN
    /\ me.pc = "fetch"
    /\ ReadyToPrepare(row)
    /\ \/ /\ row.prep = "prepared"
          /\ row.installed = Files
          /\ row.entries = NumFiles
          /\ SetReq(r, [me EXCEPT !.pc = "check"])
       \/ /\ row.prep # "prepared"
          /\ SetReq(r, [me EXCEPT !.pc = "claim", !.more = FilesLeft(row),
                                  !.todo = FirstN(Files \ row.installed, FilesPerPass)])
    /\ UNCHANGED <<now, upload, staged, blobs, receipt, pass>>

\* Mutants: a claim that ignores the cleanup stamp, and one that takes over a
\* lapsed lease even from a prepared upload.
ClaimableStamped(row) ==
    /\ row.status = "open"
    /\ row.prep = "none" \/ (row.prep = "claimed" /\ row.lease # NoTime /\ row.lease <= now)

ClaimablePrepared(row) ==
    /\ row.status = "open"
    /\ row.cleanup = NoTime
    /\ row.prep = "none" \/ (row.lease # NoTime /\ row.lease <= now)

\* The WHERE clause of claimUploadPreparation.  The expiry is not compared.
Claimable(row) ==
    /\ row.status = "open"
    /\ row.cleanup = NoTime
    /\ \/ row.prep = "none"
       \/ row.prep = "claimed" /\ row.lease # NoTime /\ row.lease <= now

\* Mutant: a takeover keeps the attempt number.
NextAttemptKept(row) == IF row.attempts = 0 THEN 1 ELSE row.attempts

NextAttempt(row) == row.attempts + 1

PrepareClaim(r) ==
    LET me == req[r]
        row == upload[me.u] IN
    /\ me.pc = "claim"
    /\ row.attempts < MaxAttempts
    /\ Claimable(row)
    /\ SetRow(me.u, [row EXCEPT !.prep = "claimed", !.attempts = NextAttempt(row),
                                !.lease = now + Lease])
    /\ SetReq(r, [me EXCEPT !.pc = IF me.todo = {} THEN "entries" ELSE "chunk",
                            !.att = NextAttempt(row), !.lease = now + Lease])
    /\ UNCHANGED <<now, staged, blobs, receipt, pass>>

\* installBatch goes on with the next files.
NextChunk(q) ==
    LET chunk == FirstN(q.todo, InstallConcurrency) IN
    [q EXCEPT !.pc = "install", !.chunk = chunk, !.todo = q.todo \ chunk]

\* The head of installBatch's loop: renewLeaseIfDue reads the clock, and asks for
\* a renewal when the lease ends soon.
PrepareChunk(r) ==
    LET me == req[r] IN
    /\ me.pc = "chunk"
    /\ \/ me.lease > now + RenewalWindow /\ SetReq(r, NextChunk(me))
       \/ /\ me.lease <= now + RenewalWindow
          /\ SetReq(r, [me EXCEPT !.pc = "renew", !.t = now])
    /\ UNCHANGED <<now, upload, staged, blobs, receipt, pass>>

\* renewUploadPreparation, which arrives later: it compares the lease with the
\* clock that was read before the call, and does not look at the cleanup stamp.
PrepareRenew(r) ==
    LET me == req[r]
        row == upload[me.u] IN
    /\ me.pc = "renew"
    /\ Fenced(me) /\ row.lease > me.t
    /\ SetRow(me.u, [row EXCEPT !.lease = me.t + Lease])
    /\ SetReq(r, [NextChunk(me) EXCEPT !.lease = me.t + Lease])
    /\ UNCHANGED <<now, staged, blobs, receipt, pass>>

\* Mutant: staged bytes that cannot be read count as installed.
InstallableUnread(files, u) == files

\* installPublicationFile needs the staged bytes, even for an existing blob.
Installable(files, u) == files \cap staged[u]

\* Promote or copy the verified staged bytes, which are all that can land in
\* the blob store: no signal and no fence.
PrepareInstall(r) ==
    LET me == req[r] IN
    /\ me.pc = "install"
    /\ \E f \in Installable(me.chunk, me.u) :
          /\ blobs' = blobs \cup ({f} \cap staged[me.u])
          /\ SetReq(r, [me EXCEPT !.chunk = me.chunk \ {f}, !.landed = me.landed \cup {f}])
    /\ UNCHANGED <<now, upload, staged, receipt, pass>>

\* recordStagedFileInstalled; the last record of a chunk ends it.
PrepareRecord(r) ==
    LET me == req[r]
        row == upload[me.u] IN
    /\ me.pc = "install"
    /\ Fenced(me)
    /\ \E f \in me.landed \cap row.files :
          /\ SetRow(me.u, [row EXCEPT !.installed = row.installed \cup {f}])
          /\ SetReq(r, [me EXCEPT !.landed = me.landed \ {f},
                                  !.pc = IF me.chunk # {} \/ me.landed # {f} THEN "install"
                                         ELSE IF me.todo # {} THEN "chunk"
                                         ELSE "extend"])
    /\ UNCHANGED <<now, staged, blobs, receipt, pass>>

\* refreshUploadExpiry
PrepareExtend(r) ==
    LET me == req[r] IN
    /\ me.pc = "extend"
    /\ Fenced(me)
    /\ SetRow(me.u, [upload[me.u] EXCEPT !.expires = now + Lifetime])
    /\ SetReq(r, [me EXCEPT !.pc = "entries"])
    /\ UNCHANGED <<now, staged, blobs, receipt, pass>>

\* The entries present after writing the next slice.
EntriesAfter(row) ==
    IF row.entries + EntriesPerPass < NumFiles THEN row.entries + EntriesPerPass
    ELSE NumFiles

\* ensurePreparedManifestEntries: count, then write the next slice.  Only the
\* fenced holder writes entries, so its count cannot be stale when it writes.
PrepareEntries(r) ==
    LET me == req[r]
        row == upload[me.u] IN
    /\ me.pc = "entries"
    /\ \/ row.entries = NumFiles /\ UNCHANGED upload
       \/ /\ row.entries # NumFiles /\ Fenced(me)
          /\ SetRow(me.u, [row EXCEPT !.entries = EntriesAfter(row)])
    /\ SetReq(r, [me EXCEPT !.pc = "finish",
                            !.more = (me.more \/ EntriesAfter(row) # NumFiles)])
    /\ UNCHANGED <<now, staged, blobs, receipt, pass>>

\* An incomplete pass releases its claim and answers "preparing".
PrepareRelease(r) ==
    LET me == req[r] IN
    /\ me.pc = "finish"
    /\ me.more
    /\ \/ /\ Fenced(me)
          /\ SetRow(me.u, [upload[me.u] EXCEPT !.prep = "none", !.lease = NoTime])
       \/ ~Fenced(me) /\ UNCHANGED upload
    /\ SetReq(r, IdleReq)
    /\ UNCHANGED <<now, staged, blobs, receipt, pass>>

\* markUploadPrepared; the lease column keeps its value.
PrepareMark(r) ==
    LET me == req[r] IN
    /\ me.pc = "finish"
    /\ ~me.more
    /\ Fenced(me)
    /\ SetRow(me.u, [upload[me.u] EXCEPT !.prep = "prepared"])
    /\ SetReq(r, [me EXCEPT !.pc = "check"])
    /\ UNCHANGED <<now, staged, blobs, receipt, pass>>

-----------------------------------------------------------------------------
(* publishPreparedNew and publishPreparedVersion                           *)

\* What Postgres and D1 also require of the source at commit.
PreparedForCommit(row) == row.files \subseteq row.installed /\ row.prep = "prepared"

\* assertStagedUploadReady counts the file rows that are left.
SourceReady(row) ==
    /\ Accepting(row, now)
    /\ row.files # {}
    /\ row.files \subseteq row.uploaded
    /\ CommitNeedsPrepared => PreparedForCommit(row)

\* findIdempotentPublication and assertPublicationSourceReady, before any
\* byte is stored.  A replay answers from the receipt.
PublishCheck(r) ==
    LET me == req[r] IN
    /\ me.pc = "check"
    /\ \/ receipt[me.k] # NoUpload /\ SetReq(r, IdleReq)
       \/ /\ receipt[me.k] = NoUpload
          /\ SourceReady(upload[me.u])
          /\ SetReq(r, [me EXCEPT !.pc = "store", !.todo = Files \ me.snap])
    /\ UNCHANGED <<now, upload, staged, blobs, receipt, pass>>

\* storeFiles installs again every file the first read did not see installed.
PublishStore(r) ==
    LET me == req[r] IN
    /\ me.pc = "store"
    /\ \E f \in me.todo \cap staged[me.u] :
          /\ blobs' = blobs \cup {f}
          /\ SetReq(r, [me EXCEPT !.todo = me.todo \ {f}])
    /\ UNCHANGED <<now, upload, staged, receipt, pass>>

\* Mutant: the transaction does not look the key up again.
ReplaysNever(k) == FALSE

\* findIdempotentResult inside the commit transaction.
Replays(k) == receipt[k] # NoUpload

\* insertIdempotency
WriteReceipt(k, u) == receipt' = [receipt EXCEPT ![k] = u]

\* sealStagedUpload
Seal(row) == [row EXCEPT !.status = "committed"]

\* commitNewArtifact / commitVersion: one transaction that replays a known
\* key, or re-checks the upload, writes the receipt and seals the upload.
PublishCommit(r) ==
    LET me == req[r] IN
    /\ me.pc = "store"
    /\ me.todo = {}
    /\ \/ Replays(me.k) /\ UNCHANGED <<upload, receipt>>
       \/ /\ ~Replays(me.k)
          /\ SourceReady(upload[me.u])
          /\ WriteReceipt(me.k, me.u)
          /\ SetRow(me.u, Seal(upload[me.u]))
    /\ SetReq(r, IdleReq)
    /\ UNCHANGED <<now, staged, blobs, pass>>

-----------------------------------------------------------------------------
(* ExpiredStagingCleanupService.runPass, one selected upload at a time     *)

\* Mutant: a selected upload is emptied without claiming it.
CleanEntryUnclaimed == "bytes"

\* cleanOne starts with the claim.
CleanEntry == "claim"

\* listExpiredStagedUploads joins the file rows, so an upload without any is
\* not selected.  The pass keeps the time it started at.
CleanSelect(c, u) ==
    /\ pass[c].pc = "idle"
    /\ Reclaimable(upload[u], now - Settle, now)
    /\ upload[u].files # {}
    /\ SetPass(c, [IdlePass EXCEPT !.pc = CleanEntry, !.u = u, !.t = now,
                                   !.todo = upload[u].files])
    /\ UNCHANGED <<now, upload, staged, blobs, receipt, req>>

\* Mutant: a stamp left by a stopped pass is never taken over.
StampFreeOnce(row, t) == row.cleanup = NoTime

\* "cleanup_claimed_at IS NULL OR cleanup_claimed_at <= staleClaimBefore"
StampFree(row, t) == row.cleanup = NoTime \/ row.cleanup <= t - Settle

\* claimExpiredStagedUploadForCleanup, which may take over a claim that is a
\* whole settle delay old.
CleanClaim(c) ==
    LET me == pass[c]
        row == upload[me.u]
        free == Reclaimable(row, me.t - Settle, me.t) /\ StampFree(row, me.t) IN
    /\ me.pc = "claim"
    /\ \/ /\ free
          /\ SetRow(me.u, [row EXCEPT !.cleanup = me.t])
          /\ SetPass(c, [me EXCEPT !.pc = "bytes"])
       \/ ~free /\ SetPass(c, IdlePass) /\ UNCHANGED upload
    /\ UNCHANGED <<now, staged, blobs, receipt, req>>

\* storage.remove of one file of the claimed upload.
CleanBytes(c) ==
    LET me == pass[c] IN
    /\ me.pc = "bytes"
    /\ \E f \in me.todo :
          /\ staged' = [staged EXCEPT ![me.u] = @ \ {f}]
          /\ SetPass(c, [me EXCEPT !.pc = "row", !.f = f, !.todo = me.todo \ {f}])
    /\ UNCHANGED <<now, upload, blobs, receipt, req>>

\* removeExpiredStagedFile re-checks expiry and lease, not the cleanup claim.
CleanRow(c) ==
    LET me == pass[c]
        row == upload[me.u]
        still == Reclaimable(row, me.t - Settle, me.t) IN
    /\ me.pc = "row"
    /\ \/ /\ still
          /\ SetRow(me.u, [row EXCEPT !.files = row.files \ {me.f},
                                      !.uploaded = row.uploaded \ {me.f},
                                      !.installed = row.installed \ {me.f}])
       \/ ~still /\ UNCHANGED upload
    /\ SetPass(c, [me EXCEPT !.pc = "bytes", !.f = NoFile])
    /\ UNCHANGED <<now, staged, blobs, receipt, req>>

\* removeExpiredStagedUpload, once every selected file is gone.
CleanUpload(c) ==
    LET me == pass[c]
        still == Reclaimable(upload[me.u], me.t - Settle, me.t) IN
    /\ me.pc = "bytes"
    /\ me.todo = {}
    /\ \/ still /\ SetRow(me.u, RemovedRow)
       \/ ~still /\ UNCHANGED upload
    /\ SetPass(c, IdlePass)
    /\ UNCHANGED <<now, staged, blobs, receipt, req>>

\* The release statement of both cleanups back-dates the pass's own stamp; it
\* never clears it.
ReleaseStamp(p, status) ==
    LET row == upload[p.u]
        mine == row.status = status /\ row.cleanup = p.t IN
    \/ mine /\ SetRow(p.u, [row EXCEPT !.cleanup = p.t - Settle])
    \/ ~mine /\ UNCHANGED upload

\* A storage or repository failure, or an exhausted budget.
CleanStop(c) ==
    /\ pass[c].pc \in {"bytes", "row"}
    /\ now <= LastStop
    /\ ReleaseStamp(pass[c], "open")
    /\ SetPass(c, IdlePass)
    /\ UNCHANGED <<now, staged, blobs, receipt, req>>

-----------------------------------------------------------------------------
(* cleanupCommittedStaging, one selected upload at a time                  *)

\* Mutant: committed staging is swept as soon as the upload expires.
SweepableAtOnce(row, t) == row.status = "committed" /\ row.expires <= t /\ ~row.cleaned

\* "status = 'committed' AND expires_at <= ? AND staging_cleaned_at IS NULL"
Sweepable(row, t) == row.status = "committed" /\ row.expires <= t - Settle /\ ~row.cleaned

SweepSelect(c, u) ==
    /\ pass[c].pc = "idle"
    /\ Sweepable(upload[u], now)
    /\ SetPass(c, [IdlePass EXCEPT !.pc = "sclaim", !.u = u, !.t = now,
                                   !.todo = upload[u].files \ upload[u].swept])
    /\ UNCHANGED <<now, upload, staged, blobs, receipt, req>>

SweepClaim(c) ==
    LET me == pass[c]
        row == upload[me.u]
        free == Sweepable(row, me.t) /\ StampFree(row, me.t) IN
    /\ me.pc = "sclaim"
    /\ \/ /\ free
          /\ SetRow(me.u, [row EXCEPT !.cleanup = me.t])
          /\ SetPass(c, [me EXCEPT !.pc = "sbytes"])
       \/ ~free /\ SetPass(c, IdlePass) /\ UNCHANGED upload
    /\ UNCHANGED <<now, staged, blobs, receipt, req>>

\* The staged copy goes only after the blob proved intact.
SweepBytes(c) ==
    LET me == pass[c] IN
    /\ me.pc = "sbytes"
    /\ \E f \in me.todo \cap blobs :
          /\ staged' = [staged EXCEPT ![me.u] = @ \ {f}]
          /\ SetPass(c, [me EXCEPT !.pc = "smark", !.f = f, !.todo = me.todo \ {f}])
    /\ UNCHANGED <<now, upload, blobs, receipt, req>>

\* markFileRemoved, which fails when the claim was taken over.
SweepMark(c) ==
    LET me == pass[c]
        row == upload[me.u] IN
    /\ me.pc = "smark"
    /\ row.cleanup = me.t
    /\ SetRow(me.u, [row EXCEPT !.swept = row.swept \cup {me.f}])
    /\ SetPass(c, [me EXCEPT !.pc = "sbytes", !.f = NoFile])
    /\ UNCHANGED <<now, staged, blobs, receipt, req>>

\* complete, and the release that always follows it.
SweepComplete(c) ==
    LET me == pass[c]
        row == upload[me.u]
        done == row.cleanup = me.t /\ row.files \subseteq row.swept IN
    /\ me.pc = "sbytes"
    /\ me.todo = {}
    /\ \/ done /\ SetRow(me.u, [row EXCEPT !.cleaned = TRUE, !.cleanup = NoTime])
       \/ ~done /\ ReleaseStamp(me, "committed")
    /\ SetPass(c, IdlePass)
    /\ UNCHANGED <<now, staged, blobs, receipt, req>>

\* A failure, a lost claim or an exhausted budget.
SweepStop(c) ==
    /\ pass[c].pc \in {"sbytes", "smark"}
    /\ now <= LastStop
    /\ ReleaseStamp(pass[c], "committed")
    /\ SetPass(c, IdlePass)
    /\ UNCHANGED <<now, staged, blobs, receipt, req>>

\* The server running the pass dies: no release is written.
PassCrash(c) ==
    /\ pass[c].pc # "idle"
    /\ now <= LastStop
    /\ SetPass(c, IdlePass)
    /\ UNCHANGED <<now, upload, staged, blobs, receipt, req>>

-----------------------------------------------------------------------------
Init ==
    /\ now = 0
    /\ upload = [u \in Uploads |-> AbsentRow]
    /\ staged = [u \in Uploads |-> {}]
    /\ blobs = {}
    /\ receipt = [k \in Keys |-> NoUpload]
    /\ req = [r \in Requests |-> IdleReq]
    /\ pass = [c \in Cleaners |-> IdlePass]

CreateStep(r) ==
    \/ \E u \in Uploads : CreateFresh(r, u) \/ CreateInsert(r, u)
    \/ \E k \in Keys : CreateRead(r, k)
    \/ PurgeFile(r) \/ PurgeRow(r) \/ CreateRaced(r) \/ ReuseFile(r) \/ CreateDone(r)

PutStep(r) ==
    \/ \E u \in Uploads, f \in Files : PutStart(r, u, f)
    \/ PutBytes(r) \/ PutMark(r)

CommitStep(r) ==
    \/ \E u \in Uploads, k \in Keys : CommitStart(r, u, k)
    \/ PrepareFetch(r) \/ PrepareClaim(r) \/ PrepareChunk(r) \/ PrepareRenew(r)
    \/ PrepareInstall(r) \/ PrepareRecord(r) \/ PrepareExtend(r) \/ PrepareEntries(r)
    \/ PrepareRelease(r) \/ PrepareMark(r)
    \/ PublishCheck(r) \/ PublishStore(r) \/ PublishCommit(r)

RequestStep(r) == CreateStep(r) \/ PutStep(r) \/ CommitStep(r)

CleanStep(c) ==
    \/ \E u \in Uploads : CleanSelect(c, u)
    \/ CleanClaim(c) \/ CleanBytes(c) \/ CleanRow(c) \/ CleanUpload(c)

SweepStep(c) ==
    \/ \E u \in Uploads : SweepSelect(c, u)
    \/ SweepClaim(c) \/ SweepBytes(c) \/ SweepMark(c) \/ SweepComplete(c)

StopStep(c) == CleanStop(c) \/ SweepStop(c) \/ PassCrash(c)

Next ==
    \/ Tick
    \/ \E r \in Requests : RequestStep(r) \/ Fail(r)
    \/ \E c \in Cleaners : CleanStep(c) \/ SweepStep(c) \/ StopStep(c)

Spec == Init /\ [][Next]_vars

\* startStagingCleanupSchedule repeats runPass for as long as the server runs,
\* so time advances and a pass that can go on does.
FairSpec ==
    /\ Spec
    /\ WF_vars(Tick)
    /\ \A c \in Cleaners : WF_vars(CleanStep(c) \/ SweepStep(c))

-----------------------------------------------------------------------------
(* Properties                                                              *)

Times == {NoTime} \cup Nat

Rows ==
    [status : {"absent", "open", "committed", "removed"}, key : Keys \cup {NoKey},
     expires : Nat, prep : {"none", "claimed", "prepared"}, attempts : Nat,
     lease : Times, cleanup : Int, entries : 0..NumFiles,
     files : SUBSET Files, uploaded : SUBSET Files, installed : SUBSET Files,
     swept : SUBSET Files, cleaned : BOOLEAN]

CreatePcs == {"insert", "reinsert", "purge", "reuse"}
PutPcs == {"put", "mark"}
HolderPcs == {"chunk", "renew", "install", "extend", "entries", "finish"}
CommitPcs == {"fetch", "claim", "check", "store"} \cup HolderPcs

Reqs ==
    [pc : {"idle"} \cup CreatePcs \cup PutPcs \cup CommitPcs,
     u : Uploads \cup {NoUpload}, k : Keys \cup {NoKey}, f : Files \cup {NoFile},
     exp : Nat, t : Nat, snap : SUBSET Files, att : Nat, lease : Nat,
     todo : SUBSET Files, chunk : SUBSET Files, landed : SUBSET Files,
     more : BOOLEAN]

CleanPcs == {"claim", "bytes", "row"}
SweepPcs == {"sclaim", "sbytes", "smark"}

Passes ==
    [pc : {"idle"} \cup CleanPcs \cup SweepPcs, u : Uploads \cup {NoUpload},
     f : Files \cup {NoFile}, t : Nat, todo : SUBSET Files]

NamesItsWork(q) ==
    /\ q.pc \notin {"idle", "insert", "reinsert"} => q.u \in Uploads
    /\ q.pc \in {"insert", "purge", "reinsert"} \cup CommitPcs => q.k \in Keys
    /\ q.pc \in PutPcs => q.f \in Files

PassNamesItsWork(p) ==
    /\ p.pc # "idle" => p.u \in Uploads
    /\ p.pc \in {"row", "smark"} => p.f \in Files

\* Every variable holds rows, bytes and local variables of its type, and a
\* request or pass at work names the upload (and the key) it works on.
TypeOK ==
    /\ now \in Nat
    /\ upload \in [Uploads -> Rows]
    /\ staged \in [Uploads -> SUBSET Files]
    /\ blobs \subseteq Files
    /\ receipt \in [Keys -> Uploads \cup {NoUpload}]
    /\ req \in [Requests -> Reqs]
    /\ pass \in [Cleaners -> Passes]
    /\ \A r \in Requests : NamesItsWork(req[r])
    /\ \A c \in Cleaners : PassNamesItsWork(pass[c])

\* A published version never references bytes that are not in the blob store
\* (OPS-006): whatever preparations, retries, failures and cleanups did, every
\* file of a sealed upload was installed before the sealing transaction.
PublishedBytesInstalled ==
    \A u \in Uploads : upload[u].status = "committed" => Files \subseteq blobs

\* An upload that reached "prepared" is completely prepared: every remaining
\* file row is installed and the manifest entries are all written, although
\* a pass computes what is left from a row it read before its claim.
PreparedIsComplete ==
    \A u \in Uploads : upload[u].prep = "prepared" =>
        /\ upload[u].files \subseteq upload[u].installed
        /\ upload[u].entries = NumFiles

\* One key publishes once and one upload is published once: receipts and
\* sealed uploads correspond one to one, however many commits raced.
OnePublicationPerKey ==
    /\ \A k \in Keys : receipt[k] # NoUpload => upload[receipt[k]].status = "committed"
    /\ \A j, k \in Keys : receipt[j] = receipt[k] /\ receipt[j] # NoUpload => j = k
    /\ \A u \in Uploads : upload[u].status = "committed" => \E k \in Keys : receipt[k] = u

\* Rows, requests and passes name the uploads and files they work on, and what
\* they publish is published once.
PublicationsAreSound == TypeOK /\ OnePublicationPerKey

Holds(r, u) == req[r].pc \in HolderPcs /\ req[r].u = u

\* Two preparations of one upload never hold the same fencing token, so at
\* most one of them can pass the fence of claimUploadPreparation's successors.
OneFenceHolder ==
    \A q, r \in Requests : \A u \in Uploads :
        q # r /\ Holds(q, u) /\ Holds(r, u) => req[q].att # req[r].att

\* A renewal of this upload whose clock was read while the lease still ran.
RenewalUnderWay(u) ==
    \E r \in Requests : /\ req[r].pc = "renew" /\ req[r].u = u
                        /\ req[r].att = upload[u].attempts /\ req[r].t < upload[u].lease

\* The stamp of a cleanup pass ends the claims on an open upload: it stays, no
\* new attempt begins, and only a renewal that read its clock before the lease
\* lapsed can still change the lease to a later time.
StampEndsClaims ==
    \A u \in Uploads :
        LET row == upload[u]
            new == upload'[u] IN
        row.status = "open" /\ row.cleanup # NoTime /\ new.status = "open" =>
            /\ new.cleanup # NoTime
            /\ new.attempts = row.attempts
            /\ new.lease \in {row.lease, NoTime} \/ RenewalUnderWay(u)

\* While its lease is live an open upload loses no file row and is not removed,
\* by passes and purges that selected it before the lease was renewed.
LeaseKeepsRows ==
    \A u \in Uploads :
        upload[u].status = "open" /\ ~LeaseOver(upload[u], now) =>
            upload'[u].files = upload[u].files /\ upload'[u].status # "removed"

\* Cleanup stamps its durable claim before it removes any staged byte: an
\* unstamped open upload without a key still has the bytes of every file that
\* is uploaded and not installed.  (Key-bound uploads are the finding below.)
StampBeforeRemoval ==
    \A u \in Uploads :
        upload[u].status = "open" /\ upload[u].key = NoKey /\ upload[u].cleanup = NoTime
            => upload[u].uploaded \ upload[u].installed \subseteq staged[u]

\* Cleanup and preparation share an open upload in order: no byte goes before
\* the stamp, no preparation is claimed behind it, and no row goes under a live
\* lease, whatever clock a pass, a purge or a late renewal carries.
CleanupIsExclusive ==
    /\ []StampBeforeRemoval
    /\ [][StampEndsClaims]_vars
    /\ [][LeaseKeepsRows]_vars

\* docs/publication-preparation.md, D3: "expired-staging cleanup never races an
\* active preparation".  No lease is live on an open upload that a cleanup pass
\* has stamped.
CleanupExcludesLeases ==
    \A u \in Uploads :
        upload[u].status = "open" /\ upload[u].cleanup # NoTime => LeaseOver(upload[u], now)

\* docs/publication-preparation.md, D3: "even a claim racing the removal
\* window cannot be left with rows whose bytes are gone".  For an upload that
\* accepts a commit, every file row that is uploaded and not installed has its
\* bytes.
NoRowsWithoutBytes ==
    \A u \in Uploads :
        Accepting(upload[u], now) =>
            upload[u].uploaded \ upload[u].installed \subseteq staged[u]

\* Staging marked cleaned is empty and stays so: the settle delay outlasts every
\* write that started while the upload was live, so no late staging.put puts
\* bytes back behind cleanupCommittedStaging.
CleanedMeansReclaimed ==
    \A u \in Uploads : upload[u].cleaned => staged[u] = {}

\* Sealing is final: no cleanup, purge or late preparation step changes the
\* status, the files or the preparation of a committed upload.
SealedIsFinal ==
    [][\A u \in Uploads : upload[u].status = "committed" =>
          /\ upload'[u].status = "committed"
          /\ upload'[u].files = upload[u].files
          /\ upload'[u].installed = upload[u].installed
          /\ upload'[u].prep = upload[u].prep]_vars

\* A completed preparation is never undone by a holder whose lease lapsed:
\* while the upload stays open, "prepared" stays and nobody takes a new claim.
PreparedIsStable ==
    [][\A u \in Uploads :
          upload[u].status = "open" /\ upload[u].prep = "prepared"
             /\ upload'[u].status # "removed" =>
          /\ upload'[u].prep = "prepared"
          /\ upload'[u].attempts = upload[u].attempts
          /\ upload'[u].expires = upload[u].expires]_vars

\* An upload that can expire and settle before the clock stops.
Abandoned(u) == upload[u].status = "open" /\ upload[u].expires + Settle <= MaxTime

\* An abandoned upload loses its file rows, whatever passes failed or crashed on
\* the way: a stopped pass is taken up again after a settle delay.
AbandonedFilesReclaimed ==
    \A u \in Uploads : Abandoned(u) ~> (upload[u].files = {})

\* expired-staging-cleanup.ts: "A pass that stops short hands the upload straight
\* to the next pass."  An abandoned upload is eventually removed.
StoppedPassIsResumed ==
    \A u \in Uploads : Abandoned(u) ~> (upload[u].status = "removed")
=============================================================================
