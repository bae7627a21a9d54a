---------------------- MODULE StagedPublicationProofs ----------------------
(***************************************************************************)
(* Proofs about StagedPublication for every number of uploads, requests,   *)
(* cleanup passes and files and every lease, lifetime and budget.  TypeOK   *)
(* is inductive by itself; PublishedBytesInstalled needs Backed, which     *)
(* follows the installed files through the memory of the requests.         *)
(***************************************************************************)
EXTENDS StagedPublication, TLAPS

USE TimesAssumption, BudgetAssumption, NamesAssumption

\* The program counters of a request.
Pcs == {"idle"} \cup CreatePcs \cup PutPcs \cup CommitPcs

\* A bounded listing returns entries of the set it lists.
LEMMA FirstNSubset == ASSUME NEW S, NEW n PROVE FirstN(S, n) \subseteq S
  BY DEF FirstN

\* Setting one column of an upload row keeps it typed.
LEMMA RowUpdate ==
  ASSUME NEW row \in Rows
  PROVE  /\ \A x \in {"absent", "open", "committed", "removed"} : [row EXCEPT !.status = x] \in Rows
         /\ \A x \in Keys \cup {NoKey} : [row EXCEPT !.key = x] \in Rows
         /\ \A x \in Nat : [row EXCEPT !.expires = x] \in Rows
         /\ \A x \in {"none", "claimed", "prepared"} : [row EXCEPT !.prep = x] \in Rows
         /\ \A x \in Nat : [row EXCEPT !.attempts = x] \in Rows
         /\ \A x \in Times : [row EXCEPT !.lease = x] \in Rows
         /\ \A x \in Int : [row EXCEPT !.cleanup = x] \in Rows
         /\ \A x \in 0..NumFiles : [row EXCEPT !.entries = x] \in Rows
         /\ \A x \in SUBSET Files : [row EXCEPT !.files = x] \in Rows
         /\ \A x \in SUBSET Files : [row EXCEPT !.uploaded = x] \in Rows
         /\ \A x \in SUBSET Files : [row EXCEPT !.installed = x] \in Rows
         /\ \A x \in SUBSET Files : [row EXCEPT !.swept = x] \in Rows
         /\ \A x \in BOOLEAN : [row EXCEPT !.cleaned = x] \in Rows
  BY DEF Rows

\* Setting one field of a request keeps it typed.
LEMMA ReqUpdate ==
  ASSUME NEW q \in Reqs
  PROVE  /\ \A x \in Pcs : [q EXCEPT !.pc = x] \in Reqs
         /\ \A x \in Uploads \cup {NoUpload} : [q EXCEPT !.u = x] \in Reqs
         /\ \A x \in Keys \cup {NoKey} : [q EXCEPT !.k = x] \in Reqs
         /\ \A x \in Files \cup {NoFile} : [q EXCEPT !.f = x] \in Reqs
         /\ \A x \in Nat : [q EXCEPT !.exp = x] \in Reqs
         /\ \A x \in Nat : [q EXCEPT !.t = x] \in Reqs
         /\ \A x \in SUBSET Files : [q EXCEPT !.snap = x] \in Reqs
         /\ \A x \in Nat : [q EXCEPT !.att = x] \in Reqs
         /\ \A x \in Nat : [q EXCEPT !.lease = x] \in Reqs
         /\ \A x \in SUBSET Files : [q EXCEPT !.todo = x] \in Reqs
         /\ \A x \in SUBSET Files : [q EXCEPT !.chunk = x] \in Reqs
         /\ \A x \in SUBSET Files : [q EXCEPT !.landed = x] \in Reqs
         /\ \A x \in BOOLEAN : [q EXCEPT !.more = x] \in Reqs
  BY DEF Reqs, Pcs

\* Setting one field of a cleanup pass keeps it typed.
LEMMA PassUpdate ==
  ASSUME NEW p \in Passes
  PROVE  /\ \A x \in {"idle"} \cup CleanPcs \cup SweepPcs : [p EXCEPT !.pc = x] \in Passes
         /\ \A x \in Uploads \cup {NoUpload} : [p EXCEPT !.u = x] \in Passes
         /\ \A x \in Files \cup {NoFile} : [p EXCEPT !.f = x] \in Passes
         /\ \A x \in Nat : [p EXCEPT !.t = x] \in Passes
         /\ \A x \in SUBSET Files : [p EXCEPT !.todo = x] \in Passes
  BY DEF Passes

\* Idle requests and passes are typed.
LEMMA IdleTyped ==
  /\ IdleReq \in Reqs /\ NamesItsWork(IdleReq)
  /\ IdlePass \in Passes /\ PassNamesItsWork(IdlePass)
  /\ AbsentRow \in Rows /\ RemovedRow \in Rows
<1>1. IdleReq \in Reqs /\ NamesItsWork(IdleReq)
  BY DEF IdleReq, Reqs, NamesItsWork, CreatePcs, PutPcs, CommitPcs, HolderPcs
<1>2. IdlePass \in Passes /\ PassNamesItsWork(IdlePass)
  BY DEF IdlePass, Passes, PassNamesItsWork
<1>3. AbsentRow \in Rows
  BY DEF AbsentRow, Rows, Times, NoTime
<1>4. RemovedRow \in Rows
  BY <1>3, RowUpdate, Zenon DEF RemovedRow
<1> QED
  BY <1>1, <1>2, <1>3, <1>4

ReqsTyped == req \in [Requests -> Reqs] /\ \A r \in Requests : NamesItsWork(req[r])
PassesTyped == pass \in [Cleaners -> Passes] /\ \A c \in Cleaners : PassNamesItsWork(pass[c])
RowsTyped == upload \in [Uploads -> Rows]

\* A step of one request with a typed successor.
LEMMA ReqSet ==
  ASSUME ReqsTyped, NEW r \in Requests, NEW v \in Reqs, NamesItsWork(v), SetReq(r, v)
  PROVE  ReqsTyped'
  BY DEF ReqsTyped, SetReq

\* A step of one pass with a typed successor.
LEMMA PassSet ==
  ASSUME PassesTyped, NEW c \in Cleaners, NEW v \in Passes, PassNamesItsWork(v), SetPass(c, v)
  PROVE  PassesTyped'
  BY DEF PassesTyped, SetPass

\* An update of one row by a typed row.
LEMMA RowSet ==
  ASSUME RowsTyped, NEW u \in Uploads, NEW v \in Rows, SetRow(u, v)
  PROVE  RowsTyped'
  BY DEF RowsTyped, SetRow

\* The row inserted by createUpload is typed.
LEMMA OpenTyped == ASSUME now \in Nat, NEW k \in Keys \cup {NoKey} PROVE OpenRow(k) \in Rows
<1>1. now + Lifetime \in Nat
  OBVIOUS
<1> QED
  BY <1>1, IdleTyped, RowUpdate, Zenon DEF OpenRow

\* A request about to reuse stored files is typed.
LEMMA ReusingTyped ==
  ASSUME NEW u \in Uploads, NEW T \in SUBSET Files
  PROVE  Reusing(u, T) \in Reqs /\ NamesItsWork(Reusing(u, T))
<1>1. "reuse" \in Pcs
  BY DEF Pcs, CreatePcs
<1>2. Reusing(u, T) \in Reqs
  BY <1>1, IdleTyped, ReqUpdate, Zenon DEF Reusing
<1>3. NamesItsWork(Reusing(u, T))
  BY DEF Reusing, IdleReq, NamesItsWork, CommitPcs, HolderPcs, PutPcs
<1> QED BY <1>2, <1>3

\* The columns of a typed row.
LEMMA RowFields ==
  ASSUME NEW row \in Rows
  PROVE  /\ row.status \in {"absent", "open", "committed", "removed"}
         /\ row.key \in Keys \cup {NoKey}
         /\ row.expires \in Nat
         /\ row.prep \in {"none", "claimed", "prepared"}
         /\ row.attempts \in Nat
         /\ row.lease \in Times
         /\ row.cleanup \in Int
         /\ row.entries \in 0..NumFiles
         /\ row.files \in SUBSET Files
         /\ row.uploaded \in SUBSET Files
         /\ row.installed \in SUBSET Files
         /\ row.swept \in SUBSET Files
         /\ row.cleaned \in BOOLEAN
  BY DEF Rows

\* The fields of a typed request.
LEMMA ReqFields ==
  ASSUME NEW q \in Reqs
  PROVE  /\ q.pc \in Pcs
         /\ q.u \in Uploads \cup {NoUpload}
         /\ q.k \in Keys \cup {NoKey}
         /\ q.f \in Files \cup {NoFile}
         /\ q.exp \in Nat
         /\ q.t \in Nat
         /\ q.snap \in SUBSET Files
         /\ q.att \in Nat
         /\ q.lease \in Nat
         /\ q.todo \in SUBSET Files
         /\ q.chunk \in SUBSET Files
         /\ q.landed \in SUBSET Files
         /\ q.more \in BOOLEAN
  BY DEF Reqs, Pcs

StoresTyped ==
    /\ now \in Nat
    /\ staged \in [Uploads -> SUBSET Files]
    /\ blobs \in SUBSET Files
    /\ receipt \in [Keys -> Uploads \cup {NoUpload}]

\* TypeOK is the conjunction of its parts.
LEMMA TypeParts == TypeOK <=> StoresTyped /\ RowsTyped /\ ReqsTyped /\ PassesTyped
  BY DEF TypeOK, StoresTyped, RowsTyped, ReqsTyped, PassesTyped

\* Which groups of steps the program counters belong to.
LEMMA PcNames ==
    /\ \A x \in {"idle", "insert", "reinsert", "purge", "reuse", "put", "mark", "fetch", "claim", "chunk", "renew", "install", "extend", "entries", "finish", "check", "store"} : x \in Pcs
    /\ \A x \in CommitPcs : x \notin {"idle", "insert", "reinsert"} /\ x \notin PutPcs
  BY DEF Pcs, CreatePcs, PutPcs, CommitPcs, HolderPcs

\* createUpload keeps the types.
LEMMA CreateType ==
  ASSUME StoresTyped, RowsTyped, ReqsTyped, NEW r \in Requests, CreateStep(r)
  PROVE  StoresTyped' /\ RowsTyped' /\ ReqsTyped'
<1> DEFINE me == req[r]
           row == upload[me.u]
<1>0. me \in Reqs /\ NamesItsWork(me)
  BY DEF ReqsTyped
<1>1. ASSUME NEW u \in Uploads, CreateFresh(r, u)
      PROVE  StoresTyped' /\ RowsTyped' /\ ReqsTyped'
  <2>1. RowsTyped'
    BY <1>1, OpenTyped, RowSet DEF CreateFresh, StoresTyped
  <2>2. ReqsTyped'
    BY <1>1, ReusingTyped, ReqSet DEF CreateFresh
  <2> QED
    BY <1>1, <2>1, <2>2 DEF CreateFresh, StoresTyped
<1>2. ASSUME NEW u \in Uploads, CreateInsert(r, u)
      PROVE  StoresTyped' /\ RowsTyped' /\ ReqsTyped'
  <2>1. RowsTyped'
    BY <1>0, <1>2, OpenTyped, RowSet DEF CreateInsert, StoresTyped, NamesItsWork
  <2>2. ReqsTyped'
    BY <1>2, ReusingTyped, ReqSet DEF CreateInsert
  <2> QED
    BY <1>2, <2>1, <2>2 DEF CreateInsert, StoresTyped
<1>3. ASSUME NEW k \in Keys, CreateRead(r, k)
      PROVE  StoresTyped' /\ RowsTyped' /\ ReqsTyped'
  <2> DEFINE ins == [IdleReq EXCEPT !.pc = "insert", !.k = k]
             prg(u) == [IdleReq EXCEPT !.pc = "purge", !.u = u, !.k = k,
                                       !.exp = upload[u].expires, !.t = now, !.todo = Files]
  <2>1. ins \in Reqs
    BY IdleTyped, PcNames, ReqUpdate, Zenon
  <2>2. NamesItsWork(ins)
    BY DEF NamesItsWork, IdleReq, CommitPcs, HolderPcs, PutPcs
  <2>3. ASSUME NEW u \in Uploads PROVE prg(u) \in Reqs
    <3>1. upload[u].expires \in Nat /\ now \in Nat
      BY RowFields DEF RowsTyped, StoresTyped
    <3> QED
      BY <3>1, IdleTyped, PcNames, ReqUpdate, Zenon
  <2>4. ASSUME NEW u \in Uploads PROVE NamesItsWork(prg(u))
    BY DEF NamesItsWork, IdleReq, CommitPcs, HolderPcs, PutPcs
  <2>5. \/ SetReq(r, ins)
        \/ \E u \in Uploads : SetReq(r, prg(u)) \/ SetReq(r, Reusing(u, Files \ upload[u].uploaded))
    BY <1>3 DEF CreateRead
  <2> HIDE DEF ins, prg
  <2>6. ReqsTyped'
    BY <2>1, <2>2, <2>3, <2>4, <2>5, ReusingTyped, ReqSet
  <2> QED
    BY <1>3, <2>6 DEF CreateRead, StoresTyped, RowsTyped
<1>4. ASSUME PurgeFile(r)
      PROVE  StoresTyped' /\ RowsTyped' /\ ReqsTyped'
  <2>1. ASSUME NEW f \in me.todo PROVE [me EXCEPT !.todo = me.todo \ {f}] \in Reqs
    BY <1>0, ReqFields, ReqUpdate
  <2>2. ASSUME NEW f \in me.todo PROVE NamesItsWork([me EXCEPT !.todo = me.todo \ {f}])
    BY <1>0 DEF NamesItsWork, Reqs
  <2>3. ReqsTyped'
    BY <1>4, <2>1, <2>2, ReqSet DEF PurgeFile
  <2>4. staged' \in [Uploads -> SUBSET Files]
    BY <1>4 DEF PurgeFile, StoresTyped
  <2> QED
    BY <1>4, <2>3, <2>4 DEF PurgeFile, StoresTyped, RowsTyped
<1>5. ASSUME PurgeRow(r)
      PROVE  StoresTyped' /\ RowsTyped' /\ ReqsTyped'
  <2> DEFINE q == [IdleReq EXCEPT !.pc = "reinsert", !.k = me.k]
  <2>1. me.k \in Keys /\ me.u \in Uploads
    BY <1>0, <1>5 DEF PurgeRow, NamesItsWork
  <2>2. q \in Reqs
    BY <2>1, IdleTyped, PcNames, ReqUpdate, Zenon
  <2>3. NamesItsWork(q)
    BY <2>1 DEF NamesItsWork, IdleReq, CommitPcs, HolderPcs, PutPcs
  <2>4. ReqsTyped'
    BY <1>5, <2>2, <2>3, ReqSet DEF PurgeRow
  <2>5. RowsTyped'
    BY <1>5, <2>1, RowSet, IdleTyped DEF PurgeRow, RowsTyped
  <2> QED
    BY <1>5, <2>4, <2>5 DEF PurgeRow, StoresTyped
<1>6. ASSUME CreateRaced(r)
      PROVE  StoresTyped' /\ RowsTyped' /\ ReqsTyped'
  <2>1. ReqsTyped'
    BY <1>6, ReusingTyped, ReqSet DEF CreateRaced
  <2> QED
    BY <1>6, <2>1 DEF CreateRaced, StoresTyped, RowsTyped
<1>7. ASSUME ReuseFile(r)
      PROVE  StoresTyped' /\ RowsTyped' /\ ReqsTyped'
  <2> DEFINE marked(f) == [row EXCEPT !.uploaded = row.uploaded \cup {f},
                                      !.installed = row.installed \cup {f}]
  <2>1. me.u \in Uploads /\ row \in Rows
    BY <1>0, <1>7 DEF ReuseFile, NamesItsWork, RowsTyped
  <2>2. PICK f \in me.todo :
          /\ SetReq(r, [me EXCEPT !.todo = me.todo \ {f}])
          /\ SetRow(me.u, marked(f)) \/ UNCHANGED upload
    BY <1>7 DEF ReuseFile
  <2>3. [me EXCEPT !.todo = me.todo \ {f}] \in Reqs
    BY <1>0, ReqFields, ReqUpdate
  <2>4. NamesItsWork([me EXCEPT !.todo = me.todo \ {f}])
    BY <1>0 DEF NamesItsWork, Reqs
  <2>5. ReqsTyped'
    BY <2>2, <2>3, <2>4, ReqSet
  <2>6. row.uploaded \cup {f} \in SUBSET Files /\ row.installed \cup {f} \in SUBSET Files
    BY <1>0, <2>1, RowFields, ReqFields
  <2>7. marked(f) \in Rows
    BY <2>1, <2>6, RowUpdate, Zenon
  <2> HIDE DEF marked
  <2>8. RowsTyped'
    BY <2>1, <2>2, <2>7, RowSet DEF RowsTyped
  <2> QED
    BY <1>7, <2>5, <2>8 DEF ReuseFile, StoresTyped
<1>8. ASSUME CreateDone(r)
      PROVE  StoresTyped' /\ RowsTyped' /\ ReqsTyped'
  BY <1>8, ReqSet, IdleTyped DEF CreateDone, StoresTyped, RowsTyped
<1> QED
  BY <1>1, <1>2, <1>3, <1>4, <1>5, <1>6, <1>7, <1>8 DEF CreateStep

\* putUploadFile keeps the types.
LEMMA PutType ==
  ASSUME StoresTyped, RowsTyped, ReqsTyped, NEW r \in Requests, PutStep(r)
  PROVE  StoresTyped' /\ RowsTyped' /\ ReqsTyped'
<1> DEFINE me == req[r]
           row == upload[me.u]
<1>0. me \in Reqs /\ NamesItsWork(me)
  BY DEF ReqsTyped
<1>1. ASSUME NEW u \in Uploads, NEW f \in Files, PutStart(r, u, f)
      PROVE  StoresTyped' /\ RowsTyped' /\ ReqsTyped'
  <2> DEFINE q == [IdleReq EXCEPT !.pc = "put", !.u = u, !.f = f, !.exp = upload[u].expires]
  <2>1. upload[u].expires \in Nat
    BY RowFields DEF RowsTyped
  <2>2. q \in Reqs
    BY <2>1, IdleTyped, PcNames, ReqUpdate, Zenon
  <2>3. NamesItsWork(q)
    BY DEF NamesItsWork, IdleReq, CommitPcs, HolderPcs, PutPcs
  <2>4. ReqsTyped'
    BY <1>1, <2>2, <2>3, ReqSet DEF PutStart
  <2> QED
    BY <1>1, <2>4 DEF PutStart, StoresTyped, RowsTyped
<1>2. ASSUME PutBytes(r)
      PROVE  StoresTyped' /\ RowsTyped' /\ ReqsTyped'
  <2> DEFINE q == [me EXCEPT !.pc = "mark"]
  <2>1. q \in Reqs
    BY <1>0, PcNames, ReqUpdate
  <2>2. NamesItsWork(q)
    BY <1>0, <1>2 DEF PutBytes, NamesItsWork, Reqs, CommitPcs, HolderPcs, PutPcs
  <2>3. ReqsTyped'
    BY <1>2, <2>1, <2>2, ReqSet DEF PutBytes
  <2>4. me.u \in Uploads /\ me.f \in Files
    BY <1>0, <1>2 DEF PutBytes, NamesItsWork, PutPcs
  <2>5. staged' \in [Uploads -> SUBSET Files]
    BY <1>2, <2>4 DEF PutBytes, StoresTyped
  <2> QED
    BY <1>2, <2>3, <2>5 DEF PutBytes, StoresTyped, RowsTyped
<1>3. ASSUME PutMark(r)
      PROVE  StoresTyped' /\ RowsTyped' /\ ReqsTyped'
  <2>1. me.u \in Uploads /\ me.f \in Files /\ row \in Rows
    BY <1>0, <1>3 DEF PutMark, NamesItsWork, PutPcs, RowsTyped
  <2>2. [row EXCEPT !.uploaded = row.uploaded \cup {me.f}] \in Rows
    <3>1. row.uploaded \cup {me.f} \in SUBSET Files
      BY <2>1, RowFields
    <3> QED
      BY <2>1, <3>1, RowUpdate, Zenon
  <2>3. RowsTyped'
    BY <1>3, <2>1, <2>2, RowSet DEF PutMark
  <2> QED
    BY <1>3, <2>3, ReqSet, IdleTyped DEF PutMark, StoresTyped
<1> QED
  BY <1>1, <1>2, <1>3 DEF PutStep

\* The next files of a preparation are some of those that are left.
LEMMA NextChunkTyped ==
  ASSUME NEW q \in Reqs
  PROVE  /\ NextChunk(q) \in Reqs /\ NextChunk(q).pc \in CommitPcs
         /\ NextChunk(q).u = q.u /\ NextChunk(q).k = q.k
<1> DEFINE chunk == FirstN(q.todo, InstallConcurrency)
<1>1. chunk \in SUBSET Files /\ q.todo \ chunk \in SUBSET Files
  BY ReqFields, FirstNSubset
<1>2. NextChunk(q) = [q EXCEPT !.pc = "install", !.chunk = chunk, !.todo = q.todo \ chunk]
  BY DEF NextChunk
<1> HIDE DEF chunk
<1>3. [q EXCEPT !.pc = "install", !.chunk = chunk, !.todo = q.todo \ chunk] \in Reqs
  BY <1>1, PcNames, ReqUpdate, Zenon
<1> QED
  BY <1>2, <1>3 DEF Reqs, CommitPcs, HolderPcs

\* commitUpload keeps the types.
LEMMA CommitType ==
  ASSUME StoresTyped, RowsTyped, ReqsTyped, NEW r \in Requests, CommitStep(r)
  PROVE  StoresTyped' /\ RowsTyped' /\ ReqsTyped'
<1> DEFINE me == req[r]
           row == upload[me.u]
           Typed == StoresTyped' /\ RowsTyped' /\ ReqsTyped'
<1>0. me \in Reqs /\ NamesItsWork(me)
  BY DEF ReqsTyped
<1>1. ASSUME me.pc \in CommitPcs
      PROVE  me.u \in Uploads /\ me.k \in Keys /\ row \in Rows
  BY <1>0, <1>1, PcNames DEF NamesItsWork, RowsTyped
<1>2. ASSUME NEW q \in Reqs, me.pc \in CommitPcs, q.pc \in CommitPcs, q.u = me.u, q.k = me.k
      PROVE  NamesItsWork(q)
  BY <1>1, <1>2, PcNames DEF NamesItsWork
<1>3. ASSUME NEW u \in Uploads, NEW k \in Keys, CommitStart(r, u, k)
      PROVE  Typed
  <2> DEFINE q == [IdleReq EXCEPT !.pc = "fetch", !.u = u, !.k = k, !.snap = upload[u].installed]
  <2>1. upload[u].installed \in SUBSET Files
    BY RowFields DEF RowsTyped
  <2>2. q \in Reqs
    BY <2>1, IdleTyped, PcNames, ReqUpdate, Zenon
  <2>3. NamesItsWork(q)
    BY DEF NamesItsWork, IdleReq, CommitPcs, HolderPcs, PutPcs
  <2>4. ReqsTyped'
    BY <1>3, <2>2, <2>3, ReqSet DEF CommitStart
  <2> QED
    BY <1>3, <2>4 DEF CommitStart, StoresTyped, RowsTyped
<1>4. ASSUME PrepareFetch(r)
      PROVE  Typed
  <2> DEFINE todo == FirstN(Files \ row.installed, FilesPerPass)
             q1 == [me EXCEPT !.pc = "check"]
             q2 == [me EXCEPT !.pc = "claim", !.more = FilesLeft(row), !.todo = todo]
  <2>1. me.pc \in CommitPcs
    BY <1>4 DEF PrepareFetch, CommitPcs
  <2>2. FilesLeft(row) \in BOOLEAN /\ todo \in SUBSET Files
    BY FirstNSubset DEF FilesLeft
  <2>3. q1 \in Reqs /\ q2 \in Reqs
    BY <1>0, <2>2, PcNames, ReqUpdate, Zenon
  <2>4. /\ q1.pc \in CommitPcs /\ q1.u = me.u /\ q1.k = me.k
        /\ q2.pc \in CommitPcs /\ q2.u = me.u /\ q2.k = me.k
    BY <1>0 DEF Reqs, CommitPcs
  <2>5. SetReq(r, q1) \/ SetReq(r, q2)
    BY <1>4 DEF PrepareFetch
  <2> HIDE DEF q1, q2
  <2>6. ReqsTyped'
    BY <1>2, <2>1, <2>3, <2>4, <2>5, ReqSet
  <2> QED
    BY <1>4, <2>6 DEF PrepareFetch, StoresTyped, RowsTyped
<1>5. ASSUME PrepareClaim(r)
      PROVE  Typed
  <2> DEFINE v == [row EXCEPT !.prep = "claimed", !.attempts = NextAttempt(row),
                              !.lease = now + Lease]
             p == IF me.todo = {} THEN "entries" ELSE "chunk"
             q == [me EXCEPT !.pc = p, !.att = NextAttempt(row), !.lease = now + Lease]
  <2>1. me.pc \in CommitPcs
    BY <1>5 DEF PrepareClaim, CommitPcs
  <2>2. NextAttempt(row) \in Nat /\ now + Lease \in Nat /\ now + Lease \in Times
    BY <1>1, <2>1, RowFields DEF NextAttempt, StoresTyped, Times
  <2>3. v \in Rows
    BY <1>1, <2>1, <2>2, RowUpdate, Zenon
  <2>4. p \in Pcs /\ p \in CommitPcs
    BY PcNames DEF CommitPcs, HolderPcs
  <2>5. SetReq(r, q) /\ SetRow(me.u, v)
    BY <1>5 DEF PrepareClaim
  <2> HIDE DEF p
  <2>6. q \in Reqs
    BY <1>0, <2>2, <2>4, ReqUpdate, Zenon
  <2>7. q.pc \in CommitPcs /\ q.u = me.u /\ q.k = me.k
    BY <1>0, <2>4 DEF Reqs
  <2> HIDE DEF q, v
  <2>8. ReqsTyped' /\ RowsTyped'
    BY <1>1, <1>2, <2>1, <2>3, <2>5, <2>6, <2>7, ReqSet, RowSet
  <2> QED
    BY <1>5, <2>8 DEF PrepareClaim, StoresTyped
<1>6. ASSUME PrepareChunk(r)
      PROVE  Typed
  <2> DEFINE q == [me EXCEPT !.pc = "renew", !.t = now]
  <2>1. me.pc \in CommitPcs
    BY <1>6 DEF PrepareChunk, CommitPcs, HolderPcs
  <2>2. q \in Reqs
    BY <1>0, PcNames, ReqUpdate, Zenon DEF StoresTyped
  <2>3. q.pc \in CommitPcs /\ q.u = me.u /\ q.k = me.k
    BY <1>0 DEF Reqs, CommitPcs, HolderPcs
  <2>4. SetReq(r, NextChunk(me)) \/ SetReq(r, q)
    BY <1>6 DEF PrepareChunk
  <2> HIDE DEF q
  <2>5. ReqsTyped'
    BY <1>0, <1>2, <2>1, <2>2, <2>3, <2>4, NextChunkTyped, ReqSet
  <2> QED
    BY <1>6, <2>5 DEF PrepareChunk, StoresTyped, RowsTyped
<1>16. ASSUME PrepareRenew(r)
       PROVE  Typed
  <2> DEFINE v == [row EXCEPT !.lease = me.t + Lease]
             q == [NextChunk(me) EXCEPT !.lease = me.t + Lease]
  <2>1. me.pc \in CommitPcs
    BY <1>16 DEF PrepareRenew, CommitPcs, HolderPcs
  <2>2. me.t + Lease \in Nat /\ me.t + Lease \in Times
    BY <1>0, ReqFields DEF Times
  <2>3. v \in Rows
    BY <1>1, <2>1, <2>2, RowUpdate
  <2>4. NextChunk(me) \in Reqs /\ NextChunk(me).pc \in CommitPcs
        /\ NextChunk(me).u = me.u /\ NextChunk(me).k = me.k
    BY <1>0, NextChunkTyped
  <2>5. q \in Reqs
    BY <2>2, <2>4, ReqUpdate
  <2>6. q.pc \in CommitPcs /\ q.u = me.u /\ q.k = me.k
    BY <2>4 DEF Reqs
  <2>7. SetReq(r, q) /\ SetRow(me.u, v)
    BY <1>16 DEF PrepareRenew
  <2> HIDE DEF q, v
  <2>8. ReqsTyped' /\ RowsTyped'
    BY <1>1, <1>2, <2>1, <2>3, <2>5, <2>6, <2>7, ReqSet, RowSet DEF RowsTyped
  <2> QED
    BY <1>16, <2>8 DEF PrepareRenew, StoresTyped
<1>7. ASSUME PrepareInstall(r)
      PROVE  Typed
  <2> DEFINE q(f) == [me EXCEPT !.chunk = me.chunk \ {f}, !.landed = me.landed \cup {f}]
  <2>1. me.pc \in CommitPcs
    BY <1>7 DEF PrepareInstall, CommitPcs, HolderPcs
  <2>2. PICK f \in me.chunk : SetReq(r, q(f)) /\ blobs' \subseteq blobs \cup {f}
    BY <1>7 DEF PrepareInstall, Installable
  <2>3. /\ f \in Files /\ me.chunk \ {f} \in SUBSET Files
        /\ me.landed \cup {f} \in SUBSET Files
    BY <1>0, ReqFields
  <2>4. q(f) \in Reqs
    BY <1>0, <2>3, ReqUpdate, Zenon
  <2>5. q(f).pc \in CommitPcs /\ q(f).u = me.u /\ q(f).k = me.k
    BY <1>0, <2>1 DEF Reqs
  <2> HIDE DEF q
  <2>6. ReqsTyped'
    BY <1>2, <2>1, <2>2, <2>4, <2>5, ReqSet
  <2> QED
    BY <1>7, <2>2, <2>3, <2>6 DEF PrepareInstall, StoresTyped, RowsTyped
<1>8. ASSUME PrepareRecord(r)
      PROVE  Typed
  <2> DEFINE p(f) == IF me.chunk # {} \/ me.landed # {f} THEN "install"
                     ELSE IF me.todo # {} THEN "chunk" ELSE "extend"
             q(f) == [me EXCEPT !.landed = me.landed \ {f}, !.pc = p(f)]
             v(f) == [row EXCEPT !.installed = row.installed \cup {f}]
  <2>1. me.pc \in CommitPcs
    BY <1>8 DEF PrepareRecord, CommitPcs, HolderPcs
  <2>2. PICK f \in me.landed : SetReq(r, q(f)) /\ SetRow(me.u, v(f))
    BY <1>8 DEF PrepareRecord
  <2>3. f \in Files /\ me.landed \ {f} \in SUBSET Files
    BY <1>0, ReqFields
  <2>4. p(f) \in Pcs /\ p(f) \in CommitPcs
    BY PcNames DEF CommitPcs, HolderPcs
  <2>5. v(f) \in Rows
    <3>1. row.installed \cup {f} \in SUBSET Files
      BY <1>1, <2>1, <2>3, RowFields
    <3> QED
      BY <1>1, <2>1, <3>1, RowUpdate, Zenon
  <2> HIDE DEF p
  <2>6. q(f) \in Reqs
    BY <1>0, <2>3, <2>4, ReqUpdate, Zenon
  <2>7. q(f).pc \in CommitPcs /\ q(f).u = me.u /\ q(f).k = me.k
    BY <1>0, <2>4 DEF Reqs
  <2> HIDE DEF q, v
  <2>8. ReqsTyped' /\ RowsTyped'
    BY <1>1, <1>2, <2>1, <2>2, <2>5, <2>6, <2>7, ReqSet, RowSet
  <2> QED
    BY <1>8, <2>8 DEF PrepareRecord, StoresTyped
<1>9. ASSUME PrepareExtend(r)
      PROVE  Typed
  <2> DEFINE q == [me EXCEPT !.pc = "entries"]
  <2>1. me.pc \in CommitPcs
    BY <1>9 DEF PrepareExtend, CommitPcs, HolderPcs
  <2>2. q \in Reqs /\ q.pc \in CommitPcs /\ q.u = me.u /\ q.k = me.k
    <3>1. q \in Reqs
      BY <1>0, PcNames, ReqUpdate, Zenon
    <3> QED
      BY <1>0, <3>1 DEF Reqs, CommitPcs, HolderPcs
  <2>3. now + Lifetime \in Nat
    BY DEF StoresTyped
  <2>4. [row EXCEPT !.expires = now + Lifetime] \in Rows
    BY <1>1, <2>1, <2>3, RowUpdate
  <2>5. SetReq(r, q) /\ SetRow(me.u, [row EXCEPT !.expires = now + Lifetime])
    BY <1>9 DEF PrepareExtend
  <2> HIDE DEF q
  <2>6. ReqsTyped' /\ RowsTyped'
    BY <1>1, <1>2, <2>1, <2>2, <2>4, <2>5, ReqSet, RowSet
  <2> QED
    BY <1>9, <2>6 DEF PrepareExtend, StoresTyped
<1>10. ASSUME PrepareEntries(r)
       PROVE  Typed
  <2> DEFINE more == me.more \/ EntriesAfter(row) # NumFiles
             q == [me EXCEPT !.pc = "finish", !.more = more]
             v == [row EXCEPT !.entries = EntriesAfter(row)]
  <2>1. me.pc \in CommitPcs
    BY <1>10 DEF PrepareEntries, CommitPcs, HolderPcs
  <2>2. more \in BOOLEAN
    OBVIOUS
  <2>3. EntriesAfter(row) \in 0..NumFiles
    BY <1>1, <2>1, RowFields DEF EntriesAfter
  <2>4. v \in Rows
    BY <1>1, <2>1, <2>3, RowUpdate
  <2>5. SetReq(r, q) /\ (SetRow(me.u, v) \/ UNCHANGED upload)
    BY <1>10 DEF PrepareEntries
  <2> HIDE DEF more
  <2>6. q \in Reqs
    BY <1>0, <2>2, PcNames, ReqUpdate, Zenon
  <2>7. q.pc \in CommitPcs /\ q.u = me.u /\ q.k = me.k
    BY <1>0 DEF Reqs, CommitPcs, HolderPcs
  <2> HIDE DEF q, v
  <2>8. ReqsTyped' /\ RowsTyped'
    BY <1>1, <1>2, <2>1, <2>4, <2>5, <2>6, <2>7, ReqSet, RowSet DEF RowsTyped
  <2> QED
    BY <1>10, <2>8 DEF PrepareEntries, StoresTyped
<1>11. ASSUME PrepareRelease(r)
       PROVE  Typed
  <2> DEFINE v == [row EXCEPT !.prep = "none", !.lease = NoTime]
  <2>1. me.pc \in CommitPcs
    BY <1>11 DEF PrepareRelease, CommitPcs, HolderPcs
  <2>2. NoTime \in Times
    BY DEF Times
  <2>3. v \in Rows
    BY <1>1, <2>1, <2>2, RowUpdate, Zenon
  <2>4. SetRow(me.u, v) \/ UNCHANGED upload
    BY <1>11 DEF PrepareRelease
  <2> HIDE DEF v
  <2>5. RowsTyped'
    BY <1>1, <2>1, <2>3, <2>4, RowSet DEF RowsTyped
  <2> QED
    BY <1>11, <2>5, ReqSet, IdleTyped DEF PrepareRelease, StoresTyped
<1>12. ASSUME PrepareMark(r)
       PROVE  Typed
  <2> DEFINE q == [me EXCEPT !.pc = "check"]
             v == [row EXCEPT !.prep = "prepared"]
  <2>1. me.pc \in CommitPcs
    BY <1>12 DEF PrepareMark, CommitPcs, HolderPcs
  <2>2. q \in Reqs /\ q.pc \in CommitPcs /\ q.u = me.u /\ q.k = me.k
    <3>1. q \in Reqs
      BY <1>0, PcNames, ReqUpdate, Zenon
    <3> QED
      BY <1>0, <3>1 DEF Reqs, CommitPcs, HolderPcs
  <2>3. v \in Rows
    BY <1>1, <2>1, RowUpdate
  <2>4. SetReq(r, q) /\ SetRow(me.u, v)
    BY <1>12 DEF PrepareMark
  <2> HIDE DEF q, v
  <2>5. ReqsTyped' /\ RowsTyped'
    BY <1>1, <1>2, <2>1, <2>2, <2>3, <2>4, ReqSet, RowSet
  <2> QED
    BY <1>12, <2>5 DEF PrepareMark, StoresTyped
<1>13. ASSUME PublishCheck(r)
       PROVE  Typed
  <2> DEFINE q == [me EXCEPT !.pc = "store", !.todo = Files \ me.snap]
  <2>1. me.pc \in CommitPcs
    BY <1>13 DEF PublishCheck, CommitPcs
  <2>2. q \in Reqs
    BY <1>0, PcNames, ReqUpdate, Zenon
  <2>3. q.pc \in CommitPcs /\ q.u = me.u /\ q.k = me.k
    BY <1>0 DEF Reqs, CommitPcs
  <2>4. SetReq(r, q) \/ SetReq(r, IdleReq)
    BY <1>13 DEF PublishCheck
  <2> HIDE DEF q
  <2>5. ReqsTyped'
    BY <1>2, <2>1, <2>2, <2>3, <2>4, ReqSet, IdleTyped
  <2> QED
    BY <1>13, <2>5 DEF PublishCheck, StoresTyped, RowsTyped
<1>14. ASSUME PublishStore(r)
       PROVE  Typed
  <2> DEFINE q(f) == [me EXCEPT !.todo = me.todo \ {f}]
  <2>1. me.pc \in CommitPcs
    BY <1>14 DEF PublishStore, CommitPcs
  <2>2. PICK f \in me.todo : SetReq(r, q(f)) /\ blobs' = blobs \cup {f}
    BY <1>14 DEF PublishStore
  <2>3. f \in Files /\ me.todo \ {f} \in SUBSET Files
    BY <1>0, ReqFields
  <2>4. q(f) \in Reqs /\ q(f).pc \in CommitPcs /\ q(f).u = me.u /\ q(f).k = me.k
    <3>1. q(f) \in Reqs
      BY <1>0, <2>3, ReqUpdate, Zenon
    <3> QED
      BY <1>0, <2>1, <3>1 DEF Reqs
  <2> HIDE DEF q
  <2>5. ReqsTyped'
    BY <1>2, <2>1, <2>2, <2>4, ReqSet
  <2> QED
    BY <1>14, <2>2, <2>3, <2>5 DEF PublishStore, StoresTyped, RowsTyped
<1>15. ASSUME PublishCommit(r)
       PROVE  Typed
  <2>1. me.pc \in CommitPcs
    BY <1>15 DEF PublishCommit, CommitPcs
  <2>2. Seal(row) \in Rows
    BY <1>1, <2>1, RowUpdate DEF Seal
  <2>3. RowsTyped'
    BY <1>1, <1>15, <2>1, <2>2, RowSet DEF PublishCommit, RowsTyped
  <2>4. receipt' \in [Keys -> Uploads \cup {NoUpload}]
    BY <1>1, <1>15, <2>1 DEF PublishCommit, WriteReceipt, StoresTyped
  <2> QED
    BY <1>15, <2>3, <2>4, ReqSet, IdleTyped DEF PublishCommit, StoresTyped
<1> QED
  BY <1>3, <1>4, <1>5, <1>6, <1>7, <1>8, <1>9, <1>10, <1>11, <1>12, <1>13, <1>14, <1>15, <1>16
     DEF CommitStep

\* The fields of a typed pass.
LEMMA PassFields ==
  ASSUME NEW p \in Passes
  PROVE  /\ p.pc \in {"idle"} \cup CleanPcs \cup SweepPcs
         /\ p.u \in Uploads \cup {NoUpload}
         /\ p.f \in Files \cup {NoFile}
         /\ p.t \in Nat
         /\ p.todo \in SUBSET Files
  BY DEF Passes

\* The release statement writes the same column for both cleanups.
LEMMA ReleaseTyped ==
  ASSUME RowsTyped, NEW p \in Passes, p.u \in Uploads, NEW st, ReleaseStamp(p, st)
  PROVE  RowsTyped'
<1> DEFINE v == [upload[p.u] EXCEPT !.cleanup = p.t - Settle]
<1>1. upload[p.u] \in Rows
  BY DEF RowsTyped
<1>2. p.t - Settle \in Int
  BY PassFields
<1>3. v \in Rows
  BY <1>1, <1>2, RowUpdate, Zenon
<1>4. SetRow(p.u, v) \/ UNCHANGED upload
  BY DEF ReleaseStamp
<1> HIDE DEF v
<1> QED
  BY <1>3, <1>4, RowSet DEF RowsTyped

\* The steps that take a file from todo, and those that go on with the next one.
LEMMA PassMoves ==
  ASSUME NEW p \in Passes, p.u \in Uploads
  PROVE  /\ \A x \in {"bytes", "sbytes"} :
              /\ [p EXCEPT !.pc = x] \in Passes /\ PassNamesItsWork([p EXCEPT !.pc = x])
              /\ [p EXCEPT !.pc = x, !.f = NoFile] \in Passes
              /\ PassNamesItsWork([p EXCEPT !.pc = x, !.f = NoFile])
         /\ \A f \in p.todo : \A x \in {"row", "smark"} :
              /\ [p EXCEPT !.pc = x, !.f = f, !.todo = p.todo \ {f}] \in Passes
              /\ PassNamesItsWork([p EXCEPT !.pc = x, !.f = f, !.todo = p.todo \ {f}])
<1>1. ASSUME NEW x \in {"bytes", "sbytes"}
      PROVE  /\ [p EXCEPT !.pc = x] \in Passes /\ PassNamesItsWork([p EXCEPT !.pc = x])
             /\ [p EXCEPT !.pc = x, !.f = NoFile] \in Passes
             /\ PassNamesItsWork([p EXCEPT !.pc = x, !.f = NoFile])
  <2>1. x \in {"idle"} \cup CleanPcs \cup SweepPcs
    BY DEF CleanPcs, SweepPcs
  <2>2. [p EXCEPT !.pc = x] \in Passes /\ [p EXCEPT !.pc = x, !.f = NoFile] \in Passes
    BY <2>1, PassUpdate, Zenon
  <2>3. PassNamesItsWork([p EXCEPT !.pc = x]) /\ PassNamesItsWork([p EXCEPT !.pc = x, !.f = NoFile])
    BY DEF PassNamesItsWork, Passes
  <2> QED BY <2>2, <2>3
<1>2. ASSUME NEW f \in p.todo, NEW x \in {"row", "smark"}
      PROVE  /\ [p EXCEPT !.pc = x, !.f = f, !.todo = p.todo \ {f}] \in Passes
             /\ PassNamesItsWork([p EXCEPT !.pc = x, !.f = f, !.todo = p.todo \ {f}])
  <2>1. x \in {"idle"} \cup CleanPcs \cup SweepPcs
    BY DEF CleanPcs, SweepPcs
  <2>2. f \in Files /\ f \in Files \cup {NoFile} /\ p.todo \ {f} \in SUBSET Files
    BY PassFields
  <2>3. [p EXCEPT !.pc = x, !.f = f, !.todo = p.todo \ {f}] \in Passes
    BY <2>1, <2>2, PassUpdate, Zenon
  <2>4. PassNamesItsWork([p EXCEPT !.pc = x, !.f = f, !.todo = p.todo \ {f}])
    BY <2>2 DEF PassNamesItsWork, Passes
  <2> QED BY <2>3, <2>4
<1> QED BY <1>1, <1>2

\* Cleanup passes and sweeps keep the types.
LEMMA PassType ==
  ASSUME StoresTyped, RowsTyped, PassesTyped, NEW c \in Cleaners,
         CleanStep(c) \/ SweepStep(c) \/ StopStep(c)
  PROVE  StoresTyped' /\ RowsTyped' /\ PassesTyped'
<1> DEFINE me == pass[c]
           row == upload[me.u]
           Typed == StoresTyped' /\ RowsTyped' /\ PassesTyped'
<1>0. me \in Passes /\ PassNamesItsWork(me)
  BY DEF PassesTyped
<1>1. ASSUME me.pc # "idle" PROVE me.u \in Uploads /\ row \in Rows
  BY <1>0, <1>1 DEF PassNamesItsWork, RowsTyped
<1>2. ASSUME NEW u \in Uploads, NEW x \in {"claim", "sclaim"}, NEW T \in SUBSET Files,
             SetPass(c, [IdlePass EXCEPT !.pc = x, !.u = u, !.t = now, !.todo = T])
      PROVE  PassesTyped'
  <2> DEFINE p == [IdlePass EXCEPT !.pc = x, !.u = u, !.t = now, !.todo = T]
  <2>1. x \in {"idle"} \cup CleanPcs \cup SweepPcs /\ now \in Nat
    BY DEF CleanPcs, SweepPcs, StoresTyped
  <2>2. p \in Passes
    BY <2>1, IdleTyped, PassUpdate, Zenon
  <2>3. PassNamesItsWork(p)
    BY DEF PassNamesItsWork, IdlePass
  <2> QED
    BY <1>2, <2>2, <2>3, PassSet
<1>3. ASSUME NEW u \in Uploads, CleanSelect(c, u) \/ SweepSelect(c, u)
      PROVE  Typed
  <2>1. upload[u].files \in SUBSET Files
    BY RowFields DEF RowsTyped
  <2>2. PassesTyped'
    BY <1>2, <1>3, <2>1 DEF CleanSelect, SweepSelect, CleanEntry
  <2> QED
    BY <1>3, <2>2 DEF CleanSelect, SweepSelect, StoresTyped, RowsTyped
<1>4. ASSUME CleanClaim(c) \/ SweepClaim(c)
      PROVE  Typed
  <2> DEFINE v == [row EXCEPT !.cleanup = me.t]
  <2>1. me.pc # "idle"
    BY <1>4 DEF CleanClaim, SweepClaim
  <2>2. me.t \in Int
    BY <1>0, PassFields
  <2>3. v \in Rows
    BY <1>1, <2>1, <2>2, RowUpdate, Zenon
  <2>4. SetRow(me.u, v) \/ UNCHANGED upload
    BY <1>4 DEF CleanClaim, SweepClaim
  <2>5. \/ SetPass(c, [me EXCEPT !.pc = "bytes"])
        \/ SetPass(c, [me EXCEPT !.pc = "sbytes"])
        \/ SetPass(c, IdlePass)
    BY <1>4 DEF CleanClaim, SweepClaim
  <2>6. PassesTyped'
    BY <1>0, <1>1, <2>1, <2>5, PassMoves, IdleTyped, PassSet
  <2> HIDE DEF v
  <2>7. RowsTyped'
    BY <1>1, <2>1, <2>3, <2>4, RowSet DEF RowsTyped
  <2> QED
    BY <1>4, <2>6, <2>7 DEF CleanClaim, SweepClaim, StoresTyped
<1>5. ASSUME CleanBytes(c) \/ SweepBytes(c)
      PROVE  Typed
  <2>1. me.pc # "idle"
    BY <1>5 DEF CleanBytes, SweepBytes
  <2>2. PICK f \in me.todo :
          /\ staged' = [staged EXCEPT ![me.u] = @ \ {f}]
          /\ \E x \in {"row", "smark"} :
                SetPass(c, [me EXCEPT !.pc = x, !.f = f, !.todo = me.todo \ {f}])
    BY <1>5 DEF CleanBytes, SweepBytes
  <2>3. PassesTyped'
    BY <1>0, <1>1, <2>1, <2>2, PassMoves, PassSet
  <2>4. staged' \in [Uploads -> SUBSET Files]
    BY <2>2 DEF StoresTyped
  <2> QED
    BY <1>5, <2>3, <2>4 DEF CleanBytes, SweepBytes, StoresTyped, RowsTyped
<1>6. ASSUME CleanRow(c)
      PROVE  Typed
  <2> DEFINE v == [row EXCEPT !.files = row.files \ {me.f},
                              !.uploaded = row.uploaded \ {me.f},
                              !.installed = row.installed \ {me.f}]
  <2>1. me.pc # "idle"
    BY <1>6 DEF CleanRow
  <2>2. /\ row.files \ {me.f} \in SUBSET Files
        /\ row.uploaded \ {me.f} \in SUBSET Files
        /\ row.installed \ {me.f} \in SUBSET Files
    BY <1>1, <2>1, RowFields
  <2>3. v \in Rows
    BY <1>1, <2>1, <2>2, RowUpdate, Zenon
  <2>4. SetRow(me.u, v) \/ UNCHANGED upload
    BY <1>6 DEF CleanRow
  <2>5. SetPass(c, [me EXCEPT !.pc = "bytes", !.f = NoFile])
    BY <1>6 DEF CleanRow
  <2>6. PassesTyped'
    BY <1>0, <1>1, <2>1, <2>5, PassMoves, PassSet
  <2> HIDE DEF v
  <2>7. RowsTyped'
    BY <1>1, <2>1, <2>3, <2>4, RowSet DEF RowsTyped
  <2> QED
    BY <1>6, <2>6, <2>7 DEF CleanRow, StoresTyped
<1>7. ASSUME CleanUpload(c)
      PROVE  Typed
  <2>1. me.pc # "idle"
    BY <1>7 DEF CleanUpload
  <2>2. RowsTyped'
    BY <1>1, <1>7, <2>1, RowSet, IdleTyped DEF CleanUpload, RowsTyped
  <2> QED
    BY <1>7, <2>2, PassSet, IdleTyped DEF CleanUpload, StoresTyped
<1>8. ASSUME SweepMark(c)
      PROVE  Typed
  <2> DEFINE v == [row EXCEPT !.swept = row.swept \cup {me.f}]
  <2>1. me.pc # "idle" /\ me.f \in Files
    BY <1>0, <1>8 DEF SweepMark, PassNamesItsWork
  <2>2. row.swept \cup {me.f} \in SUBSET Files
    BY <1>1, <2>1, RowFields
  <2>3. v \in Rows
    BY <1>1, <2>1, <2>2, RowUpdate, Zenon
  <2>4. SetRow(me.u, v) /\ SetPass(c, [me EXCEPT !.pc = "sbytes", !.f = NoFile])
    BY <1>8 DEF SweepMark
  <2>5. PassesTyped'
    BY <1>0, <1>1, <2>1, <2>4, PassMoves, PassSet
  <2> HIDE DEF v
  <2>6. RowsTyped'
    BY <1>1, <2>1, <2>3, <2>4, RowSet
  <2> QED
    BY <1>8, <2>5, <2>6 DEF SweepMark, StoresTyped
<1>9. ASSUME SweepComplete(c)
      PROVE  Typed
  <2> DEFINE v == [row EXCEPT !.cleaned = TRUE, !.cleanup = NoTime]
  <2>1. me.pc # "idle"
    BY <1>9 DEF SweepComplete
  <2>2. NoTime \in Int
    BY DEF NoTime
  <2>3. v \in Rows
    BY <1>1, <2>1, <2>2, RowUpdate, Zenon
  <2>4. SetRow(me.u, v) \/ ReleaseStamp(me, "committed")
    BY <1>9 DEF SweepComplete
  <2> HIDE DEF v
  <2>5. RowsTyped'
    BY <1>0, <1>1, <2>1, <2>3, <2>4, RowSet, ReleaseTyped
  <2> QED
    BY <1>9, <2>5, PassSet, IdleTyped DEF SweepComplete, StoresTyped
<1>10. ASSUME StopStep(c)
       PROVE  Typed
  <2>1. me.pc # "idle"
    BY <1>10 DEF StopStep, CleanStop, SweepStop, PassCrash
  <2>2. RowsTyped'
    BY <1>0, <1>1, <1>10, <2>1, ReleaseTyped DEF StopStep, CleanStop, SweepStop, PassCrash, RowsTyped
  <2> QED
    BY <1>10, <2>2, PassSet, IdleTyped DEF StopStep, CleanStop, SweepStop, PassCrash, StoresTyped
<1> QED
  BY <1>3, <1>4, <1>5, <1>6, <1>7, <1>8, <1>9, <1>10 DEF CleanStep, SweepStep

\* Requests leave cleanup passes alone.
LEMMA PassFrame ==
  ASSUME NEW r \in Requests, RequestStep(r) PROVE UNCHANGED pass
<1>1. CreateStep(r) => UNCHANGED pass
  BY DEF CreateStep, CreateFresh, CreateInsert, CreateRead, PurgeFile, PurgeRow, CreateRaced,
         ReuseFile, CreateDone
<1>2. PutStep(r) => UNCHANGED pass
  BY DEF PutStep, PutStart, PutBytes, PutMark
<1>3. CommitStep(r) => UNCHANGED pass
  BY DEF CommitStep, CommitStart, PrepareFetch, PrepareClaim, PrepareChunk, PrepareRenew, PrepareInstall,
         PrepareRecord, PrepareExtend, PrepareEntries, PrepareRelease, PrepareMark,
         PublishCheck, PublishStore, PublishCommit
<1> QED
  BY <1>1, <1>2, <1>3 DEF RequestStep

\* Cleanup passes leave requests alone.
LEMMA ReqFrame ==
  ASSUME NEW c \in Cleaners, CleanStep(c) \/ SweepStep(c) \/ StopStep(c)
  PROVE  UNCHANGED req
  BY DEF CleanStep, SweepStep, StopStep, CleanSelect, CleanClaim, CleanBytes, CleanRow,
         CleanUpload, CleanStop, SweepSelect, SweepClaim, SweepBytes, SweepMark,
         SweepComplete, SweepStop, PassCrash

\* Every step keeps the types.
LEMMA TypeStep == TypeOK /\ [Next]_vars => TypeOK'
<1> SUFFICES ASSUME StoresTyped, RowsTyped, ReqsTyped, PassesTyped, [Next]_vars
             PROVE  StoresTyped' /\ RowsTyped' /\ ReqsTyped' /\ PassesTyped'
  BY DEF TypeOK, StoresTyped, RowsTyped, ReqsTyped, PassesTyped
<1>1. CASE Tick
  BY <1>1 DEF Tick, StoresTyped, RowsTyped, ReqsTyped, PassesTyped
<1>2. ASSUME NEW r \in Requests, RequestStep(r)
      PROVE  StoresTyped' /\ RowsTyped' /\ ReqsTyped' /\ PassesTyped'
  BY <1>2, CreateType, PutType, CommitType, PassFrame DEF RequestStep, PassesTyped
<1>3. ASSUME NEW r \in Requests, Fail(r)
      PROVE  StoresTyped' /\ RowsTyped' /\ ReqsTyped' /\ PassesTyped'
  <2>1. ReqsTyped'
    BY <1>3, ReqSet, IdleTyped DEF Fail
  <2> QED
    BY <1>3, <2>1 DEF Fail, StoresTyped, RowsTyped, PassesTyped
<1>4. ASSUME NEW c \in Cleaners, CleanStep(c) \/ SweepStep(c) \/ StopStep(c)
      PROVE  StoresTyped' /\ RowsTyped' /\ ReqsTyped' /\ PassesTyped'
  BY <1>4, PassType, ReqFrame DEF ReqsTyped
<1>5. CASE UNCHANGED vars
  BY <1>5 DEF vars, StoresTyped, RowsTyped, ReqsTyped, PassesTyped
<1> QED
  BY <1>1, <1>2, <1>3, <1>4, <1>5 DEF Next

\* Every variable keeps its type: no step of a request or a pass can write a
\* malformed row, a malformed receipt or a local record without its work.
THEOREM TypeCorrect == Spec => []TypeOK
<1>1. Init => TypeOK
  BY IdleTyped DEF Init, TypeOK
<1> QED
  BY <1>1, TypeStep, PTL DEF Spec

-----------------------------------------------------------------------------
(* Published bytes                                                         *)

\* What makes PublishedBytesInstalled inductive: every record of an installed
\* file, durable or in the memory of a request, is backed by a blob, and a
\* request that is storing has a blob for every file it has passed.
ReqBacked(q, B) ==
    /\ q.snap \subseteq B
    /\ q.landed \subseteq B
    /\ q.pc = "store" => Files \ q.todo \subseteq B

RowBacked(row, B) ==
    /\ row.installed \subseteq B
    /\ row.status = "committed" => Files \subseteq B

Backed ==
    /\ \A u \in Uploads : RowBacked(upload[u], blobs)
    /\ \A r \in Requests : ReqBacked(req[r], blobs)

\* One request changes while blobs only grow.
LEMMA BackedReq ==
  ASSUME ReqsTyped, Backed, blobs \subseteq blobs', NEW r \in Requests, NEW v,
         SetReq(r, v), ReqBacked(v, blobs')
  PROVE  \A q \in Requests : ReqBacked(req'[q], blobs')
<1> TAKE q \in Requests
<1>1. ReqBacked(req[q], blobs')
  BY DEF Backed, ReqBacked
<1> QED
  BY <1>1 DEF SetReq, ReqsTyped

\* One row changes while blobs only grow.
LEMMA BackedRow ==
  ASSUME RowsTyped, Backed, blobs \subseteq blobs', NEW u \in Uploads, NEW v,
         SetRow(u, v), RowBacked(v, blobs')
  PROVE  \A w \in Uploads : RowBacked(upload'[w], blobs')
<1> TAKE w \in Uploads
<1>1. RowBacked(upload[w], blobs')
  BY DEF Backed, RowBacked
<1> QED
  BY <1>1 DEF SetRow, RowsTyped

\* Whatever does not change stays backed while blobs only grow.
LEMMA BackedSame ==
  ASSUME Backed, blobs \subseteq blobs'
  PROVE  /\ UNCHANGED req => \A q \in Requests : ReqBacked(req'[q], blobs')
         /\ UNCHANGED upload => \A w \in Uploads : RowBacked(upload'[w], blobs')
  BY DEF Backed, ReqBacked, RowBacked

\* Fresh records and fresh rows record nothing.
LEMMA BackedFresh ==
  ASSUME NEW B
  PROVE  /\ ReqBacked(IdleReq, B)
         /\ \A u, T : ReqBacked(Reusing(u, T), B)
         /\ \A k : RowBacked(OpenRow(k), B)
         /\ RowBacked(RemovedRow, B)
  BY DEF ReqBacked, RowBacked, IdleReq, Reusing, OpenRow, RemovedRow, AbsentRow

\* createUpload installs nothing that is not stored.
LEMMA CreateBacked ==
  ASSUME RowsTyped, ReqsTyped, Backed, NEW r \in Requests, CreateStep(r)
  PROVE  Backed'
<1> DEFINE me == req[r]
           row == upload[me.u]
<1>0. me \in Reqs /\ NamesItsWork(me) /\ ReqBacked(me, blobs)
  BY DEF ReqsTyped, Backed
<1>1. ASSUME NEW u \in Uploads, CreateFresh(r, u) \/ CreateInsert(r, u)
      PROVE  Backed'
  <2>1. /\ SetReq(r, Reusing(u, Files)) /\ UNCHANGED blobs
        /\ \E k : SetRow(u, OpenRow(k))
    BY <1>1 DEF CreateFresh, CreateInsert
  <2> QED
    BY <2>1, BackedReq, BackedRow, BackedFresh DEF Backed
<1>2. ASSUME NEW k \in Keys, CreateRead(r, k)
      PROVE  Backed'
  <2> DEFINE ins == [IdleReq EXCEPT !.pc = "insert", !.k = k]
             prg(u) == [IdleReq EXCEPT !.pc = "purge", !.u = u, !.k = k,
                                       !.exp = upload[u].expires, !.t = now, !.todo = Files]
  <2>1. ReqBacked(ins, blobs) /\ \A u : ReqBacked(prg(u), blobs)
    BY DEF ReqBacked, IdleReq
  <2>2. /\ UNCHANGED <<upload, blobs>>
        /\ \/ SetReq(r, ins)
           \/ \E u \in Uploads : SetReq(r, prg(u)) \/ SetReq(r, Reusing(u, Files \ upload[u].uploaded))
    BY <1>2 DEF CreateRead
  <2> HIDE DEF ins, prg
  <2> QED
    BY <2>1, <2>2, BackedReq, BackedSame, BackedFresh DEF Backed
<1>3. ASSUME PurgeFile(r)
      PROVE  Backed'
  <2>1. ASSUME NEW f PROVE ReqBacked([me EXCEPT !.todo = me.todo \ {f}], blobs)
    BY <1>0, <1>3 DEF PurgeFile, ReqBacked, Reqs
  <2> QED
    BY <1>3, <2>1, BackedReq, BackedSame DEF PurgeFile, Backed
<1>4. ASSUME PurgeRow(r)
      PROVE  Backed'
  <2>1. ReqBacked([IdleReq EXCEPT !.pc = "reinsert", !.k = me.k], blobs)
    BY DEF ReqBacked, IdleReq
  <2>2. me.u \in Uploads
    BY <1>0, <1>4 DEF PurgeRow, NamesItsWork
  <2> QED
    BY <1>4, <2>1, <2>2, BackedReq, BackedRow, BackedSame, BackedFresh DEF PurgeRow, Backed
<1>5. ASSUME CreateRaced(r)
      PROVE  Backed'
  BY <1>5, BackedReq, BackedSame, BackedFresh DEF CreateRaced, Backed
<1>6. ASSUME ReuseFile(r)
      PROVE  Backed'
  <2> DEFINE marked(f) == [row EXCEPT !.uploaded = row.uploaded \cup {f},
                                      !.installed = row.installed \cup {f}]
             q(f) == [me EXCEPT !.todo = me.todo \ {f}]
  <2>1. me.u \in Uploads /\ row \in Rows /\ RowBacked(row, blobs)
    BY <1>0, <1>6 DEF ReuseFile, NamesItsWork, RowsTyped, Backed
  <2>2. PICK f \in me.todo :
          /\ SetReq(r, q(f)) /\ UNCHANGED blobs
          /\ (SetRow(me.u, marked(f)) /\ f \in blobs) \/ UNCHANGED upload
    BY <1>6 DEF ReuseFile, ReusableContent
  <2>3. ReqBacked(q(f), blobs)
    BY <1>0, <1>6 DEF ReuseFile, ReqBacked, Reqs
  <2>4. f \in blobs => RowBacked(marked(f), blobs)
    BY <2>1 DEF RowBacked, Rows
  <2> HIDE DEF q, marked
  <2> QED
    BY <2>1, <2>2, <2>3, <2>4, BackedReq, BackedRow, BackedSame DEF Backed
<1>7. ASSUME CreateDone(r)
      PROVE  Backed'
  BY <1>7, BackedReq, BackedSame, BackedFresh DEF CreateDone, Backed
<1> QED
  BY <1>1, <1>2, <1>3, <1>4, <1>5, <1>6, <1>7 DEF CreateStep

\* putUploadFile installs nothing.
LEMMA PutBacked ==
  ASSUME RowsTyped, ReqsTyped, Backed, NEW r \in Requests, PutStep(r)
  PROVE  Backed'
<1> DEFINE me == req[r]
           row == upload[me.u]
<1>0. me \in Reqs /\ NamesItsWork(me) /\ ReqBacked(me, blobs)
  BY DEF ReqsTyped, Backed
<1>1. ASSUME NEW u \in Uploads, NEW f \in Files, PutStart(r, u, f)
      PROVE  Backed'
  <2>1. ReqBacked([IdleReq EXCEPT !.pc = "put", !.u = u, !.f = f, !.exp = upload[u].expires], blobs)
    BY DEF ReqBacked, IdleReq
  <2> QED
    BY <1>1, <2>1, BackedReq, BackedSame DEF PutStart, Backed
<1>2. ASSUME PutBytes(r)
      PROVE  Backed'
  <2>1. ReqBacked([me EXCEPT !.pc = "mark"], blobs)
    BY <1>0 DEF ReqBacked, Reqs
  <2> QED
    BY <1>2, <2>1, BackedReq, BackedSame DEF PutBytes, Backed
<1>3. ASSUME PutMark(r)
      PROVE  Backed'
  <2>1. me.u \in Uploads /\ row \in Rows /\ RowBacked(row, blobs)
    BY <1>0, <1>3 DEF PutMark, NamesItsWork, PutPcs, RowsTyped, Backed
  <2>2. RowBacked([row EXCEPT !.uploaded = row.uploaded \cup {me.f}], blobs)
    BY <2>1 DEF RowBacked, Rows
  <2> QED
    BY <1>3, <2>1, <2>2, BackedReq, BackedRow, BackedFresh DEF PutMark, Backed
<1> QED
  BY <1>1, <1>2, <1>3 DEF PutStep

\* Cleanup passes and sweeps never remove a blob.
LEMMA PassBacked ==
  ASSUME RowsTyped, PassesTyped, Backed, NEW c \in Cleaners,
         CleanStep(c) \/ SweepStep(c) \/ StopStep(c)
  PROVE  Backed'
<1> DEFINE me == pass[c]
           row == upload[me.u]
<1>1. UNCHANGED <<req, blobs>>
  BY DEF CleanStep, SweepStep, StopStep, CleanSelect, CleanClaim, CleanBytes, CleanRow,
         CleanUpload, CleanStop, SweepSelect, SweepClaim, SweepBytes, SweepMark,
         SweepComplete, SweepStop, PassCrash
<1>2. \/ UNCHANGED upload
      \/ me.u \in Uploads /\ \E v : SetRow(me.u, v) /\ RowBacked(v, blobs)
  <2>1. CASE me.pc = "idle"
    BY <2>1 DEF CleanStep, SweepStep, StopStep, CleanSelect, CleanClaim, CleanBytes, CleanRow,
         CleanUpload, CleanStop, SweepSelect, SweepClaim, SweepBytes, SweepMark,
         SweepComplete, SweepStop, PassCrash
  <2>2. CASE me.pc # "idle"
    <3>1. me.u \in Uploads /\ row \in Rows /\ RowBacked(row, blobs)
      BY <2>2 DEF PassesTyped, PassNamesItsWork, RowsTyped, Backed
    <3>2. /\ \A x : RowBacked([row EXCEPT !.cleanup = x], blobs)
          /\ \A x : RowBacked([row EXCEPT !.swept = x], blobs)
          /\ \A x, y : RowBacked([row EXCEPT !.cleaned = x, !.cleanup = y], blobs)
          /\ \A x, y, f : RowBacked([row EXCEPT !.files = x, !.uploaded = y,
                                                !.installed = row.installed \ {f}], blobs)
      BY <3>1 DEF RowBacked, Rows
    <3>3. ASSUME NEW st, ReleaseStamp(me, st)
          PROVE  UNCHANGED upload \/ SetRow(me.u, [row EXCEPT !.cleanup = me.t - Settle])
      BY <3>3 DEF ReleaseStamp
    <3>4. CASE \E u \in Uploads : CleanSelect(c, u) \/ SweepSelect(c, u)
      BY <3>4 DEF CleanSelect, SweepSelect
    <3>5. CASE CleanClaim(c) \/ SweepClaim(c)
      BY <3>1, <3>2, <3>5 DEF CleanClaim, SweepClaim
    <3>6. CASE CleanBytes(c) \/ SweepBytes(c)
      BY <3>6 DEF CleanBytes, SweepBytes
    <3>7. CASE CleanRow(c)
      BY <3>1, <3>2, <3>7 DEF CleanRow
    <3>8. CASE CleanUpload(c)
      BY <3>1, <3>8, BackedFresh DEF CleanUpload
    <3>9. CASE SweepMark(c)
      BY <3>1, <3>2, <3>9 DEF SweepMark
    <3>10. CASE SweepComplete(c)
      BY <3>1, <3>2, <3>3, <3>10 DEF SweepComplete
    <3>11. CASE StopStep(c)
      BY <3>1, <3>2, <3>3, <3>11 DEF StopStep, CleanStop, SweepStop, PassCrash
    <3> QED
      BY <3>4, <3>5, <3>6, <3>7, <3>8, <3>9, <3>10, <3>11 DEF CleanStep, SweepStep
  <2> QED
    BY <2>1, <2>2
<1> QED
  BY <1>1, <1>2, BackedRow, BackedSame DEF Backed

\* commitUpload records a file as installed only after its blob is stored.
LEMMA CommitBacked ==
  ASSUME RowsTyped, ReqsTyped, Backed, NEW r \in Requests, CommitStep(r)
  PROVE  Backed'
<1> DEFINE me == req[r]
           row == upload[me.u]
<1>0. me \in Reqs /\ NamesItsWork(me) /\ ReqBacked(me, blobs)
  BY DEF ReqsTyped, Backed
<1>1. ASSUME me.pc \in CommitPcs
      PROVE  me.u \in Uploads /\ row \in Rows /\ RowBacked(row, blobs)
  BY <1>0, <1>1, PcNames DEF NamesItsWork, RowsTyped, Backed
<1>2. ASSUME NEW u \in Uploads, NEW k \in Keys, CommitStart(r, u, k)
      PROVE  Backed'
  <2>1. ReqBacked([IdleReq EXCEPT !.pc = "fetch", !.u = u, !.k = k,
                                  !.snap = upload[u].installed], blobs)
    BY DEF Backed, RowBacked, ReqBacked, IdleReq
  <2> QED
    BY <1>2, <2>1, BackedReq, BackedSame DEF CommitStart, Backed
<1>3. ASSUME PrepareFetch(r)
      PROVE  Backed'
  <2> DEFINE q1 == [me EXCEPT !.pc = "check"]
             q2 == [me EXCEPT !.pc = "claim", !.more = FilesLeft(row),
                              !.todo = FirstN(Files \ row.installed, FilesPerPass)]
  <2>1. ReqBacked(q1, blobs) /\ ReqBacked(q2, blobs)
    BY <1>0 DEF ReqBacked, Reqs
  <2>2. (SetReq(r, q1) \/ SetReq(r, q2)) /\ UNCHANGED <<upload, blobs>>
    BY <1>3 DEF PrepareFetch
  <2> HIDE DEF q1, q2
  <2> QED
    BY <2>1, <2>2, BackedReq, BackedSame DEF Backed
<1>4. ASSUME PrepareClaim(r)
      PROVE  Backed'
  <2> DEFINE v == [row EXCEPT !.prep = "claimed", !.attempts = NextAttempt(row),
                              !.lease = now + Lease]
             p == IF me.todo = {} THEN "entries" ELSE "chunk"
             q == [me EXCEPT !.pc = p, !.att = NextAttempt(row), !.lease = now + Lease]
  <2>1. me.pc \in CommitPcs
    BY <1>4 DEF PrepareClaim, CommitPcs
  <2>2. RowBacked(v, blobs)
    BY <1>1, <2>1 DEF RowBacked, Rows
  <2>3. p # "store"
    OBVIOUS
  <2>4. SetReq(r, q) /\ SetRow(me.u, v) /\ UNCHANGED blobs
    BY <1>4 DEF PrepareClaim
  <2> HIDE DEF p
  <2>5. ReqBacked(q, blobs)
    BY <1>0, <2>3 DEF ReqBacked, Reqs
  <2> HIDE DEF q, v
  <2> QED
    BY <1>1, <2>1, <2>2, <2>4, <2>5, BackedReq, BackedRow DEF Backed
<1>5. ASSUME PrepareChunk(r)
      PROVE  Backed'
  <2> DEFINE q == [me EXCEPT !.pc = "renew", !.t = now]
  <2>1. ReqBacked(NextChunk(me), blobs) /\ ReqBacked(q, blobs)
    BY <1>0 DEF ReqBacked, Reqs, NextChunk
  <2>2. (SetReq(r, NextChunk(me)) \/ SetReq(r, q)) /\ UNCHANGED <<upload, blobs>>
    BY <1>5 DEF PrepareChunk
  <2> HIDE DEF q
  <2> QED
    BY <2>1, <2>2, BackedReq, BackedSame DEF Backed
<1>14. ASSUME PrepareRenew(r)
       PROVE  Backed'
  <2> DEFINE v == [row EXCEPT !.lease = me.t + Lease]
             q == [NextChunk(me) EXCEPT !.lease = me.t + Lease]
  <2>1. me.pc \in CommitPcs
    BY <1>14 DEF PrepareRenew, CommitPcs, HolderPcs
  <2>2. RowBacked(v, blobs)
    BY <1>1, <2>1 DEF RowBacked, Rows
  <2>3. ReqBacked(q, blobs)
    BY <1>0 DEF ReqBacked, Reqs, NextChunk
  <2>4. SetReq(r, q) /\ SetRow(me.u, v) /\ UNCHANGED blobs
    BY <1>14 DEF PrepareRenew
  <2> HIDE DEF q, v
  <2> QED
    BY <1>1, <2>1, <2>2, <2>3, <2>4, BackedReq, BackedRow DEF Backed
<1>6. ASSUME PrepareInstall(r)
      PROVE  Backed'
  <2> DEFINE q(f) == [me EXCEPT !.chunk = me.chunk \ {f}, !.landed = me.landed \cup {f}]
  <2>1. PICK f : /\ SetReq(r, q(f)) /\ UNCHANGED upload
                 /\ blobs' = blobs \cup {f}
    <3>1. PICK f \in Installable(me.chunk, me.u) :
             SetReq(r, q(f)) /\ blobs' = blobs \cup ({f} \cap staged[me.u])
      BY <1>6 DEF PrepareInstall
    <3>2. {f} \cap staged[me.u] = {f}
      BY <3>1 DEF Installable
    <3>3. UNCHANGED upload
      BY <1>6 DEF PrepareInstall
    <3> QED
      BY <3>1, <3>2, <3>3
  <2>2. me.pc = "install"
    BY <1>6 DEF PrepareInstall
  <2>3. ReqBacked(q(f), blobs')
    BY <1>0, <2>1, <2>2 DEF ReqBacked, Reqs
  <2> HIDE DEF q
  <2> QED
    BY <2>1, <2>3, BackedReq, BackedSame DEF Backed
<1>7. ASSUME PrepareRecord(r)
      PROVE  Backed'
  <2> DEFINE p(f) == IF me.chunk # {} \/ me.landed # {f} THEN "install"
                     ELSE IF me.todo # {} THEN "chunk" ELSE "extend"
             q(f) == [me EXCEPT !.landed = me.landed \ {f}, !.pc = p(f)]
             v(f) == [row EXCEPT !.installed = row.installed \cup {f}]
  <2>1. me.pc \in CommitPcs
    BY <1>7 DEF PrepareRecord, CommitPcs, HolderPcs
  <2>2. PICK f \in me.landed : SetReq(r, q(f)) /\ SetRow(me.u, v(f)) /\ UNCHANGED blobs
    BY <1>7 DEF PrepareRecord
  <2>3. RowBacked(v(f), blobs)
    BY <1>0, <1>1, <2>1 DEF RowBacked, ReqBacked, Rows
  <2>4. p(f) # "store"
    OBVIOUS
  <2> HIDE DEF p
  <2>5. ReqBacked(q(f), blobs)
    BY <1>0, <2>4 DEF ReqBacked, Reqs
  <2> HIDE DEF q, v
  <2> QED
    BY <1>1, <2>1, <2>2, <2>3, <2>5, BackedReq, BackedRow DEF Backed
<1>8. ASSUME PrepareExtend(r) \/ PrepareMark(r)
      PROVE  Backed'
  <2> DEFINE q1 == [me EXCEPT !.pc = "entries"]
             q2 == [me EXCEPT !.pc = "check"]
             v1 == [row EXCEPT !.expires = now + Lifetime]
             v2 == [row EXCEPT !.prep = "prepared"]
  <2>1. me.pc \in CommitPcs
    BY <1>8 DEF PrepareExtend, PrepareMark, CommitPcs, HolderPcs
  <2>2. ReqBacked(q1, blobs) /\ ReqBacked(q2, blobs)
    BY <1>0 DEF ReqBacked, Reqs
  <2>3. RowBacked(v1, blobs) /\ RowBacked(v2, blobs)
    BY <1>1, <2>1 DEF RowBacked, Rows
  <2>4. /\ (SetReq(r, q1) /\ SetRow(me.u, v1)) \/ (SetReq(r, q2) /\ SetRow(me.u, v2))
        /\ UNCHANGED blobs
    BY <1>8 DEF PrepareExtend, PrepareMark
  <2> HIDE DEF q1, q2, v1, v2
  <2> QED
    BY <1>1, <2>1, <2>2, <2>3, <2>4, BackedReq, BackedRow DEF Backed
<1>9. ASSUME PrepareEntries(r)
      PROVE  Backed'
  <2> DEFINE more == me.more \/ EntriesAfter(row) # NumFiles
             q == [me EXCEPT !.pc = "finish", !.more = more]
             v == [row EXCEPT !.entries = EntriesAfter(row)]
  <2>1. me.pc \in CommitPcs
    BY <1>9 DEF PrepareEntries, CommitPcs, HolderPcs
  <2>2. RowBacked(v, blobs)
    BY <1>1, <2>1 DEF RowBacked, Rows
  <2>3. SetReq(r, q) /\ (SetRow(me.u, v) \/ UNCHANGED upload) /\ UNCHANGED blobs
    BY <1>9 DEF PrepareEntries
  <2> HIDE DEF more
  <2>4. ReqBacked(q, blobs)
    BY <1>0 DEF ReqBacked, Reqs
  <2> HIDE DEF q, v
  <2> QED
    BY <1>1, <2>1, <2>2, <2>3, <2>4, BackedReq, BackedRow, BackedSame DEF Backed
<1>10. ASSUME PrepareRelease(r)
       PROVE  Backed'
  <2> DEFINE v == [row EXCEPT !.prep = "none", !.lease = NoTime]
  <2>1. me.pc \in CommitPcs
    BY <1>10 DEF PrepareRelease, CommitPcs, HolderPcs
  <2>2. RowBacked(v, blobs)
    BY <1>1, <2>1 DEF RowBacked, Rows
  <2>3. SetReq(r, IdleReq) /\ (SetRow(me.u, v) \/ UNCHANGED upload) /\ UNCHANGED blobs
    BY <1>10 DEF PrepareRelease
  <2> HIDE DEF v
  <2> QED
    BY <1>1, <2>1, <2>2, <2>3, BackedReq, BackedRow, BackedSame, BackedFresh DEF Backed
<1>11. ASSUME PublishCheck(r)
       PROVE  Backed'
  <2> DEFINE q == [me EXCEPT !.pc = "store", !.todo = Files \ me.snap]
  <2>1. ReqBacked(q, blobs)
    BY <1>0 DEF ReqBacked, Reqs
  <2>2. (SetReq(r, q) \/ SetReq(r, IdleReq)) /\ UNCHANGED <<upload, blobs>>
    BY <1>11 DEF PublishCheck
  <2> HIDE DEF q
  <2> QED
    BY <2>1, <2>2, BackedReq, BackedSame, BackedFresh DEF Backed
<1>12. ASSUME PublishStore(r)
       PROVE  Backed'
  <2> DEFINE q(f) == [me EXCEPT !.todo = me.todo \ {f}]
  <2>1. PICK f : SetReq(r, q(f)) /\ blobs' = blobs \cup {f} /\ UNCHANGED upload
    BY <1>12 DEF PublishStore
  <2>2. me.pc = "store"
    BY <1>12 DEF PublishStore
  <2>3. ReqBacked(q(f), blobs')
    BY <1>0, <2>1, <2>2 DEF ReqBacked, Reqs
  <2> HIDE DEF q
  <2> QED
    BY <2>1, <2>3, BackedReq, BackedSame DEF Backed
<1>13. ASSUME PublishCommit(r)
       PROVE  Backed'
  <2>1. me.pc \in CommitPcs /\ me.pc = "store" /\ me.todo = {}
    BY <1>13 DEF PublishCommit, CommitPcs
  <2>2. Files \subseteq blobs
    BY <1>0, <2>1 DEF ReqBacked
  <2>3. RowBacked(Seal(row), blobs)
    BY <1>1, <2>1, <2>2 DEF RowBacked, Rows, Seal
  <2>4. /\ SetReq(r, IdleReq) /\ UNCHANGED blobs
        /\ SetRow(me.u, Seal(row)) \/ UNCHANGED upload
    BY <1>13 DEF PublishCommit
  <2> QED
    BY <1>1, <2>1, <2>3, <2>4, BackedReq, BackedRow, BackedSame, BackedFresh DEF Backed
<1> QED
  BY <1>2, <1>3, <1>4, <1>5, <1>6, <1>7, <1>8, <1>9, <1>10, <1>11, <1>12, <1>13, <1>14
     DEF CommitStep

\* OPS-006 for every instance: whatever requests retry, stall or fail, and
\* whatever the cleanup passes reclaim, a sealed upload has all its blobs.
THEOREM PublishedBytes == Spec => []PublishedBytesInstalled
<1>1. Init => Backed
  BY DEF Init, Backed, RowBacked, ReqBacked, AbsentRow, IdleReq
<1>2. TypeOK /\ Backed /\ [Next]_vars => Backed'
  <2> SUFFICES ASSUME RowsTyped, ReqsTyped, PassesTyped, Backed, [Next]_vars
               PROVE  Backed'
    BY TypeParts
  <2>1. CASE Tick
    BY <2>1 DEF Tick, Backed
  <2>2. ASSUME NEW r \in Requests, RequestStep(r)
        PROVE  Backed'
    BY <2>2, CreateBacked, PutBacked, CommitBacked DEF RequestStep
  <2>3. ASSUME NEW r \in Requests, Fail(r)
        PROVE  Backed'
    BY <2>3, BackedReq, BackedSame, BackedFresh DEF Fail, Backed
  <2>4. ASSUME NEW c \in Cleaners, CleanStep(c) \/ SweepStep(c) \/ StopStep(c)
        PROVE  Backed'
    BY <2>4, PassBacked
  <2>5. CASE UNCHANGED vars
    BY <2>5 DEF vars, Backed
  <2> QED
    BY <2>1, <2>2, <2>3, <2>4, <2>5 DEF Next
<1>3. Backed => PublishedBytesInstalled
  BY DEF Backed, RowBacked, PublishedBytesInstalled
<1> QED
  BY <1>1, <1>2, <1>3, TypeCorrect, PTL DEF Spec

============================================================================
