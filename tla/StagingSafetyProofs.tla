------------------------- MODULE StagingSafetyProofs -------------------------
(***************************************************************************)
(* The races of StagedPublication, for every number of uploads, requests,  *)
(* cleanup passes and files: preparations are fenced, a key publishes      *)
(* once, "prepared" is complete and final, cleanup and preparation exclude *)
(* each other, and staging marked cleaned is empty and stays so.           *)
(*                                                                         *)
(* The inductive invariant says of every row, and of every request and     *)
(* pass about the row it works on, what the others cannot take away.  A    *)
(* step rewrites one row (Legal), or adds or removes one staged file.      *)
(***************************************************************************)
EXTENDS StagedPublicationProofs

USE TimesAssumption, BudgetAssumption, NamesAssumption

\* The preparation has been removed with its row, or x still holds of it.
Kept(row, x) == row.status = "removed" \/ x

\* The row with its staged bytes.
RowSound(row, bytes, t) ==
    /\ row.expires <= t + Lifetime
    /\ row.prep = "prepared" => row.files \subseteq row.installed /\ row.entries = NumFiles
    /\ row.status = "open" /\ row.key = NoKey /\ row.cleanup = NoTime
          => row.uploaded \ row.installed \subseteq bytes
    /\ row.status = "absent" => bytes = {}
    /\ row.status \in {"open", "committed"} => bytes \subseteq row.files
    /\ row.swept \cap bytes = {}
    /\ row.swept # {} \/ row.cleaned => row.status = "committed" /\ row.expires < t
    /\ row.cleaned => bytes = {}

\* What a request remembers of the preparation it runs: the attempt it fences its
\* writes with, and the files that it still has to install.
PreparationSound(q, row) ==
    /\ q.pc \in HolderPcs => Kept(row, q.att <= row.attempts)
    /\ q.pc \in {"fetch", "claim", "chunk", "renew", "extend", "entries", "finish"} =>
          q.chunk = {} /\ q.landed = {}
    /\ q.pc \in {"extend", "entries", "finish"} => q.todo = {}
    /\ q.pc \in {"claim"} \cup HolderPcs /\ ~q.more =>
          row.files \subseteq row.installed \cup q.todo \cup q.chunk \cup q.landed
    /\ q.pc = "finish" /\ ~q.more => Kept(row, row.entries = NumFiles)

\* A late write ends before the upload settles, and only a key's own request
\* removes bytes without a stamp.
WriterSound(q, row, bytes, t) ==
    /\ q.pc \in {"idle", "insert", "reinsert"} \/ row.status # "absent"
    /\ q.pc = "purge" => Kept(row, row.key # NoKey) /\ q.t <= t
    /\ q.pc = "put" => Kept(row, q.exp <= row.expires /\ (q.f \in row.files \/ q.exp < t))
    /\ q.pc = "mark" /\ row.status = "open" /\ row.key = NoKey /\ row.cleanup = NoTime
          => q.f \in bytes

\* What a cleanup pass stands on.
PassSound(p, row, bytes, t) ==
    /\ p.pc # "idle" => p.t <= t /\ p.t - Settle >= 0
    /\ p.pc \in CleanPcs => row.status # "absent"
    /\ p.pc \in {"bytes", "row"} /\ row.status = "open" => row.cleanup # NoTime
    /\ p.pc = "row" /\ row.status = "open" /\ row.expires <= p.t - Settle => p.f \notin bytes
    /\ p.pc \in SweepPcs => row.status = "committed" /\ row.expires <= p.t - Settle
    /\ p.pc = "smark" => p.f \notin bytes

RowsSound == \A u \in Uploads : RowSound(upload[u], staged[u], now)

RequestsSound ==
    \A r \in Requests :
        LET q == req[r] IN
        q.u \in Uploads => PreparationSound(q, upload[q.u]) /\ WriterSound(q, upload[q.u], staged[q.u], now)

PassesSound ==
    \A c \in Cleaners :
        LET p == pass[c] IN
        p.u \in Uploads => PassSound(p, upload[p.u], staged[p.u], now)

SafetyInv ==
    TypeOK /\ RowsSound /\ RequestsSound /\ PassesSound /\ OneFenceHolder /\ OnePublicationPerKey

-----------------------------------------------------------------------------
(* What a step does to a row                                               *)

\* A new upload.
Inserts(old, new) == old.status = "absent" /\ new.status = "open"

\* A reclaimed upload.
Removes(old, new) == old.status = "open" /\ new = RemovedRow

\* A row that goes on: what is prepared or sealed does not change, and nothing is
\* lost except a file that the upload's expiry left behind.
GoesOn(old, new, t) ==
    /\ old.status \in {"open", "committed"} /\ new.status = old.status
    /\ new.key = old.key
    /\ new.attempts >= old.attempts /\ new.expires >= old.expires /\ new.entries >= old.entries
    /\ new.files \subseteq old.files
    /\ new.files \ new.installed \subseteq old.files \ old.installed
    /\ new.files = old.files \/ old.expires < t
    /\ old.status = "committed" =>
          /\ new.expires = old.expires /\ new.files = old.files
          /\ new.installed = old.installed /\ new.prep = old.prep
    /\ old.status = "open" /\ old.cleanup # NoTime => new.cleanup # NoTime
    /\ old.status = "open" /\ old.prep = "prepared" =>
          new.prep = "prepared" /\ new.attempts = old.attempts /\ new.expires = old.expires

Legal(old, new, t) ==
    new = old \/ Inserts(old, new) \/ Removes(old, new) \/ GoesOn(old, new, t)

\* The sealing of one upload.
Seals(old, new) == old.status = "open" /\ new = Seal(old)

\* A legal change, or a sealing, of its row leaves a request with what it knew.
LEMMA RowChangeReq ==
  ASSUME NEW old \in Rows, NEW new \in Rows, NEW t \in Nat, NEW bytes,
         Legal(old, new, t) \/ Seals(old, new),
         NEW q \in Reqs, PreparationSound(q, old), WriterSound(q, old, bytes, t)
  PROVE  PreparationSound(q, new) /\ WriterSound(q, new, bytes, t)
<1>1. CASE new = old
  BY <1>1
<1>2. CASE Inserts(old, new)
  <2>1. q.pc \in {"idle", "insert", "reinsert"}
    BY <1>2 DEF Inserts, WriterSound
  <2> QED
    BY <2>1 DEF PreparationSound, WriterSound, HolderPcs
<1>3. CASE Removes(old, new)
  <2>1. new.status = "removed" /\ new.files = {}
    BY <1>3 DEF Removes, RemovedRow, AbsentRow
  <2> QED
    BY <2>1 DEF PreparationSound, WriterSound, Kept
<1>4. CASE GoesOn(old, new, t) \/ Seals(old, new)
  <2>1. /\ old.status \in {"open", "committed"} /\ new.status \in {"open", "committed"}
        /\ new.status = "open" => old.status = "open"
        /\ new.key = old.key /\ new.attempts >= old.attempts /\ new.expires >= old.expires
        /\ new.entries >= old.entries /\ new.files \subseteq old.files
        /\ new.files \ new.installed \subseteq old.files \ old.installed
        /\ new.files = old.files \/ old.expires < t
        /\ new.status = "open" /\ old.cleanup # NoTime => new.cleanup # NoTime
    BY <1>4 DEF GoesOn, Seals, Seal, Rows
  <2>2. /\ old.attempts \in Nat /\ new.attempts \in Nat /\ old.expires \in Nat /\ new.expires \in Nat
        /\ old.entries \in 0..NumFiles /\ new.entries \in 0..NumFiles
    BY RowFields
  <2>3. q.att \in Nat /\ q.exp \in Nat
    BY ReqFields
  <2>4. PreparationSound(q, new)
    BY <2>1, <2>2, <2>3 DEF PreparationSound, Kept
  <2>5. WriterSound(q, new, bytes, t)
    BY <2>1, <2>2, <2>3 DEF WriterSound, Kept
  <2> QED
    BY <2>4, <2>5
<1> QED
  BY <1>1, <1>2, <1>3, <1>4 DEF Legal

\* And a pass.
LEMMA RowChangePass ==
  ASSUME NEW old \in Rows, NEW new \in Rows, NEW t \in Nat, NEW bytes,
         Legal(old, new, t) \/ Seals(old, new), NEW p \in Passes, PassSound(p, old, bytes, t)
  PROVE  PassSound(p, new, bytes, t)
<1>1. CASE new = old
  BY <1>1
<1>2. CASE Inserts(old, new)
  BY <1>2, PassFields DEF Inserts, PassSound, CleanPcs, SweepPcs
<1>3. CASE Removes(old, new)
  BY <1>3 DEF Removes, RemovedRow, AbsentRow, PassSound, CleanPcs, SweepPcs
<1>4. CASE GoesOn(old, new, t) \/ Seals(old, new)
  <2>1. /\ new.status # "absent"
        /\ new.status = "open" => old.status = "open"
        /\ old.status = "committed" => new.status = "committed" /\ new.expires = old.expires
        /\ new.expires >= old.expires
        /\ new.status = "open" /\ old.cleanup # NoTime => new.cleanup # NoTime
    BY <1>4 DEF GoesOn, Seals, Seal, Rows
  <2>2. old.expires \in Nat /\ new.expires \in Nat /\ p.t - Settle \in Int
    BY RowFields, PassFields
  <2> QED
    BY <2>1, <2>2 DEF PassSound
<1> QED
  BY <1>1, <1>2, <1>3, <1>4 DEF Legal

\* A late write finds the upload live, so no pass is between the removal of a
\* file's bytes and its row.
LEMMA ByteAdded ==
  ASSUME NEW row \in Rows, NEW bytes, NEW f, NEW t \in Nat,
         row.status \in {"open", "committed"} => t <= row.expires
  PROVE  /\ \A q \in Reqs : WriterSound(q, row, bytes, t) => WriterSound(q, row, bytes \cup {f}, t)
         /\ \A p \in Passes : PassSound(p, row, bytes, t) => PassSound(p, row, bytes \cup {f}, t)
<1>1. row.expires \in Nat
  BY RowFields
<1>2. \A q \in Reqs : WriterSound(q, row, bytes, t) => WriterSound(q, row, bytes \cup {f}, t)
  BY DEF WriterSound
<1>3. ASSUME NEW p \in Passes, PassSound(p, row, bytes, t)
      PROVE  PassSound(p, row, bytes \cup {f}, t)
  <2>1. p.t \in Nat
    BY PassFields
  <2>2. ASSUME p.pc # "idle", row.expires <= p.t - Settle
        PROVE  ~(row.status \in {"open", "committed"})
    <3>1. p.t <= t
      BY <1>3, <2>2 DEF PassSound
    <3> QED
      BY <1>1, <2>1, <2>2, <3>1
  <2>3. p.pc # "smark"
    BY <1>3, <2>2 DEF PassSound, SweepPcs
  <2>4. ~(p.pc = "row" /\ row.status = "open" /\ row.expires <= p.t - Settle)
    BY <2>2
  <2> QED
    BY <1>3, <2>3, <2>4 DEF PassSound
<1> QED
  BY <1>2, <1>3

\* Bytes are removed behind a stamp, a key or a seal.
LEMMA ByteRemoved ==
  ASSUME NEW row, NEW bytes, NEW f, NEW t,
         ~(row.status = "open" /\ row.key = NoKey /\ row.cleanup = NoTime)
  PROVE  /\ \A q \in Reqs : WriterSound(q, row, bytes, t) => WriterSound(q, row, bytes \ {f}, t)
         /\ \A p \in Passes : PassSound(p, row, bytes, t) => PassSound(p, row, bytes \ {f}, t)
         /\ RowSound(row, bytes, t) => RowSound(row, bytes \ {f}, t)
<1>1. \A q \in Reqs : WriterSound(q, row, bytes, t) => WriterSound(q, row, bytes \ {f}, t)
  BY DEF WriterSound
<1>2. \A p \in Passes : PassSound(p, row, bytes, t) => PassSound(p, row, bytes \ {f}, t)
  BY DEF PassSound
<1>3. RowSound(row, bytes, t) => RowSound(row, bytes \ {f}, t)
  BY DEF RowSound
<1> QED
  BY <1>1, <1>2, <1>3

\* Time takes nothing away.
LEMMA Later ==
  ASSUME NEW row \in Rows, NEW bytes, NEW t \in Nat
  PROVE  /\ \A q \in Reqs : WriterSound(q, row, bytes, t) => WriterSound(q, row, bytes, t + 1)
         /\ \A p \in Passes : PassSound(p, row, bytes, t) => PassSound(p, row, bytes, t + 1)
         /\ RowSound(row, bytes, t) => RowSound(row, bytes, t + 1)
<1>1. \A q \in Reqs : WriterSound(q, row, bytes, t) => WriterSound(q, row, bytes, t + 1)
  BY ReqFields DEF WriterSound, Kept
<1>2. \A p \in Passes : PassSound(p, row, bytes, t) => PassSound(p, row, bytes, t + 1)
  BY PassFields DEF PassSound
<1>3. RowSound(row, bytes, t) => RowSound(row, bytes, t + 1)
  BY RowFields DEF RowSound, LeaseOver, Times, NoTime
<1> QED
  BY <1>1, <1>2, <1>3

-----------------------------------------------------------------------------
(* What a step of one actor leaves to the others                           *)

\* What the requests and passes know stays true of the new rows and bytes.
ReqStill(q) ==
    q.u \in Uploads =>
        PreparationSound(q, upload'[q.u]) /\ WriterSound(q, upload'[q.u], staged'[q.u], now')
PassStill(p) == p.u \in Uploads => PassSound(p, upload'[p.u], staged'[p.u], now')

OthersSound ==
    /\ RowsSound'
    /\ \A r \in Requests : ReqStill(req[r])
    /\ \A c \in Cleaners : PassStill(pass[c])

\* What the invariant says of one row, one request and one pass.
LEMMA Facts ==
  ASSUME SafetyInv
  PROVE  /\ now \in Nat
         /\ \A u \in Uploads : upload[u] \in Rows /\ RowSound(upload[u], staged[u], now)
         /\ \A r \in Requests : /\ req[r] \in Reqs /\ NamesItsWork(req[r])
                                /\ req[r].u \in Uploads =>
                                     /\ PreparationSound(req[r], upload[req[r].u])
                                     /\ WriterSound(req[r], upload[req[r].u], staged[req[r].u], now)
         /\ \A c \in Cleaners : /\ pass[c] \in Passes /\ PassNamesItsWork(pass[c])
                                /\ pass[c].u \in Uploads =>
                                     PassSound(pass[c], upload[pass[c].u], staged[pass[c].u], now)
  BY DEF SafetyInv, TypeOK, RowsSound, RequestsSound, PassesSound

\* Where rows, bytes and time stay, everything that is known stays.
LEMMA NothingStored ==
  ASSUME SafetyInv, UNCHANGED <<now, upload, staged>>
  PROVE  OthersSound
<1>1. RowsSound'
  BY DEF SafetyInv, RowsSound
<1> QED
  BY <1>1, Facts DEF OthersSound, ReqStill, PassStill

\* A legal change of one row.
LEMMA RowStored ==
  ASSUME SafetyInv, TypeOK', NEW u \in Uploads, UNCHANGED <<now, staged>>,
         \A x \in Uploads : x # u => upload'[x] = upload[x],
         Legal(upload[u], upload'[u], now) \/ Seals(upload[u], upload'[u]),
         RowSound(upload'[u], staged[u], now)
  PROVE  OthersSound
<1>1. upload[u] \in Rows /\ upload'[u] \in Rows /\ now \in Nat
  BY DEF SafetyInv, TypeOK
<1>2. RowsSound'
  BY DEF SafetyInv, RowsSound
<1>3. ASSUME NEW r \in Requests, req[r].u \in Uploads
      PROVE  ReqStill(req[r])
  <2>1. /\ req[r] \in Reqs /\ PreparationSound(req[r], upload[req[r].u])
        /\ WriterSound(req[r], upload[req[r].u], staged[req[r].u], now)
    BY <1>3, Facts
  <2>2. CASE req[r].u = u
    BY <1>1, <2>1, <2>2, RowChangeReq DEF ReqStill
  <2>3. CASE req[r].u # u
    BY <1>3, <2>1, <2>3 DEF ReqStill
  <2> QED
    BY <2>2, <2>3
<1>4. ASSUME NEW c \in Cleaners, pass[c].u \in Uploads
      PROVE  PassStill(pass[c])
  <2>1. pass[c] \in Passes /\ PassSound(pass[c], upload[pass[c].u], staged[pass[c].u], now)
    BY <1>4, Facts
  <2>2. CASE pass[c].u = u
    BY <1>1, <2>1, <2>2, RowChangePass DEF PassStill
  <2>3. CASE pass[c].u # u
    BY <1>4, <2>1, <2>3 DEF PassStill
  <2> QED
    BY <2>2, <2>3
<1> QED
  BY <1>2, <1>3, <1>4 DEF OthersSound, ReqStill, PassStill

\* A change of the bytes of one upload that keeps what is known of them.
LEMMA BytesStored ==
  ASSUME SafetyInv, NEW u \in Uploads, UNCHANGED <<now, upload>>,
         \A x \in Uploads : x # u => staged'[x] = staged[x],
         RowSound(upload[u], staged'[u], now),
         \A q \in Reqs : WriterSound(q, upload[u], staged[u], now) => WriterSound(q, upload[u], staged'[u], now),
         \A p \in Passes : PassSound(p, upload[u], staged[u], now) => PassSound(p, upload[u], staged'[u], now)
  PROVE  OthersSound
<1>1. RowsSound'
  BY DEF SafetyInv, RowsSound
<1>2. ASSUME NEW r \in Requests, req[r].u \in Uploads
      PROVE  ReqStill(req[r])
  BY <1>2, Facts DEF ReqStill
<1>3. ASSUME NEW c \in Cleaners, pass[c].u \in Uploads
      PROVE  PassStill(pass[c])
  BY <1>3, Facts DEF PassStill
<1> QED
  BY <1>1, <1>2, <1>3 DEF OthersSound, ReqStill, PassStill

\* A removal of bytes behind a stamp, a key or a seal.
LEMMA BytesRemoved ==
  ASSUME SafetyInv, NEW u \in Uploads, NEW f, UNCHANGED <<now, upload>>,
         staged' = [staged EXCEPT ![u] = @ \ {f}],
         ~(upload[u].status = "open" /\ upload[u].key = NoKey /\ upload[u].cleanup = NoTime)
  PROVE  OthersSound /\ staged'[u] = staged[u] \ {f}
<1>1. /\ staged'[u] = staged[u] \ {f}
      /\ \A x \in Uploads : x # u => staged'[x] = staged[x]
  BY DEF SafetyInv, TypeOK
<1>2. RowSound(upload[u], staged[u], now)
  BY Facts
<1>3. /\ RowSound(upload[u], staged'[u], now)
      /\ \A q \in Reqs : WriterSound(q, upload[u], staged[u], now) => WriterSound(q, upload[u], staged'[u], now)
      /\ \A p \in Passes : PassSound(p, upload[u], staged[u], now) => PassSound(p, upload[u], staged'[u], now)
  <2> DEFINE row == upload[u]
             bytes == staged[u]
  <2>1. /\ \A q \in Reqs : WriterSound(q, row, bytes, now) => WriterSound(q, row, bytes \ {f}, now)
        /\ \A p \in Passes : PassSound(p, row, bytes, now) => PassSound(p, row, bytes \ {f}, now)
        /\ RowSound(row, bytes, now) => RowSound(row, bytes \ {f}, now)
    <3> HIDE DEF row, bytes
    <3>1. ~(row.status = "open" /\ row.key = NoKey /\ row.cleanup = NoTime)
      BY DEF row
    <3> QED
      BY <3>1, ByteRemoved
  <2> QED
    BY <1>1, <1>2, <2>1
<1> QED
  BY <1>1, <1>3, BytesStored

\* Time.
LEMMA TimePassed ==
  ASSUME SafetyInv, now' = now + 1, UNCHANGED <<upload, staged>>
  PROVE  OthersSound
<1>1. RowsSound'
  BY Facts, Later DEF RowsSound
<1>2. ASSUME NEW r \in Requests, req[r].u \in Uploads
      PROVE  ReqStill(req[r])
  BY <1>2, Facts, Later DEF ReqStill
<1>3. ASSUME NEW c \in Cleaners, pass[c].u \in Uploads
      PROVE  PassStill(pass[c])
  BY <1>3, Facts, Later DEF PassStill
<1> QED
  BY <1>1, <1>2, <1>3 DEF OthersSound, ReqStill, PassStill

\* The rows move as they may.
RowsMove == \A u \in Uploads : Legal(upload[u], upload'[u], now) \/ Seals(upload[u], upload'[u])

Safe == /\ RowsSound' /\ RequestsSound' /\ PassesSound'
        /\ OneFenceHolder' /\ OnePublicationPerKey' /\ RowsMove

\* The preparation that a request goes on with, if it goes on with one.
SameFence(old, new) ==
    new.pc \in HolderPcs => old.pc \in HolderPcs /\ new.u = old.u /\ new.att = old.att

\* Nothing is published, and nothing loses its publication.
NothingPublished ==
    /\ receipt' = receipt
    /\ \A u \in Uploads : upload'[u].status = "committed" <=> upload[u].status = "committed"

\* Legal changes publish nothing.
LEMMA LegalPublishes ==
  ASSUME receipt' = receipt, \A u \in Uploads : Legal(upload[u], upload'[u], now)
  PROVE  NothingPublished
<1>1. ASSUME NEW u \in Uploads
      PROVE  upload'[u].status = "committed" <=> upload[u].status = "committed"
  <2>1. Legal(upload[u], upload'[u], now)
    OBVIOUS
  <2> QED
    BY <2>1 DEF Legal, Inserts, Removes, GoesOn, RemovedRow, AbsentRow
<1> QED
  BY <1>1 DEF NothingPublished

\* Where nothing is published, keys and publications still correspond.
LEMMA PublicationsKept ==
  ASSUME TypeOK, OnePublicationPerKey, NothingPublished
  PROVE  OnePublicationPerKey'
<1>1. \A k \in Keys : receipt[k] \in Uploads \cup {NoUpload}
  BY DEF TypeOK
<1> QED
  BY <1>1 DEF OnePublicationPerKey, NothingPublished

\* A step of one request is safe.
LEMMA RequestSafe ==
  ASSUME SafetyInv, OthersSound, NEW r \in Requests, NEW v, SetReq(r, v), UNCHANGED pass,
         ReqStill(v), SameFence(req[r], v),
         receipt' = receipt, \A u \in Uploads : Legal(upload[u], upload'[u], now)
  PROVE  Safe
<1>1. req'[r] = v /\ \A x \in Requests : x # r => req'[x] = req[x]
  BY DEF SetReq, SafetyInv, TypeOK
<1>2. RequestsSound'
  BY <1>1 DEF OthersSound, RequestsSound, ReqStill
<1>3. PassesSound' /\ RowsSound'
  BY DEF OthersSound, PassesSound, PassStill
<1>4. OneFenceHolder'
  BY <1>1 DEF SafetyInv, OneFenceHolder, Holds, SameFence
<1>5. OnePublicationPerKey'
  BY LegalPublishes, PublicationsKept DEF SafetyInv
<1> QED
  BY <1>2, <1>3, <1>4, <1>5 DEF Safe, RowsMove

\* A step of one pass is safe.
LEMMA PassSafe ==
  ASSUME SafetyInv, OthersSound, NEW c \in Cleaners, NEW v, SetPass(c, v), UNCHANGED req,
         PassStill(v),
         receipt' = receipt, \A u \in Uploads : Legal(upload[u], upload'[u], now)
  PROVE  Safe
<1>1. pass'[c] = v /\ \A x \in Cleaners : x # c => pass'[x] = pass[x]
  BY DEF SetPass, SafetyInv, TypeOK
<1>2. PassesSound'
  BY <1>1 DEF OthersSound, PassesSound, PassStill
<1>3. RequestsSound' /\ RowsSound'
  BY DEF OthersSound, RequestsSound, ReqStill
<1>4. OneFenceHolder'
  BY DEF SafetyInv, OneFenceHolder, Holds
<1>5. OnePublicationPerKey'
  BY LegalPublishes, PublicationsKept DEF SafetyInv
<1> QED
  BY <1>2, <1>3, <1>4, <1>5 DEF Safe, RowsMove

\* A request or a pass that is over knows nothing.
LEMMA KnowsNothing ==
  ReqStill(IdleReq) /\ PassStill(IdlePass) /\ \A q : SameFence(q, IdleReq)
  BY DEF ReqStill, PassStill, SameFence, IdleReq, IdlePass, HolderPcs

-----------------------------------------------------------------------------
(* createUpload and uploadFile                                             *)

\* A new row is sound, and the request that inserted it goes on to reuse files.
LEMMA InsertSafe ==
  ASSUME SafetyInv, TypeOK', NEW r \in Requests, NEW u \in Uploads,
         CreateFresh(r, u) \/ CreateInsert(r, u)
  PROVE  Safe
<1>1. PICK k \in Keys \cup {NoKey} : SetRow(u, OpenRow(k))
  <2>1. CASE CreateFresh(r, u)
    BY <2>1 DEF CreateFresh
  <2>2. CASE CreateInsert(r, u)
    BY <2>2, Facts DEF CreateInsert, NamesItsWork
  <2> QED
    BY <2>1, <2>2
<1>2. /\ upload[u].status = "absent" /\ SetReq(r, Reusing(u, Files))
      /\ UNCHANGED <<now, staged, receipt, pass>>
  BY DEF CreateFresh, CreateInsert
<1>3. upload'[u] = OpenRow(k) /\ \A x \in Uploads : x # u => upload'[x] = upload[x]
  BY <1>1 DEF SetRow, SafetyInv, TypeOK
<1>4. Legal(upload[u], upload'[u], now)
  BY <1>2, <1>3 DEF Legal, Inserts, OpenRow, AbsentRow
<1>5. RowSound(upload'[u], staged[u], now)
  <2>1. staged[u] = {}
    BY <1>2, Facts DEF RowSound
  <2> QED
    BY <1>3, <2>1, Facts DEF RowSound, OpenRow, AbsentRow
<1>6. OthersSound
  BY <1>2, <1>3, <1>4, <1>5, RowStored
<1>7. ReqStill(Reusing(u, Files)) /\ SameFence(req[r], Reusing(u, Files))
  BY <1>3 DEF ReqStill, SameFence, PreparationSound, WriterSound, Reusing, IdleReq, HolderPcs, OpenRow, AbsentRow
<1>8. \A x \in Uploads : Legal(upload[x], upload'[x], now)
  BY <1>3, <1>4 DEF Legal
<1> QED
  BY <1>2, <1>6, <1>7, <1>8, RequestSafe

\* A step that stores nothing and leaves the request at the start of some work.
LEMMA StoresNothing ==
  ASSUME SafetyInv, NEW r \in Requests, NEW v, SetReq(r, v),
         UNCHANGED <<now, upload, staged, receipt, pass>>,
         ReqStill(v), SameFence(req[r], v)
  PROVE  Safe
<1>1. OthersSound
  BY NothingStored
<1>2. \A x \in Uploads : Legal(upload[x], upload'[x], now)
  BY DEF Legal
<1> QED
  BY <1>1, <1>2, RequestSafe

\* createUpload finds an upload of the key, or none.
LEMMA CreateReadSafe ==
  ASSUME SafetyInv, NEW r \in Requests, NEW k \in Keys, CreateRead(r, k)
  PROVE  Safe
<1> DEFINE ins == [IdleReq EXCEPT !.pc = "insert", !.k = k]
           prg(u) == [IdleReq EXCEPT !.pc = "purge", !.u = u, !.k = k,
                                     !.exp = upload[u].expires, !.t = now, !.todo = Files]
<1>1. UNCHANGED <<now, upload, staged, receipt, pass>>
  BY DEF CreateRead
<1>2. \/ SetReq(r, ins)
      \/ \E u \in Uploads :
            /\ HoldsKey(upload[u], k)
            /\ SetReq(r, prg(u)) \/ SetReq(r, Reusing(u, Files \ upload[u].uploaded))
  BY DEF CreateRead
<1>3. ReqStill(ins) /\ SameFence(req[r], ins)
  BY DEF ReqStill, SameFence, IdleReq, HolderPcs
<1>4. ASSUME NEW u \in Uploads, HoldsKey(upload[u], k)
      PROVE  /\ ReqStill(prg(u)) /\ SameFence(req[r], prg(u))
             /\ ReqStill(Reusing(u, Files \ upload[u].uploaded))
             /\ SameFence(req[r], Reusing(u, Files \ upload[u].uploaded))
  <2>1. upload[u].status # "absent" /\ upload[u].key # NoKey
    BY <1>4 DEF HoldsKey
  <2>2. ReqStill(prg(u)) /\ SameFence(req[r], prg(u))
    <3>1. prg(u).pc = "purge" /\ prg(u).u = u /\ prg(u).t = now /\ prg(u).chunk = {} /\ prg(u).landed = {}
      BY DEF IdleReq
    <3>2. now \in Nat
      BY Facts
    <3> HIDE DEF prg
    <3>3. PreparationSound(prg(u), upload[u]) /\ WriterSound(prg(u), upload[u], staged[u], now)
      BY <2>1, <3>1, <3>2 DEF PreparationSound, WriterSound, HolderPcs, Kept
    <3> QED
      BY <1>1, <3>1, <3>3 DEF ReqStill, SameFence, HolderPcs
  <2>3. /\ ReqStill(Reusing(u, Files \ upload[u].uploaded))
        /\ SameFence(req[r], Reusing(u, Files \ upload[u].uploaded))
    BY <1>1, <2>1 DEF ReqStill, SameFence, PreparationSound, WriterSound, Reusing, IdleReq, HolderPcs
  <2> QED
    BY <2>2, <2>3
<1> HIDE DEF ins, prg
<1> QED
  BY <1>1, <1>2, <1>3, <1>4, StoresNothing

\* The raced upload is resumed.
LEMMA CreateRacedSafe ==
  ASSUME SafetyInv, NEW r \in Requests, CreateRaced(r)
  PROVE  Safe
<1>1. UNCHANGED <<now, upload, staged, receipt, pass>>
  BY DEF CreateRaced
<1>2. PICK u \in Uploads : /\ Accepting(upload[u], now)
                           /\ SetReq(r, Reusing(u, Files \ upload[u].uploaded))
  BY DEF CreateRaced
<1>3. /\ ReqStill(Reusing(u, Files \ upload[u].uploaded))
      /\ SameFence(req[r], Reusing(u, Files \ upload[u].uploaded))
  BY <1>1, <1>2 DEF Accepting, ReqStill, SameFence, PreparationSound, WriterSound, Reusing, IdleReq, HolderPcs
<1> QED
  BY <1>1, <1>2, <1>3, StoresNothing

\* The purge of an expired upload of a key removes its bytes one by one.
LEMMA PurgeFileSafe ==
  ASSUME SafetyInv, NEW r \in Requests, PurgeFile(r)
  PROVE  Safe
<1> DEFINE me == req[r]
           u == me.u
<1>1. PICK f \in me.todo : /\ staged' = [staged EXCEPT ![u] = @ \ {f}]
                           /\ SetReq(r, [me EXCEPT !.todo = me.todo \ {f}])
  BY DEF PurgeFile
<1>2. me.pc = "purge" /\ u \in Uploads /\ me \in Reqs /\ UNCHANGED <<now, upload, receipt, pass>>
  BY Facts DEF PurgeFile, NamesItsWork
<1>3. upload[u].status # "absent" /\ Kept(upload[u], upload[u].key # NoKey) /\ me.t <= now
  BY <1>2, Facts DEF WriterSound
<1>4. ~(upload[u].status = "open" /\ upload[u].key = NoKey /\ upload[u].cleanup = NoTime)
  BY <1>3 DEF Kept
<1>5. OthersSound
  BY <1>1, <1>2, <1>4, BytesRemoved
<1>6. /\ ReqStill([me EXCEPT !.todo = me.todo \ {f}])
      /\ SameFence(req[r], [me EXCEPT !.todo = me.todo \ {f}])
  <2> DEFINE v == [me EXCEPT !.todo = me.todo \ {f}]
  <2>1. v.pc = "purge" /\ v.u = u /\ v.t = me.t /\ v.chunk = me.chunk /\ v.landed = me.landed
    BY <1>2 DEF Reqs
  <2> HIDE DEF v
  <2>2. ReqStill(v) /\ SameFence(req[r], v)
    BY <1>2, <1>3, <2>1 DEF ReqStill, SameFence, PreparationSound, WriterSound, HolderPcs
  <2> QED
    BY <2>2 DEF v
<1>7. \A x \in Uploads : Legal(upload[x], upload'[x], now)
  BY <1>2 DEF Legal
<1> QED
  BY <1>1, <1>2, <1>5, <1>6, <1>7, RequestSafe

\* A removed row is sound whatever is left in staging.
LEMMA RemovalStored ==
  ASSUME SafetyInv, TypeOK', NEW u \in Uploads, upload[u].status = "open", SetRow(u, RemovedRow),
         UNCHANGED <<now, staged>>
  PROVE  OthersSound /\ \A x \in Uploads : Legal(upload[x], upload'[x], now)
<1>1. upload'[u] = RemovedRow /\ \A x \in Uploads : x # u => upload'[x] = upload[x]
  BY DEF SetRow, SafetyInv, TypeOK
<1>2. Legal(upload[u], upload'[u], now)
  BY <1>1 DEF Legal, Removes
<1>3. RowSound(upload'[u], staged[u], now)
  BY <1>1, Facts DEF RowSound, RemovedRow, AbsentRow
<1>4. \A x \in Uploads : Legal(upload[x], upload'[x], now)
  BY <1>1, <1>2 DEF Legal
<1> QED
  BY <1>1, <1>2, <1>3, <1>4, RowStored

\* The conditional delete that ends a purge.
LEMMA PurgeRowSafe ==
  ASSUME SafetyInv, TypeOK', NEW r \in Requests, PurgeRow(r)
  PROVE  Safe
<1> DEFINE me == req[r]
           u == me.u
           v == [IdleReq EXCEPT !.pc = "reinsert", !.k = me.k]
<1>1. /\ u \in Uploads /\ SetReq(r, v) /\ UNCHANGED <<now, staged, receipt, pass>>
      /\ (upload[u].status = "open" /\ SetRow(u, RemovedRow)) \/ UNCHANGED upload
  BY Facts DEF PurgeRow, NamesItsWork, Reclaimable
<1>2. ReqStill(v) /\ SameFence(req[r], v)
  BY DEF ReqStill, SameFence, IdleReq, HolderPcs
<1> HIDE DEF v
<1>3. CASE UNCHANGED upload
  BY <1>1, <1>2, <1>3, StoresNothing
<1>4. CASE upload[u].status = "open" /\ SetRow(u, RemovedRow)
  BY <1>1, <1>2, <1>4, RemovalStored, RequestSafe
<1> QED
  BY <1>1, <1>3, <1>4

\* A row that goes on, with the request that wrote it.
LEMMA GoingOn ==
  ASSUME SafetyInv, TypeOK', NEW u \in Uploads, NEW new, SetRow(u, new),
         GoesOn(upload[u], new, now), RowSound(new, staged[u], now), UNCHANGED <<now, staged>>
  PROVE  /\ OthersSound /\ upload'[u] = new
         /\ \A x \in Uploads : Legal(upload[x], upload'[x], now)
<1>1. upload'[u] = new /\ \A x \in Uploads : x # u => upload'[x] = upload[x]
  BY DEF SetRow, SafetyInv, TypeOK
<1>2. \A x \in Uploads : Legal(upload[x], upload'[x], now)
  BY <1>1 DEF Legal
<1> QED
  BY <1>1, <1>2, RowStored

\* Content that the project holds already is marked uploaded and installed.
LEMMA ReuseFileSafe ==
  ASSUME SafetyInv, TypeOK', NEW r \in Requests, ReuseFile(r)
  PROVE  Safe
<1> DEFINE me == req[r]
           u == me.u
           row == upload[u]
           new(f) == [row EXCEPT !.uploaded = row.uploaded \cup {f},
                                 !.installed = row.installed \cup {f}]
           v(f) == [me EXCEPT !.todo = me.todo \ {f}]
<1>1. me.pc = "reuse" /\ me \in Reqs /\ u \in Uploads /\ row \in Rows
  BY Facts DEF ReuseFile, NamesItsWork
<1>2. RowSound(row, staged[u], now) /\ WriterSound(me, row, staged[u], now)
  BY <1>1, Facts
<1>3. PICK f \in me.todo :
        /\ SetReq(r, v(f)) /\ UNCHANGED <<now, staged, receipt, pass>>
        /\ (row.status = "open" /\ SetRow(u, new(f))) \/ UNCHANGED upload
  BY DEF ReuseFile, Accepting
<1>4. v(f).pc = "reuse" /\ v(f).u = u
  BY <1>1 DEF Reqs
<1> HIDE DEF v
<1>5. SameFence(req[r], v(f))
  BY <1>4 DEF SameFence, HolderPcs
<1>6. ASSUME upload'[u].status # "absent"
      PROVE  ReqStill(v(f))
  BY <1>4, <1>6 DEF ReqStill, PreparationSound, WriterSound, HolderPcs
<1>7. CASE UNCHANGED upload
  <2>1. ReqStill(v(f))
    BY <1>1, <1>2, <1>6, <1>7 DEF WriterSound
  <2> QED
    BY <1>3, <1>5, <1>7, <2>1, StoresNothing
<1>8. CASE row.status = "open" /\ SetRow(u, new(f))
  <2>1. GoesOn(row, new(f), now)
    BY <1>1, <1>8 DEF GoesOn, Rows
  <2>2. RowSound(new(f), staged[u], now)
    BY <1>1, <1>2, <1>8 DEF RowSound, LeaseOver, Rows
  <2>3. new(f).status = "open"
    BY <1>1, <1>8 DEF Rows
  <2> HIDE DEF new
  <2>4. OthersSound /\ upload'[u] = new(f) /\ \A x \in Uploads : Legal(upload[x], upload'[x], now)
    BY <1>1, <1>3, <1>8, <2>1, <2>2, GoingOn
  <2>5. ReqStill(v(f))
    BY <1>6, <2>3, <2>4
  <2> QED
    BY <1>3, <1>5, <2>4, <2>5, RequestSafe
<1> QED
  BY <1>3, <1>7, <1>8

\* The end of a request.
LEMMA EndSafe ==
  ASSUME SafetyInv, NEW r \in Requests, SetReq(r, IdleReq),
         UNCHANGED <<now, upload, staged, receipt, pass>>
  PROVE  Safe
  BY KnowsNothing, StoresNothing

\* A put remembers the expiry that it saw.
LEMMA PutStartSafe ==
  ASSUME SafetyInv, NEW r \in Requests, NEW u \in Uploads, NEW f \in Files, PutStart(r, u, f)
  PROVE  Safe
<1> DEFINE v == [IdleReq EXCEPT !.pc = "put", !.u = u, !.f = f, !.exp = upload[u].expires]
<1>1. /\ SetReq(r, v) /\ UNCHANGED <<now, upload, staged, receipt, pass>>
      /\ upload[u].status = "open" /\ f \in upload[u].files
  BY DEF PutStart, Accepting
<1>2. upload[u].expires \in Nat
  BY Facts, RowFields
<1>3. ReqStill(v) /\ SameFence(req[r], v)
  BY <1>1, <1>2 DEF ReqStill, SameFence, PreparationSound, WriterSound, IdleReq, HolderPcs, Kept
<1> HIDE DEF v
<1> QED
  BY <1>1, <1>3, StoresNothing

\* The bytes of a put land while the upload, as the put saw it, is live.
LEMMA PutBytesSafe ==
  ASSUME SafetyInv, NEW r \in Requests, PutBytes(r)
  PROVE  Safe
<1> DEFINE me == req[r]
           u == me.u
           row == upload[u]
           v == [me EXCEPT !.pc = "mark"]
<1>1. me.pc = "put" /\ me \in Reqs /\ u \in Uploads /\ row \in Rows /\ now \in Nat
  BY Facts DEF PutBytes, NamesItsWork
<1>2. RowSound(row, staged[u], now) /\ WriterSound(me, row, staged[u], now)
  BY <1>1, Facts
<1>3. /\ now <= me.exp /\ staged' = [staged EXCEPT ![u] = @ \cup {me.f}] /\ SetReq(r, v)
      /\ UNCHANGED <<now, upload, receipt, pass>>
  BY DEF PutBytes
<1>4. /\ staged'[u] = staged[u] \cup {me.f}
      /\ \A x \in Uploads : x # u => staged'[x] = staged[x]
  BY <1>1, <1>3 DEF SafetyInv, TypeOK
<1>5. row.expires \in Nat /\ me.exp \in Nat
  BY <1>1, RowFields, ReqFields
<1>6. row.status # "absent" /\ (row.status # "removed" => now <= row.expires /\ me.f \in row.files)
  BY <1>1, <1>2, <1>3, <1>5 DEF WriterSound, Kept
<1>7. row.status \in {"open", "committed"} => now <= row.expires
  BY <1>6
<1>8. RowSound(row, staged[u] \cup {me.f}, now)
  <2>1. row.swept = {} /\ ~row.cleaned
    BY <1>1, <1>2, <1>5, <1>6 DEF RowSound
  <2> QED
    BY <1>1, <1>2, <1>6, <2>1, RowFields DEF RowSound
<1>9. /\ \A q \in Reqs : WriterSound(q, row, staged[u], now) => WriterSound(q, row, staged'[u], now)
      /\ \A p \in Passes : PassSound(p, row, staged[u], now) => PassSound(p, row, staged'[u], now)
  <2> DEFINE bytes == staged[u]
             f == me.f
  <2>1. /\ \A q \in Reqs : WriterSound(q, row, bytes, now) => WriterSound(q, row, bytes \cup {f}, now)
        /\ \A p \in Passes : PassSound(p, row, bytes, now) => PassSound(p, row, bytes \cup {f}, now)
    <3> HIDE DEF row, bytes, f
    <3> QED
      BY <1>1, <1>7, ByteAdded
  <2> QED
    BY <1>4, <2>1
<1>10. OthersSound
  BY <1>1, <1>3, <1>4, <1>8, <1>9, BytesStored
<1>11. v.pc = "mark" /\ v.u = u /\ v.f = me.f
  BY <1>1 DEF Reqs
<1> HIDE DEF v
<1>12. ReqStill(v) /\ SameFence(req[r], v)
  BY <1>3, <1>4, <1>6, <1>11 DEF ReqStill, SameFence, PreparationSound, WriterSound, HolderPcs
<1>13. \A x \in Uploads : Legal(upload[x], upload'[x], now)
  BY <1>3 DEF Legal
<1> QED
  BY <1>3, <1>10, <1>12, <1>13, RequestSafe

\* The file is marked uploaded while its bytes are still there.
LEMMA PutMarkSafe ==
  ASSUME SafetyInv, TypeOK', NEW r \in Requests, PutMark(r)
  PROVE  Safe
<1> DEFINE me == req[r]
           u == me.u
           row == upload[u]
           new == [row EXCEPT !.uploaded = row.uploaded \cup {me.f}]
<1>1. me.pc = "mark" /\ me \in Reqs /\ u \in Uploads /\ row \in Rows
  BY Facts DEF PutMark, NamesItsWork
<1>2. RowSound(row, staged[u], now) /\ WriterSound(me, row, staged[u], now)
  BY <1>1, Facts
<1>3. /\ row.status = "open" /\ SetRow(u, new) /\ SetReq(r, IdleReq)
      /\ UNCHANGED <<now, staged, receipt, pass>>
  BY DEF PutMark, Accepting
<1>4. GoesOn(row, new, now)
  BY <1>1, <1>3 DEF GoesOn, Rows
<1>5. RowSound(new, staged[u], now)
  BY <1>1, <1>2, <1>3 DEF RowSound, WriterSound, LeaseOver, Rows
<1> HIDE DEF new
<1>6. OthersSound /\ \A x \in Uploads : Legal(upload[x], upload'[x], now)
  BY <1>1, <1>3, <1>4, <1>5, GoingOn
<1> QED
  BY <1>3, <1>6, KnowsNothing, RequestSafe

-----------------------------------------------------------------------------
(* Preparation                                                             *)

\* commitUpload starts with nothing installed by itself.
LEMMA CommitStartSafe ==
  ASSUME SafetyInv, NEW r \in Requests, NEW u \in Uploads, NEW k \in Keys, CommitStart(r, u, k)
  PROVE  Safe
<1> DEFINE v == [IdleReq EXCEPT !.pc = "fetch", !.u = u, !.k = k, !.snap = upload[u].installed]
<1>1. /\ SetReq(r, v) /\ UNCHANGED <<now, upload, staged, receipt, pass>> /\ upload[u].status = "open"
  BY DEF CommitStart, ReadyToPrepare, Accepting
<1>2. v.pc = "fetch" /\ v.u = u /\ v.chunk = {} /\ v.landed = {}
  BY DEF IdleReq
<1> HIDE DEF v
<1>3. ReqStill(v) /\ SameFence(req[r], v)
  BY <1>1, <1>2 DEF ReqStill, SameFence, PreparationSound, WriterSound, HolderPcs
<1> QED
  BY <1>1, <1>3, StoresNothing

\* The work that a request in commitUpload stands on.
LEMMA AtWork ==
  ASSUME SafetyInv, NEW r \in Requests, req[r].pc \in CommitPcs
  PROVE  /\ req[r] \in Reqs /\ req[r].u \in Uploads /\ upload[req[r].u] \in Rows /\ now \in Nat
         /\ RowSound(upload[req[r].u], staged[req[r].u], now)
         /\ PreparationSound(req[r], upload[req[r].u])
         /\ WriterSound(req[r], upload[req[r].u], staged[req[r].u], now)
         /\ upload[req[r].u].status # "absent"
<1>1. req[r].pc \notin {"idle", "insert", "reinsert"}
  BY PcNames
<1>2. req[r] \in Reqs /\ req[r].u \in Uploads /\ now \in Nat
  BY <1>1, Facts DEF NamesItsWork
<1>3. WriterSound(req[r], upload[req[r].u], staged[req[r].u], now)
  BY <1>2, Facts
<1> QED
  BY <1>1, <1>2, <1>3, Facts DEF WriterSound

\* A pass without files left for the next one takes all that are not installed.
LEMMA PrepareFetchSafe ==
  ASSUME SafetyInv, NEW r \in Requests, PrepareFetch(r)
  PROVE  Safe
<1> DEFINE me == req[r]
           u == me.u
           row == upload[u]
           v1 == [me EXCEPT !.pc = "check"]
           v2 == [me EXCEPT !.pc = "claim", !.more = FilesLeft(row),
                            !.todo = FirstN(Files \ row.installed, FilesPerPass)]
<1>1. me.pc = "fetch" /\ (SetReq(r, v1) \/ SetReq(r, v2)) /\ UNCHANGED <<now, upload, staged, receipt, pass>>
  BY DEF PrepareFetch
<1>2. /\ me \in Reqs /\ u \in Uploads /\ row \in Rows /\ row.status # "absent"
      /\ PreparationSound(me, row)
  BY <1>1, AtWork DEF CommitPcs
<1>3. ReqStill(v1) /\ SameFence(req[r], v1)
  <2>1. v1.pc = "check" /\ v1.u = u
    BY <1>2 DEF Reqs
  <2> HIDE DEF v1
  <2> QED
    BY <1>1, <1>2, <2>1 DEF ReqStill, SameFence, PreparationSound, WriterSound, HolderPcs
<1>4. ReqStill(v2) /\ SameFence(req[r], v2)
  <2>1. /\ v2.pc = "claim" /\ v2.u = u /\ v2.chunk = me.chunk /\ v2.landed = me.landed
        /\ v2.more = FilesLeft(row) /\ v2.todo = FirstN(Files \ row.installed, FilesPerPass)
    BY <1>2 DEF Reqs
  <2> HIDE DEF v2
  <2>2. v2.chunk = {} /\ v2.landed = {}
    BY <1>1, <1>2, <2>1 DEF PreparationSound
  <2>3. ~v2.more => row.files \subseteq row.installed \cup v2.todo
    <3> DEFINE first == FirstN(Files \ row.installed, FilesPerPass)
    <3>1. SUFFICES ASSUME ~v2.more PROVE row.files \subseteq row.installed \cup first
      BY <2>1
    <3>2. ~FilesLeft(row)
      BY <2>1, <3>1, Zenon
    <3>3. Files \ row.installed = first
      BY <3>2 DEF FilesLeft
    <3>4. row.files \subseteq Files
      BY <1>2, RowFields
    <3> HIDE DEF first
    <3> QED
      BY <3>3, <3>4
  <2>4. PreparationSound(v2, row)
    BY <2>1, <2>2, <2>3 DEF PreparationSound, HolderPcs
  <2> QED
    BY <1>1, <1>2, <2>1, <2>4 DEF ReqStill, SameFence, WriterSound, HolderPcs
<1> HIDE DEF v1, v2
<1> QED
  BY <1>1, <1>3, <1>4, StoresNothing

\* A claim takes an attempt number above that of every request that still holds one.
LEMMA PrepareClaimSafe ==
  ASSUME SafetyInv, TypeOK', NEW r \in Requests, PrepareClaim(r)
  PROVE  Safe
<1> DEFINE me == req[r]
           u == me.u
           row == upload[u]
           new == [row EXCEPT !.prep = "claimed", !.attempts = NextAttempt(row), !.lease = now + Lease]
           pc == IF me.todo = {} THEN "entries" ELSE "chunk"
           v == [me EXCEPT !.pc = pc, !.att = NextAttempt(row), !.lease = now + Lease]
<1>1. /\ me.pc = "claim" /\ Claimable(row) /\ SetRow(u, new) /\ SetReq(r, v)
      /\ UNCHANGED <<now, staged, receipt, pass>>
  BY DEF PrepareClaim
<1>2. /\ me \in Reqs /\ u \in Uploads /\ row \in Rows /\ now \in Nat
      /\ RowSound(row, staged[u], now) /\ PreparationSound(me, row)
  BY <1>1, AtWork DEF CommitPcs
<1>3. row.status = "open" /\ row.cleanup = NoTime /\ row.prep # "prepared" /\ row.attempts \in Nat
  BY <1>1, <1>2, RowFields DEF Claimable
<1>4. /\ v.pc \in {"entries", "chunk"} /\ (me.todo # {} => v.pc = "chunk") /\ v.u = u
      /\ v.att = row.attempts + 1 /\ v.more = me.more
      /\ v.todo = me.todo /\ v.chunk = me.chunk /\ v.landed = me.landed
  BY <1>2 DEF Reqs, NextAttempt
<1>5. /\ new.status = "open" /\ new.attempts = row.attempts + 1 /\ new.files = row.files
      /\ new.installed = row.installed
  BY <1>2, <1>3 DEF Rows, NextAttempt
<1>6. GoesOn(row, new, now)
  BY <1>2, <1>3 DEF GoesOn, Rows, NextAttempt
<1>7. RowSound(new, staged[u], now)
  BY <1>2, <1>3 DEF RowSound, Rows
<1> HIDE DEF new, v
<1>8. /\ OthersSound /\ upload'[u] = new
      /\ \A x \in Uploads : Legal(upload[x], upload'[x], now)
  BY <1>1, <1>2, <1>6, <1>7, GoingOn
<1>9. ReqStill(v)
  <2>1. PreparationSound(v, new)
    BY <1>1, <1>2, <1>3, <1>4, <1>5 DEF PreparationSound, HolderPcs, Kept
  <2> QED
    BY <1>4, <1>5, <1>8, <2>1 DEF ReqStill, WriterSound
<1>10. req'[r] = v /\ \A x \in Requests : x # r => req'[x] = req[x]
  BY <1>1 DEF SetReq, SafetyInv, TypeOK
<1>11. RequestsSound' /\ PassesSound' /\ RowsSound'
  BY <1>1, <1>8, <1>9, <1>10 DEF OthersSound, RequestsSound, PassesSound, ReqStill, PassStill
<1>12. OneFenceHolder'
  <2>1. ASSUME NEW x \in Requests, x # r, Holds(x, u)
        PROVE  req[x].att # v.att
    <3>1. PreparationSound(req[x], row) /\ req[x].att \in Nat
      BY <1>2, <2>1, Facts, ReqFields DEF Holds
    <3>2. req[x].att <= row.attempts
      BY <1>3, <2>1, <3>1 DEF PreparationSound, Kept, Holds
    <3> QED
      BY <1>3, <1>4, <3>1, <3>2
  <2> QED
    BY <1>4, <1>10, <2>1 DEF SafetyInv, OneFenceHolder, Holds
<1>13. OnePublicationPerKey'
  BY <1>1, <1>8, LegalPublishes, PublicationsKept DEF SafetyInv
<1> QED
  BY <1>8, <1>11, <1>12, <1>13 DEF Safe, RowsMove

\* A request that goes on with its next files.
LEMMA NextChunkKnows ==
  ASSUME NEW q \in Reqs, q.pc \in {"chunk", "renew"}, NEW row \in Rows, PreparationSound(q, row),
         NEW v, v = NextChunk(q) \/ v = [NextChunk(q) EXCEPT !.lease = q.t + Lease],
         NEW new \in Rows, new.files = row.files, new.installed = row.installed,
         new.attempts = row.attempts, new.status = row.status
  PROVE  PreparationSound(v, new) /\ SameFence(q, v) /\ v.u = q.u /\ v.pc = "install"
<1> DEFINE chunk == FirstN(q.todo, InstallConcurrency)
<1>1. chunk \subseteq q.todo
  BY FirstNSubset
<1>2. NextChunk(q) = [q EXCEPT !.pc = "install", !.chunk = chunk, !.todo = q.todo \ chunk]
  BY DEF NextChunk
<1> DEFINE next == NextChunk(q)
<1>0. next \in Reqs /\ (v = next \/ v = [next EXCEPT !.lease = q.t + Lease])
  BY NextChunkTyped
<1> HIDE DEF chunk
<1>3. /\ next.pc = "install" /\ next.u = q.u /\ next.att = q.att /\ next.more = q.more
      /\ next.todo = q.todo \ chunk /\ next.chunk = chunk /\ next.landed = q.landed
  BY <1>2 DEF Reqs
<1> HIDE DEF next
<1>4. /\ v.pc = next.pc /\ v.u = next.u /\ v.att = next.att /\ v.more = next.more
      /\ v.todo = next.todo /\ v.chunk = next.chunk /\ v.landed = next.landed
  <2>1. next \in Reqs
    BY <1>0
  <2>2. CASE v = next
    BY <2>2
  <2>3. CASE v = [next EXCEPT !.lease = q.t + Lease]
    BY <2>1, <2>3 DEF Reqs
  <2> QED
    BY <1>0, <2>2, <2>3
<1> QED
  BY <1>1, <1>3, <1>4 DEF PreparationSound, SameFence, HolderPcs, Kept

\* The clock is read, and the lease may be renewed.
LEMMA PrepareChunkSafe ==
  ASSUME SafetyInv, TypeOK', NEW r \in Requests, PrepareChunk(r)
  PROVE  Safe
<1> DEFINE me == req[r]
           u == me.u
           row == upload[u]
           v == [me EXCEPT !.pc = "renew", !.t = now]
<1>1. /\ me.pc = "chunk" /\ UNCHANGED <<now, upload, staged, receipt, pass>>
      /\ SetReq(r, NextChunk(me)) \/ SetReq(r, v)
  BY DEF PrepareChunk
<1>2. /\ me \in Reqs /\ u \in Uploads /\ row \in Rows /\ row.status # "absent"
      /\ PreparationSound(me, row)
  BY <1>1, AtWork DEF CommitPcs, HolderPcs
<1>3. ReqStill(NextChunk(me)) /\ SameFence(me, NextChunk(me))
  <2>1. /\ PreparationSound(NextChunk(me), row) /\ SameFence(me, NextChunk(me))
        /\ NextChunk(me).u = u /\ NextChunk(me).pc = "install"
    BY <1>1, <1>2, NextChunkKnows
  <2> QED
    BY <1>1, <1>2, <2>1 DEF ReqStill, WriterSound
<1>4. ReqStill(v) /\ SameFence(me, v)
  <2>1. /\ v.pc = "renew" /\ v.u = u /\ v.att = me.att /\ v.more = me.more
        /\ v.todo = me.todo /\ v.chunk = me.chunk /\ v.landed = me.landed
    BY <1>2 DEF Reqs
  <2> HIDE DEF v
  <2> QED
    BY <1>1, <1>2, <2>1 DEF ReqStill, SameFence, PreparationSound, WriterSound, HolderPcs
<1> HIDE DEF v
<1> QED
  BY <1>1, <1>3, <1>4, StoresNothing

\* A renewal, however late, changes the lease only.
LEMMA PrepareRenewSafe ==
  ASSUME SafetyInv, TypeOK', NEW r \in Requests, PrepareRenew(r)
  PROVE  Safe
<1> DEFINE me == req[r]
           u == me.u
           row == upload[u]
           new == [row EXCEPT !.lease = me.t + Lease]
           v == [NextChunk(me) EXCEPT !.lease = me.t + Lease]
<1>1. /\ me.pc = "renew" /\ Fenced(me) /\ SetRow(u, new) /\ SetReq(r, v)
      /\ UNCHANGED <<now, staged, receipt, pass>>
  BY DEF PrepareRenew
<1>2. /\ me \in Reqs /\ u \in Uploads /\ row \in Rows /\ now \in Nat
      /\ RowSound(row, staged[u], now) /\ PreparationSound(me, row)
  BY <1>1, AtWork DEF CommitPcs, HolderPcs
<1>3. row.status = "open" /\ row.prep = "claimed"
  BY <1>1 DEF Fenced
<1>4. GoesOn(row, new, now)
  BY <1>2, <1>3 DEF GoesOn, Rows
<1>5. RowSound(new, staged[u], now)
  BY <1>2, <1>3 DEF RowSound, Rows
<1>6. /\ new.status = "open" /\ new.files = row.files /\ new.installed = row.installed
      /\ new.attempts = row.attempts
  BY <1>2, <1>3 DEF Rows
<1> HIDE DEF new
<1>7. OthersSound /\ upload'[u] = new /\ \A x \in Uploads : Legal(upload[x], upload'[x], now)
  BY <1>1, <1>2, <1>4, <1>5, GoingOn
<1>8. new \in Rows
  BY <1>2, <1>7 DEF TypeOK
<1>9. PreparationSound(v, new) /\ SameFence(me, v) /\ v.u = u /\ v.pc = "install"
  BY <1>1, <1>2, <1>3, <1>6, <1>8, NextChunkKnows
<1> HIDE DEF v
<1>10. ReqStill(v)
  BY <1>6, <1>7, <1>9 DEF ReqStill, WriterSound
<1> QED
  BY <1>1, <1>7, <1>9, <1>10, RequestSafe

\* A file that has landed is on its way to be recorded.
LEMMA PrepareInstallSafe ==
  ASSUME SafetyInv, NEW r \in Requests, PrepareInstall(r)
  PROVE  Safe
<1> DEFINE me == req[r]
           u == me.u
           row == upload[u]
           v(f) == [me EXCEPT !.chunk = me.chunk \ {f}, !.landed = me.landed \cup {f}]
<1>1. PICK f : me.pc = "install" /\ SetReq(r, v(f)) /\ UNCHANGED <<now, upload, staged, receipt, pass>>
  BY DEF PrepareInstall
<1>2. /\ me \in Reqs /\ u \in Uploads /\ row.status # "absent" /\ PreparationSound(me, row)
  BY <1>1, AtWork DEF CommitPcs, HolderPcs
<1>3. /\ v(f).pc = "install" /\ v(f).u = u /\ v(f).att = me.att /\ v(f).more = me.more
      /\ v(f).todo = me.todo /\ v(f).chunk = me.chunk \ {f} /\ v(f).landed = me.landed \cup {f}
  BY <1>1, <1>2 DEF Reqs
<1> HIDE DEF v
<1>4. PreparationSound(v(f), row)
  BY <1>1, <1>2, <1>3 DEF PreparationSound, HolderPcs
<1>5. ReqStill(v(f)) /\ SameFence(me, v(f))
  BY <1>1, <1>2, <1>3, <1>4 DEF ReqStill, SameFence, WriterSound
<1> QED
  BY <1>1, <1>5, StoresNothing

\* A recorded file moves from the memory of the request to the row.
LEMMA PrepareRecordSafe ==
  ASSUME SafetyInv, TypeOK', NEW r \in Requests, PrepareRecord(r)
  PROVE  Safe
<1> DEFINE me == req[r]
           u == me.u
           row == upload[u]
           new(f) == [row EXCEPT !.installed = row.installed \cup {f}]
           pc(f) == IF me.chunk # {} \/ me.landed # {f} THEN "install"
                    ELSE IF me.todo # {} THEN "chunk" ELSE "extend"
           v(f) == [me EXCEPT !.landed = me.landed \ {f}, !.pc = pc(f)]
<1>1. PICK f \in me.landed \cap row.files :
        /\ me.pc = "install" /\ Fenced(me) /\ SetRow(u, new(f)) /\ SetReq(r, v(f))
        /\ UNCHANGED <<now, staged, receipt, pass>>
  BY DEF PrepareRecord
<1>2. /\ me \in Reqs /\ u \in Uploads /\ row \in Rows /\ now \in Nat
      /\ RowSound(row, staged[u], now) /\ PreparationSound(me, row)
  BY <1>1, AtWork DEF CommitPcs, HolderPcs
<1>3. row.status = "open" /\ row.prep = "claimed"
  BY <1>1 DEF Fenced
<1>4. /\ v(f).pc = pc(f) /\ v(f).u = u /\ v(f).att = me.att /\ v(f).more = me.more
      /\ v(f).todo = me.todo /\ v(f).chunk = me.chunk /\ v(f).landed = me.landed \ {f}
  BY <1>1, <1>2 DEF Reqs
<1>5. /\ pc(f) \in {"install", "chunk", "extend"}
      /\ pc(f) # "install" => me.chunk = {} /\ me.landed = {f}
      /\ pc(f) = "extend" => me.todo = {}
  OBVIOUS
<1>6. /\ new(f).status = "open" /\ new(f).attempts = row.attempts /\ new(f).files = row.files
      /\ new(f).installed = row.installed \cup {f}
  BY <1>2, <1>3 DEF Rows
<1>7. GoesOn(row, new(f), now)
  BY <1>2, <1>3 DEF GoesOn, Rows
<1>8. RowSound(new(f), staged[u], now)
  BY <1>2, <1>3 DEF RowSound, LeaseOver, Rows
<1> HIDE DEF new, v, pc
<1>9. OthersSound /\ upload'[u] = new(f) /\ \A x \in Uploads : Legal(upload[x], upload'[x], now)
  BY <1>1, <1>2, <1>7, <1>8, GoingOn
<1>10. PreparationSound(v(f), new(f))
  BY <1>1, <1>2, <1>3, <1>4, <1>5, <1>6 DEF PreparationSound, HolderPcs, Kept
<1>11. ReqStill(v(f)) /\ SameFence(me, v(f))
  BY <1>1, <1>4, <1>5, <1>6, <1>9, <1>10 DEF ReqStill, SameFence, WriterSound, HolderPcs
<1> QED
  BY <1>1, <1>9, <1>11, RequestSafe

\* The refreshed expiry is later than the one before.
LEMMA PrepareExtendSafe ==
  ASSUME SafetyInv, TypeOK', NEW r \in Requests, PrepareExtend(r)
  PROVE  Safe
<1> DEFINE me == req[r]
           u == me.u
           row == upload[u]
           new == [row EXCEPT !.expires = now + Lifetime]
           v == [me EXCEPT !.pc = "entries"]
<1>1. /\ me.pc = "extend" /\ Fenced(me) /\ SetRow(u, new) /\ SetReq(r, v)
      /\ UNCHANGED <<now, staged, receipt, pass>>
  BY DEF PrepareExtend
<1>2. /\ me \in Reqs /\ u \in Uploads /\ row \in Rows /\ now \in Nat
      /\ RowSound(row, staged[u], now) /\ PreparationSound(me, row)
  BY <1>1, AtWork DEF CommitPcs, HolderPcs
<1>3. row.status = "open" /\ row.prep = "claimed"
  BY <1>1 DEF Fenced
<1>4. /\ v.pc = "entries" /\ v.u = u /\ v.att = me.att /\ v.more = me.more
      /\ v.todo = me.todo /\ v.chunk = me.chunk /\ v.landed = me.landed
  BY <1>2 DEF Reqs
<1>5. /\ new.status = "open" /\ new.attempts = row.attempts /\ new.files = row.files
      /\ new.installed = row.installed
  BY <1>2, <1>3 DEF Rows
<1>6. GoesOn(row, new, now)
  BY <1>2, <1>3 DEF GoesOn, RowSound, Rows
<1>7. RowSound(new, staged[u], now)
  BY <1>2, <1>3 DEF RowSound, LeaseOver, Rows
<1> HIDE DEF new, v
<1>8. OthersSound /\ upload'[u] = new /\ \A x \in Uploads : Legal(upload[x], upload'[x], now)
  BY <1>1, <1>2, <1>6, <1>7, GoingOn
<1>9. PreparationSound(v, new)
  BY <1>1, <1>2, <1>3, <1>4, <1>5 DEF PreparationSound, HolderPcs, Kept
<1>10. ReqStill(v) /\ SameFence(me, v)
  BY <1>1, <1>4, <1>5, <1>8, <1>9 DEF ReqStill, SameFence, WriterSound, HolderPcs
<1> QED
  BY <1>1, <1>8, <1>10, RequestSafe

\* A pass that leaves no file and no entry behind has written every entry.
LEMMA PrepareEntriesSafe ==
  ASSUME SafetyInv, TypeOK', NEW r \in Requests, PrepareEntries(r)
  PROVE  Safe
<1> DEFINE me == req[r]
           u == me.u
           row == upload[u]
           after == EntriesAfter(row)
           new == [row EXCEPT !.entries = after]
           more == (me.more \/ after # NumFiles)
           v == [me EXCEPT !.pc = "finish", !.more = more]
<1>1. /\ me.pc = "entries" /\ SetReq(r, v) /\ UNCHANGED <<now, staged, receipt, pass>>
      /\ \/ row.entries = NumFiles /\ UNCHANGED upload
         \/ Fenced(me) /\ SetRow(u, new)
  BY DEF PrepareEntries
<1>2. /\ me \in Reqs /\ u \in Uploads /\ row \in Rows /\ now \in Nat /\ row.status # "absent"
      /\ RowSound(row, staged[u], now) /\ PreparationSound(me, row)
  BY <1>1, AtWork DEF CommitPcs, HolderPcs
<1>3. after \in 0..NumFiles /\ after >= row.entries
  BY <1>2, RowFields DEF EntriesAfter
<1> HIDE DEF after
<1>4. /\ v.pc = "finish" /\ v.u = u /\ v.att = me.att
      /\ v.todo = me.todo /\ v.chunk = me.chunk /\ v.landed = me.landed /\ v.more = more
  BY <1>2 DEF Reqs
<1>5. ~v.more => ~me.more /\ after = NumFiles
  BY <1>4
<1> HIDE DEF v, more
<1>6. ASSUME NEW new2 \in Rows, new2.files = row.files, new2.installed = row.installed,
             new2.attempts = row.attempts, new2.status = row.status,
             ~v.more => new2.entries = NumFiles
      PROVE  PreparationSound(v, new2)
  BY <1>1, <1>2, <1>4, <1>5, <1>6 DEF PreparationSound, HolderPcs, Kept
<1>7. SameFence(me, v)
  BY <1>1, <1>4 DEF SameFence, HolderPcs
<1>8. CASE row.entries = NumFiles /\ UNCHANGED upload
  <2>1. PreparationSound(v, row)
    BY <1>2, <1>6, <1>8
  <2>2. ReqStill(v)
    BY <1>1, <1>2, <1>4, <1>8, <2>1 DEF ReqStill, WriterSound
  <2> QED
    BY <1>1, <1>7, <1>8, <2>2, StoresNothing
<1>9. CASE Fenced(me) /\ SetRow(u, new)
  <2>1. row.status = "open" /\ row.prep = "claimed"
    BY <1>9 DEF Fenced
  <2>2. GoesOn(row, new, now)
    BY <1>2, <1>3, <2>1 DEF GoesOn, Rows
  <2>3. RowSound(new, staged[u], now)
    BY <1>2, <2>1 DEF RowSound, LeaseOver, Rows
  <2>4. /\ new.status = "open" /\ new.files = row.files /\ new.installed = row.installed
        /\ new.attempts = row.attempts /\ new.entries = after
    BY <1>2, <2>1 DEF Rows
  <2> HIDE DEF new
  <2>5. OthersSound /\ upload'[u] = new /\ \A x \in Uploads : Legal(upload[x], upload'[x], now)
    BY <1>1, <1>2, <1>9, <2>2, <2>3, GoingOn
  <2>6. new \in Rows
    BY <1>2, <2>5 DEF TypeOK
  <2>7. PreparationSound(v, new)
    BY <1>5, <1>6, <2>1, <2>4, <2>6
  <2>8. ReqStill(v)
    BY <1>4, <2>4, <2>5, <2>7 DEF ReqStill, WriterSound
  <2> QED
    BY <1>1, <1>7, <2>5, <2>8, RequestSafe
<1> QED
  BY <1>1, <1>8, <1>9

\* An incomplete pass gives its claim back.
LEMMA PrepareReleaseSafe ==
  ASSUME SafetyInv, TypeOK', NEW r \in Requests, PrepareRelease(r)
  PROVE  Safe
<1> DEFINE me == req[r]
           u == me.u
           row == upload[u]
           new == [row EXCEPT !.prep = "none", !.lease = NoTime]
<1>1. /\ me.pc = "finish" /\ SetReq(r, IdleReq) /\ UNCHANGED <<now, staged, receipt, pass>>
      /\ (Fenced(me) /\ SetRow(u, new)) \/ UNCHANGED upload
  BY DEF PrepareRelease
<1>2. /\ u \in Uploads /\ row \in Rows /\ now \in Nat /\ RowSound(row, staged[u], now)
  BY <1>1, AtWork DEF CommitPcs, HolderPcs
<1>3. CASE UNCHANGED upload
  BY <1>1, <1>3, EndSafe
<1>4. CASE Fenced(me) /\ SetRow(u, new)
  <2>1. row.status = "open" /\ row.prep = "claimed"
    BY <1>4 DEF Fenced
  <2>2. GoesOn(row, new, now)
    BY <1>2, <2>1 DEF GoesOn, Rows
  <2>3. RowSound(new, staged[u], now)
    BY <1>2, <2>1 DEF RowSound, LeaseOver, Rows
  <2> HIDE DEF new
  <2> QED
    BY <1>1, <1>2, <1>4, <2>2, <2>3, GoingOn, KnowsNothing, RequestSafe
<1> QED
  BY <1>1, <1>3, <1>4

\* A finished pass with nothing left has installed every file and written every entry.
LEMMA PrepareMarkSafe ==
  ASSUME SafetyInv, TypeOK', NEW r \in Requests, PrepareMark(r)
  PROVE  Safe
<1> DEFINE me == req[r]
           u == me.u
           row == upload[u]
           new == [row EXCEPT !.prep = "prepared"]
           v == [me EXCEPT !.pc = "check"]
<1>1. /\ me.pc = "finish" /\ ~me.more /\ Fenced(me) /\ SetRow(u, new) /\ SetReq(r, v)
      /\ UNCHANGED <<now, staged, receipt, pass>>
  BY DEF PrepareMark
<1>2. /\ me \in Reqs /\ u \in Uploads /\ row \in Rows /\ now \in Nat
      /\ RowSound(row, staged[u], now) /\ PreparationSound(me, row)
  BY <1>1, AtWork DEF CommitPcs, HolderPcs
<1>3. row.status = "open" /\ row.prep = "claimed"
  BY <1>1 DEF Fenced
<1>4. row.files \subseteq row.installed /\ row.entries = NumFiles
  BY <1>1, <1>2, <1>3 DEF PreparationSound, HolderPcs, Kept
<1>5. v.pc = "check" /\ v.u = u
  BY <1>2 DEF Reqs
<1>6. GoesOn(row, new, now)
  BY <1>2, <1>3 DEF GoesOn, Rows
<1>7. RowSound(new, staged[u], now) /\ new.status = "open"
  BY <1>2, <1>3, <1>4 DEF RowSound, LeaseOver, Rows
<1> HIDE DEF new, v
<1>8. OthersSound /\ upload'[u] = new /\ \A x \in Uploads : Legal(upload[x], upload'[x], now)
  BY <1>1, <1>2, <1>6, <1>7, GoingOn
<1>9. ReqStill(v) /\ SameFence(me, v)
  BY <1>5, <1>7, <1>8 DEF ReqStill, SameFence, PreparationSound, WriterSound, HolderPcs
<1> QED
  BY <1>1, <1>8, <1>9, RequestSafe

-----------------------------------------------------------------------------
(* Publication                                                             *)

\* The check before any byte is stored.
LEMMA PublishCheckSafe ==
  ASSUME SafetyInv, NEW r \in Requests, PublishCheck(r)
  PROVE  Safe
<1> DEFINE me == req[r]
           v == [me EXCEPT !.pc = "store", !.todo = Files \ me.snap]
<1>1. /\ me.pc = "check" /\ UNCHANGED <<now, upload, staged, receipt, pass>>
      /\ SetReq(r, IdleReq) \/ SetReq(r, v)
  BY DEF PublishCheck
<1>2. me \in Reqs /\ me.u \in Uploads /\ upload[me.u].status # "absent"
  BY <1>1, AtWork DEF CommitPcs
<1>3. v.pc = "store" /\ v.u = me.u
  BY <1>2 DEF Reqs
<1> HIDE DEF v
<1>4. ReqStill(v) /\ SameFence(me, v)
  BY <1>1, <1>2, <1>3 DEF ReqStill, SameFence, PreparationSound, WriterSound, HolderPcs
<1> QED
  BY <1>1, <1>4, EndSafe, StoresNothing

\* storeFiles.
LEMMA PublishStoreSafe ==
  ASSUME SafetyInv, NEW r \in Requests, PublishStore(r)
  PROVE  Safe
<1> DEFINE me == req[r]
           v(f) == [me EXCEPT !.todo = me.todo \ {f}]
<1>1. PICK f : me.pc = "store" /\ UNCHANGED <<now, upload, staged, receipt, pass>> /\ SetReq(r, v(f))
  BY DEF PublishStore
<1>2. me \in Reqs /\ me.u \in Uploads /\ upload[me.u].status # "absent"
  BY <1>1, AtWork DEF CommitPcs
<1>3. v(f).pc = "store" /\ v(f).u = me.u
  BY <1>1, <1>2 DEF Reqs
<1> HIDE DEF v
<1>4. ReqStill(v(f)) /\ SameFence(me, v(f))
  BY <1>1, <1>2, <1>3 DEF ReqStill, SameFence, PreparationSound, WriterSound, HolderPcs
<1> QED
  BY <1>1, <1>4, StoresNothing

\* The commit seals an open upload under a key that has no receipt yet.
LEMMA PublishCommitSafe ==
  ASSUME SafetyInv, TypeOK', NEW r \in Requests, PublishCommit(r)
  PROVE  Safe
<1> DEFINE me == req[r]
           u == me.u
           k == me.k
           row == upload[u]
           new == Seal(row)
<1>1. /\ me.pc = "store" /\ SetReq(r, IdleReq) /\ UNCHANGED <<now, staged, pass>>
      /\ \/ UNCHANGED <<upload, receipt>>
         \/ receipt[k] = NoUpload /\ row.status = "open" /\ WriteReceipt(k, u) /\ SetRow(u, new)
  BY DEF PublishCommit, Replays, SourceReady, Accepting
<1>2. /\ me \in Reqs /\ u \in Uploads /\ row \in Rows /\ RowSound(row, staged[u], now)
  BY <1>1, AtWork DEF CommitPcs
<1>3. k \in Keys
  BY <1>1, Facts DEF NamesItsWork, CommitPcs
<1>4. CASE UNCHANGED <<upload, receipt>>
  BY <1>1, <1>4, EndSafe
<1>5. CASE receipt[k] = NoUpload /\ row.status = "open" /\ WriteReceipt(k, u) /\ SetRow(u, new)
  <2>1. upload'[u] = new /\ \A x \in Uploads : x # u => upload'[x] = upload[x]
    BY <1>2, <1>5 DEF SetRow, SafetyInv, TypeOK
  <2>2. Seals(row, upload'[u]) /\ new.status = "committed"
    BY <1>2, <1>5, <2>1 DEF Seals, Seal, Rows
  <2>3. RowSound(upload'[u], staged[u], now)
    BY <1>2, <1>5, <2>1 DEF RowSound, Seal, Rows
  <2>4. OthersSound
    BY <1>1, <1>2, <2>1, <2>2, <2>3, RowStored
  <2>5. req'[r] = IdleReq /\ \A x \in Requests : x # r => req'[x] = req[x]
    BY <1>1 DEF SetReq, SafetyInv, TypeOK
  <2>6. RequestsSound' /\ PassesSound' /\ RowsSound'
    BY <1>1, <2>4, <2>5, KnowsNothing DEF OthersSound, RequestsSound, PassesSound, ReqStill, PassStill
  <2>7. OneFenceHolder'
    BY <2>5 DEF SafetyInv, OneFenceHolder, Holds, IdleReq, HolderPcs
  <2>8. receipt'[k] = u /\ \A j \in Keys : j # k => receipt'[j] = receipt[j]
    BY <1>3, <1>5 DEF WriteReceipt, SafetyInv, TypeOK
  <2>9. \A j \in Keys : receipt[j] \in Uploads \cup {NoUpload} /\ receipt[j] # u
    BY <1>2, <1>5 DEF SafetyInv, TypeOK, OnePublicationPerKey
  <2>10. OnePublicationPerKey'
    <3>1. ASSUME NEW j \in Keys, receipt'[j] # NoUpload
          PROVE  upload'[receipt'[j]].status = "committed"
      <4>1. CASE j = k
        BY <2>1, <2>2, <2>8, <4>1
      <4>2. CASE j # k
        <5>1. receipt'[j] = receipt[j] /\ receipt[j] \in Uploads /\ receipt[j] # u
          BY <2>8, <2>9, <3>1, <4>2
        <5> QED
          BY <2>1, <5>1 DEF SafetyInv, OnePublicationPerKey
      <4> QED
        BY <4>1, <4>2
    <3>2. ASSUME NEW i \in Keys, NEW j \in Keys, receipt'[i] = receipt'[j], receipt'[i] # NoUpload
          PROVE  i = j
      BY <2>8, <2>9, <3>2 DEF SafetyInv, OnePublicationPerKey
    <3>3. ASSUME NEW x \in Uploads, upload'[x].status = "committed"
          PROVE  \E j \in Keys : receipt'[j] = x
      <4>1. CASE x = u
        BY <1>3, <2>8, <4>1
      <4>2. CASE x # u
        <5>1. PICK j \in Keys : receipt[j] = x
          BY <2>1, <3>3, <4>2 DEF SafetyInv, OnePublicationPerKey
        <5>2. j # k
          BY <1>5, <5>1
        <5> QED
          BY <2>8, <5>1, <5>2
      <4> QED
        BY <4>1, <4>2
    <3> QED
      BY <3>1, <3>2, <3>3 DEF OnePublicationPerKey
  <2>11. RowsMove
    BY <2>1, <2>2 DEF RowsMove, Legal
  <2> QED
    BY <2>6, <2>7, <2>10, <2>11 DEF Safe
<1> QED
  BY <1>1, <1>4, <1>5

\* Every step of a request is safe.
LEMMA RequestStepSafe ==
  ASSUME SafetyInv, TypeOK', NEW r \in Requests, RequestStep(r) \/ Fail(r)
  PROVE  Safe
<1>1. CASE CreateStep(r)
  <2>1. CASE CreateDone(r)
    BY <2>1, EndSafe DEF CreateDone
  <2> QED
    BY <1>1, <2>1, InsertSafe, CreateReadSafe, PurgeFileSafe, PurgeRowSafe, CreateRacedSafe,
       ReuseFileSafe DEF CreateStep
<1>2. CASE PutStep(r)
  BY <1>2, PutStartSafe, PutBytesSafe, PutMarkSafe DEF PutStep
<1>3. CASE CommitStep(r)
  BY <1>3, CommitStartSafe, PrepareFetchSafe, PrepareClaimSafe, PrepareChunkSafe, PrepareRenewSafe,
     PrepareInstallSafe, PrepareRecordSafe, PrepareExtendSafe, PrepareEntriesSafe, PrepareReleaseSafe, PrepareMarkSafe,
     PublishCheckSafe, PublishStoreSafe, PublishCommitSafe DEF CommitStep
<1>4. CASE Fail(r)
  BY <1>4, EndSafe DEF Fail
<1> QED
  BY <1>1, <1>2, <1>3, <1>4 DEF RequestStep

-----------------------------------------------------------------------------
(* The cleanup passes                                                      *)

\* The work that a pass stands on.
LEMMA PassAtWork ==
  ASSUME SafetyInv, NEW c \in Cleaners, pass[c].pc # "idle"
  PROVE  /\ pass[c] \in Passes /\ pass[c].u \in Uploads /\ upload[pass[c].u] \in Rows
         /\ now \in Nat /\ pass[c].t \in Nat /\ pass[c].t <= now /\ pass[c].t - Settle >= 0
         /\ RowSound(upload[pass[c].u], staged[pass[c].u], now)
         /\ PassSound(pass[c], upload[pass[c].u], staged[pass[c].u], now)
<1>1. pass[c] \in Passes /\ pass[c].u \in Uploads /\ now \in Nat
  BY Facts DEF PassNamesItsWork
<1>2. PassSound(pass[c], upload[pass[c].u], staged[pass[c].u], now)
  BY <1>1, Facts
<1> QED
  BY <1>1, <1>2, Facts, PassFields DEF PassSound

\* A pass that writes nothing.
LEMMA PassStoresNothing ==
  ASSUME SafetyInv, NEW c \in Cleaners, NEW v, SetPass(c, v),
         UNCHANGED <<now, upload, staged, receipt, req>>, PassStill(v)
  PROVE  Safe
<1>1. OthersSound
  BY NothingStored
<1>2. \A x \in Uploads : Legal(upload[x], upload'[x], now)
  BY DEF Legal
<1> QED
  BY <1>1, <1>2, PassSafe

\* The end of a pass.
LEMMA PassEndSafe ==
  ASSUME SafetyInv, NEW c \in Cleaners, SetPass(c, IdlePass),
         UNCHANGED <<now, upload, staged, receipt, req>>
  PROVE  Safe
  BY KnowsNothing, PassStoresNothing

\* A pass selects uploads that have settled.
LEMMA SelectSafe ==
  ASSUME SafetyInv, NEW c \in Cleaners, NEW u \in Uploads, CleanSelect(c, u) \/ SweepSelect(c, u)
  PROVE  Safe
<1>1. upload[u] \in Rows /\ upload[u].expires \in Nat /\ now \in Nat
  BY Facts, RowFields
<1>2. CASE CleanSelect(c, u)
  <2> DEFINE v == [IdlePass EXCEPT !.pc = CleanEntry, !.u = u, !.t = now, !.todo = upload[u].files]
  <2>1. /\ SetPass(c, v) /\ UNCHANGED <<now, upload, staged, receipt, req>>
        /\ upload[u].status = "open" /\ upload[u].expires <= now - Settle
    BY <1>2 DEF CleanSelect, Reclaimable
  <2>2. v.pc = "claim" /\ v.u = u /\ v.t = now
    BY DEF IdlePass, CleanEntry
  <2> HIDE DEF v
  <2>3. PassStill(v)
    BY <1>1, <2>1, <2>2 DEF PassStill, PassSound, CleanPcs, SweepPcs
  <2> QED
    BY <2>1, <2>3, PassStoresNothing
<1>3. CASE SweepSelect(c, u)
  <2> DEFINE v == [IdlePass EXCEPT !.pc = "sclaim", !.u = u, !.t = now,
                                   !.todo = upload[u].files \ upload[u].swept]
  <2>1. /\ SetPass(c, v) /\ UNCHANGED <<now, upload, staged, receipt, req>>
        /\ upload[u].status = "committed" /\ upload[u].expires <= now - Settle
    BY <1>3 DEF SweepSelect, Sweepable
  <2>2. v.pc = "sclaim" /\ v.u = u /\ v.t = now
    BY DEF IdlePass
  <2> HIDE DEF v
  <2>3. PassStill(v)
    BY <1>1, <2>1, <2>2 DEF PassStill, PassSound, CleanPcs, SweepPcs
  <2> QED
    BY <2>1, <2>3, PassStoresNothing
<1> QED
  BY <1>2, <1>3

\* A stamp finds every lease over; it stays until the upload is removed or sealed.
LEMMA CleanClaimSafe ==
  ASSUME SafetyInv, TypeOK', NEW c \in Cleaners, CleanClaim(c)
  PROVE  Safe
<1> DEFINE me == pass[c]
           u == me.u
           row == upload[u]
           new == [row EXCEPT !.cleanup = me.t]
           v == [me EXCEPT !.pc = "bytes"]
<1>1. /\ me.pc = "claim" /\ UNCHANGED <<now, staged, receipt, req>>
      /\ \/ Reclaimable(row, me.t - Settle, me.t) /\ SetRow(u, new) /\ SetPass(c, v)
         \/ SetPass(c, IdlePass) /\ UNCHANGED upload
  BY DEF CleanClaim
<1>2. /\ me \in Passes /\ u \in Uploads /\ row \in Rows /\ now \in Nat /\ me.t \in Nat
      /\ me.t <= now /\ me.t - Settle >= 0 /\ RowSound(row, staged[u], now)
  BY <1>1, PassAtWork
<1>3. CASE SetPass(c, IdlePass) /\ UNCHANGED upload
  BY <1>1, <1>3, PassEndSafe
<1>4. CASE Reclaimable(row, me.t - Settle, me.t) /\ SetRow(u, new) /\ SetPass(c, v)
  <2>1. row.status = "open" /\ LeaseOver(row, me.t)
    BY <1>4 DEF Reclaimable
  <2>2. LeaseOver(row, now)
    BY <1>2, <2>1, RowFields DEF LeaseOver, Times, NoTime
  <2>3. /\ new.status = "open" /\ new.cleanup = me.t /\ new.cleanup # NoTime /\ new.lease = row.lease
        /\ new.expires = row.expires
    BY <1>2, <2>1 DEF Rows, NoTime
  <2>4. GoesOn(row, new, now)
    BY <1>2, <2>1, <2>3 DEF GoesOn, Rows
  <2>5. RowSound(new, staged[u], now)
    BY <1>2, <2>1, <2>2, <2>3 DEF RowSound, LeaseOver, Rows
  <2>6. v.pc = "bytes" /\ v.u = u /\ v.t = me.t
    BY <1>2 DEF Passes
  <2> HIDE DEF new, v
  <2>7. OthersSound /\ upload'[u] = new /\ \A x \in Uploads : Legal(upload[x], upload'[x], now)
    BY <1>1, <1>2, <1>4, <2>4, <2>5, GoingOn
  <2>8. PassStill(v)
    BY <1>1, <1>2, <2>3, <2>6, <2>7 DEF PassStill, PassSound, CleanPcs, SweepPcs
  <2> QED
    BY <1>1, <1>4, <2>7, <2>8, PassSafe
<1> QED
  BY <1>1, <1>3, <1>4

\* Bytes of a stamped upload go.
LEMMA CleanBytesSafe ==
  ASSUME SafetyInv, NEW c \in Cleaners, CleanBytes(c)
  PROVE  Safe
<1> DEFINE me == pass[c]
           u == me.u
           row == upload[u]
           v(f) == [me EXCEPT !.pc = "row", !.f = f, !.todo = me.todo \ {f}]
<1>1. PICK f \in me.todo : /\ me.pc = "bytes" /\ staged' = [staged EXCEPT ![u] = @ \ {f}]
                           /\ SetPass(c, v(f)) /\ UNCHANGED <<now, upload, receipt, req>>
  BY DEF CleanBytes
<1>2. /\ me \in Passes /\ u \in Uploads /\ row \in Rows /\ now \in Nat /\ me.t \in Nat
      /\ me.t <= now /\ me.t - Settle >= 0 /\ PassSound(me, row, staged[u], now)
  BY <1>1, PassAtWork
<1>3. row.status # "absent" /\ (row.status = "open" => row.cleanup # NoTime)
  BY <1>1, <1>2 DEF PassSound, CleanPcs
<1>4. OthersSound /\ staged'[u] = staged[u] \ {f}
  BY <1>1, <1>2, <1>3, BytesRemoved
<1>5. v(f).pc = "row" /\ v(f).u = u /\ v(f).t = me.t /\ v(f).f = f
  BY <1>2 DEF Passes
<1> HIDE DEF v
<1>6. PassStill(v(f))
  BY <1>1, <1>2, <1>3, <1>4, <1>5 DEF PassStill, PassSound, CleanPcs, SweepPcs
<1>7. \A x \in Uploads : Legal(upload[x], upload'[x], now)
  BY <1>1 DEF Legal
<1> QED
  BY <1>1, <1>4, <1>6, <1>7, PassSafe

\* The row of a file goes after its bytes, and no put can bring them back.
LEMMA CleanRowSafe ==
  ASSUME SafetyInv, TypeOK', NEW c \in Cleaners, CleanRow(c)
  PROVE  Safe
<1> DEFINE me == pass[c]
           u == me.u
           row == upload[u]
           new == [row EXCEPT !.files = row.files \ {me.f}, !.uploaded = row.uploaded \ {me.f},
                              !.installed = row.installed \ {me.f}]
           v == [me EXCEPT !.pc = "bytes", !.f = NoFile]
<1>1. /\ me.pc = "row" /\ UNCHANGED <<now, staged, receipt, req>> /\ SetPass(c, v)
      /\ \/ Reclaimable(row, me.t - Settle, me.t) /\ SetRow(u, new)
         \/ UNCHANGED upload
  BY DEF CleanRow
<1>2. /\ me \in Passes /\ u \in Uploads /\ row \in Rows /\ now \in Nat /\ me.t \in Nat
      /\ me.t <= now /\ me.t - Settle >= 0
      /\ RowSound(row, staged[u], now) /\ PassSound(me, row, staged[u], now)
  BY <1>1, PassAtWork
<1>3. row.status # "absent" /\ (row.status = "open" => row.cleanup # NoTime)
  BY <1>1, <1>2 DEF PassSound, CleanPcs
<1>4. v.pc = "bytes" /\ v.u = u /\ v.t = me.t
  BY <1>2 DEF Passes
<1>5. ASSUME NEW new2, new2.status # "absent", new2.status = "open" => new2.cleanup # NoTime
      PROVE  PassSound(v, new2, staged[u], now)
  <2> HIDE DEF v
  <2> QED
    BY <1>2, <1>4, <1>5 DEF PassSound, CleanPcs, SweepPcs
<1> HIDE DEF v
<1>6. CASE UNCHANGED upload
  <2>1. PassStill(v)
    BY <1>1, <1>3, <1>4, <1>5, <1>6 DEF PassStill
  <2> QED
    BY <1>1, <1>6, <2>1, PassStoresNothing
<1>7. CASE Reclaimable(row, me.t - Settle, me.t) /\ SetRow(u, new)
  <2>1. row.status = "open" /\ row.expires <= me.t - Settle /\ row.expires \in Nat
    BY <1>2, <1>7, RowFields DEF Reclaimable
  <2>2. row.expires < now /\ me.f \notin staged[u]
    BY <1>1, <1>2, <2>1 DEF PassSound
  <2>3. GoesOn(row, new, now)
    BY <1>2, <1>3, <2>1, <2>2 DEF GoesOn, Rows
  <2>4. RowSound(new, staged[u], now)
    BY <1>2, <1>3, <2>1, <2>2 DEF RowSound, LeaseOver, Rows
  <2>5. new.status = "open" /\ new.cleanup # NoTime
    BY <1>2, <1>3, <2>1 DEF Rows
  <2> HIDE DEF new
  <2>6. OthersSound /\ upload'[u] = new /\ \A x \in Uploads : Legal(upload[x], upload'[x], now)
    BY <1>1, <1>2, <1>7, <2>3, <2>4, GoingOn
  <2>7. PassStill(v)
    BY <1>1, <1>4, <1>5, <2>5, <2>6 DEF PassStill
  <2> QED
    BY <1>1, <2>6, <2>7, PassSafe
<1> QED
  BY <1>1, <1>6, <1>7

\* The conditional delete that ends a cleanup.
LEMMA CleanUploadSafe ==
  ASSUME SafetyInv, TypeOK', NEW c \in Cleaners, CleanUpload(c)
  PROVE  Safe
<1> DEFINE u == pass[c].u
<1>1. /\ pass[c].pc = "bytes" /\ SetPass(c, IdlePass) /\ UNCHANGED <<now, staged, receipt, req>>
      /\ (upload[u].status = "open" /\ SetRow(u, RemovedRow)) \/ UNCHANGED upload
  BY DEF CleanUpload, Reclaimable
<1>2. u \in Uploads
  BY <1>1, PassAtWork
<1>3. CASE UNCHANGED upload
  BY <1>1, <1>3, PassEndSafe
<1>4. CASE upload[u].status = "open" /\ SetRow(u, RemovedRow)
  BY <1>1, <1>2, <1>4, RemovalStored, KnowsNothing, PassSafe
<1> QED
  BY <1>1, <1>3, <1>4

\* The release of a stamp back-dates it.
LEMMA ReleaseSafe ==
  ASSUME SafetyInv, TypeOK', NEW c \in Cleaners, NEW st \in {"open", "committed"},
         pass[c].pc # "idle", ReleaseStamp(pass[c], st), SetPass(c, IdlePass),
         UNCHANGED <<now, staged, receipt, req>>
  PROVE  Safe
<1> DEFINE me == pass[c]
           u == me.u
           row == upload[u]
           new == [row EXCEPT !.cleanup = me.t - Settle]
<1>1. (row.status = st /\ row.cleanup = me.t /\ SetRow(u, new)) \/ UNCHANGED upload
  BY DEF ReleaseStamp
<1>2. /\ me \in Passes /\ u \in Uploads /\ row \in Rows /\ now \in Nat /\ me.t \in Nat
      /\ me.t - Settle >= 0 /\ RowSound(row, staged[u], now)
  BY PassAtWork
<1>3. CASE UNCHANGED upload
  BY <1>3, PassEndSafe
<1>4. CASE row.status = st /\ row.cleanup = me.t /\ SetRow(u, new)
  <2>1. row.cleanup # NoTime /\ new.cleanup # NoTime
    BY <1>2, <1>4 DEF Rows, NoTime
  <2>2. GoesOn(row, new, now)
    BY <1>2, <1>4, <2>1 DEF GoesOn, Rows
  <2>3. RowSound(new, staged[u], now)
    BY <1>2, <1>4, <2>1 DEF RowSound, LeaseOver, Rows
  <2> HIDE DEF new
  <2> QED
    BY <1>2, <1>4, <2>2, <2>3, GoingOn, KnowsNothing, PassSafe
<1> QED
  BY <1>1, <1>3, <1>4

\* The sweep of a sealed upload stamps it, removes bytes, and marks files and upload.
LEMMA SweepSafe ==
  ASSUME SafetyInv, TypeOK', NEW c \in Cleaners,
         SweepClaim(c) \/ SweepBytes(c) \/ SweepMark(c) \/ SweepComplete(c)
  PROVE  Safe
<1> DEFINE me == pass[c]
           u == me.u
           row == upload[u]
<1>1. me.pc \in SweepPcs /\ me.pc # "idle"
  BY DEF SweepClaim, SweepBytes, SweepMark, SweepComplete, SweepPcs
<1>2. /\ me \in Passes /\ u \in Uploads /\ row \in Rows /\ now \in Nat /\ me.t \in Nat
      /\ me.t <= now /\ me.t - Settle >= 0
      /\ RowSound(row, staged[u], now) /\ PassSound(me, row, staged[u], now)
  BY <1>1, PassAtWork
<1>3. row.status = "committed" /\ row.expires <= me.t - Settle /\ row.expires \in Nat
  BY <1>1, <1>2, RowFields DEF PassSound
<1>4. row.expires < now
  BY <1>2, <1>3
<1>5. ASSUME NEW v, v.pc \in {"sbytes", "smark"}, v.u = u, v.t = me.t,
             upload'[u].status = "committed", upload'[u].expires = row.expires,
             now' = now, v.pc = "smark" => v.f \notin staged'[u]
      PROVE  PassStill(v)
  BY <1>2, <1>3, <1>5 DEF PassStill, PassSound, CleanPcs, SweepPcs
<1>6. ASSUME NEW new, new.status = "committed", new.expires = row.expires, SetRow(u, new),
             GoesOn(row, new, now), RowSound(new, staged[u], now),
             UNCHANGED <<now, staged, receipt, req>>, NEW v, SetPass(c, v),
             v = IdlePass \/ (v.pc = "sbytes" /\ v.u = u /\ v.t = me.t)
      PROVE  Safe
  <2>1. OthersSound /\ upload'[u] = new /\ \A x \in Uploads : Legal(upload[x], upload'[x], now)
    BY <1>2, <1>6, GoingOn
  <2>2. PassStill(v)
    BY <1>5, <1>6, <2>1, KnowsNothing
  <2> QED
    BY <1>6, <2>1, <2>2, PassSafe
<1>7. CASE SweepClaim(c)
  <2> DEFINE new == [row EXCEPT !.cleanup = me.t]
             v == [me EXCEPT !.pc = "sbytes"]
  <2>1. /\ UNCHANGED <<now, staged, receipt, req>>
        /\ (SetRow(u, new) /\ SetPass(c, v)) \/ (SetPass(c, IdlePass) /\ UNCHANGED upload)
    BY <1>7 DEF SweepClaim
  <2>2. GoesOn(row, new, now) /\ new.status = "committed" /\ new.expires = row.expires
    BY <1>2, <1>3 DEF GoesOn, Rows
  <2>3. RowSound(new, staged[u], now)
    BY <1>2, <1>3 DEF RowSound, Rows
  <2>4. v.pc = "sbytes" /\ v.u = u /\ v.t = me.t
    BY <1>2 DEF Passes
  <2> HIDE DEF new, v
  <2> QED
    BY <1>6, <2>1, <2>2, <2>3, <2>4, PassEndSafe
<1>8. CASE SweepBytes(c)
  <2> DEFINE v(f) == [me EXCEPT !.pc = "smark", !.f = f, !.todo = me.todo \ {f}]
  <2>1. PICK f : /\ staged' = [staged EXCEPT ![u] = @ \ {f}]
                 /\ SetPass(c, v(f)) /\ UNCHANGED <<now, upload, receipt, req>>
    BY <1>8 DEF SweepBytes
  <2>2. OthersSound /\ staged'[u] = staged[u] \ {f}
    BY <1>2, <1>3, <2>1, BytesRemoved
  <2>3. v(f).pc = "smark" /\ v(f).u = u /\ v(f).t = me.t /\ v(f).f = f
    BY <1>2 DEF Passes
  <2> HIDE DEF v
  <2>4. PassStill(v(f))
    BY <1>3, <1>5, <2>1, <2>2, <2>3
  <2>5. \A x \in Uploads : Legal(upload[x], upload'[x], now)
    BY <2>1 DEF Legal
  <2> QED
    BY <2>1, <2>2, <2>4, <2>5, PassSafe
<1>9. CASE SweepMark(c)
  <2> DEFINE new == [row EXCEPT !.swept = row.swept \cup {me.f}]
             v == [me EXCEPT !.pc = "sbytes", !.f = NoFile]
  <2>1. /\ me.pc = "smark" /\ SetRow(u, new) /\ SetPass(c, v)
        /\ UNCHANGED <<now, staged, receipt, req>>
    BY <1>9 DEF SweepMark
  <2>2. GoesOn(row, new, now) /\ new.status = "committed" /\ new.expires = row.expires
    BY <1>2, <1>3 DEF GoesOn, Rows
  <2>3. me.f \notin staged[u]
    BY <1>2, <2>1 DEF PassSound
  <2>4. RowSound(new, staged[u], now)
    BY <1>2, <1>3, <1>4, <2>3 DEF RowSound, Rows
  <2>5. v.pc = "sbytes" /\ v.u = u /\ v.t = me.t
    BY <1>2 DEF Passes
  <2> HIDE DEF new, v
  <2> QED
    BY <1>6, <2>1, <2>2, <2>4, <2>5
<1>10. CASE SweepComplete(c)
  <2> DEFINE new == [row EXCEPT !.cleaned = TRUE, !.cleanup = NoTime]
  <2>1. /\ SetPass(c, IdlePass) /\ UNCHANGED <<now, staged, receipt, req>>
        /\ (row.files \subseteq row.swept /\ SetRow(u, new)) \/ ReleaseStamp(me, "committed")
    BY <1>10 DEF SweepComplete
  <2>2. CASE ReleaseStamp(me, "committed")
    BY <1>1, <2>1, <2>2, ReleaseSafe
  <2>3. CASE row.files \subseteq row.swept /\ SetRow(u, new)
    <3>1. GoesOn(row, new, now) /\ new.status = "committed" /\ new.expires = row.expires
      BY <1>2, <1>3 DEF GoesOn, Rows
    <3>2. staged[u] = {}
      BY <1>2, <1>3, <2>3 DEF RowSound
    <3>3. RowSound(new, staged[u], now)
      BY <1>2, <1>3, <1>4, <3>2 DEF RowSound, Rows
    <3> HIDE DEF new
    <3> QED
      BY <1>6, <2>1, <2>3, <3>1, <3>3
  <2> QED
    BY <2>1, <2>2, <2>3
<1> QED
  BY <1>7, <1>8, <1>9, <1>10

\* Every step of a pass is safe.
LEMMA PassStepSafe ==
  ASSUME SafetyInv, TypeOK', NEW c \in Cleaners, CleanStep(c) \/ SweepStep(c) \/ StopStep(c)
  PROVE  Safe
<1>1. CASE StopStep(c)
  <2>1. CASE CleanStop(c)
    BY <2>1, ReleaseSafe DEF CleanStop
  <2>2. CASE SweepStop(c)
    BY <2>2, ReleaseSafe DEF SweepStop
  <2>3. CASE PassCrash(c)
    BY <2>3, PassEndSafe DEF PassCrash
  <2> QED
    BY <1>1, <2>1, <2>2, <2>3 DEF StopStep
<1>2. CASE CleanStep(c)
  BY <1>2, SelectSafe, CleanClaimSafe, CleanBytesSafe, CleanRowSafe, CleanUploadSafe DEF CleanStep
<1>3. CASE SweepStep(c)
  BY <1>3, SelectSafe, SweepSafe DEF SweepStep
<1> QED
  BY <1>1, <1>2, <1>3

-----------------------------------------------------------------------------
(* The invariant and what it says                                          *)

\* The initial states.
LEMMA SafetyInit == Init => SafetyInv
<1> SUFFICES ASSUME Init PROVE SafetyInv
  OBVIOUS
<1>1. TypeOK
  BY IdleTyped DEF Init, TypeOK
<1>2. RowsSound
  BY DEF Init, RowsSound, RowSound, AbsentRow
<1>3. RequestsSound /\ PassesSound
  BY DEF Init, RequestsSound, PassesSound, IdleReq, IdlePass
<1>4. OneFenceHolder /\ OnePublicationPerKey
  BY DEF Init, OneFenceHolder, Holds, OnePublicationPerKey, IdleReq, AbsentRow, HolderPcs
<1> QED
  BY <1>1, <1>2, <1>3, <1>4 DEF SafetyInv

\* Every step keeps the invariant and moves the rows as they may move.
LEMMA SafetyStep == SafetyInv /\ [Next]_vars => SafetyInv' /\ RowsMove
<1> SUFFICES ASSUME SafetyInv, [Next]_vars PROVE SafetyInv' /\ RowsMove
  OBVIOUS
<1>1. TypeOK'
  BY TypeStep DEF SafetyInv
<1>2. ASSUME OthersSound, UNCHANGED <<upload, receipt, req, pass>>
      PROVE  Safe
  <2>1. RequestsSound' /\ PassesSound' /\ RowsSound'
    BY <1>2 DEF OthersSound, RequestsSound, PassesSound, ReqStill, PassStill
  <2>2. OneFenceHolder' /\ OnePublicationPerKey'
    BY <1>2 DEF SafetyInv, OneFenceHolder, Holds, OnePublicationPerKey
  <2>3. RowsMove
    BY <1>2 DEF RowsMove, Legal
  <2> QED
    BY <2>1, <2>2, <2>3 DEF Safe
<1>3. ASSUME Tick PROVE Safe
  BY <1>2, <1>3, TimePassed DEF Tick
<1>4. ASSUME UNCHANGED vars PROVE Safe
  BY <1>2, <1>4, NothingStored DEF vars
<1>5. Safe
  BY <1>1, <1>3, <1>4, RequestStepSafe, PassStepSafe DEF Next
<1> QED
  BY <1>1, <1>5 DEF Safe, SafetyInv

\* The invariant holds throughout.
LEMMA SafetyInvariant == Spec => []SafetyInv
  BY SafetyInit, SafetyStep, PTL DEF Spec

\* What a step leaves of an upload that a pass stamped, or whose lease is live.
Ordered(u) ==
    LET row == upload[u]
        new == upload'[u] IN
    row.status = "open" =>
        /\ row.cleanup # NoTime /\ new.status = "open" =>
              new.attempts = row.attempts /\ (new.lease \in {row.lease, NoTime} \/ RenewalUnderWay(u))
        /\ ~LeaseOver(row, now) => new.files = row.files /\ new.status # "removed"

\* A step that leaves the attempts, the lease and the files of the row alone.
LEMMA RowOrdered ==
  ASSUME TypeOK, NEW u \in Uploads, NEW new, SetRow(u, new), new.status # "removed",
         new.attempts = upload[u].attempts, new.lease \in {upload[u].lease, NoTime},
         new.files = upload[u].files
  PROVE  \A x \in Uploads : Ordered(x)
<1>1. upload'[u] = new /\ \A x \in Uploads : x # u => upload'[x] = upload[x]
  BY DEF SetRow, TypeOK
<1> QED
  BY <1>1 DEF Ordered

\* A step that finds the lease of the row over and no attempt begun.
LEMMA ReclaimOrdered ==
  ASSUME TypeOK, NEW u \in Uploads, NEW new, SetRow(u, new), LeaseOver(upload[u], now),
         new.status = "removed" \/ (new.attempts = upload[u].attempts /\ new.lease = upload[u].lease)
  PROVE  \A x \in Uploads : Ordered(x)
<1>1. upload'[u] = new /\ \A x \in Uploads : x # u => upload'[x] = upload[x]
  BY DEF SetRow, TypeOK
<1> QED
  BY <1>1 DEF Ordered

\* Where no row changes, nothing is out of order.
LEMMA SameOrdered == ASSUME TypeOK, UNCHANGED upload PROVE \A x \in Uploads : Ordered(x)
  BY DEF Ordered, TypeOK, Rows

\* createUpload and uploadFile leave leases alone; a purge finds the lease over.
LEMMA CreateOrdered ==
  ASSUME SafetyInv, NEW r \in Requests, CreateStep(r) \/ PutStep(r)
  PROVE  \A x \in Uploads : Ordered(x)
<1> DEFINE me == req[r]
           row == upload[me.u]
           Goal == \A x \in Uploads : Ordered(x)
<1>1. TypeOK /\ now \in Nat /\ me \in Reqs /\ NamesItsWork(me)
  BY Facts DEF SafetyInv
<1>2. ASSUME NEW u \in Uploads, CreateFresh(r, u) \/ CreateInsert(r, u) PROVE Goal
  <2>1. upload[u].status = "absent" /\ \A x \in Uploads : x # u => upload'[x] = upload[x]
    BY <1>1, <1>2 DEF CreateFresh, CreateInsert, SetRow, TypeOK
  <2> QED
    BY <2>1 DEF Ordered
<1>3. CASE PurgeRow(r)
  <2>1. me.u \in Uploads /\ row \in Rows /\ me.t \in Nat
    BY <1>1, <1>3, ReqFields DEF PurgeRow, NamesItsWork, TypeOK
  <2>2. me.t <= now
    BY <1>3, <2>1, Facts DEF PurgeRow, WriterSound
  <2>3. (LeaseOver(row, me.t) /\ SetRow(me.u, RemovedRow)) \/ UNCHANGED upload
    BY <1>3 DEF PurgeRow, Reclaimable
  <2>4. LeaseOver(row, me.t) => LeaseOver(row, now)
    BY <1>1, <2>1, <2>2, RowFields DEF LeaseOver, Times, NoTime
  <2>5. RemovedRow.status = "removed"
    BY DEF RemovedRow, AbsentRow
  <2> QED
    BY <1>1, <2>1, <2>3, <2>4, <2>5, ReclaimOrdered, SameOrdered
<1>4. CASE ReuseFile(r)
  <2> DEFINE new(f) == [row EXCEPT !.uploaded = row.uploaded \cup {f},
                                   !.installed = row.installed \cup {f}]
  <2>1. me.u \in Uploads /\ row \in Rows
    BY <1>1, <1>4 DEF ReuseFile, NamesItsWork, TypeOK
  <2>2. PICK f : (row.status = "open" /\ SetRow(me.u, new(f))) \/ UNCHANGED upload
    BY <1>4 DEF ReuseFile, Accepting
  <2>3. /\ new(f).attempts = row.attempts /\ new(f).lease = row.lease /\ new(f).files = row.files
        /\ new(f).status = row.status
    BY <2>1 DEF Rows
  <2> HIDE DEF new
  <2> QED
    BY <1>1, <2>1, <2>2, <2>3, RowOrdered, SameOrdered
<1>5. CASE PutMark(r)
  <2> DEFINE new == [row EXCEPT !.uploaded = row.uploaded \cup {me.f}]
  <2>1. me.u \in Uploads /\ row \in Rows
    BY <1>1, <1>5 DEF PutMark, NamesItsWork, TypeOK
  <2>2. row.status = "open" /\ SetRow(me.u, new)
    BY <1>5 DEF PutMark, Accepting
  <2>3. /\ new.attempts = row.attempts /\ new.lease = row.lease /\ new.files = row.files
        /\ new.status = row.status
    BY <2>1 DEF Rows
  <2> HIDE DEF new
  <2> QED
    BY <1>1, <2>1, <2>2, <2>3, RowOrdered
<1>6. CASE PutBytes(r) \/ PurgeFile(r) \/ CreateRaced(r) \/ CreateDone(r)
  BY <1>1, <1>6, SameOrdered DEF PutBytes, PurgeFile, CreateRaced, CreateDone
<1>7. ASSUME NEW u \in Uploads, NEW f \in Files, PutStart(r, u, f) PROVE Goal
  BY <1>1, <1>7, SameOrdered DEF PutStart
<1>8. ASSUME NEW k \in Keys, CreateRead(r, k) PROVE Goal
  BY <1>1, <1>8, SameOrdered DEF CreateRead
<1> QED
  BY <1>2, <1>3, <1>4, <1>5, <1>6, <1>7, <1>8 DEF CreateStep, PutStep

\* A claim finds no stamp, and a renewal read its clock before the lease lapsed.
LEMMA CommitOrdered ==
  ASSUME SafetyInv, NEW r \in Requests, CommitStep(r)
  PROVE  \A x \in Uploads : Ordered(x)
<1> DEFINE me == req[r]
           row == upload[me.u]
           Goal == \A x \in Uploads : Ordered(x)
<1>1. TypeOK /\ (me.pc \in CommitPcs => me \in Reqs /\ me.u \in Uploads /\ row \in Rows)
  BY AtWork DEF SafetyInv
<1>2. CASE PrepareClaim(r)
  <2> DEFINE new == [row EXCEPT !.prep = "claimed", !.attempts = NextAttempt(row),
                                !.lease = now + Lease]
  <2>1. me.u \in Uploads /\ row \in Rows
    BY <1>1, <1>2 DEF PrepareClaim, CommitPcs
  <2>2. SetRow(me.u, new) /\ row.cleanup = NoTime /\ row.status = "open"
    BY <1>2 DEF PrepareClaim, Claimable
  <2>3. new.files = row.files /\ new.status = row.status
    BY <2>1 DEF Rows
  <2> HIDE DEF new
  <2>4. upload'[me.u] = new /\ \A x \in Uploads : x # me.u => upload'[x] = upload[x]
    BY <1>1, <2>1, <2>2 DEF SetRow, TypeOK
  <2> QED
    BY <2>1, <2>2, <2>3, <2>4 DEF Ordered
<1>3. CASE PrepareRenew(r)
  <2> DEFINE new == [row EXCEPT !.lease = me.t + Lease]
  <2>1. me.u \in Uploads /\ row \in Rows
    BY <1>1, <1>3 DEF PrepareRenew, CommitPcs, HolderPcs
  <2>2. SetRow(me.u, new) /\ row.status = "open" /\ RenewalUnderWay(me.u)
    BY <1>3, <2>1 DEF PrepareRenew, Fenced, RenewalUnderWay
  <2>3. /\ new.attempts = row.attempts /\ new.files = row.files /\ new.status = row.status
    BY <2>1 DEF Rows
  <2> HIDE DEF new
  <2>4. upload'[me.u] = new /\ \A x \in Uploads : x # me.u => upload'[x] = upload[x]
    BY <1>1, <2>1, <2>2 DEF SetRow, TypeOK
  <2> QED
    BY <2>1, <2>2, <2>3, <2>4 DEF Ordered
<1>4. ASSUME NEW new, me.pc \in CommitPcs, SetRow(me.u, new) \/ UNCHANGED upload, row.status # "removed",
             \/ \E f : new = [row EXCEPT !.installed = row.installed \cup {f}]
             \/ new = [row EXCEPT !.expires = now + Lifetime]
             \/ new = [row EXCEPT !.entries = EntriesAfter(row)]
             \/ new = [row EXCEPT !.prep = "none", !.lease = NoTime]
             \/ new = [row EXCEPT !.prep = "prepared"]
             \/ new = Seal(row)
      PROVE  Goal
  <2>1. /\ new.attempts = row.attempts /\ new.lease \in {row.lease, NoTime}
        /\ new.files = row.files /\ new.status # "removed"
    BY <1>1, <1>4 DEF Rows, Seal
  <2> QED
    BY <1>1, <1>4, <2>1, RowOrdered, SameOrdered
<1>5. CASE \/ PrepareRecord(r) \/ PrepareExtend(r) \/ PrepareEntries(r)
           \/ PrepareRelease(r) \/ PrepareMark(r) \/ PublishCommit(r)
  <2>1. me.pc \in CommitPcs
    BY <1>5 DEF PrepareRecord, PrepareExtend, PrepareEntries, PrepareRelease, PrepareMark,
                PublishCommit, CommitPcs, HolderPcs
  <2>2. CASE UNCHANGED upload
    BY <1>1, <2>2, SameOrdered
  <2>3. ASSUME ~UNCHANGED upload PROVE row.status = "open"
    BY <1>5, <2>3 DEF PrepareRecord, PrepareExtend, PrepareEntries, PrepareRelease, PrepareMark,
                      PublishCommit, Fenced, SourceReady, Accepting
  <2>4. ASSUME ~UNCHANGED upload
        PROVE  \/ \E f : SetRow(me.u, [row EXCEPT !.installed = row.installed \cup {f}])
               \/ SetRow(me.u, [row EXCEPT !.expires = now + Lifetime])
               \/ SetRow(me.u, [row EXCEPT !.entries = EntriesAfter(row)])
               \/ SetRow(me.u, [row EXCEPT !.prep = "none", !.lease = NoTime])
               \/ SetRow(me.u, [row EXCEPT !.prep = "prepared"])
               \/ SetRow(me.u, Seal(row))
    BY <1>5, <2>4, Zenon DEF PrepareRecord, PrepareExtend, PrepareEntries, PrepareRelease, PrepareMark,
                      PublishCommit
  <2> QED
    BY <1>4, <2>1, <2>2, <2>3, <2>4
<1>6. CASE \/ PrepareFetch(r) \/ PrepareChunk(r) \/ PrepareInstall(r)
           \/ PublishCheck(r) \/ PublishStore(r)
  BY <1>1, <1>6, SameOrdered DEF PrepareFetch, PrepareChunk, PrepareInstall, PublishCheck, PublishStore
<1>7. ASSUME NEW u \in Uploads, NEW k \in Keys, CommitStart(r, u, k) PROVE Goal
  BY <1>1, <1>7, SameOrdered DEF CommitStart
<1> QED
  BY <1>2, <1>3, <1>5, <1>6, <1>7 DEF CommitStep

\* A pass removes rows only where it finds the lease over.
LEMMA PassOrdered ==
  ASSUME SafetyInv, NEW c \in Cleaners, CleanStep(c) \/ SweepStep(c) \/ StopStep(c)
  PROVE  \A x \in Uploads : Ordered(x)
<1> DEFINE me == pass[c]
           row == upload[me.u]
           Goal == \A x \in Uploads : Ordered(x)
<1>1. TypeOK /\ now \in Nat
  BY DEF SafetyInv, TypeOK
<1>2. ASSUME me.pc # "idle"
      PROVE  me.u \in Uploads /\ row \in Rows /\ me.t \in Nat /\ me.t <= now
  BY <1>2, PassAtWork
<1>3. ASSUME me.pc # "idle", LeaseOver(row, me.t)
      PROVE  LeaseOver(row, now)
  BY <1>1, <1>2, <1>3, RowFields DEF LeaseOver, Times, NoTime
<1>4. ASSUME NEW new, me.pc # "idle", SetRow(me.u, new) \/ UNCHANGED upload, row.status # "removed",
             \/ \E x : new = [row EXCEPT !.cleanup = x]
             \/ new = [row EXCEPT !.swept = row.swept \cup {me.f}]
             \/ new = [row EXCEPT !.cleaned = TRUE, !.cleanup = NoTime]
      PROVE  Goal
  <2>1. /\ new.attempts = row.attempts /\ new.lease = row.lease
        /\ new.files = row.files /\ new.status # "removed"
    BY <1>2, <1>4 DEF Rows
  <2> QED
    BY <1>1, <1>2, <1>4, <2>1, RowOrdered, SameOrdered
<1>5. ASSUME NEW st \in {"open", "committed"}, me.pc # "idle", ReleaseStamp(me, st) PROVE Goal
  <2>1. \/ row.status = st /\ SetRow(me.u, [row EXCEPT !.cleanup = me.t - Settle])
        \/ UNCHANGED upload
    BY <1>5 DEF ReleaseStamp
  <2> QED
    BY <1>1, <1>4, <1>5, <2>1, SameOrdered
<1>6. CASE CleanClaim(c)
  <2>1. me.pc # "idle" /\ ((row.status = "open" /\ SetRow(me.u, [row EXCEPT !.cleanup = me.t])) \/ UNCHANGED upload)
    BY <1>6 DEF CleanClaim, Reclaimable
  <2> QED
    BY <1>1, <1>4, <2>1, SameOrdered
<1>7. CASE SweepClaim(c)
  <2>1. me.pc # "idle" /\ ((row.status = "committed" /\ SetRow(me.u, [row EXCEPT !.cleanup = me.t])) \/ UNCHANGED upload)
    BY <1>7 DEF SweepClaim, Sweepable
  <2> QED
    BY <1>1, <1>4, <2>1, SameOrdered
<1>8. CASE CleanRow(c)
  <2> DEFINE new == [row EXCEPT !.files = row.files \ {me.f}, !.uploaded = row.uploaded \ {me.f},
                                !.installed = row.installed \ {me.f}]
  <2>1. me.pc # "idle" /\ ((LeaseOver(row, me.t) /\ SetRow(me.u, new)) \/ UNCHANGED upload)
    BY <1>8 DEF CleanRow, Reclaimable
  <2>2. new.attempts = row.attempts /\ new.lease = row.lease
    BY <1>2, <2>1 DEF Rows
  <2> HIDE DEF new
  <2> QED
    BY <1>1, <1>2, <1>3, <2>1, <2>2, ReclaimOrdered, SameOrdered
<1>9. CASE CleanUpload(c)
  <2>1. me.pc # "idle" /\ ((LeaseOver(row, me.t) /\ SetRow(me.u, RemovedRow)) \/ UNCHANGED upload)
    BY <1>9 DEF CleanUpload, Reclaimable
  <2>2. RemovedRow.status = "removed"
    BY DEF RemovedRow, AbsentRow
  <2> QED
    BY <1>1, <1>2, <1>3, <2>1, <2>2, ReclaimOrdered, SameOrdered
<1>10. CASE SweepMark(c)
  <2>1. me.pc \in SweepPcs /\ SetRow(me.u, [row EXCEPT !.swept = row.swept \cup {me.f}])
    BY <1>10 DEF SweepMark, SweepPcs
  <2>2. row.status = "committed"
    BY <2>1, Facts DEF PassSound, SweepPcs, PassNamesItsWork
  <2> QED
    BY <1>4, <2>1, <2>2 DEF SweepPcs
<1>11. CASE SweepComplete(c)
  <2>1. /\ me.pc \in SweepPcs
        /\ SetRow(me.u, [row EXCEPT !.cleaned = TRUE, !.cleanup = NoTime]) \/ ReleaseStamp(me, "committed")
    BY <1>11 DEF SweepComplete, SweepPcs
  <2>2. row.status = "committed"
    BY <2>1, Facts DEF PassSound, SweepPcs, PassNamesItsWork
  <2> QED
    BY <1>4, <1>5, <2>1, <2>2 DEF SweepPcs
<1>12. CASE CleanBytes(c) \/ SweepBytes(c) \/ PassCrash(c)
  BY <1>1, <1>12, SameOrdered DEF CleanBytes, SweepBytes, PassCrash
<1>13. ASSUME NEW u \in Uploads, CleanSelect(c, u) \/ SweepSelect(c, u) PROVE Goal
  BY <1>1, <1>13, SameOrdered DEF CleanSelect, SweepSelect
<1>14. CASE CleanStop(c) \/ SweepStop(c)
  BY <1>5, <1>14 DEF CleanStop, SweepStop
<1> QED
  BY <1>6, <1>7, <1>8, <1>9, <1>10, <1>11, <1>12, <1>13, <1>14 DEF CleanStep, SweepStep, StopStep

\* Every step keeps the order of cleanup and preparation.
LEMMA CleanupStep == SafetyInv /\ [Next]_vars => StampEndsClaims /\ LeaseKeepsRows
<1> SUFFICES ASSUME SafetyInv, [Next]_vars PROVE StampEndsClaims /\ LeaseKeepsRows
  OBVIOUS
<1>1. TypeOK
  BY DEF SafetyInv
<1>2. ASSUME NEW r \in Requests, RequestStep(r) PROVE \A x \in Uploads : Ordered(x)
  BY <1>2, CreateOrdered, CommitOrdered DEF RequestStep
<1>3. ASSUME NEW r \in Requests, Fail(r) PROVE \A x \in Uploads : Ordered(x)
  BY <1>1, <1>3, SameOrdered DEF Fail
<1>4. ASSUME Tick \/ UNCHANGED vars PROVE \A x \in Uploads : Ordered(x)
  BY <1>1, <1>4, SameOrdered DEF Tick, vars
<1>5. \A u \in Uploads : Ordered(u)
  BY <1>2, <1>3, <1>4, PassOrdered, SameOrdered DEF Next
<1>6. ASSUME NEW u \in Uploads, upload[u].status = "open", upload[u].cleanup # NoTime,
             upload'[u].status = "open"
      PROVE  upload'[u].cleanup # NoTime
  <2>1. Legal(upload[u], upload'[u], now) \/ Seals(upload[u], upload'[u])
    BY SafetyStep DEF RowsMove
  <2>2. upload[u] \in Rows
    BY DEF TypeOK, SafetyInv
  <2> QED
    BY <1>6, <2>1, <2>2 DEF Legal, Seals, Seal, Inserts, Removes, RemovedRow, AbsentRow, GoesOn, Rows
<1> QED
  BY <1>5, <1>6 DEF Ordered, StampEndsClaims, LeaseKeepsRows

\* Theorem: two preparations of one upload never hold the same attempt number, whatever
\* leases lapse and claims take over, so the fence lets at most one of them write.
THEOREM FenceIsExclusive == Spec => []OneFenceHolder
<1>1. SafetyInv => OneFenceHolder
  BY DEF SafetyInv
<1> QED
  BY <1>1, SafetyInvariant, PTL

\* Theorem: a key publishes once and an upload is published once, however many commits of
\* either race: receipts and sealed uploads correspond one to one.
THEOREM PublicationIsUnique == Spec => []PublicationsAreSound
<1>1. SafetyInv => PublicationsAreSound
  BY DEF SafetyInv, PublicationsAreSound
<1> QED
  BY <1>1, SafetyInvariant, PTL

\* Theorem: an upload marked prepared has every remaining file installed and every entry
\* written, although the pass that marks it sized its work before it claimed.
THEOREM PreparedComplete == Spec => []PreparedIsComplete
<1>1. SafetyInv => PreparedIsComplete
  BY DEF SafetyInv, RowsSound, RowSound, PreparedIsComplete
<1> QED
  BY <1>1, SafetyInvariant, PTL

\* Theorem: cleanup and preparation share an upload in order: no byte of an upload without a
\* key goes before the stamp, no attempt begins behind it and only a renewal already under way
\* moves the lease, and a live lease keeps the upload and its rows.
THEOREM CleanupExclusive == Spec => CleanupIsExclusive
<1>1. SafetyInv => StampBeforeRemoval
  BY DEF SafetyInv, RowsSound, RowSound, StampBeforeRemoval
<1>2. SafetyInv /\ [Next]_vars => StampEndsClaims /\ LeaseKeepsRows
  BY CleanupStep
<1> QED
  BY <1>1, <1>2, SafetyInvariant, PTL DEF Spec, CleanupIsExclusive

\* Theorem: staging that is marked cleaned is empty and stays so: no late put lands behind
\* cleanupCommittedStaging.
THEOREM CleanedIsReclaimed == Spec => []CleanedMeansReclaimed
<1>1. SafetyInv => CleanedMeansReclaimed
  BY DEF SafetyInv, RowsSound, RowSound, CleanedMeansReclaimed
<1> QED
  BY <1>1, SafetyInvariant, PTL

\* Theorem: no cleanup, purge or late preparation step changes a sealed upload.
THEOREM SealedStays == Spec => SealedIsFinal
<1> DEFINE A == \A u \in Uploads : upload[u].status = "committed" =>
                  /\ upload'[u].status = "committed"
                  /\ upload'[u].files = upload[u].files
                  /\ upload'[u].installed = upload[u].installed
                  /\ upload'[u].prep = upload[u].prep
<1>1. SafetyInv /\ [Next]_vars => A
  <2>1. ASSUME NEW old, NEW new, old.status = "committed", Legal(old, new, now) \/ Seals(old, new)
        PROVE  /\ new.status = "committed" /\ new.files = old.files
               /\ new.installed = old.installed /\ new.prep = old.prep
    BY <2>1 DEF Legal, Inserts, Removes, GoesOn, Seals
  <2> QED
    BY <2>1, SafetyStep DEF RowsMove
<1>2. SealedIsFinal <=> [][A]_vars
  BY DEF SealedIsFinal
<1> QED
  BY <1>1, <1>2, SafetyInvariant, PTL DEF Spec

\* Theorem: a completed preparation is never undone by a holder whose lease lapsed.
THEOREM PreparedStays == Spec => PreparedIsStable
<1> DEFINE A == \A u \in Uploads :
                  upload[u].status = "open" /\ upload[u].prep = "prepared"
                     /\ upload'[u].status # "removed" =>
                  /\ upload'[u].prep = "prepared"
                  /\ upload'[u].attempts = upload[u].attempts
                  /\ upload'[u].expires = upload[u].expires
<1>1. SafetyInv /\ [Next]_vars => A
  <2>1. ASSUME NEW old \in Rows, NEW new, old.status = "open", old.prep = "prepared",
               new.status # "removed", Legal(old, new, now) \/ Seals(old, new)
        PROVE  new.prep = "prepared" /\ new.attempts = old.attempts /\ new.expires = old.expires
    <3>1. ~Inserts(old, new) /\ ~Removes(old, new)
      BY <2>1 DEF Inserts, Removes, RemovedRow, AbsentRow
    <3>2. CASE Seals(old, new)
      BY <2>1, <3>2 DEF Seals, Seal, Rows
    <3> QED
      BY <2>1, <3>1, <3>2 DEF Legal, GoesOn
  <2>2. SafetyInv => \A u \in Uploads : upload[u] \in Rows
    BY Facts
  <2> QED
    BY <2>1, <2>2, SafetyStep DEF RowsMove
<1>2. PreparedIsStable <=> [][A]_vars
  BY DEF PreparedIsStable
<1> QED
  BY <1>1, <1>2, SafetyInvariant, PTL DEF Spec

==============================================================================
