------------------------ MODULE AccessRevocationProofs ------------------------
(***************************************************************************)
(* What AccessRevocation promises for any number of processes, requests    *)
(* and credentials: types, the bound on stale authentication, and what the *)
(* two sweeps leave.                                                       *)
(***************************************************************************)
EXTENDS AccessRevocation, TLAPS, FiniteSetTheorems

CredRows == [st : {"none", "live", "revoked"}, kind : {"session", "key"},
             who : Principals \cup {None}, expires : Nat, revokedAt : Nat]
RequestRows == [at : RequestSteps, server : Servers \cup {None}, cred : Creds \cup {None}, began : Nat]
OpRows == [at : OpSteps, who : Principals \cup {None}, cred : Creds \cup {None}, expires : Nat]
LeaseRows == [who : Principals, cred : Creds, began : Nat, made : Nat, via : {"request", "bootstrap"}]
BootstrapRows == [who : Principals, cred : Creds, began : Nat, expires : Nat]
TimerRows == [server : Servers, who : Principals, since : Nat]

\* An unused row has no expiry, so no entry of a cache outlives it; a row in use
\* has a holder; no revocation lies in the future.
RowsSound ==
    \A c \in Creds :
       /\ cred[c].st = "none" => cred[c].expires = 0
       /\ cred[c].st # "none" => cred[c].who \in Principals
       /\ Revoked(c) => cred[c].revokedAt <= clock

\* An entry ends with its credential, at most TTL from now, and at most TTL from
\* the revocation.
CacheBound ==
    \A s \in Servers, c \in Creds :
       /\ cache[s][c] <= cred[c].expires
       /\ cache[s][c] <= clock + TTL
       /\ Revoked(c) => cache[s][c] <= cred[c].revokedAt + TTL

\* A request that found a row which was revoked since began before that; one that
\* is authenticated may owe it to a cache, and began within TTL of it.
RequestBound ==
    \A r \in Requests :
       LET c == req[r].cred
       IN  req[r].at # "idle" =>
             /\ c \in Creds /\ req[r].server \in Servers /\ req[r].began <= clock
             /\ req[r].at \in {"found", "authenticated"} => cred[c].st # "none"
             /\ req[r].at = "found" /\ Revoked(c) => req[r].began <= cred[c].revokedAt
             /\ req[r].at = "authenticated" /\ Revoked(c) => req[r].began < cred[c].revokedAt + TTL

\* An operation is about a principal, and one on a credential about a row in use.
Sound(o, rows) ==
    /\ o.at # "idle" => o.who \in Principals
    /\ o.at \in {"rotate", "logout", "revoke", "evict"} =>
          o.cred \in Creds /\ rows[o.cred].st # "none"
OpSound == \A s \in Servers : Sound(op[s], cred)

\* A lease was made by a request that began within TTL of the revocation, and no
\* lease is left that is older than the second sweep.
LeaseBound ==
    \A l \in leases :
       /\ l.via = "request" =>
             /\ cred[l.cred].st # "none" /\ l.began <= clock
             /\ Revoked(l.cred) => l.began < cred[l.cred].revokedAt + TTL
       /\ swept[l.who] >= 0 => l.made >= swept[l.who] + SweepDelay

SweepBound ==
    \A p \in Principals : swept[p] >= 0 => clock >= swept[p] + SweepDelay

IInv ==
    /\ TypeOK /\ RowsSound /\ CacheBound /\ RequestBound /\ OpSound /\ LeaseBound /\ SweepBound

-----------------------------------------------------------------------------
\* The initial states satisfy the invariant: nothing is issued yet.
LEMMA InitIInv == Init => IInv
  <1> SUFFICES ASSUME Init PROVE IInv
    OBVIOUS
  <1> USE RevocationAssumption DEF RevocationAssumption
  <1>1. TypeOK
    BY DEF Init, TypeOK, NoCred, IdleRequest, IdleOp, RequestSteps, OpSteps
  <1>2. RowsSound /\ CacheBound /\ RequestBound /\ OpSound /\ LeaseBound /\ SweepBound
    BY DEF Init, RowsSound, CacheBound, RequestBound, OpSound, Sound, LeaseBound, SweepBound, NoCred,
           IdleRequest, IdleOp, Revoked
  <1> QED
    BY <1>1, <1>2 DEF IInv

-----------------------------------------------------------------------------
(* Steps that write credentials                                            *)

\* What a step may do to a row: nothing, revoke a live one now, or fill an unused one.
CredStep ==
    \A x \in Creds :
       \/ cred'[x] = cred[x]
       \/ /\ cred[x].st = "live" /\ cred'[x].st = "revoked" /\ cred'[x].revokedAt = clock
          /\ cred'[x].who = cred[x].who /\ cred'[x].expires = cred[x].expires
       \/ cred[x].st = "none" /\ cred'[x].st = "live" /\ cred'[x].who \in Principals

\* Revoking a row keeps it a row, and does nothing but end a live one now.
LEMMA RevocationRow ==
  ASSUME TypeOK, NEW c \in Creds
  PROVE  /\ Revocation(c) \in CredRows
         /\ \/ Revocation(c) = cred[c]
            \/ /\ cred[c].st = "live" /\ Revocation(c).st = "revoked" /\ Revocation(c).revokedAt = clock
               /\ Revocation(c).who = cred[c].who /\ Revocation(c).expires = cred[c].expires
  <1>1. cred[c] \in CredRows /\ clock \in Nat
    BY DEF TypeOK, CredRows
  <1> QED
    BY <1>1 DEF Revocation, CredRows

\* A step that writes credentials in these ways, and nothing the caches, requests
\* and leases depend on, keeps the bounds.
LEMMA CredStepKeeps ==
  ASSUME IInv, CredStep, cred' \in [Creds -> CredRows],
         UNCHANGED <<clock, cache, req, leases, swept>>
  PROVE  RowsSound' /\ CacheBound' /\ RequestBound' /\ LeaseBound' /\ SweepBound'
  <1> USE RevocationAssumption DEF RevocationAssumption, IInv, TypeOK
  <1>1. RowsSound'
    BY DEF RowsSound, CredStep, Revoked
  <1>2. CacheBound'
    <2> SUFFICES ASSUME NEW s \in Servers, NEW c \in Creds
                 PROVE  /\ cache[s][c] <= cred'[c].expires
                        /\ cache[s][c] <= clock + TTL
                        /\ cred'[c].st = "revoked" => cache[s][c] <= cred'[c].revokedAt + TTL
      BY DEF CacheBound, Revoked
    <2>1. cache[s][c] \in Nat /\ cred[c].expires \in Nat /\ cred'[c] \in CredRows
      OBVIOUS
    <2>2. CASE cred'[c] = cred[c]
      BY <2>2 DEF CacheBound, Revoked
    <2>3. CASE cred[c].st = "live" /\ cred'[c].revokedAt = clock /\ cred'[c].expires = cred[c].expires
      BY <2>3 DEF CacheBound, Revoked
    <2>4. CASE cred[c].st = "none" /\ cred'[c].st = "live"
      BY <2>1, <2>4 DEF CacheBound, RowsSound, CredRows
    <2> QED
      BY <2>2, <2>3, <2>4 DEF CredStep
  <1>3. RequestBound'
    <2> SUFFICES ASSUME NEW r \in Requests, req[r].at # "idle"
                 PROVE  LET c == req[r].cred
                        IN  /\ c \in Creds /\ req[r].server \in Servers /\ req[r].began <= clock
                            /\ req[r].at \in {"found", "authenticated"} => cred'[c].st # "none"
                            /\ req[r].at = "found" /\ cred'[c].st = "revoked" =>
                                  req[r].began <= cred'[c].revokedAt
                            /\ req[r].at = "authenticated" /\ cred'[c].st = "revoked" =>
                                  req[r].began < cred'[c].revokedAt + TTL
      BY DEF RequestBound, Revoked
    <2> DEFINE c == req[r].cred
    <2>1. c \in Creds /\ req[r].server \in Servers /\ req[r].began \in Nat /\ req[r].began <= clock
      BY DEF RequestBound
    <2>2. CASE cred'[c] = cred[c]
      BY <2>1, <2>2 DEF RequestBound, Revoked
    <2>3. CASE cred[c].st = "live" /\ cred'[c].st = "revoked" /\ cred'[c].revokedAt = clock
      BY <2>1, <2>3
    <2>4. CASE cred[c].st = "none" /\ cred'[c].st = "live"
      BY <2>1, <2>4
    <2> QED
      BY <2>1, <2>2, <2>3, <2>4 DEF CredStep
  <1>4. LeaseBound'
    <2> SUFFICES ASSUME NEW l \in leases
                 PROVE  l.via = "request" =>
                           /\ cred'[l.cred].st # "none" /\ l.began <= clock
                           /\ cred'[l.cred].st = "revoked" => l.began < cred'[l.cred].revokedAt + TTL
      BY DEF LeaseBound, Revoked, SweepDelay
    <2>1. l.cred \in Creds /\ l.began \in Nat
      OBVIOUS
    <2> QED
      BY <2>1 DEF LeaseBound, Revoked, CredStep
  <1>5. SweepBound'
    BY DEF SweepBound, SweepDelay
  <1> QED
    BY <1>1, <1>2, <1>3, <1>4, <1>5

\* Writing credentials in these ways leaves the operations of the other processes
\* sound, so a step that sets one process's operation needs a look at that one.
LEMMA OpStepKeeps ==
  ASSUME IInv, CredStep, NEW s \in Servers, NEW o \in OpRows, op' = [op EXCEPT ![s] = o],
         Sound(o, cred')
  PROVE  op' \in [Servers -> OpRows] /\ OpSound'
  <1>1. op \in [Servers -> OpRows]
    BY DEF IInv, TypeOK, OpRows
  <1>2. \A x \in Creds : cred[x].st # "none" => cred'[x].st # "none"
    BY DEF CredStep
  <1>3. ASSUME NEW x \in Servers PROVE Sound(op'[x], cred')
    <2>1. CASE x = s
      BY <1>1, <2>1 DEF Sound
    <2>2. CASE x # s
      <3>1. op'[x] = op[x] /\ Sound(op[x], cred)
        BY <1>1, <2>2 DEF IInv, OpSound
      <3> QED
        BY <3>1, <1>2 DEF Sound
    <2> QED
      BY <2>1, <2>2
  <1> QED
    BY <1>1, <1>3 DEF OpSound

\* The rest of the type invariant of a step that writes credentials.
LEMMA CredTypes ==
  ASSUME IInv, cred' \in [Creds -> CredRows], op' \in [Servers -> OpRows],
         active' \in [Principals -> BOOLEAN],
         UNCHANGED <<clock, cache, req, accessVars>>
  PROVE  TypeOK'
  BY DEF IInv, TypeOK, CredRows, OpRows, accessVars

\* A credential is issued at the end of a sign-in.
LEMMA IssueSessionStep ==
  ASSUME IInv, NEW p \in Principals, NEW c \in Creds, NEW life \in Lifetimes, IssueSession(p, c, life)
  PROVE  IInv'
  <1> USE RevocationAssumption DEF RevocationAssumption
  <1>1. cred \in [Creds -> CredRows] /\ clock \in Nat /\ op \in [Servers -> OpRows]
        /\ active \in [Principals -> BOOLEAN]
    BY DEF IInv, TypeOK, CredRows, OpRows
  <1>2. Row("session", p, clock + life) \in CredRows
    BY <1>1 DEF Row, CredRows
  <1>3. cred' \in [Creds -> CredRows] /\ CredStep
    BY <1>1, <1>2 DEF IssueSession, Unused, CredStep, Row
  <1>4. OpSound'
    BY <1>3 DEF IInv, OpSound, Sound, IssueSession, CredStep
  <1> QED
    BY <1>1, <1>3, <1>4, CredStepKeeps, CredTypes DEF IInv, IssueSession, accessVars

\* A key is inserted for the member that was read as active before.
LEMMA InsertApiKeyStep ==
  ASSUME IInv, NEW s \in Servers, NEW c \in Creds, InsertApiKey(s, c)
  PROVE  IInv'
  <1>1. cred \in [Creds -> CredRows] /\ op \in [Servers -> OpRows]
        /\ active \in [Principals -> BOOLEAN]
    BY DEF IInv, TypeOK, CredRows, OpRows
  <1>2. op[s].who \in Principals /\ op[s].expires \in Nat
    BY <1>1 DEF IInv, OpSound, Sound, InsertApiKey, OpRows
  <1>3. Row("key", op[s].who, op[s].expires) \in CredRows
    BY <1>2 DEF Row, CredRows
  <1>4. cred' \in [Creds -> CredRows] /\ CredStep
    BY <1>1, <1>2, <1>3 DEF InsertApiKey, Unused, CredStep, Row
  <1>5. IdleOp \in OpRows /\ Sound(IdleOp, cred')
    BY DEF IdleOp, OpRows, OpSteps, Sound
  <1>6. op' \in [Servers -> OpRows] /\ OpSound'
    BY <1>4, <1>5, OpStepKeeps DEF InsertApiKey
  <1> QED
    BY <1>1, <1>4, <1>6, CredStepKeeps, CredTypes DEF IInv, InsertApiKey, accessVars

\* A member is deactivated and all of its credentials are revoked.
LEMMA DeactivateMemberStep ==
  ASSUME IInv, NEW s \in Servers, NEW p \in Principals, DeactivateMember(s, p)
  PROVE  IInv'
  <1> DEFINE o == [IdleOp EXCEPT !.at = "clear", !.who = p]
  <1>1. TypeOK /\ cred \in [Creds -> CredRows] /\ active \in [Principals -> BOOLEAN]
    BY DEF IInv, TypeOK, CredRows
  <1>2. cred' \in [Creds -> CredRows]
    BY <1>1, RevocationRow DEF DeactivateMember
  <1>3. CredStep
    <2> SUFFICES ASSUME NEW x \in Creds
                 PROVE  \/ cred'[x] = cred[x]
                        \/ /\ cred[x].st = "live" /\ cred'[x].st = "revoked" /\ cred'[x].revokedAt = clock
                           /\ cred'[x].who = cred[x].who /\ cred'[x].expires = cred[x].expires
      BY DEF CredStep
    <2>1. cred'[x] = Revocation(x) \/ cred'[x] = cred[x]
      BY DEF DeactivateMember
    <2> QED
      BY <2>1, <1>1, RevocationRow
  <1>4. o \in OpRows /\ Sound(o, cred')
    BY DEF IdleOp, OpRows, OpSteps, Sound
  <1>5. op' \in [Servers -> OpRows] /\ OpSound'
    BY <1>3, <1>4, OpStepKeeps DEF DeactivateMember
  <1>6. active' \in [Principals -> BOOLEAN]
    BY <1>1 DEF DeactivateMember
  <1> QED
    BY <1>2, <1>3, <1>5, <1>6, CredStepKeeps, CredTypes DEF IInv, DeactivateMember, accessVars

\* A key is revoked.
LEMMA RevokeApiKeyStep ==
  ASSUME IInv, NEW s \in Servers, NEW c \in Creds, RevokeApiKey(s, c)
  PROVE  IInv'
  <1> DEFINE o == [IdleOp EXCEPT !.at = "clearKeys", !.who = cred[c].who]
  <1>1. TypeOK /\ cred \in [Creds -> CredRows] /\ active \in [Principals -> BOOLEAN]
    BY DEF IInv, TypeOK, CredRows
  <1>2. cred' \in [Creds -> CredRows]
    BY <1>1, RevocationRow DEF RevokeApiKey
  <1>3. CredStep
    <2> SUFFICES ASSUME NEW x \in Creds
                 PROVE  \/ cred'[x] = cred[x]
                        \/ /\ cred[x].st = "live" /\ cred'[x].st = "revoked" /\ cred'[x].revokedAt = clock
                           /\ cred'[x].who = cred[x].who /\ cred'[x].expires = cred[x].expires
      BY DEF CredStep
    <2>1. cred'[x] = Revocation(x) \/ cred'[x] = cred[x]
      BY <1>1 DEF RevokeApiKey
    <2> QED
      BY <2>1, <1>1, RevocationRow
  <1>4. cred[c].who \in Principals
    BY DEF IInv, RowsSound, RevokeApiKey
  <1>5. o \in OpRows /\ Sound(o, cred')
    BY <1>4 DEF IdleOp, OpRows, OpSteps, Sound
  <1>6. op' \in [Servers -> OpRows] /\ OpSound'
    BY <1>3, <1>5, OpStepKeeps DEF RevokeApiKey
  <1> QED
    BY <1>1, <1>2, <1>3, <1>6, CredStepKeeps, CredTypes DEF IInv, RevokeApiKey, accessVars

\* A sign-out revokes its session.
LEMMA RevokeSessionStep ==
  ASSUME IInv, NEW s \in Servers, RevokeSession(s)
  PROVE  IInv'
  <1> DEFINE c == op[s].cred
             o == [op[s] EXCEPT !.at = "evict"]
  <1>1. TypeOK /\ cred \in [Creds -> CredRows] /\ active \in [Principals -> BOOLEAN]
        /\ op[s] \in OpRows /\ op \in [Servers -> OpRows]
    BY DEF IInv, TypeOK, CredRows, OpRows
  <1>2. c \in Creds /\ op[s].who \in Principals /\ cred[c].st # "none"
    BY DEF IInv, OpSound, Sound, RevokeSession
  <1>3. cred' \in [Creds -> CredRows]
    BY <1>1, <1>2, RevocationRow DEF RevokeSession
  <1>4. CredStep
    <2> SUFFICES ASSUME NEW x \in Creds
                 PROVE  \/ cred'[x] = cred[x]
                        \/ /\ cred[x].st = "live" /\ cred'[x].st = "revoked" /\ cred'[x].revokedAt = clock
                           /\ cred'[x].who = cred[x].who /\ cred'[x].expires = cred[x].expires
      BY DEF CredStep
    <2>1. cred'[x] = Revocation(x) \/ cred'[x] = cred[x]
      BY <1>1 DEF RevokeSession
    <2> QED
      BY <2>1, <1>1, RevocationRow
  <1>5. o \in OpRows
    BY <1>1 DEF OpRows, OpSteps
  <1>6. o.at = "evict" /\ o.who = op[s].who /\ o.cred = c /\ cred'[c].st # "none"
    BY <1>1, <1>2, <1>4 DEF OpRows, CredStep
  <1>7. Sound(o, cred')
    BY <1>2, <1>6 DEF Sound
  <1>8. op' \in [Servers -> OpRows] /\ OpSound'
    <2>1. op' = [op EXCEPT ![s] = o]
      BY <1>1 DEF RevokeSession
    <2> QED
      BY <2>1, <1>4, <1>5, <1>7, OpStepKeeps
  <1> QED
    BY <1>1, <1>3, <1>4, <1>8, CredStepKeeps, CredTypes DEF IInv, RevokeSession, accessVars

\* A key is rotated, unless it was revoked since it was read: then the operation ends.
LEMMA RotateApiKeyStep ==
  ASSUME IInv, NEW s \in Servers, NEW c \in Creds, RotateApiKey(s, c)
  PROVE  IInv'
  <1> DEFINE old == op[s].cred
             new == Row("key", op[s].who, cred[old].expires)
             o == [op[s] EXCEPT !.at = "clearKeys"]
  <1>1. TypeOK /\ cred \in [Creds -> CredRows] /\ active \in [Principals -> BOOLEAN]
        /\ op[s] \in OpRows /\ op \in [Servers -> OpRows]
    BY DEF IInv, TypeOK, CredRows, OpRows
  <1>2. old \in Creds /\ op[s].who \in Principals /\ cred[old].st # "none" /\ cred[c].st = "none"
    BY DEF IInv, OpSound, Sound, RotateApiKey, Unused
  <1>3. UNCHANGED <<clock, active, cache, req, accessVars>>
    BY DEF RotateApiKey
  <1>4. CASE Rotatable(old)
    <2>1. cred' = [cred EXCEPT ![old] = Revocation(old), ![c] = new] /\ op' = [op EXCEPT ![s] = o]
      BY <1>1, <1>4 DEF RotateApiKey
    <2>2. new \in CredRows /\ new.st = "live" /\ new.who \in Principals
      BY <1>1, <1>2 DEF Row, CredRows
    <2>3. Revocation(old) \in CredRows
      BY <1>1, <1>2, RevocationRow
    <2>4. cred' \in [Creds -> CredRows]
      BY <1>1, <2>1, <2>2, <2>3
    <2>5. CredStep
      <3> SUFFICES ASSUME NEW x \in Creds
                   PROVE  \/ cred'[x] = cred[x]
                          \/ /\ cred[x].st = "live" /\ cred'[x].st = "revoked" /\ cred'[x].revokedAt = clock
                             /\ cred'[x].who = cred[x].who /\ cred'[x].expires = cred[x].expires
                          \/ cred[x].st = "none" /\ cred'[x].st = "live" /\ cred'[x].who \in Principals
        BY DEF CredStep
      <3>1. \/ x = c /\ cred'[x] = new
            \/ x = old /\ cred'[x] = Revocation(old)
            \/ cred'[x] = cred[x]
        BY <1>1, <1>2, <2>1
      <3>2. CASE x = c /\ cred'[x] = new
        BY <3>2, <1>2, <2>2
      <3>3. CASE x = old /\ cred'[x] = Revocation(old)
        BY <3>3, <1>1, <1>2, RevocationRow
      <3> QED
        BY <3>1, <3>2, <3>3
    <2>6. o \in OpRows /\ o.at = "clearKeys" /\ o.who = op[s].who
      BY <1>1 DEF OpRows, OpSteps
    <2>7. Sound(o, cred')
      BY <1>2, <2>6 DEF Sound
    <2>8. op' \in [Servers -> OpRows] /\ OpSound'
      BY <2>1, <2>5, <2>6, <2>7, OpStepKeeps
    <2> QED
      BY <1>1, <1>3, <2>4, <2>5, <2>8, CredStepKeeps, CredTypes DEF IInv, accessVars
  <1>5. CASE ~Rotatable(old)
    <2>1. op' = [op EXCEPT ![s] = IdleOp] /\ cred' = cred
      BY <1>5 DEF RotateApiKey
    <2>2. cred' \in [Creds -> CredRows] /\ CredStep
      BY <1>1, <2>1 DEF CredStep
    <2>3. IdleOp \in OpRows /\ Sound(IdleOp, cred')
      BY DEF IdleOp, OpRows, OpSteps, Sound
    <2>4. op' \in [Servers -> OpRows] /\ OpSound'
      BY <2>1, <2>2, <2>3, OpStepKeeps
    <2> QED
      BY <1>1, <1>3, <2>2, <2>4, CredStepKeeps, CredTypes DEF IInv, accessVars
  <1> QED
    BY <1>4, <1>5

-----------------------------------------------------------------------------
(* Steps of an operation that write no credential                          *)

\* A step that only sets one process's operation.
LEMMA OpOnly ==
  ASSUME IInv, NEW s \in Servers, NEW o \in OpRows, op' = [op EXCEPT ![s] = o], Sound(o, cred),
         UNCHANGED <<clock, rowVars, cache, req, accessVars, ops>>
  PROVE  IInv'
  <1>1. cred \in [Creds -> CredRows] /\ active \in [Principals -> BOOLEAN]
    BY DEF IInv, TypeOK, CredRows
  <1>2. cred' = cred /\ active' = active
    BY DEF rowVars
  <1>3. cred' \in [Creds -> CredRows] /\ CredStep /\ Sound(o, cred')
    BY <1>1, <1>2 DEF CredStep, Sound
  <1>4. op' \in [Servers -> OpRows] /\ OpSound'
    BY <1>3, OpStepKeeps
  <1> QED
    BY <1>1, <1>2, <1>3, <1>4, CredStepKeeps, CredTypes DEF IInv, accessVars

\* The first steps of an issuance, a rotation and a sign-out, and a sweep that fails.
LEMMA OpSteps1 ==
  ASSUME IInv, NEW s \in Servers,
         \/ \E p \in Principals, life \in Lifetimes : IssueApiKey(s, p, life)
         \/ \E c \in Creds : BeginRotation(s, c) \/ Logout(s, c)
         \/ FirstSweepFails(s)
  PROVE  IInv'
  <1> USE RevocationAssumption DEF RevocationAssumption
  <1>1. cred \in [Creds -> CredRows] /\ clock \in Nat
    BY DEF IInv, TypeOK, CredRows
  <1>2. ASSUME NEW p \in Principals, NEW life \in Lifetimes, IssueApiKey(s, p, life) PROVE IInv'
    <2> DEFINE o == [IdleOp EXCEPT !.at = "insert", !.who = p, !.expires = clock + life]
    <2>1. clock + life \in Nat
      BY <1>1
    <2>2. o \in OpRows /\ Sound(o, cred)
      BY <2>1 DEF IdleOp, OpRows, OpSteps, Sound
    <2> QED
      BY <1>2, <2>2, OpOnly DEF IssueApiKey
  <1>3. ASSUME NEW c \in Creds, BeginRotation(s, c) PROVE IInv'
    <2> DEFINE o == [IdleOp EXCEPT !.at = "rotate", !.who = cred[c].who, !.cred = c]
    <2>1. cred[c].who \in Principals /\ cred[c].st # "none"
      BY <1>3 DEF IInv, RowsSound, BeginRotation
    <2>2. o \in OpRows /\ Sound(o, cred)
      BY <2>1 DEF IdleOp, OpRows, OpSteps, Sound
    <2>3. op' = [op EXCEPT ![s] = o] /\ UNCHANGED <<clock, rowVars, cache, req, accessVars, ops>>
      BY <1>3 DEF BeginRotation
    <2> HIDE DEF o
    <2> QED
      BY <2>2, <2>3, OpOnly
  <1>4. ASSUME NEW c \in Creds, Logout(s, c) PROVE IInv'
    <2> DEFINE o == [IdleOp EXCEPT !.at = "logout", !.who = cred[c].who, !.cred = c]
    <2>1. cred[c].who \in Principals /\ cred[c].st # "none"
      BY <1>4 DEF IInv, RowsSound, Logout
    <2>2. o \in OpRows /\ Sound(o, cred)
      BY <2>1 DEF IdleOp, OpRows, OpSteps, Sound
    <2>3. op' = [op EXCEPT ![s] = o] /\ UNCHANGED <<clock, rowVars, cache, req, accessVars, ops>>
      BY <1>4 DEF Logout
    <2> HIDE DEF o
    <2> QED
      BY <2>2, <2>3, OpOnly
  <1>5. CASE FirstSweepFails(s)
    <2>1. IdleOp \in OpRows /\ Sound(IdleOp, cred)
      BY DEF IdleOp, OpRows, OpSteps, Sound
    <2> QED
      BY <1>5, <2>1, OpOnly DEF FirstSweepFails
  <1> QED
    BY <1>2, <1>3, <1>4, <1>5

\* Forgetting entries keeps the bounds on the others.
LEMMA CacheShrinks ==
  ASSUME IInv, cache' \in [Servers -> [Creds -> Nat]],
         \A s \in Servers, c \in Creds : cache'[s][c] = 0 \/ cache'[s][c] = cache[s][c],
         UNCHANGED <<clock, cred>>
  PROVE  CacheBound'
  <1> SUFFICES ASSUME NEW s \in Servers, NEW c \in Creds
               PROVE  /\ cache'[s][c] <= cred[c].expires
                      /\ cache'[s][c] <= clock + TTL
                      /\ Revoked(c) => cache'[s][c] <= cred[c].revokedAt + TTL
    BY DEF CacheBound, Revoked
  <1>1. clock \in Nat /\ TTL \in Nat /\ cred[c].expires \in Nat /\ cred[c].revokedAt \in Nat
    BY RevocationAssumption DEF RevocationAssumption, IInv, TypeOK
  <1>2. CASE cache'[s][c] = 0
    BY <1>1, <1>2
  <1>3. CASE cache'[s][c] = cache[s][c]
    BY <1>3 DEF IInv, CacheBound
  <1> QED
    BY <1>2, <1>3

\* The process that ended the access clears its own caches.
LEMMA ClearStep ==
  ASSUME IInv, NEW s \in Servers, Clear(s)
  PROVE  IInv'
  <1> DEFINE o == [op[s] EXCEPT !.at = "sweep"]
             empty == [c \in Creds |-> IF op[s].at = "clear" \/ cred[c].kind = "key" THEN 0
                                       ELSE cache[s][c]]
  <1>1. op \in [Servers -> OpRows] /\ op[s] \in OpRows /\ cache \in [Servers -> [Creds -> Nat]]
        /\ cred \in [Creds -> CredRows]
    BY DEF IInv, TypeOK, OpRows, CredRows
  <1>2. cred' = cred /\ active' = active /\ UNCHANGED <<clock, req, leases, bootstraps, timers, swept>>
    BY DEF Clear, rowVars, accessVars
  <1>3. cache' = [cache EXCEPT ![s] = empty]
    BY DEF Clear
  <1>4. empty \in [Creds -> Nat]
    BY <1>1
  <1>5. cache' \in [Servers -> [Creds -> Nat]]
    BY <1>1, <1>3, <1>4
  <1>6. \A x \in Servers, c \in Creds : cache'[x][c] = 0 \/ cache'[x][c] = cache[x][c]
    BY <1>1, <1>3
  <1>7. CacheBound'
    BY <1>2, <1>5, <1>6, CacheShrinks
  <1>8. o \in OpRows /\ o.at = "sweep" /\ o.who = op[s].who /\ op' = [op EXCEPT ![s] = o]
    BY <1>1 DEF OpRows, OpSteps, Clear
  <1>9. op[s].who \in Principals
    BY DEF IInv, OpSound, Sound, Clear
  <1>10. Sound(o, cred') /\ CredStep
    BY <1>2, <1>8, <1>9 DEF Sound, CredStep
  <1> HIDE DEF o, empty
  <1>11. op' \in [Servers -> OpRows] /\ OpSound'
    BY <1>8, <1>10, OpStepKeeps
  <1>12. TypeOK'
    BY <1>2, <1>5, <1>11 DEF IInv, TypeOK, OpRows
  <1>13. RowsSound' /\ RequestBound' /\ LeaseBound' /\ SweepBound'
    BY <1>2 DEF IInv, RowsSound, RequestBound, LeaseBound, SweepBound, Revoked, SweepDelay
  <1> QED
    BY <1>7, <1>11, <1>12, <1>13 DEF IInv

\* The signed-out session is evicted.
LEMMA EvictSessionStep ==
  ASSUME IInv, NEW s \in Servers, EvictSession(s)
  PROVE  IInv'
  <1>1. op \in [Servers -> OpRows] /\ cache \in [Servers -> [Creds -> Nat]]
    BY DEF IInv, TypeOK, OpRows
  <1>2. cred' = cred /\ active' = active /\ UNCHANGED <<clock, req, leases, bootstraps, timers, swept>>
    BY DEF EvictSession, rowVars, accessVars
  <1>3. op[s].cred \in Creds
    BY DEF IInv, OpSound, Sound, EvictSession
  <1>4. cache' = [cache EXCEPT ![s] = [cache[s] EXCEPT ![op[s].cred] = 0]]
    BY <1>1 DEF EvictSession
  <1>5. cache' \in [Servers -> [Creds -> Nat]]
    BY <1>1, <1>3, <1>4
  <1>6. \A x \in Servers, c \in Creds : cache'[x][c] = 0 \/ cache'[x][c] = cache[x][c]
    BY <1>1, <1>3, <1>4
  <1>7. CacheBound'
    BY <1>2, <1>5, <1>6, CacheShrinks
  <1>8. IdleOp \in OpRows /\ op' = [op EXCEPT ![s] = IdleOp] /\ Sound(IdleOp, cred') /\ CredStep
    BY <1>2 DEF IdleOp, OpRows, OpSteps, Sound, EvictSession, CredStep
  <1>9. op' \in [Servers -> OpRows] /\ OpSound'
    BY <1>8, OpStepKeeps
  <1>10. TypeOK'
    BY <1>2, <1>5, <1>9 DEF IInv, TypeOK, OpRows
  <1>11. RowsSound' /\ RequestBound' /\ LeaseBound' /\ SweepBound'
    BY <1>2 DEF IInv, RowsSound, RequestBound, LeaseBound, SweepBound, Revoked, SweepDelay
  <1> QED
    BY <1>7, <1>9, <1>10, <1>11 DEF IInv

\* A process ends, and with it its caches, requests, operation and timers.
LEMMA CrashStep ==
  ASSUME IInv, NEW s \in Servers, Crash(s)
  PROVE  IInv'
  <1>1. op \in [Servers -> OpRows] /\ cache \in [Servers -> [Creds -> Nat]]
        /\ req \in [Requests -> RequestRows] /\ timers \subseteq TimerRows
    BY DEF IInv, TypeOK, OpRows, RequestRows, TimerRows
  <1>2. cred' = cred /\ active' = active /\ UNCHANGED <<clock, leases, bootstraps, swept>>
    BY DEF Crash, rowVars
  <1>3. cache' \in [Servers -> [Creds -> Nat]]
        /\ \A x \in Servers, c \in Creds : cache'[x][c] = 0 \/ cache'[x][c] = cache[x][c]
    BY <1>1 DEF Crash
  <1>4. CacheBound'
    BY <1>2, <1>3, CacheShrinks
  <1>5. IdleOp \in OpRows /\ op' = [op EXCEPT ![s] = IdleOp] /\ Sound(IdleOp, cred') /\ CredStep
    BY <1>2 DEF IdleOp, OpRows, OpSteps, Sound, Crash, CredStep
  <1>6. op' \in [Servers -> OpRows] /\ OpSound'
    BY <1>5, OpStepKeeps
  <1>7. IdleRequest \in RequestRows /\ IdleRequest.at = "idle"
    BY DEF IdleRequest, RequestRows, RequestSteps
  <1>8. req' \in [Requests -> RequestRows] /\ \A r \in Requests : req'[r] = req[r] \/ req'[r] = IdleRequest
    BY <1>1, <1>7 DEF Crash
  <1>9. RequestBound'
    BY <1>2, <1>7, <1>8 DEF IInv, RequestBound, Revoked
  <1>10. TypeOK'
    BY <1>1, <1>2, <1>3, <1>6, <1>8 DEF IInv, TypeOK, OpRows, RequestRows, TimerRows, Crash
  <1>11. RowsSound' /\ LeaseBound' /\ SweepBound'
    BY <1>2 DEF IInv, RowsSound, LeaseBound, SweepBound, Revoked, SweepDelay
  <1> QED
    BY <1>4, <1>6, <1>9, <1>10, <1>11 DEF IInv

\* Time passes; every bound is against a past moment or moves with the clock.
LEMMA TickStep ==
  ASSUME IInv, Tick
  PROVE  IInv'
  <1> USE RevocationAssumption DEF RevocationAssumption
  <1>1. clock \in Nat /\ clock' = clock + 1 /\ TTL \in Nat
    BY DEF IInv, TypeOK, Tick
  <1>2. UNCHANGED <<active, cred, cache, req, op, leases, bootstraps, timers, swept>>
    BY DEF Tick
  <1>3. TypeOK'
    BY <1>1, <1>2 DEF IInv, TypeOK
  <1>4. RowsSound' /\ OpSound'
    BY <1>1, <1>2 DEF IInv, TypeOK, RowsSound, OpSound, Sound, Revoked
  <1>5. CacheBound'
    BY <1>1, <1>2 DEF IInv, TypeOK, CacheBound, Revoked
  <1>6. RequestBound'
    BY <1>1, <1>2 DEF IInv, TypeOK, RequestBound, Revoked
  <1>7. LeaseBound'
    BY <1>1, <1>2 DEF IInv, TypeOK, LeaseBound, Revoked, SweepDelay
  <1>8. SweepBound'
    BY <1>1, <1>2 DEF IInv, TypeOK, SweepBound, SweepDelay
  <1> QED
    BY <1>3, <1>4, <1>5, <1>6, <1>7, <1>8 DEF IInv

-----------------------------------------------------------------------------
(* Requests, leases and sweeps                                             *)

\* What a request's row must satisfy for the bound.
Within(q) ==
    q.at # "idle" =>
       /\ q.cred \in Creds /\ q.server \in Servers /\ q.began <= clock
       /\ q.at \in {"found", "authenticated"} => cred[q.cred].st # "none"
       /\ q.at = "found" /\ Revoked(q.cred) => q.began <= cred[q.cred].revokedAt
       /\ q.at = "authenticated" /\ Revoked(q.cred) => q.began < cred[q.cred].revokedAt + TTL

\* A step that moves one request to such a row keeps the bound on all of them.
LEMMA RequestKept ==
  ASSUME IInv, NEW r \in Requests, NEW q \in RequestRows, Within(q), req' = [req EXCEPT ![r] = q],
         UNCHANGED <<clock, cred>>
  PROVE  req' \in [Requests -> RequestRows] /\ RequestBound'
  <1>1. req \in [Requests -> RequestRows]
    BY DEF IInv, TypeOK, RequestRows
  <1>2. ASSUME NEW x \in Requests
        PROVE  LET c == req'[x].cred
               IN  req'[x].at # "idle" =>
                     /\ c \in Creds /\ req'[x].server \in Servers /\ req'[x].began <= clock
                     /\ req'[x].at \in {"found", "authenticated"} => cred[c].st # "none"
                     /\ req'[x].at = "found" /\ Revoked(c) => req'[x].began <= cred[c].revokedAt
                     /\ req'[x].at = "authenticated" /\ Revoked(c) =>
                           req'[x].began < cred[c].revokedAt + TTL
    <2>1. CASE x = r
      BY <1>1, <2>1 DEF Within
    <2>2. CASE x # r
      BY <1>1, <2>2 DEF IInv, RequestBound
    <2> QED
      BY <2>1, <2>2
  <1> QED
    BY <1>1, <1>2 DEF RequestBound, Revoked

\* The idle request is within every bound.
LEMMA IdleWithin == IdleRequest \in RequestRows /\ Within(IdleRequest)
  BY DEF IdleRequest, RequestRows, RequestSteps, Within

\* A step that moves one request and touches nothing else.
LEMMA RequestOnly ==
  ASSUME IInv, NEW r \in Requests, NEW q \in RequestRows, Within(q), req' = [req EXCEPT ![r] = q],
         UNCHANGED <<clock, rowVars, cache, op, accessVars, ops>>
  PROVE  IInv'
  <1>1. UNCHANGED <<clock, active, cred, cache, op, leases, bootstraps, timers, swept>>
    BY DEF rowVars, accessVars
  <1>2. req' \in [Requests -> RequestRows] /\ RequestBound'
    BY <1>1, RequestKept
  <1>3. TypeOK'
    BY <1>1, <1>2 DEF IInv, TypeOK, RequestRows
  <1>4. RowsSound' /\ CacheBound' /\ OpSound' /\ LeaseBound' /\ SweepBound'
    BY <1>1 DEF IInv, RowsSound, CacheBound, OpSound, Sound, LeaseBound, SweepBound, Revoked, SweepDelay
  <1> QED
    BY <1>2, <1>3, <1>4 DEF IInv

\* A request begins: an entry that serves it bounds its time by the revocation's.
LEMMA BeginRequestStep ==
  ASSUME IInv, NEW r \in Requests, NEW s \in Servers, NEW c \in Creds, BeginRequest(r, s, c)
  PROVE  IInv'
  <1> DEFINE q == [at |-> IF Cached(s, c) THEN "authenticated" ELSE "lookup",
                   server |-> s, cred |-> c, began |-> clock]
  <1>1. clock \in Nat /\ cache[s][c] \in Nat /\ cred[c] \in CredRows /\ TTL \in Nat
    BY RevocationAssumption DEF RevocationAssumption, IInv, TypeOK, CredRows
  <1>2. q \in RequestRows
    BY <1>1 DEF RequestRows, RequestSteps
  <1>3. Cached(s, c) => cred[c].st # "none"
    BY <1>1 DEF IInv, CacheBound, RowsSound, Cached, CredRows
  <1>4. Cached(s, c) /\ Revoked(c) => clock < cred[c].revokedAt + TTL
    BY <1>1 DEF IInv, CacheBound, Cached, CredRows
  <1>5. Within(q)
    BY <1>1, <1>3, <1>4 DEF Within
  <1>6. req' = [req EXCEPT ![r] = q] /\ UNCHANGED <<clock, rowVars, cache, op, accessVars, ops>>
    BY DEF BeginRequest
  <1> HIDE DEF q
  <1> QED
    BY <1>2, <1>5, <1>6, RequestOnly

\* The row is read: it is live, or the request is refused.
LEMMA LookupStep ==
  ASSUME IInv, NEW r \in Requests, Lookup(r)
  PROVE  IInv'
  <1> DEFINE q == [req[r] EXCEPT !.at = "found"]
  <1>1. req[r] \in RequestRows
    BY DEF IInv, TypeOK, RequestRows
  <1>2. req[r].cred \in Creds /\ req[r].server \in Servers /\ req[r].began <= clock
    BY DEF IInv, RequestBound, Lookup
  <1>3. UNCHANGED <<clock, rowVars, cache, op, accessVars, ops>>
    BY DEF Lookup
  <1>4. CASE Valid(req[r].cred, req[r].began)
    <2>1. q \in RequestRows /\ q.at = "found" /\ q.cred = req[r].cred /\ q.server = req[r].server
          /\ q.began = req[r].began
      BY <1>1 DEF RequestRows, RequestSteps
    <2>2. Within(q)
      BY <1>2, <1>4, <2>1 DEF Within, Valid, Revoked
    <2>3. req' = [req EXCEPT ![r] = q]
      BY <1>4 DEF Lookup
    <2> HIDE DEF q
    <2> QED
      BY <1>3, <2>1, <2>2, <2>3, RequestOnly
  <1>5. CASE ~Valid(req[r].cred, req[r].began)
    BY <1>3, <1>5, IdleWithin, RequestOnly DEF Lookup
  <1> QED
    BY <1>4, <1>5

\* A request ends without issuing anything.
LEMMA EndRequestStep ==
  ASSUME IInv, NEW r \in Requests, EndRequest(r)
  PROVE  IInv'
  BY IdleWithin, RequestOnly DEF EndRequest

\* The cache is filled: the entry's life is counted from the request's time, which
\* lies before the revocation if there has been one since the row was read.
LEMMA FillStep ==
  ASSUME IInv, NEW r \in Requests, Fill(r)
  PROVE  IInv'
  <1> DEFINE c == req[r].cred
             s == req[r].server
             t == NotAfter(req[r].began, cred[c].expires)
             q == [req[r] EXCEPT !.at = "authenticated"]
  <1> USE RevocationAssumption DEF RevocationAssumption
  <1>1. req[r] \in RequestRows /\ req \in [Requests -> RequestRows]
        /\ cache \in [Servers -> [Creds -> Nat]] /\ clock \in Nat
    BY DEF IInv, TypeOK, RequestRows
  <1>2. c \in Creds /\ s \in Servers /\ req[r].began <= clock /\ req[r].began \in Nat
        /\ cred[c].st # "none" /\ (Revoked(c) => req[r].began <= cred[c].revokedAt)
    BY <1>1 DEF IInv, RequestBound, Fill, RequestRows
  <1>3. cred[c].expires \in Nat /\ cred[c].revokedAt \in Nat
    BY <1>2 DEF IInv, TypeOK
  <1>4. t \in Nat /\ t <= cred[c].expires /\ t <= clock + TTL
        /\ (Revoked(c) => t <= cred[c].revokedAt + TTL)
    BY <1>1, <1>2, <1>3 DEF NotAfter
  <1>5. UNCHANGED <<clock, active, cred, op, leases, bootstraps, timers, swept>>
    BY DEF Fill, rowVars, accessVars
  <1>6. req' = [req EXCEPT ![r] = q]
    BY <1>1 DEF Fill
  <1>7. q \in RequestRows /\ q.at = "authenticated" /\ q.cred = c /\ q.server = s /\ q.began = req[r].began
    BY <1>1 DEF RequestRows, RequestSteps
  <1>8. Within(q)
    BY <1>2, <1>3, <1>7 DEF Within
  <1>9. CacheSet(s, c, t)
    BY DEF Fill
  <1> HIDE DEF q, t, c, s
  <1>10. req' \in [Requests -> RequestRows] /\ RequestBound'
    BY <1>5, <1>6, <1>7, <1>8, RequestKept
  <1>11. /\ cache' \in [Servers -> [Creds -> Nat]]
         /\ \A x \in Servers, y \in Creds :
               cache'[x][y] \in {0, cache[x][y]} \/ (y = c /\ cache'[x][y] = t)
    <2> DEFINE others == {x \in Creds \ {c} : cache[s][x] # 0}
    <2>1. CASE cache' = [cache EXCEPT ![s][c] = t]
      BY <1>1, <1>2, <1>4, <2>1
    <2>2. CASE \E x \in others : cache' = [cache EXCEPT ![s][c] = t, ![s][x] = 0]
      <3>1. PICK x \in others : cache' = [cache EXCEPT ![s][c] = t, ![s][x] = 0]
        BY <2>2
      <3>2. x \in Creds /\ x # c
        OBVIOUS
      <3> QED
        BY <1>1, <1>2, <1>4, <3>1, <3>2
    <2> QED
      BY <1>9, <2>1, <2>2 DEF CacheSet
  <1>12. CacheBound'
    <2> SUFFICES ASSUME NEW x \in Servers, NEW y \in Creds
                 PROVE  /\ cache'[x][y] <= cred[y].expires
                        /\ cache'[x][y] <= clock + TTL
                        /\ Revoked(y) => cache'[x][y] <= cred[y].revokedAt + TTL
      BY <1>5 DEF CacheBound, Revoked
    <2>1. cred[y].expires \in Nat /\ cred[y].revokedAt \in Nat
      BY DEF IInv, TypeOK
    <2>2. CASE cache'[x][y] = 0
      BY <1>1, <2>1, <2>2
    <2>3. CASE cache'[x][y] = cache[x][y]
      BY <2>3 DEF IInv, CacheBound
    <2>4. CASE y = c /\ cache'[x][y] = t
      BY <1>4, <2>4
    <2> QED
      BY <1>11, <2>2, <2>3, <2>4
  <1>13. TypeOK'
    BY <1>5, <1>10, <1>11 DEF IInv, TypeOK, RequestRows
  <1>14. RowsSound' /\ OpSound' /\ LeaseBound' /\ SweepBound'
    BY <1>5 DEF IInv, RowsSound, OpSound, Sound, LeaseBound, SweepBound, Revoked, SweepDelay
  <1> QED
    BY <1>10, <1>12, <1>13, <1>14 DEF IInv

\* A lease: its request began within TTL of the revocation, and now is later than
\* what any second sweep has removed.
LEMMA IssueLeaseStep ==
  ASSUME IInv, NEW r \in Requests, IssueLease(r)
  PROVE  IInv'
  <1> DEFINE c == req[r].cred
             l == [who |-> cred[c].who, cred |-> c, began |-> req[r].began, made |-> clock,
                   via |-> "request"]
  <1>1. req[r] \in RequestRows /\ clock \in Nat
    BY DEF IInv, TypeOK, RequestRows
  <1>2. c \in Creds /\ req[r].began <= clock /\ cred[c].st # "none"
        /\ (Revoked(c) => req[r].began < cred[c].revokedAt + TTL)
    BY DEF IInv, RequestBound, IssueLease
  <1>3. cred[c].who \in Principals
    BY <1>2 DEF IInv, RowsSound
  <1>4. l \in LeaseRows
    BY <1>1, <1>2, <1>3 DEF LeaseRows, RequestRows
  <1>5. UNCHANGED <<clock, active, cred, cache, op, bootstraps, timers, swept>>
        /\ leases' = leases \cup {l} /\ req' = [req EXCEPT ![r] = IdleRequest]
    BY DEF IssueLease, rowVars
  <1>6. req' \in [Requests -> RequestRows] /\ RequestBound'
    BY <1>5, IdleWithin, RequestKept
  <1>7. TypeOK'
    BY <1>4, <1>5, <1>6 DEF IInv, TypeOK, RequestRows, LeaseRows
  <1>8. LeaseBound'
    <2> SUFFICES ASSUME NEW x \in leases'
                 PROVE  /\ x.via = "request" =>
                              /\ cred[x.cred].st # "none" /\ x.began <= clock
                              /\ Revoked(x.cred) => x.began < cred[x.cred].revokedAt + TTL
                        /\ swept[x.who] >= 0 => x.made >= swept[x.who] + SweepDelay
      BY <1>5 DEF LeaseBound, Revoked, SweepDelay
    <2>1. CASE x \in leases
      BY <2>1 DEF IInv, LeaseBound
    <2>2. CASE x = l
      BY <1>2, <1>3, <2>2 DEF IInv, SweepBound
    <2> QED
      BY <1>5, <2>1, <2>2
  <1>9. RowsSound' /\ CacheBound' /\ OpSound' /\ SweepBound'
    BY <1>5 DEF IInv, RowsSound, CacheBound, OpSound, Sound, SweepBound, Revoked, SweepDelay
  <1> QED
    BY <1>6, <1>7, <1>8, <1>9 DEF IInv

\* A bootstrap is issued for the credential's holder.
LEMMA IssueBootstrapStep ==
  ASSUME IInv, NEW r \in Requests, IssueBootstrap(r)
  PROVE  IInv'
  <1> USE RevocationAssumption DEF RevocationAssumption
  <1> DEFINE c == req[r].cred
             b == [who |-> cred[c].who, cred |-> c, began |-> req[r].began,
                   expires |-> clock + BootstrapLife]
  <1>1. req[r] \in RequestRows /\ clock + BootstrapLife \in Nat
    BY DEF IInv, TypeOK, RequestRows
  <1>2. c \in Creds /\ cred[c].st # "none"
    BY DEF IInv, RequestBound, IssueBootstrap
  <1>3. cred[c].who \in Principals
    BY <1>2 DEF IInv, RowsSound
  <1>4. b \in BootstrapRows
    BY <1>1, <1>2, <1>3 DEF BootstrapRows, RequestRows
  <1>5. UNCHANGED <<clock, active, cred, cache, op, leases, timers, swept>>
        /\ bootstraps' = bootstraps \cup {b} /\ req' = [req EXCEPT ![r] = IdleRequest]
    BY DEF IssueBootstrap, rowVars
  <1>6. req' \in [Requests -> RequestRows] /\ RequestBound'
    BY <1>5, IdleWithin, RequestKept
  <1>7. TypeOK'
    BY <1>4, <1>5, <1>6 DEF IInv, TypeOK, RequestRows, BootstrapRows
  <1>8. RowsSound' /\ CacheBound' /\ OpSound' /\ LeaseBound' /\ SweepBound'
    BY <1>5 DEF IInv, RowsSound, CacheBound, OpSound, Sound, LeaseBound, SweepBound, Revoked, SweepDelay
  <1> QED
    BY <1>6, <1>7, <1>8 DEF IInv

\* A bootstrap is exchanged, however old its holder's request is.
LEMMA ExchangeBootstrapStep ==
  ASSUME IInv, NEW b \in bootstraps, ExchangeBootstrap(b)
  PROVE  IInv'
  <1> DEFINE l == [who |-> b.who, cred |-> b.cred, began |-> b.began, made |-> clock,
                   via |-> "bootstrap"]
  <1>1. b \in BootstrapRows /\ clock \in Nat
    BY DEF IInv, TypeOK, BootstrapRows
  <1>2. l \in LeaseRows
    BY <1>1 DEF LeaseRows, BootstrapRows
  <1>3. UNCHANGED <<clock, active, cred, cache, req, op, timers, swept>>
        /\ leases' = leases \cup {l} /\ bootstraps' \subseteq bootstraps
    BY DEF ExchangeBootstrap, rowVars
  <1>4. TypeOK'
    BY <1>2, <1>3 DEF IInv, TypeOK, LeaseRows
  <1>5. LeaseBound'
    <2> SUFFICES ASSUME NEW x \in leases'
                 PROVE  /\ x.via = "request" =>
                              /\ cred[x.cred].st # "none" /\ x.began <= clock
                              /\ Revoked(x.cred) => x.began < cred[x.cred].revokedAt + TTL
                        /\ swept[x.who] >= 0 => x.made >= swept[x.who] + SweepDelay
      BY <1>3 DEF LeaseBound, Revoked, SweepDelay
    <2>1. CASE x \in leases
      BY <2>1 DEF IInv, LeaseBound
    <2>2. CASE x = l
      BY <1>1, <2>2 DEF IInv, SweepBound, BootstrapRows
    <2> QED
      BY <1>3, <2>1, <2>2
  <1>6. RowsSound' /\ CacheBound' /\ RequestBound' /\ OpSound' /\ SweepBound'
    BY <1>3 DEF IInv, RowsSound, CacheBound, RequestBound, OpSound, Sound, SweepBound, Revoked, SweepDelay
  <1> QED
    BY <1>4, <1>5, <1>6 DEF IInv

\* The first sweep removes leases and starts a timer.
LEMMA EndContentAccessStep ==
  ASSUME IInv, NEW s \in Servers, EndContentAccess(s)
  PROVE  IInv'
  <1> DEFINE o == IF op[s].at = "logout" THEN [op[s] EXCEPT !.at = "revoke"] ELSE IdleOp
             t == [server |-> s, who |-> op[s].who, since |-> clock]
  <1>1. op \in [Servers -> OpRows] /\ op[s] \in OpRows /\ clock \in Nat
    BY DEF IInv, TypeOK, OpRows
  <1>2. op[s].who \in Principals /\ Sound(op[s], cred)
    BY DEF IInv, OpSound, Sound, EndContentAccess
  <1>3. t \in TimerRows
    BY <1>1, <1>2 DEF TimerRows
  <1>4. UNCHANGED <<clock, active, cred, cache, req, bootstraps, swept>> /\ leases' \subseteq leases
        /\ timers' = timers \cup {t} /\ op' = [op EXCEPT ![s] = o]
    BY DEF EndContentAccess, rowVars
  <1>5. o \in OpRows /\ Sound(o, cred') /\ CredStep
    <2>1. CASE op[s].at = "logout"
      <3>1. o = [op[s] EXCEPT !.at = "revoke"]
        BY <2>1
      <3>2. o \in OpRows /\ o.at = "revoke" /\ o.who = op[s].who /\ o.cred = op[s].cred
        BY <1>1, <3>1 DEF OpRows, OpSteps
      <3> HIDE DEF o
      <3> QED
        BY <1>2, <1>4, <2>1, <3>2 DEF Sound, CredStep
    <2>2. CASE op[s].at # "logout"
      BY <1>4, <2>2 DEF IdleOp, OpRows, OpSteps, Sound, CredStep
    <2> QED
      BY <2>1, <2>2
  <1> HIDE DEF o, t
  <1>6. op' \in [Servers -> OpRows] /\ OpSound'
    BY <1>4, <1>5, OpStepKeeps
  <1>7. TypeOK'
    BY <1>3, <1>4, <1>6 DEF IInv, TypeOK, OpRows, TimerRows
  <1>8. RowsSound' /\ CacheBound' /\ RequestBound' /\ LeaseBound' /\ SweepBound'
    BY <1>4 DEF IInv, RowsSound, CacheBound, RequestBound, LeaseBound, SweepBound, Revoked, SweepDelay
  <1> QED
    BY <1>6, <1>7, <1>8 DEF IInv

\* The second sweep removes the principal's leases and dates those that follow.
LEMMA SecondSweepStep ==
  ASSUME IInv, NEW t \in timers, SecondSweep(t)
  PROVE  IInv'
  <1> USE RevocationAssumption DEF RevocationAssumption
  <1>1. t \in TimerRows /\ t.who \in Principals /\ t.since \in Nat /\ clock \in Nat
        /\ swept \in [Principals -> Nat \cup {-1}]
    BY DEF IInv, TypeOK, TimerRows
  <1>2. UNCHANGED <<clock, active, cred, cache, req, op, bootstraps>> /\ timers' \subseteq timers
        /\ leases' = {l \in leases : l.who # t.who} /\ clock >= t.since + SweepDelay
    BY DEF SecondSweep, rowVars
  <1>3. swept' \in [Principals -> Nat \cup {-1}]
        /\ (swept'[t.who] = t.since \/ swept'[t.who] = swept[t.who])
        /\ \A p \in Principals \ {t.who} : swept'[p] = swept[p]
    BY <1>1 DEF SecondSweep
  <1>4. TypeOK'
    BY <1>2, <1>3 DEF IInv, TypeOK
  <1>5. SweepBound'
    <2> SUFFICES ASSUME NEW p \in Principals, swept'[p] >= 0
                 PROVE  clock >= swept'[p] + SweepDelay
      BY <1>2 DEF SweepBound, SweepDelay
    <2>1. swept'[p] = swept[p] \/ (p = t.who /\ swept'[p] = t.since)
      BY <1>3
    <2> QED
      BY <1>2, <2>1 DEF IInv, SweepBound
  <1>6. LeaseBound'
    <2> SUFFICES ASSUME NEW x \in leases'
                 PROVE  /\ x.via = "request" =>
                              /\ cred[x.cred].st # "none" /\ x.began <= clock
                              /\ Revoked(x.cred) => x.began < cred[x.cred].revokedAt + TTL
                        /\ swept'[x.who] >= 0 => x.made >= swept'[x.who] + SweepDelay
      BY <1>2 DEF LeaseBound, Revoked, SweepDelay
    <2>1. x \in leases /\ x.who \in Principals \ {t.who}
      BY <1>2 DEF IInv, TypeOK
    <2>2. swept'[x.who] = swept[x.who]
      BY <1>3, <2>1
    <2> QED
      BY <2>1, <2>2 DEF IInv, LeaseBound
  <1>7. RowsSound' /\ CacheBound' /\ RequestBound' /\ OpSound'
    BY <1>2 DEF IInv, RowsSound, CacheBound, RequestBound, OpSound, Sound, Revoked
  <1> QED
    BY <1>4, <1>5, <1>6, <1>7 DEF IInv

\* A second sweep that fails leaves the leases, and dates nothing.
LEMMA SecondSweepFailsStep ==
  ASSUME IInv, NEW t \in timers, SecondSweepFails(t)
  PROVE  IInv'
  <1>1. UNCHANGED <<clock, active, cred, cache, req, op, leases, bootstraps, swept>> /\ timers' \subseteq timers
    BY DEF SecondSweepFails, rowVars
  <1>2. TypeOK'
    BY <1>1 DEF IInv, TypeOK
  <1> QED
    BY <1>1, <1>2 DEF IInv, RowsSound, CacheBound, RequestBound, OpSound, Sound, LeaseBound, SweepBound,
                      Revoked, SweepDelay

-----------------------------------------------------------------------------
(* The theorems                                                            *)

\* Every step keeps the inductive invariant.
LEMMA NextIInv == IInv /\ [Next]_vars => IInv'
  <1> SUFFICES ASSUME IInv, [Next]_vars PROVE IInv'
    OBVIOUS
  <1>1. CASE Tick
    BY <1>1, TickStep
  <1>2. CASE RequestStep
    BY <1>2, BeginRequestStep, LookupStep, FillStep, IssueLeaseStep, IssueBootstrapStep,
       EndRequestStep, ExchangeBootstrapStep DEF RequestStep
  <1>3. CASE CredentialStep
    <2>1. CASE \E p \in Principals, c \in Creds, life \in Lifetimes : IssueSession(p, c, life)
      BY <2>1, IssueSessionStep
    <2>2. ASSUME NEW s \in Servers,
                 \/ \E p \in Principals, life \in Lifetimes : IssueApiKey(s, p, life)
                 \/ \E c \in Creds : BeginRotation(s, c) \/ Logout(s, c)
          PROVE  IInv'
      BY <2>2, OpSteps1
    <2>3. ASSUME NEW s \in Servers,
                 \/ \E p \in Principals : DeactivateMember(s, p)
                 \/ \E c \in Creds : InsertApiKey(s, c) \/ RevokeApiKey(s, c) \/ RotateApiKey(s, c)
          PROVE  IInv'
      BY <2>3, DeactivateMemberStep, InsertApiKeyStep, RevokeApiKeyStep, RotateApiKeyStep
    <2>4. ASSUME NEW s \in Servers, Clear(s) \/ RevokeSession(s) \/ EvictSession(s)
          PROVE  IInv'
      BY <2>4, ClearStep, RevokeSessionStep, EvictSessionStep
    <2> QED
      BY <1>3, <2>1, <2>2, <2>3, <2>4 DEF CredentialStep
  <1>4. CASE SweepStep
    <2>1. ASSUME NEW s \in Servers, FirstSweepFails(s) PROVE IInv'
      BY <2>1, OpSteps1
    <2> QED
      BY <1>4, <2>1, EndContentAccessStep, CrashStep, SecondSweepStep, SecondSweepFailsStep
         DEF SweepStep
  <1>5. CASE UNCHANGED vars
    <2>1. UNCHANGED <<clock, active, cred, cache, req, op, leases, bootstraps, timers, swept>>
      BY <1>5 DEF vars
    <2>2. TypeOK'
      BY <2>1 DEF IInv, TypeOK
    <2> QED
      BY <2>1, <2>2 DEF IInv, RowsSound, CacheBound, RequestBound, OpSound, Sound, LeaseBound,
                        SweepBound, Revoked, SweepDelay
  <1> QED
    BY <1>1, <1>2, <1>3, <1>4, <1>5 DEF Next

\* The invariant holds in every reachable state.
LEMMA Invariance == Spec => []IInv
  BY InitIInv, NextIInv, PTL DEF Spec

\* Type correctness of the rows, caches, requests, leases and timers.
THEOREM TypeCorrect == Spec => []TypeOK
  <1>1. IInv => TypeOK
    BY DEF IInv
  <1> QED
    BY <1>1, Invariance, PTL

\* For any number of server processes and requests, a revoked credential
\* authenticates no request that begins TTL or more after its revocation, and no
\* cache entry outlives the credential that it stands for.
THEOREM StalenessBounded == Spec => []RevocationIsSound
  <1>1. IInv => RevocationIsSound
    BY DEF IInv, CacheBound, RequestBound, BoundedStaleness, RevocationIsSound
  <1> QED
    BY <1>1, Invariance, PTL

\* When a pair of sweeps has been run, what is left of an ended credential's leases
\* was issued by requests slower than the margin.
THEOREM SweepsSound == Spec => []SweepsEndAccess
  <1>1. IInv => SweepsEndAccess
    <2> SUFFICES ASSUME IInv, NEW l \in leases, l.via = "request", Revoked(l.cred), swept[l.who] >= 0
                 PROVE  l.made - l.began >= Margin + swept[l.who] - cred[l.cred].revokedAt
      BY DEF SweepsEndAccess
    <2>1. l.made \in Nat /\ l.began \in Nat /\ cred[l.cred].revokedAt \in Nat
          /\ swept[l.who] \in Int /\ TTL \in Nat /\ Margin \in Nat
      BY RevocationAssumption DEF RevocationAssumption, IInv, TypeOK
    <2>2. l.made >= swept[l.who] + TTL + Margin /\ l.began < cred[l.cred].revokedAt + TTL
      BY <2>1 DEF IInv, LeaseBound, SweepDelay
    <2> QED
      BY <2>1, <2>2
  <1> QED
    BY <1>1, Invariance, PTL

-----------------------------------------------------------------------------
(* Keys die with their member                                              *)

\* A rotation holds a key of the principal it was started for.
RotationSound ==
    \A s \in Servers :
       op[s].at = "rotate" =>
          cred[op[s].cred].kind = "key" /\ cred[op[s].cred].who = op[s].who

\* A row keeps its kind and its holder, and a revoked one stays revoked.
Ages(c) ==
    /\ cred'[c].kind = cred[c].kind /\ cred'[c].who = cred[c].who
    /\ cred'[c].st = cred[c].st \/ (cred[c].st = "live" /\ cred'[c].st = "revoked")

LEMMA RevocationAges ==
  ASSUME TypeOK, NEW c \in Creds
  PROVE  /\ Revocation(c).kind = cred[c].kind /\ Revocation(c).who = cred[c].who
         /\ \/ Revocation(c).st = cred[c].st
            \/ cred[c].st = "live" /\ Revocation(c).st = "revoked"
  <1>1. cred[c] \in CredRows
    BY DEF TypeOK, CredRows
  <1> QED
    BY <1>1 DEF Revocation, CredRows

\* The steps that insert a row.
Inserts ==
    \/ \E p \in Principals, c \in Creds, life \in Lifetimes : IssueSession(p, c, life)
    \/ \E s \in Servers, c \in Creds : InsertApiKey(s, c)
    \/ \E s \in Servers, c \in Creds : RotateApiKey(s, c) /\ Rotatable(op[s].cred)

\* Every other step only lets rows age.
LEMMA RowsAge ==
  ASSUME IInv, [Next]_vars, ~Inserts
  PROVE  \A c \in Creds : Ages(c)
  <1>1. TypeOK /\ cred \in [Creds -> CredRows]
    BY DEF IInv, TypeOK, CredRows
  <1>2. ASSUME cred' = cred PROVE \A c \in Creds : Ages(c)
    BY <1>2 DEF Ages
  <1>3. ASSUME NEW s \in Servers, NEW p \in Principals, DeactivateMember(s, p)
        PROVE  \A c \in Creds : Ages(c)
    <2>1. \A c \in Creds : cred'[c] = IF cred[c].who = p THEN Revocation(c) ELSE cred[c]
      BY <1>3 DEF DeactivateMember
    <2> QED
      BY <1>1, <2>1, RevocationAges DEF Ages
  <1>4. ASSUME NEW s \in Servers, NEW x \in Creds, RevokeApiKey(s, x)
        PROVE  \A c \in Creds : Ages(c)
    <2>1. \A c \in Creds : cred'[c] = IF c = x THEN Revocation(c) ELSE cred[c]
      BY <1>1, <1>4 DEF RevokeApiKey
    <2> QED
      BY <1>1, <2>1, RevocationAges DEF Ages
  <1>5. ASSUME NEW s \in Servers, RevokeSession(s)
        PROVE  \A c \in Creds : Ages(c)
    <2>1. \A c \in Creds : cred'[c] = IF c = op[s].cred THEN Revocation(c) ELSE cred[c]
      BY <1>1, <1>5 DEF RevokeSession
    <2> QED
      BY <1>1, <2>1, RevocationAges DEF Ages
  <1>6. ASSUME NEW s \in Servers, NEW c \in Creds, RotateApiKey(s, c)
        PROVE  cred' = cred
    BY <1>6 DEF RotateApiKey, Inserts
  <1>7. CASE RequestStep \/ SweepStep \/ Tick \/ UNCHANGED vars
    <2>1. cred' = cred
      BY <1>7 DEF RequestStep, SweepStep, Tick, vars, rowVars, BeginRequest, Lookup, Fill,
                  IssueLease, IssueBootstrap, EndRequest, ExchangeBootstrap, EndContentAccess,
                  FirstSweepFails, Crash, SecondSweep, SecondSweepFails
    <2> QED
      BY <2>1, <1>2
  <1>8. CASE CredentialStep
    <2>1. ASSUME NEW s \in Servers, NEW p \in Principals, NEW life \in Lifetimes,
                 IssueApiKey(s, p, life)
          PROVE  cred' = cred
      BY <2>1 DEF IssueApiKey, rowVars
    <2>2. ASSUME NEW s \in Servers, NEW c \in Creds, BeginRotation(s, c) \/ Logout(s, c)
          PROVE  cred' = cred
      BY <2>2 DEF BeginRotation, Logout, rowVars
    <2>3. ASSUME NEW s \in Servers, Clear(s) \/ EvictSession(s)
          PROVE  cred' = cred
      BY <2>3 DEF Clear, EvictSession, rowVars
    <2> QED
      BY <1>2, <1>3, <1>4, <1>5, <1>6, <1>8, <2>1, <2>2, <2>3 DEF CredentialStep, Inserts
  <1> QED
    BY <1>7, <1>8 DEF Next

\* What an inserted row is, and that no other row changes but the one a rotation
\* revokes.
LEMMA InsertedRow ==
  ASSUME IInv, Inserts
  PROVE  \E c \in Creds :
           /\ cred[c].st = "none" /\ cred'[c].st = "live"
           /\ \A x \in Creds \ {c} : Ages(x)
           /\ \/ cred'[c].kind = "session"
              \/ cred'[c].who \in Principals /\ Issuing(cred'[c].who) # {}
              \/ \E s \in Servers :
                    /\ op[s].at = "rotate" /\ cred'[c].who = op[s].who
                    /\ op[s].cred \in Creds \ {c} /\ cred[op[s].cred].st = "live"
                    /\ cred'[op[s].cred].st = "revoked"
  <1>1. TypeOK /\ cred \in [Creds -> CredRows] /\ op \in [Servers -> OpRows]
    BY DEF IInv, TypeOK, CredRows, OpRows
  <1>2. ASSUME NEW p \in Principals, NEW c \in Creds, NEW life \in Lifetimes,
               IssueSession(p, c, life)
        PROVE  /\ cred[c].st = "none" /\ cred'[c].st = "live" /\ cred'[c].kind = "session"
               /\ \A x \in Creds \ {c} : Ages(x)
    BY <1>1, <1>2 DEF IssueSession, Unused, Row, Ages
  <1>3. ASSUME NEW s \in Servers, NEW c \in Creds, InsertApiKey(s, c)
        PROVE  /\ cred[c].st = "none" /\ cred'[c].st = "live"
               /\ cred'[c].who \in Principals /\ Issuing(cred'[c].who) # {}
               /\ \A x \in Creds \ {c} : Ages(x)
    <2>1. op[s].who \in Principals /\ op[s].at = "insert"
      BY <1>3 DEF IInv, OpSound, Sound, InsertApiKey
    <2>2. s \in Issuing(op[s].who)
      BY <2>1 DEF Issuing
    <2>3. cred[c].st = "none" /\ cred'[c].st = "live" /\ cred'[c].who = op[s].who
          /\ \A x \in Creds \ {c} : Ages(x)
      BY <1>1, <1>3 DEF InsertApiKey, Unused, Row, Ages
    <2> QED
      BY <2>1, <2>2, <2>3
  <1>4. ASSUME NEW s \in Servers, NEW c \in Creds, RotateApiKey(s, c), Rotatable(op[s].cred)
        PROVE  /\ cred[c].st = "none" /\ cred'[c].st = "live"
               /\ \A x \in Creds \ {c} : Ages(x)
               /\ op[s].at = "rotate" /\ cred'[c].who = op[s].who
               /\ op[s].cred \in Creds \ {c} /\ cred[op[s].cred].st = "live"
               /\ cred'[op[s].cred].st = "revoked"
    <2> DEFINE old == op[s].cred
               new == Row("key", op[s].who, cred[old].expires)
    <2>1. /\ op[s].at = "rotate" /\ old \in Creds /\ cred[c].st = "none"
          /\ cred[old].st = "live" /\ old # c
      BY <1>4 DEF IInv, OpSound, Sound, RotateApiKey, Unused, Rotatable
    <2>2. cred' = [cred EXCEPT ![old] = Revocation(old), ![c] = new]
      BY <1>4 DEF RotateApiKey
    <2>3. new.st = "live" /\ new.who = op[s].who
      BY DEF Row
    <2>4. Revocation(old).st = "revoked"
      BY <1>1, <2>1 DEF Revocation, CredRows
    <2> HIDE DEF new
    <2>5. cred'[c] = new /\ cred'[old] = Revocation(old)
          /\ \A x \in Creds \ {c, old} : cred'[x] = cred[x]
      BY <1>1, <2>1, <2>2
    <2>6. \A x \in Creds \ {c} : Ages(x)
      BY <1>1, <2>1, <2>5, RevocationAges DEF Ages
    <2> QED
      BY <2>1, <2>3, <2>4, <2>5, <2>6
  <1> QED
    BY <1>2, <1>3, <1>4 DEF Inserts

\* Rows in use age in every step.
LEMMA UsedAge ==
  ASSUME IInv, [Next]_vars, NEW c \in Creds, cred[c].st # "none"
  PROVE  Ages(c)
  <1>1. CASE Inserts
    BY <1>1, InsertedRow
  <1> QED
    BY <1>1, RowsAge

\* How a step moves the operations of the processes.
LEMMA OpMoves ==
  ASSUME IInv, [Next]_vars, NEW s \in Servers
  PROVE  /\ op'[s].at = "rotate" =>
              \/ op'[s] = op[s]
              \/ /\ op'[s].cred \in Creds /\ cred[op'[s].cred].kind = "key"
                 /\ cred[op'[s].cred].st = "live" /\ cred[op'[s].cred].who = op'[s].who
         /\ op'[s].at = "insert" =>
              op'[s] = op[s] \/ (op'[s].who \in Principals /\ active[op'[s].who])
  <1>1. op \in [Servers -> OpRows] /\ op[s] \in OpRows
    BY DEF IInv, TypeOK, OpRows
  <1>2. IdleOp.at = "idle"
    BY DEF IdleOp
  <1>3. CASE RequestStep \/ Tick \/ UNCHANGED vars
    BY <1>3 DEF RequestStep, Tick, vars, BeginRequest, Lookup, Fill, IssueLease, IssueBootstrap,
                EndRequest, ExchangeBootstrap
  <1>4. CASE SweepStep
    BY <1>1, <1>2, <1>4 DEF SweepStep, EndContentAccess, FirstSweepFails, Crash, SecondSweep,
                            SecondSweepFails, OpRows
  <1>5. CASE CredentialStep
    <2>1. ASSUME NEW x \in Servers, NEW p \in Principals, NEW life \in Lifetimes,
                 IssueApiKey(x, p, life)
          PROVE  op'[s] = op[s] \/ (op'[s].at = "insert" /\ op'[s].who = p /\ active[p])
      BY <1>1, <2>1 DEF IssueApiKey, IdleOp
    <2>2. ASSUME NEW x \in Servers, NEW c \in Creds, BeginRotation(x, c)
          PROVE  \/ op'[s] = op[s]
                 \/ /\ op'[s].at = "rotate" /\ op'[s].cred = c /\ op'[s].who = cred[c].who
                    /\ cred[c].kind = "key" /\ cred[c].st = "live"
      BY <1>1, <2>2 DEF BeginRotation, IdleOp
    <2>3. ASSUME NEW x \in Servers, NEW c \in Creds,
                 InsertApiKey(x, c) \/ RevokeApiKey(x, c) \/ RotateApiKey(x, c) \/ Logout(x, c)
          PROVE  op'[s] = op[s] \/ op'[s].at \notin {"rotate", "insert"}
      <3>1. CASE InsertApiKey(x, c)
        BY <1>1, <1>2, <3>1 DEF InsertApiKey
      <3>2. CASE RevokeApiKey(x, c)
        <4>1. PICK o : o = [IdleOp EXCEPT !.at = "clearKeys", !.who = cred[c].who]
          OBVIOUS
        <4>2. o.at = "clearKeys" /\ op' = [op EXCEPT ![x] = o]
          BY <3>2, <4>1 DEF RevokeApiKey, IdleOp
        <4> QED
          BY <1>1, <4>2
      <3>3. CASE RotateApiKey(x, c)
        <4>1. PICK o : o = [op[x] EXCEPT !.at = "clearKeys"]
          OBVIOUS
        <4>2. o.at = "clearKeys"
          BY <1>1, <4>1 DEF OpRows
        <4>3. op' = [op EXCEPT ![x] = o] \/ op' = [op EXCEPT ![x] = IdleOp]
          BY <3>3, <4>1 DEF RotateApiKey
        <4> QED
          BY <1>1, <1>2, <4>2, <4>3
      <3>4. CASE Logout(x, c)
        <4>1. PICK o : o = [IdleOp EXCEPT !.at = "logout", !.who = cred[c].who, !.cred = c]
          OBVIOUS
        <4>2. o.at = "logout" /\ op' = [op EXCEPT ![x] = o]
          BY <3>4, <4>1 DEF Logout, IdleOp
        <4> QED
          BY <1>1, <4>2
      <3> QED
        BY <2>3, <3>1, <3>2, <3>3, <3>4
    <2>4. ASSUME NEW x \in Servers,
                 \/ \E p \in Principals : DeactivateMember(x, p)
                 \/ Clear(x) \/ RevokeSession(x) \/ EvictSession(x)
          PROVE  op'[s] = op[s] \/ op'[s].at \notin {"rotate", "insert"}
      <3>1. ASSUME NEW p \in Principals, DeactivateMember(x, p)
            PROVE  op'[s] = op[s] \/ op'[s].at \notin {"rotate", "insert"}
        BY <1>1, <3>1 DEF DeactivateMember, IdleOp
      <3>2. CASE Clear(x)
        BY <1>1, <3>2 DEF Clear, OpRows
      <3>3. CASE RevokeSession(x)
        BY <1>1, <3>3 DEF RevokeSession, OpRows
      <3>4. CASE EvictSession(x)
        BY <1>1, <1>2, <3>4 DEF EvictSession
      <3> QED
        BY <2>4, <3>1, <3>2, <3>3, <3>4
    <2>5. ASSUME NEW p \in Principals, NEW c \in Creds, NEW life \in Lifetimes,
                 IssueSession(p, c, life)
          PROVE  op' = op
      BY <2>5 DEF IssueSession
    <2> QED
      BY <1>5, <2>1, <2>2, <2>3, <2>4, <2>5 DEF CredentialStep
  <1> QED
    BY <1>3, <1>4, <1>5 DEF Next

LEMMA RotationKept == IInv /\ RotationSound /\ [Next]_vars => RotationSound'
  <1> SUFFICES ASSUME IInv, RotationSound, [Next]_vars, NEW s \in Servers, op'[s].at = "rotate"
               PROVE  cred'[op'[s].cred].kind = "key" /\ cred'[op'[s].cred].who = op'[s].who
    BY DEF RotationSound
  <1>1. /\ op'[s].cred \in Creds /\ cred[op'[s].cred].st # "none"
        /\ cred[op'[s].cred].kind = "key" /\ cred[op'[s].cred].who = op'[s].who
    BY OpMoves DEF IInv, OpSound, Sound, RotationSound
  <1> QED
    BY <1>1, UsedAge DEF Ages

\* The keys of a deactivated member do not become more, unless an issuance was
\* past its check of the member.
LEMMA KeysStep ==
  ASSUME IInv, RotationSound, [Next]_vars, IsFiniteSet(Creds), NEW p \in Principals, ~active[p]
  PROVE  /\ Issuing(p)' \subseteq Issuing(p)
         /\ Issuing(p) = {} => Cardinality(LiveKeys(p)') <= Cardinality(LiveKeys(p))
  <1>1. Issuing(p)' \subseteq Issuing(p)
    BY OpMoves DEF Issuing
  <1>2. ASSUME NEW S, NEW T, S \subseteq T, T \subseteq Creds
        PROVE  Cardinality(S) <= Cardinality(T) /\ IsFiniteSet(T) /\ IsFiniteSet(S)
    <2>1. IsFiniteSet(T)
      BY <1>2, FS_Subset
    <2> QED
      BY <1>2, <2>1, FS_Subset
  <1>3. ASSUME \A c \in Creds : Ages(c)
        PROVE  Cardinality(LiveKeys(p)') <= Cardinality(LiveKeys(p))
    <2>1. LiveKeys(p)' \subseteq LiveKeys(p) /\ LiveKeys(p) \subseteq Creds
      BY <1>3 DEF LiveKeys, Ages
    <2> QED
      BY <2>1, <1>2
  <1>4. ASSUME Issuing(p) = {}, Inserts
        PROVE  Cardinality(LiveKeys(p)') <= Cardinality(LiveKeys(p))
    <2>1. PICK c \in Creds :
            /\ cred[c].st = "none" /\ cred'[c].st = "live"
            /\ \A x \in Creds \ {c} : Ages(x)
            /\ \/ cred'[c].kind = "session"
               \/ cred'[c].who \in Principals /\ Issuing(cred'[c].who) # {}
               \/ \E s \in Servers :
                     /\ op[s].at = "rotate" /\ cred'[c].who = op[s].who
                     /\ op[s].cred \in Creds \ {c} /\ cred[op[s].cred].st = "live"
                     /\ cred'[op[s].cred].st = "revoked"
      BY <1>4, InsertedRow
    <2>2. LiveKeys(p)' \subseteq LiveKeys(p) \cup {c} /\ c \notin LiveKeys(p)
          /\ LiveKeys(p) \subseteq Creds
      BY <2>1 DEF LiveKeys, Ages
    <2>3. CASE c \notin LiveKeys(p)'
      BY <2>2, <2>3, <1>2
    <2>4. CASE c \in LiveKeys(p)'
      <3>1. cred'[c].kind = "key" /\ cred'[c].who = p
        BY <2>4 DEF LiveKeys
      <3>2. PICK s \in Servers :
              /\ op[s].at = "rotate" /\ op[s].who = p
              /\ op[s].cred \in Creds \ {c} /\ cred[op[s].cred].st = "live"
              /\ cred'[op[s].cred].st = "revoked"
        BY <1>4, <2>1, <3>1
      <3>3. PICK old : old = op[s].cred
        OBVIOUS
      <3>4. old \in LiveKeys(p) /\ old \notin LiveKeys(p)' /\ old # c
        BY <3>2, <3>3 DEF RotationSound, LiveKeys
      <3>5. LiveKeys(p)' \subseteq (LiveKeys(p) \ {old}) \cup {c}
        BY <2>2, <3>4
      <3>6. IsFiniteSet(LiveKeys(p))
        BY <2>2, <1>2
      <3>7. Cardinality(LiveKeys(p) \ {old}) = Cardinality(LiveKeys(p)) - 1
            /\ IsFiniteSet(LiveKeys(p) \ {old}) /\ Cardinality(LiveKeys(p)) \in Nat
        BY <3>4, <3>6, FS_RemoveElement, FS_CardinalityType
      <3>8. Cardinality((LiveKeys(p) \ {old}) \cup {c}) = Cardinality(LiveKeys(p) \ {old}) + 1
        BY <3>7, <2>2, FS_AddElement
      <3>9. Cardinality(LiveKeys(p)') <= Cardinality((LiveKeys(p) \ {old}) \cup {c})
        BY <3>5, <2>2, <1>2
      <3> QED
        BY <3>7, <3>8, <3>9
    <2> QED
      BY <2>3, <2>4
  <1> QED
    BY <1>1, <1>3, <1>4, RowsAge

\* deactivateMember, issueApiKey, rotateApiKey: a deactivated member comes to
\* hold more live keys only from an issuance that had read the member as active,
\* and never by rotating a key, for any number of processes and of keys.
THEOREM KeysDie == ASSUME IsFiniteSet(Creds) PROVE Spec => KeysDieWithMember
  <1> DEFINE Holds == \A p \in Principals : ~active[p] =>
                /\ Issuing(p)' \subseteq Issuing(p)
                /\ Issuing(p) = {} => Cardinality(LiveKeys(p)') <= Cardinality(LiveKeys(p))
  <1>1. IInv /\ RotationSound /\ [Next]_vars => Holds
    BY KeysStep
  <1>2. Init => RotationSound
    BY DEF Init, RotationSound, IdleOp
  <1>3. KeysDieWithMember <=> [][Holds]_vars
    BY DEF KeysDieWithMember
  <1> HIDE DEF Holds
  <1> QED
    BY <1>1, <1>2, <1>3, RotationKept, Invariance, PTL DEF Spec

==============================================================================
