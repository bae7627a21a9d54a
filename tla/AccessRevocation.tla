--------------------------- MODULE AccessRevocation ---------------------------
(***************************************************************************)
(* How access ends: sign-out, key revocation and rotation, and the         *)
(* deactivation of a member, against the authentication caches of several  *)
(* server processes, requests in flight, and the leases and content        *)
(* sessions that such requests issue.                                      *)
(*                                                                         *)
(* One clock stands for the clocks of all processes.  A step is what runs  *)
(* between two awaits; any number of ticks may pass between two steps.     *)
(* Leases outlive every bound of the model (12 hours against the caches'   *)
(* 30 seconds), so their own expiry is left out.                           *)
(***************************************************************************)
EXTENDS Integers, FiniteSets

CONSTANTS
    Servers,      \* server processes on one database
    Requests,     \* authenticated requests under way
    Creds,        \* application_sessions and managed_api_keys rows
    Principals,   \* members, whose keys act as the member's own principal
    TTL,          \* ttlMilliseconds of the authentication caches
    Margin,       \* revocationSweepMarginMilliseconds
    CacheSize,    \* maxEntries
    BootstrapLife,\* bootstrapLifetimeMilliseconds
    Lifetimes,    \* lifetimes of the credentials that are issued
    MaxTime,      \* bound: the clock
    MaxLeases,    \* bound: rows of content_sessions and of content_bootstraps
    MaxSweeps,    \* bound: second sweeps that sleep at once
    Scenarios,    \* the sets of operations that are explored together
    None

ASSUME RevocationAssumption ==
    /\ TTL \in Nat \ {0} /\ Margin \in Nat /\ CacheSize \in Nat \ {0}
    /\ BootstrapLife \in Nat /\ MaxTime \in Nat /\ MaxLeases \in Nat /\ MaxSweeps \in Nat
    /\ Lifetimes \subseteq Nat \ {0}
    /\ Scenarios \subseteq
          SUBSET {"session", "key", "request", "bootstrap", "logout", "deactivate", "crash",
                  "several"}
    /\ None \notin Creds \cup Principals

VARIABLES
    clock,
    active,       \* installation_members.status
    cred,         \* the credentials' rows
    cache,        \* notAfterMilliseconds of each process's entries; 0: no entry
    req,          \* where each request is
    op,           \* the operation that ends or issues access, in each process
    leases,       \* content_sessions
    bootstraps,   \* content_bootstraps that are not consumed
    timers,       \* second sweeps that sleep in a process's scope
    swept,        \* history: when the first sweep was, of the last pair of sweeps of
                  \* each principal that was run to its end; -1: none
    ops           \* the scenario

vars == <<clock, active, cred, cache, req, op, leases, bootstraps, timers, swept, ops>>

\* revokedAt is the moment the revocation commits.
NoCred == [st |-> "none", kind |-> "key", who |-> None, expires |-> 0, revokedAt |-> 0]
IdleRequest == [at |-> "idle", server |-> None, cred |-> None, began |-> 0]
IdleOp == [at |-> "idle", who |-> None, cred |-> None, expires |-> 0]

Revoked(c) == cred[c].st = "revoked"

RequestSteps == {"idle", "lookup", "found", "authenticated"}
OpSteps == {"idle", "insert", "rotate", "clear", "clearKeys", "sweep", "logout", "revoke", "evict"}

TypeOK ==
    /\ clock \in Nat
    /\ active \in [Principals -> BOOLEAN]
    /\ cred \in [Creds -> [st : {"none", "live", "revoked"}, kind : {"session", "key"},
                           who : Principals \cup {None}, expires : Nat, revokedAt : Nat]]
    /\ cache \in [Servers -> [Creds -> Nat]]
    /\ req \in [Requests -> [at : RequestSteps, server : Servers \cup {None},
                             cred : Creds \cup {None}, began : Nat]]
    /\ op \in [Servers -> [at : OpSteps, who : Principals \cup {None}, cred : Creds \cup {None},
                           expires : Nat]]
    /\ leases \subseteq [who : Principals, cred : Creds, began : Nat, made : Nat,
                         via : {"request", "bootstrap"}]
    /\ bootstraps \subseteq [who : Principals, cred : Creds, began : Nat, expires : Nat]
    /\ timers \subseteq [server : Servers, who : Principals, since : Nat]
    /\ swept \in [Principals -> Nat \cup {-1}]

Init ==
    /\ clock = 0
    /\ active = [p \in Principals |-> TRUE]
    /\ cred = [c \in Creds |-> NoCred]
    /\ cache = [s \in Servers |-> [c \in Creds |-> 0]]
    /\ req = [r \in Requests |-> IdleRequest]
    /\ op = [s \in Servers |-> IdleOp]
    /\ leases = {} /\ bootstraps = {} /\ timers = {}
    /\ swept = [p \in Principals |-> -1]
    /\ ops \in Scenarios

Tick ==
    /\ clock < MaxTime
    /\ clock' = clock + 1
    /\ UNCHANGED <<active, cred, cache, req, op, leases, bootstraps, timers, swept, ops>>

-----------------------------------------------------------------------------
(* Authentication and what it is used for                                  *)

rowVars == <<active, cred>>
accessVars == <<leases, bootstraps, timers, swept>>

\* get: an entry serves while now < notAfter.
Cached(s, c) == clock < cache[s][c]

\* authenticateSession, authenticateManagedApiKey: the request's time is read
\* once, before the cache and the database are asked.
BeginRequest(r, s, c) ==
    /\ "request" \in ops
    /\ req[r].at = "idle"
    /\ req' = [req EXCEPT ![r] = [at |-> IF Cached(s, c) THEN "authenticated" ELSE "lookup",
                                  server |-> s, cred |-> c, began |-> clock]]
    /\ UNCHANGED <<clock, rowVars, cache, op, accessVars, ops>>

\* A row that authenticates a request of time t.  A session asks for an active
\* member; a key does not: it was revoked with its member.
Valid(c, t) ==
    /\ cred[c].st = "live" /\ cred[c].expires > t
    /\ cred[c].kind = "session" => active[cred[c].who]

\* findApplicationSession, findApiKey.
Lookup(r) ==
    /\ req[r].at = "lookup"
    /\ req' = [req EXCEPT ![r] = IF Valid(req[r].cred, req[r].began) THEN [@ EXCEPT !.at = "found"]
                                 ELSE IdleRequest]
    /\ UNCHANGED <<clock, rowVars, cache, op, accessVars, ops>>

\* Mutant: the entry's life is counted from when the row has been read.
NotAfterAnswer(began, expires) ==
    IF clock + TTL < expires THEN clock + TTL ELSE expires

\* Mutant: the credential's own expiry is forgotten.
NotAfterTTL(began, expires) == began + TTL

\* The smaller of the request's time + TTL and the credential's expiry.
NotAfter(began, expires) ==
    IF began + TTL < expires THEN began + TTL ELSE expires

\* set: the new entry, and not the least recently used one of a full cache.
\* Which one that is, is left open.
CacheSet(s, c, t) ==
    LET others == {x \in Creds \ {c} : cache[s][x] # 0}
    IN  IF Cardinality(others) < CacheSize
        THEN cache' = [cache EXCEPT ![s][c] = t]
        ELSE \E x \in others : cache' = [cache EXCEPT ![s][c] = t, ![s][x] = 0]

\* The cache is filled when the answer arrives, whatever was evicted meanwhile.
Fill(r) ==
    LET c == req[r].cred
    IN  /\ req[r].at = "found"
        /\ CacheSet(req[r].server, c, NotAfter(req[r].began, cred[c].expires))
        /\ req' = [req EXCEPT ![r].at = "authenticated"]
        /\ UNCHANGED <<clock, rowVars, op, accessVars, ops>>

\* issuePreviewLease inserts a row for the principal it was handed.
IssueLease(r) ==
    LET c == req[r].cred
    IN  /\ req[r].at = "authenticated" /\ Cardinality(leases) < MaxLeases
        /\ leases' = leases \cup {[who |-> cred[c].who, cred |-> c, began |-> req[r].began,
                                   made |-> clock, via |-> "request"]}
        /\ req' = [req EXCEPT ![r] = IdleRequest]
        /\ UNCHANGED <<clock, rowVars, cache, op, bootstraps, timers, swept, ops>>

IssueBootstrap(r) ==
    LET c == req[r].cred
    IN  /\ "bootstrap" \in ops
        /\ req[r].at = "authenticated" /\ Cardinality(bootstraps) < MaxLeases
        /\ bootstraps' = bootstraps \cup {[who |-> cred[c].who, cred |-> c, began |-> req[r].began,
                                           expires |-> clock + BootstrapLife]}
        /\ req' = [req EXCEPT ![r] = IdleRequest]
        /\ UNCHANGED <<clock, rowVars, cache, op, leases, timers, swept, ops>>

\* exchangeContentBootstrap asks for the bootstrap and nothing of its holder.
ExchangeBootstrap(b) ==
    /\ clock < b.expires /\ Cardinality(leases) < MaxLeases
    /\ bootstraps' = bootstraps \ {b}
    /\ leases' = leases \cup {[who |-> b.who, cred |-> b.cred, began |-> b.began,
                               made |-> clock, via |-> "bootstrap"]}
    /\ UNCHANGED <<clock, rowVars, cache, req, op, timers, swept, ops>>

\* The request ends without issuing anything.
EndRequest(r) ==
    /\ req[r].at # "idle"
    /\ req' = [req EXCEPT ![r] = IdleRequest]
    /\ UNCHANGED <<clock, rowVars, cache, op, accessVars, ops>>

-----------------------------------------------------------------------------
(* Operations on credentials                                               *)

Row(kind, p, expires) ==
    [st |-> "live", kind |-> kind, who |-> p, expires |-> expires, revokedAt |-> 0]

\* revoked_at = COALESCE(revoked_at, now): an earlier revocation stands.
Revocation(c) ==
    IF cred[c].st = "live" THEN [cred[c] EXCEPT !.st = "revoked", !.revokedAt = clock] ELSE cred[c]

\* An unused row; a scenario that is not about several credentials has one.
Unused(c) == cred[c].st = "none" /\ ("several" \in ops \/ \A x \in Creds : cred[x].st = "none")

\* issueSession, at the end of a sign-in.
IssueSession(p, c, life) ==
    /\ "session" \in ops
    /\ Unused(c)
    /\ cred' = [cred EXCEPT ![c] = Row("session", p, clock + life)]
    /\ UNCHANGED <<clock, active, cache, req, op, accessVars, ops>>

\* issueApiKey looks for the active member before it inserts the key.
IssueApiKey(s, p, life) ==
    /\ "key" \in ops
    /\ op[s].at = "idle" /\ active[p]
    /\ op' = [op EXCEPT ![s] = [IdleOp EXCEPT !.at = "insert", !.who = p, !.expires = clock + life]]
    /\ UNCHANGED <<clock, rowVars, cache, req, accessVars, ops>>

InsertApiKey(s, c) ==
    /\ op[s].at = "insert" /\ Unused(c)
    /\ cred' = [cred EXCEPT ![c] = Row("key", op[s].who, op[s].expires)]
    /\ op' = [op EXCEPT ![s] = IdleOp]
    /\ UNCHANGED <<clock, active, cache, req, accessVars, ops>>

\* deactivateMember's transaction revokes every credential of the member.  It
\* may be repeated, and then revokes what has been issued since.
DeactivateMember(s, p) ==
    /\ "deactivate" \in ops
    /\ op[s].at = "idle"
    /\ active' = [active EXCEPT ![p] = FALSE]
    /\ cred' = [c \in Creds |-> IF cred[c].who = p THEN Revocation(c) ELSE cred[c]]
    /\ op' = [op EXCEPT ![s] = [IdleOp EXCEPT !.at = "clear", !.who = p]]
    /\ UNCHANGED <<clock, cache, req, accessVars, ops>>

RevokeApiKey(s, c) ==
    /\ "key" \in ops
    /\ op[s].at = "idle" /\ cred[c].st # "none" /\ cred[c].kind = "key"
    /\ cred' = [cred EXCEPT ![c] = Revocation(c)]
    /\ op' = [op EXCEPT ![s] = [IdleOp EXCEPT !.at = "clearKeys", !.who = cred[c].who]]
    /\ UNCHANGED <<clock, active, cache, req, accessVars, ops>>

\* rotateApiKey reads the key first ...
BeginRotation(s, c) ==
    /\ "key" \in ops
    /\ op[s].at = "idle" /\ cred[c].st = "live" /\ cred[c].kind = "key" /\ cred[c].expires > clock
    /\ op' = [op EXCEPT ![s] = [IdleOp EXCEPT !.at = "rotate", !.who = cred[c].who, !.cred = c]]
    /\ UNCHANGED <<clock, rowVars, cache, req, accessVars, ops>>

\* Mutant: the update does not ask for revoked_at IS NULL.
RotatableRead(c) == TRUE
Rotatable(c) == cred[c].st = "live"

\* ... and its transaction revokes it only if nobody else has.
RotateApiKey(s, c) ==
    LET old == op[s].cred
    IN  /\ op[s].at = "rotate" /\ Unused(c)
        /\ IF Rotatable(old)
           THEN /\ cred' = [cred EXCEPT ![old] = Revocation(old),
                                        ![c] = Row("key", op[s].who, cred[old].expires)]
                /\ op' = [op EXCEPT ![s].at = "clearKeys"]
           ELSE /\ op' = [op EXCEPT ![s] = IdleOp]
                /\ UNCHANGED cred
        /\ UNCHANGED <<clock, active, cache, req, accessVars, ops>>

\* The caches of the process that ended the access, not of the others.
Clear(s) ==
    /\ op[s].at \in {"clear", "clearKeys"}
    /\ cache' = [cache EXCEPT ![s] =
                   [c \in Creds |-> IF op[s].at = "clear" \/ cred[c].kind = "key" THEN 0 ELSE @[c]]]
    /\ op' = [op EXCEPT ![s].at = "sweep"]
    /\ UNCHANGED <<clock, rowVars, req, accessVars, ops>>

\* revokeSession: "Content access ends first".
Logout(s, c) ==
    /\ "logout" \in ops
    /\ op[s].at = "idle" /\ cred[c].st # "none" /\ cred[c].kind = "session"
    /\ op' = [op EXCEPT ![s] = [IdleOp EXCEPT !.at = "logout", !.who = cred[c].who, !.cred = c]]
    /\ UNCHANGED <<clock, rowVars, cache, req, accessVars, ops>>

\* Mutant: the second sweep follows the margin alone.
SweepDelayMargin == Margin
SweepDelay == TTL + Margin

\* endContentAccess: the first sweep deletes the principal's content sessions
\* (not the bootstraps), then the second is left to sleep in the process.
EndContentAccess(s) ==
    LET p == op[s].who
    IN  /\ op[s].at \in {"sweep", "logout"} /\ Cardinality(timers) < MaxSweeps
        /\ leases' = {l \in leases : l.who # p}
        /\ timers' = timers \cup {[server |-> s, who |-> p, since |-> clock]}
        /\ op' = [op EXCEPT ![s] = IF op[s].at = "logout" THEN [@ EXCEPT !.at = "revoke"] ELSE IdleOp]
        /\ UNCHANGED <<clock, rowVars, cache, req, bootstraps, swept, ops>>

\* The first sweep fails: the caller gets the failure and may repeat the call.
FirstSweepFails(s) ==
    /\ op[s].at \in {"sweep", "logout"}
    /\ op' = [op EXCEPT ![s] = IdleOp]
    /\ UNCHANGED <<clock, rowVars, cache, req, accessVars, ops>>

RevokeSession(s) ==
    LET c == op[s].cred
    IN  /\ op[s].at = "revoke"
        /\ cred' = [cred EXCEPT ![c] = Revocation(c)]
        /\ op' = [op EXCEPT ![s].at = "evict"]
        /\ UNCHANGED <<clock, active, cache, req, accessVars, ops>>

EvictSession(s) ==
    /\ op[s].at = "evict"
    /\ cache' = [cache EXCEPT ![s][op[s].cred] = 0]
    /\ op' = [op EXCEPT ![s] = IdleOp]
    /\ UNCHANGED <<clock, rowVars, req, accessVars, ops>>

SecondSweep(t) ==
    /\ clock >= t.since + SweepDelay
    /\ leases' = {l \in leases : l.who # t.who}
    /\ timers' = timers \ {t}
    /\ swept' = [swept EXCEPT ![t.who] = IF t.since > @ THEN t.since ELSE @]
    /\ UNCHANGED <<clock, rowVars, cache, req, op, bootstraps, ops>>

\* Its failure is ignored (Effect.ignore).
SecondSweepFails(t) ==
    /\ clock >= t.since + SweepDelay
    /\ timers' = timers \ {t}
    /\ UNCHANGED <<clock, rowVars, cache, req, op, leases, bootstraps, swept, ops>>

\* A process ends: its caches, requests, operation and sleeping sweeps with it.
Crash(s) ==
    /\ "crash" \in ops
    /\ cache' = [cache EXCEPT ![s] = [c \in Creds |-> 0]]
    /\ req' = [r \in Requests |-> IF req[r].server = s THEN IdleRequest ELSE req[r]]
    /\ op' = [op EXCEPT ![s] = IdleOp]
    /\ timers' = {t \in timers : t.server # s}
    /\ UNCHANGED <<clock, rowVars, leases, bootstraps, swept, ops>>

-----------------------------------------------------------------------------
RequestStep ==
    \/ \E r \in Requests, s \in Servers, c \in Creds : BeginRequest(r, s, c)
    \/ \E r \in Requests : \/ Lookup(r) \/ Fill(r) \/ IssueLease(r) \/ IssueBootstrap(r)
                           \/ EndRequest(r)
    \/ \E b \in bootstraps : ExchangeBootstrap(b)

CredentialStep ==
    \/ \E p \in Principals, c \in Creds, life \in Lifetimes : IssueSession(p, c, life)
    \/ \E s \in Servers :
          \/ \E p \in Principals : DeactivateMember(s, p)
          \/ \E p \in Principals, life \in Lifetimes : IssueApiKey(s, p, life)
          \/ \E c \in Creds : \/ InsertApiKey(s, c) \/ RevokeApiKey(s, c) \/ BeginRotation(s, c)
                              \/ RotateApiKey(s, c) \/ Logout(s, c)
          \/ Clear(s) \/ RevokeSession(s) \/ EvictSession(s)

SweepStep ==
    \/ \E s \in Servers : EndContentAccess(s) \/ FirstSweepFails(s) \/ Crash(s)
    \/ \E t \in timers : SecondSweep(t) \/ SecondSweepFails(t)

Next == Tick \/ RequestStep \/ CredentialStep \/ SweepStep

Spec == Init /\ [][Next]_vars

-----------------------------------------------------------------------------
(* Properties                                                              *)

\* "A credential revoked in another process may authenticate here for at most
\* the TTL": no entry of a revoked credential is good for longer, although a
\* request that was reading the row while it was revoked fills the cache
\* afterwards, and no request that begins later is authenticated.  "Entries never
\* outlive the credential's own expiry" either.
BoundedStaleness ==
    /\ \A s \in Servers, c \in Creds : cache[s][c] <= cred[c].expires
    /\ \A s \in Servers, c \in Creds :
          Revoked(c) => cache[s][c] <= cred[c].revokedAt + TTL
    /\ \A r \in Requests :
          req[r].at = "authenticated" /\ Revoked(req[r].cred) =>
             req[r].began < cred[req[r].cred].revokedAt + TTL

\* The rows, caches and requests are what the code writes into them, and a
\* revoked credential is honoured for at most the time to live.
RevocationIsSound == TypeOK /\ BoundedStaleness

\* Of an ended credential, the leases that are left when a pair of sweeps has
\* been run were issued by requests slower than the margin; a sign-out, which
\* sweeps before it revokes, loses the time between the two from the margin.
SweepsEndAccess ==
    \A l \in leases :
       l.via = "request" /\ Revoked(l.cred) /\ swept[l.who] >= 0 =>
          l.made - l.began >= Margin + swept[l.who] - cred[l.cred].revokedAt

\* The operations that are between their check of the member and the insertion.
Issuing(p) == {s \in Servers : op[s].at = "insert" /\ op[s].who = p}
LiveKeys(p) == {c \in Creds : cred[c].st = "live" /\ cred[c].kind = "key" /\ cred[c].who = p}

\* After a deactivation the member does not come to hold more live keys but from
\* an issuance that had read the member as active: not by rotating one of its
\* keys, however the rotation and the deactivation interleave.
KeysDieWithMember ==
    [][\A p \in Principals : ~active[p] =>
          /\ Issuing(p)' \subseteq Issuing(p)
          /\ Issuing(p) = {} => Cardinality(LiveKeys(p)') <= Cardinality(LiveKeys(p))]_vars

==============================================================================
