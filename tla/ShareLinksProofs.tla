--------------------------- MODULE ShareLinksProofs ---------------------------
(***************************************************************************)
(* Proofs about ShareLinks, for every number of links, guests, managers'   *)
(* calls, versions and revisions.                                          *)
(*                                                                         *)
(* The inductive invariant ShareInv has three parts: the types of all the  *)
(* state (Types), what a manager's call may rely on (CallsSound: a link    *)
(* row is never taken back, its revision only rises, a revoked link stays  *)
(* revoked), and what a visitor's request has read (RequestSound).  The    *)
(* last is stated in terms of the steps that are still to do: a request    *)
(* that no longer has to ask for the permission has had it at a moment     *)
(* recorded in seen, and so on for target, thread, lease and policy.       *)
(* seen only grows during a request, so a step of anybody else preserves   *)
(* it, and a step of the request is proved by the one thing it reads.      *)
(***************************************************************************)
EXTENDS ShareLinks, TLAPS, SequenceTheorems

LinkRows(n) == [st : {"none", "live", "revoked"}, target : 0..n, comment : BOOLEAN,
                expired : BOOLEAN, gen : 1..MaxRevision, rev : 1..MaxRevision]
GuestRows == [link : Links \cup {None}, gen : 1..MaxRevision, named : BOOLEAN, ended : BOOLEAN]
Threads(n) == [guest : Guests \cup {None}, version : 0..n]
GuestKinds == {"name", "lease", "comment", "amend", "remove", "read"}
RequestKinds == GuestKinds \cup {"idle", "join", "public"}
RequestRows(n) == [kind : RequestKinds, todo : Seq(Steps), guest : Guests \cup {None},
                   link : Links \cup {None}, row : LinkRows(n), named : BOOLEAN,
                   version : 0..n, viewing : 0..n, thread : Threads(n)]
CallRows(n) == [at : {"idle", "write", "revokeAll", "done"}, kind : Kinds \cup {"none"},
                link : Links \cup {None}, target : 0..n, comment : BOOLEAN,
                rev : 1..MaxRevision, to : {"account", "public"}, key : Keys \cup {None},
                expected : 0..n, wasPublic : BOOLEAN, held : SUBSET Links]
ArtifactRow(a) == a \in [count : 1..MaxVersion, current : 1..a.count, open : SUBSET (1..a.count),
                         access : {"account", "public"}, deleted : BOOLEAN]

\* The types of all the state; TypeOK leaves out most of the requests and calls.
Types ==
    /\ ArtifactRow(artifact)
    /\ policy \in {"off", "view", "comment"}
    /\ link \in [Links -> LinkRows(artifact.count)]
    /\ guest \in [Guests -> GuestRows]
    /\ leases \subseteq [guest : Guests, version : 1..artifact.count]
    /\ comments \subseteq [guest : Guests \cup {None}, version : 1..artifact.count]
    /\ replies \subseteq [guest : Guests, thread : comments]
    /\ used \in [Keys -> [to : {"none", "account", "public"}, expected : 0..artifact.count]]
    /\ req \in RequestRows(artifact.count)
    /\ call \in [Calls -> CallRows(artifact.count)]

\* A link was rotated no more often than it was changed; a lease is of a guest who joined.
RowsSound ==
    /\ \A l \in Links : link[l].gen <= link[l].rev
    /\ \A p \in leases : guest[p.guest].link # None

\* What a call found: a change knows a link that exists; once it is done the
\* link's revision is past the one it loaded.  A call that turned the artifact
\* private has held links that exist, and has revoked them when it is done.
CallSound(c, rows) ==
    /\ c.at # "idle" /\ c.kind \in {"update", "rotate", "revoke"} =>
          c.link \in Links /\ rows[c.link].st # "none"
    /\ c.at = "write" /\ c.kind = "access" => c.key \in Keys
    /\ c.at = "done" /\ c.kind \in {"update", "rotate"} => rows[c.link].rev > c.rev
    /\ c.at = "revokeAll" => c.kind = "access"
    /\ \A l \in c.held : rows[l].st # "none"
    /\ c.at = "done" /\ c.kind = "access" /\ c.to = "account" /\ c.wasPublic =>
          \A l \in c.held : rows[l].st = "revoked"
CallsSound ==
    /\ \A m \in Calls : CallSound(call[m], link)
    /\ OneWriterPerRevision

-----------------------------------------------------------------------------
(* The steps a request still has to do                                     *)

In(step, todo) == \E i \in DOMAIN todo : todo[i] = step

LastSteps == {"join", "name", "lease", "write", "amend", "remove", "serve", "public"}

\* The steps of each operation.
StepsOf(kind) ==
    CASE kind = "join"    -> {"policy", "target", "join"}
      [] kind = "name"    -> {"session", "link", "policy", "target", "name"}
      [] kind = "lease"   -> {"session", "link", "policy", "target", "current", "lease"}
      [] kind = "comment" -> {"session", "link", "policy", "target", "may", "named", "viewing",
                              "write"}
      [] kind = "amend"   -> {"session", "link", "policy", "target", "may", "named", "viewing",
                              "thread", "amend"}
      [] kind = "remove"  -> {"session", "link", "policy", "target", "may", "viewing", "thread",
                              "remove"}
      [] kind = "read"    -> {"link", "policy", "aim", "serve"}
      [] kind = "public"  -> {"policy", "public"}
      [] OTHER            -> {}

\* The effect comes last; the target is found before the thread that is compared
\* with it, the link before the lease that is.
PlanSound(kind, todo) ==
    /\ \A i \in DOMAIN todo :
          /\ todo[i] \in StepsOf(kind)
          /\ todo[i] \in LastSteps => i = Len(todo)
    /\ \A i, j \in DOMAIN todo : i < j =>
          /\ todo[i] = "thread" => todo[j] # "target"
          /\ todo[i] = "aim" => todo[j] # "link"

\* Whose request it is.
OwnerSound(q, guests) ==
    /\ q.kind \in GuestKinds => /\ q.guest \in Guests /\ q.link \in Links
                                /\ guests[q.guest].link = q.link
    /\ q.kind = "join" => q.guest = None /\ q.link \in Links
    /\ q.kind \in {"idle", "public"} => q.guest = None

\* A link row was open to the guest when it was read.
RowSeen(q, s) ==
    q.guest # None => /\ q.row.comment => s.write
                      /\ q.row.target # Latest => q.row.target \in s.aim

TargetSeen(q, s) ==
    q.kind \in {"lease", "comment", "amend", "remove"} /\ ~In("target", q.todo) =>
       /\ q.version # 0
       /\ q.kind \in WriteKinds => q.version \in s.aim \cup s.current

PermissionSeen(q, s) ==
    q.kind \in WriteKinds /\ ~In("may", q.todo) => s.write /\ s.allowed

ThreadSeen(q, s) ==
    q.kind \in {"amend", "remove"} /\ ~In("thread", q.todo) =>
       q.thread.version \in s.aim \cup s.current

\* The lease's version is saved when the request begins, so that a version that is
\* published later is another one.
LeaseSeen(q, s, current) ==
    q.kind = "read" =>
       /\ ~In("link", q.todo) => s.aim # {}
       /\ ~In("policy", q.todo) => s.on
       /\ ~In("link", q.todo) /\ In("aim", q.todo) /\ q.row.target = Latest =>
             current \in s.aim \cup s.promoted \/ current > q.version
       /\ ~In("aim", q.todo) => q.version \in s.aim \cup s.promoted

PublicSeen(q, s) ==
    q.kind = "public" =>
       /\ q.version \in s.public
       /\ ~In("policy", q.todo) => s.on

Sound(q, s, current, guests) ==
    /\ PlanSound(q.kind, q.todo)
    /\ OwnerSound(q, guests)
    /\ RowSeen(q, s)
    /\ TargetSeen(q, s)
    /\ PermissionSeen(q, s)
    /\ ThreadSeen(q, s)
    /\ LeaseSeen(q, s, current)
    /\ PublicSeen(q, s)
RequestSound == Sound(req, seen, artifact.current, guest)

ShareInv == Types /\ RowsSound /\ CallsSound /\ RequestSound

-----------------------------------------------------------------------------
(* Lemmas about plans                                                      *)

\* The steps that are left after the first one.
LEMMA PlanTail ==
    ASSUME NEW kind, NEW todo \in Seq(Steps), todo # <<>>, PlanSound(kind, todo)
    PROVE  /\ Tail(todo) \in Seq(Steps) /\ PlanSound(kind, Tail(todo))
           /\ Head(todo) \in StepsOf(kind)
           /\ Head(todo) \in LastSteps => Tail(todo) = <<>>
           /\ Head(todo) = "thread" => ~In("target", Tail(todo))
           /\ Head(todo) = "aim" => ~In("link", Tail(todo))
           /\ \A e : In(e, Tail(todo)) => In(e, todo)
           /\ \A e : In(e, todo) /\ e # Head(todo) => In(e, Tail(todo))
<1> DEFINE t == Tail(todo)
<1>1. /\ t \in Seq(Steps) /\ Len(todo) >= 1 /\ Len(t) = Len(todo) - 1
      /\ DOMAIN t = 1..(Len(todo) - 1) /\ DOMAIN todo = 1..Len(todo)
      /\ Head(todo) = todo[1]
      /\ \A i \in 1..(Len(todo) - 1) : t[i] = todo[i + 1]
      /\ Len(todo) \in Nat
  OBVIOUS
<1> HIDE DEF t
<1>2. PlanSound(kind, t)
  <2>1. ASSUME NEW i \in DOMAIN t
        PROVE  t[i] \in StepsOf(kind) /\ (t[i] \in LastSteps => i = Len(t))
    <3>1. i + 1 \in DOMAIN todo /\ t[i] = todo[i + 1]
      BY <1>1
    <3>2. todo[i + 1] \in StepsOf(kind) /\ (todo[i + 1] \in LastSteps => i + 1 = Len(todo))
      BY <3>1 DEF PlanSound
    <3> QED
      BY <1>1, <3>1, <3>2
  <2>2. ASSUME NEW i \in DOMAIN t, NEW j \in DOMAIN t, i < j
        PROVE  /\ t[i] = "thread" => t[j] # "target"
               /\ t[i] = "aim" => t[j] # "link"
    <3>1. /\ i + 1 \in DOMAIN todo /\ t[i] = todo[i + 1]
          /\ j + 1 \in DOMAIN todo /\ t[j] = todo[j + 1] /\ i + 1 < j + 1
      BY <1>1, <2>2
    <3> QED
      BY <3>1 DEF PlanSound
  <2> QED
    BY <2>1, <2>2 DEF PlanSound
<1>3. Head(todo) \in StepsOf(kind) /\ (Head(todo) \in LastSteps => Len(todo) = 1)
  BY <1>1 DEF PlanSound
<1>4. Len(todo) = 1 => t = <<>>
  BY <1>1
<1>5. Head(todo) = "thread" => ~In("target", t)
  BY <1>1 DEF PlanSound, In
<1>6. Head(todo) = "aim" => ~In("link", t)
  BY <1>1 DEF PlanSound, In
<1>7. ASSUME NEW e, In(e, t) PROVE In(e, todo)
  <2>1. PICK i \in 1..(Len(todo) - 1) : t[i] = e
    BY <1>1, <1>7 DEF In
  <2>2. i + 1 \in 1..Len(todo) /\ todo[i + 1] = e
    BY <1>1, <2>1
  <2> QED
    BY <1>1, <2>2 DEF In
<1>8. ASSUME NEW e, In(e, todo), e # Head(todo) PROVE In(e, t)
  <2>1. PICK i \in 1..Len(todo) : todo[i] = e
    BY <1>1, <1>8 DEF In
  <2>2. i - 1 \in 1..(Len(todo) - 1) /\ t[i - 1] = todo[(i - 1) + 1] /\ (i - 1) + 1 = i
    BY <1>1, <1>8, <2>1
  <2> QED
    BY <1>1, <2>1, <2>2 DEF In
<1> QED
  BY <1>1, <1>2, <1>3, <1>4, <1>5, <1>6, <1>7, <1>8 DEF t

LEMMA NothingIn == ASSUME NEW e PROVE ~In(e, <<>>)
BY DEF In

LEMMA PlanDone == ASSUME NEW kind PROVE PlanSound(kind, <<>>)
BY DEF PlanSound

\* A plan is put together from pieces: only the last one ends in an effect, and
\* no target is looked for after a thread.
Piece(kind, s) ==
    /\ s \in Seq(Steps)
    /\ \A i \in DOMAIN s : s[i] \in StepsOf(kind) \ {"aim"}
LEMMA PlanJoin ==
    ASSUME NEW kind, NEW s, NEW t, Piece(kind, s), Piece(kind, t),
           PlanSound(kind, t),
           \A i \in DOMAIN s : s[i] \notin LastSteps,
           \A i \in DOMAIN s : s[i] = "thread" => ~In("target", t),
           \A i, j \in DOMAIN s : i < j => (s[i] = "thread" => s[j] # "target")
    PROVE  /\ Piece(kind, s \o t) /\ PlanSound(kind, s \o t)
           /\ \A e : In(e, s \o t) => In(e, s) \/ In(e, t)
<1> DEFINE u == s \o t
<1>1. s \in Seq(Steps) /\ t \in Seq(Steps)
  BY DEF Piece
<1>2. /\ u \in Seq(Steps) /\ Len(u) = Len(s) + Len(t)
      /\ Len(s) \in Nat /\ Len(t) \in Nat
      /\ DOMAIN u = 1..(Len(s) + Len(t)) /\ DOMAIN s = 1..Len(s) /\ DOMAIN t = 1..Len(t)
      /\ \A i \in 1..(Len(s) + Len(t)) :
            u[i] = IF i <= Len(s) THEN s[i] ELSE t[i - Len(s)]
  BY <1>1
<1> HIDE DEF u
<1>3. \A i \in DOMAIN u : \/ i \in DOMAIN s /\ u[i] = s[i]
                          \/ i - Len(s) \in DOMAIN t /\ u[i] = t[i - Len(s)]
  BY <1>2
<1>4. Piece(kind, u)
  BY <1>2, <1>3 DEF Piece
<1>5. \A i \in DOMAIN u : u[i] \in StepsOf(kind) /\ (u[i] \in LastSteps => i = Len(u))
  <2> TAKE i \in DOMAIN u
  <2>1. CASE i \in DOMAIN s /\ u[i] = s[i]
    BY <2>1 DEF Piece
  <2>2. CASE i - Len(s) \in DOMAIN t /\ u[i] = t[i - Len(s)]
    <3>1. t[i - Len(s)] \in LastSteps => i - Len(s) = Len(t)
      BY <2>2 DEF PlanSound
    <3> QED
      BY <1>2, <2>2, <3>1 DEF Piece
  <2> QED
    BY <1>3, <2>1, <2>2
<1>6. ASSUME NEW i \in DOMAIN u, NEW j \in DOMAIN u, i < j
      PROVE  /\ u[i] = "thread" => u[j] # "target"
             /\ u[i] = "aim" => u[j] # "link"
  <2>1. u[i] # "aim"
    BY <1>4 DEF Piece
  <2>2. ASSUME u[i] = "thread" PROVE u[j] # "target"
    <3>1. CASE i \in DOMAIN s /\ j \in DOMAIN s
      BY <1>2, <1>3, <1>6, <2>2, <3>1
    <3>2. CASE i \in DOMAIN s /\ j \notin DOMAIN s
      <4>1. u[i] = s[i] /\ j - Len(s) \in DOMAIN t /\ u[j] = t[j - Len(s)]
        BY <1>2, <3>2
      <4> QED
        BY <2>2, <3>2, <4>1 DEF In
    <3>3. CASE i \notin DOMAIN s
      <4>1. /\ i - Len(s) \in DOMAIN t /\ u[i] = t[i - Len(s)]
            /\ j - Len(s) \in DOMAIN t /\ u[j] = t[j - Len(s)]
            /\ i - Len(s) < j - Len(s)
        BY <1>2, <1>6, <3>3
      <4> QED
        BY <2>2, <4>1 DEF PlanSound
    <3> QED
      BY <3>1, <3>2, <3>3
  <2> QED
    BY <2>1, <2>2
<1>7. PlanSound(kind, u)
  BY <1>5, <1>6 DEF PlanSound
<1>8. \A e : In(e, u) => In(e, s) \/ In(e, t)
  BY <1>3 DEF In
<1> QED
  BY <1>4, <1>7, <1>8 DEF u

\* A piece without effect and without a thread, as all but the last ones are.
Plain(kind, s) ==
    /\ Piece(kind, s)
    /\ \A i \in DOMAIN s : s[i] \notin LastSteps \cup {"thread"}
LEMMA PlainJoin ==
    ASSUME NEW kind, NEW s, NEW t, Plain(kind, s), Plain(kind, t)
    PROVE  Plain(kind, s \o t)
<1>1. s \in Seq(Steps) /\ t \in Seq(Steps)
  BY DEF Plain, Piece
<1>2. /\ s \o t \in Seq(Steps)
      /\ \A i \in DOMAIN (s \o t) : \/ i \in DOMAIN s /\ (s \o t)[i] = s[i]
                                    \/ i - Len(s) \in DOMAIN t /\ (s \o t)[i] = t[i - Len(s)]
  BY <1>1
<1> QED
  BY <1>2 DEF Plain, Piece

Ends(kind, s) == Piece(kind, s) /\ PlanSound(kind, s)
LEMMA EndsJoin ==
    ASSUME NEW kind, NEW s, NEW t, Plain(kind, s), Ends(kind, t)
    PROVE  Ends(kind, s \o t)
BY PlanJoin DEF Plain, Ends

LEMMA PassPlain ==
    ASSUME NEW kind \in {"name", "lease", "comment", "amend", "remove"}
    PROVE  Plain(kind, Pass) /\ Plain(kind, <<"session">>)
BY DEF Plain, Piece, Pass, StepsOf, Steps, LastSteps

\* Every operation's plan is sound.
LEMMA PlansSound ==
    ASSUME NEW kind \in RequestKinds \ {"idle"}
    PROVE  Todo(kind) \in Seq(Steps) /\ PlanSound(kind, Todo(kind))
<1>1. CASE kind \in {"join", "read", "public"}
  <2>1. CASE kind = "join"
    <3>1. Todo(kind) = <<"policy", "target", "join">>
      BY <2>1 DEF Todo
    <3>2. <<"policy", "target", "join">> \in Seq(Steps)
      BY DEF Steps
    <3>3. PlanSound("join", <<"policy", "target", "join">>)
      BY DEF PlanSound, StepsOf, LastSteps
    <3> QED
      BY <2>1, <3>1, <3>2, <3>3
  <2>2. CASE kind = "read"
    <3>1. Todo(kind) = <<"link", "policy", "aim", "serve">>
      BY <2>2 DEF Todo
    <3>2. <<"link", "policy", "aim", "serve">> \in Seq(Steps)
      BY DEF Steps
    <3>3. PlanSound("read", <<"link", "policy", "aim", "serve">>)
      BY DEF PlanSound, StepsOf, LastSteps
    <3> QED
      BY <2>2, <3>1, <3>2, <3>3
  <2>3. CASE kind = "public"
    <3>1. Todo(kind) = <<"policy", "public">>
      BY <2>3 DEF Todo
    <3>2. <<"policy", "public">> \in Seq(Steps)
      BY DEF Steps
    <3>3. PlanSound("public", <<"policy", "public">>)
      BY DEF PlanSound, StepsOf, LastSteps
    <3> QED
      BY <2>3, <3>1, <3>2, <3>3
  <2> QED
    BY <1>1, <2>1, <2>2, <2>3
<1>2. CASE kind = "name"
  <2>1. Todo(kind) = <<"session">> \o Pass \o Pass \o <<"name">>
    BY <1>2 DEF Todo
  <2>2. Ends(kind, <<"name">>)
    BY <1>2 DEF Ends, Piece, PlanSound, StepsOf, Steps, LastSteps
  <2>3. Plain(kind, <<"session">> \o Pass \o Pass)
    BY <1>2, PassPlain, PlainJoin
  <2> QED
    BY <2>1, <2>2, <2>3, EndsJoin DEF Ends, Piece
<1>3. CASE kind = "lease"
  <2>1. Todo(kind) = <<"session">> \o Pass \o Pass \o <<"current", "link", "policy", "lease">>
    BY <1>3 DEF Todo
  <2>2. Ends(kind, <<"current", "link", "policy", "lease">>)
    BY <1>3 DEF Ends, Piece, PlanSound, StepsOf, Steps, LastSteps
  <2>3. Plain(kind, <<"session">> \o Pass \o Pass)
    BY <1>3, PassPlain, PlainJoin
  <2> QED
    BY <2>1, <2>2, <2>3, EndsJoin DEF Ends, Piece
<1>4. CASE kind = "comment"
  <2> DEFINE end == <<"link", "may", "named", "viewing", "link", "may", "write">>
  <2>1. Todo(kind) = <<"session">> \o Pass \o Pass \o end
    BY <1>4 DEF Todo
  <2>2. Ends(kind, end)
    BY <1>4 DEF Ends, Piece, PlanSound, StepsOf, Steps, LastSteps
  <2> HIDE DEF end
  <2>3. Plain(kind, <<"session">> \o Pass \o Pass)
    BY <1>4, PassPlain, PlainJoin
  <2> QED
    BY <2>1, <2>2, <2>3, EndsJoin DEF Ends, Piece
<1>5. CASE kind = "amend"
  <2> DEFINE named == <<"link", "may", "named">>
             end == <<"link", "may", "amend">>
             front == <<"session">> \o Pass \o Pass \o named \o Pass
  <2>1. Todo(kind) = (front \o FindsThread) \o end
    BY <1>5 DEF Todo
  <2>2. Ends(kind, end) /\ ~In("target", end)
    BY <1>5 DEF Ends, Piece, PlanSound, StepsOf, Steps, LastSteps, In
  <2>3. Plain(kind, named)
    BY <1>5 DEF Plain, Piece, StepsOf, Steps, LastSteps
  <2>4. /\ Piece(kind, FindsThread) /\ FindsThread \in Seq(Steps)
        /\ \A i \in DOMAIN FindsThread : FindsThread[i] \notin LastSteps \cup {"target"}
        /\ PlanSound(kind, FindsThread)
    BY <1>5 DEF Piece, PlanSound, StepsOf, Steps, LastSteps, FindsThread
  <2> HIDE DEF named, end
  <2>5. Plain(kind, front)
    BY <1>5, <2>3, PassPlain, PlainJoin
  <2> HIDE DEF front
  <2>6. Piece(kind, FindsThread \o end) /\ PlanSound(kind, FindsThread \o end)
    BY <2>2, <2>4, PlanJoin DEF Ends
  <2>7. Ends(kind, front \o (FindsThread \o end))
    BY <2>5, <2>6, EndsJoin DEF Ends
  <2>8. (front \o FindsThread) \o end = front \o (FindsThread \o end)
    <3>1. front \in Seq(Steps) /\ FindsThread \in Seq(Steps) /\ end \in Seq(Steps)
      BY <2>2, <2>4, <2>5 DEF Plain, Piece, Ends
    <3> QED
      BY <3>1, ConcatAssociative
  <2> QED
    BY <2>1, <2>7, <2>8 DEF Ends, Piece
<1>6. CASE kind = "remove"
  <2> DEFINE end == <<"link", "may", "link", "may", "remove">>
             front == <<"session">> \o Pass \o Pass
  <2>1. Todo(kind) = (front \o FindsThread) \o end
    BY <1>6 DEF Todo
  <2>2. Ends(kind, end) /\ ~In("target", end)
    BY <1>6 DEF Ends, Piece, PlanSound, StepsOf, Steps, LastSteps, In
  <2>4. /\ Piece(kind, FindsThread) /\ FindsThread \in Seq(Steps)
        /\ \A i \in DOMAIN FindsThread : FindsThread[i] \notin LastSteps \cup {"target"}
        /\ PlanSound(kind, FindsThread)
    BY <1>6 DEF Piece, PlanSound, StepsOf, Steps, LastSteps, FindsThread
  <2> HIDE DEF end
  <2>5. Plain(kind, front)
    BY <1>6, PassPlain, PlainJoin
  <2> HIDE DEF front
  <2>6. Piece(kind, FindsThread \o end) /\ PlanSound(kind, FindsThread \o end)
    BY <2>2, <2>4, PlanJoin DEF Ends
  <2>7. Ends(kind, front \o (FindsThread \o end))
    BY <2>5, <2>6, EndsJoin DEF Ends
  <2>8. (front \o FindsThread) \o end = front \o (FindsThread \o end)
    <3>1. front \in Seq(Steps) /\ FindsThread \in Seq(Steps) /\ end \in Seq(Steps)
      BY <2>2, <2>4, <2>5 DEF Plain, Piece, Ends
    <3> QED
      BY <3>1, ConcatAssociative
  <2> QED
    BY <2>1, <2>7, <2>8 DEF Ends, Piece
<1> QED
  BY <1>1, <1>2, <1>3, <1>4, <1>5, <1>6 DEF RequestKinds, GuestKinds

-----------------------------------------------------------------------------
(* Types                                                                   *)

LEMMA ConstantFacts ==
    /\ MaxVersion \in Nat /\ MaxVersion >= 1 /\ MaxRevision \in Nat /\ MaxRevision >= 1
    /\ MaxReviewVersion \in 1..MaxVersion
    /\ None \notin Links /\ None \notin Guests /\ None \notin Keys
BY ShareAssumption

LEMMA ArtifactFacts ==
    ASSUME NEW a, ArtifactRow(a)
    PROVE  /\ a.count \in 1..MaxVersion /\ a.count \in Nat
           /\ a.current \in 1..a.count /\ a.open \subseteq 1..a.count
           /\ a.access \in {"account", "public"} /\ a.deleted \in BOOLEAN
BY ConstantFacts DEF ArtifactRow

LEMMA TypesImply == Types => TypeOK
<1> SUFFICES ASSUME Types PROVE TypeOK
  OBVIOUS
<1>1. artifact.count \in Nat /\ 1..artifact.count = Versions /\ 0..artifact.count = Targets
  BY ArtifactFacts DEF Types, Versions, Targets, Latest
<1>2. artifact \in [count : 1..MaxVersion, current : Versions, open : SUBSET Versions,
                    access : {"account", "public"}, deleted : BOOLEAN]
  BY <1>1 DEF Types, ArtifactRow
<1>3. link \in [Links -> [st : {"none", "live", "revoked"}, target : Targets, comment : BOOLEAN,
                          expired : BOOLEAN, gen : 1..MaxRevision, rev : 1..MaxRevision]]
  BY <1>1 DEF Types, LinkRows
<1>4. req.todo \in Seq(Steps) /\ req.version \in 0..artifact.count
  BY DEF Types, RequestRows
<1>5. \A m \in Calls : call[m].kind \in Kinds \cup {"none"} /\ call[m].target \in Targets
  BY <1>1 DEF Types, CallRows
<1> QED
  BY <1>1, <1>2, <1>3, <1>4, <1>5 DEF Types, TypeOK, GuestRows

LEMMA RowsRise ==
    ASSUME NEW n \in Nat, NEW k \in Nat, n <= k
    PROVE  /\ LinkRows(n) \subseteq LinkRows(k) /\ RequestRows(n) \subseteq RequestRows(k)
           /\ CallRows(n) \subseteq CallRows(k) /\ Threads(n) \subseteq Threads(k)
<1>1. 0..n \subseteq 0..k
  OBVIOUS
<1>2. LinkRows(n) \subseteq LinkRows(k) /\ Threads(n) \subseteq Threads(k)
  BY <1>1 DEF LinkRows, Threads
<1>3. RequestRows(n) \subseteq RequestRows(k)
  BY <1>1, <1>2 DEF RequestRows
<1>4. CallRows(n) \subseteq CallRows(k)
  BY <1>1 DEF CallRows
<1> QED
  BY <1>2, <1>3, <1>4

LEMMA Blank ==
    ASSUME NEW n \in Nat
    PROVE  /\ NoLink \in LinkRows(n) /\ NoGuest \in GuestRows
           /\ NoRequest \in RequestRows(n) /\ NoCall \in CallRows(n)
<1>1. 0 \in 0..n /\ 1 \in 1..MaxRevision /\ <<>> \in Seq(Steps)
  BY ConstantFacts
<1>2. NoLink \in LinkRows(n) /\ NoGuest \in GuestRows
  BY <1>1 DEF NoLink, LinkRows, NoGuest, GuestRows, Latest
<1>3. NoRequest \in RequestRows(n)
  BY <1>1, <1>2 DEF NoRequest, RequestRows, NoThread, Threads, RequestKinds
<1>4. NoCall \in CallRows(n)
  BY <1>1 DEF NoCall, CallRows, Latest
<1> QED
  BY <1>2, <1>3, <1>4

\* A change of the artifact's row leaves every other type as it is.
LEMMA ArtifactTyped ==
    ASSUME Types, ArtifactRow(artifact'), artifact'.count >= artifact.count,
           policy' = policy, UNCHANGED <<visitorVars, managerVars>>
    PROVE  Types'
<1> DEFINE n == artifact.count
           k == artifact'.count
<1>1. n \in Nat /\ k \in Nat /\ n <= k
  BY ArtifactFacts DEF Types
<1>2. LinkRows(n) \subseteq LinkRows(k) /\ RequestRows(n) \subseteq RequestRows(k)
      /\ CallRows(n) \subseteq CallRows(k)
  BY <1>1, RowsRise
<1>3. 0..n \subseteq 0..k /\ 1..n \subseteq 1..k
  BY <1>1
<1>4. link' \in [Links -> LinkRows(k)] /\ call' \in [Calls -> CallRows(k)] /\ req' \in RequestRows(k)
  BY <1>2 DEF Types, visitorVars, managerVars
<1>5. used' \in [Keys -> [to : {"none", "account", "public"}, expected : 0..k]]
  BY <1>3 DEF Types, managerVars
<1>6. /\ leases' \subseteq [guest : Guests, version : 1..k]
      /\ comments' \subseteq [guest : Guests \cup {None}, version : 1..k]
  BY <1>3 DEF Types, visitorVars
<1>7. replies' \subseteq [guest : Guests, thread : comments'] /\ guest' \in [Guests -> GuestRows]
  BY DEF Types, visitorVars
<1> QED
  BY <1>4, <1>5, <1>6, <1>7 DEF Types

LEMMA ArtifactSteps ==
    ASSUME Types,
           \/ Publish \/ StageCandidate \/ DeleteArtifact
           \/ \E v \in artifact.open : PromoteCandidate(v)
    PROVE  /\ ArtifactRow(artifact') /\ artifact'.count >= artifact.count
           /\ policy' = policy /\ UNCHANGED <<visitorVars, managerVars, ops>> /\ Witness
           /\ \/ artifact'.current = artifact.current
              \/ artifact'.current \in artifact.open
              \/ artifact'.current > artifact.count
<1>0. /\ artifact.count \in 1..MaxVersion /\ artifact.count \in Nat /\ MaxVersion \in Nat
      /\ artifact.current \in 1..artifact.count /\ artifact.open \subseteq 1..artifact.count
      /\ artifact.access \in {"account", "public"} /\ artifact.deleted \in BOOLEAN
      /\ MaxReviewVersion \in 1..MaxVersion
      /\ artifact \in [count : 1..MaxVersion, current : 1..artifact.count,
                       open : SUBSET (1..artifact.count),
                       access : {"account", "public"}, deleted : BOOLEAN]
  BY ArtifactFacts, ConstantFacts DEF Types, ArtifactRow
<1>1. CASE Publish
  <2>1. artifact.count < MaxVersion
    BY <1>0, <1>1 DEF Publish, MoreVersions
  <2>2. /\ artifact' = [artifact EXCEPT !.count = artifact.count + 1,
                                        !.current = artifact.count + 1, !.open = {}]
    BY <1>1 DEF Publish
  <2>3. /\ artifact'.count = artifact.count + 1 /\ artifact'.current = artifact.count + 1
        /\ ArtifactRow(artifact')
    <3>1. artifact' = [count |-> artifact.count + 1, current |-> artifact.count + 1, open |-> {},
                       access |-> artifact.access, deleted |-> artifact.deleted]
      BY <1>0, <2>2
    <3>2. artifact.count + 1 \in 1..MaxVersion /\ artifact.count + 1 \in 1..(artifact.count + 1)
      BY <1>0, <2>1
    <3> QED
      BY <1>0, <3>1, <3>2 DEF ArtifactRow
  <2> QED
    BY <1>0, <1>1, <2>3 DEF Publish
<1>2. CASE StageCandidate
  <2>1. artifact.count < MaxVersion
    BY <1>0, <1>2 DEF StageCandidate, MoreVersions
  <2>2. artifact' = [artifact EXCEPT !.count = artifact.count + 1,
                                     !.open = artifact.open \cup {artifact.count + 1}]
    BY <1>2 DEF StageCandidate
  <2>3. /\ artifact'.count = artifact.count + 1 /\ artifact'.current = artifact.current
        /\ ArtifactRow(artifact')
    <3>1. artifact' = [count |-> artifact.count + 1, current |-> artifact.current,
                       open |-> artifact.open \cup {artifact.count + 1},
                       access |-> artifact.access, deleted |-> artifact.deleted]
      BY <1>0, <2>2
    <3>2. /\ artifact.count + 1 \in 1..MaxVersion /\ artifact.current \in 1..(artifact.count + 1)
          /\ artifact.open \cup {artifact.count + 1} \subseteq 1..(artifact.count + 1)
      BY <1>0, <2>1
    <3> QED
      BY <1>0, <3>1, <3>2 DEF ArtifactRow
  <2> QED
    BY <1>0, <1>2, <2>3 DEF StageCandidate
<1>3. CASE DeleteArtifact
  <2>2. artifact' = [artifact EXCEPT !.deleted = TRUE]
    BY <1>3 DEF DeleteArtifact
  <2>3. /\ artifact'.count = artifact.count /\ artifact'.current = artifact.current
        /\ ArtifactRow(artifact')
    BY <1>0, <2>2 DEF ArtifactRow
  <2> QED
    BY <1>0, <1>3, <2>3 DEF DeleteArtifact
<1>4. CASE \E v \in artifact.open : PromoteCandidate(v)
  <2>1. PICK v \in artifact.open : PromoteCandidate(v)
    BY <1>4
  <2>2. artifact' = [artifact EXCEPT !.current = v, !.open = {}]
    BY <2>1 DEF PromoteCandidate
  <2>3. /\ artifact'.count = artifact.count /\ artifact'.current \in artifact.open
        /\ ArtifactRow(artifact')
    BY <1>0, <2>2 DEF ArtifactRow
  <2>4. policy' = policy /\ UNCHANGED <<visitorVars, managerVars, ops>> /\ Witness
    BY <2>1 DEF PromoteCandidate
  <2> QED
    BY <1>0, <2>3, <2>4
<1> QED
  BY <1>1, <1>2, <1>3, <1>4

-----------------------------------------------------------------------------
(* Managers' calls                                                         *)

\* A link row is not taken back, its revision only rises, and it stays revoked.
LinksRise(before, after) ==
    \A l \in Links :
       /\ before[l].st # "none" => after[l].st # "none" /\ after[l].rev >= before[l].rev
       /\ before[l].st = "revoked" => after[l].st = "revoked"

LinksTyped(rows, n) ==
    rows \in [Links -> LinkRows(n)] /\ \A l \in Links : rows[l].gen <= rows[l].rev

LEMMA RowFacts ==
    ASSUME NEW n, NEW r \in LinkRows(n)
    PROVE  /\ r.st \in {"none", "live", "revoked"} /\ r.target \in 0..n /\ r.comment \in BOOLEAN
           /\ r.expired \in BOOLEAN /\ r.gen \in 1..MaxRevision /\ r.rev \in 1..MaxRevision
           /\ r.gen \in Nat /\ r.rev \in Nat
           /\ r = [st |-> r.st, target |-> r.target, comment |-> r.comment,
                   expired |-> r.expired, gen |-> r.gen, rev |-> r.rev]
BY ConstantFacts DEF LinkRows

LEMMA CallFacts ==
    ASSUME NEW n, NEW c \in CallRows(n)
    PROVE  /\ c.at \in {"idle", "write", "revokeAll", "done"} /\ c.kind \in Kinds \cup {"none"}
           /\ c.link \in Links \cup {None} /\ c.target \in 0..n /\ c.comment \in BOOLEAN
           /\ c.rev \in 1..MaxRevision /\ c.rev \in Nat /\ c.to \in {"account", "public"}
           /\ c.key \in Keys \cup {None} /\ c.expected \in 0..n /\ c.wasPublic \in BOOLEAN
           /\ c.held \subseteq Links
BY ConstantFacts DEF CallRows

LEMMA CallKeeps ==
    ASSUME NEW n \in Nat, NEW before \in [Links -> LinkRows(n)], NEW after \in [Links -> LinkRows(n)],
           LinksRise(before, after), NEW c \in CallRows(n), CallSound(c, before)
    PROVE  CallSound(c, after)
<1>1. \A l \in Links : before[l].rev \in Nat /\ after[l].rev \in Nat
  BY RowFacts
<1>2. c.held \subseteq Links /\ c.rev \in Nat
  BY CallFacts
<1> QED
  BY <1>1, <1>2 DEF CallSound, LinksRise

\* What a step of the call m has to show: its own row is sound, the link rows only
\* rise, and a change that is done was made to the revision the call had loaded.
LEMMA CallSet ==
    ASSUME Types, CallsSound, NEW m \in Calls, NEW c \in CallRows(artifact.count),
           LinksTyped(link', artifact.count), LinksRise(link, link'), CallSound(c, link'),
           c.at = "done" /\ c.kind \in {"update", "rotate"} =>
              c.link \in Links /\ link[c.link].rev = c.rev,
           call' = [call EXCEPT ![m] = c]
    PROVE  call' \in [Calls -> CallRows(artifact.count)] /\ CallsSound'
<1> DEFINE n == artifact.count
<1>0. n \in Nat /\ call \in [Calls -> CallRows(n)] /\ link \in [Links -> LinkRows(n)]
      /\ link' \in [Links -> LinkRows(n)]
  BY ArtifactFacts DEF Types, LinksTyped
<1> HIDE DEF n
<1>1. call' \in [Calls -> CallRows(n)] /\ call'[m] = c /\ \A x \in Calls \ {m} : call'[x] = call[x]
  BY <1>0 DEF n
<1>2. \A x \in Calls : CallSound(call'[x], link')
  <2> TAKE x \in Calls
  <2>1. CASE x = m
    BY <1>1, <2>1
  <2>2. CASE x # m
    <3>1. CallSound(call[x], link) /\ call[x] \in CallRows(n)
      BY <1>0 DEF CallsSound
    <3> QED
      BY <1>0, <1>1, <2>2, <3>1, CallKeeps
  <2> QED
    BY <2>1, <2>2
<1>3. ASSUME NEW x \in Calls, x # m, call[x].at = "done", call[x].kind \in {"update", "rotate"},
             c.at = "done", c.kind \in {"update", "rotate"}, call[x].link = c.link
      PROVE  call[x].rev # c.rev
  <2>1. CallSound(call[x], link) /\ call[x] \in CallRows(n)
    BY <1>0 DEF CallsSound
  <2>2. link[call[x].link].rev > call[x].rev /\ call[x].link \in Links
    BY <1>3, <2>1 DEF CallSound
  <2>3. link[call[x].link].rev \in Nat /\ call[x].rev \in Nat
    BY <1>0, <2>1, <2>2, RowFacts, CallFacts
  <2> QED
    BY <1>3, <2>2, <2>3
<1>4. OneWriterPerRevision'
  <2> SUFFICES ASSUME NEW x \in Calls, NEW y \in Calls, x # y,
                      call'[x].at = "done", call'[y].at = "done",
                      call'[x].kind \in {"update", "rotate"},
                      call'[y].kind \in {"update", "rotate"},
                      call'[x].link = call'[y].link
               PROVE  call'[x].rev # call'[y].rev
    BY DEF OneWriterPerRevision
  <2>1. CASE x = m
    BY <1>1, <1>3, <2>1
  <2>2. CASE y = m
    BY <1>1, <1>3, <2>2
  <2>3. CASE x # m /\ y # m
    BY <1>1, <2>3 DEF CallsSound, OneWriterPerRevision
  <2> QED
    BY <2>1, <2>2, <2>3
<1> QED
  BY <1>1, <1>2, <1>4 DEF CallsSound, n

LEMMA NoCallSound == ASSUME NEW rows PROVE CallSound(NoCall, rows) /\ NoCall.at = "idle"
BY DEF CallSound, NoCall

LEMMA LinksStay ==
    ASSUME Types, RowsSound
    PROVE  LinksTyped(link, artifact.count) /\ LinksRise(link, link)
<1>1. \A l \in Links : link[l].rev \in Nat
  BY RowFacts DEF Types
<1> QED
  BY <1>1 DEF Types, RowsSound, LinksTyped, LinksRise

\* The frame of a manager's step.
LEMMA ManagerFrame ==
    ASSUME Types, RowsSound, UNCHANGED <<visitorVars, policy>>, ArtifactRow(artifact'),
           artifact'.count = artifact.count,
           LinksTyped(link', artifact.count), call' \in [Calls -> CallRows(artifact.count)],
           used' \in [Keys -> [to : {"none", "account", "public"}, expected : 0..artifact.count]]
    PROVE  Types' /\ RowsSound'
<1>1. Types'
  BY DEF Types, LinksTyped, visitorVars
<1>2. RowsSound'
  BY DEF RowsSound, LinksTyped, visitorVars
<1> QED
  BY <1>1, <1>2

\* A call begins, with the row it has read in a sound state.
LEMMA StartStep ==
    ASSUME Types, RowsSound, CallsSound, NEW m \in Calls, NEW c \in CallRows(artifact.count),
           CallSound(c, link), c.at # "done", Start(m, c)
    PROVE  Types' /\ RowsSound' /\ CallsSound'
<1>1. call' = [call EXCEPT ![m] = c] /\ UNCHANGED <<artifact, policy, visitorVars, link, used>>
  BY DEF Start
<1>2. LinksTyped(link', artifact.count) /\ LinksRise(link, link')
  BY <1>1, LinksStay
<1>3. call' \in [Calls -> CallRows(artifact.count)] /\ CallsSound'
  BY <1>1, <1>2, CallSet
<1>4. ArtifactRow(artifact') /\ used' \in [Keys -> [to : {"none", "account", "public"},
                                                   expected : 0..artifact.count]]
  BY <1>1 DEF Types
<1> QED
  BY <1>1, <1>2, <1>3, <1>4, ManagerFrame

LEMMA StartsTyped ==
    ASSUME Types, RowsSound, CallsSound, NEW m \in Calls,
           \/ \E t \in 0..MaxVersion, comment \in BOOLEAN :
                 \/ CreateLink(m, t, comment)
                 \/ \E l \in Links : UpdateLink(m, l, t, comment)
           \/ \E l \in Links : RotateLink(m, l) \/ RevokeLink(m, l)
           \/ \E to \in {"account", "public"}, k \in Keys : ChangeAccess(m, to, k)
    PROVE  Types' /\ RowsSound' /\ CallsSound'
<1> DEFINE n == artifact.count
<1>0. /\ n \in Nat /\ artifact.current \in 0..n /\ Targets = 0..n /\ 1 \in 1..MaxRevision
      /\ link \in [Links -> LinkRows(n)] /\ \A l \in Links : link[l].rev \in 1..MaxRevision
      /\ 0 \in 0..n
  BY ArtifactFacts, RowFacts, ConstantFacts DEF Types, Targets, Versions, Latest
<1> HIDE DEF n
<1>1. ASSUME NEW t \in 0..MaxVersion, NEW comment \in BOOLEAN, CreateLink(m, t, comment)
      PROVE  Types' /\ RowsSound' /\ CallsSound'
  <2> DEFINE c == [NoCall EXCEPT !.at = "write", !.kind = "create", !.target = t,
                                 !.comment = comment]
  <2>1. c \in CallRows(n) /\ CallSound(c, link) /\ c.at # "done"
    BY <1>0, <1>1 DEF CreateLink, TargetExists, NoCall, CallRows, CallSound, Kinds, Latest
  <2>2. Start(m, c)
    BY <1>1 DEF CreateLink
  <2> QED
    BY <2>1, <2>2, StartStep DEF n
<1>2. ASSUME NEW t \in 0..MaxVersion, NEW comment \in BOOLEAN, NEW l \in Links,
             UpdateLink(m, l, t, comment)
      PROVE  Types' /\ RowsSound' /\ CallsSound'
  <2> DEFINE c == [NoCall EXCEPT !.at = "write", !.kind = "update", !.link = l,
                                 !.rev = link[l].rev, !.target = t, !.comment = comment]
  <2>1. c \in CallRows(n) /\ CallSound(c, link) /\ c.at # "done"
    BY <1>0, <1>2 DEF UpdateLink, Exists, TargetExists, NoCall, CallRows, CallSound, Kinds, Latest
  <2>2. Start(m, c)
    BY <1>2 DEF UpdateLink
  <2> QED
    BY <2>1, <2>2, StartStep DEF n
<1>3. ASSUME NEW l \in Links, RotateLink(m, l)
      PROVE  Types' /\ RowsSound' /\ CallsSound'
  <2> DEFINE c == [NoCall EXCEPT !.at = "write", !.kind = "rotate", !.link = l, !.rev = link[l].rev]
  <2>1. c \in CallRows(n) /\ CallSound(c, link) /\ c.at # "done"
    BY <1>0, <1>3 DEF RotateLink, Exists, NoCall, CallRows, CallSound, Kinds, Latest
  <2>2. Start(m, c)
    BY <1>3 DEF RotateLink
  <2> QED
    BY <2>1, <2>2, StartStep DEF n
<1>4. ASSUME NEW l \in Links, RevokeLink(m, l)
      PROVE  Types' /\ RowsSound' /\ CallsSound'
  <2> DEFINE c == [NoCall EXCEPT !.at = "write", !.kind = "revoke", !.link = l]
  <2>1. c \in CallRows(n) /\ CallSound(c, link) /\ c.at # "done"
    BY <1>0, <1>4 DEF RevokeLink, Exists, NoCall, CallRows, CallSound, Kinds, Latest
  <2>2. Start(m, c)
    BY <1>4 DEF RevokeLink
  <2> QED
    BY <2>1, <2>2, StartStep DEF n
<1>5. ASSUME NEW to \in {"account", "public"}, NEW k \in Keys, ChangeAccess(m, to, k)
      PROVE  Types' /\ RowsSound' /\ CallsSound'
  <2> DEFINE c == [NoCall EXCEPT !.at = "write", !.kind = "access", !.to = to, !.key = k,
                                 !.expected = artifact.current,
                                 !.wasPublic = (artifact.access = "public")]
  <2>1. c \in CallRows(n) /\ CallSound(c, link) /\ c.at # "done"
    BY <1>0, <1>5 DEF NoCall, CallRows, CallSound, Kinds, Latest
  <2>2. Start(m, c)
    BY <1>5 DEF ChangeAccess
  <2> QED
    BY <2>1, <2>2, StartStep DEF n
<1> QED
  BY <1>1, <1>2, <1>3, <1>4, <1>5

\* A call is over, refused or not: its row is blank, or is remembered as done.
LEMMA EndStep ==
    ASSUME Types, RowsSound, CallsSound, NEW m \in Calls, Refuse(m),
           LinksTyped(link', artifact.count), LinksRise(link, link'),
           UNCHANGED <<visitorVars, policy, used, artifact>>
    PROVE  Types' /\ RowsSound' /\ CallsSound'
<1>1. NoCall \in CallRows(artifact.count) /\ CallSound(NoCall, link') /\ NoCall.at # "done"
  BY Blank, NoCallSound, ArtifactFacts DEF Types
<1>2. call' \in [Calls -> CallRows(artifact.count)] /\ CallsSound'
  BY <1>1, CallSet DEF Refuse
<1>3. ArtifactRow(artifact') /\ used' \in [Keys -> [to : {"none", "account", "public"},
                                                   expected : 0..artifact.count]]
  BY DEF Types
<1> QED
  BY <1>2, <1>3, ManagerFrame

LEMMA FinishStep ==
    ASSUME Types, RowsSound, CallsSound, NEW m \in Calls, Finish(m),
           LinksTyped(link', artifact.count), LinksRise(link, link'),
           CallSound([call[m] EXCEPT !.at = "done"], link'),
           call[m].kind \in {"update", "rotate"} =>
              call[m].link \in Links /\ link[call[m].link].rev = call[m].rev,
           UNCHANGED <<visitorVars, policy, used, artifact>>
    PROVE  Types' /\ RowsSound' /\ CallsSound'
<1> DEFINE c == [call[m] EXCEPT !.at = "done"]
<1>1. CASE Refuse(m)
  BY <1>1, EndStep
<1>2. CASE call' = [call EXCEPT ![m].at = "done"]
  <2>1. call[m] \in CallRows(artifact.count)
    BY DEF Types
  <2>2. /\ c \in CallRows(artifact.count) /\ c.kind = call[m].kind /\ c.link = call[m].link
        /\ c.rev = call[m].rev
    BY <2>1 DEF CallRows
  <2>3. call' = [call EXCEPT ![m] = c]
    BY <1>2
  <2> HIDE DEF c
  <2>4. CallSound(c, link')
    BY DEF c
  <2>5. call' \in [Calls -> CallRows(artifact.count)] /\ CallsSound'
    BY <2>2, <2>3, <2>4, CallSet
  <2>6. ArtifactRow(artifact') /\ used' \in [Keys -> [to : {"none", "account", "public"},
                                                     expected : 0..artifact.count]]
    BY DEF Types
  <2> QED
    BY <2>5, <2>6, ManagerFrame
<1> QED
  BY <1>1, <1>2 DEF Finish

LEMMA RowChange ==
    ASSUME Types, RowsSound, NEW l \in Links, NEW r \in LinkRows(artifact.count), r.gen <= r.rev,
           link[l].st # "none" => r.st # "none" /\ r.rev >= link[l].rev,
           link[l].st = "revoked" => r.st = "revoked",
           link' = [link EXCEPT ![l] = r]
    PROVE  LinksTyped(link', artifact.count) /\ LinksRise(link, link')
<1>1. link \in [Links -> LinkRows(artifact.count)] /\ \A x \in Links : link[x].rev \in Nat
  BY RowFacts DEF Types
<1>2. /\ link' \in [Links -> LinkRows(artifact.count)] /\ link'[l] = r
      /\ \A x \in Links \ {l} : link'[x] = link[x]
  BY <1>1
<1> QED
  BY <1>1, <1>2 DEF LinksTyped, LinksRise, RowsSound

LEMMA RevokedRow ==
    ASSUME NEW n \in Nat, NEW r \in LinkRows(n), r.rev < MaxRevision, r.gen <= r.rev
    PROVE  /\ Revoked(r) \in LinkRows(n) /\ Revoked(r).st = "revoked"
           /\ Revoked(r).gen <= Revoked(r).rev /\ Revoked(r).rev >= r.rev
<1>1. r.rev + 1 \in 1..MaxRevision /\ r.gen <= r.rev + 1 /\ r.rev + 1 >= r.rev
  BY RowFacts, ConstantFacts
<1>2. /\ Revoked(r).st = "revoked" /\ Revoked(r).gen = r.gen /\ Revoked(r).rev = r.rev + 1
  BY DEF Revoked, LinkRows
<1>3. Revoked(r) \in LinkRows(n)
  BY <1>1 DEF Revoked, LinkRows
<1> QED
  BY <1>1, <1>2, <1>3

LEMMA WritesTyped ==
    ASSUME Types, RowsSound, CallsSound, NEW m \in Calls,
           \/ \E l \in Links : InsertLink(m, l)
           \/ WriteUpdate(m) \/ WriteRotation(m) \/ WriteRevocation(m)
           \/ RevokeArtifactLinks(m) \/ EndCall(m)
    PROVE  Types' /\ RowsSound' /\ CallsSound'
<1> DEFINE n == artifact.count
           c == call[m]
           done == [call[m] EXCEPT !.at = "done"]
<1>0. /\ n \in Nat /\ link \in [Links -> LinkRows(n)] /\ 1 \in 1..MaxRevision /\ MaxRevision \in Nat
      /\ \A l \in Links : link[l].gen <= link[l].rev
      /\ c \in CallRows(n) /\ CallSound(c, link)
      /\ LinksTyped(link, n) /\ LinksRise(link, link)
  BY ArtifactFacts, ConstantFacts, LinksStay DEF Types, RowsSound, CallsSound
<1>d. /\ done.at = "done" /\ done.kind = c.kind /\ done.link = c.link /\ done.rev = c.rev
      /\ done.to = c.to /\ done.wasPublic = c.wasPublic /\ done.held = c.held
  BY <1>0 DEF CallRows
<1> HIDE DEF n, c, done
<1>c. /\ c.at \in {"idle", "write", "revokeAll", "done"} /\ c.kind \in Kinds \cup {"none"}
      /\ c.target \in 0..n /\ c.comment \in BOOLEAN /\ c.rev \in Nat /\ c.held \subseteq Links
  BY <1>0, CallFacts
<1>1. ASSUME NEW l \in Links, InsertLink(m, l) PROVE Types' /\ RowsSound' /\ CallsSound'
  <2> DEFINE r == [NoLink EXCEPT !.st = "live", !.target = c.target, !.comment = c.comment]
  <2>0. /\ c.at = "write" /\ c.kind = "create" /\ link[l].st = "none" /\ Finish(m)
        /\ link' = [link EXCEPT ![l] = r] /\ UNCHANGED <<artifact, policy, visitorVars, used>>
    BY <1>1 DEF InsertLink, c
  <2>1. r \in LinkRows(n) /\ r.gen <= r.rev
    <3>1. r \in LinkRows(n)
      BY <1>0, <1>c DEF NoLink, LinkRows, Latest
    <3>2. r.gen = 1 /\ r.rev = 1
      BY DEF NoLink, Latest
    <3> QED
      BY <3>1, <3>2
  <2> HIDE DEF r
  <2>2. LinksTyped(link', n) /\ LinksRise(link, link')
    BY <2>0, <2>1, RowChange DEF n
  <2>3. CallSound(c, link')
    BY <1>0, <2>2, CallKeeps DEF LinksTyped
  <2>4. CallSound(done, link')
    BY <1>d, <2>0, <2>3 DEF CallSound
  <2> QED
    BY <2>0, <2>2, <2>4, FinishStep DEF n, c, done
<1>2. ASSUME NEW l, l = c.link, c.at = "write", c.kind = "update", link[l].rev < MaxRevision,
             Changeable(l, c.rev), Finish(m),
             link' = [link EXCEPT ![l].target = c.target, ![l].comment = c.comment,
                                  ![l].expired = FALSE, ![l].rev = @ + 1],
             UNCHANGED <<artifact, policy, visitorVars, used>>
      PROVE  Types' /\ RowsSound' /\ CallsSound'
  <2> DEFINE old == link[l]
             r == [st |-> old.st, target |-> c.target, comment |-> c.comment, expired |-> FALSE,
                   gen |-> old.gen, rev |-> old.rev + 1]
  <2>0. l \in Links /\ link[l].st = "live" /\ link[l].rev = c.rev
    BY <1>0, <1>2 DEF CallSound, Changeable
  <2>1. /\ old \in LinkRows(n) /\ old.rev \in Nat /\ old.gen \in 1..MaxRevision
        /\ old.st \in {"none", "live", "revoked"} /\ old.gen <= old.rev
    BY <1>0, <2>0, RowFacts
  <2>2. link' = [link EXCEPT ![l] = r]
    BY <1>0, <1>2, <2>0, <2>1 DEF LinkRows
  <2>3. r \in LinkRows(n) /\ r.gen <= r.rev /\ r.rev = old.rev + 1 /\ r.st = old.st
    BY <1>0, <1>2, <1>c, <2>1 DEF LinkRows
  <2>r. r.rev > c.rev
    BY <2>0, <2>1, <2>3
  <2> HIDE DEF r
  <2>4. LinksTyped(link', n) /\ LinksRise(link, link')
    <3>1. r.st # "none" /\ r.rev >= link[l].rev /\ link[l].st # "revoked"
      BY <2>0, <2>1, <2>3
    <3> QED
      BY <2>0, <2>2, <2>3, <3>1, RowChange DEF n
  <2>5. CallSound(c, link')
    BY <1>0, <2>4, CallKeeps DEF LinksTyped
  <2>6. link'[l] = r
    BY <1>0, <2>0, <2>2
  <2>7. CallSound(done, link')
    BY <1>2, <1>d, <2>5, <2>6, <2>r DEF CallSound
  <2> QED
    BY <1>2, <2>0, <2>4, <2>7, FinishStep DEF n, c, done
<1>3. ASSUME NEW l, l = c.link, c.at = "write", c.kind = "rotate", link[l].rev < MaxRevision,
             Changeable(l, c.rev), Finish(m),
             link' = [link EXCEPT ![l].gen = @ + 1, ![l].rev = @ + 1],
             UNCHANGED <<artifact, policy, visitorVars, used>>
      PROVE  Types' /\ RowsSound' /\ CallsSound'
  <2> DEFINE old == link[l]
             r == [st |-> old.st, target |-> old.target, comment |-> old.comment,
                   expired |-> old.expired, gen |-> old.gen + 1, rev |-> old.rev + 1]
  <2>0. l \in Links /\ link[l].st = "live" /\ link[l].rev = c.rev
    BY <1>0, <1>3 DEF CallSound, Changeable
  <2>1. /\ old \in LinkRows(n) /\ old.rev \in Nat /\ old.gen \in 1..MaxRevision /\ old.gen \in Nat
        /\ old.st \in {"none", "live", "revoked"} /\ old.gen <= old.rev
    BY <1>0, <2>0, RowFacts
  <2>2. link' = [link EXCEPT ![l] = r]
    BY <1>0, <1>3, <2>0, <2>1 DEF LinkRows
  <2>3. r \in LinkRows(n) /\ r.gen <= r.rev /\ r.rev = old.rev + 1 /\ r.st = old.st
    BY <1>0, <1>3, <1>c, <2>1 DEF LinkRows
  <2>r. r.rev > c.rev
    BY <2>0, <2>1, <2>3
  <2> HIDE DEF r
  <2>4. LinksTyped(link', n) /\ LinksRise(link, link')
    <3>1. r.st # "none" /\ r.rev >= link[l].rev /\ link[l].st # "revoked"
      BY <2>0, <2>1, <2>3
    <3> QED
      BY <2>0, <2>2, <2>3, <3>1, RowChange DEF n
  <2>5. CallSound(c, link')
    BY <1>0, <2>4, CallKeeps DEF LinksTyped
  <2>6. link'[l] = r
    BY <1>0, <2>0, <2>2
  <2>7. CallSound(done, link')
    BY <1>3, <1>d, <2>5, <2>6, <2>r DEF CallSound
  <2> QED
    BY <1>3, <2>0, <2>4, <2>7, FinishStep DEF n, c, done
<1>4. ASSUME WriteRevocation(m) PROVE Types' /\ RowsSound' /\ CallsSound'
  <2> DEFINE l == c.link
             r == IF link[l].st = "live" THEN Revoked(link[l]) ELSE link[l]
  <2>0. /\ c.at = "write" /\ c.kind = "revoke" /\ link[l].rev < MaxRevision /\ Finish(m)
        /\ link' = [link EXCEPT ![l] = r] /\ UNCHANGED <<artifact, policy, visitorVars, used>>
    BY <1>4 DEF WriteRevocation, c
  <2>1. l \in Links
    BY <1>0, <2>0 DEF CallSound
  <2>2. /\ link[l] \in LinkRows(n) /\ link[l].rev \in Nat /\ link[l].gen \in Nat
        /\ link[l].gen <= link[l].rev
    BY <1>0, <2>1, RowFacts
  <2>3. /\ r \in LinkRows(n) /\ r.gen <= r.rev /\ r.rev >= link[l].rev
        /\ link[l].st # "none" => r.st # "none"
        /\ link[l].st = "revoked" => r.st = "revoked"
    <3>1. CASE link[l].st = "live"
      BY <1>0, <2>0, <2>2, <3>1, RevokedRow
    <3>2. CASE link[l].st # "live"
      BY <2>2, <3>2
    <3> QED
      BY <3>1, <3>2
  <2> HIDE DEF r, l
  <2>4. LinksTyped(link', n) /\ LinksRise(link, link')
    BY <2>0, <2>1, <2>3, RowChange DEF n
  <2>5. CallSound(c, link')
    BY <1>0, <2>4, CallKeeps DEF LinksTyped
  <2>6. CallSound(done, link')
    BY <1>d, <2>0, <2>5 DEF CallSound
  <2> QED
    BY <2>0, <2>4, <2>6, FinishStep DEF n, c, done
<1>5. ASSUME RevokeArtifactLinks(m) PROVE Types' /\ RowsSound' /\ CallsSound'
  <2>0. /\ c.at = "revokeAll" /\ \A l \in Links : link[l].rev < MaxRevision
        /\ Finish(m) /\ UNCHANGED <<artifact, policy, visitorVars, used>>
        /\ link' = [l \in Links |-> IF l \in Ended THEN Revoked(link[l]) ELSE link[l]]
    BY <1>5 DEF RevokeArtifactLinks, c
  <2>1. \A l \in Links : /\ link[l] \in LinkRows(n) /\ link[l].rev \in Nat /\ link[l].gen \in Nat
                         /\ link[l].gen <= link[l].rev /\ link[l].st \in {"none", "live", "revoked"}
    BY <1>0, RowFacts
  <2>2. \A l \in Links : /\ link'[l] \in LinkRows(n) /\ link'[l].gen <= link'[l].rev
                         /\ link'[l].rev >= link[l].rev
                         /\ link[l].st = "none" => link'[l].st = "none"
                         /\ link[l].st # "none" => link'[l].st = "revoked"
    <3> TAKE l \in Links
    <3>1. CASE l \in Ended
      <4>1. link'[l] = Revoked(link[l]) /\ link[l].st = "live"
        BY <2>0, <3>1 DEF Ended
      <4> QED
        BY <1>0, <2>0, <2>1, <4>1, RevokedRow
    <3>2. CASE l \notin Ended
      BY <2>0, <2>1, <3>2 DEF Ended
    <3> QED
      BY <3>1, <3>2
  <2>3. LinksTyped(link', n) /\ LinksRise(link, link')
    BY <2>0, <2>2 DEF LinksTyped, LinksRise
  <2>4. CallSound(c, link')
    BY <1>0, <2>3, CallKeeps DEF LinksTyped
  <2>5. c.kind = "access" /\ \A l \in c.held : link'[l].st = "revoked"
    BY <1>0, <1>c, <2>0, <2>2 DEF CallSound
  <2>6. CallSound(done, link')
    BY <1>d, <2>4, <2>5 DEF CallSound
  <2> QED
    BY <2>0, <2>3, <2>5, <2>6, FinishStep DEF n, c, done
<1>6. ASSUME Refuse(m), UNCHANGED <<artifact, policy, visitorVars, link, used>>
      PROVE  Types' /\ RowsSound' /\ CallsSound'
  <2>1. LinksTyped(link', n) /\ LinksRise(link, link')
    BY <1>0, <1>6
  <2> QED
    BY <1>6, <2>1, EndStep DEF n
<1>7. CASE WriteUpdate(m)
  BY <1>2, <1>6, <1>7 DEF WriteUpdate, c
<1>8. CASE WriteRotation(m)
  BY <1>3, <1>6, <1>8 DEF WriteRotation, c
<1>9. CASE EndCall(m)
  BY <1>6, <1>9 DEF EndCall
<1> QED
  BY <1>1, <1>4, <1>5, <1>7, <1>8, <1>9

LEMMA CommitAccessTyped ==
    ASSUME Types, RowsSound, CallsSound, NEW m \in Calls, CommitAccess(m)
    PROVE  /\ Types' /\ RowsSound' /\ CallsSound'
           /\ artifact'.current = artifact.current
<1> DEFINE n == artifact.count
           c == call[m]
<1>0. /\ n \in Nat /\ c \in CallRows(n) /\ CallSound(c, link)
      /\ LinksTyped(link, n) /\ LinksRise(link, link)
      /\ c.at = "write" /\ c.kind = "access" /\ UNCHANGED <<policy, visitorVars, link>>
  BY ArtifactFacts, LinksStay DEF Types, CallsSound, CommitAccess
<1> HIDE DEF n
<1>1. CASE Refuse(m) /\ UNCHANGED <<artifact, used>>
  BY <1>0, <1>1, EndStep DEF n
<1>2. CASE /\ artifact' = IF Replayed(m) THEN artifact ELSE [artifact EXCEPT !.access = c.to]
           /\ used' = [used EXCEPT ![c.key] = [to |-> c.to, expected |-> c.expected]]
           /\ call' = [call EXCEPT ![m].at = IF c.wasPublic /\ c.to = "account"
                                             THEN "revokeAll" ELSE "done",
                                   ![m].held = {l \in Links : link[l].st # "none"}]
  <2> DEFINE at == IF c.wasPublic /\ c.to = "account" THEN "revokeAll" ELSE "done"
             d == [c EXCEPT !.at = at, !.held = {l \in Links : link[l].st # "none"}]
  <2>1. d \in CallRows(n)
    BY <1>0 DEF CallRows
  <2>2. /\ d.at = at /\ d.kind = c.kind /\ d.to = c.to /\ d.wasPublic = c.wasPublic
        /\ d.held = {l \in Links : link[l].st # "none"}
    BY <1>0 DEF CallRows
  <2>3. CallSound(d, link)
    BY <1>0, <2>2 DEF CallSound
  <2>4. call' = [call EXCEPT ![m] = d]
    BY <1>0, <1>2 DEF Types
  <2> HIDE DEF d
  <2>5. call' \in [Calls -> CallRows(n)] /\ CallsSound'
    BY <1>0, <2>1, <2>2, <2>3, <2>4, CallSet DEF n
  <2>6. /\ ArtifactRow(artifact') /\ artifact'.count = artifact.count
        /\ artifact'.current = artifact.current
    BY <1>0, <1>2, CallFacts DEF Types, ArtifactRow
  <2>7. c.key \in Keys /\ c.to \in {"account", "public"} /\ c.expected \in 0..n
    BY <1>0, CallFacts DEF CallSound
  <2>8. used' \in [Keys -> [to : {"none", "account", "public"}, expected : 0..n]]
    BY <1>2, <2>7 DEF Types, n
  <2> QED
    BY <1>0, <2>5, <2>6, <2>8, ManagerFrame DEF n
<1> QED
  BY <1>1, <1>2 DEF CommitAccess

LEMMA ExpireLinkTyped ==
    ASSUME Types, RowsSound, CallsSound, NEW l \in Links, ExpireLink(l)
    PROVE  Types' /\ RowsSound' /\ CallsSound'
<1> DEFINE n == artifact.count
           r == [link[l] EXCEPT !.expired = TRUE]
<1>0. /\ n \in Nat /\ link \in [Links -> LinkRows(n)] /\ link[l] \in LinkRows(n)
      /\ link[l].rev \in Nat /\ link[l].gen <= link[l].rev
      /\ link' = [link EXCEPT ![l] = r]
      /\ UNCHANGED <<artifact, policy, visitorVars, used, call>>
  BY ArtifactFacts, RowFacts DEF Types, RowsSound, ExpireLink
<1>1. r \in LinkRows(n) /\ r.gen = link[l].gen /\ r.rev = link[l].rev /\ r.st = link[l].st
  BY <1>0 DEF LinkRows
<1> HIDE DEF r, n
<1>2. LinksTyped(link', n) /\ LinksRise(link, link')
  <2>1. r.gen <= r.rev /\ r.rev >= link[l].rev
    BY <1>0, <1>1
  <2> QED
    BY <1>0, <1>1, <2>1, RowChange DEF n
<1>3. CallsSound'
  <2>1. \A m \in Calls : CallSound(call[m], link) /\ call[m] \in CallRows(n)
    BY DEF CallsSound, Types, n
  <2>2. \A m \in Calls : CallSound(call[m], link')
    BY <1>0, <1>2, <2>1, CallKeeps DEF LinksTyped
  <2>3. OneWriterPerRevision'
    BY <1>0 DEF CallsSound, OneWriterPerRevision
  <2> QED
    BY <1>0, <2>2, <2>3 DEF CallsSound
<1>4. /\ ArtifactRow(artifact') /\ call' \in [Calls -> CallRows(n)]
      /\ used' \in [Keys -> [to : {"none", "account", "public"}, expected : 0..n]]
  BY <1>0 DEF Types, n
<1> QED
  BY <1>0, <1>2, <1>3, <1>4, ManagerFrame DEF n

LEMMA CallsKept ==
    ASSUME CallsSound, UNCHANGED <<link, call>>
    PROVE  CallsSound'
BY DEF CallsSound, OneWriterPerRevision

LEMMA PolicyTyped ==
    ASSUME Types, RowsSound, CallsSound, NEW p \in {"off", "view", "comment"}, WriteAccessPolicy(p)
    PROVE  Types' /\ RowsSound' /\ CallsSound'
<1>1. UNCHANGED <<artifact, visitorVars, managerVars>> /\ policy' = p
  BY DEF WriteAccessPolicy
<1>2. Types' /\ RowsSound'
  BY <1>1 DEF Types, RowsSound, visitorVars, managerVars
<1> QED
  BY <1>1, <1>2, CallsKept DEF managerVars

LEMMA ExpireSessionTyped ==
    ASSUME Types, RowsSound, CallsSound, NEW g \in Guests, ExpireGuestSession(g)
    PROVE  /\ Types' /\ RowsSound' /\ CallsSound'
           /\ \A x \in Guests : guest'[x].link = guest[x].link /\ guest'[x].gen = guest[x].gen
<1>1. /\ guest' = [guest EXCEPT ![g].ended = TRUE]
      /\ UNCHANGED <<artifact, policy, leases, comments, replies, req, managerVars>>
  BY DEF ExpireGuestSession
<1>2. /\ guest' \in [Guests -> GuestRows]
      /\ \A x \in Guests : guest'[x].link = guest[x].link /\ guest'[x].gen = guest[x].gen
  BY <1>1 DEF Types, GuestRows
<1>3. Types'
  BY <1>1, <1>2 DEF Types, managerVars
<1>4. RowsSound'
  BY <1>1, <1>2 DEF RowsSound, managerVars, Types
<1> QED
  BY <1>1, <1>2, <1>3, <1>4, CallsKept DEF managerVars

\* The artifact's own steps.
LEMMA ArtifactTypedToo ==
    ASSUME Types, RowsSound, CallsSound,
           \/ Publish \/ StageCandidate \/ DeleteArtifact
           \/ \E v \in artifact.open : PromoteCandidate(v)
    PROVE  Types' /\ RowsSound' /\ CallsSound'
<1>1. /\ ArtifactRow(artifact') /\ artifact'.count >= artifact.count
      /\ policy' = policy /\ UNCHANGED <<visitorVars, managerVars>>
  BY ArtifactSteps
<1>2. Types'
  BY <1>1, ArtifactTyped
<1>3. RowsSound'
  BY <1>1 DEF RowsSound, visitorVars, managerVars
<1> QED
  BY <1>1, <1>2, <1>3, CallsKept DEF managerVars

-----------------------------------------------------------------------------
(* History                                                                 *)

Grown(s, t) ==
    /\ s.aim \subseteq t.aim /\ s.promoted \subseteq t.promoted
    /\ s.current \subseteq t.current /\ s.public \subseteq t.public
    /\ s.on => t.on
    /\ s.write => t.write
    /\ s.allowed => t.allowed

LEMMA MergeGrows ==
    ASSUME NEW s, NEW h, NEW p, h.promoted = {}
    PROVE  Grown(s, Merge(s, h, p)) /\ Grown(h, Merge(s, h, p)) /\ p \subseteq Merge(s, h, p).promoted
BY DEF Grown, Merge

\* What holds now, read off the state.
Shown(s, q, a, p, rows, guests) ==
    /\ p # "off" => s.on
    /\ q.kind \in WriteKinds => /\ a.current \in s.current
                                /\ p = "comment" => s.allowed
    /\ q.kind = "public" /\ a.access = "public" /\ ~a.deleted => a.current \in s.public
    /\ q.guest # None /\ Admits(rows[q.link], guests[q.guest].gen) =>
          /\ (IF rows[q.link].target = Latest THEN a.current ELSE rows[q.link].target) \in s.aim
          /\ rows[q.link].comment => s.write

LEMMA HoldsShown == Shown(Holds, req, artifact, policy, link, guest) /\ Holds.promoted = {}
BY DEF Shown, Holds, Admits

LEMMA ShownGrows ==
    ASSUME NEW s, NEW t, NEW q, NEW a, NEW p, NEW rows, NEW guests,
           Shown(s, q, a, p, rows, guests), Grown(s, t)
    PROVE  Shown(t, q, a, p, rows, guests)
BY DEF Shown, Grown

ShownNow == Shown(seen, req, artifact, policy, link, guest)

\* The history grows while the request runs, and holds what its steps find.
LEMMA WitnessGrows ==
    ASSUME Witness, req.kind # "idle", req'.kind # "idle"
    PROVE  /\ Grown(seen, seen')
           /\ req.todo # <<>> =>
                 /\ ShownNow'
                 /\ artifact'.current \in artifact.open => artifact'.current \in seen'.promoted
<1>0. (Shown(Holds, req, artifact, policy, link, guest) /\ Holds.promoted = {})'
  BY HoldsShown, PTL
<1>1. CASE req.todo = <<>>
  <2>1. seen' = seen
    BY <1>1 DEF Witness
  <2> QED
    BY <1>1, <2>1 DEF Grown
<1>2. CASE req.todo # <<>>
  <2> DEFINE P == IF artifact'.current \in artifact.open THEN {artifact'.current} ELSE {}
  <2>1. PICK h : h = Holds'
    OBVIOUS
  <2>2. seen' = Merge(seen, h, P)
    BY <1>2, <2>1 DEF Witness
  <2>3. h.promoted = {} /\ Shown(h, req', artifact', policy', link', guest')
    BY <1>0, <2>1
  <2> HIDE DEF P
  <2>4. Grown(seen, seen') /\ Grown(h, seen') /\ P \subseteq seen'.promoted
    BY <2>2, <2>3, MergeGrows
  <2>5. Shown(seen', req', artifact', policy', link', guest')
    BY <2>3, <2>4, ShownGrows
  <2> QED
    BY <2>4, <2>5 DEF P, ShownNow
<1> QED
  BY <1>1, <1>2

LEMMA WitnessBegins ==
    ASSUME Witness, req.kind = "idle", req'.kind # "idle"
    PROVE  ShownNow'
<1>0. Shown(Holds, req, artifact, policy, link, guest)'
  BY HoldsShown, PTL
<1>1. seen' = Holds'
  BY DEF Witness
<1>2. PICK h : h = Holds'
  OBVIOUS
<1>3. Shown(h, req', artifact', policy', link', guest') /\ seen' = h
  BY <1>0, <1>1, <1>2
<1> QED
  BY <1>3 DEF ShownNow

LEMMA SoundGrows ==
    ASSUME NEW q, NEW s, NEW t, NEW now, NEW then, NEW g, NEW h,
           Sound(q, s, now, g), Grown(s, t), q.guest \in Guests \cup {None},
           \/ then = now \/ then > q.version \/ then \in t.promoted \/ ~In("aim", q.todo),
           \A x \in Guests : g[x].link # None => h[x].link = g[x].link
    PROVE  Sound(q, t, then, h)
<1>0. None \notin Links
  BY ConstantFacts
<1>1. OwnerSound(q, h)
  BY <1>0 DEF Sound, OwnerSound
<1>2. RowSeen(q, t) /\ TargetSeen(q, t) /\ PermissionSeen(q, t) /\ ThreadSeen(q, t)
      /\ PublicSeen(q, t)
  BY DEF Sound, RowSeen, TargetSeen, PermissionSeen, ThreadSeen, PublicSeen, Grown
<1>3. LeaseSeen(q, t, then)
  BY DEF Sound, LeaseSeen, Grown
<1> QED
  BY <1>1, <1>2, <1>3 DEF Sound

LEMMA IdleSound ==
    ASSUME NEW q, NEW s, NEW now, NEW g, q.kind = "idle", q.todo = <<>>, q.guest = None
    PROVE  Sound(q, s, now, g)
BY PlanDone DEF Sound, OwnerSound, RowSeen, TargetSeen, PermissionSeen, ThreadSeen, LeaseSeen,
                PublicSeen, GuestKinds, WriteKinds

\* A step of anybody else, and the end of a guest's session.
LEMMA Background ==
    ASSUME Types, RequestSound, Witness, req' = req,
           \/ artifact'.current = artifact.current
           \/ artifact'.current \in artifact.open
           \/ artifact'.current > artifact.count,
           ArtifactRow(artifact'),
           \A x \in Guests : guest[x].link # None => guest'[x].link = guest[x].link
    PROVE  RequestSound'
<1>0. req \in RequestRows(artifact.count) /\ artifact.count \in Nat /\ artifact'.current \in Nat
  BY ArtifactFacts DEF Types
<1>1. /\ req.version \in 0..artifact.count /\ req.guest \in Guests \cup {None}
      /\ req.todo \in Seq(Steps)
  BY <1>0 DEF RequestRows
<1>2. CASE req.kind = "idle"
  <2>1. req.guest = None /\ \A i \in DOMAIN req.todo : req.todo[i] \in {}
    BY <1>2 DEF RequestSound, Sound, OwnerSound, PlanSound, StepsOf
  <2>2. req.todo = <<>>
    <3>1. DOMAIN req.todo = 1..Len(req.todo) /\ Len(req.todo) \in Nat
      BY <1>1
    <3>2. Len(req.todo) # 0 => 1 \in DOMAIN req.todo
      BY <3>1
    <3>3. Len(req.todo) = 0
      BY <2>1, <3>2
    <3> QED
      BY <1>1, <3>3, EmptySeq
  <2> QED
    BY <1>2, <2>1, <2>2, IdleSound DEF RequestSound
<1>3. CASE req.kind # "idle" /\ req.todo = <<>>
  <2>1. ~In("aim", req.todo) /\ Grown(seen, seen')
    BY <1>3, NothingIn, WitnessGrows
  <2> QED
    BY <1>1, <2>1, SoundGrows DEF RequestSound
<1>4. CASE req.kind # "idle" /\ req.todo # <<>>
  <2>1. Grown(seen, seen') /\ (artifact'.current \in artifact.open =>
                                  artifact'.current \in seen'.promoted)
    BY <1>4, WitnessGrows
  <2>2. artifact'.current > artifact.count => artifact'.current > req.version
    BY <1>0, <1>1
  <2> QED
    BY <1>1, <2>1, <2>2, SoundGrows DEF RequestSound
<1> QED
  BY <1>2, <1>3, <1>4

LEMMA InConcat ==
    ASSUME NEW s \in Seq(Steps), NEW t \in Seq(Steps), NEW e
    PROVE  In(e, s) \/ In(e, t) => In(e, s \o t)
<1>1. ASSUME NEW i \in DOMAIN s, s[i] = e PROVE In(e, s \o t)
  <2>1. i \in DOMAIN (s \o t) /\ (s \o t)[i] = e
    BY <1>1
  <2> QED
    BY <2>1 DEF In
<1>2. ASSUME NEW i \in DOMAIN t, t[i] = e PROVE In(e, s \o t)
  <2>1. Len(s) + i \in DOMAIN (s \o t) /\ (s \o t)[Len(s) + i] = e
    BY <1>2
  <2> QED
    BY <2>1 DEF In
<1> QED
  BY <1>1, <1>2 DEF In

\* What each operation reads.
LEMMA PlansFull ==
    /\ In("target", Todo("lease"))
    /\ In("target", Todo("comment")) /\ In("may", Todo("comment"))
    /\ In("target", Todo("amend")) /\ In("may", Todo("amend")) /\ In("thread", Todo("amend"))
    /\ In("target", Todo("remove")) /\ In("may", Todo("remove")) /\ In("thread", Todo("remove"))
    /\ In("link", Todo("read")) /\ In("policy", Todo("read")) /\ In("aim", Todo("read"))
    /\ In("policy", Todo("public"))
<1> DEFINE front == <<"session">> \o Pass \o Pass
           lease == <<"current", "link", "policy", "lease">>
           comment == <<"link", "may", "named", "viewing", "link", "may", "write">>
           named == <<"link", "may", "named">>
           amend == <<"link", "may", "amend">>
           remove == <<"link", "may", "link", "may", "remove">>
<1>1. /\ <<"session">> \in Seq(Steps) /\ Pass \in Seq(Steps) /\ FindsThread \in Seq(Steps)
      /\ In("target", Pass) /\ In("thread", FindsThread)
  <2>1. Pass[3] = "target" /\ 3 \in DOMAIN Pass
    BY DEF Pass
  <2>2. FindsThread[4] = "thread" /\ 4 \in DOMAIN FindsThread
    BY DEF FindsThread
  <2> QED
    BY <2>1, <2>2 DEF Pass, FindsThread, Steps, In
<1>2. lease \in Seq(Steps) /\ comment \in Seq(Steps) /\ named \in Seq(Steps)
      /\ amend \in Seq(Steps) /\ remove \in Seq(Steps)
  BY DEF Steps
<1>3. In("may", comment) /\ In("may", amend) /\ In("may", remove)
  <2>1. comment[2] = "may" /\ 2 \in DOMAIN comment /\ amend[2] = "may" /\ 2 \in DOMAIN amend
        /\ remove[2] = "may" /\ 2 \in DOMAIN remove
    OBVIOUS
  <2> QED
    BY <2>1 DEF In
<1>4. /\ Todo("lease") = front \o lease /\ Todo("comment") = front \o comment
      /\ Todo("amend") = front \o named \o Pass \o FindsThread \o amend
      /\ Todo("remove") = front \o FindsThread \o remove
      /\ Todo("read") = <<"link", "policy", "aim", "serve">>
      /\ Todo("public") = <<"policy", "public">>
  BY DEF Todo
<1>5. front \in Seq(Steps) /\ In("target", front)
  <2>1. <<"session">> \o Pass \in Seq(Steps)
    BY <1>1
  <2>2. front \in Seq(Steps)
    BY <1>1, <2>1
  <2> QED
    BY <1>1, <2>1, <2>2, InConcat
<1> HIDE DEF front, lease, comment, named, amend, remove
<1>6. In("target", Todo("lease")) /\ In("target", Todo("comment")) /\ In("may", Todo("comment"))
  BY <1>2, <1>3, <1>4, <1>5, InConcat
<1>7. In("target", Todo("remove")) /\ In("may", Todo("remove")) /\ In("thread", Todo("remove"))
  <2>1. front \o FindsThread \in Seq(Steps)
    BY <1>1, <1>5
  <2>2. In("target", front \o FindsThread) /\ In("thread", front \o FindsThread)
    BY <1>1, <1>5, InConcat
  <2> QED
    BY <1>2, <1>3, <1>4, <2>1, <2>2, InConcat
<1>8. In("target", Todo("amend")) /\ In("may", Todo("amend")) /\ In("thread", Todo("amend"))
  <2>1. front \o named \in Seq(Steps) /\ In("target", front \o named)
    BY <1>2, <1>5, InConcat
  <2> DEFINE p == front \o named
             r == p \o Pass
             t == r \o FindsThread
  <2>2. r \in Seq(Steps) /\ In("target", r)
    <3> HIDE DEF p
    <3>1. p \in Seq(Steps) /\ In("target", p)
      BY <2>1 DEF p
    <3> QED
      BY <1>1, <3>1, InConcat
  <2>3. t \in Seq(Steps) /\ In("target", t) /\ In("thread", t)
    <3> HIDE DEF r
    <3>1. r \in Seq(Steps) /\ In("target", r)
      BY <2>2
    <3> QED
      BY <1>1, <3>1, InConcat
  <2> QED
    BY <1>2, <1>3, <1>4, <2>3, InConcat
<1>9. /\ In("link", Todo("read")) /\ In("policy", Todo("read")) /\ In("aim", Todo("read"))
      /\ In("policy", Todo("public"))
  <2> DEFINE read == <<"link", "policy", "aim", "serve">>
             public == <<"policy", "public">>
  <2>1. read[1] = "link" /\ read[2] = "policy" /\ read[3] = "aim" /\ public[1] = "policy"
        /\ 1 \in DOMAIN read /\ 2 \in DOMAIN read /\ 3 \in DOMAIN read /\ 1 \in DOMAIN public
    OBVIOUS
  <2> QED
    BY <1>4, <2>1 DEF In
<1> QED
  BY <1>6, <1>7, <1>8, <1>9

-----------------------------------------------------------------------------
(* Visitors' requests                                                      *)

LEMMA RequestFrame ==
    ASSUME Types, RowsSound, CallsSound, req' \in RequestRows(artifact.count),
           UNCHANGED <<artifact, policy, guest, leases, comments, replies, managerVars>>
    PROVE  Types' /\ RowsSound' /\ CallsSound'
<1>1. Types'
  BY DEF Types, managerVars
<1>2. RowsSound'
  BY DEF RowsSound, managerVars
<1> QED
  BY <1>1, <1>2, CallsKept DEF managerVars

LEMMA BeginStep ==
    ASSUME Types, RowsSound, CallsSound, NEW q \in RequestRows(artifact.count), q.kind # "idle",
           OwnerSound(q, guest), q.guest # None => q.row = NoLink,
           q.kind = "public" => Public /\ q.version = artifact.current,
           Begin(q)
    PROVE  Types' /\ RowsSound' /\ CallsSound' /\ RequestSound'
<1>0. /\ req' = [q EXCEPT !.todo = Todo(q.kind)] /\ Witness /\ req.kind = "idle"
      /\ UNCHANGED <<artifact, policy, guest, leases, comments, replies, managerVars>>
  BY DEF Begin
<1>1. Todo(q.kind) \in Seq(Steps) /\ PlanSound(q.kind, Todo(q.kind))
  BY PlansSound DEF RequestRows
<1>2. /\ req' \in RequestRows(artifact.count) /\ req'.kind = q.kind /\ req'.todo = Todo(q.kind)
      /\ req'.guest = q.guest /\ req'.link = q.link /\ req'.row = q.row
      /\ req'.version = q.version
  BY <1>0, <1>1 DEF RequestRows
<1>3. Types' /\ RowsSound' /\ CallsSound'
  BY <1>0, <1>2, RequestFrame
<1>4. ShownNow'
  BY <1>0, <1>2, WitnessBegins
<1>5. OwnerSound(req', guest')
  BY <1>0, <1>2 DEF OwnerSound
<1>6. RowSeen(req', seen')
  BY <1>2 DEF RowSeen, NoLink
<1>7. /\ TargetSeen(req', seen') /\ PermissionSeen(req', seen') /\ ThreadSeen(req', seen')
      /\ LeaseSeen(req', seen', artifact'.current)
  BY <1>2, PlansFull DEF TargetSeen, PermissionSeen, ThreadSeen, LeaseSeen, WriteKinds
<1>8. PublicSeen(req', seen')
  <2> SUFFICES ASSUME q.kind = "public"
               PROVE  req'.version \in seen'.public /\ In("policy", req'.todo)
    BY <1>2 DEF PublicSeen
  <2>1. /\ artifact'.access = "public" /\ ~artifact'.deleted /\ req'.version = artifact'.current
        /\ req'.kind = "public"
    BY <1>0, <1>2 DEF Public
  <2>2. artifact'.current \in seen'.public
    BY <1>4, <2>1 DEF ShownNow, Shown
  <2> QED
    BY <1>2, <2>1, <2>2, PlansFull
<1> QED
  BY <1>1, <1>2, <1>3, <1>5, <1>6, <1>7, <1>8 DEF RequestSound, Sound

LEMMA KeptFacts ==
    ASSUME NEW n \in Nat, NEW q \in RequestRows(n), q.todo # <<>>, PlanSound(q.kind, q.todo),
           NEW u, u = [q EXCEPT !.todo = Tail(@)], NEW p, p = Kept(u)
    PROVE  /\ p \in RequestRows(n) /\ p.kind = q.kind /\ p.todo = Tail(q.todo)
           /\ p.guest = q.guest /\ p.link = q.link /\ p.thread = q.thread
           /\ p.row = q.row \/ (p.row = NoLink /\ In("link", p.todo))
           /\ ~In("target", p.todo) => p.version = q.version
<1> DEFINE t == Tail(q.todo)
<1>1. t \in Seq(Steps) /\ q.todo \in Seq(Steps)
  BY PlanTail DEF RequestRows
<1> HIDE DEF t
<1>2. /\ u \in RequestRows(n) /\ u.kind = q.kind /\ u.todo = t /\ u.guest = q.guest
      /\ u.link = q.link /\ u.thread = q.thread /\ u.row = q.row /\ u.version = q.version
  BY <1>1 DEF t, RequestRows
<1>3. /\ p.kind = u.kind /\ p.todo = u.todo /\ p.guest = u.guest /\ p.link = u.link
      /\ p.thread = u.thread
      /\ p.row = IF u.todo # <<>> /\ Head(u.todo) = "link" THEN NoLink ELSE u.row
      /\ p.version = IF In("target", u.todo) THEN 0 ELSE u.version
  BY <1>2 DEF Kept, RequestRows, In
<1>4. p \in RequestRows(n)
  <2>1. NoLink \in LinkRows(n) /\ 0 \in 0..n
    BY Blank
  <2> QED
    BY <1>2, <2>1 DEF Kept, RequestRows
<1>5. t # <<>> /\ Head(t) = "link" => In("link", t)
  <2>1. t # <<>> => 1 \in DOMAIN t /\ Head(t) = t[1]
    BY <1>1
  <2> QED
    BY <2>1 DEF In
<1>6. p.row = q.row \/ (p.row = NoLink /\ In("link", p.todo))
  BY <1>2, <1>3, <1>5
<1> QED
  BY <1>2, <1>3, <1>4, <1>6 DEF t

\* A request r passes a step as q and forgets (p) what it reads again.  What the
\* step establishes is in the history t.
LEMMA SoundNext ==
    ASSUME NEW n \in Nat, NEW r \in RequestRows(n), NEW q \in RequestRows(n), NEW s, NEW t,
           NEW now, NEW g,
           Sound(r, s, now, g), Grown(s, t), r.todo # <<>>,
           q.kind = r.kind, q.todo = r.todo, q.guest = r.guest, q.link = r.link,
           q.thread = r.thread,
           Head(r.todo) # "link" => q.row = r.row,
           Head(r.todo) # "target" => q.version = r.version,
           Head(r.todo) = "link" =>
              /\ RowSeen(q, t)
              /\ r.guest # None => t.aim # {} /\ (q.row.target = Latest => now \in t.aim),
           Head(r.todo) = "policy" => t.on,
           Head(r.todo) = "target" => q.version # 0,
           Head(r.todo) = "target" /\ r.kind \in WriteKinds => q.version \in t.aim \cup t.current,
           Head(r.todo) = "may" => t.write /\ t.allowed,
           Head(r.todo) = "thread" => r.thread.version \in t.aim \cup t.current,
           Head(r.todo) = "aim" => r.version \in t.aim \cup t.promoted
    PROVE  /\ Kept([q EXCEPT !.todo = Tail(@)]) \in RequestRows(n)
           /\ Kept([q EXCEPT !.todo = Tail(@)]).kind = r.kind
           /\ Sound(Kept([q EXCEPT !.todo = Tail(@)]), t, now, g)
<1> DEFINE p == Kept([q EXCEPT !.todo = Tail(@)])
<1>0. PlanSound(q.kind, q.todo) /\ q.todo # <<>> /\ q.todo \in Seq(Steps)
  BY DEF Sound, RequestRows
<1>1. /\ p \in RequestRows(n) /\ p.kind = r.kind /\ p.todo = Tail(r.todo)
      /\ p.guest = r.guest /\ p.link = r.link /\ p.thread = r.thread
      /\ p.row = q.row \/ (p.row = NoLink /\ In("link", p.todo))
      /\ ~In("target", p.todo) => p.version = q.version
  <2>0. PICK u : u = [q EXCEPT !.todo = Tail(@)]
    OBVIOUS
  <2>1. PICK x : x = Kept(u)
    OBVIOUS
  <2>2. x = p
    BY <2>0, <2>1
  <2> QED
    <3>1. /\ x \in RequestRows(n) /\ x.kind = q.kind /\ x.todo = Tail(q.todo)
          /\ x.guest = q.guest /\ x.link = q.link /\ x.thread = q.thread
          /\ x.row = q.row \/ (x.row = NoLink /\ In("link", x.todo))
          /\ ~In("target", x.todo) => x.version = q.version
      BY <1>0, <2>0, <2>1, KeptFacts
    <3> HIDE DEF p
    <3> QED
      BY <2>2, <3>1
<1> HIDE DEF p
<1> DEFINE e == Head(r.todo)
<1>2. /\ PlanSound(p.kind, p.todo) /\ e \in StepsOf(r.kind)
      /\ e = "thread" => ~In("target", p.todo)
      /\ e = "aim" => ~In("link", p.todo)
      /\ \A x : In(x, p.todo) => In(x, r.todo)
      /\ \A x : In(x, r.todo) /\ x # e => In(x, p.todo)
  <2>1. PlanSound(r.kind, r.todo) /\ r.todo # <<>> /\ r.todo \in Seq(Steps)
    BY <1>0
  <2>2. /\ PlanSound(r.kind, Tail(r.todo)) /\ e \in StepsOf(r.kind)
        /\ e = "thread" => ~In("target", Tail(r.todo))
        /\ e = "aim" => ~In("link", Tail(r.todo))
        /\ \A x : In(x, Tail(r.todo)) => In(x, r.todo)
        /\ \A x : In(x, r.todo) /\ x # e => In(x, Tail(r.todo))
    BY <2>1, PlanTail
  <2> QED
    BY <1>1, <2>2
<1> HIDE DEF e
<1>3. OwnerSound(p, g)
  BY <1>1 DEF Sound, OwnerSound
<1>4. RowSeen(p, t)
  <2>1. RowSeen(q, t)
    <3>1. CASE e # "link"
      BY <3>1 DEF Sound, RowSeen, Grown, e
    <3>2. CASE e = "link"
      BY <3>2 DEF e
    <3> QED
      BY <3>1, <3>2
  <2> QED
    BY <1>1, <2>1 DEF RowSeen, NoLink
<1>5. TargetSeen(p, t)
  <2> SUFFICES ASSUME p.kind \in {"lease", "comment", "amend", "remove"}, ~In("target", p.todo)
               PROVE  p.version # 0 /\ (p.kind \in WriteKinds => p.version \in t.aim \cup t.current)
    BY DEF TargetSeen
  <2>1. CASE e = "target"
    BY <1>1, <2>1 DEF e
  <2>2. CASE e # "target"
    <3>1. ~In("target", r.todo)
      BY <1>2, <2>2
    <3> QED
      BY <1>1, <2>2, <3>1 DEF Sound, TargetSeen, Grown, e
  <2> QED
    BY <2>1, <2>2
<1>6. PermissionSeen(p, t)
  <2> SUFFICES ASSUME p.kind \in WriteKinds, ~In("may", p.todo) PROVE t.write /\ t.allowed
    BY DEF PermissionSeen
  <2>1. CASE e = "may"
    BY <2>1 DEF e
  <2>2. CASE e # "may"
    BY <1>1, <1>2, <2>2 DEF Sound, PermissionSeen, Grown
  <2> QED
    BY <2>1, <2>2
<1>7. ThreadSeen(p, t)
  <2> SUFFICES ASSUME p.kind \in {"amend", "remove"}, ~In("thread", p.todo)
               PROVE  p.thread.version \in t.aim \cup t.current
    BY DEF ThreadSeen
  <2>1. CASE e = "thread"
    BY <1>1, <2>1 DEF e
  <2>2. CASE e # "thread"
    BY <1>1, <1>2, <2>2 DEF Sound, ThreadSeen, Grown
  <2> QED
    BY <2>1, <2>2
<1>8. LeaseSeen(p, t, now)
  <2> SUFFICES ASSUME p.kind = "read"
               PROVE  /\ ~In("link", p.todo) => t.aim # {}
                      /\ ~In("policy", p.todo) => t.on
                      /\ ~In("link", p.todo) /\ In("aim", p.todo) /\ p.row.target = Latest =>
                            now \in t.aim \cup t.promoted \/ now > p.version
                      /\ ~In("aim", p.todo) => p.version \in t.aim \cup t.promoted
    BY DEF LeaseSeen
  <2>1. e # "target" /\ StepsOf(r.kind) = {"link", "policy", "aim", "serve"}
    BY <1>1, <1>2 DEF StepsOf
  <2>2. ~In("target", p.todo)
    BY <1>1, <1>2, <2>1 DEF PlanSound, In
  <2>3. p.version = r.version /\ r.guest # None
    BY <1>1, <2>1, <2>2, ConstantFacts DEF e, Sound, OwnerSound, GuestKinds
  <2>4. ~In("link", p.todo) => t.aim # {}
    BY <1>1, <1>2, <2>3 DEF Sound, LeaseSeen, Grown, e
  <2>5. ~In("policy", p.todo) => t.on
    BY <1>1, <1>2, <2>3 DEF Sound, LeaseSeen, Grown, e
  <2>6. ASSUME ~In("link", p.todo), In("aim", p.todo), p.row.target = Latest
        PROVE  now \in t.aim \cup t.promoted \/ now > p.version
    <3>1. p.row = q.row /\ In("aim", r.todo)
      BY <1>1, <1>2, <2>6
    <3>2. CASE e = "link"
      BY <2>3, <2>6, <3>1, <3>2 DEF e
    <3>3. CASE e # "link"
      BY <1>1, <1>2, <2>3, <2>6, <3>1, <3>3 DEF Sound, LeaseSeen, Grown, e
    <3> QED
      BY <3>2, <3>3
  <2>7. ~In("aim", p.todo) => p.version \in t.aim \cup t.promoted
    BY <1>1, <1>2, <2>3 DEF Sound, LeaseSeen, Grown, e
  <2> QED
    BY <2>4, <2>5, <2>6, <2>7
<1>9. PublicSeen(p, t)
  <2> SUFFICES ASSUME p.kind = "public"
               PROVE  p.version \in t.public /\ (~In("policy", p.todo) => t.on)
    BY DEF PublicSeen
  <2>1. e # "target" /\ StepsOf(r.kind) = {"policy", "public"}
    BY <1>1, <1>2 DEF StepsOf
  <2>2. ~In("target", p.todo)
    BY <1>1, <1>2, <2>1 DEF PlanSound, In
  <2>3. p.version = r.version
    BY <1>1, <2>1, <2>2 DEF e
  <2> QED
    BY <1>1, <1>2, <2>3 DEF Sound, PublicSeen, Grown, e
<1> QED
  BY <1>1, <1>2, <1>3, <1>4, <1>5, <1>6, <1>7, <1>8, <1>9 DEF Sound, p

LEMMA NotIdle ==
    ASSUME Types, RequestSound, req.todo # <<>>
    PROVE  /\ req.kind # "idle" /\ req.todo \in Seq(Steps)
           /\ Head(req.todo) \in StepsOf(req.kind)
           /\ Head(req.todo) \in LastSteps => Tail(req.todo) = <<>>
<1>1. req.todo \in Seq(Steps) /\ PlanSound(req.kind, req.todo)
  BY DEF Types, RequestRows, RequestSound, Sound
<1>2. /\ Head(req.todo) \in StepsOf(req.kind)
      /\ Head(req.todo) \in LastSteps => Tail(req.todo) = <<>>
  BY <1>1, PlanTail
<1> QED
  BY <1>1, <1>2 DEF StepsOf

\* A request is over.
LEMMA NoRequestStep ==
    ASSUME Types, RowsSound, CallsSound, req' = NoRequest,
           UNCHANGED <<artifact, policy, guest, leases, comments, replies, managerVars>>
    PROVE  Types' /\ RowsSound' /\ CallsSound' /\ RequestSound'
<1>1. req' \in RequestRows(artifact.count)
  BY Blank, ArtifactFacts DEF Types
<1>2. req'.kind = "idle" /\ req'.todo = <<>> /\ req'.guest = None
  BY DEF NoRequest
<1> QED
  BY <1>1, <1>2, RequestFrame, IdleSound DEF RequestSound

LEMMA ProceedStep ==
    ASSUME Types, RowsSound, CallsSound, RequestSound, req.todo # <<>>,
           NEW ok, NEW q, Proceed(ok, q),
           ok => /\ q \in RequestRows(artifact.count)
                 /\ q.kind = req.kind /\ q.todo = req.todo /\ q.guest = req.guest
                 /\ q.link = req.link /\ q.thread = req.thread
                 /\ Head(req.todo) # "link" => q.row = req.row
                 /\ Head(req.todo) # "target" => q.version = req.version,
           ok /\ Grown(seen, seen') /\ Shown(seen', req, artifact, policy, link, guest) =>
                 /\ Head(req.todo) = "link" =>
                       /\ RowSeen(q, seen')
                       /\ req.guest # None =>
                             seen'.aim # {} /\ (q.row.target = Latest => artifact.current \in seen'.aim)
                 /\ Head(req.todo) = "policy" => seen'.on
                 /\ Head(req.todo) = "target" => q.version # 0
                 /\ Head(req.todo) = "target" /\ req.kind \in WriteKinds =>
                       q.version \in seen'.aim \cup seen'.current
                 /\ Head(req.todo) = "may" => seen'.write /\ seen'.allowed
                 /\ Head(req.todo) = "thread" => req.thread.version \in seen'.aim \cup seen'.current
                 /\ Head(req.todo) = "aim" => req.version \in seen'.aim \cup seen'.promoted
    PROVE  Types' /\ RowsSound' /\ CallsSound' /\ RequestSound'
<1>0. UNCHANGED <<artifact, policy, guest, leases, comments, replies, managerVars>> /\ Witness
  BY DEF Proceed
<1>1. CASE ~ok
  <2>1. req' = NoRequest
    BY <1>1 DEF Proceed
  <2> QED
    BY <1>0, <2>1, NoRequestStep
<1>2. CASE ok
  <2>0. req' = Kept([q EXCEPT !.todo = Tail(@)])
    BY <1>2 DEF Proceed
  <2>1. /\ req.kind # "idle" /\ artifact.count \in Nat /\ req \in RequestRows(artifact.count)
        /\ Sound(req, seen, artifact.current, guest)
    BY NotIdle, ArtifactFacts DEF Types, RequestSound
  <2>2. q.todo # <<>> /\ PlanSound(q.kind, q.todo)
    BY <1>2, <2>1 DEF Sound
  <2>3. PICK p : p = req'
    OBVIOUS
  <2>4. p.kind = req.kind /\ p.guest = req.guest /\ p.link = req.link
    <3>1. /\ q \in RequestRows(artifact.count) /\ p = Kept([q EXCEPT !.todo = Tail(@)])
          /\ q.kind = req.kind /\ q.guest = req.guest /\ q.link = req.link
      BY <1>2, <2>0, <2>3
    <3>2. p.kind = q.kind /\ p.guest = q.guest /\ p.link = q.link
      BY <3>1 DEF Kept, RequestRows
    <3> QED
      BY <3>1, <3>2
  <2>5. Grown(seen, seen') /\ ShownNow'
    BY <1>0, <2>1, <2>3, <2>4, WitnessGrows
  <2>6. Shown(seen', req, artifact, policy, link, guest)
    <3>1. Shown(seen', p, artifact, policy, link, guest)
      BY <1>0, <2>3, <2>5 DEF ShownNow, managerVars
    <3> QED
      BY <2>4, <3>1 DEF Shown
  <2>7. req' \in RequestRows(artifact.count) /\ Sound(req', seen', artifact.current, guest)
    <3>1. PICK t : t = seen'
      OBVIOUS
    <3>2. Sound(Kept([q EXCEPT !.todo = Tail(@)]), t, artifact.current, guest)
          /\ Kept([q EXCEPT !.todo = Tail(@)]) \in RequestRows(artifact.count)
      BY <1>2, <2>1, <2>5, <2>6, <3>1, SoundNext
    <3> QED
      BY <2>0, <3>1, <3>2
  <2> QED
    BY <1>0, <2>7, RequestFrame DEF RequestSound
<1> QED
  BY <1>1, <1>2

\* The steps that read and change nothing but the request.
LEMMA ReadingSteps ==
    ASSUME Types, RowsSound, CallsSound, RequestSound,
           \/ FindGuestSession \/ FindGuest \/ ReadPolicy \/ FindTarget \/ CheckLease
           \/ AuthorizeComment \/ RequireNamed \/ RequireViewing \/ RequireTargetThread
           \/ FindCurrent \/ Serve
    PROVE  Types' /\ RowsSound' /\ CallsSound' /\ RequestSound'
<1> DEFINE n == artifact.count
<1>0. /\ n \in Nat /\ req \in RequestRows(n) /\ artifact.current \in 1..n
      /\ link \in [Links -> LinkRows(n)] /\ guest \in [Guests -> GuestRows]
      /\ Sound(req, seen, artifact.current, guest)
  BY ArtifactFacts DEF Types, RequestSound
<1>r. /\ req.row \in LinkRows(n) /\ req.row.target \in 0..n /\ req.version \in 0..n
      /\ req.row.comment \in BOOLEAN
  BY <1>0, RowFacts DEF RequestRows
<1> HIDE DEF n
<1>1. CASE FindGuestSession
  <2>1. req.todo # <<>> /\ Head(req.todo) = "session" /\ Proceed(~guest[req.guest].ended, req)
    BY <1>1 DEF FindGuestSession, At
  <2> QED
    BY <1>0, <2>1, ProceedStep DEF n
<1>2. CASE FindGuest
  <2> DEFINE q == [req EXCEPT !.row = link[req.link], !.named = guest[req.guest].named]
             ok == Admits(link[req.link], guest[req.guest].gen)
  <2>1. req.todo # <<>> /\ Head(req.todo) = "link" /\ Proceed(ok, q)
    BY <1>2 DEF FindGuest, At
  <2>2. req.guest \in Guests /\ req.link \in Links /\ req.guest # None
    <3>1. req.kind \in GuestKinds
      BY <1>0, <2>1, NotIdle DEF StepsOf, GuestKinds
    <3> QED
      BY <1>0, <3>1, ConstantFacts DEF Sound, OwnerSound
  <2>3. link[req.link] \in LinkRows(n) /\ guest[req.guest].named \in BOOLEAN
    BY <1>0, <2>2 DEF GuestRows
  <2>4. /\ q \in RequestRows(n) /\ q.kind = req.kind /\ q.todo = req.todo /\ q.guest = req.guest
        /\ q.link = req.link /\ q.thread = req.thread /\ q.version = req.version
        /\ q.row = link[req.link]
    BY <1>0, <2>3 DEF RequestRows
  <2> HIDE DEF q, ok
  <2>5. ASSUME ok, Shown(seen', req, artifact, policy, link, guest)
        PROVE  /\ RowSeen(q, seen') /\ seen'.aim # {}
               /\ q.row.target = Latest => artifact.current \in seen'.aim
    <3>1. /\ (IF q.row.target = Latest THEN artifact.current ELSE q.row.target) \in seen'.aim
          /\ q.row.comment => seen'.write
      BY <2>2, <2>4, <2>5 DEF Shown, ok
    <3> QED
      BY <3>1 DEF RowSeen
  <2> QED
    BY <2>1, <2>4, <2>5, ProceedStep DEF n
<1>3. CASE ReadPolicy
  <2>1. req.todo # <<>> /\ Head(req.todo) = "policy" /\ Proceed(policy # "off", req)
    BY <1>3 DEF ReadPolicy, At
  <2>2. policy # "off" /\ Shown(seen', req, artifact, policy, link, guest) => seen'.on
    BY DEF Shown
  <2> QED
    BY <1>0, <2>1, <2>2, ProceedStep DEF n
<1>4. CASE FindTarget
  <2> DEFINE q == [req EXCEPT !.version = Aim]
  <2>1. req.todo # <<>> /\ Head(req.todo) = "target" /\ Proceed(~artifact.deleted, q)
    BY <1>4 DEF FindTarget, At
  <2>2. Aim \in 1..n
    BY <1>0, <1>r DEF Aim, Latest
  <2>3. /\ q \in RequestRows(n) /\ q.kind = req.kind /\ q.todo = req.todo /\ q.guest = req.guest
        /\ q.link = req.link /\ q.thread = req.thread /\ q.row = req.row /\ q.version = Aim
    BY <1>0, <2>2 DEF RequestRows
  <2>4. q.version # 0
    BY <1>0, <2>2, <2>3
  <2> HIDE DEF q
  <2>5. ASSUME req.kind \in WriteKinds, Grown(seen, seen'),
               Shown(seen', req, artifact, policy, link, guest)
        PROVE  q.version \in seen'.aim \cup seen'.current
    <3>1. req.guest # None
      BY <1>0, <2>5, ConstantFacts DEF Sound, OwnerSound, GuestKinds, WriteKinds
    <3>2. CASE req.row.target = Latest
      BY <2>3, <2>5, <3>2 DEF Shown, Aim
    <3>3. CASE req.row.target # Latest
      BY <1>0, <2>3, <2>5, <3>1, <3>3 DEF Sound, RowSeen, Grown, Aim
    <3> QED
      BY <3>2, <3>3
  <2> QED
    BY <2>1, <2>3, <2>4, <2>5, ProceedStep DEF n
<1>5. CASE CheckLease
  <2>1. req.todo # <<>> /\ Head(req.todo) = "aim" /\ Proceed(LeaseServes, req)
    BY <1>5 DEF CheckLease, At
  <2>2. req.kind = "read" /\ req.guest # None
    <3>1. req.kind = "read"
      BY <1>0, <2>1, NotIdle DEF StepsOf, Sound
    <3> QED
      BY <1>0, <3>1, ConstantFacts DEF Sound, OwnerSound, GuestKinds
  <2>3. ~In("link", req.todo) /\ In("aim", req.todo)
    <3>1. req.todo \in Seq(Steps) /\ PlanSound(req.kind, req.todo)
      BY <1>0 DEF RequestRows, Sound
    <3>2. /\ ~In("link", Tail(req.todo))
          /\ \A e : In(e, req.todo) /\ e # Head(req.todo) => In(e, Tail(req.todo))
      BY <2>1, <3>1, PlanTail
    <3>3. 1 \in DOMAIN req.todo /\ req.todo[1] = "aim"
      BY <2>1, <3>1
    <3> QED
      BY <2>1, <3>2, <3>3 DEF In
  <2>4. ASSUME LeaseServes, Grown(seen, seen')
        PROVE  req.version \in seen'.aim \cup seen'.promoted
    <3>1. CASE req.row.target = Latest
      <4>1. req.version = artifact.current /\ ~(artifact.current > req.version)
        BY <1>0, <2>4, <3>1 DEF LeaseServes, Aim
      <4>2. artifact.current \in seen.aim \cup seen.promoted \/ artifact.current > req.version
        BY <1>0, <2>2, <2>3, <3>1 DEF Sound, LeaseSeen
      <4> QED
        BY <2>4, <4>1, <4>2 DEF Grown
    <3>2. CASE req.row.target # Latest
      BY <1>0, <2>2, <2>4, <3>2 DEF LeaseServes, Aim, Sound, RowSeen, Grown
    <3> QED
      BY <3>1, <3>2
  <2> QED
    BY <1>0, <2>1, <2>4, ProceedStep DEF n
<1>6. CASE AuthorizeComment
  <2>1. req.todo # <<>> /\ Head(req.todo) = "may" /\ Proceed(MayWrite, req)
    BY <1>6 DEF AuthorizeComment, At
  <2>2. req.kind \in WriteKinds /\ req.guest # None
    <3>1. req.kind \in WriteKinds
      BY <1>0, <2>1, NotIdle DEF StepsOf, WriteKinds
    <3> QED
      BY <1>0, <3>1, ConstantFacts DEF Sound, OwnerSound, GuestKinds, WriteKinds
  <2>3. ASSUME MayWrite, Grown(seen, seen'), Shown(seen', req, artifact, policy, link, guest)
        PROVE  seen'.write /\ seen'.allowed
    BY <1>0, <2>2, <2>3 DEF MayWrite, Shown, Sound, RowSeen, Grown
  <2> QED
    BY <1>0, <2>1, <2>3, ProceedStep DEF n
<1>7. CASE RequireNamed
  <2>1. req.todo # <<>> /\ Head(req.todo) = "named" /\ Proceed(req.named, req)
    BY <1>7 DEF RequireNamed, At
  <2> QED
    BY <1>0, <2>1, ProceedStep DEF n
<1>8. CASE RequireViewing
  <2> DEFINE q == [req EXCEPT !.viewing = 0]
  <2>1. req.todo # <<>> /\ Head(req.todo) = "viewing" /\ Proceed(req.viewing \in {0, req.version}, q)
    BY <1>8 DEF RequireViewing, At
  <2>2. /\ q \in RequestRows(n) /\ q.kind = req.kind /\ q.todo = req.todo /\ q.guest = req.guest
        /\ q.link = req.link /\ q.thread = req.thread /\ q.row = req.row
        /\ q.version = req.version
    BY <1>0 DEF RequestRows
  <2> HIDE DEF q
  <2> QED
    BY <2>1, <2>2, ProceedStep DEF n
<1>9. CASE RequireTargetThread
  <2> DEFINE ok == ~artifact.deleted /\ OnTarget(req.thread)
  <2>1. req.todo # <<>> /\ Head(req.todo) = "thread" /\ Proceed(ok, req)
    BY <1>9 DEF RequireTargetThread, At
  <2>2. req.kind \in {"amend", "remove"}
    BY <1>0, <2>1, NotIdle DEF StepsOf
  <2>3. ~In("target", req.todo)
    <3>1. req.todo \in Seq(Steps) /\ PlanSound(req.kind, req.todo)
      BY <1>0 DEF RequestRows, Sound
    <3>2. /\ ~In("target", Tail(req.todo))
          /\ \A e : In(e, req.todo) /\ e # Head(req.todo) => In(e, Tail(req.todo))
      BY <2>1, <3>1, PlanTail
    <3> QED
      BY <2>1, <3>2
  <2>4. ASSUME ok, Grown(seen, seen')
        PROVE  req.thread.version \in seen'.aim \cup seen'.current
    BY <1>0, <2>2, <2>3, <2>4 DEF OnTarget, Sound, TargetSeen, WriteKinds, Grown
  <2> HIDE DEF ok
  <2> QED
    BY <1>0, <2>1, <2>4, ProceedStep DEF n
<1>10. CASE FindCurrent
  <2>1. req.todo # <<>> /\ Head(req.todo) = "current" /\ Proceed(~artifact.deleted, req)
    BY <1>10 DEF FindCurrent, At
  <2> QED
    BY <1>0, <2>1, ProceedStep DEF n
<1>11. CASE Serve
  <2>1. req.todo # <<>> /\ Head(req.todo) \in {"serve", "public"} /\ Proceed(TRUE, req)
    BY <1>11 DEF Serve, At
  <2> QED
    BY <1>0, <2>1, ProceedStep DEF n
<1> QED
  BY <1>1, <1>2, <1>3, <1>4, <1>5, <1>6, <1>7, <1>8, <1>9, <1>10, <1>11

\* The last step: everything has been read.
LEMMA AllRead ==
    ASSUME Types, RequestSound, NEW step \in LastSteps, At(step)
    PROVE  /\ req.kind # "idle" /\ step \in StepsOf(req.kind)
           /\ \A e : e \notin LastSteps => ~In(e, req.todo)
<1>1. req.todo # <<>> /\ Head(req.todo) = step
  BY DEF At
<1>2. /\ req.todo \in Seq(Steps) /\ PlanSound(req.kind, req.todo)
      /\ req.kind # "idle" /\ step \in StepsOf(req.kind) /\ Tail(req.todo) = <<>>
  BY <1>1, NotIdle DEF RequestSound, Sound
<1>3. \A e : In(e, req.todo) /\ e # step => In(e, <<>>)
  BY <1>1, <1>2, PlanTail
<1> QED
  BY <1>2, <1>3, NothingIn

LEMMA DoneStep ==
    ASSUME Types, RequestSound, NEW step \in LastSteps, At(step), Done, Witness,
           artifact' = artifact,
           \A x \in Guests : guest[x].link # None => guest'[x].link = guest[x].link
    PROVE  req' \in RequestRows(artifact.count) /\ RequestSound'
<1>0. /\ req \in RequestRows(artifact.count) /\ req' = [req EXCEPT !.todo = <<>>]
      /\ <<>> \in Seq(Steps) /\ Sound(req, seen, artifact.current, guest)
  BY DEF Types, Done, RequestSound
<1>1. /\ req' \in RequestRows(artifact.count) /\ req'.kind = req.kind /\ req'.todo = <<>>
      /\ req'.guest = req.guest /\ req'.link = req.link /\ req'.row = req.row
      /\ req'.version = req.version /\ req'.thread = req.thread
  BY <1>0 DEF RequestRows
<1>2. /\ req.kind # "idle"
      /\ ~In("target", req.todo) /\ ~In("may", req.todo) /\ ~In("thread", req.todo)
      /\ ~In("link", req.todo) /\ ~In("policy", req.todo) /\ ~In("aim", req.todo)
  BY AllRead DEF LastSteps
<1>3. Grown(seen, seen')
  BY <1>1, <1>2, WitnessGrows
<1>4. Sound(req, seen', artifact.current, guest')
  <2>1. req.guest \in Guests \cup {None}
    BY <1>0 DEF RequestRows
  <2>2. PICK t : t = seen'
    OBVIOUS
  <2>3. PICK h : h = guest'
    OBVIOUS
  <2>4. Sound(req, t, artifact.current, h)
    BY <1>0, <1>3, <2>1, <2>2, <2>3, SoundGrows
  <2> QED
    BY <2>2, <2>3, <2>4
<1>5. PICK p : p = req'
  OBVIOUS
<1>6. Sound(p, seen', artifact.current, guest')
  <2>0. \A e : ~In(e, p.todo)
    BY <1>1, <1>5, NothingIn
  <2>1. PlanSound(p.kind, p.todo)
    BY <1>1, <1>5, PlanDone
  <2>2. OwnerSound(p, guest') /\ RowSeen(p, seen')
    BY <1>1, <1>4, <1>5 DEF Sound, OwnerSound, RowSeen
  <2>3. TargetSeen(p, seen') /\ PermissionSeen(p, seen') /\ ThreadSeen(p, seen')
    BY <1>1, <1>2, <1>4, <1>5 DEF Sound, TargetSeen, PermissionSeen, ThreadSeen
  <2>4. LeaseSeen(p, seen', artifact.current) /\ PublicSeen(p, seen')
    BY <1>1, <1>2, <1>4, <1>5, <2>0 DEF Sound, LeaseSeen, PublicSeen
  <2> QED
    BY <2>1, <2>2, <2>3, <2>4 DEF Sound
<1> QED
  BY <1>1, <1>5, <1>6 DEF RequestSound

\* The rows a guest's request leaves behind.
LEMMA WritingSteps ==
    ASSUME Types, RowsSound, CallsSound, RequestSound,
           \/ \E g \in Guests : CreateGuest(g)
           \/ SetGuestIdentity \/ CreatePreviewLease \/ CreateThread
           \/ AmendThread \/ RemoveThread \/ RemoveReply
    PROVE  Types' /\ RowsSound' /\ CallsSound' /\ RequestSound'
<1> DEFINE n == artifact.count
<1>0. /\ n \in Nat /\ req \in RequestRows(n) /\ guest \in [Guests -> GuestRows]
      /\ Sound(req, seen, artifact.current, guest)
      /\ req.row \in LinkRows(n) /\ req.version \in 0..n /\ req.link \in Links \cup {None}
  BY ArtifactFacts DEF Types, RequestSound, RequestRows
<1> HIDE DEF n
<1>1. ASSUME NEW g \in Guests, CreateGuest(g)
      PROVE  Types' /\ RowsSound' /\ CallsSound' /\ RequestSound'
  <2> DEFINE r == [NoGuest EXCEPT !.link = req.link, !.gen = req.row.gen]
  <2>1. /\ At("join") /\ guest[g].link = None /\ guest' = [guest EXCEPT ![g] = r] /\ Done /\ Witness
        /\ UNCHANGED <<artifact, policy, leases, comments, replies, managerVars>>
    BY <1>1 DEF CreateGuest
  <2>2. r \in GuestRows
    <3>1. req.row.gen \in 1..MaxRevision
      BY <1>0, RowFacts
    <3> QED
      BY <1>0, <3>1 DEF NoGuest, GuestRows
  <2> HIDE DEF r
  <2>3. /\ guest' \in [Guests -> GuestRows]
        /\ \A x \in Guests : guest[x].link # None => guest'[x] = guest[x]
    BY <1>0, <2>1, <2>2
  <2>4. req' \in RequestRows(n) /\ RequestSound'
    <3>1. \A x \in Guests : guest[x].link # None => guest'[x].link = guest[x].link
      BY <2>3
    <3> QED
      BY <2>1, <3>1, DoneStep DEF LastSteps, n
  <2>5. Types'
    BY <2>1, <2>3, <2>4 DEF Types, managerVars, n
  <2>6. RowsSound'
    BY <2>1, <2>3 DEF RowsSound, managerVars, Types
  <2> QED
    BY <2>1, <2>4, <2>5, <2>6, CallsKept DEF managerVars
<1>2. CASE SetGuestIdentity
  <2>1. /\ At("name") /\ guest' = [guest EXCEPT ![req.guest].named = TRUE] /\ Done /\ Witness
        /\ UNCHANGED <<artifact, policy, leases, comments, replies, managerVars>>
    BY <1>2 DEF SetGuestIdentity
  <2>3. /\ guest' \in [Guests -> GuestRows]
        /\ \A x \in Guests : guest'[x].link = guest[x].link
    BY <1>0, <2>1 DEF GuestRows
  <2>4. req' \in RequestRows(n) /\ RequestSound'
    BY <2>1, <2>3, DoneStep DEF LastSteps, n
  <2>5. Types'
    BY <2>1, <2>3, <2>4 DEF Types, managerVars, n
  <2>6. RowsSound'
    BY <2>1, <2>3 DEF RowsSound, managerVars, Types
  <2> QED
    BY <2>1, <2>4, <2>5, <2>6, CallsKept DEF managerVars
<1>3. CASE CreatePreviewLease
  <2> DEFINE p == [guest |-> req.guest, version |-> req.version]
  <2>1. /\ At("lease") /\ leases' = leases \cup {p} /\ Done /\ Witness
        /\ UNCHANGED <<artifact, policy, guest, comments, replies, managerVars>>
    BY <1>3 DEF CreatePreviewLease
  <2>2. req.kind = "lease" /\ ~In("target", req.todo)
    BY <2>1, AllRead DEF LastSteps, StepsOf
  <2>3. /\ req.guest \in Guests /\ guest[req.guest].link # None /\ req.version \in 1..n
    BY <1>0, <2>2, ConstantFacts DEF Sound, OwnerSound, TargetSeen, GuestKinds
  <2>4. p \in [guest : Guests, version : 1..n] /\ guest[p.guest].link # None
    BY <2>3
  <2>5. req' \in RequestRows(n) /\ RequestSound'
    BY <2>1, DoneStep DEF LastSteps, n
  <2> HIDE DEF p
  <2>6. Types'
    BY <2>1, <2>4, <2>5 DEF Types, managerVars, n
  <2>7. RowsSound'
    BY <2>1, <2>4 DEF RowsSound, managerVars
  <2> QED
    BY <2>1, <2>5, <2>6, <2>7, CallsKept DEF managerVars
<1>4. CASE CreateThread
  <2> DEFINE c == [guest |-> req.guest, version |-> req.version]
  <2>1. /\ At("write") /\ comments' = comments \cup {c} /\ Done /\ Witness
        /\ UNCHANGED <<artifact, policy, guest, leases, replies, managerVars>>
    BY <1>4 DEF CreateThread
  <2>2. req.kind = "comment" /\ ~In("target", req.todo)
    BY <2>1, AllRead DEF LastSteps, StepsOf
  <2>3. req.guest \in Guests /\ req.version \in 1..n
    BY <1>0, <2>2 DEF Sound, OwnerSound, TargetSeen, GuestKinds
  <2>4. c \in [guest : Guests \cup {None}, version : 1..n]
    BY <2>3
  <2>5. req' \in RequestRows(n) /\ RequestSound'
    BY <2>1, DoneStep DEF LastSteps, n
  <2> HIDE DEF c
  <2>6. replies' \subseteq [guest : Guests, thread : comments']
    BY <2>1 DEF Types
  <2>7. Types'
    BY <2>1, <2>4, <2>5, <2>6 DEF Types, managerVars, n
  <2>8. RowsSound'
    BY <2>1 DEF RowsSound, managerVars
  <2> QED
    BY <2>1, <2>5, <2>7, <2>8, CallsKept DEF managerVars
<1>5. CASE AmendThread
  <2>1. /\ At("amend") /\ replies' \in {replies, replies \cup {Reply}} /\ Done /\ Witness
        /\ req.thread \in comments
        /\ UNCHANGED <<artifact, policy, guest, leases, comments, managerVars>>
    BY <1>5 DEF AmendThread
  <2>2. req.kind = "amend"
    BY <2>1, AllRead DEF LastSteps, StepsOf
  <2>3. Reply \in [guest : Guests, thread : comments]
    BY <1>0, <2>1, <2>2 DEF Sound, OwnerSound, GuestKinds, Reply
  <2>5. req' \in RequestRows(n) /\ RequestSound'
    BY <2>1, DoneStep DEF LastSteps, n
  <2>7. Types'
    BY <2>1, <2>3, <2>5 DEF Types, managerVars, n
  <2>8. RowsSound'
    BY <2>1 DEF RowsSound, managerVars
  <2> QED
    BY <2>1, <2>5, <2>7, <2>8, CallsKept DEF managerVars
<1>6. CASE RemoveThread
  <2>1. /\ At("remove") /\ comments' = comments \ {req.thread}
        /\ replies' = {r \in replies : r.thread # req.thread} /\ Done /\ Witness
        /\ UNCHANGED <<artifact, policy, guest, leases, managerVars>>
    BY <1>6 DEF RemoveThread, WithoutThread
  <2>3. replies' \subseteq [guest : Guests, thread : comments']
    BY <2>1 DEF Types
  <2>5. req' \in RequestRows(n) /\ RequestSound'
    BY <2>1, DoneStep DEF LastSteps, n
  <2>7. Types'
    BY <2>1, <2>3, <2>5 DEF Types, managerVars, n
  <2>8. RowsSound'
    BY <2>1 DEF RowsSound, managerVars
  <2> QED
    BY <2>1, <2>5, <2>7, <2>8, CallsKept DEF managerVars
<1>7. CASE RemoveReply
  <2>1. /\ At("remove") /\ replies' = replies \ {Reply} /\ Done /\ Witness
        /\ UNCHANGED <<artifact, policy, guest, leases, comments, managerVars>>
    BY <1>7 DEF RemoveReply
  <2>5. req' \in RequestRows(n) /\ RequestSound'
    BY <2>1, DoneStep DEF LastSteps, n
  <2>7. Types'
    BY <2>1, <2>5 DEF Types, managerVars, n
  <2>8. RowsSound'
    BY <2>1 DEF RowsSound, managerVars
  <2> QED
    BY <2>1, <2>5, <2>7, <2>8, CallsKept DEF managerVars
<1> QED
  BY <1>1, <1>2, <1>3, <1>4, <1>5, <1>6, <1>7

LEMMA MemberSteps ==
    ASSUME Types, RowsSound, CallsSound, RequestSound, MemberStep
    PROVE  Types' /\ RowsSound' /\ CallsSound' /\ RequestSound'
<1>1. /\ UNCHANGED <<artifact, policy, guest, leases, req, managerVars>> /\ Witness
      /\ \/ \E v \in Versions : /\ comments' = comments \cup {[guest |-> None, version |-> v]}
                                /\ replies' = replies
         \/ \E t \in comments : /\ comments' = comments \ {t}
                                /\ replies' = {r \in replies : r.thread # t}
  BY DEF MemberStep, OpenMemberThread, ModerateThread, WithoutThread
<1>2. /\ comments' \subseteq [guest : Guests \cup {None}, version : 1..artifact.count]
      /\ replies' \subseteq [guest : Guests, thread : comments']
  BY <1>1 DEF Types, Versions
<1>3. Types'
  BY <1>1, <1>2 DEF Types, managerVars
<1>4. RowsSound'
  BY <1>1 DEF RowsSound, managerVars
<1>5. RequestSound'
  <2>1. ArtifactRow(artifact')
    BY <1>1 DEF Types
  <2> QED
    BY <1>1, <2>1, Background
<1> QED
  BY <1>1, <1>3, <1>4, <1>5, CallsKept DEF managerVars

LEMMA BeginSteps ==
    ASSUME Types, RowsSound, CallsSound, RequestSound,
           \/ \E l \in Links : Open(l)
           \/ \E g \in Guests, kind \in {"name", "lease", "comment"}, v \in {0, artifact.current} :
                 Act(g, kind, v)
           \/ \E g \in Guests, kind \in {"amend", "remove"}, t \in comments,
                 v \in {0, artifact.current} : ActOnThread(g, kind, t, v)
           \/ \E lease \in leases : Read(lease)
           \/ OpenPublic
    PROVE  Types' /\ RowsSound' /\ CallsSound' /\ RequestSound'
<1> DEFINE n == artifact.count
<1>0. /\ n \in Nat /\ artifact.current \in 0..n /\ 0 \in 0..n
      /\ NoRequest \in RequestRows(n) /\ NoRequest.row = NoLink /\ NoRequest.guest = None
      /\ NoRequest.kind = "idle"
      /\ link \in [Links -> LinkRows(n)] /\ guest \in [Guests -> GuestRows]
  <2>1. n \in Nat /\ artifact.current \in 1..n
    BY ArtifactFacts DEF Types
  <2>2. artifact.current \in 0..n /\ 0 \in 0..n
    BY <2>1
  <2>3. NoRequest.row = NoLink /\ NoRequest.guest = None /\ NoRequest.kind = "idle"
    BY DEF NoRequest
  <2>4. NoRequest \in RequestRows(n)
    BY <2>1, Blank
  <2> QED
    BY <2>1, <2>2, <2>3, <2>4 DEF Types
<1> HIDE DEF n
<1>1. ASSUME NEW l \in Links, Open(l)
      PROVE  Types' /\ RowsSound' /\ CallsSound' /\ RequestSound'
  <2> DEFINE q == [NoRequest EXCEPT !.kind = "join", !.link = l, !.row = link[l]]
  <2>1. q \in RequestRows(n) /\ q.kind = "join" /\ q.link = l /\ q.guest = None
    BY <1>0 DEF RequestRows, RequestKinds
  <2>2. Begin(q)
    BY <1>1 DEF Open
  <2> HIDE DEF q
  <2>3. OwnerSound(q, guest)
    BY <2>1 DEF OwnerSound, GuestKinds
  <2> QED
    BY <2>1, <2>2, <2>3, BeginStep DEF n
<1>2. ASSUME NEW g \in Guests, NEW kind \in {"name", "lease", "comment"},
             NEW v \in {0, artifact.current}, Act(g, kind, v)
      PROVE  Types' /\ RowsSound' /\ CallsSound' /\ RequestSound'
  <2> DEFINE q == [NoRequest EXCEPT !.kind = kind, !.guest = g, !.link = guest[g].link,
                                    !.viewing = v]
  <2>0. guest[g].link \in Links
    BY <1>0, <1>2 DEF Act, GuestRows
  <2>1. /\ q \in RequestRows(n) /\ q.kind = kind /\ q.link = guest[g].link /\ q.guest = g
        /\ q.row = NoLink
    BY <1>0, <2>0 DEF RequestRows, RequestKinds, GuestKinds
  <2>2. Begin(q)
    BY <1>2 DEF Act
  <2> HIDE DEF q
  <2>3. OwnerSound(q, guest)
    BY <2>0, <2>1 DEF OwnerSound
  <2> QED
    BY <2>1, <2>2, <2>3, BeginStep DEF n
<1>3. ASSUME NEW g \in Guests, NEW kind \in {"amend", "remove"}, NEW t \in comments,
             NEW v \in {0, artifact.current}, ActOnThread(g, kind, t, v)
      PROVE  Types' /\ RowsSound' /\ CallsSound' /\ RequestSound'
  <2> DEFINE q == [NoRequest EXCEPT !.kind = kind, !.guest = g, !.link = guest[g].link,
                                    !.viewing = v, !.thread = t]
  <2>0. guest[g].link \in Links /\ t \in Threads(n)
    <3>1. 1..n \subseteq 0..n
      BY <1>0
    <3>2. t \in [guest : Guests \cup {None}, version : 1..n]
      BY DEF Types, n
    <3> QED
      BY <1>0, <1>3, <3>1, <3>2 DEF ActOnThread, GuestRows, Threads
  <2>1. /\ q \in RequestRows(n) /\ q.kind = kind /\ q.link = guest[g].link /\ q.guest = g
        /\ q.row = NoLink
    BY <1>0, <2>0 DEF RequestRows, RequestKinds, GuestKinds
  <2>2. Begin(q)
    BY <1>3 DEF ActOnThread
  <2> HIDE DEF q
  <2>3. OwnerSound(q, guest)
    BY <2>0, <2>1 DEF OwnerSound
  <2> QED
    BY <2>1, <2>2, <2>3, BeginStep DEF n
<1>4. ASSUME NEW lease \in leases, Read(lease)
      PROVE  Types' /\ RowsSound' /\ CallsSound' /\ RequestSound'
  <2> DEFINE q == [NoRequest EXCEPT !.kind = "read", !.guest = lease.guest,
                                    !.version = lease.version, !.link = guest[lease.guest].link]
  <2>0. lease.guest \in Guests /\ lease.version \in 0..n /\ guest[lease.guest].link \in Links
    <3>1. lease.guest \in Guests /\ lease.version \in 1..n /\ guest[lease.guest].link # None
      BY DEF Types, RowsSound, n
    <3> QED
      BY <1>0, <3>1 DEF GuestRows
  <2>1. /\ q \in RequestRows(n) /\ q.kind = "read" /\ q.link = guest[lease.guest].link
        /\ q.guest = lease.guest /\ q.row = NoLink
    BY <1>0, <2>0 DEF RequestRows, RequestKinds, GuestKinds
  <2>2. Begin(q)
    BY <1>4 DEF Read
  <2> HIDE DEF q
  <2>3. OwnerSound(q, guest)
    BY <2>0, <2>1 DEF OwnerSound
  <2> QED
    BY <2>1, <2>2, <2>3, BeginStep DEF n
<1>5. CASE OpenPublic
  <2> DEFINE q == [NoRequest EXCEPT !.kind = "public", !.version = artifact.current]
  <2>1. /\ q \in RequestRows(n) /\ q.kind = "public" /\ q.guest = None
        /\ q.version = artifact.current
    BY <1>0 DEF RequestRows, RequestKinds
  <2>2. Begin(q) /\ Public
    BY <1>5 DEF OpenPublic
  <2> HIDE DEF q
  <2>3. OwnerSound(q, guest)
    BY <2>1 DEF OwnerSound, GuestKinds
  <2> QED
    BY <2>1, <2>2, <2>3, BeginStep DEF n
<1> QED
  BY <1>1, <1>2, <1>3, <1>4, <1>5

LEMMA VisitorSteps ==
    ASSUME Types, RowsSound, CallsSound, RequestSound, VisitorStep
    PROVE  Types' /\ RowsSound' /\ CallsSound' /\ RequestSound'
<1>1. CASE EndRequest
  <2>1. req' = NoRequest /\ UNCHANGED <<artifact, policy, guest, leases, comments, replies, managerVars>>
    BY <1>1 DEF EndRequest
  <2> QED
    BY <2>1, NoRequestStep
<1> QED
  BY <1>1, BeginSteps, ReadingSteps, WritingSteps DEF VisitorStep

LEMMA ManagerSteps ==
    ASSUME Types, RowsSound, CallsSound, RequestSound, ManagerStep
    PROVE  Types' /\ RowsSound' /\ CallsSound' /\ RequestSound'
<1>0. PICK m \in Calls :
         \/ \E t \in 0..MaxVersion, comment \in BOOLEAN :
               \/ CreateLink(m, t, comment)
               \/ \E l \in Links : UpdateLink(m, l, t, comment)
         \/ \E l \in Links : RotateLink(m, l) \/ RevokeLink(m, l) \/ InsertLink(m, l)
         \/ WriteUpdate(m) \/ WriteRotation(m) \/ WriteRevocation(m)
         \/ \E to \in {"account", "public"}, k \in Keys : ChangeAccess(m, to, k)
         \/ CommitAccess(m) \/ RevokeArtifactLinks(m) \/ EndCall(m)
  BY DEF ManagerStep
<1>1. /\ Witness /\ UNCHANGED visitorVars
      /\ artifact' = artifact \/ CommitAccess(m)
  BY <1>0 DEF CreateLink, UpdateLink, RotateLink, RevokeLink, ChangeAccess, Start, InsertLink,
              WriteUpdate, WriteRotation, WriteRevocation, CommitAccess, RevokeArtifactLinks, EndCall
<1>2. Types' /\ RowsSound' /\ CallsSound'
  BY <1>0, StartsTyped, WritesTyped, CommitAccessTyped
<1>3. artifact'.current = artifact.current
  BY <1>1, CommitAccessTyped
<1>4. RequestSound'
  <2>1. ArtifactRow(artifact') /\ req' = req /\ guest' = guest
    BY <1>1, <1>2 DEF Types, visitorVars
  <2> QED
    BY <1>1, <1>3, <2>1, Background
<1> QED
  BY <1>2, <1>4

LEMMA ArtifactAndPolicySteps ==
    ASSUME Types, RowsSound, CallsSound, RequestSound, ArtifactStep
    PROVE  Types' /\ RowsSound' /\ CallsSound' /\ RequestSound'
<1>1. CASE \/ Publish \/ StageCandidate \/ DeleteArtifact
           \/ \E v \in artifact.open : PromoteCandidate(v)
  <2>1. /\ ArtifactRow(artifact') /\ UNCHANGED <<visitorVars, managerVars>> /\ Witness
        /\ \/ artifact'.current = artifact.current
           \/ artifact'.current \in artifact.open
           \/ artifact'.current > artifact.count
    BY <1>1, ArtifactSteps
  <2>2. RequestSound'
    <3>1. req' = req /\ guest' = guest
      BY <2>1 DEF visitorVars
    <3> QED
      BY <2>1, <3>1, Background
  <2> QED
    BY <1>1, <2>2, ArtifactTypedToo
<1>2. ASSUME NEW p \in {"off", "view", "comment"}, WriteAccessPolicy(p)
      PROVE  Types' /\ RowsSound' /\ CallsSound' /\ RequestSound'
  <2>1. Types' /\ RowsSound' /\ CallsSound'
    BY <1>2, PolicyTyped
  <2>2. req' = req /\ guest' = guest /\ artifact' = artifact /\ Witness /\ ArtifactRow(artifact')
    BY <1>2, <2>1 DEF WriteAccessPolicy, visitorVars, Types
  <2> QED
    BY <2>1, <2>2, Background
<1>3. ASSUME NEW l \in Links, ExpireLink(l)
      PROVE  Types' /\ RowsSound' /\ CallsSound' /\ RequestSound'
  <2>1. Types' /\ RowsSound' /\ CallsSound'
    BY <1>3, ExpireLinkTyped
  <2>2. req' = req /\ guest' = guest /\ artifact' = artifact /\ Witness /\ ArtifactRow(artifact')
    BY <1>3, <2>1 DEF ExpireLink, visitorVars, Types
  <2> QED
    BY <2>1, <2>2, Background
<1>4. ASSUME NEW g \in Guests, ExpireGuestSession(g)
      PROVE  Types' /\ RowsSound' /\ CallsSound' /\ RequestSound'
  <2>1. /\ Types' /\ RowsSound' /\ CallsSound'
        /\ \A x \in Guests : guest'[x].link = guest[x].link
    BY <1>4, ExpireSessionTyped
  <2>2. req' = req /\ artifact' = artifact /\ Witness /\ ArtifactRow(artifact')
    BY <1>4, <2>1 DEF ExpireGuestSession, Types
  <2> QED
    BY <2>1, <2>2, Background
<1> QED
  BY <1>1, <1>2, <1>3, <1>4 DEF ArtifactStep

-----------------------------------------------------------------------------
(* Theorems                                                                *)

LEMMA ShareInit == Init => ShareInv
<1> SUFFICES ASSUME Init PROVE ShareInv
  OBVIOUS
<1>0. /\ artifact = [count |-> 1, current |-> 1, open |-> {}, access |-> "account",
                     deleted |-> FALSE]
      /\ artifact.count = 1 /\ artifact.count \in Nat
  BY DEF Init
<1>1. /\ NoLink \in LinkRows(artifact.count) /\ NoGuest \in GuestRows
      /\ NoRequest \in RequestRows(artifact.count) /\ NoCall \in CallRows(artifact.count)
  BY <1>0, Blank
<1>2. ArtifactRow(artifact)
  BY <1>0, ConstantFacts DEF ArtifactRow
<1>3. used \in [Keys -> [to : {"none", "account", "public"}, expected : 0..artifact.count]]
  BY <1>0 DEF Init
<1>4. Types
  BY <1>1, <1>2, <1>3 DEF Init, Types
<1>5. RowsSound
  BY DEF Init, RowsSound, NoLink
<1>6. CallsSound
  BY NoCallSound DEF Init, CallsSound, OneWriterPerRevision
<1>7. RequestSound
  <2>1. req.kind = "idle" /\ req.todo = <<>> /\ req.guest = None
    BY DEF Init, NoRequest
  <2> QED
    BY <2>1, IdleSound DEF RequestSound
<1> QED
  BY <1>4, <1>5, <1>6, <1>7 DEF ShareInv

LEMMA ShareStep == ShareInv /\ [Next]_vars => ShareInv'
<1> SUFFICES ASSUME ShareInv, [Next]_vars PROVE ShareInv'
  OBVIOUS
<1>1. CASE UNCHANGED vars
  <2>1. Types' /\ RowsSound'
    BY <1>1 DEF ShareInv, vars, Types, RowsSound
  <2>2. CallsSound' /\ RequestSound'
    BY <1>1, CallsKept DEF ShareInv, vars, RequestSound
  <2> QED
    BY <2>1, <2>2 DEF ShareInv
<1>2. CASE Next
  BY <1>2, ArtifactAndPolicySteps, MemberSteps, ManagerSteps, VisitorSteps DEF Next, ShareInv
<1> QED
  BY <1>1, <1>2

\* Every link, call and request is sound in every reachable state, for any number of
\* links, guests, managers, versions and revisions.
THEOREM ShareInvariant == Spec => []ShareInv
BY ShareInit, ShareStep, PTL DEF Spec

\* What visitors without an account read and write was open to them at some moment
\* of the request (share-links.ts, guest-review.ts, content-access.ts), whatever links, policy,
\* access setting and versions do between its reads.
THEOREM VisitorsStay == Spec => []VisitorsStayWithinLinks
<1>1. ShareInv => VisitorsStayWithinLinks
  <2> SUFFICES ASSUME ShareInv PROVE VisitorsStayWithinLinks
    OBVIOUS
  <2>0. /\ TypeOK /\ TargetSeen(req, seen) /\ PermissionSeen(req, seen) /\ ThreadSeen(req, seen)
        /\ LeaseSeen(req, seen, artifact.current) /\ PublicSeen(req, seen)
    BY TypesImply DEF ShareInv, RequestSound, Sound
  <2>1. ASSUME req.todo = <<>> PROVE \A e : ~In(e, req.todo)
    BY <2>1, NothingIn
  <2>2. GuestReadsTarget
    BY <2>0, <2>1 DEF GuestReadsTarget, Completed, LeaseSeen
  <2>3. GuestWritesAllowed
    BY <2>0, <2>1 DEF GuestWritesAllowed, Completed, TargetSeen, PermissionSeen, ThreadSeen, WriteKinds
  <2>4. PublicReadsPublic
    BY <2>0, <2>1 DEF PublicReadsPublic, Completed, PublicSeen
  <2> QED
    BY <2>0, <2>2, <2>3, <2>4 DEF VisitorsStayWithinLinks
<1> QED
  BY <1>1, ShareInvariant, PTL

\* Turning a public artifact private leaves none of the links that existed when the
\* setting changed, whatever other managers do between the two transactions.
THEOREM PrivateEnds == Spec => []PrivateEndsLinks
<1>1. ShareInv => PrivateEndsLinks
  BY DEF ShareInv, CallsSound, CallSound, PrivateEndsLinks
<1> QED
  BY <1>1, ShareInvariant, PTL

\* Of the managers who loaded the same revision of a link one changes it.
THEOREM OneWriter == Spec => []OneWriterPerRevision
<1>1. ShareInv => OneWriterPerRevision
  BY DEF ShareInv, CallsSound
<1> QED
  BY <1>1, ShareInvariant, PTL

==============================================================================
