--------------------------- MODULE MembershipProofs ---------------------------
(***************************************************************************)
(* Proofs about Membership, for every number of requests, attempts,        *)
(* invites, people and members.                                            *)
(*                                                                         *)
(* The inductive invariant MembershipInv says of each table what its rows  *)
(* owe to the others (MembersSound, IdentitiesSound, InvitesSound,         *)
(* SessionsSound) and of each request what it has read and may still rely  *)
(* on (RequestSound).  What a request relies on only ever grows (Grows):   *)
(* member rows are not deleted, a bound identity stays bound, a consumed   *)
(* attempt stays consumed.  So a step is proved by what it does to its own *)
(* request and to the tables it writes.                                    *)
(***************************************************************************)
EXTENDS Membership, TLAPS, FiniteSetTheorems, SequenceTheorems

MemberRows == [email : Emails, role : {"administrator", "member"}, active : BOOLEAN,
               how : {"owner", "automatic", "manual", "invite"},
               invite : Invites \cup {None}]
InviteRows == [st : {"none", "open", "ended"}, by : 0..MaxMembers,
               email : Emails \cup {None}, role : {"administrator", "member"},
               max : 0..MaxUses, used : 0..MaxUses]
AttemptRows == [st : {"none", "open", "spent"}, invite : Invites \cup {None}, local : BOOLEAN]
SessionRows == [attempt : Attempts, member : 1..MaxMembers, subject : Subjects \cup {None}]
Requests == [at : Steps, attempt : Attempts \cup {None}, invite : Invites \cup {None},
             local : BOOLEAN, subject : Subjects \cup {None}, email : Emails \cup {None},
             ver : Verifications, member : 0..MaxMembers,
             role : {"administrator", "member"}]

\* The member rows: an e-mail has one row, and the first row is the owner's,
\* who alone owns the installation.
MembersSound ==
    /\ \A m, n \in Ids : members[m].email = members[n].email => m = n
    /\ members # <<>> => members[1].how = "owner" /\ members[1].email = Owner
    /\ \A m \in Ids : members[m].how = "owner" => m = 1

\* A person is bound to at most one member row that exists, a row to at most
\* one person.
IdentitiesSound ==
    /\ \A x \in Subjects : identities[x] \in 0..Len(members)
    /\ \A x, y \in Subjects : identities[x] = identities[y] /\ identities[x] # 0 => x = y

\* An invite was created by an administrator; before that it has no use.
InvitesSound ==
    \A i \in Invites : IF invites[i].st = "none" THEN invites[i].used = 0
                       ELSE invites[i].by \in Administrators

\* A session was issued to the person bound to its member, from an attempt
\* that is consumed and gave no other session.
SessionSound(s) ==
    /\ s.member \in Ids
    /\ s.subject # None => identities[s.subject] = s.member
    /\ attempts[s.attempt].st = "spent"
SessionsSound == OneSessionPerAttempt /\ \A s \in sessions : SessionSound(s)

\* What a request holds at each step of the sign-in.
RequestSound(r) ==
    /\ r.at \notin {"idle", "provider"} => r.email \in Emails
    /\ r.local => /\ r.invite = None /\ r.subject = None
                  /\ r.at \in {"email", "count", "admit", "session"}
    /\ r.at \notin {"idle", "provider"} /\ ~r.local => r.subject \in Subjects
    /\ r.at \in {"invite", "redeem"} => r.invite # None
    /\ r.at = "admit" => IF r.role = "administrator" THEN r.email = Owner ELSE members # <<>>
    /\ r.at \in {"bind", "session"} => r.member \in Ids
    /\ r.at = "session" /\ r.subject # None => identities[r.subject] = r.member
    /\ r.attempt # None => /\ attempts[r.attempt].st = "spent"
                           /\ \A s \in sessions : s.attempt # r.attempt

\* No two requests hold one attempt, and a local attempt carries no invite.
RequestsSound ==
    /\ \A h \in Handlers : RequestSound(handler[h])
    /\ \A g, h \in Handlers :
          handler[g].attempt = handler[h].attempt /\ handler[g].attempt # None => g = h
    /\ \A a \in Attempts : attempts[a].local => attempts[a].invite = None

MembershipInv ==
    /\ TypeOK
    /\ MembersSound /\ AdministratorRemains
    /\ IdentitiesSound
    /\ InvitesSound /\ InviteUsesAreMembers
    /\ SessionsSound
    /\ RequestsSound

USE MembershipAssumption

LEMMA Types ==
    TypeOK <=> /\ members \in Seq(MemberRows) /\ Len(members) <= MaxMembers
               /\ identities \in [Subjects -> 0..MaxMembers]
               /\ invites \in [Invites -> InviteRows]
               /\ attempts \in [Attempts -> AttemptRows]
               /\ sessions \subseteq SessionRows
               /\ handler \in [Handlers -> Requests]
BY DEF TypeOK, MemberRows, InviteRows, AttemptRows, SessionRows, Requests

LEMMA TypesNext ==
    TypeOK' <=> /\ members' \in Seq(MemberRows) /\ Len(members') <= MaxMembers
                /\ identities' \in [Subjects -> 0..MaxMembers]
                /\ invites' \in [Invites -> InviteRows]
                /\ attempts' \in [Attempts -> AttemptRows]
                /\ sessions' \subseteq SessionRows
                /\ handler' \in [Handlers -> Requests]
BY DEF TypeOK, MemberRows, InviteRows, AttemptRows, SessionRows, Requests

-----------------------------------------------------------------------------
(* Sequences and counts                                                    *)

LEMMA Appended ==
    ASSUME NEW S, NEW s \in Seq(S), NEW x \in S
    PROVE  /\ Append(s, x) \in Seq(S)
           /\ Append(s, x) # <<>>
           /\ Len(Append(s, x)) = Len(s) + 1
           /\ \A i \in 1..Len(s) : Append(s, x)[i] = s[i]
           /\ Append(s, x)[Len(s) + 1] = x
BY AppendProperties

LEMMA Replaced ==
    ASSUME NEW S, NEW s \in Seq(S), NEW i \in 1..Len(s), NEW x \in S
    PROVE  /\ [s EXCEPT ![i] = x] \in Seq(S)
           /\ Len([s EXCEPT ![i] = x]) = Len(s)
           /\ \A j \in 1..Len(s) : [s EXCEPT ![i] = x][j] = IF j = i THEN x ELSE s[j]
<1>1. s \in [1..Len(s) -> S] /\ Len(s) \in Nat
  BY LenProperties
<1>2. [s EXCEPT ![i] = x] \in [1..Len(s) -> S]
  BY <1>1
<1>3. QED
  BY <1>1, <1>2, SeqDef, LenProperties

LEMMA Nonempty ==
    ASSUME NEW S, NEW s \in Seq(S)
    PROVE  Len(s) \in Nat /\ (s # <<>> <=> 1 \in 1..Len(s)) /\ (s = <<>> <=> Len(s) = 0)
BY EmptySeq, LenProperties

\* Among more than one there is another.
LEMMA Another ==
    ASSUME NEW S, IsFiniteSet(S), NEW x \in S, Cardinality(S) > 1
    PROVE  \E y \in S : y # x
<1>1. SUFFICES ASSUME \A y \in S : y = x  PROVE FALSE
  OBVIOUS
<1>2. S = {x}
  BY <1>1
<1>3. QED
  BY <1>2, FS_Singleton

LEMMA IdsFinite ==
    ASSUME TypeOK, NEW S, S \subseteq Ids
    PROVE  IsFiniteSet(S)
<1>1. Len(members) \in Int
  BY Nonempty, Types
<1>2. IsFiniteSet(Ids)
  BY <1>1, FS_Interval DEF Ids
<1>3. QED
  BY <1>2, FS_Subset

-----------------------------------------------------------------------------
(* What requests rely on grows                                             *)

Grows ==
    /\ Len(members) <= Len(members')
    /\ \A x \in Subjects : identities[x] # 0 => identities'[x] = identities[x]
    /\ \A a \in Attempts : attempts[a].st = "spent" => attempts'[a].st = "spent"

\* The steps that leave the tables of the sign-in alone.
LEMMA SameGrows ==
    ASSUME TypeOK, UNCHANGED <<members, identities, attempts>>
    PROVE  Grows
BY Nonempty, Types DEF Grows

LEMMA RequestKept ==
    ASSUME TypeOK, TypeOK', Grows, sessions' \subseteq sessions,
           NEW r \in Requests, RequestSound(r)
    PROVE  RequestSound(r)'
<1>1. Len(members) \in Nat /\ Len(members)' \in Nat
  BY Nonempty, Types
<1>2. members # <<>> => members' # <<>>
  BY Nonempty, Types, <1>1 DEF Grows
<1>3. r.member \in Ids => r.member \in Ids'
  BY <1>1 DEF Ids, Grows
<1>4. r.subject \in Subjects \cup {None} /\ r.attempt \in Attempts \cup {None}
  BY DEF Requests
<1>5. r.at = "session" /\ r.subject # None => identities'[r.subject] = r.member
  <2>1. SUFFICES ASSUME r.at = "session", r.subject # None
                 PROVE  identities'[r.subject] = r.member
    OBVIOUS
  <2>2. identities[r.subject] = r.member /\ r.member \in Ids
    BY <2>1 DEF RequestSound
  <2>3. r.member # 0
    BY <2>2, <1>1 DEF Ids
  <2>4. QED
    BY <2>1, <2>2, <2>3, <1>4 DEF Grows
<1>6. r.attempt # None => attempts'[r.attempt].st = "spent"
  BY <1>4 DEF Grows, RequestSound
<1>7. QED
  BY <1>2, <1>3, <1>5, <1>6 DEF RequestSound

LEMMA SessionKept ==
    ASSUME TypeOK, TypeOK', Grows, NEW s \in SessionRows, SessionSound(s)
    PROVE  SessionSound(s)'
<1>1. Len(members) \in Nat /\ Len(members)' \in Nat
  BY Nonempty, Types
<1>2. s.member \in Ids /\ s.member \in Ids' /\ s.member # 0
  BY <1>1 DEF Ids, Grows, SessionSound
<1>3. s.subject \in Subjects \cup {None} /\ s.attempt \in Attempts
  BY DEF SessionRows
<1>4. QED
  BY <1>2, <1>3 DEF Grows, SessionSound

LEMMA SessionsKept ==
    ASSUME TypeOK, TypeOK', Grows, SessionsSound, sessions' \subseteq sessions
    PROVE  SessionsSound'
<1>1. ASSUME NEW s \in sessions'  PROVE SessionSound(s)'
  <2>1. s \in sessions /\ s \in SessionRows /\ SessionSound(s)
    BY Types DEF SessionsSound
  <2>2. QED
    BY <2>1, SessionKept
<1>2. OneSessionPerAttempt'
  BY DEF SessionsSound, OneSessionPerAttempt
<1>3. QED
  BY <1>1, <1>2 DEF SessionsSound

\* A step that gives one request a new record, which is sound and holds its
\* old attempt or none, or one that was open before the step.
LEMMA RequestSet ==
    ASSUME TypeOK, TypeOK', Grows, RequestsSound,
           NEW h \in Handlers, NEW r \in Requests,
           handler' = [handler EXCEPT ![h] = r],
           RequestSound(r)',
           \/ r.attempt \in {None, handler[h].attempt}
           \/ r.attempt \in Attempts /\ attempts[r.attempt].st # "spent",
           \A g \in Handlers \ {h} : RequestSound(handler[g])',
           \A a \in Attempts : attempts'[a].local => attempts'[a].invite = None
    PROVE  RequestsSound'
<1>1. handler \in [Handlers -> Requests]
  BY Types
<1>2. \A g \in Handlers : handler'[g] = IF g = h THEN r ELSE handler[g]
  BY <1>1
<1>3. ASSUME NEW g \in Handlers \ {h}  PROVE ~(handler[g].attempt = r.attempt /\ r.attempt # None)
  <2>1. RequestSound(handler[g])
    BY DEF RequestsSound
  <2>2. handler[g].attempt # None => attempts[handler[g].attempt].st = "spent"
    BY <2>1 DEF RequestSound
  <2>3. handler[g].attempt = handler[h].attempt => handler[g].attempt = None
    BY DEF RequestsSound
  <2>4. QED
    BY <2>2, <2>3
<1>4. \A f, g \in Handlers :
         handler'[f].attempt = handler'[g].attempt /\ handler'[f].attempt # None => f = g
  BY <1>2, <1>3 DEF RequestsSound
<1>5. ASSUME NEW g \in Handlers  PROVE RequestSound(handler[g])'
  BY <1>2
<1>6. QED
  BY <1>4, <1>5 DEF RequestsSound

LEMMA RequestMoved ==
    ASSUME TypeOK, TypeOK', Grows, RequestsSound, sessions' \subseteq sessions,
           NEW h \in Handlers, NEW r \in Requests,
           handler' = [handler EXCEPT ![h] = r],
           RequestSound(r)',
           \/ r.attempt \in {None, handler[h].attempt}
           \/ r.attempt \in Attempts /\ attempts[r.attempt].st # "spent",
           \A a \in Attempts : attempts'[a].local => attempts'[a].invite = None
    PROVE  RequestsSound'
<1>1. ASSUME NEW g \in Handlers \ {h}  PROVE RequestSound(handler[g])'
  <2>1. PICK q : q = handler[g]
    OBVIOUS
  <2>2. q \in Requests /\ RequestSound(q) /\ handler'[g] = q
    BY <2>1, Types DEF RequestsSound
  <2>3. RequestSound(q)'
    BY <2>2, RequestKept
  <2>4. QED
    BY <2>2, <2>3 DEF RequestSound
<1>2. QED
  BY <1>1, RequestSet

LEMMA RequestsKept ==
    ASSUME TypeOK, TypeOK', Grows, RequestsSound, sessions' \subseteq sessions,
           UNCHANGED handler,
           \A a \in Attempts : attempts'[a].local => attempts'[a].invite = None
    PROVE  RequestsSound'
<1>1. ASSUME NEW g \in Handlers  PROVE RequestSound(handler[g])'
  <2>1. PICK q : q = handler[g]
    OBVIOUS
  <2>2. q \in Requests /\ RequestSound(q) /\ handler'[g] = q
    BY <2>1, Types DEF RequestsSound
  <2>3. RequestSound(q)'
    BY <2>2, RequestKept
  <2>4. QED
    BY <2>2, <2>3 DEF RequestSound
<1>2. QED
  BY <1>1 DEF RequestsSound

LEMMA IdleSound ==
    ASSUME TypeOK
    PROVE  Idle \in Requests /\ Idle.attempt = None /\ RequestSound(Idle)
<1>1. Idle \in Requests
  BY DEF Idle, Requests, Steps, Verifications
<1>2. QED
  BY <1>1 DEF Idle, RequestSound

\* Members, identities and invites are as they were.
LEMMA MembersKept ==
    ASSUME MembershipInv, UNCHANGED <<members, identities, invites>>
    PROVE  /\ MembersSound' /\ AdministratorRemains' /\ IdentitiesSound' /\ InvitesSound'
           /\ InviteUsesAreMembers'
<1>1. Ids' = Ids /\ Administrators' = Administrators
  BY DEF Ids, Administrators
<1>2. MembersSound' /\ IdentitiesSound' /\ InvitesSound'
  BY <1>1 DEF MembershipInv, MembersSound, IdentitiesSound, InvitesSound
<1>3. AdministratorRemains'
  BY <1>1 DEF MembershipInv, AdministratorRemains, ActiveAdministrator, Active
<1>4. InviteUsesAreMembers'
  BY <1>1 DEF MembershipInv, InviteUsesAreMembers
<1>5. QED
  BY <1>2, <1>3, <1>4

\* The tables are as they were: what holds of them still holds.
LEMMA TablesKept ==
    ASSUME MembershipInv, TypeOK', UNCHANGED <<members, identities, invites, attempts, sessions>>
    PROVE  /\ MembersSound' /\ AdministratorRemains' /\ IdentitiesSound' /\ InvitesSound'
           /\ InviteUsesAreMembers' /\ SessionsSound'
<1>1. SessionsSound'
  BY SameGrows, SessionsKept DEF MembershipInv
<1>2. QED
  BY <1>1, MembersKept

\* A step of one request that writes no table.
LEMMA OnlyRequest ==
    ASSUME MembershipInv, UNCHANGED <<members, identities, invites, attempts, sessions>>,
           NEW h \in Handlers, NEW r \in Requests, RequestSound(r),
           handler' = [handler EXCEPT ![h] = r],
           r.attempt \in {None, handler[h].attempt}
    PROVE  MembershipInv'
<1>1. TypeOK'
  BY Types, TypesNext DEF MembershipInv
<1>2. Grows
  BY SameGrows DEF MembershipInv
<1>3. RequestSound(r)'
  BY <1>1, <1>2, RequestKept DEF MembershipInv
<1>4. RequestsSound'
  <2>1. \A a \in Attempts : attempts'[a].local => attempts'[a].invite = None
    BY DEF MembershipInv, RequestsSound
  <2>2. QED
    BY <1>1, <1>2, <1>3, <2>1, RequestMoved DEF MembershipInv
<1>5. QED
  BY <1>1, <1>4, TablesKept DEF MembershipInv

LEMMA Ended ==
    ASSUME MembershipInv, UNCHANGED <<members, identities, invites, attempts, sessions>>,
           NEW h \in Handlers, End(h)
    PROVE  MembershipInv'
BY IdleSound, OnlyRequest DEF End, MembershipInv

-----------------------------------------------------------------------------
(* The steps of a sign-in that only read                                   *)

LEMMA BearerStep ==
    ASSUME MembershipInv, NEW h \in Handlers, Bearer(h)
    PROVE  MembershipInv'
<1> DEFINE r == [handler[h] EXCEPT !.at = "provider"]
<1>1. handler[h] \in Requests /\ RequestSound(handler[h])
  BY Types DEF MembershipInv, RequestsSound
<1>2. r \in Requests /\ r.attempt = handler[h].attempt
  BY <1>1 DEF Requests, Steps
<1>3. RequestSound(r)
  BY <1>1 DEF RequestSound, Requests, Bearer
<1>4. QED
  BY <1>2, <1>3, OnlyRequest DEF Bearer, Goto

\* What Goto and Found make of a request.
LEMMA GotoSets ==
    ASSUME TypeOK, NEW h \in Handlers, NEW step \in Steps, Goto(h, step)
    PROVE  /\ handler[h] \in Requests
           /\ [handler[h] EXCEPT !.at = step] \in Requests
           /\ handler' = [handler EXCEPT ![h] = [handler[h] EXCEPT !.at = step]]
<1>1. handler[h] \in Requests
  BY Types
<1>2. QED
  BY <1>1 DEF Goto, Requests

LEMMA FoundSets ==
    ASSUME TypeOK, NEW h \in Handlers, NEW step \in Steps, NEW m \in 0..MaxMembers,
           Found(h, m, step)
    PROVE  /\ handler[h] \in Requests
           /\ [handler[h] EXCEPT !.member = m, !.at = step] \in Requests
           /\ handler' = [handler EXCEPT ![h] = [handler[h] EXCEPT !.member = m, !.at = step]]
<1>1. handler \in [Handlers -> Requests] /\ handler[h] \in Requests
  BY Types
<1>2. PICK r : r = [handler[h] EXCEPT !.member = m, !.at = step]
  OBVIOUS
<1>3. r \in Requests
  BY <1>1, <1>2 DEF Requests
<1>4. handler' = [handler EXCEPT ![h] = r]
  BY <1>2 DEF Found
<1>5. QED
  BY <1>1, <1>2, <1>3, <1>4

\* Reading on: the request keeps what it holds.
LEMMA GoesOn ==
    ASSUME MembershipInv, UNCHANGED <<members, identities, invites, attempts, sessions>>,
           NEW h \in Handlers, NEW step \in Steps, Goto(h, step),
           RequestSound([handler[h] EXCEPT !.at = step])
    PROVE  MembershipInv'
<1> DEFINE r == [handler[h] EXCEPT !.at = step]
<1>1. r \in Requests /\ handler' = [handler EXCEPT ![h] = r] /\ r.attempt = handler[h].attempt
  BY GotoSets DEF MembershipInv, Requests
<1>2. QED
  BY <1>1, OnlyRequest

LEMMA FindsMember ==
    ASSUME MembershipInv, UNCHANGED <<members, identities, invites, attempts, sessions>>,
           NEW h \in Handlers, NEW step \in Steps, NEW m \in Ids, Found(h, m, step),
           RequestSound([handler[h] EXCEPT !.member = m, !.at = step])
    PROVE  MembershipInv'
<1> DEFINE r == [handler[h] EXCEPT !.member = m, !.at = step]
<1>1. m \in 0..MaxMembers
  BY Nonempty, Types DEF Ids, MembershipInv
<1>2. handler[h] \in Requests /\ r \in Requests /\ handler' = [handler EXCEPT ![h] = r]
  BY <1>1, FoundSets DEF MembershipInv
<1>3. r.attempt = handler[h].attempt
  BY <1>2 DEF Requests
<1> HIDE DEF r
<1>4. QED
  BY <1>2, <1>3, OnlyRequest DEF r

LEMMA ProviderStep ==
    ASSUME MembershipInv, NEW h \in Handlers, NEW s \in Subjects, NEW e \in Emails,
           NEW v \in Verifications, ProviderAnswers(h, s, e, v)
    PROVE  MembershipInv'
<1> DEFINE r == [handler[h] EXCEPT !.subject = s, !.email = e, !.ver = v, !.at = "identity"]
<1>1. handler[h] \in Requests /\ RequestSound(handler[h]) /\ handler \in [Handlers -> Requests]
  BY Types DEF MembershipInv, RequestsSound
<1>2. r \in Requests /\ r.attempt = handler[h].attempt
  BY <1>1 DEF Requests, Steps
<1>3. RequestSound(r)
  BY <1>1 DEF RequestSound, Requests, ProviderAnswers
<1>4. handler' = [handler EXCEPT ![h] = r]
  BY <1>1 DEF ProviderAnswers, Requests
<1> HIDE DEF r
<1>5. QED
  BY <1>2, <1>3, <1>4, OnlyRequest DEF ProviderAnswers

LEMMA IdentityStep ==
    ASSUME MembershipInv, NEW h \in Handlers, FindByIdentity(h)
    PROVE  MembershipInv'
<1> DEFINE m == identities[handler[h].subject]
<1> USE DEF FindByIdentity
<1>1. handler[h] \in Requests /\ RequestSound(handler[h])
  BY Types DEF MembershipInv, RequestsSound
<1>2. handler[h].subject \in Subjects /\ ~handler[h].local
  BY <1>1 DEF RequestSound
<1>3. CASE handler[h].ver = "unverified"
  BY <1>3, Ended
<1>4. CASE handler[h].ver # "unverified" /\ m # 0 /\ Active(m)
  <2>1. m \in Ids
    BY <1>4, <1>2, Nonempty, Types DEF MembershipInv, IdentitiesSound, Ids
  <2>2. RequestSound([handler[h] EXCEPT !.member = m, !.at = "bind"])
    BY <1>1, <1>2, <2>1 DEF RequestSound, Requests
  <2>3. QED
    BY <1>4, <2>1, <2>2, FindsMember DEF Steps
<1>5. CASE handler[h].ver # "unverified" /\ ~(m # 0 /\ Active(m))
  <2>1. RequestSound([handler[h] EXCEPT !.at = "email"])
    BY <1>1, <1>2 DEF RequestSound, Requests
  <2>2. QED
    BY <1>5, <2>1, GoesOn DEF Steps
<1>6. QED
  BY <1>3, <1>4, <1>5

LEMMA EmailStep ==
    ASSUME MembershipInv, NEW h \in Handlers, FindByEmail(h)
    PROVE  MembershipInv'
<1> DEFINE known == {m \in ByEmail(handler[h].email) : Active(m)}
           absent == IF handler[h].invite # None THEN "invite" ELSE "count"
           m == CHOOSE m \in known : TRUE
<1> USE DEF FindByEmail
<1>1. handler[h] \in Requests /\ RequestSound(handler[h])
  BY Types DEF MembershipInv, RequestsSound
<1>2. handler[h].at = "email" /\ handler[h].email \in Emails
  BY <1>1 DEF RequestSound
<1>3. CASE known = {}
  <2>1. absent \in Steps
    BY DEF Steps
  <2>2. RequestSound([handler[h] EXCEPT !.at = absent])
    BY <1>1, <1>2 DEF RequestSound, Requests
  <2>3. QED
    BY <1>3, <2>1, <2>2, GoesOn
<1>4. CASE known # {}
  <2>1. m \in known /\ m \in Ids
    BY <1>4 DEF ByEmail
  <2> HIDE DEF m
  <2>2. CASE ~handler[h].local
    <3>1. RequestSound([handler[h] EXCEPT !.member = m, !.at = "bind"])
      BY <1>1, <1>2, <2>1, <2>2 DEF RequestSound, Requests
    <3>2. Found(h, m, "bind")
      BY <1>4, <2>2 DEF m
    <3>3. QED
      BY <3>1, <3>2, <2>1, FindsMember DEF Steps
  <2>3. CASE handler[h].local /\ members[m].role = "administrator"
    <3>1. RequestSound([handler[h] EXCEPT !.member = m, !.at = "session"])
      BY <1>1, <1>2, <2>1, <2>3 DEF RequestSound, Requests
    <3>2. Found(h, m, "session")
      BY <1>4, <2>3 DEF m
    <3>3. QED
      BY <3>1, <3>2, <2>1, FindsMember DEF Steps
  <2>4. CASE handler[h].local /\ members[m].role # "administrator"
    BY <1>4, <2>4, Ended DEF m
  <2>5. QED
    BY <2>2, <2>3, <2>4
<1>5. QED
  BY <1>3, <1>4

LEMMA InviteReadStep ==
    ASSUME MembershipInv, NEW h \in Handlers, FindInvite(h)
    PROVE  MembershipInv'
<1> DEFINE stands == handler[h].ver = "asserted" /\ InviterStands(handler[h].invite)
<1>1. handler[h] \in Requests /\ RequestSound(handler[h])
  BY Types DEF MembershipInv, RequestsSound
<1>2. CASE stands
  <2>1. RequestSound([handler[h] EXCEPT !.at = "redeem"])
    BY <1>1 DEF RequestSound, Requests, FindInvite
  <2>2. QED
    BY <1>2, <2>1, GoesOn DEF FindInvite, Steps
<1>3. CASE ~stands
  BY <1>3, Ended DEF FindInvite
<1>4. QED
  BY <1>2, <1>3

LEMMA CountStep ==
    ASSUME MembershipInv, NEW h \in Handlers, CountMembers(h)
    PROVE  MembershipInv'
<1> DEFINE owns == OwnsInstallation(handler[h].email)
           automatic == /\ ~handler[h].local /\ members # <<>> /\ handler[h].ver = "asserted"
                        /\ handler[h].email \in AutoAdmit
           role == IF owns THEN "administrator" ELSE "member"
           r == [handler[h] EXCEPT !.at = "admit", !.role = role]
<1>1. handler[h] \in Requests /\ RequestSound(handler[h]) /\ handler \in [Handlers -> Requests]
  BY Types DEF MembershipInv, RequestsSound
<1>2. CASE owns \/ automatic
  <2>1. role = "administrator" => handler[h].email = Owner
    BY DEF OwnsInstallation
  <2>2. role = "member" => members # <<>>
    BY <1>2
  <2>3. role \in {"administrator", "member"}
    OBVIOUS
  <2>4. handler' = [handler EXCEPT ![h].at = "admit", ![h].role = role]
    BY <1>2 DEF CountMembers
  <2> HIDE DEF role
  <2>5. r \in Requests /\ r.attempt = handler[h].attempt
    BY <1>1, <2>3 DEF Requests, Steps
  <2>6. RequestSound(r)
    BY <1>1, <2>1, <2>2, <2>3 DEF RequestSound, Requests, CountMembers
  <2>7. handler' = [handler EXCEPT ![h] = r]
    BY <2>4
  <2>8. QED
    BY <2>5, <2>6, <2>7, OnlyRequest DEF CountMembers
<1>3. CASE ~(owns \/ automatic)
  BY <1>3, Ended DEF CountMembers
<1>4. QED
  BY <1>2, <1>3

LEMMA FailStep ==
    ASSUME MembershipInv, NEW h \in Handlers, Fail(h)
    PROVE  MembershipInv'
BY Ended DEF Fail

-----------------------------------------------------------------------------
(* Attempts and invites                                                    *)

\* A new record for one attempt, which is not one that is consumed.
LEMMA AttemptSet ==
    ASSUME MembershipInv, UNCHANGED <<members, identities, invites, sessions>>,
           NEW a \in Attempts, NEW v \in AttemptRows, attempts[a].st # "spent",
           v.local => v.invite = None,
           attempts' = [attempts EXCEPT ![a] = v], TypeOK'
    PROVE  /\ Grows /\ SessionsSound'
           /\ \A b \in Attempts : attempts'[b].local => attempts'[b].invite = None
           /\ MembersSound' /\ AdministratorRemains' /\ IdentitiesSound' /\ InvitesSound'
           /\ InviteUsesAreMembers'
<1>1. \A b \in Attempts : attempts'[b] = IF b = a THEN v ELSE attempts[b]
  BY Types DEF MembershipInv
<1>2. Grows
  BY <1>1, Nonempty, Types DEF Grows, MembershipInv
<1>3. SessionsSound'
  BY <1>2, SessionsKept DEF MembershipInv
<1>4. \A b \in Attempts : attempts'[b].local => attempts'[b].invite = None
  BY <1>1 DEF MembershipInv, RequestsSound
<1>5. QED
  BY <1>2, <1>3, <1>4, MembersKept

LEMMA AttemptAlone ==
    ASSUME MembershipInv, UNCHANGED <<members, identities, invites, sessions, handler>>,
           NEW a \in Attempts, NEW v \in AttemptRows, attempts[a].st # "spent",
           v.local => v.invite = None,
           attempts' = [attempts EXCEPT ![a] = v]
    PROVE  MembershipInv'
<1>1. TypeOK'
  BY Types, TypesNext DEF MembershipInv
<1>2. RequestsSound'
  BY <1>1, AttemptSet, RequestsKept DEF MembershipInv
<1>3. QED
  BY <1>1, <1>2, AttemptSet DEF MembershipInv

LEMMA StartStep ==
    ASSUME MembershipInv, NEW a \in Attempts, NEW i \in Invites \cup {None},
           NEW local \in BOOLEAN, StartLogin(a, i, local)
    PROVE  MembershipInv'
<1> DEFINE v == [st |-> "open", invite |-> i, local |-> local]
<1>1. v \in AttemptRows
  BY DEF AttemptRows
<1>2. v.local => v.invite = None
  BY DEF StartLogin
<1>3. attempts' = [attempts EXCEPT ![a] = v] /\ attempts[a].st # "spent"
  BY DEF StartLogin
<1> HIDE DEF v
<1>4. QED
  BY <1>1, <1>2, <1>3, AttemptAlone DEF StartLogin

LEMMA AttemptExpires ==
    ASSUME MembershipInv, NEW a \in Attempts, ExpireAttempt(a)
    PROVE  MembershipInv'
<1> DEFINE v == [attempts[a] EXCEPT !.st = "spent"]
<1>1. attempts[a] \in AttemptRows
  BY Types DEF MembershipInv
<1>2. v \in AttemptRows
  BY <1>1 DEF AttemptRows
<1>3. v.local => v.invite = None
  BY <1>1 DEF MembershipInv, RequestsSound, AttemptRows
<1>4. attempts' = [attempts EXCEPT ![a] = v] /\ attempts[a].st # "spent"
  BY DEF ExpireAttempt
<1> HIDE DEF v
<1>5. QED
  BY <1>2, <1>3, <1>4, AttemptAlone DEF ExpireAttempt

LEMMA CallbackStep ==
    ASSUME MembershipInv, NEW h \in Handlers, NEW a \in Attempts, Callback(h, a)
    PROVE  MembershipInv'
<1> DEFINE v == [attempts[a] EXCEPT !.st = "spent"]
           local == attempts[a].local
           r == [Idle EXCEPT !.attempt = a, !.invite = attempts[a].invite, !.local = local,
                             !.email = IF local THEN Owner ELSE None,
                             !.at = IF local THEN "email" ELSE "provider"]
<1>1. attempts[a] \in AttemptRows /\ (attempts[a].local => attempts[a].invite = None)
  BY Types DEF MembershipInv, RequestsSound
<1>2. v \in AttemptRows /\ v.st = "spent" /\ (v.local => v.invite = None)
  BY <1>1 DEF AttemptRows
<1>3. attempts' = [attempts EXCEPT ![a] = v] /\ attempts[a].st # "spent"
  BY DEF Callback, Consumable
<1>4. r \in Requests
  <2> DEFINE e == IF local THEN Owner ELSE None
             at == IF local THEN "email" ELSE "provider"
             i == attempts[a].invite
  <2>1. e \in Emails \cup {None} /\ at \in Steps
    BY DEF Steps
  <2>2. i \in Invites \cup {None} /\ local \in BOOLEAN
    BY <1>1 DEF AttemptRows
  <2>3. Idle \in Requests
    BY IdleSound DEF MembershipInv
  <2>4. r = [Idle EXCEPT !.attempt = a, !.invite = i, !.local = local, !.email = e, !.at = at]
    OBVIOUS
  <2> HIDE DEF e, at, i, local, r
  <2>5. QED
    BY <2>1, <2>2, <2>3, <2>4 DEF Requests
<1>5. handler' = [handler EXCEPT ![h] = r]
  BY DEF Callback
<1>6. /\ r.attempt = a
      /\ r.invite = attempts[a].invite /\ r.local = local /\ r.subject = None
      /\ r.email = (IF local THEN Owner ELSE None)
      /\ r.at = (IF local THEN "email" ELSE "provider")
  BY DEF Idle
<1> HIDE DEF v, r
<1>7. TypeOK'
  <2>1. /\ members \in Seq(MemberRows) /\ Len(members) <= MaxMembers
        /\ identities \in [Subjects -> 0..MaxMembers]
        /\ invites \in [Invites -> InviteRows] /\ sessions \subseteq SessionRows
        /\ attempts \in [Attempts -> AttemptRows] /\ handler \in [Handlers -> Requests]
    BY Types DEF MembershipInv
  <2>2. UNCHANGED <<members, identities, invites, sessions>>
    BY DEF Callback
  <2>3. attempts' \in [Attempts -> AttemptRows] /\ handler' \in [Handlers -> Requests]
    BY <1>2, <1>3, <1>4, <1>5, <2>1
  <2>4. QED
    BY <2>1, <2>2, <2>3, TypesNext
<1>8. attempts'[a].st = "spent"
  BY <1>2, <1>3, Types DEF MembershipInv
<1>9. \A s \in sessions' : s.attempt # a
  BY <1>3 DEF MembershipInv, SessionsSound, SessionSound, Callback
<1>10. PICK q : q = r
  OBVIOUS
<1>11. RequestSound(q)'
  BY <1>1, <1>6, <1>8, <1>9, <1>10 DEF RequestSound, AttemptRows
<1>12. /\ Grows /\ SessionsSound'
       /\ \A b \in Attempts : attempts'[b].local => attempts'[b].invite = None
       /\ MembersSound' /\ AdministratorRemains' /\ IdentitiesSound' /\ InvitesSound'
       /\ InviteUsesAreMembers'
  BY <1>2, <1>3, <1>7, AttemptSet DEF Callback
<1>13. RequestsSound'
  BY <1>3, <1>4, <1>5, <1>6, <1>7, <1>10, <1>11, <1>12, RequestMoved DEF MembershipInv, Callback
<1>14. QED
  BY <1>7, <1>12, <1>13 DEF MembershipInv

\* A new record for one invite, with the uses it had; the person it names
\* changes only while nobody was admitted by it.
LEMMA InviteSet ==
    ASSUME MembershipInv, UNCHANGED <<members, identities, attempts, sessions, handler>>,
           NEW i \in Invites, NEW v \in InviteRows,
           invites' = [invites EXCEPT ![i] = v],
           v.st # "none" /\ v.by \in Administrators,
           v.used = invites[i].used /\ v.used <= v.max,
           v.email = invites[i].email \/ v.used = 0
    PROVE  MembershipInv'
<1> DEFINE admitted(j) == {m \in Ids : members[m].invite = j}
<1>1. \A j \in Invites : invites'[j] = IF j = i THEN v ELSE invites[j]
  BY Types DEF MembershipInv
<1>2. TypeOK'
  BY Types, TypesNext DEF MembershipInv
<1>3. Ids' = Ids /\ Administrators' = Administrators
  BY DEF Ids, Administrators
<1>4. MembersSound' /\ IdentitiesSound' /\ AdministratorRemains'
  BY <1>3 DEF MembershipInv, MembersSound, IdentitiesSound, AdministratorRemains,
              ActiveAdministrator, Active
<1>5. InvitesSound'
  BY <1>1, <1>3 DEF MembershipInv, InvitesSound
<1>6. InviteUsesAreMembers'
  <2>1. ASSUME NEW j \in Invites
        PROVE  /\ invites'[j].used = Cardinality(admitted(j))
               /\ invites'[j].used <= invites'[j].max
               /\ invites'[j].email # None =>
                     \A m \in admitted(j) : members[m].email = invites'[j].email
    <3>1. /\ invites[j].used = Cardinality(admitted(j))
          /\ invites[j].used <= invites[j].max
          /\ invites[j].email # None =>
                \A m \in admitted(j) : members[m].email = invites[j].email
      BY DEF MembershipInv, InviteUsesAreMembers
    <3>2. invites[j].used = 0 => admitted(j) = {}
      BY <3>1, IdsFinite, FS_EmptySet DEF MembershipInv
    <3>3. QED
      BY <1>1, <3>1, <3>2
  <2>2. QED
    BY <2>1, <1>3 DEF InviteUsesAreMembers
<1>7. Grows
  BY SameGrows DEF MembershipInv
<1>8. SessionsSound'
  BY <1>2, <1>7, SessionsKept DEF MembershipInv
<1>9. RequestsSound'
  <2>1. \A a \in Attempts : attempts'[a].local => attempts'[a].invite = None
    BY DEF MembershipInv, RequestsSound
  <2>2. QED
    BY <1>2, <1>7, <2>1, RequestsKept DEF MembershipInv
<1>10. QED
  BY <1>2, <1>4, <1>5, <1>6, <1>8, <1>9 DEF MembershipInv

LEMMA CreateStep ==
    ASSUME MembershipInv, NEW by \in Administrators, NEW i \in Invites,
           NEW email \in Emails \cup {None}, NEW role \in {"administrator", "member"},
           NEW max \in 1..MaxUses, CreateInvite(by, i, email, role, max)
    PROVE  MembershipInv'
<1> DEFINE v == [st |-> "open", by |-> by, email |-> email, role |-> role,
                 max |-> max, used |-> 0]
<1>1. by \in 0..MaxMembers
  BY Nonempty, Types DEF Administrators, Ids, MembershipInv
<1>2. v \in InviteRows
  BY <1>1 DEF InviteRows
<1>3. invites' = [invites EXCEPT ![i] = v] /\ invites[i].used = 0
  BY DEF CreateInvite, MembershipInv, InvitesSound
<1>4. v.st # "none" /\ v.by = by /\ v.used = 0 /\ v.used <= v.max
  OBVIOUS
<1> HIDE DEF v
<1>5. QED
  BY <1>2, <1>3, <1>4, InviteSet DEF CreateInvite

\* Revoking and expiring an invite both end it.
LEMMA EndStep ==
    ASSUME MembershipInv, NEW i \in Invites, invites[i].st = "open",
           invites' = [invites EXCEPT ![i].st = "ended"],
           UNCHANGED <<members, identities, attempts, sessions, handler>>
    PROVE  MembershipInv'
<1> DEFINE v == [invites[i] EXCEPT !.st = "ended"]
<1>1. invites[i] \in InviteRows /\ invites[i].by \in Administrators
      /\ invites[i].used <= invites[i].max
  BY Types DEF MembershipInv, InvitesSound, InviteUsesAreMembers
<1>2. v \in InviteRows /\ invites' = [invites EXCEPT ![i] = v]
  BY <1>1 DEF InviteRows
<1>3. /\ v.st = "ended" /\ v.by = invites[i].by /\ v.used = invites[i].used
      /\ v.max = invites[i].max /\ v.email = invites[i].email
  BY <1>1 DEF InviteRows
<1> HIDE DEF v
<1>4. QED
  BY <1>1, <1>2, <1>3, InviteSet

-----------------------------------------------------------------------------
(* Member rows                                                             *)

LEMMA MemberAdded ==
    ASSUME MembershipInv, NEW r \in MemberRows, members' = Append(members, r),
           Insertable(r.email), r.active,
           members = <<>> => r.role = "administrator" /\ r.how = "owner" /\ r.email = Owner,
           members # <<>> => r.how # "owner"
    PROVE  /\ members' \in Seq(MemberRows) /\ Len(members') <= MaxMembers
           /\ Len(members) \in Nat /\ Len(members') = Len(members) + 1
           /\ Ids' = Ids \cup {Len(members) + 1} /\ Len(members) + 1 \notin Ids
           /\ \A m \in Ids : members'[m] = members[m]
           /\ members'[Len(members) + 1] = r
           /\ Administrators \subseteq Administrators'
           /\ MembersSound' /\ AdministratorRemains'
<1> DEFINE n == Len(members) + 1
<1>1. members \in Seq(MemberRows) /\ Len(members) \in Nat
  BY Nonempty, Types DEF MembershipInv
<1>2. /\ members' \in Seq(MemberRows) /\ members' # <<>>
      /\ Len(members') = n
      /\ \A m \in Ids : members'[m] = members[m]
      /\ members'[n] = r
  BY <1>1, Appended DEF Ids
<1>3. Len(members') <= MaxMembers
  BY <1>1, <1>2 DEF Insertable
<1>4. Ids' = Ids \cup {n} /\ n \notin Ids /\ n \in Ids'
  BY <1>1, <1>2 DEF Ids
<1>5. Administrators \subseteq Administrators'
  BY <1>2, <1>4 DEF Administrators
<1>6. \A m \in Ids : members[m].email # r.email
  BY DEF Insertable, ByEmail
<1>7. members = <<>> <=> n = 1
  BY <1>1, Nonempty
<1>8. members # <<>> => 1 \in Ids
  BY <1>1, Nonempty DEF Ids
<1> HIDE DEF n
<1>9. MembersSound'
  <2>1. \A x, y \in Ids' : members'[x].email = members'[y].email => x = y
    <3>1. \A x, y \in Ids : members[x].email = members[y].email => x = y
      BY DEF MembershipInv, MembersSound
    <3>2. \A x \in Ids : members'[x].email = members[x].email /\ members'[x].email # r.email
      BY <1>2, <1>6
    <3>3. \A x \in Ids' : x \in Ids \/ x = n
      BY <1>4
    <3>4. members'[n].email = r.email
      BY <1>2
    <3>5. SUFFICES ASSUME NEW x \in Ids', NEW y \in Ids',
                          members'[x].email = members'[y].email
                   PROVE  x = y
      OBVIOUS
    <3>6. CASE x \in Ids /\ y \in Ids
      <4>1. members[x].email = members[y].email
        BY <3>2, <3>5, <3>6
      <4>2. QED
        BY <4>1, <3>1, <3>6
    <3>7. CASE x \in Ids /\ y = n
      BY <3>2, <3>4, <3>5, <3>7
    <3>8. CASE x = n /\ y \in Ids
      BY <3>2, <3>4, <3>5, <3>8
    <3>9. QED
      BY <3>3, <3>6, <3>7, <3>8
  <2>2. members'[1].how = "owner" /\ members'[1].email = Owner
    BY <1>2, <1>7, <1>8 DEF MembershipInv, MembersSound
  <2>3. \A x \in Ids' : members'[x].how = "owner" => x = 1
    <3>1. SUFFICES ASSUME NEW x \in Ids', members'[x].how = "owner"  PROVE x = 1
      OBVIOUS
    <3>2. \A m \in Ids : members[m].how = "owner" => m = 1
      BY DEF MembershipInv, MembersSound
    <3>3. CASE x \in Ids
      BY <1>2, <3>1, <3>2, <3>3
    <3>4. CASE x = n
      BY <1>1, <1>2, <1>7, <3>1, <3>4, Nonempty
    <3>5. QED
      BY <1>4, <3>1, <3>3, <3>4
  <2>4. QED
    BY <2>1, <2>2, <2>3 DEF MembersSound
<1>10. AdministratorRemains'
  <2>1. CASE members = <<>>
    <3>1. members'[n].active /\ members'[n].role = "administrator"
      BY <1>2, <2>1
    <3>2. QED
      BY <3>1, <1>4 DEF AdministratorRemains, ActiveAdministrator, Active
  <2>2. CASE members # <<>>
    <3>1. PICK m \in Ids : members[m].active /\ members[m].role = "administrator"
      BY <2>2 DEF MembershipInv, AdministratorRemains, ActiveAdministrator, Active
    <3>2. m \in Ids' /\ members'[m].active /\ members'[m].role = "administrator"
      BY <3>1, <1>2, <1>4
    <3>3. QED
      BY <3>2 DEF AdministratorRemains, ActiveAdministrator, Active
  <2>3. QED
    BY <2>1, <2>2
<1>11. QED
  BY <1>1, <1>2, <1>3, <1>4, <1>5, <1>9, <1>10 DEF n

\* A member who comes with no invite leaves every invite's count.
LEMMA UsesKept ==
    ASSUME MembershipInv, UNCHANGED invites,
           Ids \subseteq Ids',
           \A m \in Ids : members'[m].invite = members[m].invite
                          /\ members'[m].email = members[m].email,
           \A m \in Ids' \ Ids : members'[m].invite = None
    PROVE  InviteUsesAreMembers'
<1>1. ASSUME NEW i \in Invites
      PROVE  {m \in Ids' : members'[m].invite = i} = {m \in Ids : members[m].invite = i}
  <2>1. i # None
    OBVIOUS
  <2>2. QED
    BY <2>1
<1>2. QED
  BY <1>1 DEF InviteUsesAreMembers, MembershipInv

\* A row for a new member who comes with no invite: what it does to the tables.
LEMMA MemberAlone ==
    ASSUME MembershipInv, NEW r \in MemberRows, members' = Append(members, r),
           Insertable(r.email), r.active, r.invite = None,
           members = <<>> => r.role = "administrator" /\ r.how = "owner" /\ r.email = Owner,
           members # <<>> => r.how # "owner",
           UNCHANGED <<identities, invites, attempts, sessions>>,
           handler' \in [Handlers -> Requests]
    PROVE  /\ TypeOK' /\ Grows
           /\ Len(members) \in Nat /\ Len(members) + 1 \in Ids'
           /\ Len(members) + 1 \in 0..MaxMembers
           /\ MembersSound' /\ AdministratorRemains' /\ IdentitiesSound' /\ InvitesSound'
           /\ InviteUsesAreMembers' /\ SessionsSound'
<1>1. /\ members' \in Seq(MemberRows) /\ Len(members') <= MaxMembers
      /\ Len(members) \in Nat /\ Len(members') = Len(members) + 1
      /\ Ids' = Ids \cup {Len(members) + 1} /\ Len(members) + 1 \notin Ids
      /\ \A m \in Ids : members'[m] = members[m]
      /\ members'[Len(members) + 1] = r
      /\ Administrators \subseteq Administrators'
      /\ MembersSound' /\ AdministratorRemains'
  BY MemberAdded
<1>2. TypeOK'
  BY <1>1, Types, TypesNext DEF MembershipInv
<1>3. Grows
  BY <1>1 DEF Grows
<1>4. IdentitiesSound'
  BY <1>1 DEF MembershipInv, IdentitiesSound
<1>5. InvitesSound'
  BY <1>1 DEF MembershipInv, InvitesSound
<1>6. InviteUsesAreMembers'
  BY <1>1, UsesKept
<1>7. SessionsSound'
  BY <1>2, <1>3, SessionsKept DEF MembershipInv
<1>8. QED
  BY <1>1, <1>2, <1>3, <1>4, <1>5, <1>6, <1>7

LEMMA AdmitStep ==
    ASSUME MembershipInv, NEW by \in Administrators, NEW email \in Emails,
           NEW role \in {"administrator", "member"}, AdmitMember(by, email, role)
    PROVE  MembershipInv'
<1> DEFINE r == NewMember(email, role, "manual", None)
<1>1. /\ r \in MemberRows /\ r.active /\ r.invite = None /\ r.how = "manual" /\ r.email = email
  BY DEF NewMember, MemberRows
<1>2. members # <<>>
  BY Nonempty, Types DEF MembershipInv, Administrators, Ids
<1>3. handler' \in [Handlers -> Requests]
  BY Types DEF MembershipInv, AdmitMember
<1>4. members' = Append(members, r) /\ Insertable(r.email)
  BY <1>1 DEF AdmitMember
<1> HIDE DEF r
<1>5. /\ TypeOK' /\ Grows
      /\ MembersSound' /\ AdministratorRemains' /\ IdentitiesSound' /\ InvitesSound'
      /\ InviteUsesAreMembers' /\ SessionsSound'
  BY <1>1, <1>2, <1>3, <1>4, MemberAlone DEF AdmitMember
<1>6. RequestsSound'
  <2>1. \A a \in Attempts : attempts'[a].local => attempts'[a].invite = None
    BY DEF MembershipInv, RequestsSound, AdmitMember
  <2>2. QED
    BY <1>5, <2>1, RequestsKept DEF MembershipInv, AdmitMember
<1>7. QED
  BY <1>5, <1>6 DEF MembershipInv

\* admitMember during a sign-in: the first member is the owner, since a request
\* that was told the installation is empty is the owner's.
LEMMA AdmitOnLoginStep ==
    ASSUME MembershipInv, NEW h \in Handlers, AdmitOnLogin(h)
    PROVE  MembershipInv'
<1> DEFINE q == handler[h]
           owner == q.role = "administrator"
           r == NewMember(q.email, q.role, IF owner THEN "owner" ELSE "automatic", None)
           n == Len(members) + 1
           step == IF q.local THEN "session" ELSE "bind"
<1>1. q \in Requests /\ RequestSound(q) /\ q.at = "admit"
  BY Types DEF MembershipInv, RequestsSound, AdmitOnLogin
<1>2. /\ q.email \in Emails /\ q.role \in {"administrator", "member"}
      /\ (IF owner THEN q.email = Owner ELSE members # <<>>)
      /\ (q.local => q.subject = None) /\ (~q.local => q.subject \in Subjects)
  BY <1>1 DEF RequestSound, Requests
<1>3. CASE ~Insertable(q.email)
  BY <1>3, Ended DEF AdmitOnLogin
<1>4. CASE Insertable(q.email)
  <2>1. /\ members' = Append(members, r)
        /\ Found(h, n, step)
        /\ UNCHANGED <<identities, invites, attempts, sessions>>
    BY <1>4 DEF AdmitOnLogin
  <2>2. /\ r \in MemberRows /\ r.active /\ r.invite = None /\ r.email = q.email
        /\ r.role = q.role /\ r.how = (IF owner THEN "owner" ELSE "automatic")
    BY <1>2 DEF NewMember, MemberRows
  <2>3. members # <<>> => q.email # Owner \/ ~owner
    <3>1. members # <<>> => 1 \in Ids /\ members[1].email = Owner
      BY Nonempty, Types DEF MembershipInv, MembersSound, Ids
    <3>2. QED
      BY <3>1, <1>4 DEF Insertable, ByEmail
  <2>4. members = <<>> => r.role = "administrator" /\ r.how = "owner" /\ r.email = Owner
    BY <1>2, <2>2
  <2>5. members # <<>> => r.how # "owner"
    BY <1>2, <2>2, <2>3
  <2>6. n \in 0..MaxMembers
    BY <1>4, Nonempty, Types DEF Insertable, MembershipInv
  <2>7. step \in Steps
    BY DEF Steps
  <2> DEFINE new == [q EXCEPT !.member = n, !.at = step]
  <2>8. new \in Requests /\ handler' = [handler EXCEPT ![h] = new]
    BY <2>1, <2>6, <2>7, FoundSets DEF MembershipInv
  <2>9. /\ new.attempt = q.attempt /\ new.invite = q.invite /\ new.local = q.local
        /\ new.subject = q.subject /\ new.email = q.email /\ new.member = n
        /\ new.at = step
    BY <1>1 DEF Requests
  <2> HIDE DEF r, new
  <2>10. handler' \in [Handlers -> Requests]
    BY <2>8, Types DEF MembershipInv
  <2>11. /\ TypeOK' /\ Grows /\ n \in Ids'
         /\ MembersSound' /\ AdministratorRemains' /\ IdentitiesSound' /\ InvitesSound'
         /\ InviteUsesAreMembers' /\ SessionsSound'
    BY <1>4, <2>1, <2>2, <2>4, <2>5, <2>10, MemberAlone
  <2>12. PICK c : c = new
    OBVIOUS
  <2>13. PICK d : d = q
    OBVIOUS
  <2>14. RequestSound(d)'
    BY <1>1, <2>1, <2>11, <2>13, RequestKept DEF MembershipInv
  <2>15. RequestSound(c)'
    BY <1>2, <2>9, <2>11, <2>12, <2>13, <2>14 DEF RequestSound
  <2>16. RequestsSound'
    <3>1. \A a \in Attempts : attempts'[a].local => attempts'[a].invite = None
      BY <2>1 DEF MembershipInv, RequestsSound
    <3>2. QED
      BY <2>1, <2>8, <2>9, <2>11, <2>12, <2>15, <3>1, RequestMoved DEF MembershipInv
  <2>17. QED
    BY <2>11, <2>16 DEF MembershipInv
<1>5. QED
  BY <1>3, <1>4

\* Deactivation leaves another active administrator: the guard counts more than
\* one when the member is one of them.
LEMMA DeactivateStep ==
    ASSUME MembershipInv, NEW by \in Administrators, NEW m \in Ids, DeactivateMember(by, m)
    PROVE  MembershipInv'
<1> DEFINE r == [members[m] EXCEPT !.active = FALSE]
<1>1. members \in Seq(MemberRows) /\ members[m] \in MemberRows
  BY Types, ElementOfSeq DEF MembershipInv, Ids
<1>2. /\ r \in MemberRows /\ r.email = members[m].email /\ r.how = members[m].how
      /\ r.role = members[m].role /\ r.invite = members[m].invite
  BY <1>1 DEF MemberRows
<1>3. members' = [members EXCEPT ![m] = r]
  BY DEF DeactivateMember
<1> HIDE DEF r
<1>4. /\ members' \in Seq(MemberRows) /\ Len(members') = Len(members)
      /\ \A x \in Ids : members'[x] = IF x = m THEN r ELSE members[x]
  BY <1>1, <1>2, <1>3, Replaced DEF Ids
<1>5. Ids' = Ids
  BY <1>4 DEF Ids
<1>6. \A x \in Ids : /\ members'[x].email = members[x].email
                     /\ members'[x].how = members[x].how
                     /\ members'[x].role = members[x].role
                     /\ members'[x].invite = members[x].invite
                     /\ x # m => members'[x].active = members[x].active
  BY <1>2, <1>4
<1>7. Administrators' = Administrators
  BY <1>5, <1>6 DEF Administrators
<1>8. members # <<>> <=> 1 \in Ids
  BY <1>1, Nonempty DEF Ids
<1>9. members' # <<>> <=> 1 \in Ids
  BY <1>4, <1>5, Nonempty DEF Ids
<1>10. MembersSound'
  BY <1>5, <1>6, <1>8, <1>9 DEF MembershipInv, MembersSound
<1>11. AdministratorRemains'
  <2>1. PICK x \in Ids : x # m /\ ActiveAdministrator(x)
    <3>1. CASE ActiveAdministrator(m)
      <4> DEFINE S == {x \in Ids : ActiveAdministrator(x)}
      <4>1. m \in S /\ Cardinality(S) > 1 /\ IsFiniteSet(S)
        BY <3>1, IdsFinite DEF DeactivateMember, DeactivationAllowed, MembershipInv
      <4> HIDE DEF S
      <4>2. \E x \in S : x # m
        BY <4>1, Another
      <4>3. QED
        BY <4>2 DEF S
    <3>2. CASE ~ActiveAdministrator(m)
      <4>1. members # <<>>
        BY <1>1, Nonempty DEF Ids
      <4>2. PICK x \in Ids : ActiveAdministrator(x)
        BY <4>1 DEF MembershipInv, AdministratorRemains
      <4>3. QED
        BY <4>2, <3>2
    <3>3. QED
      BY <3>1, <3>2
  <2>2. x \in Ids' /\ members'[x].active /\ members'[x].role = "administrator"
    BY <2>1, <1>5, <1>6 DEF ActiveAdministrator, Active
  <2>3. QED
    BY <2>2 DEF AdministratorRemains, ActiveAdministrator, Active
<1>12. IdentitiesSound' /\ InvitesSound'
  BY <1>4, <1>7 DEF MembershipInv, IdentitiesSound, InvitesSound, DeactivateMember
<1>13. InviteUsesAreMembers'
  BY <1>5, <1>6, UsesKept DEF DeactivateMember
<1>14. sessions' \subseteq sessions
  BY DEF DeactivateMember
<1>15. TypeOK'
  BY <1>4, <1>14, Types, TypesNext DEF MembershipInv, DeactivateMember
<1>16. Grows
  BY <1>1, <1>4, Nonempty DEF Grows, DeactivateMember
<1>17. SessionsSound'
  BY <1>14, <1>15, <1>16, SessionsKept DEF MembershipInv
<1>18. RequestsSound'
  <2>1. \A a \in Attempts : attempts'[a].local => attempts'[a].invite = None
    BY DEF MembershipInv, RequestsSound, DeactivateMember
  <2>2. QED
    BY <1>14, <1>15, <1>16, <2>1, RequestsKept DEF MembershipInv, DeactivateMember
<1>19. QED
  BY <1>10, <1>11, <1>12, <1>13, <1>15, <1>17, <1>18 DEF MembershipInv

-----------------------------------------------------------------------------
(* The steps of a sign-in that write                                       *)

\* redeemInvite: one more use, one more member, one more binding.
LEMMA RedeemStep ==
    ASSUME MembershipInv, NEW h \in Handlers, RedeemInvite(h)
    PROVE  MembershipInv'
<1> DEFINE q == handler[h]
           i == q.invite
           s == q.subject
           n == Len(members) + 1
           refused == \/ RedemptionRefused(i, q.email) \/ ~Insertable(q.email)
                      \/ identities[s] # 0
           r == NewMember(q.email, invites[i].role, "invite", i)
           v == [invites[i] EXCEPT !.used = @ + 1]
           new == [q EXCEPT !.member = n, !.at = "session"]
<1>1. q \in Requests /\ RequestSound(q) /\ q.at = "redeem"
  BY Types DEF MembershipInv, RequestsSound, RedeemInvite
<1>2. q.email \in Emails /\ s \in Subjects /\ i \in Invites /\ ~q.local
  BY <1>1 DEF RequestSound, Requests
<1>3. CASE refused
  BY <1>3, Ended DEF RedeemInvite
<1>4. CASE ~refused
  <2>1. /\ members' = Append(members, r)
        /\ invites' = [invites EXCEPT ![i] = v]
        /\ identities' = [identities EXCEPT ![s] = n]
        /\ Found(h, n, "session")
        /\ UNCHANGED <<attempts, sessions>>
    BY <1>4 DEF RedeemInvite
  <2>2. invites[i] \in InviteRows
    BY <1>2, Types DEF MembershipInv
  <2>3. /\ invites[i].st = "open" /\ invites[i].used < invites[i].max
        /\ invites[i].email # None => invites[i].email = q.email
        /\ Insertable(q.email) /\ identities[s] = 0
    BY <1>4 DEF RedemptionRefused, InviteActive
  <2>4. /\ r \in MemberRows /\ r.active /\ r.invite = i /\ r.email = q.email
        /\ r.how = "invite"
    BY <1>2, <2>2 DEF NewMember, MemberRows, InviteRows
  <2>5. v \in InviteRows /\ v.st = "open" /\ v.by = invites[i].by /\ v.max = invites[i].max
        /\ v.used = invites[i].used + 1 /\ v.email = invites[i].email
    BY <2>2, <2>3 DEF InviteRows
  <2>6. members # <<>>
    <3>1. invites[i].by \in Administrators
      BY <1>2, <2>3 DEF MembershipInv, InvitesSound
    <3>2. QED
      BY <3>1, Nonempty, Types DEF MembershipInv, Administrators, Ids
  <2>7. n \in 0..MaxMembers
    BY <2>3, Nonempty, Types DEF Insertable, MembershipInv
  <2>8. new \in Requests /\ handler' = [handler EXCEPT ![h] = new]
    <3>1. TypeOK /\ "session" \in Steps
      BY DEF MembershipInv, Steps
    <3>2. QED
      BY <2>1, <2>7, <3>1, FoundSets
  <2>9. /\ new.attempt = q.attempt /\ new.invite = q.invite /\ new.local = q.local
        /\ new.subject = q.subject /\ new.email = q.email /\ new.member = n
        /\ new.at = "session"
    BY <1>1 DEF Requests
  <2> HIDE DEF r, v, new
  <2>10. /\ members' \in Seq(MemberRows) /\ Len(members') <= MaxMembers
         /\ Len(members) \in Nat /\ Len(members') = n
         /\ Ids' = Ids \cup {n} /\ n \notin Ids
         /\ \A m \in Ids : members'[m] = members[m]
         /\ members'[n] = r
         /\ Administrators \subseteq Administrators'
         /\ MembersSound' /\ AdministratorRemains'
    BY <2>1, <2>3, <2>4, <2>6, MemberAdded
  <2>11. TypeOK'
    BY <1>2, <2>1, <2>5, <2>7, <2>8, <2>10, Types, TypesNext DEF MembershipInv
  <2>12. \A x \in Subjects : identities'[x] = IF x = s THEN n ELSE identities[x]
    BY <2>1, Types DEF MembershipInv
  <2>13. \A j \in Invites : invites'[j] = IF j = i THEN v ELSE invites[j]
    BY <2>1, Types DEF MembershipInv
  <2>14. Grows
    BY <2>1, <2>3, <2>10, <2>12 DEF Grows
  <2>15. IdentitiesSound'
    <3>1. \A x \in Subjects : identities[x] \in 0..Len(members) /\ identities[x] # n
      BY <2>10 DEF MembershipInv, IdentitiesSound
    <3>2. \A x \in Subjects : identities'[x] \in 0..Len(members')
      BY <2>10, <2>12, <3>1
    <3>3. \A x, y \in Subjects : identities'[x] = identities'[y] /\ identities'[x] # 0 => x = y
      BY <2>12, <3>1 DEF MembershipInv, IdentitiesSound
    <3>4. QED
      BY <3>2, <3>3 DEF IdentitiesSound
  <2>16. InvitesSound'
    BY <1>2, <2>3, <2>5, <2>10, <2>13 DEF MembershipInv, InvitesSound
  <2>17. InviteUsesAreMembers'
    <3> DEFINE old(j) == {m \in Ids : members[m].invite = j}
               now(j) == {m \in Ids' : members'[m].invite = j}
    <3>1. ASSUME NEW j \in Invites
          PROVE  /\ invites'[j].used = Cardinality(now(j))
                 /\ invites'[j].used <= invites'[j].max
                 /\ invites'[j].email # None =>
                       \A m \in now(j) : members'[m].email = invites'[j].email
      <4>1. /\ invites[j].used = Cardinality(old(j))
            /\ invites[j].used <= invites[j].max
            /\ invites[j].email # None =>
                  \A m \in old(j) : members[m].email = invites[j].email
        BY DEF MembershipInv, InviteUsesAreMembers
      <4>2. IsFiniteSet(old(j))
        BY IdsFinite DEF MembershipInv
      <4>3. CASE j # i
        <5>1. now(j) = old(j)
          BY <4>3, <2>4, <2>10
        <5>2. QED
          BY <4>1, <4>3, <5>1, <2>10, <2>13
      <4>4. CASE j = i
        <5>1. now(j) = old(j) \cup {n} /\ n \notin old(j)
          BY <4>4, <2>4, <2>10
        <5>2. Cardinality(now(j)) = Cardinality(old(j)) + 1
          BY <4>2, <5>1, FS_AddElement
        <5>3. invites'[j] = v /\ invites[j] = invites[i]
          BY <4>4, <2>13
        <5>4. invites'[j].used = Cardinality(now(j))
          BY <4>1, <5>2, <5>3, <2>5
        <5>5. invites'[j].used <= invites'[j].max
          BY <5>3, <2>2, <2>3, <2>5 DEF InviteRows
        <5>6. ASSUME invites'[j].email # None, NEW m \in now(j)
              PROVE  members'[m].email = invites'[j].email
          <6>1. CASE m = n
            BY <6>1, <5>3, <5>6, <2>3, <2>4, <2>5, <2>10
          <6>2. CASE m \in old(j)
            BY <6>2, <5>3, <5>6, <4>1, <2>5, <2>10
          <6>3. QED
            BY <5>1, <5>6, <6>1, <6>2
        <5>7. QED
          BY <5>4, <5>5, <5>6
      <4>5. QED
        BY <4>3, <4>4
    <3>2. QED
      BY <3>1 DEF InviteUsesAreMembers
  <2>18. SessionsSound'
    BY <2>1, <2>11, <2>14, SessionsKept DEF MembershipInv
  <2>19. PICK c : c = new
    OBVIOUS
  <2>20. PICK d : d = q
    OBVIOUS
  <2>21. RequestSound(d)'
    BY <1>1, <2>1, <2>11, <2>14, <2>20, RequestKept DEF MembershipInv
  <2>22. identities'[s] = n /\ n \in Ids'
    BY <1>2, <2>10, <2>12
  <2>23. RequestSound(c)'
    BY <1>1, <1>2, <2>9, <2>19, <2>20, <2>21, <2>22 DEF RequestSound
  <2>24. RequestsSound'
    <3>1. \A a \in Attempts : attempts'[a].local => attempts'[a].invite = None
      BY <2>1 DEF MembershipInv, RequestsSound
    <3>2. QED
      BY <2>1, <2>8, <2>9, <2>11, <2>14, <2>19, <2>23, <3>1, RequestMoved DEF MembershipInv
  <2>25. QED
    BY <2>10, <2>11, <2>15, <2>16, <2>17, <2>18, <2>24 DEF MembershipInv
<1>5. QED
  BY <1>3, <1>4

\* bindExternalIdentity binds a free person to a free row, or changes nothing.
LEMMA BindStep ==
    ASSUME MembershipInv, NEW h \in Handlers, BindIdentity(h)
    PROVE  MembershipInv'
<1> DEFINE q == handler[h]
           s == q.subject
           m == q.member
           new == [q EXCEPT !.at = "session"]
<1>1. q \in Requests /\ RequestSound(q) /\ q.at = "bind"
  BY Types DEF MembershipInv, RequestsSound, BindIdentity
<1>2. s \in Subjects /\ m \in Ids /\ ~q.local /\ m \in 0..MaxMembers
  BY <1>1 DEF RequestSound, Requests
<1>3. CASE ~Bindable(s, m)
  BY <1>3, Ended DEF BindIdentity
<1>4. CASE Bindable(s, m)
  <2>1. /\ identities' = [identities EXCEPT ![s] = m] /\ Goto(h, "session")
        /\ UNCHANGED <<members, invites, attempts, sessions>>
    BY <1>4 DEF BindIdentity
  <2>2. new \in Requests /\ handler' = [handler EXCEPT ![h] = new]
    BY <2>1, GotoSets DEF MembershipInv, Steps
  <2>3. /\ new.attempt = q.attempt /\ new.invite = q.invite /\ new.local = q.local
        /\ new.subject = q.subject /\ new.email = q.email /\ new.member = q.member
        /\ new.at = "session"
    BY <1>1 DEF Requests
  <2> HIDE DEF new
  <2>4. \A x \in Subjects : identities'[x] = IF x = s THEN m ELSE identities[x]
    BY <2>1, Types DEF MembershipInv
  <2>5. TypeOK'
    BY <1>2, <2>1, <2>2, Types, TypesNext DEF MembershipInv
  <2>6. Grows
    BY <1>4, <2>1, <2>4, Nonempty, Types DEF Grows, Bindable, MembershipInv
  <2>7. Ids' = Ids /\ Administrators' = Administrators
    BY <2>1 DEF Ids, Administrators
  <2>8. MembersSound' /\ InvitesSound' /\ AdministratorRemains'
    BY <2>1, <2>7 DEF MembershipInv, MembersSound, InvitesSound, AdministratorRemains,
                      ActiveAdministrator, Active
  <2>9. InviteUsesAreMembers'
    BY <2>1, <2>7 DEF MembershipInv, InviteUsesAreMembers
  <2>10. IdentitiesSound'
    <3>1. m \in 0..Len(members)
      BY <1>2, Nonempty, Types DEF Ids, MembershipInv
    <3>2. QED
      BY <1>4, <2>1, <2>4, <3>1 DEF MembershipInv, IdentitiesSound, Bindable
  <2>11. SessionsSound'
    BY <2>1, <2>5, <2>6, SessionsKept DEF MembershipInv
  <2>12. PICK c : c = new
    OBVIOUS
  <2>13. PICK d : d = q
    OBVIOUS
  <2>14. RequestSound(d)'
    BY <1>1, <2>1, <2>5, <2>6, <2>13, RequestKept DEF MembershipInv
  <2>15. RequestSound(c)'
    BY <1>1, <1>2, <2>3, <2>4, <2>12, <2>13, <2>14 DEF RequestSound
  <2>16. RequestsSound'
    <3>1. \A a \in Attempts : attempts'[a].local => attempts'[a].invite = None
      BY <2>1 DEF MembershipInv, RequestsSound
    <3>2. QED
      BY <2>1, <2>2, <2>3, <2>5, <2>6, <2>12, <2>15, <3>1, RequestMoved DEF MembershipInv
  <2>17. QED
    BY <2>5, <2>8, <2>9, <2>10, <2>11, <2>16 DEF MembershipInv
<1>5. QED
  BY <1>3, <1>4

\* issueSession: the attempt was consumed by this request and by no other, so
\* it has given no session yet.
LEMMA IssueStep ==
    ASSUME MembershipInv, NEW h \in Handlers, IssueSession(h)
    PROVE  MembershipInv'
<1> DEFINE q == handler[h]
           s == [attempt |-> q.attempt, member |-> q.member, subject |-> q.subject]
<1>1. q \in Requests /\ RequestSound(q) /\ q.at = "session"
  BY Types DEF MembershipInv, RequestsSound, IssueSession
<1>2. CASE q.attempt = None
  BY <1>2, Ended DEF IssueSession
<1>3. CASE q.attempt # None
  <2>1. /\ sessions' = sessions \cup {s} /\ End(h)
        /\ UNCHANGED <<members, identities, invites, attempts>>
    BY <1>3 DEF IssueSession
  <2>2. /\ q.attempt \in Attempts /\ q.member \in Ids /\ q.member \in 1..MaxMembers
        /\ q.subject \in Subjects \cup {None}
    <3>1. q.member \in Ids
      BY <1>1 DEF RequestSound
    <3>2. q.member \in 1..MaxMembers
      BY <3>1, Nonempty, Types DEF Ids, MembershipInv
    <3>3. QED
      BY <1>1, <1>3, <3>1, <3>2 DEF Requests
  <2>3. /\ q.subject # None => identities[q.subject] = q.member
        /\ attempts[q.attempt].st = "spent"
        /\ \A t \in sessions : t.attempt # q.attempt
    BY <1>1, <1>3 DEF RequestSound
  <2>4. s \in SessionRows
    BY <2>2 DEF SessionRows
  <2>5. s.attempt = q.attempt /\ s.member = q.member /\ s.subject = q.subject
    OBVIOUS
  <2> HIDE DEF s
  <2>6. TypeOK'
    BY <2>1, <2>4, IdleSound, Types, TypesNext DEF MembershipInv, End
  <2>7. Grows
    BY <2>1, SameGrows DEF MembershipInv
  <2>8. Ids' = Ids
    BY <2>1 DEF Ids
  <2>9. SessionsSound'
    <3>1. ASSUME NEW t \in sessions'  PROVE SessionSound(t)'
      <4>1. CASE t \in sessions
        BY <4>1, <2>6, <2>7, SessionKept, Types DEF MembershipInv, SessionsSound
      <4>2. CASE t = s
        BY <4>2, <2>1, <2>2, <2>3, <2>5, <2>8 DEF SessionSound
      <4>3. QED
        BY <4>1, <4>2, <2>1
    <3>2. OneSessionPerAttempt'
      BY <2>1, <2>3, <2>5 DEF MembershipInv, SessionsSound, OneSessionPerAttempt
    <3>3. QED
      BY <3>1, <3>2 DEF SessionsSound
  <2>10. handler' = [handler EXCEPT ![h] = Idle] /\ Idle \in Requests /\ Idle.attempt = None
    BY <2>1, IdleSound DEF End, MembershipInv
  <2>11. RequestSound(Idle)'
    BY DEF Idle, RequestSound
  <2>12. ASSUME NEW g \in Handlers \ {h}  PROVE RequestSound(handler[g])'
    <3>1. /\ handler[g] \in Requests /\ RequestSound(handler[g]) /\ handler'[g] = handler[g]
      BY <2>10, Types DEF MembershipInv, RequestsSound
    <3>2. handler[g].attempt # q.attempt
      BY <1>3 DEF MembershipInv, RequestsSound
    <3>3. QED
      BY <2>1, <2>5, <2>8, <3>1, <3>2 DEF RequestSound
  <2>13. RequestsSound'
    <3>1. \A a \in Attempts : attempts'[a].local => attempts'[a].invite = None
      BY <2>1 DEF MembershipInv, RequestsSound
    <3>2. PICK c : c = Idle
      OBVIOUS
    <3>3. RequestSound(c)'
      BY <3>2, <2>11 DEF Idle, RequestSound
    <3>4. QED
      BY <2>6, <2>7, <2>10, <2>12, <3>1, <3>2, <3>3, RequestSet DEF MembershipInv
  <2>14. QED
    BY <2>1, <2>6, <2>9, <2>13, MembersKept DEF MembershipInv
<1>4. QED
  BY <1>2, <1>3

-----------------------------------------------------------------------------
(* The theorems                                                            *)

LEMMA InvInit == Init => MembershipInv
<1> SUFFICES ASSUME Init  PROVE MembershipInv
  OBVIOUS
<1> DEFINE r == NewMember(Owner, "administrator", "owner", None)
<1>1. /\ r \in MemberRows /\ r.email = Owner /\ r.role = "administrator" /\ r.active
      /\ r.how = "owner" /\ r.invite = None
  BY DEF NewMember, MemberRows
<1>2. members = <<>> \/ members = <<r>>
  BY DEF Init
<1> HIDE DEF r
<1>3. /\ members \in Seq(MemberRows) /\ Len(members) \in 0..1
      /\ \A m \in Ids : m = 1 /\ members[m] = r
      /\ members # <<>> => 1 \in Ids
  <2>1. CASE members = <<>>
    BY <2>1 DEF Ids
  <2>2. CASE members = <<r>>
    <3>1. members \in Seq(MemberRows) /\ Len(members) = 1 /\ members[1] = r
      BY <1>1, <2>2
    <3>2. Ids = {1}
      BY <3>1 DEF Ids
    <3>3. QED
      BY <3>1, <3>2
  <2>3. QED
    BY <1>2, <2>1, <2>2
<1>4. Idle \in Requests /\ NoInvite \in InviteRows /\ NoAttempt \in AttemptRows
  BY DEF Idle, NoInvite, NoAttempt, Requests, InviteRows, AttemptRows, Steps, Verifications
<1>5. TypeOK
  BY <1>3, <1>4, Types DEF Init
<1>6. MembersSound /\ AdministratorRemains
  BY <1>1, <1>3 DEF MembersSound, AdministratorRemains, ActiveAdministrator, Active
<1>7. IdentitiesSound
  BY <1>3 DEF IdentitiesSound, Init
<1>8. InvitesSound
  BY DEF InvitesSound, Init, NoInvite
<1>9. InviteUsesAreMembers
  <2>1. ASSUME NEW i \in Invites
        PROVE  /\ {m \in Ids : members[m].invite = i} = {}
               /\ invites[i].used = 0 /\ invites[i].max = 0 /\ invites[i].email = None
    BY <1>1, <1>3 DEF Init, NoInvite
  <2>2. Cardinality({}) = 0 /\ 0 <= 0
    BY FS_EmptySet
  <2>3. QED
    BY <2>1, <2>2 DEF InviteUsesAreMembers
<1>10. SessionsSound
  BY DEF Init, SessionsSound, OneSessionPerAttempt
<1>11. RequestsSound
  BY DEF Init, RequestsSound, RequestSound, Idle, NoAttempt
<1>12. QED
  BY <1>5, <1>6, <1>7, <1>8, <1>9, <1>10, <1>11 DEF MembershipInv

LEMMA InvStep == MembershipInv /\ [Next]_vars => MembershipInv'
<1> SUFFICES ASSUME MembershipInv, [Next]_vars  PROVE MembershipInv'
  OBVIOUS
<1>1. ASSUME NEW h \in Handlers, SignIn(h)  PROVE MembershipInv'
  BY <1>1, CallbackStep, BearerStep, ProviderStep, IdentityStep, EmailStep, InviteReadStep,
     RedeemStep, CountStep, AdmitOnLoginStep, BindStep, IssueStep, FailStep DEF SignIn
<1>2. ASSUME Administer  PROVE MembershipInv'
  <2>1. PICK by \in Administrators :
           \/ \E e \in Emails, r \in {"administrator", "member"} : AdmitMember(by, e, r)
           \/ \E m \in Ids : DeactivateMember(by, m)
           \/ \E i \in Invites, e \in Emails \cup {None}, r \in {"administrator", "member"},
                 n \in 1..MaxUses : CreateInvite(by, i, e, r, n)
           \/ \E i \in Invites : RevokeInvite(by, i)
    BY <1>2 DEF Administer
  <2>2. ASSUME NEW i \in Invites, RevokeInvite(by, i)  PROVE MembershipInv'
    BY <2>2, EndStep DEF RevokeInvite, InviteActive
  <2>3. QED
    BY <2>1, <2>2, AdmitStep, DeactivateStep, CreateStep
<1>3. ASSUME NEW i \in Invites, ExpireInvite(i)  PROVE MembershipInv'
  BY <1>3, EndStep DEF ExpireInvite
<1>4. ASSUME UNCHANGED vars  PROVE MembershipInv'
  <2>1. TypeOK' /\ Grows
    BY <1>4, Types, TypesNext, SameGrows DEF vars, MembershipInv
  <2>2. RequestsSound'
    <3>1. \A a \in Attempts : attempts'[a].local => attempts'[a].invite = None
      BY <1>4 DEF MembershipInv, RequestsSound, vars
    <3>2. QED
      BY <1>4, <2>1, <3>1, RequestsKept DEF vars, MembershipInv
  <2>3. QED
    BY <1>4, <2>1, <2>2, TablesKept DEF vars, MembershipInv
<1>5. QED
  BY <1>1, <1>2, <1>3, <1>4, StartStep, AttemptExpires DEF Next

\* Every reachable state satisfies the inductive invariant, whatever requests,
\* administrators and expiries interleave.
THEOREM MembershipInvariant == Spec => []MembershipInv
<1>1. QED
  BY InvInit, InvStep, PTL DEF Spec

\* hasMembers, admitMember, deactivateMember: the first member is the configured
\* owner and nobody else owns the installation, although a sign-in counts the
\* members and admits one in two calls; and an active administrator always remains,
\* although administrators may deactivate each other at once.
THEOREM Owned == Spec => []InstallationIsOwned
<1>1. MembershipInv => InstallationIsOwned
  <2>1. SUFFICES ASSUME MembershipInv, NEW m \in Ids
                 PROVE  members[m].how = "owner" <=> m = 1 /\ members[m].email = Owner
    BY DEF InstallationIsOwned, OwnerIsFirst, MembershipInv
  <2>2. members # <<>>
    BY <2>1, Nonempty, Types DEF Ids, MembershipInv
  <2>3. QED
    BY <2>1, <2>2 DEF MembershipInv, MembersSound
<1>2. QED
  BY <1>1, MembershipInvariant, PTL

\* redeemInvite: an invite admitted exactly as many members as it counts, never
\* more than its cap, and a one-person invite only the person it names, however
\* many sign-ins hold it.
THEOREM UsesAreMembers == Spec => []InviteUsesAreMembers
<1>1. MembershipInv => InviteUsesAreMembers
  BY DEF MembershipInv
<1>2. QED
  BY <1>1, MembershipInvariant, PTL

\* consumeLoginAttempt, bindExternalIdentity, issueSession: one session for each
\* attempt, held by the one person who is bound to its member.
THEOREM SessionsSoundAlways == Spec => []SessionsAreSound
<1>1. MembershipInv => SessionsAreSound
  <2>1. SUFFICES ASSUME MembershipInv  PROVE SessionsFollowIdentities
    BY DEF SessionsAreSound, MembershipInv, SessionsSound
  <2>2. SUFFICES ASSUME NEW s \in sessions, s.subject # None
                 PROVE  /\ identities[s.subject] = s.member
                        /\ \A x \in Subjects : identities[x] = s.member => x = s.subject
    BY DEF SessionsFollowIdentities
  <2>3. SessionSound(s) /\ s.subject \in Subjects
    BY <2>1, <2>2, Types DEF MembershipInv, SessionsSound, SessionRows
  <2>4. identities[s.subject] = s.member /\ s.member # 0
    BY <2>1, <2>2, <2>3, Nonempty, Types DEF SessionSound, Ids, MembershipInv
  <2>5. QED
    BY <2>1, <2>3, <2>4 DEF MembershipInv, IdentitiesSound
<1>2. QED
  BY <1>1, MembershipInvariant, PTL

-----------------------------------------------------------------------------
(* An invite dies with its inviter                                         *)

Dies(i) ==
    invites[i].st # "none" /\ ~ActiveAdministrator(invites[i].by) =>
       /\ Redeeming(i)' \subseteq Redeeming(i)
       /\ Redeeming(i) = {} => invites'[i].used = invites[i].used

\* Only the reading of the inviter sends a request to the redeeming transaction.
LEMMA OnlyReadingRedeems ==
    ASSUME TypeOK, NEW h \in Handlers, SignIn(h)
    PROVE  /\ \A g \in Handlers \ {h} : handler'[g] = handler[g]
           /\ \/ handler'[h].at # "redeem"
              \/ /\ handler'[h].invite = handler[h].invite
                 /\ InviterStands(handler[h].invite)
<1>1. handler \in [Handlers -> Requests] /\ handler[h] \in Requests
  BY Types
<1>2. Idle.at = "idle"
  BY DEF Idle
<1>3. ASSUME End(h)  PROVE handler' = [handler EXCEPT ![h] = Idle] /\ handler'[h].at = "idle"
  BY <1>1, <1>2, <1>3 DEF End
<1>4. ASSUME NEW step \in Steps, Goto(h, step)
      PROVE  /\ \A g \in Handlers \ {h} : handler'[g] = handler[g]
             /\ handler'[h].at = step /\ handler'[h].invite = handler[h].invite
  BY <1>1, <1>4 DEF Goto, Requests
<1>5. ASSUME NEW step \in Steps, NEW m, Found(h, m, step)
      PROVE  (\A g \in Handlers \ {h} : handler'[g] = handler[g]) /\ handler'[h].at = step
  BY <1>1, <1>5 DEF Found, Requests
<1>6. ASSUME NEW a \in Attempts, Callback(h, a)
      PROVE  (\A g \in Handlers \ {h} : handler'[g] = handler[g]) /\ handler'[h].at # "redeem"
  <2> DEFINE r == [Idle EXCEPT !.attempt = a, !.invite = attempts[a].invite,
                               !.local = attempts[a].local,
                               !.email = IF attempts[a].local THEN Owner ELSE None,
                               !.at = IF attempts[a].local THEN "email" ELSE "provider"]
  <2>1. r.at # "redeem"
    BY DEF Idle
  <2>2. handler' = [handler EXCEPT ![h] = r]
    BY <1>6 DEF Callback
  <2> HIDE DEF r
  <2>3. QED
    BY <1>1, <2>1, <2>2
<1>7. ASSUME NEW s \in Subjects, NEW e \in Emails, NEW v \in Verifications,
             ProviderAnswers(h, s, e, v)
      PROVE  (\A g \in Handlers \ {h} : handler'[g] = handler[g]) /\ handler'[h].at # "redeem"
  BY <1>1, <1>7 DEF ProviderAnswers, Requests
<1>8. ASSUME CountMembers(h)
      PROVE  (\A g \in Handlers \ {h} : handler'[g] = handler[g]) /\ handler'[h].at # "redeem"
  BY <1>1, <1>3, <1>8 DEF CountMembers, Requests
<1>9. ASSUME FindByIdentity(h) \/ BindIdentity(h) \/ IssueSession(h) \/ Fail(h) \/ Bearer(h)
      PROVE  (\A g \in Handlers \ {h} : handler'[g] = handler[g]) /\ handler'[h].at # "redeem"
  BY <1>1, <1>3, <1>4, <1>5, <1>9
     DEF FindByIdentity, BindIdentity, IssueSession, Fail, Bearer, Steps
<1>10. ASSUME FindByEmail(h)
       PROVE  (\A g \in Handlers \ {h} : handler'[g] = handler[g]) /\ handler'[h].at # "redeem"
  BY <1>1, <1>3, <1>4, <1>5, <1>10 DEF FindByEmail, Steps
<1>11. ASSUME RedeemInvite(h) \/ AdmitOnLogin(h)
       PROVE  (\A g \in Handlers \ {h} : handler'[g] = handler[g]) /\ handler'[h].at # "redeem"
  BY <1>1, <1>3, <1>5, <1>11 DEF RedeemInvite, AdmitOnLogin, Steps
<1>12. ASSUME FindInvite(h)
       PROVE  /\ \A g \in Handlers \ {h} : handler'[g] = handler[g]
              /\ \/ handler'[h].at # "redeem"
                 \/ /\ handler'[h].invite = handler[h].invite
                    /\ InviterStands(handler[h].invite)
  BY <1>1, <1>3, <1>4, <1>12 DEF FindInvite, Steps
<1>13. QED
  BY <1>6, <1>7, <1>8, <1>9, <1>10, <1>11, <1>12 DEF SignIn

\* Only a redemption changes the uses of an invite that exists.
LEMMA SignInDies ==
    ASSUME TypeOK, NEW h \in Handlers, SignIn(h), NEW i \in Invites
    PROVE  Dies(i)
<1>1. SUFFICES ASSUME ~ActiveAdministrator(invites[i].by)
               PROVE  /\ Redeeming(i)' \subseteq Redeeming(i)
                      /\ Redeeming(i) = {} => invites'[i].used = invites[i].used
  BY DEF Dies
<1>2. Redeeming(i)' \subseteq Redeeming(i)
  BY <1>1, OnlyReadingRedeems DEF Redeeming, InviterStands
<1>3. Redeeming(i) = {} => invites'[i].used = invites[i].used
  <2>1. ASSUME RedeemInvite(h), handler[h].invite # i
        PROVE  invites'[i].used = invites[i].used
    BY <2>1, Types DEF RedeemInvite
  <2>2. ASSUME RedeemInvite(h), handler[h].invite = i  PROVE Redeeming(i) # {}
    BY <2>2 DEF RedeemInvite, Redeeming
  <2>3. ASSUME ~RedeemInvite(h)  PROVE invites' = invites
    BY <2>3 DEF SignIn, Callback, Bearer, ProviderAnswers, FindByIdentity, FindByEmail,
                FindInvite, CountMembers, AdmitOnLogin, BindIdentity, IssueSession, Fail
  <2>4. QED
    BY <2>1, <2>2, <2>3
<1>4. QED
  BY <1>2, <1>3

\* The other steps move no request and count no use.
LEMMA OthersDie ==
    ASSUME UNCHANGED handler, NEW i \in Invites,
           invites[i].st # "none" => invites'[i].used = invites[i].used
    PROVE  Dies(i)
BY DEF Dies, Redeeming

LEMMA DiesStep ==
    ASSUME TypeOK, [Next]_vars, NEW i \in Invites
    PROVE  Dies(i)
<1>1. ASSUME Administer
      PROVE  UNCHANGED handler /\ (invites[i].st # "none" => invites'[i].used = invites[i].used)
  <2>1. ASSUME NEW by, NEW e, NEW r, AdmitMember(by, e, r)
        PROVE  UNCHANGED <<handler, invites>>
    BY <2>1 DEF AdmitMember
  <2>2. ASSUME NEW by, NEW m, DeactivateMember(by, m)  PROVE UNCHANGED <<handler, invites>>
    BY <2>2 DEF DeactivateMember
  <2>3. ASSUME NEW by, NEW j \in Invites, NEW e, NEW r, NEW n, CreateInvite(by, j, e, r, n)
        PROVE  UNCHANGED handler /\ (invites[i].st # "none" => invites'[i].used = invites[i].used)
    BY <2>3, Types DEF CreateInvite
  <2>4. ASSUME NEW by, NEW j \in Invites, RevokeInvite(by, j)
        PROVE  UNCHANGED handler /\ invites'[i].used = invites[i].used
    BY <2>4, Types DEF RevokeInvite, InviteRows
  <2>5. QED
    BY <1>1, <2>1, <2>2, <2>3, <2>4 DEF Administer
<1>2. ASSUME NEW a \in Attempts, NEW j, NEW local, StartLogin(a, j, local)
      PROVE  UNCHANGED <<handler, invites>>
  BY <1>2 DEF StartLogin
<1>3. ASSUME NEW a \in Attempts, ExpireAttempt(a)  PROVE UNCHANGED <<handler, invites>>
  BY <1>3 DEF ExpireAttempt
<1>4. ASSUME NEW j \in Invites, ExpireInvite(j)
      PROVE  UNCHANGED handler /\ invites'[i].used = invites[i].used
  BY <1>4, Types DEF ExpireInvite, InviteRows
<1>5. ASSUME UNCHANGED vars  PROVE UNCHANGED <<handler, invites>>
  BY <1>5 DEF vars
<1>6. QED
  BY <1>1, <1>2, <1>3, <1>4, <1>5, SignInDies, OthersDie DEF Next

\* redeemInvite reads the inviter before its transaction: once the inviter is
\* deactivated no sign-in joins the ones that had read it before, and without
\* one of those the invite admits nobody.
THEOREM InviteDies == Spec => InviteDiesWithInviter
<1> DEFINE A == \A i \in Invites : Dies(i)
<1>1. MembershipInv /\ [Next]_vars => A
  BY DiesStep DEF MembershipInv
<1>2. InviteDiesWithInviter <=> [][A]_vars
  BY DEF InviteDiesWithInviter, Dies
<1> HIDE DEF A
<1>3. QED
  BY <1>1, <1>2, MembershipInvariant, PTL DEF Spec

==============================================================================
