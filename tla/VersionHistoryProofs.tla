------------------------- MODULE VersionHistoryProofs -------------------------
(***************************************************************************)
(* What VersionHistory promises for any number of artifacts, versions,     *)
(* keys and overlapping commands, on every store: the rows form a history, *)
(* a key takes effect once, saved versions do not change, and the          *)
(* operations implement AcceptedHistory.                                   *)
(***************************************************************************)
EXTENDS VersionHistory, TLAPS, FiniteSetTheorems

Operations == Publishing \cup Closing
                \cup {"promote", "restore", "access", "rename", "tags", "delete"}

CommandRows ==
    [op : Operations, key : Keys \cup {None}, art : Artifacts, exp : Versions \cup {None},
     arg : Versions \cup BOOLEAN \cup Names \cup {None}, at : {"checked", "read"},
     num : Nat, from : BOOLEAN]

\* What a command carries, according to its operation.
Formed(c) ==
    /\ c \in CommandRows
    /\ c.op \in Publishing \cup Closing \cup {"promote", "restore"} => c.arg \in Versions
    /\ c.op = "access" => c.arg \in BOOLEAN
    /\ c.op \in {"rename", "tags"} => c.arg \in Names
    /\ c.op \in {"access", "rename", "tags", "delete"} => c.exp \in Versions

\* What the reads of a command on D1 are still good for when it writes: its number
\* was the next one, and may have been taken since; accepted history stays.
StillGood(c) ==
    /\ NumberFor(c) \in 1..(Cardinality(VersionsOf(c.art)) + 1)
    /\ c.op = "restore" => Restorable(c.arg, c.art)

CallsSound == \A c \in calls : Formed(c) /\ (D1 /\ c.at = "read" => StillGood(c))

\* A version belongs to an artifact that exists or was deleted, and an artifact
\* that does not exist has no row.
RowsSound ==
    /\ \A v \in Versions : version[v].st # "none" =>
          version[v].art \in Artifacts /\ artifact[version[v].art].st # "none"
    /\ \A a \in Artifacts : artifact[a].st = "none" => artifact[a] = NoArtifact

\* A key without a record has had no effect, and one with a record had one.
EffectsRecorded ==
    \A k \in Keys : effects[k] <= 1 /\ (receipt[k] = None => effects[k] = 0)

HistoryInv ==
    TypeOK /\ CallsSound /\ RowsSound /\ CurrentIsAccepted /\ NumbersAreGapless /\ EffectsRecorded

-----------------------------------------------------------------------------
(* Numbers and rows                                                        *)

\* The versions of an artifact are finitely many.
LEMMA VersionsFinite ==
  ASSUME NEW a
  PROVE  /\ IsFiniteSet(VersionsOf(a))
         /\ Cardinality(VersionsOf(a)) \in Nat
         /\ Cardinality(Versions) \in Nat
         /\ Cardinality(VersionsOf(a)) <= Cardinality(Versions)
  <1>1. VersionsOf(a) \in SUBSET Versions
    BY DEF VersionsOf
  <1>2. IsFiniteSet(Versions)
    BY HistoryNames DEF HistoryNames
  <1> QED
    BY <1>1, <1>2, FS_Subset, FS_CardinalityType

\* Where numbers have no gap the next number is one more than there are versions.
LEMMA NextNumberCounts ==
  ASSUME NumbersAreGapless, NEW a \in Artifacts
  PROVE  NextNumber(a) = Cardinality(VersionsOf(a)) + 1
  <1> DEFINE k == Cardinality(VersionsOf(a))
  <1>1. k \in Nat /\ Cardinality(Versions) \in Nat /\ k <= Cardinality(Versions)
    BY VersionsFinite
  <1>2. NumbersOf(a) = 1..k
    BY DEF NumbersAreGapless
  <1> HIDE DEF k
  <1>3. IsNextNumber(k + 1, a) /\ k + 1 \in Numbers
    BY <1>1, <1>2 DEF IsNextNumber, Numbers
  <1>4. \A n \in Numbers : IsNextNumber(n, a) => n = k + 1
    BY <1>1, <1>2 DEF IsNextNumber, Numbers
  <1>5. NextNumber(a) = k + 1
    BY <1>3, <1>4 DEF NextNumber
  <1> QED
    BY <1>5 DEF k

\* ... and as many numbers as versions are one each.
LEMMA NumbersUnique ==
  ASSUME NumbersAreGapless, NEW a \in Artifacts, NEW u \in VersionsOf(a), NEW v \in VersionsOf(a),
         version[u].num = version[v].num
  PROVE  u = v
  <1> DEFINE S == VersionsOf(a)
             c == Cardinality(S)
             f == [x \in S |-> version[x].num]
  <1>1. IsFiniteSet(S) /\ c \in Nat
    BY VersionsFinite
  <1>2. NumbersOf(a) = 1..c
    BY DEF NumbersAreGapless
  <1>3. f \in Surjection(S, 1..c)
    <2>1. \A x \in S : version[x].num \in 1..c
      BY <1>2 DEF NumbersOf
    <2>2. \A n \in 1..c : \E x \in S : version[x].num = n
      BY <1>2 DEF NumbersOf
    <2> QED
      BY <2>1, <2>2 DEF Surjection
  <1>4. Cardinality(1..c) = c
    <2> HIDE DEF c
    <2> QED
      BY <1>1, FS_Interval
  <1>5. f \in Injection(S, 1..c)
    <2>1. \A g \in Surjection(S, 1..c) : Cardinality(1..c) = Cardinality(S) => g \in Injection(S, 1..c)
      BY <1>1, FS_Surjection
    <2> QED
      BY <1>3, <1>4, <2>1
  <1> QED
    BY <1>5 DEF Injection, IsInjective

\* One row of a table is written.
LEMMA RowWritten ==
  ASSUME NEW S, NEW R, NEW f \in [S -> R], NEW x \in S, NEW row \in R, NEW g, g = [f EXCEPT ![x] = row]
  PROVE  g \in [S -> R] /\ g[x] = row /\ \A y \in S : y # x => g[y] = f[y]
  OBVIOUS

\* Current moves to v.
LEMMA CurrentWritten ==
  ASSUME TypeOK, NEW a \in Artifacts, NEW v \in Versions, artifact' = [artifact EXCEPT ![a].cur = v]
  PROVE  /\ artifact' \in [Artifacts -> ArtifactRows]
         /\ artifact'[a].cur = v /\ artifact'[a].st = artifact[a].st
         /\ \A x \in Artifacts : x # a => artifact'[x] = artifact[x]
  <1>1. PICK row : row = [artifact[a] EXCEPT !.cur = v]
    OBVIOUS
  <1>2. artifact \in [Artifacts -> ArtifactRows] /\ artifact[a] \in ArtifactRows
    BY DEF TypeOK
  <1>3. row \in ArtifactRows /\ row.cur = v /\ row.st = artifact[a].st
    BY <1>1, <1>2 DEF ArtifactRows
  <1>4. artifact' = [artifact EXCEPT ![a] = row]
    BY <1>1
  <1> QED
    BY <1>2, <1>3, <1>4, RowWritten

\* A row that is filled joins the versions of its artifact, with its number.
LEMMA RowAdded ==
  ASSUME TypeOK, NEW v \in Versions, NEW row \in VersionRows, row.st # "none", version[v].st = "none",
         version' = [version EXCEPT ![v] = row]
  PROVE  /\ version' \in [Versions -> VersionRows]
         /\ v \notin VersionsOf(row.art)
         /\ \A x : VersionsOf(x)' = IF x = row.art THEN VersionsOf(x) \cup {v} ELSE VersionsOf(x)
         /\ \A x : NumbersOf(x)' = IF x = row.art THEN NumbersOf(x) \cup {row.num} ELSE NumbersOf(x)
         /\ \A w \in Versions : w # v => version'[w] = version[w]
         /\ version'[v] = row
  <1>1. version \in [Versions -> VersionRows]
    BY DEF TypeOK
  <1>2. /\ version' \in [Versions -> VersionRows] /\ version'[v] = row
        /\ \A w \in Versions : w # v => version'[w] = version[w]
    BY <1>1
  <1>3. v \notin VersionsOf(row.art)
    BY DEF VersionsOf
  <1>4. ASSUME NEW x
        PROVE  VersionsOf(x)' = IF x = row.art THEN VersionsOf(x) \cup {v} ELSE VersionsOf(x)
    BY <1>2 DEF VersionsOf
  <1>5. ASSUME NEW x
        PROVE  NumbersOf(x)' = IF x = row.art THEN NumbersOf(x) \cup {row.num} ELSE NumbersOf(x)
    <2>1. \A w \in VersionsOf(x) : w \in Versions /\ w # v
      BY DEF VersionsOf
    <2> QED
      BY <1>2, <1>4, <2>1 DEF NumbersOf
  <1> QED
    BY <1>2, <1>3, <1>4, <1>5

LEMMA VersionAdded ==
  ASSUME TypeOK, NEW a \in Artifacts, NEW v \in Versions, NEW st \in {"mainline", "candidate"},
         NEW n \in Nat, NEW b \in Versions \cup {None},
         version[v].st = "none",
         version' = [version EXCEPT ![v] = [st |-> st, art |-> a, num |-> n, base |-> b]]
  PROVE  /\ version' \in [Versions -> VersionRows]
         /\ v \notin VersionsOf(a)
         /\ \A x : VersionsOf(x)' = IF x = a THEN VersionsOf(a) \cup {v} ELSE VersionsOf(x)
         /\ \A x : NumbersOf(x)' = IF x = a THEN NumbersOf(a) \cup {n} ELSE NumbersOf(x)
         /\ \A w \in Versions : w # v => version'[w] = version[w]
         /\ version'[v] = [st |-> st, art |-> a, num |-> n, base |-> b]
  <1>1. PICK row : row = [st |-> st, art |-> a, num |-> n, base |-> b]
    OBVIOUS
  <1>2. row \in VersionRows /\ row.st # "none" /\ row.art = a /\ row.num = n
    BY <1>1 DEF VersionRows
  <1>3. version' = [version EXCEPT ![v] = row]
    BY <1>1
  <1>4. /\ version' \in [Versions -> VersionRows]
        /\ v \notin VersionsOf(row.art)
        /\ \A x : VersionsOf(x)' = IF x = row.art THEN VersionsOf(x) \cup {v} ELSE VersionsOf(x)
        /\ \A x : NumbersOf(x)' = IF x = row.art THEN NumbersOf(x) \cup {row.num} ELSE NumbersOf(x)
        /\ \A w \in Versions : w # v => version'[w] = version[w]
        /\ version'[v] = row
    BY <1>2, <1>3, RowAdded
  <1> QED
    BY <1>1, <1>2, <1>4

\* A change of state of a saved version leaves the versions and numbers alone.
LEMMA VersionMoved ==
  ASSUME TypeOK, NEW v \in Versions, NEW st \in {"promoted", "rejected", "superseded"},
         version[v].st = "candidate",
         version' = [version EXCEPT ![v].st = st]
  PROVE  /\ version' \in [Versions -> VersionRows]
         /\ \A x : VersionsOf(x)' = VersionsOf(x)
         /\ \A x : NumbersOf(x)' = NumbersOf(x)
         /\ \A w \in Versions : w # v => version'[w] = version[w]
         /\ version'[v] = [version[v] EXCEPT !.st = st]
         /\ <<version'[v].art, version'[v].num, version'[v].base>>
              = <<version[v].art, version[v].num, version[v].base>>
         /\ version'[v].st = st
  <1>1. version' \in [Versions -> VersionRows]
    BY DEF TypeOK, VersionRows
  <1>2. /\ \A w \in Versions : w # v => version'[w] = version[w]
        /\ version'[v] = [version[v] EXCEPT !.st = st]
    BY DEF TypeOK
  <1>3. /\ version'[v].art = version[v].art /\ version'[v].num = version[v].num
        /\ version'[v].base = version[v].base /\ version'[v].st = st
    BY <1>2 DEF TypeOK, VersionRows
  <1>4. ASSUME NEW x
        PROVE  VersionsOf(x)' = VersionsOf(x)
    BY <1>2, <1>3 DEF VersionsOf
  <1>5. ASSUME NEW x
        PROVE  NumbersOf(x)' = NumbersOf(x)
    <2>1. \A w \in VersionsOf(x) : w \in Versions /\ version'[w].num = version[w].num
      BY <1>2, <1>3 DEF VersionsOf
    <2> QED
      BY <1>4, <2>1 DEF NumbersOf
  <1> QED
    BY <1>1, <1>2, <1>3, <1>4, <1>5

-----------------------------------------------------------------------------
(* Commands                                                                *)

\* A command that a client sends carries what its operation needs.
LEMMA CommandsFormed ==
  ASSUME NEW c \in Commands
  PROVE  Formed(c) /\ c.at = "checked"
  <1> DEFINE Used == {v \in Versions : version[v].st # "none"}
             Fresh == Versions \ Used
             Deciding == {"promote"} \cup Closing
             For(ops, exp, arg) ==
               {Command(op, k, a, e, x) : op \in Ops \cap ops, k \in Keys \cup {None},
                                          a \in Artifacts, e \in exp, x \in arg}
  <1>1. \/ c \in For({"create"}, {None}, Fresh) \/ c \in For({"publish", "stage"}, Used, Fresh)
        \/ c \in For(Deciding, {None}, Used) \/ c \in For({"restore"}, Used, Used)
        \/ c \in For({"access"}, Used, BOOLEAN) \/ c \in For({"rename", "tags"}, Used, Names)
        \/ c \in For({"delete"}, Used, {None})
    BY DEF Commands
  <1>2. ASSUME NEW ops, NEW exp, NEW arg, c \in For(ops, exp, arg)
        PROVE  \E op \in ops, k \in Keys \cup {None}, a \in Artifacts, e \in exp, x \in arg :
                  c = Command(op, k, a, e, x)
    BY <1>2
  <1> HIDE DEF For, Deciding
  <1>3. CASE c \in For({"create"}, {None}, Fresh)
    <2> PICK op \in {"create"}, k \in Keys \cup {None}, a \in Artifacts, e \in {None}, x \in Fresh :
               c = Command(op, k, a, e, x)
      BY <1>2, <1>3
    <2> QED
      BY DEF Formed, CommandRows, Command, Operations, Publishing, Closing
  <1>4. CASE c \in For({"publish", "stage"}, Used, Fresh)
    <2> PICK op \in {"publish", "stage"}, k \in Keys \cup {None}, a \in Artifacts, e \in Used, x \in Fresh :
               c = Command(op, k, a, e, x)
      BY <1>2, <1>4
    <2> QED
      BY DEF Formed, CommandRows, Command, Operations, Publishing, Closing
  <1>5. CASE c \in For(Deciding, {None}, Used)
    <2> PICK op \in Deciding, k \in Keys \cup {None}, a \in Artifacts, e \in {None}, x \in Used :
               c = Command(op, k, a, e, x)
      BY <1>2, <1>5
    <2> QED
      BY DEF Deciding, Formed, CommandRows, Command, Operations, Publishing, Closing
  <1>6. CASE c \in For({"restore"}, Used, Used)
    <2> PICK op \in {"restore"}, k \in Keys \cup {None}, a \in Artifacts, e \in Used, x \in Used :
               c = Command(op, k, a, e, x)
      BY <1>2, <1>6
    <2> QED
      BY DEF Formed, CommandRows, Command, Operations, Publishing, Closing
  <1>7. CASE c \in For({"access"}, Used, BOOLEAN)
    <2> PICK op \in {"access"}, k \in Keys \cup {None}, a \in Artifacts, e \in Used, x \in BOOLEAN :
               c = Command(op, k, a, e, x)
      BY <1>2, <1>7
    <2> QED
      BY DEF Formed, CommandRows, Command, Operations, Publishing, Closing
  <1>8. CASE c \in For({"rename", "tags"}, Used, Names)
    <2> PICK op \in {"rename", "tags"}, k \in Keys \cup {None}, a \in Artifacts, e \in Used, x \in Names :
               c = Command(op, k, a, e, x)
      BY <1>2, <1>8
    <2> QED
      BY DEF Formed, CommandRows, Command, Operations, Publishing, Closing
  <1>9. CASE c \in For({"delete"}, Used, {None})
    <2> PICK op \in {"delete"}, k \in Keys \cup {None}, a \in Artifacts, e \in Used, x \in {None} :
               c = Command(op, k, a, e, x)
      BY <1>2, <1>9
    <2> QED
      BY DEF Formed, CommandRows, Command, Operations, Publishing, Closing
  <1> QED
    BY <1>1, <1>3, <1>4, <1>5, <1>6, <1>7, <1>8, <1>9

\* What a command that writes stands on, whatever the store.
LEMMA ReadyStillGood ==
  ASSUME HistoryInv, NEW c, c \in calls \/ (~D1 /\ c \in Commands), Ready(c)
  PROVE  Formed(c) /\ StillGood(c)
  <1>1. Formed(c)
    BY CommandsFormed DEF HistoryInv, CallsSound
  <1>2. CASE D1
    BY <1>2 DEF HistoryInv, CallsSound, Ready
  <1>3. CASE ~D1
    <2>1. c.art \in Artifacts
      BY <1>1 DEF Formed, CommandRows
    <2>2. NumberFor(c) = Cardinality(VersionsOf(c.art)) + 1
      BY <1>3, <2>1, NextNumberCounts DEF NumberFor, HistoryInv
    <2>3. Cardinality(VersionsOf(c.art)) \in Nat
      BY VersionsFinite
    <2>4. c.op = "restore" => Restorable(c.arg, c.art)
      BY <1>3 DEF Ready, Permitted, Publishing, Closing
    <2> QED
      BY <1>1, <2>2, <2>3, <2>4 DEF StillGood
  <1> QED
    BY <1>1, <1>2, <1>3

-----------------------------------------------------------------------------
(* Parts of the invariant                                                  *)

\* What no write undoes: a saved version stays saved, with its artifact, and
\* accepted history stays accepted.
Grows ==
    \A v \in Versions : version[v].st # "none" =>
       /\ version'[v].st # "none" /\ version'[v].art = version[v].art
       /\ Accepted(v) => version'[v].st \in AcceptedStates

\* Commands in flight keep what their reads are good for while history grows.
LEMMA CallsKept ==
  ASSUME HistoryInv, Grows, NEW c \in calls'
  PROVE  c \in calls => Formed(c) /\ (D1 /\ c.at = "read" => StillGood(c)')
  <1> SUFFICES ASSUME c \in calls, D1, c.at = "read"
               PROVE  StillGood(c)'
    BY DEF HistoryInv, CallsSound
  <1>1. Formed(c) /\ StillGood(c)
    BY DEF HistoryInv, CallsSound
  <1> DEFINE S == VersionsOf(c.art)
             T == VersionsOf(c.art)'
  <1>2. S \in SUBSET T /\ T \in SUBSET Versions
    BY DEF VersionsOf, Grows
  <1>3. IsFiniteSet(Versions)
    BY HistoryNames DEF HistoryNames
  <1>4. IsFiniteSet(S) /\ IsFiniteSet(T) /\ Cardinality(S) <= Cardinality(T)
    BY <1>2, <1>3, FS_Subset
  <1>5. Cardinality(S) \in Nat /\ Cardinality(T) \in Nat
    BY <1>4, FS_CardinalityType
  <1>6. c.num \in 1..(Cardinality(S) + 1)
    BY <1>1 DEF StillGood, NumberFor
  <1>7. c.num \in 1..(Cardinality(T) + 1)
    BY <1>4, <1>5, <1>6
  <1>8. c.op = "restore" => Restorable(c.arg, c.art)'
    BY <1>1 DEF StillGood, Restorable, Accepted, Grows, AcceptedStates, Formed
  <1> QED
    BY <1>7, <1>8 DEF StillGood, NumberFor

\* A write takes its command out of flight.
LEMMA CallsSoundAfter ==
  ASSUME HistoryInv, Grows, calls' \subseteq calls
  PROVE  CallsSound'
  BY CallsKept DEF CallsSound, StillGood, Formed

\* The record of a key is written with its first and only effect.
LEMMA RecordOnce ==
  ASSUME HistoryInv, NEW c, Formed(c), NEW v \in Versions, Record(c, v)
  PROVE  /\ EffectsRecorded'
         /\ receipt' \in [Keys -> Versions \cup {None}] /\ effects' \in [Keys -> Nat]
         /\ calls' \subseteq calls
  <1>1. c.key \in Keys \cup {None} /\ None \notin Versions
    BY HistoryNames DEF Formed, CommandRows, HistoryNames
  <1>2. receipt \in [Keys -> Versions \cup {None}] /\ effects \in [Keys -> Nat]
    BY DEF HistoryInv, TypeOK
  <1>3. CASE c.key = None
    BY <1>2, <1>3 DEF Record, HistoryInv, EffectsRecorded
  <1>4. CASE c.key # None
    <2>1. c.key \in Keys /\ receipt[c.key] = None /\ effects[c.key] = 0
      BY <1>1, <1>4 DEF Record, Unrecorded, Unused, HistoryInv, EffectsRecorded
    <2>2. /\ receipt' = [receipt EXCEPT ![c.key] = v]
          /\ effects' = [effects EXCEPT ![c.key] = effects[c.key] + 1]
      BY <1>4 DEF Record
    <2> QED
      BY <1>1, <1>2, <2>1, <2>2 DEF Record, HistoryInv, EffectsRecorded
  <1> QED
    BY <1>3, <1>4

\* Numbers stay gapless when a version takes the next number.
LEMMA GaplessAdded ==
  ASSUME HistoryInv, NEW a \in Artifacts, NEW v \in Versions, NEW n \in Nat,
         v \notin VersionsOf(a), n = Cardinality(VersionsOf(a)) + 1,
         \A x : VersionsOf(x)' = IF x = a THEN VersionsOf(a) \cup {v} ELSE VersionsOf(x),
         \A x : NumbersOf(x)' = IF x = a THEN NumbersOf(a) \cup {n} ELSE NumbersOf(x)
  PROVE  NumbersAreGapless'
  <1> DEFINE k == Cardinality(VersionsOf(a))
  <1>1. k \in Nat /\ IsFiniteSet(VersionsOf(a))
    BY VersionsFinite
  <1>2. Cardinality(VersionsOf(a) \cup {v}) = k + 1
    BY <1>1, FS_AddElement
  <1>3. NumbersOf(a) = 1..k
    BY DEF HistoryInv, NumbersAreGapless
  <1>4. NumbersOf(a)' = 1..(k + 1) /\ Cardinality(VersionsOf(a)') = k + 1
    <2>1. (1..k) \cup {k + 1} = 1..(k + 1)
      BY <1>1
    <2> QED
      BY <1>2, <1>3, <2>1
  <1>5. ASSUME NEW x \in Artifacts, x # a
        PROVE  NumbersOf(x)' = 1..Cardinality(VersionsOf(x)')
    BY <1>5 DEF HistoryInv, NumbersAreGapless
  <1> QED
    BY <1>4, <1>5 DEF NumbersAreGapless

\* Numbers stay gapless when no version is added.
LEMMA GaplessKept ==
  ASSUME HistoryInv, \A x : VersionsOf(x)' = VersionsOf(x), \A x : NumbersOf(x)' = NumbersOf(x)
  PROVE  NumbersAreGapless'
  BY DEF HistoryInv, NumbersAreGapless

\* Both, for a step that leaves the versions alone.
LEMMA VersionsKept ==
  ASSUME HistoryInv, version' = version
  PROVE  /\ Grows /\ NumbersAreGapless'
         /\ \A x : VersionsOf(x)' = VersionsOf(x)
  <1>1. \A x : VersionsOf(x)' = VersionsOf(x) /\ NumbersOf(x)' = NumbersOf(x)
    BY DEF VersionsOf, NumbersOf
  <1> QED
    BY <1>1, GaplessKept DEF Grows, Accepted

\* Current stays accepted where one artifact moves to an accepted version of its own
\* and history grows.
LEMMA CurrentAfter ==
  ASSUME HistoryInv, Grows, NEW a \in Artifacts,
         \A x \in Artifacts : x # a => artifact'[x] = artifact[x],
         artifact'[a].cur \in Versions,
         version'[artifact'[a].cur].st \in AcceptedStates, version'[artifact'[a].cur].art = a
  PROVE  CurrentIsAccepted'
  <1> SUFFICES ASSUME NEW x \in Artifacts, artifact'[x].st # "none"
               PROVE  /\ artifact'[x].cur \in Versions
                      /\ version'[artifact'[x].cur].st \in AcceptedStates
                      /\ version'[artifact'[x].cur].art = x
    BY DEF CurrentIsAccepted, VersionsOf, Accepted, AcceptedStates
  <1>1. CASE x = a
    BY <1>1
  <1>2. CASE x # a
    BY <1>2 DEF HistoryInv, CurrentIsAccepted, VersionsOf, Grows, Accepted, AcceptedStates
  <1> QED
    BY <1>1, <1>2

\* In particular where no artifact moves.
LEMMA CurrentKept ==
  ASSUME HistoryInv, Grows,
         \A x \in Artifacts : artifact'[x].st # "none" =>
            artifact[x].st # "none" /\ artifact'[x].cur = artifact[x].cur
  PROVE  CurrentIsAccepted'
  <1> SUFFICES ASSUME NEW x \in Artifacts, artifact'[x].st # "none"
               PROVE  /\ artifact'[x].cur \in Versions
                      /\ version'[artifact'[x].cur].st \in AcceptedStates
                      /\ version'[artifact'[x].cur].art = x
    BY DEF CurrentIsAccepted, VersionsOf, Accepted, AcceptedStates
  <1> QED
    BY DEF HistoryInv, CurrentIsAccepted, VersionsOf, Grows, Accepted, AcceptedStates

\* Queued jobs are jobs.
LEMMA MirrorQueuedType ==
  ASSUME TypeOK, NEW v \in Versions
  PROVE  MirrorQueued(v) \in [Versions \cup Artifacts -> JobRows]
  BY DEF TypeOK, MirrorQueued, JobRows

\* So are those that a deletion leaves.
LEMMA JobsAfterDeleteType ==
  ASSUME TypeOK, NEW a \in Artifacts
  PROVE  JobsAfterDelete(a) \in [Versions \cup Artifacts -> JobRows]
  <1> SUFFICES ASSUME NEW j \in Versions \cup Artifacts
               PROVE  /\ [job[j] EXCEPT !.st = "queued"] \in JobRows
                      /\ [job[j] EXCEPT !.st = "done", !.live = FALSE] \in JobRows
                      /\ job[j] \in JobRows
    BY DEF JobsAfterDelete
  <1>1. job[j] \in JobRows
    BY DEF TypeOK
  <1> QED
    BY <1>1 DEF JobRows

-----------------------------------------------------------------------------
(* The writes keep the invariant                                           *)

\* A new artifact and its first version.
LEMMA CommitNewArtifactInv ==
  ASSUME HistoryInv, NEW c, Formed(c), NEW public \in BOOLEAN, CommitNewArtifact(c, public)
  PROVE  HistoryInv'
  <1> DEFINE a == c.art
             v == c.arg
             n == CHOOSE x \in Names : TRUE
             row == [st |-> "live", cur |-> v, public |-> public, name |-> n, tags |-> n]
  <1>1. a \in Artifacts /\ v \in Versions /\ n \in Names
    BY HistoryNames DEF Formed, CommandRows, CommitNewArtifact, Publishing, HistoryNames
  <1>2. /\ artifact[a].st = "none" /\ version[v].st = "none"
        /\ artifact' = [artifact EXCEPT ![a] = row]
        /\ version' = [version EXCEPT ![v] = [st |-> "mainline", art |-> a, num |-> 1, base |-> None]]
        /\ linked' = [linked EXCEPT ![a] = LinkAction(FALSE, public, linked[a])]
        /\ job' = MirrorQueued(v) /\ Record(c, v) /\ UNCHANGED <<archived, mirroring, repo>>
    BY DEF CommitNewArtifact, settings
  <1> HIDE DEF n
  <1>3. TypeOK
    BY DEF HistoryInv
  <1>4. /\ version' \in [Versions -> VersionRows]
        /\ v \notin VersionsOf(a)
        /\ \A x : VersionsOf(x)' = IF x = a THEN VersionsOf(a) \cup {v} ELSE VersionsOf(x)
        /\ \A x : NumbersOf(x)' = IF x = a THEN NumbersOf(a) \cup {1} ELSE NumbersOf(x)
        /\ \A w \in Versions : w # v => version'[w] = version[w]
        /\ version'[v] = [st |-> "mainline", art |-> a, num |-> 1, base |-> None]
    BY <1>1, <1>2, <1>3, VersionAdded
  <1>5. VersionsOf(a) = {}
    BY <1>1, <1>2 DEF VersionsOf, HistoryInv, RowsSound
  <1>6. NumbersAreGapless'
    <2>1. Cardinality(VersionsOf(a)) = 0 /\ 1 = 0 + 1
      BY <1>5, FS_EmptySet
    <2> QED
      BY <1>1, <1>4, <2>1, GaplessAdded
  <1>7. Grows
    BY <1>2, <1>4 DEF Grows, Accepted
  <1>8. EffectsRecorded' /\ CallsSound' /\ receipt' \in [Keys -> Versions \cup {None}] /\ effects' \in [Keys -> Nat]
    BY <1>1, <1>2, <1>7, RecordOnce, CallsSoundAfter
  <1>9. artifact' \in [Artifacts -> ArtifactRows] /\ linked' \in [Artifacts -> {"enable", "disable"}]
    <2>1. row \in ArtifactRows
      BY <1>1 DEF ArtifactRows
    <2>2. LinkAction(FALSE, public, linked[a]) \in {"enable", "disable"}
      BY <1>1, <1>3 DEF LinkAction, TypeOK
    <2> QED
      BY <1>1, <1>2, <1>3, <2>1, <2>2 DEF TypeOK
  <1>10. TypeOK'
    BY <1>1, <1>2, <1>3, <1>4, <1>8, <1>9, MirrorQueuedType DEF TypeOK
  <1>11. artifact'[a] = row /\ \A x \in Artifacts : x # a => artifact'[x] = artifact[x]
    BY <1>1, <1>2, <1>3 DEF TypeOK
  <1>12. RowsSound'
    BY <1>1, <1>4, <1>11 DEF HistoryInv, RowsSound
  <1>13. CurrentIsAccepted'
    BY <1>1, <1>4, <1>7, <1>11, CurrentAfter DEF AcceptedStates
  <1> QED
    BY <1>6, <1>8, <1>10, <1>12, <1>13 DEF HistoryInv

\* The number that a publisher read is the next one if nobody has taken it since.
LEMMA NumberIsNext ==
  ASSUME HistoryInv, NEW c, Formed(c), StillGood(c), NumberFree(c)
  PROVE  NumberFor(c) = Cardinality(VersionsOf(c.art)) + 1 /\ NumberFor(c) \in Nat
  <1>1. c.art \in Artifacts
    BY DEF Formed, CommandRows
  <1>2. NumbersOf(c.art) = 1..Cardinality(VersionsOf(c.art))
    BY <1>1 DEF HistoryInv, NumbersAreGapless
  <1>3. Cardinality(VersionsOf(c.art)) \in Nat
    BY VersionsFinite
  <1>4. NumberFor(c) \in 1..(Cardinality(VersionsOf(c.art)) + 1)
    BY DEF StillGood
  <1> QED
    BY <1>2, <1>3, <1>4 DEF NumberFree

\* A new version becomes current.
LEMMA CommitVersionInv ==
  ASSUME HistoryInv, NEW c, Formed(c), StillGood(c), CommitVersion(c)
  PROVE  HistoryInv'
  <1> DEFINE a == c.art
             v == c.arg
  <1>1. a \in Artifacts /\ v \in Versions
    BY DEF Formed, CommandRows, CommitVersion, Publishing
  <1>2. /\ artifact[a].st = "live" /\ version[v].st = "none"
        /\ artifact' = [artifact EXCEPT ![a].cur = v]
        /\ version' = [version EXCEPT ![v] = [st |-> "mainline", art |-> a, num |-> NumberFor(c), base |-> None]]
        /\ job' = MirrorQueued(v) /\ Record(c, v) /\ UNCHANGED <<archived, mirroring, linked, repo>>
    BY DEF CommitVersion, settings, Current, Live
  <1>3. TypeOK
    BY DEF HistoryInv
  <1>4. PICK n \in Nat : n = NumberFor(c) /\ n = Cardinality(VersionsOf(a)) + 1
    BY NumberIsNext DEF CommitVersion
  <1>5. /\ version' \in [Versions -> VersionRows]
        /\ v \notin VersionsOf(a)
        /\ \A x : VersionsOf(x)' = IF x = a THEN VersionsOf(a) \cup {v} ELSE VersionsOf(x)
        /\ \A x : NumbersOf(x)' = IF x = a THEN NumbersOf(a) \cup {n} ELSE NumbersOf(x)
        /\ \A w \in Versions : w # v => version'[w] = version[w]
        /\ version'[v] = [st |-> "mainline", art |-> a, num |-> n, base |-> None]
    BY <1>1, <1>2, <1>3, <1>4, VersionAdded
  <1>6. NumbersAreGapless'
    BY <1>1, <1>4, <1>5, GaplessAdded
  <1>7. Grows
    BY <1>2, <1>5 DEF Grows, Accepted
  <1>8. /\ EffectsRecorded' /\ CallsSound'
        /\ receipt' \in [Keys -> Versions \cup {None}] /\ effects' \in [Keys -> Nat]
    BY <1>1, <1>2, <1>7, RecordOnce, CallsSoundAfter
  <1>9. /\ artifact' \in [Artifacts -> ArtifactRows]
        /\ artifact'[a].st = "live" /\ artifact'[a].cur = v
        /\ \A x \in Artifacts : x # a => artifact'[x] = artifact[x]
    BY <1>1, <1>2, <1>3, CurrentWritten
  <1>10. TypeOK'
    BY <1>1, <1>2, <1>3, <1>5, <1>8, <1>9, MirrorQueuedType DEF TypeOK
  <1>11. RowsSound'
    BY <1>1, <1>5, <1>9 DEF HistoryInv, RowsSound
  <1>12. CurrentIsAccepted'
    BY <1>1, <1>5, <1>7, <1>9, CurrentAfter DEF AcceptedStates
  <1> QED
    BY <1>6, <1>8, <1>10, <1>11, <1>12 DEF HistoryInv

\* A candidate joins the versions, and current stays.
LEMMA StageCandidateInv ==
  ASSUME HistoryInv, NEW c, Formed(c), StillGood(c), StageCandidate(c)
  PROVE  HistoryInv'
  <1> DEFINE a == c.art
             v == c.arg
  <1>1. a \in Artifacts /\ v \in Versions /\ c.exp \in Versions \cup {None}
    BY DEF Formed, CommandRows, StageCandidate, Publishing
  <1>2. /\ artifact[a].st = "live" /\ version[v].st = "none"
        /\ version' = [version EXCEPT ![v] = [st |-> "candidate", art |-> a, num |-> NumberFor(c), base |-> c.exp]]
        /\ Record(c, v) /\ UNCHANGED <<archived, mirroring, artifact, linked, job, repo>>
    BY DEF StageCandidate, settings, Current, Live
  <1>3. TypeOK
    BY DEF HistoryInv
  <1>4. PICK n \in Nat : n = NumberFor(c) /\ n = Cardinality(VersionsOf(a)) + 1
    BY NumberIsNext DEF StageCandidate
  <1>5. /\ version' \in [Versions -> VersionRows]
        /\ v \notin VersionsOf(a)
        /\ \A x : VersionsOf(x)' = IF x = a THEN VersionsOf(a) \cup {v} ELSE VersionsOf(x)
        /\ \A x : NumbersOf(x)' = IF x = a THEN NumbersOf(a) \cup {n} ELSE NumbersOf(x)
        /\ \A w \in Versions : w # v => version'[w] = version[w]
        /\ version'[v] = [st |-> "candidate", art |-> a, num |-> n, base |-> c.exp]
    <2>1. version' = [version EXCEPT ![v] = [st |-> "candidate", art |-> a, num |-> n, base |-> c.exp]]
      BY <1>2, <1>4
    <2>2. PICK row : row = [st |-> "candidate", art |-> a, num |-> n, base |-> c.exp]
      OBVIOUS
    <2>3. row \in VersionRows /\ row.st # "none" /\ row.art = a /\ row.num = n
      BY <1>1, <2>2 DEF VersionRows
    <2>4. version' = [version EXCEPT ![v] = row] /\ v \in Versions /\ version[v].st = "none"
      BY <1>1, <1>2, <2>1, <2>2
    <2>5. /\ version' \in [Versions -> VersionRows]
          /\ v \notin VersionsOf(row.art)
          /\ \A x : VersionsOf(x)' = IF x = row.art THEN VersionsOf(x) \cup {v} ELSE VersionsOf(x)
          /\ \A x : NumbersOf(x)' = IF x = row.art THEN NumbersOf(x) \cup {row.num} ELSE NumbersOf(x)
          /\ \A w \in Versions : w # v => version'[w] = version[w]
          /\ version'[v] = row
      BY <1>3, <2>3, <2>4, RowAdded
    <2> QED
      BY <2>2, <2>3, <2>5
  <1>6. NumbersAreGapless'
    BY <1>1, <1>4, <1>5, GaplessAdded
  <1>7. Grows
    BY <1>2, <1>5 DEF Grows, Accepted
  <1>8. /\ EffectsRecorded' /\ CallsSound'
        /\ receipt' \in [Keys -> Versions \cup {None}] /\ effects' \in [Keys -> Nat]
    BY <1>1, <1>2, <1>7, RecordOnce, CallsSoundAfter
  <1>9. TypeOK'
    BY <1>2, <1>3, <1>5, <1>8 DEF TypeOK
  <1>10. RowsSound'
    BY <1>1, <1>2, <1>5 DEF HistoryInv, RowsSound
  <1>11. CurrentIsAccepted'
    BY <1>2, <1>7, CurrentKept
  <1> QED
    BY <1>6, <1>8, <1>9, <1>10, <1>11 DEF HistoryInv

\* A candidate becomes current while its base is.
LEMMA PromoteCandidateInv ==
  ASSUME HistoryInv, NEW c, Formed(c), PromoteCandidate(c)
  PROVE  HistoryInv'
  <1> DEFINE a == c.art
             v == c.arg
  <1>1. a \in Artifacts /\ v \in Versions
    BY DEF Formed, CommandRows, PromoteCandidate
  <1>2. /\ artifact[a].st = "live" /\ version[v].st = "candidate" /\ version[v].art = a
        /\ artifact' = [artifact EXCEPT ![a].cur = v]
        /\ version' = [version EXCEPT ![v].st = "promoted"]
        /\ job' = MirrorQueued(v) /\ Record(c, v) /\ UNCHANGED <<archived, mirroring, linked, repo>>
    BY DEF PromoteCandidate, settings, OnBase, Live, OpenCandidate
  <1>3. TypeOK
    BY DEF HistoryInv
  <1>4. /\ version' \in [Versions -> VersionRows]
        /\ \A x : VersionsOf(x)' = VersionsOf(x)
        /\ \A x : NumbersOf(x)' = NumbersOf(x)
        /\ \A w \in Versions : w # v => version'[w] = version[w]
        /\ version'[v].art = a /\ version'[v].st = "promoted"
    BY <1>1, <1>2, <1>3, VersionMoved
  <1>5. NumbersAreGapless'
    BY <1>4, GaplessKept
  <1>6. Grows
    BY <1>2, <1>4 DEF Grows, Accepted, AcceptedStates
  <1>7. /\ EffectsRecorded' /\ CallsSound'
        /\ receipt' \in [Keys -> Versions \cup {None}] /\ effects' \in [Keys -> Nat]
    BY <1>1, <1>2, <1>6, RecordOnce, CallsSoundAfter
  <1>8. /\ artifact' \in [Artifacts -> ArtifactRows]
        /\ artifact'[a].st = "live" /\ artifact'[a].cur = v
        /\ \A x \in Artifacts : x # a => artifact'[x] = artifact[x]
    BY <1>1, <1>2, <1>3, CurrentWritten
  <1>9. TypeOK'
    BY <1>1, <1>2, <1>3, <1>4, <1>7, <1>8, MirrorQueuedType DEF TypeOK
  <1>10. RowsSound'
    BY <1>1, <1>2, <1>4, <1>8 DEF HistoryInv, RowsSound
  <1>11. CurrentIsAccepted'
    BY <1>1, <1>4, <1>6, <1>8, CurrentAfter DEF AcceptedStates
  <1> QED
    BY <1>5, <1>7, <1>9, <1>10, <1>11 DEF HistoryInv

\* A candidate is closed.
LEMMA CloseCandidateInv ==
  ASSUME HistoryInv, NEW c, Formed(c), CloseCandidate(c)
  PROVE  HistoryInv'
  <1> DEFINE v == c.arg
  <1>1. v \in Versions /\ c.op \in {"promoted", "rejected", "superseded"}
    BY DEF Formed, CloseCandidate, Closing
  <1>2. /\ version[v].st = "candidate" /\ version' = [version EXCEPT ![v].st = c.op]
        /\ Record(c, v) /\ UNCHANGED <<archived, mirroring, artifact, linked, job, repo>>
    BY DEF CloseCandidate, settings, OpenCandidate
  <1>3. TypeOK
    BY DEF HistoryInv
  <1>4. /\ version' \in [Versions -> VersionRows]
        /\ \A x : VersionsOf(x)' = VersionsOf(x)
        /\ \A x : NumbersOf(x)' = NumbersOf(x)
        /\ \A w \in Versions : w # v => version'[w] = version[w]
        /\ version'[v].art = version[v].art /\ version'[v].st = c.op
    BY <1>1, <1>2, <1>3, VersionMoved
  <1>5. NumbersAreGapless'
    BY <1>4, GaplessKept
  <1>6. Grows
    BY <1>1, <1>2, <1>4 DEF Grows, Accepted, AcceptedStates
  <1>7. /\ EffectsRecorded' /\ CallsSound'
        /\ receipt' \in [Keys -> Versions \cup {None}] /\ effects' \in [Keys -> Nat]
    BY <1>1, <1>2, <1>6, RecordOnce, CallsSoundAfter
  <1>8. TypeOK'
    BY <1>2, <1>3, <1>4, <1>7 DEF TypeOK
  <1>9. RowsSound'
    BY <1>1, <1>2, <1>4 DEF HistoryInv, RowsSound
  <1>10. CurrentIsAccepted'
    BY <1>2, <1>6, CurrentKept
  <1> QED
    BY <1>5, <1>7, <1>8, <1>9, <1>10 DEF HistoryInv

\* A write that changes one artifact row, and leaves the versions alone.
LEMMA ArtifactWriteInv ==
  ASSUME HistoryInv, NEW c, Formed(c), NEW v \in Versions, Record(c, v),
         Live(c.art), version' = version, archived' = archived, mirroring' = mirroring,
         artifact' \in [Artifacts -> ArtifactRows], artifact'[c.art].st # "none",
         artifact'[c.art].cur \in VersionsOf(c.art), Accepted(artifact'[c.art].cur),
         \A x \in Artifacts : x # c.art => artifact'[x] = artifact[x],
         linked' \in [Artifacts -> {"enable", "disable"}],
         job' \in [Versions \cup Artifacts -> JobRows],
         repo' \in [Artifacts -> {"none", "provisioned", "deleting", "deleted"}]
  PROVE  HistoryInv'
  <1>1. c.art \in Artifacts
    BY DEF Formed, CommandRows
  <1>2. Grows /\ NumbersAreGapless'
    BY VersionsKept
  <1>3. /\ EffectsRecorded' /\ CallsSound'
        /\ receipt' \in [Keys -> Versions \cup {None}] /\ effects' \in [Keys -> Nat]
    BY <1>2, RecordOnce, CallsSoundAfter
  <1>4. TypeOK'
    BY <1>3 DEF HistoryInv, TypeOK
  <1>5. RowsSound'
    BY <1>1 DEF HistoryInv, RowsSound
  <1>6. CurrentIsAccepted'
    BY <1>1, <1>2, CurrentAfter DEF VersionsOf, Accepted
  <1> QED
    BY <1>2, <1>3, <1>4, <1>5, <1>6 DEF HistoryInv

\* Current goes back to an accepted version.
LEMMA RestoreVersionInv ==
  ASSUME HistoryInv, NEW c, Formed(c), StillGood(c), RestoreVersion(c)
  PROVE  HistoryInv'
  <1>1. /\ c.art \in Artifacts /\ c.arg \in Versions /\ Live(c.art) /\ Record(c, c.arg)
        /\ artifact' = [artifact EXCEPT ![c.art].cur = c.arg]
        /\ UNCHANGED <<archived, mirroring, version, linked, job, repo>>
    BY DEF Formed, CommandRows, RestoreVersion, settings, Current
  <1>2. c.arg \in VersionsOf(c.art) /\ Accepted(c.arg)
    BY <1>1 DEF StillGood, RestoreVersion, Restorable, VersionsOf, Accepted, AcceptedStates
  <1>3. /\ artifact' \in [Artifacts -> ArtifactRows] /\ artifact'[c.art].cur = c.arg
        /\ artifact'[c.art].st # "none" /\ \A x \in Artifacts : x # c.art => artifact'[x] = artifact[x]
    <2>1. PICK row : row = [artifact[c.art] EXCEPT !.cur = c.arg]
      OBVIOUS
    <2>2. artifact \in [Artifacts -> ArtifactRows]
      BY DEF HistoryInv, TypeOK
    <2>3. row \in ArtifactRows /\ row.cur = c.arg /\ row.st # "none"
      BY <1>1, <2>1, <2>2 DEF ArtifactRows, Live
    <2>4. artifact' = [artifact EXCEPT ![c.art] = row]
      BY <1>1, <2>1
    <2> QED
      BY <1>1, <2>2, <2>3, <2>4
  <1> QED
    BY <1>1, <1>2, <1>3, ArtifactWriteInv DEF HistoryInv, TypeOK

\* A live artifact is current on an accepted version of its own.
LEMMA LiveCurrent ==
  ASSUME HistoryInv, NEW a \in Artifacts, Live(a)
  PROVE  artifact[a].cur \in VersionsOf(a) /\ artifact[a].cur \in Versions /\ Accepted(artifact[a].cur)
  BY DEF HistoryInv, CurrentIsAccepted, Live, VersionsOf

\* The access setting changes, and the log of it.
LEMMA ChangeAccessSettingInv ==
  ASSUME HistoryInv, NEW c, Formed(c), ChangeAccessSetting(c)
  PROVE  HistoryInv'
  <1>1. /\ c.art \in Artifacts /\ c.arg \in BOOLEAN /\ c.exp \in Versions /\ Live(c.art)
        /\ Record(c, c.exp) /\ artifact' = [artifact EXCEPT ![c.art].public = c.arg]
        /\ linked' = [linked EXCEPT ![c.art] = LinkAction(AccessFrom(c), c.arg, linked[c.art])]
        /\ UNCHANGED <<archived, mirroring, version, job, repo>>
    BY DEF Formed, CommandRows, ChangeAccessSetting, settings, Current
  <1>2. /\ artifact' \in [Artifacts -> ArtifactRows] /\ artifact'[c.art].cur = artifact[c.art].cur
        /\ artifact'[c.art].st # "none" /\ \A x \in Artifacts : x # c.art => artifact'[x] = artifact[x]
    <2>1. PICK row : row = [artifact[c.art] EXCEPT !.public = c.arg]
      OBVIOUS
    <2>2. artifact \in [Artifacts -> ArtifactRows]
      BY DEF HistoryInv, TypeOK
    <2>3. row \in ArtifactRows /\ row.cur = artifact[c.art].cur /\ row.st # "none"
      BY <1>1, <2>1, <2>2 DEF ArtifactRows, Live
    <2>4. artifact' = [artifact EXCEPT ![c.art] = row]
      BY <1>1, <2>1
    <2> QED
      BY <1>1, <2>2, <2>3, <2>4
  <1>3. linked' \in [Artifacts -> {"enable", "disable"}]
    BY <1>1 DEF HistoryInv, TypeOK, LinkAction
  <1> QED
    BY <1>1, <1>2, <1>3, LiveCurrent, ArtifactWriteInv DEF HistoryInv, TypeOK

\* The name changes.
LEMMA RenameArtifactInv ==
  ASSUME HistoryInv, NEW c, Formed(c), NEW n \in Names, RenameArtifact(c, n)
  PROVE  HistoryInv'
  <1>1. /\ c.art \in Artifacts /\ c.arg \in Names /\ c.exp \in Versions /\ Live(c.art)
        /\ Record(c, c.exp) /\ artifact' = [artifact EXCEPT ![c.art].name = c.arg]
        /\ UNCHANGED <<archived, mirroring, version, linked, job, repo>>
    BY DEF Formed, CommandRows, RenameArtifact, settings, Current
  <1>2. /\ artifact' \in [Artifacts -> ArtifactRows] /\ artifact'[c.art].cur = artifact[c.art].cur
        /\ artifact'[c.art].st # "none" /\ \A x \in Artifacts : x # c.art => artifact'[x] = artifact[x]
    <2>1. PICK row : row = [artifact[c.art] EXCEPT !.name = c.arg]
      OBVIOUS
    <2>2. artifact \in [Artifacts -> ArtifactRows]
      BY DEF HistoryInv, TypeOK
    <2>3. row \in ArtifactRows /\ row.cur = artifact[c.art].cur /\ row.st # "none"
      BY <1>1, <2>1, <2>2 DEF ArtifactRows, Live
    <2>4. artifact' = [artifact EXCEPT ![c.art] = row]
      BY <1>1, <2>1
    <2> QED
      BY <1>1, <2>2, <2>3, <2>4
  <1> QED
    BY <1>1, <1>2, LiveCurrent, ArtifactWriteInv DEF HistoryInv, TypeOK

\* The tags change.
LEMMA ChangeTagsInv ==
  ASSUME HistoryInv, NEW c, Formed(c), ChangeTags(c)
  PROVE  HistoryInv'
  <1>1. /\ c.art \in Artifacts /\ c.arg \in Names /\ c.exp \in Versions /\ Live(c.art)
        /\ Record(c, c.exp) /\ artifact' = [artifact EXCEPT ![c.art].tags = c.arg]
        /\ UNCHANGED <<archived, mirroring, version, linked, job, repo>>
    BY DEF Formed, CommandRows, ChangeTags, settings, Current
  <1>2. /\ artifact' \in [Artifacts -> ArtifactRows] /\ artifact'[c.art].cur = artifact[c.art].cur
        /\ artifact'[c.art].st # "none" /\ \A x \in Artifacts : x # c.art => artifact'[x] = artifact[x]
    <2>1. PICK row : row = [artifact[c.art] EXCEPT !.tags = c.arg]
      OBVIOUS
    <2>2. artifact \in [Artifacts -> ArtifactRows]
      BY DEF HistoryInv, TypeOK
    <2>3. row \in ArtifactRows /\ row.cur = artifact[c.art].cur /\ row.st # "none"
      BY <1>1, <2>1, <2>2 DEF ArtifactRows, Live
    <2>4. artifact' = [artifact EXCEPT ![c.art] = row]
      BY <1>1, <2>1
    <2> QED
      BY <1>1, <2>2, <2>3, <2>4
  <1> QED
    BY <1>1, <1>2, LiveCurrent, ArtifactWriteInv DEF HistoryInv, TypeOK

\* The artifact is deleted, and stays on its current version.
LEMMA DeleteArtifactInv ==
  ASSUME HistoryInv, NEW c, Formed(c), DeleteArtifact(c)
  PROVE  HistoryInv'
  <1>1. /\ c.art \in Artifacts /\ c.exp \in Versions /\ Live(c.art)
        /\ Record(c, c.exp) /\ artifact' = [artifact EXCEPT ![c.art].st = "deleted"]
        /\ job' = JobsAfterDelete(c.art)
        /\ repo' = IF HasRepo(c.art) THEN [repo EXCEPT ![c.art] = "deleting"] ELSE repo
        /\ UNCHANGED <<archived, mirroring, version, linked>>
    BY DEF Formed, CommandRows, DeleteArtifact, settings, Current
  <1>2. /\ artifact' \in [Artifacts -> ArtifactRows] /\ artifact'[c.art].cur = artifact[c.art].cur
        /\ artifact'[c.art].st # "none" /\ \A x \in Artifacts : x # c.art => artifact'[x] = artifact[x]
    <2>1. PICK row : row = [artifact[c.art] EXCEPT !.st = "deleted"]
      OBVIOUS
    <2>2. artifact \in [Artifacts -> ArtifactRows]
      BY DEF HistoryInv, TypeOK
    <2>3. row \in ArtifactRows /\ row.cur = artifact[c.art].cur /\ row.st # "none"
      BY <1>1, <2>1, <2>2 DEF ArtifactRows, Live
    <2>4. artifact' = [artifact EXCEPT ![c.art] = row]
      BY <1>1, <2>1
    <2> QED
      BY <1>1, <2>2, <2>3, <2>4
  <1>3. job' \in [Versions \cup Artifacts -> JobRows]
    BY <1>1, JobsAfterDeleteType DEF HistoryInv
  <1>4. repo' \in [Artifacts -> {"none", "provisioned", "deleting", "deleted"}]
    BY <1>1 DEF HistoryInv, TypeOK
  <1> QED
    BY <1>1, <1>2, <1>3, <1>4, LiveCurrent, ArtifactWriteInv DEF HistoryInv, TypeOK

\* Every write keeps the invariant.
LEMMA WriteInv ==
  ASSUME HistoryInv, NEW c, c \in calls \/ (~D1 /\ c \in Commands), Write(c)
  PROVE  HistoryInv'
  <1>1. Ready(c)
    BY DEF Write, CommitNewArtifact, CommitVersion, StageCandidate, PromoteCandidate, CloseCandidate,
           RestoreVersion, ChangeAccessSetting, RenameArtifact, ChangeTags, DeleteArtifact
  <1>2. Formed(c) /\ StillGood(c)
    BY <1>1, ReadyStillGood
  <1> QED
    BY <1>2, CommitNewArtifactInv, CommitVersionInv, StageCandidateInv, PromoteCandidateInv,
       CloseCandidateInv, RestoreVersionInv, ChangeAccessSettingInv, RenameArtifactInv, ChangeTagsInv,
       DeleteArtifactInv DEF Write

-----------------------------------------------------------------------------
(* The other steps                                                         *)

\* A step that leaves the rows and records alone keeps what is said of them.
LEMMA RowsUntouched ==
  ASSUME HistoryInv, UNCHANGED <<rows, records, job, repo>>,
         archived' \in BOOLEAN, mirroring' \in BOOLEAN, CallsSound'
  PROVE  HistoryInv'
  <1>1. Grows /\ NumbersAreGapless'
    BY VersionsKept DEF rows
  <1>2. CurrentIsAccepted'
    BY <1>1, CurrentKept DEF rows
  <1>3. TypeOK' /\ RowsSound' /\ EffectsRecorded'
    BY DEF HistoryInv, TypeOK, RowsSound, EffectsRecorded, rows, records
  <1> QED
    BY <1>1, <1>2, <1>3 DEF HistoryInv

\* A new command has read nothing yet.
LEMMA AskInv ==
  ASSUME HistoryInv, NEW c \in Commands, Ask(c)
  PROVE  HistoryInv'
  <1>1. UNCHANGED <<settings, rows, records, job, repo>> /\ calls' = calls \cup {c}
    BY DEF Ask
  <1>2. Grows
    BY <1>1, VersionsKept DEF rows
  <1>3. CallsSound'
    <2> SUFFICES ASSUME NEW d \in calls'
                 PROVE  Formed(d) /\ (D1 /\ d.at = "read" => StillGood(d)')
      BY DEF CallsSound, StillGood, Formed
    <2>1. CASE d \in calls
      BY <1>2, <2>1, CallsKept
    <2>2. CASE d = c
      BY <2>2, CommandsFormed
    <2> QED
      BY <1>1, <2>1, <2>2
  <1> QED
    BY <1>1, <1>3, RowsUntouched DEF settings, HistoryInv, TypeOK

\* What a command reads is good at that moment.
LEMMA ReadRowsInv ==
  ASSUME HistoryInv, NEW c \in calls, ReadRows(c)
  PROVE  HistoryInv'
  <1>1. UNCHANGED <<settings, rows, records, job, repo>>
    BY DEF ReadRows
  <1>2. Grows
    BY <1>1, VersionsKept DEF rows
  <1>3. Formed(c) /\ c \in CommandRows /\ Permitted(c)
    BY DEF HistoryInv, CallsSound, Formed, ReadRows
  <1>4. c.art \in Artifacts /\ artifact[c.art].public \in BOOLEAN
    BY <1>3 DEF CommandRows, HistoryInv, TypeOK, ArtifactRows
  <1>5. Cardinality(VersionsOf(c.art)) \in Nat
    BY VersionsFinite
  <1>6. PICK n \in Nat, from \in BOOLEAN :
           /\ n = Cardinality(VersionsOf(c.art)) + 1
           /\ n = NextNumber(c.art) /\ from = artifact[c.art].public
    BY <1>4, <1>5, NextNumberCounts DEF HistoryInv
  <1> DEFINE d == [c EXCEPT !.at = "read", !.num = n, !.from = from]
  <1>7. calls' = (calls \ {c}) \cup {d}
    BY <1>6 DEF ReadRows
  <1>8. Formed(d) /\ d.num = n /\ d.art = c.art /\ d.op = c.op /\ d.arg = c.arg
    BY <1>3 DEF Formed, CommandRows
  <1> HIDE DEF d
  <1>9. D1 => StillGood(d)'
    <2> SUFFICES ASSUME D1 PROVE StillGood(d)'
      OBVIOUS
    <2>1. VersionsOf(c.art)' = VersionsOf(c.art)
      BY <1>1 DEF VersionsOf, rows
    <2>2. n \in 1..(Cardinality(VersionsOf(c.art)') + 1)
      BY <1>5, <1>6, <2>1
    <2>3. c.op = "restore" => Restorable(c.arg, c.art)'
      BY <1>1, <1>3 DEF Permitted, Publishing, Closing, Restorable, Accepted, rows
    <2> QED
      BY <1>8, <2>2, <2>3 DEF StillGood, NumberFor
  <1>10. CallsSound'
    <2> SUFFICES ASSUME NEW e \in calls'
                 PROVE  Formed(e) /\ (D1 /\ e.at = "read" => StillGood(e)')
      BY DEF CallsSound, StillGood, Formed
    <2>1. CASE e \in calls
      BY <1>2, <2>1, CallsKept
    <2>2. CASE e = d
      BY <1>8, <1>9, <2>2
    <2> QED
      BY <1>7, <2>1, <2>2
  <1> QED
    BY <1>1, <1>10, RowsUntouched DEF settings, HistoryInv, TypeOK

\* A command that is dropped leaves nothing.
LEMMA DropCallInv ==
  ASSUME HistoryInv, NEW c \in calls, DropCall(c)
  PROVE  HistoryInv'
  <1>1. UNCHANGED <<settings, rows, records, job, repo>> /\ calls' \subseteq calls
    BY DEF DropCall
  <1>2. CallsSound'
    BY <1>1, VersionsKept, CallsSoundAfter DEF rows
  <1> QED
    BY <1>1, <1>2, RowsUntouched DEF settings, HistoryInv, TypeOK

\* The project's settings.
LEMMA SettingsInv ==
  ASSUME HistoryInv, SetProjectArchive \/ StoreGitHistorySetting
  PROVE  HistoryInv'
  <1>1. /\ UNCHANGED <<rows, records, job, repo, calls>>
        /\ archived' \in BOOLEAN /\ mirroring' \in BOOLEAN
    BY DEF SetProjectArchive, StoreGitHistorySetting, HistoryInv, TypeOK
  <1>2. CallsSound'
    BY <1>1, VersionsKept, CallsSoundAfter DEF rows
  <1> QED
    BY <1>1, <1>2, RowsUntouched

\* The initial states satisfy the invariant.
LEMMA InitInv == HistoryInit => HistoryInv
  <1> SUFFICES ASSUME HistoryInit PROVE HistoryInv
    OBVIOUS
  <1>1. TypeOK
    BY DEF HistoryInit, TypeOK, ArtifactRows, VersionRows, JobRows, NoArtifact, NoVersion, NoJob
  <1>2. \A a \in Artifacts : VersionsOf(a) = {} /\ NumbersOf(a) = {}
    BY DEF HistoryInit, VersionsOf, NumbersOf, NoVersion
  <1>3. NumbersAreGapless
    <2>1. Cardinality({}) = 0 /\ 1..0 = {}
      BY FS_EmptySet
    <2> QED
      BY <1>2, <2>1 DEF NumbersAreGapless
  <1>4. CallsSound /\ RowsSound /\ CurrentIsAccepted /\ EffectsRecorded
    BY DEF HistoryInit, CallsSound, RowsSound, CurrentIsAccepted, EffectsRecorded, NoArtifact, NoVersion
  <1> QED
    BY <1>1, <1>3, <1>4 DEF HistoryInv

\* Every step keeps the invariant.
LEMMA NextInv == HistoryInv /\ [HistoryNext]_historyVars => HistoryInv'
  <1> SUFFICES ASSUME HistoryInv, [HistoryNext]_historyVars PROVE HistoryInv'
    OBVIOUS
  <1>1. CASE UNCHANGED historyVars
    <2>1. UNCHANGED <<rows, records, job, repo, calls, archived, mirroring>>
      BY <1>1 DEF historyVars, rows, records
    <2>2. CallsSound'
      BY <2>1, VersionsKept, CallsSoundAfter DEF rows
    <2> QED
      BY <2>1, <2>2, RowsUntouched DEF HistoryInv, TypeOK
  <1>2. CASE HistoryNext
    BY <1>2, AskInv, WriteInv, ReadRowsInv, DropCallInv, SettingsInv DEF HistoryNext
  <1> QED
    BY <1>1, <1>2

\* So the invariant holds throughout.
LEMMA HistoryInvariant == Spec => []HistoryInv
  BY InitInv, NextInv, PTL DEF Spec

\* Theorem: on every store the rows of every artifact form a history: typed, numbered
\* 1, 2, 3 ... without a gap or a repetition although publishers compute the next number
\* before they write, and with an accepted version of the artifact as the current one.
THEOREM HistorySound == Spec => []HistoryIsSound
  <1>1. HistoryInv => HistoryIsSound
    BY DEF HistoryInv, HistoryIsSound
  <1> QED
    BY <1>1, HistoryInvariant, PTL

\* Theorem: a number names one version of its artifact, on every store, although on D1
\* it was computed before the batch that writes it and may have been taken meanwhile.
THEOREM NumbersIdentify ==
  Spec => [](\A a \in Artifacts : \A u, v \in VersionsOf(a) : version[u].num = version[v].num => u = v)
  <1>1. HistoryInv =>
          \A a \in Artifacts : \A u, v \in VersionsOf(a) : version[u].num = version[v].num => u = v
    BY NumbersUnique DEF HistoryInv
  <1> QED
    BY <1>1, HistoryInvariant, PTL

\* Theorem: an idempotency key takes effect at most once, however many requests that
\* carry it pass the check before the first of them writes.
THEOREM EffectOnce == Spec => []OneEffectPerKey
  <1>1. HistoryInv => OneEffectPerKey
    BY DEF HistoryInv, EffectsRecorded, OneEffectPerKey
  <1> QED
    BY <1>1, HistoryInvariant, PTL

-----------------------------------------------------------------------------
(* What a step does to history                                             *)

\* A version joins an artifact that is live, or new.
Adds(a, v, st, b) ==
    /\ version[v].st = "none"
    /\ version'[v].st = st /\ version'[v].art = a /\ version'[v].base = b
    /\ \A w \in Versions : w # v => version'[w] = version[w]

\* A candidate changes its state and nothing else.
Moves(v, st) ==
    /\ version[v].st = "candidate"
    /\ version'[v].st = st /\ version'[v].art = version[v].art
    /\ version'[v].num = version[v].num /\ version'[v].base = version[v].base
    /\ \A w \in Versions : w # v => version'[w] = version[w]

\* Current of one artifact moves; nothing is deleted or brought back.
Points(a, v) ==
    /\ artifact[a].st # "deleted" /\ artifact'[a].st = "live" /\ artifact'[a].cur = v
    /\ \A x \in Artifacts : x # a => artifact'[x] = artifact[x]

\* Current and the deleted artifacts stay.
Stays ==
    \A x \in Artifacts : artifact'[x].cur = artifact[x].cur
                         /\ (artifact'[x].st = "deleted" <=> artifact[x].st = "deleted")

Retires(a) ==
    /\ artifact[a].st = "live" /\ artifact'[a].st = "deleted" /\ artifact'[a].cur = artifact[a].cur
    /\ \A x \in Artifacts : x # a => artifact'[x] = artifact[x]

\* The ways in which history moves forward: every step but a restore.
ForwardStep ==
    \/ \E a \in Artifacts, v \in Versions : Adds(a, v, "mainline", None) /\ Points(a, v)
    \/ \E a \in Artifacts, v \in Versions :
          Live(a) /\ Adds(a, v, "candidate", artifact[a].cur) /\ artifact' = artifact
    \/ \E a \in Artifacts, v \in Versions :
          /\ version[v].art = a /\ version[v].base = artifact[a].cur
          /\ Moves(v, "promoted") /\ Points(a, v)
    \/ \E v \in Versions, st \in Closing : Moves(v, st) /\ artifact' = artifact
    \/ \E a \in Artifacts : Retires(a) /\ version' = version
    \/ Stays /\ version' = version

HistoryStep ==
    \/ ForwardStep
    \/ \E a \in Artifacts, v \in Versions :
          v \in VersionsOf(a) /\ Accepted(v) /\ Points(a, v) /\ version' = version

\* Every write is one of them.
LEMMA WriteMoves ==
  ASSUME HistoryInv, NEW c, c \in calls \/ (~D1 /\ c \in Commands), Write(c)
  PROVE  HistoryStep /\ (c.op # "restore" => ForwardStep)
  <1>1. Ready(c)
    BY DEF Write, CommitNewArtifact, CommitVersion, StageCandidate, PromoteCandidate, CloseCandidate,
           RestoreVersion, ChangeAccessSetting, RenameArtifact, ChangeTags, DeleteArtifact
  <1>2. Formed(c) /\ StillGood(c)
    BY <1>1, ReadyStillGood
  <1>3. c.art \in Artifacts /\ artifact \in [Artifacts -> ArtifactRows] /\ version \in [Versions -> VersionRows]
    BY <1>2 DEF Formed, CommandRows, HistoryInv, TypeOK
  <1>4. ASSUME NEW public \in BOOLEAN, CommitNewArtifact(c, public)
        PROVE  ForwardStep
    <2>1. c.arg \in Versions
      BY <1>2, <1>4 DEF Formed, CommitNewArtifact, Publishing
    <2>2. Adds(c.art, c.arg, "mainline", None)
      BY <1>3, <1>4, <2>1 DEF CommitNewArtifact, Adds
    <2>3. Points(c.art, c.arg)
      BY <1>3, <1>4, <2>1 DEF CommitNewArtifact, Points
    <2> QED
      BY <1>3, <2>1, <2>2, <2>3 DEF ForwardStep
  <1>5. ASSUME CommitVersion(c)
        PROVE  ForwardStep
    <2>1. c.arg \in Versions
      BY <1>2, <1>5 DEF Formed, CommitVersion, Publishing
    <2>2. Adds(c.art, c.arg, "mainline", None)
      BY <1>3, <1>5, <2>1 DEF CommitVersion, Adds
    <2>3. Points(c.art, c.arg)
      BY <1>3, <1>5, <2>1 DEF CommitVersion, Points, Current, Live, ArtifactRows
    <2> QED
      BY <1>3, <2>1, <2>2, <2>3 DEF ForwardStep
  <1>6. ASSUME StageCandidate(c)
        PROVE  ForwardStep
    <2>1. c.arg \in Versions /\ c.exp = artifact[c.art].cur /\ Live(c.art) /\ artifact' = artifact
      BY <1>2, <1>6 DEF Formed, StageCandidate, Publishing, Current
    <2>2. Adds(c.art, c.arg, "candidate", artifact[c.art].cur)
      BY <1>3, <1>6, <2>1 DEF StageCandidate, Adds
    <2> QED
      BY <1>3, <2>1, <2>2 DEF ForwardStep
  <1>7. ASSUME PromoteCandidate(c)
        PROVE  ForwardStep
    <2>1. c.arg \in Versions /\ version[c.arg].art = c.art /\ version[c.arg].base = artifact[c.art].cur
      BY <1>2, <1>7 DEF Formed, PromoteCandidate, OpenCandidate, OnBase
    <2>2. Moves(c.arg, "promoted")
      BY <1>3, <1>7, <2>1 DEF PromoteCandidate, OpenCandidate, Moves, VersionRows
    <2>3. Points(c.art, c.arg)
      BY <1>3, <1>7, <2>1 DEF PromoteCandidate, Points, OnBase, Live, ArtifactRows
    <2> QED
      BY <1>3, <2>1, <2>2, <2>3 DEF ForwardStep
  <1>8. ASSUME CloseCandidate(c)
        PROVE  ForwardStep
    <2>1. c.arg \in Versions /\ c.op \in Closing /\ artifact' = artifact
      BY <1>2, <1>8 DEF Formed, CloseCandidate
    <2>2. Moves(c.arg, c.op)
      BY <1>3, <1>8, <2>1 DEF CloseCandidate, OpenCandidate, Moves, VersionRows
    <2> QED
      BY <2>1, <2>2 DEF ForwardStep
  <1>9. ASSUME RestoreVersion(c)
        PROVE  HistoryStep /\ c.op = "restore"
    <2>1. c.arg \in Versions /\ Restorable(c.arg, c.art) /\ version' = version
      BY <1>2, <1>9 DEF Formed, StillGood, RestoreVersion
    <2>2. c.arg \in VersionsOf(c.art) /\ Accepted(c.arg)
      BY <2>1 DEF Restorable, VersionsOf, Accepted, AcceptedStates
    <2>3. Points(c.art, c.arg)
      BY <1>3, <1>9, <2>1 DEF RestoreVersion, Points, Current, Live, ArtifactRows
    <2>4. HistoryStep
      BY <1>3, <2>1, <2>2, <2>3 DEF HistoryStep
    <2> QED
      BY <1>9, <2>4 DEF RestoreVersion
  <1>10. ASSUME ChangeAccessSetting(c) \/ ChangeTags(c) \/ \E n \in Names : RenameArtifact(c, n)
        PROVE  ForwardStep
    <2>1. version' = version
      BY <1>10 DEF ChangeAccessSetting, ChangeTags, RenameArtifact
    <2>2. Stays
      BY <1>3, <1>10 DEF ChangeAccessSetting, ChangeTags, RenameArtifact, Stays, ArtifactRows
    <2> QED
      BY <2>1, <2>2 DEF ForwardStep
  <1>11. ASSUME DeleteArtifact(c)
        PROVE  ForwardStep
    <2>1. version' = version /\ Retires(c.art)
      BY <1>3, <1>11 DEF DeleteArtifact, Retires, Current, Live, ArtifactRows
    <2> QED
      BY <1>3, <2>1 DEF ForwardStep
  <1>12. ForwardStep => HistoryStep
    BY DEF HistoryStep
  <1> QED
    BY <1>12, <1>4, <1>5, <1>6, <1>7, <1>8, <1>9, <1>10, <1>11 DEF Write

\* So is every step.
LEMMA NextMoves ==
  ASSUME HistoryInv, [HistoryNext]_historyVars
  PROVE  HistoryStep
  <1>1. ASSUME UNCHANGED rows
        PROVE  HistoryStep
    BY <1>1 DEF HistoryStep, ForwardStep, Stays, rows
  <1>2. CASE UNCHANGED historyVars
    BY <1>1, <1>2 DEF historyVars, rows
  <1>3. ASSUME NEW c \in Commands, Ask(c) \/ (~D1 /\ Write(c))
        PROVE  HistoryStep
    BY <1>1, <1>3, WriteMoves DEF Ask
  <1>4. ASSUME NEW c \in calls, ReadRows(c) \/ Write(c) \/ DropCall(c)
        PROVE  HistoryStep
    BY <1>1, <1>4, WriteMoves DEF ReadRows, DropCall
  <1>5. CASE SetProjectArchive \/ StoreGitHistorySetting
    BY <1>1, <1>5 DEF SetProjectArchive, StoreGitHistorySetting
  <1> QED
    BY <1>2, <1>3, <1>4, <1>5 DEF HistoryNext

\* What HistoryIsImmutable says of a step.
Immutably ==
    \A v \in Versions :
        LET from == version[v]
            to == version'[v] IN
        from.st # "none" =>
          /\ <<to.art, to.num, to.base>> = <<from.art, from.num, from.base>>
          /\ \/ to.st = from.st
             \/ from.st = "candidate" /\ to.st \in Closing
             \/ /\ from.st = "candidate" /\ to.st = "promoted"
                /\ artifact[from.art].cur = from.base
                /\ artifact'[from.art].cur = v

LEMMA StepImmutable ==
  ASSUME HistoryInv, HistoryStep
  PROVE  Immutably
  BY DEF HistoryStep, ForwardStep, Adds, Moves, Points, Closing, Immutably

\* Theorem: history is append-only on every store: a saved version keeps its artifact,
\* number and base; a candidate is closed, or becomes current in the step that promotes
\* it, and then current leaves its base.
THEOREM HistoryImmutable == Spec => HistoryIsImmutable
  <1>1. HistoryInv /\ [HistoryNext]_historyVars => Immutably
    BY NextMoves, StepImmutable
  <1>2. HistoryIsImmutable <=> [][Immutably]_historyVars
    BY DEF HistoryIsImmutable, Immutably
  <1> QED
    BY <1>1, <1>2, HistoryInvariant, PTL DEF Spec

-----------------------------------------------------------------------------
(* The refinement of AcceptedHistory                                       *)

\* What AcceptedHistory sees of the rows.
Heads == [a \in Artifacts |-> artifact[a].cur]
AcceptedOf(a) == {v \in VersionsOf(a) : Accepted(v)}
Accepteds == [a \in Artifacts |-> AcceptedOf(a)]
Opens == {<<version[v].art, v, version[v].base>> : v \in {w \in Versions : version[w].st = "candidate"}}
Spents == {v \in Versions : version[v].st # "none"}
Gones == {a \in Artifacts : artifact[a].st = "deleted"}

\* Where the versions stay so do the accepted, open and spent ones.
LEMMA SeenVersions ==
  ASSUME version' = version
  PROVE  Accepteds' = Accepteds /\ Opens' = Opens /\ Spents' = Spents
  BY DEF Accepteds, AcceptedOf, VersionsOf, Accepted, Opens, Spents

\* Where current moves the other heads stay and nothing is deleted.
LEMMA SeenPoints ==
  ASSUME NEW a \in Artifacts, NEW v \in Versions, Points(a, v)
  PROVE  a \notin Gones /\ Heads' = [Heads EXCEPT ![a] = v] /\ Gones' = Gones
  BY DEF Points, Gones, Heads

\* An added version is spent, and accepted or open.
LEMMA SeenAdds ==
  ASSUME NEW a \in Artifacts, NEW v \in Versions, NEW st, NEW b,
         st # "none", Adds(a, v, st, b)
  PROVE  /\ v \notin Spents /\ Spents' = Spents \cup {v}
         /\ st = "mainline" =>
               Accepteds' = [Accepteds EXCEPT ![a] = @ \cup {v}] /\ Opens' = Opens
         /\ st = "candidate" =>
               Accepteds' = Accepteds /\ Opens' = Opens \cup {<<a, v, b>>}
  <1>1. v \notin Spents /\ Spents' = Spents \cup {v}
    BY DEF Adds, Spents
  <1>2. ASSUME st = "mainline"
        PROVE  Accepteds' = [Accepteds EXCEPT ![a] = @ \cup {v}]
    <2>1. ASSUME NEW x \in Artifacts
          PROVE  AcceptedOf(x)' = IF x = a THEN AcceptedOf(a) \cup {v} ELSE AcceptedOf(x)
      BY <1>2 DEF AcceptedOf, VersionsOf, Accepted, AcceptedStates, Adds
    <2> QED
      BY <2>1 DEF Accepteds
  <1>3. ASSUME st = "candidate"
        PROVE  Accepteds' = Accepteds
    <2>1. ASSUME NEW x \in Artifacts
          PROVE  AcceptedOf(x)' = AcceptedOf(x)
      BY <1>3 DEF AcceptedOf, VersionsOf, Accepted, AcceptedStates, Adds
    <2> QED
      BY <2>1 DEF Accepteds
  <1>4. ASSUME st = "mainline"
        PROVE  Opens' = Opens
    BY <1>4 DEF Opens, Adds
  <1>5. ASSUME st = "candidate"
        PROVE  Opens' = Opens \cup {<<a, v, b>>}
    <2>1. \A w \in Versions : version'[w].st = "candidate" <=> w = v \/ version[w].st = "candidate"
      BY <1>5 DEF Adds
    <2>2. <<version'[v].art, v, version'[v].base>> = <<a, v, b>>
      BY DEF Adds
    <2>3. \A w \in Versions : version[w].st = "candidate" => w # v /\ version'[w] = version[w]
      BY DEF Adds
    <2> QED
      BY <2>1, <2>2, <2>3 DEF Opens
  <1> QED
    BY <1>1, <1>2, <1>3, <1>4, <1>5

\* A candidate that changes its state is no longer open, and is accepted if promoted.
LEMMA SeenMoves ==
  ASSUME RowsSound, NEW v \in Versions, NEW st \in {"promoted", "rejected", "superseded"}, Moves(v, st)
  PROVE  /\ Spents' = Spents
         /\ <<version[v].art, v, version[v].base>> \in Opens
         /\ Opens' = Opens \ {<<version[v].art, v, version[v].base>>}
         /\ st = "promoted" => Accepteds' = [Accepteds EXCEPT ![version[v].art] = @ \cup {v}]
         /\ st # "promoted" => Accepteds' = Accepteds
  <1>1. Spents' = Spents
    BY DEF Moves, Spents
  <1>2. <<version[v].art, v, version[v].base>> \in Opens
    BY DEF Moves, Opens
  <1>3. Opens' = Opens \ {<<version[v].art, v, version[v].base>>}
    <2>1. \A w \in Versions : version'[w].st = "candidate" <=> w # v /\ version[w].st = "candidate"
      BY DEF Moves
    <2>2. \A w \in Versions : w # v => version'[w] = version[w]
      BY DEF Moves
    <2> QED
      BY <2>1, <2>2 DEF Opens
  <1>4. ASSUME st = "promoted"
        PROVE  Accepteds' = [Accepteds EXCEPT ![version[v].art] = @ \cup {v}]
    <2>1. ASSUME NEW x \in Artifacts
          PROVE  AcceptedOf(x)' = IF x = version[v].art THEN AcceptedOf(x) \cup {v} ELSE AcceptedOf(x)
      BY <1>4 DEF AcceptedOf, VersionsOf, Accepted, AcceptedStates, Moves
    <2> QED
      BY <2>1 DEF Accepteds
  <1>5. ASSUME st # "promoted"
        PROVE  Accepteds' = Accepteds
    <2>1. ASSUME NEW x \in Artifacts
          PROVE  AcceptedOf(x)' = AcceptedOf(x)
      BY <1>5 DEF AcceptedOf, VersionsOf, Accepted, AcceptedStates, Moves
    <2> QED
      BY <2>1 DEF Accepteds
  <1> QED
    BY <1>1, <1>2, <1>3, <1>4, <1>5

\* A step of the rows is a step of AcceptedHistory, or is not seen there.
LEMMA StepRefines ==
  ASSUME HistoryInv, HistoryStep
  PROVE  [History!Next]_(History!abstractVars)
  <1> DEFINE Seen == History!Next \/ UNCHANGED History!abstractVars
  <1> SUFFICES Seen
    OBVIOUS
  <1> USE DEF Heads, Accepteds, AcceptedOf, Opens, Spents, Gones
  <1>1. ASSUME NEW a \in Artifacts, NEW v \in Versions, Adds(a, v, "mainline", None), Points(a, v)
        PROVE  Seen
    <2> HIDE DEF Heads, Accepteds, AcceptedOf, Opens, Spents, Gones
    <2>1. /\ a \notin Gones /\ v \notin Spents /\ Heads' = [Heads EXCEPT ![a] = v] /\ Gones' = Gones
          /\ Spents' = Spents \cup {v} /\ Accepteds' = [Accepteds EXCEPT ![a] = @ \cup {v}]
          /\ Opens' = Opens
      BY <1>1, SeenPoints, SeenAdds
    <2> USE DEF Heads, Accepteds, AcceptedOf, Opens, Spents, Gones
    <2>2. History!Accept(a, v)
      BY <2>1 DEF History!Accept
    <2> QED
      BY <2>2 DEF History!Next
  <1>2. ASSUME NEW a \in Artifacts, NEW v \in Versions,
               Live(a), Adds(a, v, "candidate", artifact[a].cur), artifact' = artifact
        PROVE  Seen
    <2> HIDE DEF Heads, Accepteds, AcceptedOf, Opens, Spents, Gones
    <2>1. PICK b \in Versions : artifact[a].cur = b
      BY <1>2, LiveCurrent
    <2>2. Adds(a, v, "candidate", b)
      BY <1>2, <2>1
    <2>3. Heads' = Heads /\ Gones' = Gones /\ a \notin Gones /\ Heads[a] = b
      BY <1>2, <2>1 DEF Heads, Gones, Live
    <2>4. /\ v \notin Spents /\ Spents' = Spents \cup {v} /\ Accepteds' = Accepteds
          /\ Opens' = Opens \cup {<<a, v, b>>}
      BY <2>2, SeenAdds
    <2>5. b # None
      BY HistoryNames DEF HistoryNames
    <2>6. Opens' = Opens \cup {<<a, v, Heads[a]>>} /\ Heads[a] # None
      BY <2>3, <2>4, <2>5
    <2> USE DEF Heads, Accepteds, AcceptedOf, Opens, Spents, Gones
    <2>7. History!Stage(a, v)
      BY <2>3, <2>4, <2>6 DEF History!Stage
    <2> QED
      BY <2>7 DEF History!Next
  <1>3. ASSUME NEW a \in Artifacts, NEW v \in Versions,
               version[v].art = a, version[v].base = artifact[a].cur,
               Moves(v, "promoted"), Points(a, v)
        PROVE  Seen
    <2> HIDE DEF Heads, Accepteds, AcceptedOf, Opens, Spents, Gones
    <2>1. RowsSound
      BY DEF HistoryInv
    <2>2. Heads[a] = version[v].base
      BY <1>3 DEF Heads
    <2>3. /\ Spents' = Spents /\ <<a, v, Heads[a]>> \in Opens
          /\ Opens' = Opens \ {<<a, v, Heads[a]>>}
          /\ Accepteds' = [Accepteds EXCEPT ![a] = @ \cup {v}]
      BY <1>3, <2>1, <2>2, SeenMoves
    <2>4. a \notin Gones /\ Heads' = [Heads EXCEPT ![a] = v] /\ Gones' = Gones
      BY <1>3, SeenPoints
    <2> USE DEF Heads, Accepteds, AcceptedOf, Opens, Spents, Gones
    <2>5. History!Promote(a, v)
      BY <2>3, <2>4 DEF History!Promote
    <2> QED
      BY <2>5 DEF History!Next
  <1>4. ASSUME NEW v \in Versions, NEW st \in Closing, Moves(v, st), artifact' = artifact
        PROVE  Seen
    <2> HIDE DEF Heads, Accepteds, AcceptedOf, Opens, Spents, Gones
    <2>1. RowsSound
      BY DEF HistoryInv
    <2>2. PICK x : x = <<version[v].art, v, version[v].base>>
      OBVIOUS
    <2>3. Spents' = Spents /\ x \in Opens /\ Opens' = Opens \ {x} /\ Accepteds' = Accepteds
      BY <1>4, <2>1, <2>2, SeenMoves DEF Closing
    <2>4. Heads' = Heads /\ Gones' = Gones
      BY <1>4 DEF Heads, Gones
    <2> USE DEF Heads, Accepteds, AcceptedOf, Opens, Spents, Gones
    <2>5. History!Close(x)
      BY <2>3, <2>4 DEF History!Close
    <2> QED
      BY <2>3, <2>5 DEF History!Next
  <1>5. ASSUME NEW a \in Artifacts, NEW v \in Versions,
               v \in VersionsOf(a), Accepted(v), Points(a, v), version' = version
        PROVE  Seen
    <2> HIDE DEF Heads, Accepteds, AcceptedOf, Opens, Spents, Gones
    <2>1. /\ a \notin Gones /\ Heads' = [Heads EXCEPT ![a] = v] /\ Gones' = Gones
          /\ Accepteds' = Accepteds /\ Opens' = Opens /\ Spents' = Spents
      BY <1>5, SeenPoints, SeenVersions
    <2>2. v \in Accepteds[a]
      BY <1>5 DEF Accepteds, AcceptedOf
    <2> USE DEF Heads, Accepteds, AcceptedOf, Opens, Spents, Gones
    <2>3. History!Return(a, v)
      BY <2>1, <2>2 DEF History!Return
    <2> QED
      BY <2>3 DEF History!Next
  <1>6. ASSUME NEW a \in Artifacts, Retires(a), version' = version
        PROVE  Seen
    <2> HIDE DEF Heads, Accepteds, AcceptedOf, Opens, Spents, Gones
    <2>1. Accepteds' = Accepteds /\ Opens' = Opens /\ Spents' = Spents
      BY <1>6, SeenVersions
    <2>2. Heads' = Heads /\ Gones' = Gones \cup {a}
      BY <1>6 DEF Retires, Heads, Gones
    <2>3. artifact[a].cur \in Versions
      BY <1>6, LiveCurrent DEF Retires, Live
    <2>4. Heads[a] # None
      BY <2>3, HistoryNames DEF HistoryNames, Heads
    <2> USE DEF Heads, Accepteds, AcceptedOf, Opens, Spents, Gones
    <2>5. History!Delete(a)
      BY <2>1, <2>2, <2>4 DEF History!Delete
    <2> QED
      BY <2>5 DEF History!Next
  <1>7. ASSUME Stays, version' = version
        PROVE  Seen
    <2> HIDE DEF Heads, Accepteds, AcceptedOf, Opens, Spents, Gones
    <2>1. Accepteds' = Accepteds /\ Opens' = Opens /\ Spents' = Spents
      BY <1>7, SeenVersions
    <2>2. Heads' = Heads /\ Gones' = Gones
      BY <1>7 DEF Stays, Heads, Gones
    <2> USE DEF Heads, Accepteds, AcceptedOf, Opens, Spents, Gones
    <2> QED
      BY <2>1, <2>2 DEF History!abstractVars
  <1> HIDE DEF Seen
  <1> QED
    BY <1>1, <1>2, <1>3, <1>4, <1>5, <1>6, <1>7 DEF HistoryStep, ForwardStep

\* Its initial states are initial states of AcceptedHistory.
LEMMA InitRefines == HistoryInit => History!Init
  <1> SUFFICES ASSUME HistoryInit PROVE History!Init
    OBVIOUS
  <1>1. \A a \in Artifacts : artifact[a].cur = None /\ artifact[a].st = "none"
    BY DEF HistoryInit, NoArtifact
  <1>2. \A v \in Versions : version[v].st = "none"
    BY DEF HistoryInit, NoVersion
  <1>3. \A a \in Artifacts : {v \in VersionsOf(a) : Accepted(v)} = {}
    BY <1>2 DEF VersionsOf
  <1> QED
    BY <1>1, <1>2, <1>3 DEF History!Init

\* Theorem: on every store the operations implement AcceptedHistory: current moves to a
\* version accepted in that step, to a candidate of the version it leaves or back to an
\* accepted version, and it stays where it is once the artifact is deleted.
THEOREM HistoryRefines == Spec => KeepsAcceptedHistory
  <1>1. HistoryInv /\ [HistoryNext]_historyVars => [History!Next]_(History!abstractVars)
    BY NextMoves, StepRefines
  <1> QED
    BY <1>1, InitRefines, HistoryInvariant, PTL DEF Spec, KeepsAcceptedHistory, History!Spec

-----------------------------------------------------------------------------
(* What only a transaction keeps                                           *)

\* No command is in flight.
NoneInFlight == calls = {}

\* LinkLogAgrees, together with the invariant, is kept by a write in one transaction.
LEMMA WriteLinks ==
  ASSUME ~D1, HistoryInv, LinkLogAgrees, NEW c \in Commands, Write(c)
  PROVE  LinkLogAgrees'
  <1>1. Formed(c) /\ c.art \in Artifacts
    BY CommandsFormed DEF Formed, CommandRows
  <1>2. /\ artifact \in [Artifacts -> ArtifactRows] /\ linked \in [Artifacts -> {"enable", "disable"}]
        /\ artifact[c.art] \in ArtifactRows
    BY <1>1 DEF HistoryInv, TypeOK
  <1>3. \A a \in Artifacts : artifact[a].public \in BOOLEAN /\ (artifact[a].public <=> linked[a] = "enable")
    BY <1>2 DEF LinkLogAgrees, ArtifactRows
  <1>4. ASSUME linked' = linked, \A a \in Artifacts : artifact'[a].public = artifact[a].public
        PROVE  LinkLogAgrees'
    BY <1>3, <1>4 DEF LinkLogAgrees
  <1>5. ASSUME NEW to \in BOOLEAN, NEW from \in BOOLEAN, from <=> linked[c.art] = "enable",
               artifact'[c.art].public = to,
               \A a \in Artifacts : a # c.art => artifact'[a] = artifact[a],
               linked' = [linked EXCEPT ![c.art] = LinkAction(from, to, @)]
        PROVE  LinkLogAgrees'
    <2>1. linked'[c.art] = "enable" <=> to
      BY <1>1, <1>2, <1>5 DEF LinkAction
    <2>2. \A a \in Artifacts : a # c.art => linked'[a] = linked[a]
      BY <1>1, <1>2, <1>5
    <2> QED
      BY <1>3, <1>5, <2>1, <2>2 DEF LinkLogAgrees
  <1>6. ASSUME NEW public \in BOOLEAN, CommitNewArtifact(c, public)
        PROVE  LinkLogAgrees'
    <2>1. artifact[c.art] = NoArtifact
      BY <1>1, <1>6 DEF CommitNewArtifact, HistoryInv, RowsSound
    <2>2. FALSE <=> linked[c.art] = "enable"
      BY <1>1, <1>3, <2>1 DEF NoArtifact
    <2>3. /\ artifact'[c.art].public = public
          /\ \A a \in Artifacts : a # c.art => artifact'[a] = artifact[a]
          /\ linked' = [linked EXCEPT ![c.art] = LinkAction(FALSE, public, @)]
      BY <1>1, <1>2, <1>6 DEF CommitNewArtifact
    <2> QED
      BY <1>5, <2>2, <2>3
  <1>7. CASE ChangeAccessSetting(c)
    <2>1. PICK from \in BOOLEAN : from = artifact[c.art].public
      BY <1>1, <1>3
    <2>2. PICK to \in BOOLEAN : to = c.arg
      BY <1>1, <1>7 DEF Formed, ChangeAccessSetting
    <2>3. artifact' = [artifact EXCEPT ![c.art].public = to]
      BY <1>7, <2>2 DEF ChangeAccessSetting
    <2>4. linked' = [linked EXCEPT ![c.art] = LinkAction(from, to, @)]
      BY <1>7, <2>1, <2>2 DEF ChangeAccessSetting, AccessFrom
    <2>5. artifact'[c.art].public = to /\ \A a \in Artifacts : a # c.art => artifact'[a] = artifact[a]
      BY <1>1, <1>2, <2>3 DEF ArtifactRows
    <2>6. from <=> linked[c.art] = "enable"
      BY <1>1, <1>3, <2>1
    <2> QED
      BY <1>5, <2>4, <2>5, <2>6
  <1>8. CASE \/ CommitVersion(c) \/ StageCandidate(c) \/ PromoteCandidate(c) \/ CloseCandidate(c)
             \/ RestoreVersion(c) \/ ChangeTags(c) \/ DeleteArtifact(c)
             \/ \E n \in Names : RenameArtifact(c, n)
    <2>1. linked' = linked
      BY <1>8 DEF CommitVersion, StageCandidate, PromoteCandidate, CloseCandidate, RestoreVersion,
                  ChangeTags, DeleteArtifact, RenameArtifact
    <2>2. \/ artifact' = artifact \/ artifact' = [artifact EXCEPT ![c.art].cur = c.arg]
          \/ artifact' = [artifact EXCEPT ![c.art].tags = c.arg]
          \/ artifact' = [artifact EXCEPT ![c.art].st = "deleted"]
          \/ artifact' = [artifact EXCEPT ![c.art].name = c.arg]
      BY <1>8 DEF CommitVersion, StageCandidate, PromoteCandidate, CloseCandidate, RestoreVersion,
                  ChangeTags, DeleteArtifact, RenameArtifact
    <2>3. \A a \in Artifacts : artifact'[a].public = artifact[a].public
      BY <1>1, <1>2, <2>2 DEF ArtifactRows
    <2> QED
      BY <1>4, <2>1, <2>3
  <1> QED
    BY <1>6, <1>7, <1>8 DEF Write

\* Without D1 no command is ever in flight.
LEMMA NoCalls ==
  ASSUME ~D1
  PROVE  Spec => []NoneInFlight
  <1>1. HistoryInit => NoneInFlight
    BY DEF HistoryInit, NoneInFlight
  <1>2. NoneInFlight /\ [HistoryNext]_historyVars => NoneInFlight'
    <2>1. ASSUME NEW c, Write(c) PROVE calls' = calls \ {c}
      BY <2>1 DEF Write, CommitNewArtifact, CommitVersion, StageCandidate, PromoteCandidate, CloseCandidate,
                  RestoreVersion, ChangeAccessSetting, RenameArtifact, ChangeTags, DeleteArtifact, Record
    <2> QED
      BY <2>1 DEF NoneInFlight, HistoryNext, historyVars, Ask, SetProjectArchive, StoreGitHistorySetting
  <1> QED
    BY <1>1, <1>2, PTL DEF Spec

\* Theorem: where an operation is one transaction (SQLite, Postgres), the latest public-link
\* action of an artifact says what its access setting is.
THEOREM LinkLog ==
  ASSUME ~D1
  PROVE  Spec => []LinkLogAgrees
  <1>1. HistoryInit => LinkLogAgrees
    BY DEF HistoryInit, LinkLogAgrees, NoArtifact
  <1>2. HistoryInv /\ NoneInFlight /\ LinkLogAgrees /\ [HistoryNext]_historyVars => LinkLogAgrees'
    <2> SUFFICES ASSUME HistoryInv, NoneInFlight, LinkLogAgrees, [HistoryNext]_historyVars
                 PROVE  LinkLogAgrees'
      OBVIOUS
    <2>1. ASSUME UNCHANGED <<artifact, linked>>
          PROVE  LinkLogAgrees'
      BY <2>1 DEF LinkLogAgrees
    <2>2. CASE UNCHANGED historyVars
      BY <2>1, <2>2 DEF historyVars
    <2>3. CASE SetProjectArchive \/ StoreGitHistorySetting
      BY <2>1, <2>3 DEF SetProjectArchive, StoreGitHistorySetting, rows, records
    <2>4. ASSUME NEW c \in Commands, Ask(c) \/ Write(c)
          PROVE  LinkLogAgrees'
      BY <2>4, WriteLinks DEF Ask
    <2> QED
      BY <2>2, <2>3, <2>4 DEF HistoryNext, NoneInFlight
  <1> QED
    BY <1>1, <1>2, HistoryInvariant, NoCalls, PTL DEF Spec

\* Theorem: where an operation is one transaction, an archived project gains no artifact
\* and no version.
THEOREM ArchivedClosed ==
  ASSUME ~D1
  PROVE  Spec => ArchivedStaysClosed
  <1> DEFINE A == archived /\ archived' =>
                    \A v \in Versions : version[v].st = "none" => version'[v].st = "none"
  <1>1. HistoryInv /\ NoneInFlight /\ [HistoryNext]_historyVars => A
    <2> SUFFICES ASSUME HistoryInv, NoneInFlight, [HistoryNext]_historyVars, archived,
                        NEW v \in Versions, version[v].st = "none"
                 PROVE  version'[v].st = "none"
      OBVIOUS
    <2>1. ASSUME version' = version
          PROVE  version'[v].st = "none"
      BY <2>1
    <2>2. CASE UNCHANGED historyVars
      BY <2>1, <2>2 DEF historyVars
    <2>3. CASE SetProjectArchive \/ StoreGitHistorySetting
      BY <2>1, <2>3 DEF SetProjectArchive, StoreGitHistorySetting, rows
    <2>4. ASSUME NEW c \in Commands, Ask(c)
          PROVE  version'[v].st = "none"
      BY <2>1, <2>4 DEF Ask
    <2>5. ASSUME NEW c \in Commands, Write(c)
          PROVE  version'[v].st = "none"
      <3>1. ~CommitVersion(c) /\ ~StageCandidate(c) /\ \A public \in BOOLEAN : ~CommitNewArtifact(c, public)
        BY DEF CommitVersion, StageCandidate, CommitNewArtifact, Ready, Checked, Publishing
      <3>2. \/ version' = version
            \/ OpenCandidate(c.arg, c.art)
               /\ \E st \in Closing \cup {"promoted"} : version' = [version EXCEPT ![c.arg].st = st]
        BY <2>5, <3>1 DEF Write, PromoteCandidate, CloseCandidate, RestoreVersion, ChangeAccessSetting,
                          RenameArtifact, ChangeTags, DeleteArtifact
      <3>3. version \in [Versions -> VersionRows]
        BY DEF HistoryInv, TypeOK
      <3> QED
        BY <2>1, <3>2, <3>3 DEF OpenCandidate
    <2> QED
      BY <2>2, <2>3, <2>4, <2>5 DEF HistoryNext, NoneInFlight
  <1>2. ArchivedStaysClosed <=> [][A]_historyVars
    BY DEF ArchivedStaysClosed
  <1> QED
    BY <1>1, <1>2, HistoryInvariant, NoCalls, PTL DEF Spec

==============================================================================
