------------------------ MODULE AgentDispatchProofs ------------------------
(***************************************************************************)
(* Proofs about AgentDispatch for every value of its constants.            *)
(***************************************************************************)
EXTENDS AgentDispatch, TLAPS, FiniteSetTheorems

USE DispatchTimes, DispatchNames

\* The conjuncts of TypeOK, one per variable that rows refer to.
AgentsTyped == agent \in [Agents -> AgentRows]
RowsTyped ==
    /\ dispatch \in [Dispatches -> DispatchRows]
    /\ \A d \in Dispatches : dispatch[d].st # "none" => dispatch[d].agent \in Agents
ThreadsTyped == thread \in [Threads -> ThreadRows]
RevisionsTyped == revision \in [Artifacts -> Nat]
CallsTyped == calls \subseteq CallRows /\ \A c \in calls : NamesItsRows(c)
ViewersTyped == viewer \in [Polled -> ViewerRows]

\* TypeOK is the conjunction of its parts, now and in the next state.
LEMMA TypeParts ==
  /\ TypeOK => now \in Nat /\ AgentsTyped /\ RowsTyped /\ ThreadsTyped /\ RevisionsTyped
               /\ CallsTyped /\ ViewersTyped
  /\ now' \in Nat /\ AgentsTyped' /\ RowsTyped' /\ ThreadsTyped' /\ RevisionsTyped'
       /\ CallsTyped' /\ ViewersTyped' => TypeOK'
  BY DEF TypeOK, AgentsTyped, RowsTyped, ThreadsTyped, RevisionsTyped, CallsTyped, ViewersTyped

\* A variable that does not change keeps its part of TypeOK.
LEMMA SameParts ==
  /\ AgentsTyped /\ UNCHANGED agent => AgentsTyped'
  /\ RowsTyped /\ UNCHANGED dispatch => RowsTyped'
  /\ ThreadsTyped /\ UNCHANGED thread => ThreadsTyped'
  /\ RevisionsTyped /\ UNCHANGED revision => RevisionsTyped'
  /\ CallsTyped /\ UNCHANGED calls => CallsTyped'
  /\ ViewersTyped /\ UNCHANGED viewer => ViewersTyped'
<1>1. CallsTyped /\ UNCHANGED calls => CallsTyped'
  BY DEF CallsTyped, NamesItsRows
<1> QED BY <1>1 DEF AgentsTyped, RowsTyped, ThreadsTyped, RevisionsTyped, ViewersTyped

-----------------------------------------------------------------------------
(* The helpers keep the types.                                             *)

\* bumpCommentRevision counts upwards in Nat.
LEMMA BumpTyped ==
  ASSUME RevisionsTyped, NEW arts, Bump(arts)
  PROVE  RevisionsTyped'
  BY DEF RevisionsTyped, Bump

\* Clearing markers keeps thread rows typed.
LEMMA ReleasedTyped ==
  ASSUME ThreadsTyped, NEW ds
  PROVE  Released(ds) \in [Threads -> ThreadRows]
  BY DEF ThreadsTyped, Released, ThreadRows

\* Marking a bundle keeps thread rows typed.
LEMMA MarkedByTyped ==
  ASSUME ThreadsTyped, NEW c \in CallRows, c.d \in Dispatches
  PROVE  MarkedBy(c) \in [Threads -> ThreadRows]
  BY DEF ThreadsTyped, MarkedBy, ThreadRows

\* A re-queued row keeps its agent and bundle, and only a claim is re-queued.
LEMMA RequeuedTyped ==
  ASSUME NEW x \in DispatchRows, NEW t
  PROVE  /\ Requeued(x, t) \in DispatchRows
         /\ Requeued(x, t).agent = x.agent
         /\ Requeued(x, t).bundle = x.bundle
         /\ Requeued(x, t) = x \/ (x.st = "claimed" /\ Requeued(x, t).st = "queued")
  BY DEF Requeued, DispatchRows, Holding, Settled, NoTime

\* A failed row keeps its agent and bundle.
LEMMA FailedTyped ==
  ASSUME NEW x \in DispatchRows
  PROVE  /\ Failed(x) \in DispatchRows
         /\ Failed(x).st = "failed"
         /\ Failed(x).agent = x.agent
         /\ Failed(x).bundle = x.bundle
  BY DEF Failed, DispatchRows, Holding, Settled, NoTime

\* The lazy transitions keep agent and bundle, and create no dispatch.
LEMMA AfterLazyTyped ==
  ASSUME NEW x \in DispatchRows, NEW t
  PROVE  /\ AfterLazy(x, t) \in DispatchRows
         /\ AfterLazy(x, t).agent = x.agent
         /\ AfterLazy(x, t).bundle = x.bundle
         /\ x.st = "none" => AfterLazy(x, t).st = "none"
<1>1. [x EXCEPT !.st = "addressed"] \in DispatchRows
  BY DEF DispatchRows, Holding, Settled
<1>2. [x EXCEPT !.st = "addressed"].agent = x.agent /\ [x EXCEPT !.st = "addressed"].bundle = x.bundle
  BY DEF DispatchRows
<1>3. x.st = "none" => ~LazilyFails(x, t) /\ ~FullyResolved(x)
  BY RequeuedTyped DEF LazilyFails, FullyResolved
<1> QED BY <1>1, <1>2, <1>3, RequeuedTyped, FailedTyped DEF AfterLazy

\* A claimed row keeps its agent and bundle.
LEMMA ClaimedTyped ==
  ASSUME NEW x \in DispatchRows, NEW t \in Nat
  PROVE  /\ Claimed(x, t) \in DispatchRows
         /\ Claimed(x, t).st = "claimed"
         /\ Claimed(x, t).agent = x.agent
         /\ Claimed(x, t).bundle = x.bundle
<1>1. t + Lease \in Nat
  OBVIOUS
<1> QED BY <1>1 DEF Claimed, DispatchRows, Holding, Settled

\* The sweep of a poll re-queues claims and changes nothing else.
LEMMA SweptTyped ==
  ASSUME RowsTyped, NEW c \in CallRows
  PROVE  /\ Swept(c) \in [Dispatches -> DispatchRows]
         /\ \A d \in Dispatches :
              /\ Swept(c)[d].agent = dispatch[d].agent
              /\ Swept(c)[d].bundle = dispatch[d].bundle
              /\ \/ Swept(c)[d] = dispatch[d]
                 \/ dispatch[d].st = "claimed" /\ Swept(c)[d].st = "queued"
<1>1. \A d \in Dispatches : dispatch[d] \in DispatchRows
  BY DEF RowsTyped
<1>2. \A d \in Dispatches : Swept(c)[d] = IF dispatch[d].agent = c.agent THEN Requeued(dispatch[d], c.t) ELSE dispatch[d]
  BY DEF Swept
<1>3. \A d \in Dispatches : Requeued(dispatch[d], c.t) = dispatch[d] \/
         (dispatch[d].st = "claimed" /\ Requeued(dispatch[d], c.t).st = "queued")
  BY <1>1, RequeuedTyped
<1>4. \A d \in Dispatches : Requeued(dispatch[d], c.t) \in DispatchRows
         /\ Requeued(dispatch[d], c.t).agent = dispatch[d].agent
         /\ Requeued(dispatch[d], c.t).bundle = dispatch[d].bundle
  BY <1>1, RequeuedTyped
<1>5. \A d \in Dispatches : Swept(c)[d] \in DispatchRows
  BY <1>1, <1>2, <1>4
<1>6. Swept(c) = [d \in Dispatches |-> Swept(c)[d]]
  BY DEF Swept
<1>7. Swept(c) \in [Dispatches -> DispatchRows]
  BY <1>5, <1>6
<1> QED BY <1>2, <1>3, <1>4, <1>7

\* A heartbeat keeps agent rows typed.
LEMMA HeartbeatTyped ==
  ASSUME AgentsTyped, NEW c \in CallRows, Heartbeat(c)
  PROVE  AgentsTyped'
<1>1. agent \in [Agents -> AgentRows] /\ c.t \in Nat
  BY DEF AgentsTyped, CallRows
<1>2. CASE c.agent \in Agents
  <2>1. PICK row : row = [agent[c.agent] EXCEPT !.seen = IF agent[c.agent].st = "here" THEN c.t ELSE @]
    OBVIOUS
  <2>2. row \in AgentRows
    BY <1>1, <1>2, <2>1 DEF AgentRows
  <2>3. agent' = [agent EXCEPT ![c.agent] = row]
    BY <2>1 DEF Heartbeat
  <2> QED BY <1>1, <1>2, <2>2, <2>3 DEF AgentsTyped
<1>3. CASE c.agent \notin Agents
  <2>1. agent' = agent
    BY <1>1, <1>3 DEF Heartbeat
  <2> QED BY <1>1, <2>1 DEF AgentsTyped
<1> QED BY <1>2, <1>3

\* Clearing keeps thread rows typed.
LEMMA ClearedTyped ==
  ASSUME ThreadsTyped, NEW cleared
  PROVE  Cleared(cleared) \in [Threads -> ThreadRows]
  BY DEF ThreadsTyped, Cleared, Gone, ThreadRows

\* A listing is a page.
LEMMA PageTyped == ASSUME ThreadsTyped, NEW x PROVE Page(x) \in Pages
  BY DEF ThreadsTyped, Page, Pages, Visible, Exists, ThreadRows

\* A comment transaction that writes a typed row keeps the types.
LEMMA ChangeTyped ==
  ASSUME ThreadsTyped, RevisionsTyped, NEW t \in Threads, NEW row \in ThreadRows,
         ChangeThread(t, row)
  PROVE  ThreadsTyped' /\ RevisionsTyped'
  BY BumpTyped DEF ThreadsTyped, ChangeThread

-----------------------------------------------------------------------------
(* Every action keeps the types.                                           *)

\* A service call carries the names its transaction needs.
LEMMA CallRowTyped ==
  ASSUME now \in Nat, NEW op \in Ops, NEW a \in Agents \cup {None},
         NEW d \in Dispatches \cup {None}, NEW b \in SUBSET Threads,
         op \notin {"cancel", "clear", "cleared"} => a \in Agents,
         op \in {"create", "cancel", "take", "delivered", "failed"} => d \in Dispatches
  PROVE  Call(op, a, d, b) \in CallRows /\ NamesItsRows(Call(op, a, d, b))
  BY DEF Call, CallRows, NamesItsRows

\* Adding such a call keeps the calls typed.
LEMMA AskTyped ==
  ASSUME CallsTyped, NEW c \in CallRows, NamesItsRows(c), Ask(c)
  PROVE  CallsTyped'
  BY DEF CallsTyped, Ask, NamesItsRows

\* So does removing calls.
LEMMA FewerCalls ==
  ASSUME CallsTyped, calls' \subseteq calls
  PROVE  CallsTyped'
  BY DEF CallsTyped, NamesItsRows

\* Registering, disconnecting and polling keep the types.
LEMMA AgentTypes ==
  ASSUME TypeOK, NEW a \in Agents, AgentStep(a)
  PROVE  TypeOK'
<1> USE TypeParts, SameParts
<1>1. CASE RegisterAgent(a)
  <2>1. AgentsTyped'
    BY <1>1 DEF RegisterAgent, AgentsTyped, AgentRows
  <2> QED BY <1>1, <2>1 DEF RegisterAgent
<1>2. CASE DisconnectAgent(a)
  <2>1. AgentsTyped'
    BY <1>2 DEF DisconnectAgent, AgentsTyped, AgentRows
  <2> QED BY <1>2, <2>1 DEF DisconnectAgent
<1>3. CASE AskClaim(a)
  <2>1. Call("claim", a, None, {}) \in CallRows /\ NamesItsRows(Call("claim", a, None, {}))
    BY CallRowTyped DEF Ops
  <2>2. CallsTyped'
    BY <1>3, <2>1, AskTyped DEF AskClaim
  <2> QED BY <1>3, <2>2 DEF AskClaim
<1> QED BY <1>1, <1>2, <1>3 DEF AgentStep

\* Reaping agents keeps the types.
LEMMA ListAgentsTypes == ASSUME TypeOK, ListAgents PROVE TypeOK'
<1>1. AgentsTyped'
  BY TypeParts DEF ListAgents, AgentsTyped, AgentRows
<1> QED BY <1>1, TypeParts, SameParts DEF ListAgents

\* A dispatch function whose rows are typed and keep their agents.
LEMMA RowsKept ==
  ASSUME RowsTyped, dispatch' \in [Dispatches -> DispatchRows],
         \A d \in Dispatches : dispatch'[d].agent = dispatch[d].agent
                                /\ (dispatch[d].st = "none" => dispatch'[d].st = "none")
  PROVE  RowsTyped'
  BY DEF RowsTyped

\* The same for an update of one row.
LEMMA OneRowKept ==
  ASSUME RowsTyped, NEW d \in Dispatches, NEW x \in DispatchRows,
         x.agent = dispatch[d].agent, dispatch[d].st = "none" => x.st = "none",
         dispatch' = [dispatch EXCEPT ![d] = x]
  PROVE  RowsTyped'
  BY DEF RowsTyped

\* findDispatch keeps the types it touches.
LEMMA FindTypes ==
  ASSUME TypeOK, NEW d \in Dispatches, NEW t, FindDispatch(d, t)
  PROVE  RowsTyped' /\ ThreadsTyped' /\ RevisionsTyped'
<1> USE TypeParts, SameParts
<1>1. dispatch[d] \in DispatchRows
  BY DEF RowsTyped
<1>2. RowsTyped'
  BY <1>1, AfterLazyTyped, OneRowKept DEF FindDispatch
<1>3. ThreadsTyped'
  BY ReleasedTyped DEF FindDispatch, ThreadsTyped
<1>4. RevisionsTyped'
  BY BumpTyped DEF FindDispatch
<1> QED BY <1>2, <1>3, <1>4

\* getDispatch keeps the types.
LEMMA GetTypes == ASSUME TypeOK, NEW d \in Dispatches, GetDispatch(d) PROVE TypeOK'
  BY TypeParts, SameParts, FindTypes DEF GetDispatch

\* The reads before a send, a cancel and a report keep the types.
LEMMA AskTypes == ASSUME TypeOK, NEW d \in Dispatches, AskStep(d) PROVE TypeOK'
<1> USE TypeParts, SameParts
<1>1. ASSUME NEW a \in Agents, NEW b \in SUBSET Threads, AskCreate(a, d, b) PROVE TypeOK'
  <2>1. Call("create", a, d, b) \in CallRows /\ NamesItsRows(Call("create", a, d, b))
    BY CallRowTyped DEF Ops
  <2>2. CallsTyped'
    BY <1>1, <2>1, AskTyped DEF AskCreate
  <2> QED BY <1>1, <2>2 DEF AskCreate
<1>2. CASE AskCancel(d)
  <2>1. Call("cancel", None, d, {}) \in CallRows /\ NamesItsRows(Call("cancel", None, d, {}))
    BY CallRowTyped DEF Ops
  <2>2. CallsTyped'
    BY <1>2, <2>1, AskTyped DEF AskCancel
  <2> QED BY <1>2, <2>2, FindTypes DEF AskCancel
<1>3. ASSUME NEW op \in {"delivered", "failed"}, AskReport(d, op) PROVE TypeOK'
  <2>1. dispatch[d].agent \in Agents
    BY <1>3 DEF AskReport, RowsTyped
  <2>2. /\ Call(op, dispatch[d].agent, d, {}) \in CallRows
        /\ NamesItsRows(Call(op, dispatch[d].agent, d, {}))
    BY <2>1, CallRowTyped DEF Ops
  <2>3. CallsTyped'
    BY <1>3, <2>2, AskTyped DEF AskReport
  <2> QED BY <1>3, <2>3 DEF AskReport
<1> QED BY <1>1, <1>2, <1>3 DEF AskStep

\* listDispatches keeps the types.
LEMMA ListTypes == ASSUME TypeOK, ListDispatches PROVE TypeOK'
<1> USE TypeParts, SameParts
<1>1. \A d \in Dispatches : dispatch[d] \in DispatchRows
  BY DEF RowsTyped
<1>2. /\ dispatch' = [d \in Dispatches |-> AfterLazy(dispatch[d], now)]
      /\ thread' = Released({d \in Dispatches : LazilyFails(dispatch[d], now)})
  BY DEF ListDispatches
<1>3. RowsTyped'
  <2>1. \A d \in Dispatches : AfterLazy(dispatch[d], now) \in DispatchRows
          /\ AfterLazy(dispatch[d], now).agent = dispatch[d].agent
          /\ (dispatch[d].st = "none" => AfterLazy(dispatch[d], now).st = "none")
    BY <1>1, AfterLazyTyped
  <2> QED BY <1>2, <2>1, RowsKept
<1>4. ThreadsTyped'
  BY <1>2, ReleasedTyped DEF ThreadsTyped
<1>5. RevisionsTyped'
  <2> DEFINE failing == {d \in Dispatches : LazilyFails(dispatch[d], now)}
             n(x) == Cardinality({d \in failing : x \in MarkedArtifacts(d)})
  <2>1. \A x \in Artifacts : n(x) \in Nat
    BY FS_Subset, FS_CardinalityType
  <2>2. revision' = [x \in Artifacts |-> revision[x] + n(x)]
    BY DEF ListDispatches
  <2> HIDE DEF n
  <2> QED BY <2>1, <2>2 DEF RevisionsTyped
<1> QED BY <1>3, <1>4, <1>5 DEF ListDispatches

\* Every transaction of a call in flight keeps the types.
LEMMA CallTypes == ASSUME TypeOK, NEW c \in calls, CallStep(c) PROVE TypeOK'
<1> USE TypeParts, SameParts
<1>1. c \in CallRows /\ NamesItsRows(c)
  BY DEF CallsTyped
<1>2. /\ c.op \in Ops /\ c.t \in Nat /\ c.bundle \in SUBSET Threads
      /\ c.agent \in Agents \cup {None}
  BY <1>1 DEF CallRows
<1>3. \A d \in Dispatches : dispatch[d] \in DispatchRows
  BY DEF RowsTyped
<1>4. CASE CreateDispatch(c)
  <2>1. c.d \in Dispatches /\ c.agent \in Agents
    BY <1>1, <1>4 DEF CreateDispatch, NamesItsRows
  <2> DEFINE x == [st |-> "queued", agent |-> c.agent, bundle |-> c.bundle,
                   lease |-> NoTime, created |-> c.t]
  <2>2. x \in DispatchRows /\ x.agent \in Agents
    BY <1>2, <2>1 DEF DispatchRows, Holding, Settled, NoTime
  <2>3. dispatch' = [dispatch EXCEPT ![c.d] = x]
    BY <1>4 DEF CreateDispatch
  <2> HIDE DEF x
  <2>4. RowsTyped'
    BY <2>1, <2>2, <2>3 DEF RowsTyped
  <2>5. ThreadsTyped'
    BY <1>1, <1>4, <2>1, MarkedByTyped DEF CreateDispatch, ThreadsTyped
  <2>6. RevisionsTyped' /\ CallsTyped'
    BY <1>4, BumpTyped, FewerCalls DEF CreateDispatch
  <2> QED BY <1>4, <2>4, <2>5, <2>6 DEF CreateDispatch
<1>5. CASE CancelDispatch(c)
  <2>1. c.d \in Dispatches
    BY <1>1, <1>5 DEF CancelDispatch, NamesItsRows
  <2>2. dispatch[c.d].st # "none"
    BY <1>5 DEF CancelDispatch, Cancelable
  <2>3. /\ [dispatch[c.d] EXCEPT !.st = "canceled", !.lease = NoTime] \in DispatchRows
        /\ [dispatch[c.d] EXCEPT !.st = "canceled", !.lease = NoTime].agent = dispatch[c.d].agent
    BY <1>3, <2>1 DEF DispatchRows, Settled, Holding, NoTime
  <2>4. dispatch' = [dispatch EXCEPT ![c.d] = [dispatch[c.d] EXCEPT !.st = "canceled", !.lease = NoTime]]
    BY <1>5, <2>1 DEF CancelDispatch, RowsTyped
  <2>5. RowsTyped'
    BY <2>1, <2>2, <2>3, <2>4, OneRowKept
  <2>6. ThreadsTyped' /\ RevisionsTyped' /\ CallsTyped'
    BY <1>5, ReleasedTyped, BumpTyped, FewerCalls DEF CancelDispatch, ThreadsTyped
  <2> QED BY <1>5, <2>5, <2>6 DEF CancelDispatch
<1>6. CASE ClaimNext(c)
  <2> DEFINE rows == Swept(c)
  <2>1. /\ rows \in [Dispatches -> DispatchRows]
        /\ \A d \in Dispatches : rows[d].agent = dispatch[d].agent
                                  /\ (dispatch[d].st = "none" => rows[d].st = "none")
    BY <1>1, SweptTyped
  <2>2. \A d \in Dispatches : Claimed(rows[d], c.t) \in DispatchRows
                               /\ Claimed(rows[d], c.t).agent = rows[d].agent
    BY <1>2, <2>1, ClaimedTyped
  <2>3. \/ \E d \in Oldest(rows, c.agent) : dispatch' = [rows EXCEPT ![d] = Claimed(rows[d], c.t)]
        \/ dispatch' = rows
    BY <1>6 DEF ClaimNext
  <2>4. \A d \in Oldest(rows, c.agent) : d \in Dispatches /\ dispatch[d].st # "none"
    BY <2>1 DEF Oldest, Queued
  <2> HIDE DEF rows
  <2>5. RowsTyped'
    BY <2>1, <2>2, <2>3, <2>4, RowsKept
  <2>6. AgentsTyped' /\ CallsTyped'
    BY <1>1, <1>6, HeartbeatTyped, FewerCalls DEF ClaimNext
  <2> QED BY <1>6, <2>5, <2>6 DEF ClaimNext
<1>7. CASE ClaimSweep(c)
  <2>1. RowsTyped'
    BY <1>1, <1>7, SweptTyped, RowsKept DEF ClaimSweep
  <2>2. [c EXCEPT !.op = "active?"] \in CallRows /\ NamesItsRows([c EXCEPT !.op = "active?"])
    BY <1>1, <1>7 DEF ClaimSweep, CallRows, NamesItsRows, Ops
  <2>3. AgentsTyped' /\ CallsTyped'
    BY <1>1, <1>7, <2>2, HeartbeatTyped DEF ClaimSweep, CallsTyped, NamesItsRows
  <2> QED BY <1>7, <2>1, <2>3 DEF ClaimSweep
<1>8. CASE ClaimCheckActive(c)
  <2>1. [c EXCEPT !.op = "oldest?"] \in CallRows /\ NamesItsRows([c EXCEPT !.op = "oldest?"])
    BY <1>1, <1>8 DEF ClaimCheckActive, CallRows, NamesItsRows, Ops
  <2>2. CallsTyped'
    BY <1>8, <2>1 DEF ClaimCheckActive, CallsTyped, NamesItsRows
  <2> QED BY <1>8, <2>2 DEF ClaimCheckActive
<1>9. CASE ClaimSelect(c)
  <2>1. CallsTyped'
    <3>1. ASSUME NEW d \in Oldest(dispatch, c.agent),
                 calls' = (calls \ {c}) \cup {[c EXCEPT !.op = "take", !.d = d]}
          PROVE  CallsTyped'
      <4>1. d \in Dispatches
        BY DEF Oldest, Queued
      <4>2. /\ [c EXCEPT !.op = "take", !.d = d] \in CallRows
            /\ NamesItsRows([c EXCEPT !.op = "take", !.d = d])
        BY <1>1, <1>9, <4>1 DEF ClaimSelect, CallRows, NamesItsRows, Ops
      <4> QED BY <3>1, <4>2 DEF CallsTyped, NamesItsRows
    <3> QED BY <1>9, <3>1, FewerCalls DEF ClaimSelect
  <2> QED BY <1>9, <2>1 DEF ClaimSelect
<1>10. CASE ClaimTake(c)
  <2>1. c.d \in Dispatches
    BY <1>1, <1>10 DEF ClaimTake, NamesItsRows
  <2>2. RowsTyped'
    BY <1>2, <1>3, <1>10, <2>1, ClaimedTyped, OneRowKept DEF ClaimTake
  <2>3. CallsTyped'
    BY <1>10, FewerCalls DEF ClaimTake
  <2> QED BY <1>10, <2>2, <2>3 DEF ClaimTake
<1>11. CASE MarkDelivered(c)
  <2>1. c.d \in Dispatches
    BY <1>1, <1>11 DEF MarkDelivered, NamesItsRows
  <2>2. /\ [dispatch[c.d] EXCEPT !.st = "delivered"] \in DispatchRows
        /\ [dispatch[c.d] EXCEPT !.st = "delivered"].agent = dispatch[c.d].agent
    BY <1>3, <2>1 DEF DispatchRows, Settled, Holding
  <2>3. dispatch' = [dispatch EXCEPT ![c.d] = [dispatch[c.d] EXCEPT !.st = "delivered"]]
    BY <1>11, <2>1 DEF MarkDelivered, RowsTyped
  <2>4. RowsTyped'
    BY <1>11, <2>1, <2>2, <2>3, OneRowKept DEF MarkDelivered
  <2>5. CallsTyped'
    BY <1>11, FewerCalls DEF MarkDelivered
  <2> QED BY <1>11, <2>4, <2>5 DEF MarkDelivered
<1>12. CASE MarkFailed(c)
  <2>1. c.d \in Dispatches
    BY <1>1, <1>12 DEF MarkFailed, NamesItsRows
  <2>2. RowsTyped'
    BY <1>3, <1>12, <2>1, FailedTyped, OneRowKept DEF MarkFailed
  <2>3. ThreadsTyped' /\ RevisionsTyped' /\ CallsTyped'
    BY <1>12, ReleasedTyped, BumpTyped, FewerCalls DEF MarkFailed, ThreadsTyped
  <2> QED BY <1>12, <2>2, <2>3 DEF MarkFailed
<1>13. CASE DropCall(c)
  BY <1>13, FewerCalls DEF DropCall
<1>14. CASE ClearDelete(c)
  <2>1. [c EXCEPT !.op = "cleared"] \in CallRows /\ NamesItsRows([c EXCEPT !.op = "cleared"])
    BY <1>1, <1>14 DEF ClearDelete, CallRows, NamesItsRows, Ops
  <2>2. CallsTyped' /\ ThreadsTyped'
    BY <1>14, <2>1, ClearedTyped DEF ClearDelete, CallsTyped, NamesItsRows, ThreadsTyped
  <2> QED BY <1>14, <2>2 DEF ClearDelete
<1>15. CASE ClearBump(c)
  BY <1>15, BumpTyped, FewerCalls DEF ClearBump
<1> QED BY <1>4, <1>5, <1>6, <1>7, <1>8, <1>9, <1>10, <1>11, <1>12, <1>13, <1>14, <1>15 DEF CallStep

\* What comment transactions write into a thread row is typed.
LEMMA ThreadRowsTyped ==
  ASSUME NEW row \in ThreadRows
  PROVE  /\ Rewritten(row) \in ThreadRows
         /\ [row EXCEPT !.st = "resolved"] \in ThreadRows
         /\ Gone(row) \in ThreadRows
         /\ [Rewritten(row) EXCEPT !.replies = @ + 1] \in ThreadRows
         /\ row.replies > 0 => [Rewritten(row) EXCEPT !.replies = @ - 1] \in ThreadRows
         /\ AfterReopen(row) \in ThreadRows
         /\ [NoThread EXCEPT !.st = "open"] \in ThreadRows
<1>1. row.text + 1 \in Nat /\ row.replies + 1 \in Nat
  BY DEF ThreadRows
<1>2. row.replies > 0 => row.replies - 1 \in Nat
  BY DEF ThreadRows
<1>3. Rewritten(row) \in ThreadRows /\ Rewritten(row).replies = row.replies
  BY <1>1 DEF Rewritten, ThreadRows
<1>4. /\ [Rewritten(row) EXCEPT !.replies = @ + 1] \in ThreadRows
      /\ row.replies > 0 => [Rewritten(row) EXCEPT !.replies = @ - 1] \in ThreadRows
  BY <1>1, <1>2, <1>3 DEF ThreadRows
<1>5. AfterReopen(row) \in ThreadRows
  BY DEF AfterReopen, ThreadRows
<1> QED BY <1>3, <1>4, <1>5 DEF ThreadRows, Gone, NoThread

\* Comment transactions keep the types.
LEMMA CommentTypes == ASSUME TypeOK, NEW t \in Threads, CommentStep(t) PROVE TypeOK'
<1> USE TypeParts, SameParts
<1>1. thread[t] \in ThreadRows
  BY DEF ThreadsTyped
<1>2. PICK row \in ThreadRows : ChangeThread(t, row)
  BY <1>1, ThreadRowsTyped DEF CommentStep, CreateThread, EditThread, ResolveThread,
     ReopenThread, DeleteThread, CreateReply, UpdateReply, DeleteReply
<1> QED BY <1>2, ChangeTyped DEF ChangeThread

\* clearThreads keeps the types, in one transaction or with its listing apart.
LEMMA ClearTypes ==
  ASSUME TypeOK, NEW x, NEW states, ClearThreads(x, states) \/ ClearList(x, states)
  PROVE  TypeOK'
<1> USE TypeParts, SameParts
<1>1. CASE ClearThreads(x, states)
  <2>1. ThreadsTyped'
    BY <1>1, ClearedTyped DEF ClearThreads, ThreadsTyped
  <2> QED BY <1>1, <2>1, BumpTyped DEF ClearThreads
<1>2. CASE ClearList(x, states)
  <2>1. Clearable(x, states) \in SUBSET Threads
    BY DEF Clearable
  <2> DEFINE c == Call("clear", None, None, Clearable(x, states))
  <2>2. c \in CallRows /\ NamesItsRows(c)
    BY <2>1, CallRowTyped DEF Ops
  <2>3. Ask(c)
    BY <1>2 DEF ClearList
  <2> HIDE DEF c
  <2>4. CallsTyped'
    BY <2>2, <2>3, AskTyped
  <2> QED BY <1>2, <2>4 DEF ClearList
<1> QED BY <1>1, <1>2

\* A viewer's poll keeps the types.
LEMMA PollTypes == ASSUME TypeOK, NEW x \in Polled, PollStep(x) PROVE TypeOK'
<1> USE TypeParts, SameParts
<1>1. Page(x) \in Pages /\ viewer[x] \in ViewerRows /\ revision[x] \in Nat
  BY PageTyped DEF ViewersTyped, RevisionsTyped
<1>2. \A r \in Nat, p \in Pages : [NoPage EXCEPT !.rev = r, !.page = p] \in ViewerRows
  BY DEF NoPage, ViewerRows, Pages, NoTime
<1>3. viewer[x].rows \in Pages
  BY <1>1 DEF ViewerRows
<1>4. [viewer[x] EXCEPT !.rows = Page(x), !.reading = TRUE] \in ViewerRows
  BY <1>1 DEF ViewerRows
<1>5. CASE PollPage(x)
  <2>1. ViewersTyped'
    BY <1>1, <1>2, <1>5 DEF PollPage, ViewersTyped
  <2> QED BY <1>5, <2>1 DEF PollPage
<1>6. CASE PollRows(x)
  <2>1. viewer' = [viewer EXCEPT ![x] = [viewer[x] EXCEPT !.rows = Page(x), !.reading = TRUE]]
    BY <1>6 DEF PollRows, ViewersTyped
  <2>2. ViewersTyped'
    BY <1>4, <2>1 DEF ViewersTyped
  <2> QED BY <1>6, <2>2 DEF PollRows
<1>7. CASE PollRevision(x)
  <2>1. ViewersTyped'
    BY <1>1, <1>2, <1>3, <1>7 DEF PollRevision, ViewersTyped
  <2> QED BY <1>7, <2>1 DEF PollRevision
<1> QED BY <1>5, <1>6, <1>7 DEF PollStep

\* TypeOK is inductive.
LEMMA TypesKept == TypeOK /\ [Next]_vars => TypeOK'
<1> SUFFICES ASSUME TypeOK, [Next]_vars PROVE TypeOK'
  OBVIOUS
<1> USE TypeParts, SameParts
<1>1. CASE UNCHANGED vars
  BY <1>1 DEF vars
<1>2. CASE Tick
  <2>1. now' \in Nat
    BY <1>2 DEF Tick
  <2> QED BY <1>2, <2>1 DEF Tick
<1> QED BY <1>1, <1>2, AgentTypes, ListAgentsTypes, GetTypes, AskTypes, ListTypes, CallTypes,
           CommentTypes, ClearTypes, PollTypes DEF Next

\* Every row, call and page of AgentDispatch keeps its type.
THEOREM DispatchTypes == Spec => []TypeOK
<1>1. Init => TypeOK
  BY DEF Init, TypeOK, UnknownAgent, NoDispatch, NoThread, NoPage, AgentRows, DispatchRows,
         ThreadRows, ViewerRows, Pages, NoTime, Holding, Settled
<1> QED BY <1>1, TypesKept, PTL DEF Spec

-----------------------------------------------------------------------------
(* Bundles and markers.  BundleKept and NoStrandedThread are inductive     *)
(* together: a bundled thread keeps its marker because it cannot be sent   *)
(* again, and that rests on what its marker says.  That the thread is      *)
(* there at all needs a clearThreads that reads and deletes at once.       *)

Bundled(t, d) ==
    /\ thread[t].st # "none"
    /\ Exists(t) => thread[t].mark = d
    /\ AtomicClear => Exists(t)

BundleKept ==
    \A d \in Dispatches :
        dispatch[d].st \in {"queued", "claimed"} => \A t \in dispatch[d].bundle : Bundled(t, d)

Consistent == BundleKept /\ NoStrandedThread

\* What a transaction may do to a dispatch whose markers it keeps.
Moves(d) ==
    \/ dispatch'[d].st = dispatch[d].st
    \/ dispatch[d].st \in {"queued", "claimed"} /\ dispatch'[d].st \in Holding
    \/ /\ dispatch[d].st = "delivered" /\ dispatch'[d].st = "addressed"
       /\ \A t \in dispatch[d].bundle : thread[t].st = "resolved"

\* Dispatches move, and the markers of those that end are cleared.
LEMMA DispatchesMove ==
  ASSUME TypeOK, TypeOK', Consistent, NEW ds \in SUBSET Dispatches, thread' = Released(ds),
         \A d \in Dispatches : dispatch'[d].bundle = dispatch[d].bundle,
         \A d \in ds : dispatch'[d].st \notin {"queued", "claimed"},
         \A d \in Dispatches \ ds : Moves(d)
  PROVE  Consistent'
<1>1. \A t \in Threads : /\ thread[t].mark \in ds => thread'[t].mark = None
                         /\ thread[t].mark \notin ds => thread'[t].mark = thread[t].mark
                         /\ thread'[t].st = thread[t].st
  BY TypeParts DEF Released, ThreadsTyped, ThreadRows
<1>2. \A d \in Dispatches : dispatch[d].bundle \subseteq Threads
  BY TypeParts DEF RowsTyped, DispatchRows
<1>3. BundleKept'
  <2> SUFFICES ASSUME NEW d \in Dispatches, dispatch'[d].st \in {"queued", "claimed"},
                      NEW t \in dispatch'[d].bundle
               PROVE  Bundled(t, d)'
    BY DEF BundleKept
  <2>1. d \notin ds /\ dispatch[d].st \in {"queued", "claimed"} /\ t \in dispatch[d].bundle
    BY DEF Moves
  <2>2. Bundled(t, d)
    BY <2>1 DEF Consistent, BundleKept
  <2> QED BY <1>1, <1>2, <2>1, <2>2 DEF Bundled, Exists
<1>4. NoStrandedThread'
  <2> SUFFICES ASSUME NEW t \in Threads, thread'[t].mark # None
               PROVE  LET d == thread'[t].mark IN
                      /\ t \in dispatch'[d].bundle
                      /\ \/ dispatch'[d].st \in Holding
                         \/ dispatch'[d].st = "addressed" /\ thread'[t].st = "resolved"
    BY DEF NoStrandedThread
  <2> DEFINE d == thread[t].mark
  <2>1. d \notin ds /\ thread'[t].mark = d /\ thread'[t].st = thread[t].st /\ d # None
    BY <1>1
  <2>2. d \in Dispatches
    BY <2>1, TypeParts DEF ThreadsTyped, ThreadRows
  <2>3. /\ t \in dispatch[d].bundle
        /\ \/ dispatch[d].st \in Holding
           \/ dispatch[d].st = "addressed" /\ thread[t].st = "resolved"
    BY <2>1 DEF Consistent, NoStrandedThread
  <2>4. Moves(d)
    BY <2>1, <2>2
  <2> QED BY <2>1, <2>2, <2>3, <2>4 DEF Moves, Holding
<1> QED BY <1>3, <1>4 DEF Consistent

\* What a comment transaction may do to a thread.
KeepsMark(t) ==
    /\ thread'[t].mark = thread[t].mark
    /\ Exists(t) <=> Exists(t)'
    /\ thread[t].st # "none" => thread'[t].st # "none"
    /\ \/ thread'[t].st = thread[t].st
       \/ thread'[t].st = "resolved"
       \/ thread[t].mark = None
       \/ dispatch[thread[t].mark].st \in Holding

LosesMark(t) ==
    /\ thread'[t].mark = None
    /\ thread[t].mark = None \/ dispatch[thread[t].mark].st \notin {"queued", "claimed"}
    /\ Exists(t) \/ thread[t].st = "none"
    /\ thread'[t].st # "none"

\* A clear of D1 deletes whatever it listed.
GoesUnseen(t) == ~AtomicClear /\ thread'[t].st = "deleted" /\ thread'[t].mark = None

\* Threads change under dispatches that stand still.
LEMMA ThreadsMove ==
  ASSUME TypeOK, TypeOK', Consistent, UNCHANGED dispatch,
         \A t \in Threads : KeepsMark(t) \/ LosesMark(t) \/ GoesUnseen(t)
  PROVE  Consistent'
<1>1. \A d \in Dispatches : dispatch[d].bundle \subseteq Threads
  BY TypeParts DEF RowsTyped, DispatchRows
<1>2. BundleKept'
  <2> SUFFICES ASSUME NEW d \in Dispatches, dispatch[d].st \in {"queued", "claimed"},
                      NEW t \in dispatch[d].bundle
               PROVE  Bundled(t, d)'
    BY DEF BundleKept
  <2>1. Bundled(t, d) /\ d # None /\ t \in Threads
    BY <1>1 DEF Consistent, BundleKept
  <2>2. ~LosesMark(t)
    BY <2>1 DEF LosesMark, Bundled
  <2>3. CASE KeepsMark(t)
    BY <2>1, <2>3 DEF KeepsMark, Bundled
  <2>4. CASE GoesUnseen(t)
    BY <2>4 DEF GoesUnseen, Bundled, Exists
  <2> QED BY <2>1, <2>2, <2>3, <2>4
<1>3. NoStrandedThread'
  BY DEF NoStrandedThread, Consistent, KeepsMark, LosesMark, GoesUnseen, Holding
<1> QED BY <1>2, <1>3 DEF Consistent

\* Clearing the markers of no dispatch changes no thread.
LEMMA NothingReleased == ASSUME ThreadsTyped PROVE Released({}) = thread
  BY DEF ThreadsTyped, Released

\* Steps that touch neither dispatches nor threads.
LEMMA SameConsistent ==
  ASSUME Consistent, UNCHANGED <<dispatch, thread>>
  PROVE  Consistent'
  BY DEF Consistent, BundleKept, Bundled, NoStrandedThread, Exists

\* What the lazy transitions may do to the state of one dispatch.
LEMMA LazyMoves ==
  ASSUME NEW x \in DispatchRows, NEW t
  PROVE  /\ AfterLazy(x, t).bundle = x.bundle
         /\ LazilyFails(x, t) => AfterLazy(x, t).st = "failed"
         /\ ~LazilyFails(x, t) =>
              \/ AfterLazy(x, t).st = x.st
              \/ x.st = "claimed" /\ AfterLazy(x, t).st = "queued"
              \/ /\ x.st = "delivered" /\ AfterLazy(x, t).st = "addressed"
                 /\ \A s \in x.bundle : thread[s].st = "resolved"
         /\ LazilyFails(x, t) => x.st \in {"queued", "claimed"}
<1>1. [x EXCEPT !.st = "addressed"].st = "addressed"
  BY DEF DispatchRows
<1> QED BY <1>1, RequeuedTyped, FailedTyped, AfterLazyTyped DEF AfterLazy, LazilyFails, FullyResolved

\* A read of one dispatch, with its lazy transitions.
LEMMA FindConsistent ==
  ASSUME TypeOK, TypeOK', Consistent, NEW d \in Dispatches, NEW t, FindDispatch(d, t)
  PROVE  Consistent'
<1> DEFINE ds == IF LazilyFails(dispatch[d], t) THEN {d} ELSE {}
           x == AfterLazy(dispatch[d], t)
<1>1. dispatch[d] \in DispatchRows /\ dispatch \in [Dispatches -> DispatchRows]
  BY TypeParts DEF RowsTyped
<1>2. /\ x.bundle = dispatch[d].bundle
      /\ d \in ds => x.st \notin {"queued", "claimed"}
      /\ d \notin ds => \/ x.st = dispatch[d].st
                        \/ dispatch[d].st = "claimed" /\ x.st = "queued"
                        \/ /\ dispatch[d].st = "delivered" /\ x.st = "addressed"
                           /\ \A s \in dispatch[d].bundle : thread[s].st = "resolved"
  BY <1>1, LazyMoves
<1>3. dispatch' = [dispatch EXCEPT ![d] = x] /\ thread' = Released(ds)
  BY DEF FindDispatch
<1>4. ds \in SUBSET Dispatches /\ ds \subseteq {d}
  OBVIOUS
<1> HIDE DEF ds, x
<1>5. dispatch'[d] = x /\ \A e \in Dispatches \ {d} : dispatch'[e] = dispatch[e]
  BY <1>1, <1>3
<1>6. \A e \in Dispatches \ ds : Moves(e)
  BY <1>2, <1>5 DEF Moves, Holding
<1> QED BY <1>2, <1>3, <1>4, <1>5, <1>6, DispatchesMove

\* A read of all dispatches, with their lazy transitions.
LEMMA ListConsistent ==
  ASSUME TypeOK, TypeOK', Consistent, ListDispatches
  PROVE  Consistent'
<1> DEFINE ds == {d \in Dispatches : LazilyFails(dispatch[d], now)}
<1>1. \A d \in Dispatches : dispatch[d] \in DispatchRows
  BY TypeParts DEF RowsTyped
<1>2. /\ dispatch' = [d \in Dispatches |-> AfterLazy(dispatch[d], now)]
      /\ thread' = Released(ds)
  BY DEF ListDispatches
<1>3. \A d \in Dispatches : dispatch'[d] = AfterLazy(dispatch[d], now)
  BY <1>2
<1>4. \A d \in Dispatches : dispatch'[d].bundle = dispatch[d].bundle
  BY <1>1, <1>3, LazyMoves
<1>5. \A d \in ds : dispatch'[d].st \notin {"queued", "claimed"}
  BY <1>1, <1>3, LazyMoves
<1>6. \A d \in Dispatches \ ds : Moves(d)
  BY <1>1, <1>3, LazyMoves DEF Moves, Holding
<1> QED BY <1>2, <1>4, <1>5, <1>6, DispatchesMove

\* A new dispatch marks open, unmarked threads; nothing was marked with its
\* id before, because a marker names a dispatch that exists.
LEMMA CreateConsistent ==
  ASSUME TypeOK, TypeOK', Consistent, NEW c \in calls, CreateDispatch(c)
  PROVE  Consistent'
<1>1. c.d \in Dispatches /\ c.d # None /\ c.bundle \subseteq Threads
  BY TypeParts DEF CallsTyped, CallRows, NamesItsRows, CreateDispatch
<1>2. \A d \in Dispatches : dispatch[d].bundle \subseteq Threads
  BY TypeParts DEF RowsTyped, DispatchRows
<1>3. /\ dispatch'[c.d].st = "queued" /\ dispatch'[c.d].bundle = c.bundle
      /\ \A d \in Dispatches \ {c.d} : dispatch'[d] = dispatch[d]
  BY <1>1, TypeParts DEF CreateDispatch, RowsTyped
<1>4. \A t \in Threads : thread'[t].st = thread[t].st
                          /\ thread'[t].mark = IF t \in c.bundle THEN c.d ELSE thread[t].mark
  BY TypeParts DEF CreateDispatch, MarkedBy, ThreadsTyped, ThreadRows
<1>5. \A t \in c.bundle : thread[t].st = "open" /\ thread[t].mark = None
  BY DEF CreateDispatch, Sendable
<1>6. \A t \in Threads : thread[t].mark # c.d
  BY <1>1 DEF Consistent, NoStrandedThread, CreateDispatch, Holding
<1>7. \A t \in Threads : thread[t].mark \in Dispatches \cup {None}
  BY TypeParts DEF ThreadsTyped, ThreadRows
<1>8. BundleKept'
  <2> SUFFICES ASSUME NEW d \in Dispatches, dispatch'[d].st \in {"queued", "claimed"},
                      NEW t \in dispatch'[d].bundle
               PROVE  Bundled(t, d)'
    BY DEF BundleKept
  <2>1. CASE d = c.d
    BY <1>1, <1>3, <1>4, <1>5, <2>1 DEF Bundled, Exists
  <2>2. CASE d # c.d
    <3>1. Bundled(t, d) /\ t \in Threads
      BY <1>2, <1>3, <2>2 DEF Consistent, BundleKept
    <3>2. t \notin c.bundle
      BY <1>5, <3>1 DEF Bundled, Exists
    <3> QED BY <1>4, <3>1, <3>2 DEF Bundled, Exists
  <2> QED BY <2>1, <2>2
<1>9. NoStrandedThread'
  <2> SUFFICES ASSUME NEW t \in Threads, thread'[t].mark # None
               PROVE  LET d == thread'[t].mark IN
                      /\ t \in dispatch'[d].bundle
                      /\ \/ dispatch'[d].st \in Holding
                         \/ dispatch'[d].st = "addressed" /\ thread'[t].st = "resolved"
    BY DEF NoStrandedThread
  <2>1. CASE t \in c.bundle
    BY <1>3, <1>4, <2>1 DEF Holding
  <2>2. CASE t \notin c.bundle
    <3>1. /\ thread'[t].mark = thread[t].mark /\ thread'[t].st = thread[t].st
          /\ thread[t].mark \in Dispatches \ {c.d}
      BY <1>4, <1>6, <1>7, <2>2
    <3> QED BY <1>3, <3>1 DEF Consistent, NoStrandedThread
  <2> QED BY <2>1, <2>2
<1> QED BY <1>8, <1>9 DEF Consistent

\* A clear leaves a row alone, or deletes it.
LEMMA ClearedRows ==
  ASSUME ThreadsTyped, NEW cleared, NEW t \in Threads, thread' = Cleared(cleared)
  PROVE  \/ thread'[t] = thread[t]
         \/ /\ t \in cleared /\ Exists(t)
            /\ thread'[t].st = "deleted" /\ thread'[t].mark = None
  BY DEF ThreadsTyped, ThreadRows, Cleared, Gone

\* A thread that does not change.
LEMMA SameKeepsMark ==
  ASSUME NEW t \in Threads, thread'[t] = thread[t]
  PROVE  KeepsMark(t)
  BY DEF KeepsMark, Exists

\* No call of an atomic clear is ever on its way.
NoSplitClear == \A c \in calls : AtomicClear => c.op # "clear"

\* The second step of D1's clear deletes what it listed, held or not.
LEMMA ClearDeleteConsistent ==
  ASSUME TypeOK, TypeOK', Consistent, NoSplitClear, NEW c \in calls, ClearDelete(c)
  PROVE  Consistent'
<1>1. ~AtomicClear
  BY DEF NoSplitClear, ClearDelete
<1>2. thread' = Cleared(c.bundle) /\ UNCHANGED dispatch
  BY DEF ClearDelete
<1>3. \A t \in Threads : KeepsMark(t) \/ GoesUnseen(t)
  BY <1>1, <1>2, TypeParts, ClearedRows, SameKeepsMark DEF GoesUnseen
<1> QED BY <1>2, <1>3, ThreadsMove

\* The other transactions of calls in flight.
LEMMA CallConsistent ==
  ASSUME TypeOK, TypeOK', Consistent, NoSplitClear, NEW c \in calls, CallStep(c)
  PROVE  Consistent'
<1>1. c \in CallRows /\ NamesItsRows(c) /\ c.t \in Nat
  BY TypeParts DEF CallsTyped, CallRows
<1>2. dispatch \in [Dispatches -> DispatchRows] /\ \A d \in Dispatches : dispatch[d] \in DispatchRows
  BY TypeParts DEF RowsTyped
<1>3. Released({}) = thread
  BY TypeParts, NothingReleased
\* An update of one row that ends the dispatch, or keeps its markers.
<1>4. ASSUME NEW d \in Dispatches, NEW x \in DispatchRows, x.bundle = dispatch[d].bundle,
             dispatch' = [dispatch EXCEPT ![d] = x],
             \/ x.st \in {"failed", "canceled"} /\ thread' = Released({d})
             \/ /\ dispatch[d].st \in {"queued", "claimed"} /\ x.st \in Holding
                /\ UNCHANGED thread
      PROVE  Consistent'
  <2>1. dispatch'[d] = x /\ \A e \in Dispatches \ {d} : dispatch'[e] = dispatch[e]
    BY <1>2, <1>4
  <2>2. \A e \in Dispatches : dispatch'[e].bundle = dispatch[e].bundle
    BY <1>4, <2>1
  <2>3. \A e \in Dispatches \ {d} : Moves(e)
    BY <2>1 DEF Moves
  <2>4. CASE x.st \in {"failed", "canceled"} /\ thread' = Released({d})
    <3>1. \A e \in {d} : dispatch'[e].st \notin {"queued", "claimed"}
      BY <2>1, <2>4
    <3> QED BY <2>2, <2>3, <2>4, <3>1, DispatchesMove
  <2>5. CASE dispatch[d].st \in {"queued", "claimed"} /\ x.st \in Holding /\ UNCHANGED thread
    <3>1. \A e \in Dispatches \ {} : Moves(e)
      BY <2>1, <2>3, <2>5 DEF Moves
    <3>2. thread' = Released({})
      BY <1>3, <2>5
    <3> QED BY <2>2, <3>1, <3>2, DispatchesMove
  <2> QED BY <1>4, <2>4, <2>5
<1>5. CASE CancelDispatch(c)
  <2> DEFINE x == [dispatch[c.d] EXCEPT !.st = "canceled", !.lease = NoTime]
  <2>1. c.d \in Dispatches
    BY <1>1, <1>5 DEF CancelDispatch, NamesItsRows
  <2>2. x \in DispatchRows /\ x.bundle = dispatch[c.d].bundle /\ x.st = "canceled"
    BY <1>2, <2>1 DEF DispatchRows, Settled, Holding, NoTime
  <2>3. dispatch' = [dispatch EXCEPT ![c.d] = x] /\ thread' = Released({c.d})
    BY <1>2, <1>5, <2>1 DEF CancelDispatch
  <2> HIDE DEF x
  <2> QED BY <1>4, <2>1, <2>2, <2>3
<1>6. CASE MarkFailed(c)
  <2>1. c.d \in Dispatches
    BY <1>1, <1>6 DEF MarkFailed, NamesItsRows
  <2>2. /\ Failed(dispatch[c.d]) \in DispatchRows
        /\ Failed(dispatch[c.d]).bundle = dispatch[c.d].bundle
        /\ Failed(dispatch[c.d]).st = "failed"
    BY <1>2, <2>1, FailedTyped
  <2> QED BY <1>4, <1>6, <2>1, <2>2 DEF MarkFailed
<1>7. CASE MarkDelivered(c)
  <2> DEFINE x == [dispatch[c.d] EXCEPT !.st = "delivered"]
  <2>1. c.d \in Dispatches
    BY <1>1, <1>7 DEF MarkDelivered, NamesItsRows
  <2>2. x \in DispatchRows /\ x.bundle = dispatch[c.d].bundle /\ x.st = "delivered"
    BY <1>2, <2>1 DEF DispatchRows, Settled, Holding
  <2>3. dispatch' = [dispatch EXCEPT ![c.d] = x]
    BY <1>2, <1>7, <2>1 DEF MarkDelivered
  <2>4. dispatch[c.d].st = "claimed" /\ UNCHANGED thread
    BY <1>7 DEF MarkDelivered
  <2> HIDE DEF x
  <2> QED BY <1>4, <2>1, <2>2, <2>3, <2>4 DEF Holding
<1>8. CASE ClaimTake(c)
  <2>1. c.d \in Dispatches
    BY <1>1, <1>8 DEF ClaimTake, NamesItsRows
  <2>2. CASE UNCHANGED dispatch
    BY <1>8, <2>2, SameConsistent DEF ClaimTake
  <2>3. CASE /\ dispatch[c.d].st = "queued"
             /\ dispatch' = [dispatch EXCEPT ![c.d] = Claimed(dispatch[c.d], c.t)]
    <3>1. /\ Claimed(dispatch[c.d], c.t) \in DispatchRows
          /\ Claimed(dispatch[c.d], c.t).st = "claimed"
          /\ Claimed(dispatch[c.d], c.t).bundle = dispatch[c.d].bundle
      BY <1>1, <1>2, <2>1, ClaimedTyped
    <3>2. UNCHANGED thread
      BY <1>8 DEF ClaimTake
    <3> QED BY <1>4, <2>1, <2>3, <3>1, <3>2 DEF Holding
  <2> QED BY <1>8, <2>2, <2>3 DEF ClaimTake
<1>9. CASE ClaimNext(c) \/ ClaimSweep(c)
  <2> DEFINE rows == Swept(c)
  <2>1. /\ rows \in [Dispatches -> DispatchRows]
        /\ \A d \in Dispatches :
              /\ rows[d] \in DispatchRows
              /\ rows[d].bundle = dispatch[d].bundle
              /\ \/ rows[d] = dispatch[d]
                 \/ dispatch[d].st = "claimed" /\ rows[d].st = "queued"
    BY <1>1, TypeParts, SweptTyped
  <2>2. \A d \in Dispatches : Claimed(rows[d], c.t).st = "claimed"
                               /\ Claimed(rows[d], c.t).bundle = rows[d].bundle
    BY <1>1, <2>1, ClaimedTyped
  <2>3. \/ \E d \in Oldest(rows, c.agent) : dispatch' = [rows EXCEPT ![d] = Claimed(rows[d], c.t)]
        \/ dispatch' = rows
    BY <1>9 DEF ClaimNext, ClaimSweep
  <2>4. \A d \in Oldest(rows, c.agent) : d \in Dispatches /\ rows[d].st = "queued"
    BY DEF Oldest, Queued
  <2>5. thread' = Released({})
    BY <1>3, <1>9 DEF ClaimNext, ClaimSweep
  <2> HIDE DEF rows
  <2>6. \A d \in Dispatches : dispatch'[d].bundle = dispatch[d].bundle
    BY <2>1, <2>2, <2>3, <2>4
  <2>7. \A d \in Dispatches \ {} : Moves(d)
    BY <2>1, <2>2, <2>3, <2>4 DEF Moves, Holding
  <2> QED BY <2>5, <2>6, <2>7, DispatchesMove
<1>10. CASE ClaimCheckActive(c) \/ ClaimSelect(c) \/ ClearBump(c) \/ DropCall(c)
  BY <1>10, SameConsistent DEF ClaimCheckActive, ClaimSelect, ClearBump, DropCall
<1> QED
  BY <1>5, <1>6, <1>7, <1>8, <1>9, <1>10, CreateConsistent, ClearDeleteConsistent DEF CallStep

\* Comment transactions: a held thread keeps its marker, and a marker that is
\* dropped no longer protected anything.
LEMMA CommentConsistent ==
  ASSUME TypeOK, TypeOK', Consistent, NEW t \in Threads, CommentStep(t)
  PROVE  Consistent'
<1>1. thread[t] \in ThreadRows /\ thread \in [Threads -> ThreadRows]
  BY TypeParts DEF ThreadsTyped
<1>2. thread[t].mark \in Dispatches \cup {None}
  BY <1>1 DEF ThreadRows
<1>3. \A r \in ThreadRows : Rewritten(r).st = r.st /\ Rewritten(r).mark = r.mark
  BY DEF Rewritten, ThreadRows
<1>4. \A r \in ThreadRows :
         /\ [Rewritten(r) EXCEPT !.replies = @ + 1].st = r.st
         /\ [Rewritten(r) EXCEPT !.replies = @ + 1].mark = r.mark
         /\ [Rewritten(r) EXCEPT !.replies = @ - 1].st = r.st
         /\ [Rewritten(r) EXCEPT !.replies = @ - 1].mark = r.mark
  BY DEF Rewritten, ThreadRows
<1>5. ASSUME NEW row, ChangeThread(t, row),
             \/ /\ row.mark = thread[t].mark /\ row.st = thread[t].st
             \/ /\ row.mark = thread[t].mark /\ row.st = "resolved" /\ Exists(t)
             \/ /\ row.mark = thread[t].mark /\ row.st = "open" /\ Exists(t)
                /\ thread[t].mark = None \/ dispatch[thread[t].mark].st \in Holding
             \/ /\ row.mark = None /\ row.st # "none"
                /\ Exists(t) \/ thread[t].st = "none"
                /\ thread[t].mark = None \/ dispatch[thread[t].mark].st \notin {"queued", "claimed"}
      PROVE  Consistent'
  <2>1. thread'[t] = row /\ \A s \in Threads \ {t} : thread'[s] = thread[s]
    BY <1>1, <1>5 DEF ChangeThread
  <2>2. \A s \in Threads \ {t} : KeepsMark(s)
    BY <2>1, SameKeepsMark
  <2>3. KeepsMark(t) \/ LosesMark(t)
    BY <1>5, <2>1 DEF KeepsMark, LosesMark, Exists
  <2> QED BY <1>5, <2>2, <2>3, ThreadsMove DEF ChangeThread
<1>6. CASE CreateThread(t)
  <2>1. thread[t].mark = None \/ dispatch[thread[t].mark].st \notin {"queued", "claimed"}
    BY <1>2, <1>6 DEF CreateThread, Consistent, NoStrandedThread, BundleKept, Bundled
  <2>2. [NoThread EXCEPT !.st = "open"].mark = None /\ [NoThread EXCEPT !.st = "open"].st = "open"
    BY DEF NoThread
  <2> QED BY <1>5, <1>6, <2>1, <2>2 DEF CreateThread
<1>7. CASE EditThread(t) \/ UpdateReply(t)
  BY <1>1, <1>3, <1>5, <1>7 DEF EditThread, UpdateReply
<1>8. CASE CreateReply(t) \/ DeleteReply(t)
  BY <1>1, <1>4, <1>5, <1>8 DEF CreateReply, DeleteReply
<1>9. CASE ResolveThread(t)
  <2>1. /\ [thread[t] EXCEPT !.st = "resolved"].mark = thread[t].mark
        /\ [thread[t] EXCEPT !.st = "resolved"].st = "resolved"
    BY <1>1 DEF ThreadRows
  <2>2. Exists(t) /\ ChangeThread(t, [thread[t] EXCEPT !.st = "resolved"])
    BY <1>9 DEF ResolveThread
  <2> QED BY <1>5, <2>1, <2>2
<1>10. CASE ReopenThread(t)
  <2>1. /\ AfterReopen(thread[t]).st = "open"
        /\ AfterReopen(thread[t]).mark =
             IF thread[t].mark # None /\ dispatch[thread[t].mark].st \in {"delivered"} \cup Settled
             THEN None ELSE thread[t].mark
    BY <1>1 DEF AfterReopen, ThreadRows
  <2>2. thread[t].mark # None => \/ dispatch[thread[t].mark].st \in Holding
                                 \/ dispatch[thread[t].mark].st = "addressed"
    BY DEF Consistent, NoStrandedThread
  <2>3. Exists(t) /\ ChangeThread(t, AfterReopen(thread[t]))
    BY <1>10 DEF ReopenThread
  <2> QED BY <1>5, <2>1, <2>2, <2>3 DEF Holding, Settled
<1>11. CASE DeleteThread(t)
  <2>1. Gone(thread[t]).mark = None /\ Gone(thread[t]).st = "deleted"
    BY <1>1 DEF Gone, ThreadRows
  <2>2. Exists(t) /\ ~HeldByDispatch(t) /\ ChangeThread(t, Gone(thread[t]))
    BY <1>11 DEF DeleteThread
  <2> QED BY <1>5, <2>1, <2>2 DEF HeldByDispatch, Holding
<1> QED BY <1>6, <1>7, <1>8, <1>9, <1>10, <1>11 DEF CommentStep

\* clearThreads takes only threads that no dispatch holds.
LEMMA ClearConsistent ==
  ASSUME TypeOK, TypeOK', Consistent, NEW x, NEW states, ClearThreads(x, states)
  PROVE  Consistent'
<1>1. thread' = Cleared(Clearable(x, states)) /\ UNCHANGED dispatch
  BY DEF ClearThreads
<1>2. \A t \in Clearable(x, states) : ~HeldByDispatch(t)
  BY DEF Clearable
<1>3. \A t \in Threads : KeepsMark(t) \/ LosesMark(t)
  BY <1>1, <1>2, TypeParts, ClearedRows, SameKeepsMark DEF LosesMark, HeldByDispatch, Holding
<1> QED BY <1>1, <1>3, ThreadsMove

\* Consistent is inductive relative to TypeOK.
LEMMA ConsistentKept == TypeOK /\ NoSplitClear /\ Consistent /\ [Next]_vars => Consistent'
<1> SUFFICES ASSUME TypeOK, NoSplitClear, Consistent, [Next]_vars PROVE Consistent'
  OBVIOUS
<1> USE TypesKept
<1>1. CASE UNCHANGED vars \/ Tick \/ ListAgents
  BY <1>1, SameConsistent DEF vars, Tick, ListAgents
<1>2. CASE ListDispatches
  BY <1>2, ListConsistent
<1>3. CASE \E a \in Agents : AgentStep(a)
  BY <1>3, SameConsistent DEF AgentStep, RegisterAgent, DisconnectAgent, AskClaim
<1>4. CASE \E d \in Dispatches : GetDispatch(d) \/ AskStep(d)
  BY <1>4, SameConsistent, FindConsistent DEF GetDispatch, AskStep, AskCreate, AskCancel, AskReport
<1>5. CASE \E c \in calls : CallStep(c)
  BY <1>5, CallConsistent
<1>6. CASE \E t \in Threads : CommentStep(t)
  BY <1>6, CommentConsistent
<1>7. CASE \E x \in Artifacts, states \in {{"open", "resolved"}, {"resolved"}} :
              ClearThreads(x, states) \/ ClearList(x, states)
  BY <1>7, ClearConsistent, SameConsistent DEF ClearList
<1>8. CASE \E x \in Polled : PollStep(x)
  BY <1>8, SameConsistent DEF PollStep, PollPage, PollRows, PollRevision
<1> QED BY <1>1, <1>2, <1>3, <1>4, <1>5, <1>6, <1>7, <1>8 DEF Next

\* Nothing is bundled or marked at first.
LEMMA InitConsistent == Init => Consistent
  BY DEF Init, Consistent, BundleKept, NoStrandedThread, NoDispatch, NoThread

\* The steps that touch the calls in flight.
LEMMA CallsSteps ==
  ASSUME [Next]_vars
  PROVE  \/ UNCHANGED calls
         \/ \E a \in Agents : AskClaim(a)
         \/ \E d \in Dispatches : AskStep(d)
         \/ \E c \in calls : CallStep(c)
         \/ \E x, states : ClearList(x, states)
  BY DEF Next, vars, Tick, ListAgents, ListDispatches, AgentStep, RegisterAgent, DisconnectAgent,
     GetDispatch, CommentStep, CreateThread, EditThread, ResolveThread, ReopenThread, DeleteThread,
     CreateReply, UpdateReply, DeleteReply, ChangeThread, ClearThreads, PollStep, PollPage,
     PollRows, PollRevision

\* An atomic clear leaves no call between its steps.
LEMMA NoSplitClearKept == TypeOK /\ NoSplitClear /\ [Next]_vars => NoSplitClear'
<1> SUFFICES ASSUME TypeOK, NoSplitClear, [Next]_vars, AtomicClear
             PROVE  \A c \in calls' : c.op # "clear"
  BY DEF NoSplitClear
<1>1. \A c \in calls : c.op # "clear"
  BY DEF NoSplitClear
<1>2. \A op, a, d, b : Call(op, a, d, b).op = op
  BY DEF Call
<1>3. ASSUME NEW a \in Agents, AskClaim(a) PROVE \A c \in calls' : c.op # "clear"
  BY <1>1, <1>2, <1>3 DEF AskClaim, Ask
<1>4. ASSUME NEW d \in Dispatches, AskStep(d) PROVE \A c \in calls' : c.op # "clear"
  BY <1>1, <1>2, <1>4 DEF AskStep, AskCreate, AskCancel, AskReport, Ask
<1>5. ASSUME NEW c \in calls, CallStep(c) PROVE \A q \in calls' : q.op # "clear"
  <2>1. c \in CallRows
    BY TypeParts DEF CallsTyped
  <2>2. \A op : [c EXCEPT !.op = op].op = op /\ \A d : [c EXCEPT !.op = op, !.d = d].op = op
    BY <2>1 DEF CallRows
  <2>3. \/ calls' \subseteq calls
        \/ calls' \subseteq calls \cup {[c EXCEPT !.op = "active?"]}
        \/ calls' \subseteq calls \cup {[c EXCEPT !.op = "oldest?"]}
        \/ calls' \subseteq calls \cup {[c EXCEPT !.op = "cleared"]}
        \/ \E d : calls' \subseteq calls \cup {[c EXCEPT !.op = "take", !.d = d]}
    BY <1>5 DEF CallStep, CreateDispatch, CancelDispatch, ClaimNext, ClaimSweep, ClaimCheckActive,
       ClaimSelect, ClaimTake, MarkDelivered, MarkFailed, ClearDelete, ClearBump, DropCall
  <2> QED BY <1>1, <2>2, <2>3
<1>6. \A x, states : ~ClearList(x, states)
  BY DEF ClearList
<1> QED BY <1>1, <1>3, <1>4, <1>5, <1>6, CallsSteps

\* Nothing is in flight at first.
LEMMA InitNoSplitClear == Init => NoSplitClear
  BY DEF Init, NoSplitClear

\* On SQLite, where clearThreads reads and deletes in one transaction, a
\* dispatch that is not delivered finds every thread of its bundle in place and
\* marked with its own id.
THEOREM BundlesHeld == ASSUME AtomicClear PROVE Spec => []BundlesAreSound
<1>1. TypeOK /\ Consistent => BundlesAreSound
  BY DEF Consistent, BundleKept, Bundled, BundleHeld, BundlesAreSound
<1> QED
  BY <1>1, InitConsistent, ConsistentKept, InitNoSplitClear, NoSplitClearKept, DispatchTypes,
     PTL DEF Spec

\* A thread off the default listings is held by a dispatch that bundles it, or
\* is resolved and its dispatch addressed: on every store, also where a clear
\* takes bundled threads away.
THEOREM NoneStranded == Spec => []NoStrandedThread
<1>1. Consistent => NoStrandedThread
  BY DEF Consistent
<1> QED
  BY <1>1, InitConsistent, ConsistentKept, InitNoSplitClear, NoSplitClearKept, DispatchTypes,
     PTL DEF Spec

-----------------------------------------------------------------------------
(* One active claim.  When a claim is one transaction no poll is ever      *)
(* between its check and its claim, which is the strengthening: D1 has     *)
(* such polls, and there the property fails.                               *)

NoSplitClaim == \A c \in calls : c.op \notin {"active?", "oldest?", "take"}

\* Every action but ClaimNext leaves at most the claims there were.
FewerClaims ==
    \A d \in Dispatches :
        dispatch'[d].st = "claimed" =>
            dispatch[d].st = "claimed" /\ dispatch'[d].agent = dispatch[d].agent

\* The lazy transitions claim nothing.
LEMMA LazyClaims ==
  ASSUME NEW x \in DispatchRows, NEW t
  PROVE  AfterLazy(x, t).st = "claimed" => x.st = "claimed" /\ AfterLazy(x, t).agent = x.agent
  BY LazyMoves, AfterLazyTyped

\* Neither does a read of one dispatch.
LEMMA FindClaims ==
  ASSUME TypeOK, NEW d \in Dispatches, NEW t, FindDispatch(d, t)
  PROVE  FewerClaims
<1>1. dispatch \in [Dispatches -> DispatchRows] /\ dispatch[d] \in DispatchRows
  BY TypeParts DEF RowsTyped
<1>2. dispatch' = [dispatch EXCEPT ![d] = AfterLazy(dispatch[d], t)]
  BY DEF FindDispatch
<1> QED BY <1>1, <1>2, LazyClaims DEF FewerClaims

\* Nor a read of all.
LEMMA ListClaims == ASSUME TypeOK, ListDispatches PROVE FewerClaims
<1>1. \A d \in Dispatches : dispatch[d] \in DispatchRows /\ dispatch'[d] = AfterLazy(dispatch[d], now)
  BY TypeParts DEF RowsTyped, ListDispatches
<1> QED BY <1>1, LazyClaims DEF FewerClaims

\* The transactions of calls that claim nothing.
LEMMA CallClaims ==
  ASSUME TypeOK, NEW c \in calls,
         CreateDispatch(c) \/ CancelDispatch(c) \/ MarkDelivered(c) \/ MarkFailed(c)
  PROVE  FewerClaims
<1>1. c.d \in Dispatches
  BY TypeParts DEF CallsTyped, NamesItsRows, CreateDispatch, CancelDispatch, MarkDelivered, MarkFailed
<1>2. dispatch \in [Dispatches -> DispatchRows] /\ dispatch[c.d] \in DispatchRows
  BY <1>1, TypeParts DEF RowsTyped
<1>3. \A d \in Dispatches \ {c.d} : dispatch'[d] = dispatch[d]
  BY <1>2 DEF CreateDispatch, CancelDispatch, MarkDelivered, MarkFailed
<1>4. Failed(dispatch[c.d]).st = "failed"
  BY <1>2, FailedTyped
<1>5. dispatch'[c.d].st \in {"queued", "canceled", "delivered", "failed"}
  <2>1. CASE CreateDispatch(c)
    BY <1>1, <1>2, <2>1 DEF CreateDispatch
  <2>2. CASE CancelDispatch(c)
    BY <1>1, <1>2, <2>2 DEF CancelDispatch, DispatchRows
  <2>3. CASE MarkDelivered(c)
    BY <1>1, <1>2, <2>3 DEF MarkDelivered, DispatchRows
  <2>4. CASE MarkFailed(c)
    BY <1>1, <1>2, <1>4, <2>4 DEF MarkFailed
  <2> QED BY <2>1, <2>2, <2>3, <2>4
<1> QED BY <1>3, <1>5 DEF FewerClaims

\* A poll claims only when its agent, its expired claims swept, holds none.
LEMMA ClaimNextKeeps ==
  ASSUME TypeOK, OneActiveClaim, NEW c \in calls, ClaimNext(c)
  PROVE  OneActiveClaim'
<1> DEFINE rows == Swept(c)
<1>1. c \in CallRows /\ c.t \in Nat
  BY TypeParts DEF CallsTyped, CallRows
<1>2. /\ rows \in [Dispatches -> DispatchRows]
      /\ \A d \in Dispatches :
            /\ rows[d] \in DispatchRows
            /\ rows[d].agent = dispatch[d].agent
            /\ rows[d].st = "claimed" => dispatch[d].st = "claimed"
  BY <1>1, TypeParts, SweptTyped
<1>3. \A d, e \in Dispatches : d # e /\ rows[d].st = "claimed" /\ rows[e].st = "claimed"
                                => rows[d].agent # rows[e].agent
  BY <1>2 DEF OneActiveClaim
<1>4. CASE dispatch' = rows
  <2> HIDE DEF rows
  <2> QED BY <1>3, <1>4 DEF OneActiveClaim
<1>5. ASSUME Active(rows, c.agent) = {}, NEW d \in Oldest(rows, c.agent),
             dispatch' = [rows EXCEPT ![d] = Claimed(rows[d], c.t)]
      PROVE  OneActiveClaim'
  <2>1. d \in Dispatches /\ rows[d].agent = c.agent
    BY DEF Oldest, Queued
  <2>2. dispatch'[d].st = "claimed" /\ dispatch'[d].agent = c.agent
    <3>1. dispatch'[d] = Claimed(rows[d], c.t)
      BY <1>2, <1>5, <2>1
    <3>2. rows[d] \in DispatchRows
      BY <1>2, <2>1
    <3> HIDE DEF rows
    <3> QED BY <1>1, <2>1, <3>1, <3>2, ClaimedTyped
  <2>3. \A e \in Dispatches \ {d} : dispatch'[e] = rows[e]
    BY <1>2, <1>5
  <2>4. \A e \in Dispatches \ {d} : rows[e].st = "claimed" => rows[e].agent # c.agent
    BY <1>5 DEF Active
  <2> HIDE DEF rows
  <2> QED BY <1>3, <2>1, <2>2, <2>3, <2>4 DEF OneActiveClaim
<1> QED BY <1>4, <1>5 DEF ClaimNext

\* No transaction leaves a claim half done.
LEMMA NoSplitKept ==
  ASSUME AtomicClaim
  PROVE  TypeOK /\ NoSplitClaim /\ [Next]_vars => NoSplitClaim'
<1> SUFFICES ASSUME TypeOK, NoSplitClaim, [Next]_vars PROVE NoSplitClaim'
  OBVIOUS
<1>1. ASSUME NEW c, c.op \notin {"active?", "oldest?", "take"}, calls' = calls \cup {c}
      PROVE  NoSplitClaim'
  BY <1>1 DEF NoSplitClaim
<1>2. ASSUME calls' \subseteq calls PROVE NoSplitClaim'
  BY <1>2 DEF NoSplitClaim
<1>3. CASE UNCHANGED calls
  BY <1>2, <1>3
<1>4. ASSUME NEW a \in Agents, AskClaim(a) PROVE NoSplitClaim'
  BY <1>1, <1>4 DEF AskClaim, Ask, Call
<1>5. ASSUME NEW d \in Dispatches, AskStep(d) PROVE NoSplitClaim'
  <2>1. \A op, a, b : Call(op, a, d, b).op = op
    BY DEF Call
  <2> QED BY <1>1, <1>5, <2>1 DEF AskStep, AskCreate, AskCancel, AskReport, Ask
<1>6. ASSUME NEW c \in calls, CallStep(c) PROVE NoSplitClaim'
  <2>1. CASE ClearDelete(c)
    <3>1. c \in CallRows
      BY TypeParts DEF CallsTyped
    <3>2. [c EXCEPT !.op = "cleared"].op = "cleared"
      BY <3>1 DEF CallRows
    <3> QED BY <2>1, <3>2 DEF NoSplitClaim, ClearDelete
  <2> QED
    BY <1>2, <1>6, <2>1 DEF NoSplitClaim, CallStep, CreateDispatch, CancelDispatch, ClaimNext,
       ClaimSweep, ClaimCheckActive, ClaimSelect, ClaimTake, MarkDelivered, MarkFailed, ClearBump,
       DropCall
<1>7. ASSUME NEW x, NEW states, ClearList(x, states) PROVE NoSplitClaim'
  BY <1>1, <1>7 DEF ClearList, Ask, Call
<1> QED BY <1>3, <1>4, <1>5, <1>6, <1>7, CallsSteps

\* The steps that touch dispatch rows.
LEMMA DispatchSteps ==
  ASSUME [Next]_vars
  PROVE  \/ UNCHANGED dispatch \/ ListDispatches
         \/ \E d \in Dispatches : GetDispatch(d) \/ AskStep(d)
         \/ \E c \in calls : CallStep(c)
  BY DEF Next, vars, Tick, ListAgents, AgentStep, RegisterAgent, DisconnectAgent, AskClaim,
     CommentStep, CreateThread, EditThread, ResolveThread, ReopenThread, DeleteThread,
     CreateReply, UpdateReply, DeleteReply, ChangeThread, ClearThreads, ClearList, PollStep,
     PollPage, PollRows, PollRevision

\* Only ClaimNext adds a claim.
LEMMA OneClaimKept == TypeOK /\ NoSplitClaim /\ OneActiveClaim /\ [Next]_vars => OneActiveClaim'
<1> SUFFICES ASSUME TypeOK, NoSplitClaim, OneActiveClaim, [Next]_vars PROVE OneActiveClaim'
  OBVIOUS
<1>1. FewerClaims => OneActiveClaim'
  BY DEF FewerClaims, OneActiveClaim
<1>2. UNCHANGED dispatch => FewerClaims
  BY DEF FewerClaims
<1>3. ASSUME NEW c \in calls, ClaimSweep(c) PROVE FewerClaims
  <2>1. c \in CallRows
    BY TypeParts DEF CallsTyped
  <2> QED BY <1>3, <2>1, TypeParts, SweptTyped DEF ClaimSweep, FewerClaims
<1>4. CASE ListDispatches
  BY <1>1, <1>4, ListClaims
<1>5. CASE \E d \in Dispatches : GetDispatch(d) \/ AskStep(d)
  BY <1>1, <1>2, <1>5, FindClaims DEF GetDispatch, AskStep, AskCreate, AskCancel, AskReport
<1>6. ASSUME NEW c \in calls, CallStep(c) PROVE OneActiveClaim'
  <2>1. ~ClaimTake(c)
    BY DEF ClaimTake, NoSplitClaim
  <2>2. ClaimCheckActive(c) \/ ClaimSelect(c) \/ ClearDelete(c) \/ ClearBump(c) \/ DropCall(c)
          => UNCHANGED dispatch
    BY DEF ClaimCheckActive, ClaimSelect, ClearDelete, ClearBump, DropCall
  <2> QED BY <1>1, <1>2, <1>3, <1>6, <2>1, <2>2, CallClaims, ClaimNextKeeps DEF CallStep
<1> QED BY <1>1, <1>2, <1>4, <1>5, <1>6, DispatchSteps

\* SQLite and Postgres keep the one-active-claim rule however polls overlap.
THEOREM OneClaim == ASSUME AtomicClaim PROVE Spec => []OneActiveClaim
<1>1. Init => NoSplitClaim /\ OneActiveClaim
  BY DEF Init, NoSplitClaim, OneActiveClaim, NoDispatch
<1> QED BY <1>1, NoSplitKept, OneClaimKept, DispatchTypes, PTL DEF Spec

-----------------------------------------------------------------------------
(* Settled dispatches.                                                     *)

\* The lazy transitions leave a settled dispatch alone.
LEMMA LazySettled ==
  ASSUME NEW x \in DispatchRows, NEW t, x.st \in Settled
  PROVE  AfterLazy(x, t) = x
  BY DEF AfterLazy, LazilyFails, FullyResolved, Requeued, Settled

\* So does every step.
LEMMA SettledKept ==
  TypeOK /\ [Next]_vars => \A d \in Dispatches : dispatch[d].st \in Settled => dispatch'[d] = dispatch[d]
<1> SUFFICES ASSUME TypeOK, [Next]_vars, NEW d \in Dispatches, dispatch[d].st \in Settled
             PROVE  dispatch'[d] = dispatch[d]
  OBVIOUS
<1>1. dispatch \in [Dispatches -> DispatchRows] /\ dispatch[d] \in DispatchRows
  BY TypeParts DEF RowsTyped
<1>2. \A t : AfterLazy(dispatch[d], t) = dispatch[d]
  BY <1>1, LazySettled
<1>3. \A e \in Dispatches : \A t : FindDispatch(e, t) => dispatch'[d] = dispatch[d]
  BY <1>1, <1>2 DEF FindDispatch
<1>4. CASE ListDispatches
  BY <1>2, <1>4 DEF ListDispatches
<1>5. CASE \E e \in Dispatches : GetDispatch(e) \/ AskStep(e)
  BY <1>3, <1>5 DEF GetDispatch, AskStep, AskCreate, AskCancel, AskReport
<1>6. ASSUME NEW c \in calls, CallStep(c) PROVE dispatch'[d] = dispatch[d]
  <2>1. CASE CreateDispatch(c) \/ CancelDispatch(c) \/ MarkDelivered(c) \/ MarkFailed(c)
    <3>1. c.d # d
      BY <2>1 DEF CreateDispatch, CancelDispatch, MarkDelivered, MarkFailed, Cancelable, Settled
    <3> QED BY <1>1, <2>1, <3>1 DEF CreateDispatch, CancelDispatch, MarkDelivered, MarkFailed
  <2>2. CASE ClaimTake(c)
    BY <1>1, <2>2 DEF ClaimTake, Settled
  <2>3. Swept(c)[d] = dispatch[d]
    BY DEF Swept, Requeued, Settled
  <2>4. CASE ClaimSweep(c)
    BY <2>3, <2>4 DEF ClaimSweep
  <2>5. CASE ClaimNext(c)
    <3>1. d \notin Oldest(Swept(c), c.agent)
      BY <2>3 DEF Oldest, Queued, Settled
    <3>2. \A e \in Oldest(Swept(c), c.agent) : [Swept(c) EXCEPT ![e] = Claimed(Swept(c)[e], c.t)][d] = Swept(c)[d]
      BY <3>1 DEF Swept
    <3> QED BY <2>3, <2>5, <3>2 DEF ClaimNext
  <2>6. CASE ClaimCheckActive(c) \/ ClaimSelect(c) \/ ClearDelete(c) \/ ClearBump(c) \/ DropCall(c)
    BY <2>6 DEF ClaimCheckActive, ClaimSelect, ClearDelete, ClearBump, DropCall
  <2> QED BY <1>6, <2>1, <2>2, <2>4, <2>5, <2>6 DEF CallStep
<1> QED BY <1>4, <1>5, <1>6, DispatchSteps

\* No late report, cancel, claim or lazy read changes a settled dispatch.
THEOREM SettledFinal == Spec => SettledIsFinal
<1> DEFINE A == \A d \in Dispatches : dispatch[d].st \in Settled => dispatch'[d] = dispatch[d]
<1>1. TypeOK /\ [Next]_vars => [A]_vars
  BY SettledKept
<1>2. SettledIsFinal <=> [][A]_vars
  BY DEF SettledIsFinal
<1> HIDE DEF A
<1> QED BY <1>1, <1>2, DispatchTypes, PTL DEF Spec

-----------------------------------------------------------------------------
(* Viewers.                                                                *)

\* The revision of an artifact does not go back, and while it stays nothing
\* leaves the page.
PageHolds(x) ==
    /\ revision'[x] >= revision[x]
    /\ revision'[x] = revision[x] => Page(x) \subseteq Page(x)'

\* A thread that is not marked and does not change stays on the page.
LEMMA PageKept ==
  ASSUME NEW x, \A t \in Threads : ArtifactOf[t] = x /\ Visible(t) =>
                   /\ thread'[t].st = thread[t].st /\ thread'[t].text = thread[t].text
                   /\ thread'[t].mark = thread[t].mark
  PROVE  Page(x) \subseteq Page(x)'
<1>1. ASSUME NEW t \in Threads, ArtifactOf[t] = x, Visible(t)
      PROVE  Visible(t)' /\ <<t, thread[t].st, thread[t].text>> = <<t, thread'[t].st, thread'[t].text>>
  BY <1>1 DEF Visible, Exists
<1> QED BY <1>1 DEF Page

\* Clearing markers brings threads back and takes none away.
LEMMA ReleaseHolds ==
  ASSUME TypeOK, TypeOK', NEW x \in Artifacts, NEW ds, None \notin ds, thread' = Released(ds),
         revision'[x] >= revision[x]
  PROVE  PageHolds(x)
<1>1. \A t \in Threads : thread[t].mark = None => thread'[t] = thread[t]
  BY DEF Released
<1>2. Page(x) \subseteq Page(x)'
  BY <1>1, PageKept DEF Visible
<1> QED BY <1>2 DEF PageHolds

\* A transaction that changes threads of bumped artifacts only.
LEMMA BumpHolds ==
  ASSUME TypeOK, NEW x \in Artifacts, NEW arts, Bump(arts),
         \A t \in Threads : ArtifactOf[t] \in arts \/ thread'[t] = thread[t]
  PROVE  PageHolds(x)
<1>1. revision[x] \in Nat /\ revision'[x] = IF x \in arts THEN revision[x] + 1 ELSE revision[x]
  BY TypeParts DEF RevisionsTyped, Bump
<1>2. CASE x \in arts
  BY <1>1, <1>2 DEF PageHolds
<1>3. CASE x \notin arts
  <2>1. Page(x) \subseteq Page(x)'
    BY <1>3, PageKept
  <2> QED BY <1>1, <1>3, <2>1 DEF PageHolds
<1> QED BY <1>2, <1>3

LEMMA SameHolds ==
  ASSUME TypeOK, NEW x \in Artifacts, UNCHANGED <<thread, revision>>
  PROVE  PageHolds(x)
<1>1. revision[x] \in Nat
  BY TypeParts DEF RevisionsTyped
<1>2. Page(x) \subseteq Page(x)'
  BY PageKept
<1> QED BY <1>1, <1>2 DEF PageHolds

LEMMA BumpGrows ==
  ASSUME TypeOK, NEW x \in Artifacts, NEW arts, Bump(arts)
  PROVE  revision'[x] >= revision[x]
<1>1. revision[x] \in Nat
  BY TypeParts DEF RevisionsTyped
<1> QED BY <1>1 DEF Bump

\* A change of one thread bumps its artifact.
LEMMA CommentHolds ==
  ASSUME TypeOK, NEW x \in Artifacts, NEW t \in Threads, CommentStep(t)
  PROVE  PageHolds(x)
<1>1. PICK row : ChangeThread(t, row)
  BY DEF CommentStep, CreateThread, EditThread, ResolveThread, ReopenThread, DeleteThread,
         CreateReply, UpdateReply, DeleteReply
<1>2. \A s \in Threads : ArtifactOf[s] \in {ArtifactOf[t]} \/ thread'[s] = thread[s]
  BY <1>1, TypeParts DEF ChangeThread, ThreadsTyped
<1> QED BY <1>1, <1>2, BumpHolds DEF ChangeThread

LEMMA FindHolds ==
  ASSUME TypeOK, TypeOK', NEW x \in Artifacts, NEW d \in Dispatches, NEW t, FindDispatch(d, t)
  PROVE  PageHolds(x)
<1> DEFINE ds == IF LazilyFails(dispatch[d], t) THEN {d} ELSE {}
<1>1. thread' = Released(ds) /\ None \notin ds
  BY DEF FindDispatch
<1>2. revision'[x] >= revision[x]
  BY BumpGrows DEF FindDispatch
<1> HIDE DEF ds
<1> QED BY <1>1, <1>2, ReleaseHolds

LEMMA ListHolds ==
  ASSUME TypeOK, TypeOK', NEW x \in Artifacts, ListDispatches
  PROVE  PageHolds(x)
<1> DEFINE failing == {d \in Dispatches : LazilyFails(dispatch[d], now)}
           hit == {d \in failing : x \in MarkedArtifacts(d)}
<1>1. thread' = Released(failing) /\ None \notin failing
  BY DEF ListDispatches
<1>2. IsFiniteSet(hit)
  BY FS_Subset
<1>3. revision[x] \in Nat /\ Cardinality(hit) \in Nat
  BY <1>2, TypeParts, FS_CardinalityType DEF RevisionsTyped
<1>4. revision'[x] = revision[x] + Cardinality(hit)
  BY DEF ListDispatches
<1> HIDE DEF failing, hit
<1>5. revision'[x] >= revision[x]
  BY <1>3, <1>4
<1> QED BY <1>1, <1>5, ReleaseHolds

LEMMA CallHolds ==
  ASSUME TypeOK, TypeOK', NoSplitClear, AtomicClear, NEW x \in Artifacts, NEW c \in calls, CallStep(c)
  PROVE  PageHolds(x)
<1>1. CASE CreateDispatch(c)
  <2>1. \A t \in Threads : ArtifactOf[t] \in TouchedBy(c.bundle) \/ thread'[t] = thread[t]
    BY <1>1 DEF CreateDispatch, MarkedBy, TouchedBy
  <2> QED BY <1>1, <2>1, BumpHolds DEF CreateDispatch
<1>2. CASE CancelDispatch(c) \/ MarkFailed(c)
  <2>1. c.d \in Dispatches
    BY <1>2, TypeParts DEF CallsTyped, NamesItsRows, CancelDispatch, MarkFailed
  <2>2. thread' = Released({c.d}) /\ None \notin {c.d} /\ Bump(MarkedArtifacts(c.d))
    BY <1>2, <2>1 DEF CancelDispatch, MarkFailed
  <2> QED BY <2>2, BumpGrows, ReleaseHolds
<1>3. CASE UNCHANGED <<thread, revision>>
  BY <1>3, SameHolds
<1>4. ~ClearDelete(c)
  BY DEF NoSplitClear, ClearDelete
<1>5. CASE ClearBump(c)
  BY <1>5, BumpHolds DEF ClearBump
<1> QED
  BY <1>1, <1>2, <1>3, <1>4, <1>5 DEF CallStep, ClaimNext, ClaimSweep, ClaimCheckActive, ClaimSelect,
     ClaimTake, MarkDelivered, DropCall

LEMMA ClearHolds ==
  ASSUME TypeOK, NEW x \in Artifacts, NEW y \in Artifacts, NEW states, ClearThreads(y, states)
  PROVE  PageHolds(x)
<1>1. Bump({y}) /\ thread' = Cleared(Clearable(y, states))
  BY DEF ClearThreads
<1>2. \A t \in Clearable(y, states) : ArtifactOf[t] \in {y}
  BY DEF Clearable
<1>3. \A t \in Threads : ArtifactOf[t] \in {y} \/ thread'[t] = thread[t]
  BY <1>1, <1>2, TypeParts, ClearedRows
<1> QED BY <1>1, <1>3, BumpHolds

LEMMA PagesHold ==
  ASSUME TypeOK, TypeOK', NoSplitClear, AtomicClear, [Next]_vars, NEW x \in Artifacts
  PROVE  PageHolds(x)
<1>1. CASE UNCHANGED <<thread, revision>>
  BY <1>1, SameHolds
<1>2. ASSUME NEW d \in Dispatches, GetDispatch(d) \/ AskStep(d) PROVE PageHolds(x)
  <2>1. CASE UNCHANGED <<thread, revision>>
    BY <2>1, SameHolds
  <2> QED BY <1>2, <2>1, FindHolds DEF GetDispatch, AskStep, AskCreate, AskCancel, AskReport
<1>3. CASE ListDispatches
  BY <1>3, ListHolds
<1> QED
  BY <1>1, <1>2, <1>3, CallHolds, CommentHolds, ClearHolds
     DEF Next, vars, Tick, ListAgents, AgentStep, RegisterAgent, DisconnectAgent, AskClaim,
         ClearList, PollStep, PollPage, PollRows, PollRevision

\* A page that was read together with its revision: no newer than the current
\* one, and nothing on it is stale while the revision is the same.
ViewerSound ==
    \A x \in Polled :
       /\ ~viewer[x].reading
       /\ viewer[x].rev <= revision[x]
       /\ viewer[x].rev = revision[x] => viewer[x].page \subseteq Page(x)

\* A viewer changes in its own poll only.
LEMMA ViewerSteps ==
  ASSUME [Next]_vars
  PROVE  UNCHANGED viewer \/ \E x \in Polled : PollStep(x)
BY DEF Next, vars, Tick, ListAgents, ListDispatches, AgentStep, RegisterAgent, DisconnectAgent,
       AskClaim, GetDispatch, AskStep, AskCreate, AskCancel, AskReport, CallStep, CreateDispatch,
       CancelDispatch, ClaimNext, ClaimSweep, ClaimCheckActive, ClaimSelect, ClaimTake,
       MarkDelivered, MarkFailed, ClearDelete, ClearBump, DropCall, CommentStep, CreateThread,
       EditThread, ResolveThread, ReopenThread, DeleteThread, CreateReply, UpdateReply,
       DeleteReply, ChangeThread, ClearThreads, ClearList

LEMMA ViewerKept ==
  ASSUME AtomicListing, AtomicClear
  PROVE  TypeOK /\ TypeOK' /\ NoSplitClear /\ ViewerSound /\ [Next]_vars => ViewerSound'
<1> SUFFICES ASSUME TypeOK, TypeOK', NoSplitClear, ViewerSound, [Next]_vars, NEW x \in Polled
             PROVE  /\ ~viewer'[x].reading
                    /\ viewer'[x].rev <= revision'[x]
                    /\ viewer'[x].rev = revision'[x] => viewer'[x].page \subseteq Page(x)'
  BY DEF ViewerSound
<1>1. /\ revision[x] \in Nat /\ revision'[x] \in Nat /\ viewer[x] \in ViewerRows
      /\ viewer \in [Polled -> ViewerRows]
  BY DEF TypeOK
<1>2. PageHolds(x)
  BY PagesHold
<1>3. CASE viewer'[x] = viewer[x]
  <2>1. viewer[x].rev \in Int
    BY <1>1 DEF ViewerRows, NoTime
  <2>2. ~viewer[x].reading /\ viewer[x].rev <= revision[x]
        /\ (viewer[x].rev = revision[x] => viewer[x].page \subseteq Page(x))
    BY DEF ViewerSound
  <2>3. viewer'[x].rev <= revision'[x]
    BY <1>1, <1>2, <1>3, <2>1, <2>2 DEF PageHolds
  <2>4. ASSUME viewer'[x].rev = revision'[x] PROVE viewer'[x].page \subseteq Page(x)'
    <3>1. revision'[x] = revision[x] /\ viewer[x].rev = revision[x]
      BY <1>1, <1>2, <1>3, <2>1, <2>2, <2>4 DEF PageHolds
    <3> QED BY <1>2, <1>3, <2>2, <3>1 DEF PageHolds
  <2> QED BY <1>3, <2>2, <2>3, <2>4
<1>4. CASE PollStep(x)
  <2>1. PollPage(x)
    BY <1>4 DEF PollStep, PollRows, PollRevision, ViewerSound
  <2> DEFINE v == [NoPage EXCEPT !.rev = revision[x], !.page = Page(x)]
  <2>2. viewer'[x] = v /\ UNCHANGED <<thread, revision>>
    BY <1>1, <2>1 DEF PollPage
  <2>3. v.rev = revision[x] /\ v.page = Page(x) /\ v.reading = FALSE
    BY DEF NoPage
  <2>4. Page(x) \subseteq Page(x)'
    BY <2>2, PageKept
  <2> HIDE DEF v
  <2> QED BY <1>1, <2>2, <2>3, <2>4
<1>5. ASSUME NEW y \in Polled, y # x, PollStep(y) PROVE viewer'[x] = viewer[x]
  BY <1>1, <1>5 DEF PollStep, PollPage, PollRows, PollRevision
<1> QED BY <1>3, <1>4, <1>5, ViewerSteps

\* Where rows and revision are read at once and a clear is one transaction
\* (SQLite), a viewer that holds the current revision shows no thread that was sent, edited or deleted since, for
\* any number of threads, dispatches and viewers.
THEOREM ViewersAreFresh ==
  ASSUME AtomicListing, AtomicClear PROVE Spec => []ViewerShowsNothingStale
<1>1. Init => ViewerSound
  BY DEF Init, ViewerSound, NoPage, NoTime
<1>2. ViewerSound => ViewerShowsNothingStale
  BY DEF ViewerSound, ViewerShowsNothingStale
<1> QED
  BY <1>1, <1>2, ViewerKept, InitNoSplitClear, NoSplitClearKept, DispatchTypes, PTL DEF Spec

==============================================================================
