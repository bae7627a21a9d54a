---------------------------- MODULE AgentDispatch ----------------------------
(***************************************************************************)
(* Comment threads and the dispatches that send them to registered agents. *)
(* A dispatch bundles open threads of one project, stamps its id on each   *)
(* of them (the marker hides the thread from the default listings) and     *)
(* waits in the queue of one agent.  The agent long-polls for a claim with *)
(* a lease, reports delivery or failure, and the threads it resolves make  *)
(* the dispatch addressed.  Nothing runs in the background: expired leases *)
(* and absent agents are dealt with lazily by whoever reads dispatches.    *)
(* Every listing-visible change of a comment bumps the revision counter    *)
(* of its artifact, by which viewers decide whether to fetch a new page.   *)
(*                                                                         *)
(* One action is one repository transaction.  A service call first reads   *)
(* the agent and the clock and only then runs its transaction, so a call   *)
(* in flight ("calls") carries the agent and the time it saw.  The three   *)
(* repositories differ in what is one transaction: see the Boolean         *)
(* constants.  Audit actions and idempotent replays change nothing here.   *)
(***************************************************************************)
EXTENDS Integers, FiniteSets

CONSTANTS
    Agents,          \* ids available to registerAgent
    Dispatches,      \* ids available to createDispatch
    Threads,         \* ids available to createThread
    Artifacts,
    ArtifactOf,      \* the artifact each thread is written on
    Polled,          \* artifacts some viewer polls
    Lease,           \* agentDispatchLeaseMilliseconds, in clock ticks
    Stale,           \* agentUnavailableStalenessMilliseconds
    Retention,       \* registeredAgentRetentionMilliseconds
    AtomicClaim,     \* claimNextDispatch is one transaction; FALSE for D1
    AtomicListing,   \* listThreads reads rows and revision at once; SQLite only
    LazyReadBumps,   \* findDispatch bumps the revision on failure; D1 only
    AtomicClear,     \* clearThreads reads and deletes at once; FALSE for D1
    MaxTime,         \* bound: the clock stops here
    MaxRevision,     \* bound: comments change while the revision is below
    MaxCalls,        \* bound: calls in flight
    LastPoll,        \* bound: agents register and poll until this time
    None

ASSUME DispatchTimes ==
    /\ Lease \in Nat /\ Stale \in Nat /\ Retention \in Nat
    /\ MaxTime \in Nat /\ MaxRevision \in Nat /\ MaxCalls \in Nat
    /\ LastPoll \in Int

ASSUME DispatchNames ==
    /\ None \notin Agents \cup Dispatches
    /\ ArtifactOf \in [Threads -> Artifacts]
    /\ Polled \subseteq Artifacts
    /\ IsFiniteSet(Dispatches)
    /\ AtomicClaim \in BOOLEAN /\ AtomicListing \in BOOLEAN
    /\ LazyReadBumps \in BOOLEAN /\ AtomicClear \in BOOLEAN

VARIABLES
    now,       \* the application clock
    agent,     \* registered_agents rows
    dispatch,  \* agent_dispatches rows
    thread,    \* comment_threads rows with their replies
    revision,  \* artifacts.comment_revision
    calls,     \* service calls between their reads and their transaction
    viewer     \* what the viewer of a polled artifact holds

vars == <<now, agent, dispatch, thread, revision, calls, viewer>>

NoTime == -1

UnknownAgent == [st |-> "unknown", seen |-> NoTime]
NoDispatch == [st |-> "none", agent |-> None, bundle |-> {}, lease |-> NoTime, created |-> NoTime]
NoThread == [st |-> "none", mark |-> None, text |-> 0, replies |-> 0]

Exists(t) == thread[t].st \in {"open", "resolved"}

\* dispatchHoldsCommentThread
Holding == {"queued", "claimed", "delivered"}

Settled == {"addressed", "failed", "canceled"}

\* bumpCommentRevision of every artifact in a set.
Bump(arts) == revision' = [x \in Artifacts |-> IF x \in arts THEN revision[x] + 1 ELSE revision[x]]

MarkedArtifacts(d) == {ArtifactOf[t] : t \in {s \in Threads : thread[s].mark = d}}

\* Mutant: the markers of a released dispatch stay behind.
ReleasedKept(ds) == thread

\* clearDispatchMarkers of every dispatch in a set.
Released(ds) ==
    [t \in Threads |-> IF thread[t].mark \in ds THEN [thread[t] EXCEPT !.mark = None]
                       ELSE thread[t]]

-----------------------------------------------------------------------------
(* Agents                                                                  *)

Tick ==
    /\ now < MaxTime
    /\ now' = now + 1
    /\ UNCHANGED <<agent, dispatch, thread, revision, calls, viewer>>

\* registerAgent: a new connection key inserts a row, a known one refreshes it.
RegisterAgent(a) ==
    /\ now <= LastPoll
    /\ agent[a].st # "gone"
    /\ agent' = [agent EXCEPT ![a] = [st |-> "here", seen |-> now]]
    /\ UNCHANGED <<now, dispatch, thread, revision, calls, viewer>>

\* disconnectAgent deletes the row; a later registration gets a new id.
DisconnectAgent(a) ==
    /\ agent[a].st = "here"
    /\ agent' = [agent EXCEPT ![a].st = "gone"]
    /\ UNCHANGED <<now, dispatch, thread, revision, calls, viewer>>

\* listAgents reaps the rows that stopped polling.
ListAgents ==
    /\ agent' = [a \in Agents |->
                   IF agent[a].st = "here" /\ agent[a].seen < now - Retention
                   THEN [agent[a] EXCEPT !.st = "gone"] ELSE agent[a]]
    /\ UNCHANGED <<now, dispatch, thread, revision, calls, viewer>>

-----------------------------------------------------------------------------
(* Lazy transitions, applied by every read of dispatches                   *)

\* Mutant: a join with the agent row instead of NOT EXISTS.
UnavailableIfPresent(a, t) == agent[a].st = "here" /\ agent[a].seen < t - Stale

\* "NOT EXISTS (agent row with last_seen_at >= t - staleness)"
Unavailable(a, t) == ~(agent[a].st = "here" /\ agent[a].seen >= t - Stale)

\* An expired claim returns to the queue.
Requeued(x, t) ==
    IF x.st = "claimed" /\ x.lease < t THEN [x EXCEPT !.st = "queued", !.lease = NoTime] ELSE x

LazilyFails(x, t) == Requeued(x, t).st = "queued" /\ Unavailable(x.agent, t)

Failed(x) == [x EXCEPT !.st = "failed", !.lease = NoTime]

\* stampAddressedWhenResolved
FullyResolved(x) == x.st = "delivered" /\ \A t \in x.bundle : thread[t].st = "resolved"

\* applyLazyDispatchTransitions on one row, in machine order.
AfterLazy(x, t) ==
    IF LazilyFails(x, t) THEN Failed(x)
    ELSE IF FullyResolved(x) THEN [x EXCEPT !.st = "addressed"]
    ELSE Requeued(x, t)

\* findDispatch at time t.  D1 bumps the revision here, the others do not.
FindDispatch(d, t) ==
    /\ dispatch[d].st # "none"
    /\ dispatch' = [dispatch EXCEPT ![d] = AfterLazy(dispatch[d], t)]
    /\ thread' = Released(IF LazilyFails(dispatch[d], t) THEN {d} ELSE {})
    /\ Bump(IF LazilyFails(dispatch[d], t) /\ LazyReadBumps THEN MarkedArtifacts(d) ELSE {})

GetDispatch(d) ==
    /\ FindDispatch(d, now)
    /\ UNCHANGED <<now, agent, calls, viewer>>

\* listDispatches applies the transitions to the whole project; every
\* failure bumps the artifacts of its own threads.
ListDispatches ==
    LET failing == {d \in Dispatches : LazilyFails(dispatch[d], now)} IN
    /\ dispatch' = [d \in Dispatches |-> AfterLazy(dispatch[d], now)]
    /\ thread' = Released(failing)
    /\ revision' = [x \in Artifacts |->
                      revision[x] + Cardinality({d \in failing : x \in MarkedArtifacts(d)})]
    /\ UNCHANGED <<now, agent, calls, viewer>>

-----------------------------------------------------------------------------
(* Sending and canceling                                                   *)

Call(op, a, d, bundle) ==
    [op |-> op, agent |-> a, d |-> d, bundle |-> bundle, t |-> now]

Ask(call) ==
    /\ Cardinality(calls) < MaxCalls
    /\ calls' = calls \cup {call}

\* createDispatch: requireBundle, requireAgent and the clock, then the call.
AskCreate(a, d, bundle) ==
    /\ agent[a].st = "here"
    /\ bundle # {}
    /\ Ask(Call("create", a, d, bundle))
    /\ UNCHANGED <<now, agent, dispatch, thread, revision, viewer>>

\* Mutant: a thread of another dispatch is taken over.
SendableMarked(t) == thread[t].st = "open"

\* The check of createDispatch on each thread of the bundle.
Sendable(t) == thread[t].st = "open" /\ thread[t].mark = None

\* The marker update of createDispatch.
MarkedBy(c) ==
    [t \in Threads |-> IF t \in c.bundle THEN [thread[t] EXCEPT !.mark = c.d] ELSE thread[t]]

\* Mutant: a send does not count as a change of its threads.
TouchedByNone(bundle) == {}

\* bumpCommentRevisionForThreads
TouchedBy(bundle) == {ArtifactOf[t] : t \in bundle}

CreateDispatch(c) ==
    /\ c.op = "create"
    /\ dispatch[c.d].st = "none"
    /\ \A t \in c.bundle : Sendable(t) /\ revision[ArtifactOf[t]] < MaxRevision
    /\ dispatch' = [dispatch EXCEPT ![c.d] =
                      [st |-> "queued", agent |-> c.agent, bundle |-> c.bundle,
                       lease |-> NoTime, created |-> c.t]]
    /\ thread' = MarkedBy(c)
    /\ Bump(TouchedBy(c.bundle))
    /\ calls' = calls \ {c}
    /\ UNCHANGED <<now, agent, viewer>>

\* cancelDispatch reads the dispatch (with its lazy transitions) first.
AskCancel(d) ==
    /\ FindDispatch(d, now)
    /\ Ask(Call("cancel", None, d, {}))
    /\ UNCHANGED <<now, agent, viewer>>

\* Mutant: a cancel that arrives after the dispatch failed still applies.
CancelableLate == {"queued", "claimed", "failed"}

Cancelable == {"queued", "claimed"}

CancelDispatch(c) ==
    /\ c.op = "cancel"
    /\ dispatch[c.d].st \in Cancelable
    /\ dispatch' = [dispatch EXCEPT ![c.d].st = "canceled", ![c.d].lease = NoTime]
    /\ Bump(MarkedArtifacts(c.d))
    /\ thread' = Released({c.d})
    /\ calls' = calls \ {c}
    /\ UNCHANGED <<now, agent, viewer>>

-----------------------------------------------------------------------------
(* Claiming and reporting                                                  *)

\* claimDispatch: the poll of a registered agent.  A re-check of a held poll
\* writes nothing unless there is work, and then runs as a claim does.
AskClaim(a) ==
    /\ now <= LastPoll
    /\ agent[a].st = "here"
    /\ Ask(Call("claim", a, None, {}))
    /\ UNCHANGED <<now, agent, dispatch, thread, revision, viewer>>

Heartbeat(c) ==
    agent' = [agent EXCEPT ![c.agent].seen = IF agent[c.agent].st = "here" THEN c.t ELSE @]

\* The agent's rows after its expired claims were returned to the queue.
Swept(c) ==
    [d \in Dispatches |-> IF dispatch[d].agent = c.agent THEN Requeued(dispatch[d], c.t)
                          ELSE dispatch[d]]

\* Mutant: the active claim is not looked up.
ActiveUnchecked(rows, a) == {}

Active(rows, a) == {d \in Dispatches : rows[d].st = "claimed" /\ rows[d].agent = a}

Queued(rows, a) == {d \in Dispatches : rows[d].st = "queued" /\ rows[d].agent = a}

\* "ORDER BY created_at, id LIMIT 1"; the order of ids is left open.
Oldest(rows, a) ==
    {d \in Queued(rows, a) : \A e \in Queued(rows, a) : rows[d].created <= rows[e].created}

Claimed(x, t) == [x EXCEPT !.st = "claimed", !.lease = t + Lease]

\* claimNextDispatch of SQLite, and of Postgres under lockAgentClaim.
ClaimNext(c) ==
    LET rows == Swept(c) IN
    /\ AtomicClaim
    /\ c.op = "claim"
    /\ Heartbeat(c)
    /\ \/ /\ Active(rows, c.agent) = {}
          /\ \E d \in Oldest(rows, c.agent) :
                dispatch' = [rows EXCEPT ![d] = Claimed(rows[d], c.t)]
       \/ /\ Active(rows, c.agent) # {} \/ Oldest(rows, c.agent) = {}
          /\ dispatch' = rows
    /\ calls' = calls \ {c}
    /\ UNCHANGED <<now, thread, revision, viewer>>

\* claimNextDispatch of D1: four separate round trips.
ClaimSweep(c) ==
    /\ ~AtomicClaim
    /\ c.op = "claim"
    /\ Heartbeat(c)
    /\ dispatch' = Swept(c)
    /\ calls' = (calls \ {c}) \cup {[c EXCEPT !.op = "active?"]}
    /\ UNCHANGED <<now, thread, revision, viewer>>

ClaimCheckActive(c) ==
    /\ c.op = "active?"
    /\ calls' = (calls \ {c}) \cup
                   (IF Active(dispatch, c.agent) = {} THEN {[c EXCEPT !.op = "oldest?"]} ELSE {})
    /\ UNCHANGED <<now, agent, dispatch, thread, revision, viewer>>

ClaimSelect(c) ==
    /\ c.op = "oldest?"
    /\ \/ \E d \in Oldest(dispatch, c.agent) :
             calls' = (calls \ {c}) \cup {[c EXCEPT !.op = "take", !.d = d]}
       \/ Oldest(dispatch, c.agent) = {} /\ calls' = calls \ {c}
    /\ UNCHANGED <<now, agent, dispatch, thread, revision, viewer>>

\* The guard of the last batch looks at the selected dispatch only.
ClaimTake(c) ==
    /\ c.op = "take"
    /\ \/ /\ dispatch[c.d].st = "queued"
          /\ dispatch' = [dispatch EXCEPT ![c.d] = Claimed(dispatch[c.d], c.t)]
       \/ dispatch[c.d].st # "queued" /\ UNCHANGED dispatch
    /\ calls' = calls \ {c}
    /\ UNCHANGED <<now, agent, thread, revision, viewer>>

\* reportDelivered and reportFailed, by the dispatch's own agent.
AskReport(d, op) ==
    /\ dispatch[d].st # "none"
    /\ agent[dispatch[d].agent].st = "here"
    /\ Ask(Call(op, dispatch[d].agent, d, {}))
    /\ UNCHANGED <<now, agent, dispatch, thread, revision, viewer>>

\* markDelivered compares the state, not the lease.
MarkDelivered(c) ==
    /\ c.op = "delivered"
    /\ dispatch[c.d].st = "claimed"
    /\ dispatch' = [dispatch EXCEPT ![c.d].st = "delivered"]
    /\ calls' = calls \ {c}
    /\ UNCHANGED <<now, agent, thread, revision, viewer>>

MarkFailed(c) ==
    /\ c.op = "failed"
    /\ dispatch[c.d].st \in {"claimed", "delivered"}
    /\ dispatch' = [dispatch EXCEPT ![c.d] = Failed(dispatch[c.d])]
    /\ Bump(MarkedArtifacts(c.d))
    /\ thread' = Released({c.d})
    /\ calls' = calls \ {c}
    /\ UNCHANGED <<now, agent, viewer>>

\* The call is lost, or its transaction refused it.
DropCall(c) ==
    /\ calls' = calls \ {c}
    /\ UNCHANGED <<now, agent, dispatch, thread, revision, viewer>>

-----------------------------------------------------------------------------
(* Comments                                                                *)

\* A comment transaction replaces one thread and bumps its artifact.
ChangeThread(t, row) ==
    /\ revision[ArtifactOf[t]] < MaxRevision
    /\ thread' = [thread EXCEPT ![t] = row]
    /\ Bump({ArtifactOf[t]})
    /\ UNCHANGED <<now, agent, dispatch, calls, viewer>>

Rewritten(row) == [row EXCEPT !.text = row.text + 1]

CreateThread(t) ==
    /\ thread[t].st = "none"
    /\ ChangeThread(t, [NoThread EXCEPT !.st = "open"])

\* updateThread with a body or an anchor.
EditThread(t) == Exists(t) /\ ChangeThread(t, Rewritten(thread[t]))

ResolveThread(t) == Exists(t) /\ ChangeThread(t, [thread[t] EXCEPT !.st = "resolved"])

\* Mutant: a spent marker stays on the reopened thread.
AfterReopenKept(row) == [row EXCEPT !.st = "open"]

\* releaseSpentDispatchMarker: a marker whose bundle reached the agent, or
\* came to nothing, does not survive the reopening of the thread.
AfterReopen(row) ==
    [row EXCEPT !.st = "open",
                !.mark = IF row.mark # None
                            /\ dispatch[row.mark].st \in {"delivered"} \cup Settled
                         THEN None ELSE row.mark]

ReopenThread(t) == Exists(t) /\ ChangeThread(t, AfterReopen(thread[t]))

\* Mutant: only a claimed dispatch protects its threads.
HeldByDispatchClaimed(t) == thread[t].mark # None /\ dispatch[thread[t].mark].st = "claimed"

HeldByDispatch(t) == thread[t].mark # None /\ dispatch[thread[t].mark].st \in Holding

Gone(row) == [row EXCEPT !.st = "deleted", !.mark = None]

DeleteThread(t) ==
    /\ Exists(t)
    /\ ~HeldByDispatch(t)
    /\ ChangeThread(t, Gone(thread[t]))

\* What clearThreads of an artifact lists and a dispatch does not hold.
Clearable(x, states) ==
    {t \in Threads : ArtifactOf[t] = x /\ thread[t].st \in states /\ ~HeldByDispatch(t)}

Cleared(cleared) ==
    [t \in Threads |-> IF t \in cleared /\ Exists(t) THEN Gone(thread[t]) ELSE thread[t]]

\* clearThreads of SQLite: one transaction.
ClearThreads(x, states) ==
    /\ AtomicClear
    /\ Clearable(x, states) # {}
    /\ revision[x] < MaxRevision
    /\ thread' = Cleared(Clearable(x, states))
    /\ Bump({x})
    /\ UNCHANGED <<now, agent, dispatch, calls, viewer>>

\* clearThreads of D1 lists first, ...
ClearList(x, states) ==
    /\ ~AtomicClear
    /\ Clearable(x, states) # {}
    /\ revision[x] < MaxRevision
    /\ Ask(Call("clear", None, None, Clearable(x, states)))
    /\ UNCHANGED <<now, agent, dispatch, thread, revision, viewer>>

\* ... then deletes what it listed, without another look at the dispatches, ...
ClearDelete(c) ==
    /\ c.op = "clear"
    /\ thread' = Cleared(c.bundle)
    /\ calls' = (calls \ {c}) \cup {[c EXCEPT !.op = "cleared"]}
    /\ UNCHANGED <<now, agent, dispatch, revision, viewer>>

\* ... and bumps the revision in a batch of its own.
ClearBump(c) ==
    /\ c.op = "cleared"
    /\ Bump(TouchedBy(c.bundle))
    /\ calls' = calls \ {c}
    /\ UNCHANGED <<now, agent, dispatch, thread, viewer>>

\* createReply: only an open thread takes a reply.
CreateReply(t) ==
    /\ thread[t].st = "open"
    /\ ChangeThread(t, [Rewritten(thread[t]) EXCEPT !.replies = @ + 1])

UpdateReply(t) ==
    /\ Exists(t) /\ thread[t].replies > 0
    /\ ChangeThread(t, Rewritten(thread[t]))

DeleteReply(t) ==
    /\ Exists(t) /\ thread[t].replies > 0
    /\ ChangeThread(t, [Rewritten(thread[t]) EXCEPT !.replies = @ - 1])

-----------------------------------------------------------------------------
(* Polling the comments of an artifact                                     *)

\* The default listing hides the threads a dispatch marked.
Visible(t) == Exists(t) /\ thread[t].mark = None

Page(x) == {<<t, thread[t].st, thread[t].text>> : t \in {s \in Threads : ArtifactOf[s] = x /\ Visible(s)}}

NoPage == [rev |-> NoTime, page |-> {}, rows |-> {}, reading |-> FALSE]

\* listThreads of the service answers "unchanged" to the revision the viewer
\* holds; otherwise the repository reads the page and the revision.
PollPage(x) ==
    /\ AtomicListing
    /\ viewer[x].rev # revision[x]
    /\ viewer' = [viewer EXCEPT ![x] = [NoPage EXCEPT !.rev = revision[x], !.page = Page(x)]]
    /\ UNCHANGED <<now, agent, dispatch, thread, revision, calls>>

\* Postgres and D1 read them in two statements outside a transaction.
PollRows(x) ==
    /\ ~AtomicListing
    /\ viewer[x].rev # revision[x]
    /\ viewer' = [viewer EXCEPT ![x].rows = Page(x), ![x].reading = TRUE]
    /\ UNCHANGED <<now, agent, dispatch, thread, revision, calls>>

PollRevision(x) ==
    /\ viewer[x].reading
    /\ viewer' = [viewer EXCEPT ![x] = [NoPage EXCEPT !.rev = revision[x], !.page = viewer[x].rows]]
    /\ UNCHANGED <<now, agent, dispatch, thread, revision, calls>>

-----------------------------------------------------------------------------
Init ==
    /\ now = 0
    /\ agent = [a \in Agents |-> UnknownAgent]
    /\ dispatch = [d \in Dispatches |-> NoDispatch]
    /\ thread = [t \in Threads |-> NoThread]
    /\ revision = [x \in Artifacts |-> 0]
    /\ calls = {}
    /\ viewer = [x \in Polled |-> NoPage]

AgentStep(a) == RegisterAgent(a) \/ DisconnectAgent(a) \/ AskClaim(a)

AskStep(d) ==
    \/ \E a \in Agents, bundle \in SUBSET Threads : AskCreate(a, d, bundle)
    \/ AskCancel(d)
    \/ \E op \in {"delivered", "failed"} : AskReport(d, op)

CallStep(c) ==
    \/ CreateDispatch(c) \/ CancelDispatch(c)
    \/ ClaimNext(c) \/ ClaimSweep(c) \/ ClaimCheckActive(c) \/ ClaimSelect(c) \/ ClaimTake(c)
    \/ MarkDelivered(c) \/ MarkFailed(c) \/ ClearDelete(c) \/ ClearBump(c) \/ DropCall(c)

CommentStep(t) ==
    \/ CreateThread(t) \/ EditThread(t) \/ ResolveThread(t) \/ ReopenThread(t)
    \/ DeleteThread(t) \/ CreateReply(t) \/ UpdateReply(t) \/ DeleteReply(t)

PollStep(x) == PollPage(x) \/ PollRows(x) \/ PollRevision(x)

Next ==
    \/ Tick \/ ListAgents \/ ListDispatches
    \/ \E a \in Agents : AgentStep(a)
    \/ \E d \in Dispatches : GetDispatch(d) \/ AskStep(d)
    \/ \E c \in calls : CallStep(c)
    \/ \E t \in Threads : CommentStep(t)
    \/ \E x \in Artifacts, states \in {{"open", "resolved"}, {"resolved"}} :
          ClearThreads(x, states) \/ ClearList(x, states)
    \/ \E x \in Polled : PollStep(x)

Spec == Init /\ [][Next]_vars

\* Somebody keeps looking at the dispatches: the transitions are lazy.
FairSpec == Spec /\ WF_vars(Tick) /\ WF_vars(ListDispatches)

-----------------------------------------------------------------------------
(* Properties                                                              *)

AgentRows == [st : {"unknown", "here", "gone"}, seen : {NoTime} \cup Nat]

DispatchRows ==
    [st : {"none"} \cup Holding \cup Settled, agent : Agents \cup {None},
     bundle : SUBSET Threads, lease : {NoTime} \cup Nat, created : {NoTime} \cup Nat]

ThreadRows ==
    [st : {"none", "open", "resolved", "deleted"}, mark : Dispatches \cup {None},
     text : Nat, replies : Nat]

Ops == {"create", "cancel", "claim", "active?", "oldest?", "take", "delivered", "failed",
        "clear", "cleared"}

CallRows ==
    [op : Ops, agent : Agents \cup {None}, d : Dispatches \cup {None},
     bundle : SUBSET Threads, t : Nat]

Pages == SUBSET (Threads \X {"open", "resolved"} \X Nat)

ViewerRows == [rev : {NoTime} \cup Nat, page : Pages, rows : Pages, reading : BOOLEAN]

\* A call names the dispatch and the agent its transaction works on.
NamesItsRows(c) ==
    /\ c.op \in {"create", "cancel", "take", "delivered", "failed"} => c.d \in Dispatches
    /\ c.op \notin {"cancel", "clear", "cleared"} => c.agent \in Agents

\* Every variable holds rows of its type, and a dispatch names its agent.
TypeOK ==
    /\ now \in Nat
    /\ agent \in [Agents -> AgentRows]
    /\ dispatch \in [Dispatches -> DispatchRows]
    /\ thread \in [Threads -> ThreadRows]
    /\ revision \in [Artifacts -> Nat]
    /\ calls \subseteq CallRows
    /\ viewer \in [Polled -> ViewerRows]
    /\ \A c \in calls : NamesItsRows(c)
    /\ \A d \in Dispatches : dispatch[d].st # "none" => dispatch[d].agent \in Agents

\* One-active-claim: an agent never holds two claimed dispatches, whatever
\* polls overlap, leases lapse or late reports arrive.
OneActiveClaim ==
    \A d, e \in Dispatches :
        /\ d # e
        /\ dispatch[d].st = "claimed"
        /\ dispatch[e].st = "claimed"
        => dispatch[d].agent # dispatch[e].agent

\* An agent is never sent after a thread that is gone or that belongs to
\* someone else: until it is delivered, every thread of a bundle exists and
\* carries the marker of that dispatch, although threads are resolved, reopened,
\* deleted and cleared and other sends race for them.  SQLite only: the comment
\* "Clearing never yanks work out from under an agent" does not hold on D1.
BundleHeld ==
    \A d \in Dispatches :
        dispatch[d].st \in {"queued", "claimed"} =>
            \A t \in dispatch[d].bundle : Exists(t) /\ thread[t].mark = d

\* The rows and the calls in flight name what they refer to, and a bundle finds
\* its threads.
BundlesAreSound == TypeOK /\ BundleHeld

\* No thread is stranded off the default listings: a marker is held by a live
\* dispatch that bundles the thread, or the thread is resolved and its
\* dispatch addressed.  An open thread always has somebody working on it.
NoStrandedThread ==
    \A t \in Threads :
        LET d == thread[t].mark IN
        d # None =>
            /\ t \in dispatch[d].bundle
            /\ \/ dispatch[d].st \in Holding
               \/ dispatch[d].st = "addressed" /\ thread[t].st = "resolved"

\* Late reports, cancels and lazy reads never bring a settled dispatch back.
SettledIsFinal ==
    [][\A d \in Dispatches : dispatch[d].st \in Settled => dispatch'[d] = dispatch[d]]_vars

\* A viewer that holds the current revision shows no thread that has since been
\* sent, edited or deleted, so it never offers what cannot be acted on.
ViewerShowsNothingStale ==
    \A x \in Polled : viewer[x].rev = revision[x] => viewer[x].page \subseteq Page(x)

\* project/spec/artifact-comments-spec.md: the revision "increments inside the
\* same transaction as every listing-visible comment change", so a viewer that
\* holds the current revision holds the current page.
RevisionNamesThePage ==
    \A x \in Polled : viewer[x].rev = revision[x] => viewer[x].page = Page(x)

\* A dispatch nobody works on comes back: once its agent stopped polling for
\* good, a queued or claimed dispatch is failed (or was delivered or canceled),
\* even if the agent's row was deleted meanwhile.
WorkComesBack ==
    \A d \in Dispatches :
        dispatch[d].st \in {"queued", "claimed"} ~> dispatch[d].st \in {"delivered"} \cup Settled
=============================================================================
