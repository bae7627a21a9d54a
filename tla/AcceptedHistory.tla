--------------------------- MODULE AcceptedHistory ---------------------------
(***************************************************************************)
(* What version history promises, whatever the store: every artifact has   *)
(* one current version, which is accepted history.  It moves to a version  *)
(* that is accepted in the same step, to a candidate staged on the version *)
(* it leaves, or back to an accepted version; an accepted version stays    *)
(* accepted, a closed candidate never becomes current, and a deleted       *)
(* artifact does not move.                                                 *)
(***************************************************************************)
CONSTANTS Artifacts, Versions, None

VARIABLES
    head,      \* the current version of each artifact; None before it exists
    accepted,  \* the accepted versions of each artifact
    open,      \* the open candidates: <<artifact, candidate, base>>
    spent,     \* every version id that was ever used
    gone       \* the deleted artifacts

abstractVars == <<head, accepted, open, spent, gone>>

Init ==
    /\ head = [a \in Artifacts |-> None]
    /\ accepted = [a \in Artifacts |-> {}]
    /\ open = {}
    /\ spent = {}
    /\ gone = {}

\* A new version becomes accepted and current in one step.
Accept(a, v) ==
    /\ a \notin gone
    /\ v \notin spent
    /\ head' = [head EXCEPT ![a] = v]
    /\ accepted' = [accepted EXCEPT ![a] = @ \cup {v}]
    /\ spent' = spent \cup {v}
    /\ UNCHANGED <<open, gone>>

\* A candidate remembers the current version and leaves it alone.
Stage(a, v) ==
    /\ a \notin gone
    /\ v \notin spent
    /\ head[a] # None
    /\ open' = open \cup {<<a, v, head[a]>>}
    /\ spent' = spent \cup {v}
    /\ UNCHANGED <<head, accepted, gone>>

\* A candidate becomes current only while its base is.
Promote(a, v) ==
    /\ a \notin gone
    /\ <<a, v, head[a]>> \in open
    /\ open' = open \ {<<a, v, head[a]>>}
    /\ head' = [head EXCEPT ![a] = v]
    /\ accepted' = [accepted EXCEPT ![a] = @ \cup {v}]
    /\ UNCHANGED <<spent, gone>>

Close(x) ==
    /\ x \in open
    /\ open' = open \ {x}
    /\ UNCHANGED <<head, accepted, spent, gone>>

Return(a, v) ==
    /\ a \notin gone
    /\ v \in accepted[a]
    /\ head' = [head EXCEPT ![a] = v]
    /\ UNCHANGED <<accepted, open, spent, gone>>

Delete(a) ==
    /\ head[a] # None
    /\ gone' = gone \cup {a}
    /\ UNCHANGED <<head, accepted, open, spent>>

Next ==
    \/ \E a \in Artifacts, v \in Versions :
          Return(a, v) \/ Accept(a, v) \/ Stage(a, v) \/ Promote(a, v)
    \/ \E x \in open : Close(x)
    \/ \E a \in Artifacts : Delete(a)

Spec == Init /\ [][Next]_abstractVars
==============================================================================
