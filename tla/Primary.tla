------------------------------- MODULE Primary -------------------------------
(***************************************************************************)
(* The metadata history: the local branch and the primary Git remote, which *)
(* accepts fast-forward pushes only (internal/repository/manage.go, and the *)
(* publication steps of internal/backup/commit.go and runtime.go).          *)
(*                                                                          *)
(* ApplyCommit is one step here; Materialization shows that its crashes     *)
(* are repaired before another command looks at the checkout.               *)
(***************************************************************************)
EXTENDS Transaction

CONSTANT
    Scenarios     \* where behaviours start, what bounds them, and which
                  \* commands the operator uses besides commit and reset

ScenarioSet ==
    [start: {"genesis", "published", "pending", "damaged"},
     revs: 0 .. MaxRev, ids: 0 .. MaxId,   \* bounds on what is created
     rivals: Nat,                          \* revisions another writer publishes
     damage: Nat, kinds: SUBSET {"data", "part", "manifest"},
     commands: SUBSET {"add", "verify", "sync", "repair data", "repair metadata"}]

\* The bounds of a scenario cover the state it starts from.
ASSUME PrimaryAssumption ==
    \A s \in Scenarios :
        /\ s \in ScenarioSet
        /\ s.start = "published" => s.revs >= 2 /\ s.ids >= 3
        /\ s.start \in {"pending", "damaged"} => s.revs >= 3 /\ s.ids >= 5

VARIABLES
    head,       \* the local branch
    remote,     \* the branch of the primary
    inflight,   \* a push whose answer was lost and that may still land
    revs,       \* revisions created so far
    hist,       \* revision -> its history, itself included
    catalog,    \* revision -> the data objects its tree requires
    scenario    \* the scenario; its `rivals' counts down

gitVars == <<head, remote, inflight, revs, hist, catalog, scenario>>

NoPush == [from |-> NoRev, to |-> NoRev]

GitTypeOK ==
    /\ head \in Revs \cup {NoRev}
    /\ remote \in Revs \cup {NoRev}
    /\ inflight \in [from: Revs \cup {NoRev}, to: Revs \cup {NoRev}]
    /\ revs \in 0 .. MaxRev
    /\ hist \in [Revs \cup {NoRev} -> SUBSET Revs]
    /\ catalog \in [Revs \cup {NoRev} -> SUBSET DataKeys]
    /\ scenario \in ScenarioSet

GitInit ==
    /\ head = NoRev
    /\ remote = NoRev
    /\ inflight = NoPush
    /\ revs = 0
    /\ hist = [r \in Revs \cup {NoRev} |-> {}]
    /\ catalog = [r \in Revs \cup {NoRev} |-> {}]

\* The position of a revision in its linear history.
Sequence(r) == Cardinality(hist[r])

\* CreateCommitState: a commit object whose only parent is base.
CreateCommitState(base, objects) ==
    /\ revs < scenario.revs
    /\ revs' = revs + 1
    /\ hist' = [hist EXCEPT ![revs + 1] = hist[base] \cup {revs + 1}]
    /\ catalog' = [catalog EXCEPT ![revs + 1] = objects]

\* ApplyCommit moves the branch only from the commit the caller expects.
ApplyCommit(target, expected) ==
    /\ head = expected
    /\ head' = target

\* The primary accepts a push of r: its tip is r or an ancestor of r.
FastForwards(r) == remote = NoRev \/ remote \in hist[r]

\* The push is accepted and the answer arrives.
PushAccepted(r) ==
    /\ head = r
    /\ FastForwards(r)
    /\ remote' = r
    /\ UNCHANGED inflight

\* The push fails for the client, or the client dies; the request may still
\* be on its way, to be applied against the tip it was computed from.
PushLost(r) ==
    /\ head = r
    /\ FastForwards(r)
    /\ inflight' = [from |-> remote, to |-> r]
    /\ UNCHANGED remote

\* A delayed push lands, or is refused because the tip has moved.
Deliver ==
    /\ inflight # NoPush
    /\ remote' = IF remote = inflight.from THEN inflight.to ELSE remote
    /\ inflight' = NoPush
    /\ UNCHANGED <<head, revs, hist, catalog, scenario>>

\* The fetch of validatedHead: a local head that is an ancestor of the
\* remote tip is fast-forwarded to it, any other head is refused.
FetchHead ==
    /\ remote # NoRev
    /\ head \in hist[remote]
    /\ head' = remote
=============================================================================
