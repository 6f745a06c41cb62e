---------------------------- MODULE RevisionLife ----------------------------
(***************************************************************************)
(* What the publication of revisions promises, whatever crashes, lost       *)
(* answers and overlapping writers do: the revisions on the primary only    *)
(* grow, one at a time; a revision is reported successful only once it is   *)
(* there; and a revision given up is never published.                       *)
(***************************************************************************)

CONSTANT Revs

VARIABLES created, published, reported, abandoned

vars == <<created, published, reported, abandoned>>

Init ==
    /\ created \in SUBSET Revs
    /\ published \in SUBSET created
    /\ reported \in SUBSET published
    /\ abandoned = {}

Create(r) ==
    /\ r \notin created
    /\ created' = created \cup {r}
    /\ UNCHANGED <<published, reported, abandoned>>

Publish(r) ==
    /\ r \in created \ (published \cup abandoned)
    /\ published' = published \cup {r}
    /\ UNCHANGED <<created, reported, abandoned>>

\* Another writer's revision is first seen on the primary.
PublishElsewhere(r) ==
    /\ r \notin created
    /\ created' = created \cup {r}
    /\ published' = published \cup {r}
    /\ UNCHANGED <<reported, abandoned>>

Report(r) ==
    /\ r \in published
    /\ reported' = reported \cup {r}
    /\ UNCHANGED <<created, published, abandoned>>

Abandon(r) ==
    /\ r \in created \ published
    /\ abandoned' = abandoned \cup {r}
    /\ UNCHANGED <<created, published, reported>>

Next ==
    \E r \in Revs :
        Create(r) \/ Publish(r) \/ PublishElsewhere(r) \/ Report(r) \/ Abandon(r)

Spec == Init /\ [][Next]_vars
=============================================================================
