---------------------------- MODULE ObjectMirrors ----------------------------
(***************************************************************************)
(* The object mirrors: immutable, append-only stores of keyed objects, as   *)
(* the code in internal/backup uses them through objectstore.Store, with    *)
(* the audits of incident.go and metadata.go.                               *)
(***************************************************************************)
EXTENDS Primary

VARIABLES
    good,      \* mirror -> keys whose object is intact
    bad,       \* mirror -> keys whose object is corrupt
    hurt,      \* mirror -> keys damaged since the latest integrity incident
    damage     \* objects damaged so far

mirrorVars == <<good, bad, hurt, damage>>

\* The key sets are infinite in principle; the type is stated by membership.
MirrorTypeOK ==
    /\ DOMAIN good = Mirrors /\ \A m \in Mirrors : \A k \in good[m] : k \in Keys
    /\ DOMAIN bad = Mirrors /\ \A m \in Mirrors : \A k \in bad[m] : k \in Keys
    /\ DOMAIN hurt = Mirrors /\ \A m \in Mirrors : \A k \in hurt[m] : k \in Keys
    /\ damage \in 0 .. scenario.damage

MirrorInit ==
    /\ good = [m \in Mirrors |-> {}]
    /\ bad = [m \in Mirrors |-> {}]
    /\ hurt = [m \in Mirrors |-> {}]
    /\ damage = 0

-----------------------------------------------------------------------------
(* Conditional creation.  An object is never overwritten, so a key that     *)
(* holds corrupt bytes answers with a conflict whose audit fails.           *)

\* Mutant: an answer that no audit settled counts as an acknowledgement.
PutAssumed(m, k) ==
    /\ k \notin bad[m]
    /\ good' = good \/ good' = [good EXCEPT ![m] = @ \cup {k}]

\* CreateAcknowledged, or a conflict or ambiguous answer whose audit of the
\* object succeeds.
PutAcknowledged(m, k) ==
    /\ k \notin bad[m]
    /\ good' = [good EXCEPT ![m] = @ \cup {k}]

\* A conflict or ambiguous answer that no audit could settle: the object may
\* or may not have been created.
PutUncertain(m, k) ==
    \/ UNCHANGED good
    \/ PutAcknowledged(m, k)

\* The mirror is unavailable, or refuses: nothing was created.  (Left out: a
\* bucket that creates the object and does not confirm its encryption.)
PutFailed == UNCHANGED good

-----------------------------------------------------------------------------
(* The checksum audit of a metadata chain.                                  *)

Manifests(S, r) == {k \in S : k.kind = "manifest" /\ k.rev = r}

\* While t is pending, only the representation it has staged completes its
\* own revision.
Usable(m, r, t) ==
    {k \in Manifests(good[m], r) :
        t.kind # "none" /\ t.local = r =>
            t.metadata # NoMetadata /\ k = ManifestKey(r, t.metadata)}

\* The audit of one representation stops at its first failing part.
FirstPartCorrupt(m, k) ==
    \E n \in PartIndexes :
        /\ PartKey(k.rev, n, k.parts[n]) \in bad[m]
        /\ \A i \in 1 .. n - 1 : PartKey(k.rev, i, k.parts[i]) \in good[m]

EdgeStatus(m, r, t) ==
    IF \E k \in Usable(m, r, t) : ManifestParts(k) \subseteq good[m]
      THEN "ok"
    ELSE IF \/ /\ Manifests(good[m], r) = {}
               /\ Manifests(bad[m], r) # {}
            \/ \E k \in Usable(m, r, t) : FirstPartCorrupt(m, k)
      THEN "corrupt"
    ELSE "missing"

\* auditManifestChain: the first edge that fails decides.
auditManifestChain(m, r, t) ==
    LET failing == {e \in hist[r] : EdgeStatus(m, e, t) # "ok"}
        first == {e \in failing : \A f \in failing : Sequence(e) <= Sequence(f)}
    IN  IF failing = {} THEN "ok"
        ELSE IF \E e \in first : EdgeStatus(m, e, t) = "corrupt" THEN "corrupt"
        ELSE "missing"

-----------------------------------------------------------------------------
\* One object is corrupted in place, or lost.
Damage ==
    /\ damage < scenario.damage
    /\ damage' = damage + 1
    /\ \E m \in Mirrors : \E k \in {x \in good[m] : x.kind \in scenario.kinds} :
           /\ good' = [good EXCEPT ![m] = @ \ {k}]
           /\ hurt' = [hurt EXCEPT ![m] = @ \cup {k}]
           /\ \/ bad' = [bad EXCEPT ![m] = @ \cup {k}]
              \/ UNCHANGED bad

\* What mirror m has to hold for revision r to be recoverable from it alone:
\* every data object of its tree and one whole representation of every edge
\* of its history.
Holds(S, r) ==
    /\ catalog[r] \subseteq S
    /\ \A e \in hist[r] :
           \E k \in Manifests(S, e) : ManifestParts(k) \subseteq S
=============================================================================
