----------------------------- MODULE Maintenance -----------------------------
(***************************************************************************)
(* The commands that look after a published repository, composed with its   *)
(* publication: verify, sync, repair data (with forward repair of a         *)
(* published revision that cannot be completed) and repair metadata         *)
(* (internal/backup/verify.go, sync.go, repair.go, forward_repair.go,       *)
(* metadata_repair.go).                                                     *)
(***************************************************************************)
EXTENDS Publication

\* validatedHead: without an accepted local commit the branch has been
\* fast-forwarded to the fetched tip (FetchOnly); the primary may have moved
\* on since.
ValidatedHead(command) ==
    /\ Used(command)
    /\ run.pc = "idle" /\ ~prep
    /\ txn.kind = "none" \/ ~txn.accepted => head \in hist[remote]

-----------------------------------------------------------------------------
(* verify.                                                                  *)

\* `part' counts the attempts; run.led is the ledger before this one.
VerifyAttempt(r, attempt) ==
    [At("verify", txn, ledger) EXCEPT
        !.rev = r, !.part = attempt, !.todo = Mirrors]

Verify(r) ==
    /\ ValidatedHead(IF r = head THEN "verify" ELSE "sync")
    /\ r \in hist[head]
    /\ run' = VerifyAttempt(r, 1)
    /\ UNCHANGED <<gitVars, mirrorVars, recordVars, ids, reported, abandoned>>

VerifyMirror(m) ==
    /\ run.pc = "verify" /\ m \in run.todo
    /\ \E o \in auditMirror(m, run.rev, run.mem) :
           /\ SaveLedger(o.ledger)
           /\ run' = [run EXCEPT !.todo = @ \ {m},
                        !.hit = IF o.ok THEN @ \cup {m} ELSE @]
    /\ UNCHANGED <<gitVars, good, bad, damage, txn, prep, ids, reported, abandoned>>

\* Mutant: an incident during the audit does not restart it.
VerifyOnce ==
    /\ run.pc = "verify" /\ run.todo = {}
    /\ run' = IF run.rev # head \/ run.hit = {} THEN Idle
              ELSE [run EXCEPT !.pc = "verified"]
    /\ UNCHANGED <<gitVars, mirrorVars, recordVars, ids, reported, abandoned>>

\* After the last mirror: a new incident restarts the audit, so that every
\* mirror reinstated was checked after it; only HEAD reinstates.  The loop
\* ends with an error after one attempt more than there are mirrors.
VerifyAgain ==
    /\ run.pc = "verify" /\ run.todo = {}
    /\ run' = IF ledger.incident # run.led.incident
                THEN IF run.part <= Cardinality(Mirrors)
                       THEN VerifyAttempt(run.rev, run.part + 1) ELSE Idle
              ELSE IF run.rev # head \/ run.hit = {} THEN Idle
              ELSE [run EXCEPT !.pc = "verified"]
    /\ UNCHANGED <<gitVars, mirrorVars, recordVars, ids, reported, abandoned>>

RecordVerified(m) ==
    /\ run.pc = "verified" /\ m \in run.hit
    /\ SaveLedger(recordVerified(ledger, m, run.rev))
    /\ run' = IF run.hit = {m} THEN Idle ELSE [run EXCEPT !.hit = @ \ {m}]
    /\ UNCHANGED <<gitVars, good, bad, damage, txn, prep, ids, reported, abandoned>>

-----------------------------------------------------------------------------
(* restore and its like: a read that fails conclusively is recorded.        *)

ReadFails(m, k) ==
    /\ ValidatedHead("verify")
    /\ k \notin good[m]
    /\ observeDataFailure(ledger, m, k) # ledger
    /\ SaveLedger(observeDataFailure(ledger, m, k))
    /\ UNCHANGED <<gitVars, good, bad, damage, txn, prep, run, ids, reported, abandoned>>

-----------------------------------------------------------------------------
(* sync from mirror s to mirror d.                                          *)

\* The source must pass its audit, which then leaves the ledger alone; the
\* destination is only observed.
Sync(s, d, r) ==
    /\ ValidatedHead("sync")
    /\ s # d /\ r \in hist[head]
    /\ \E o \in auditMirror(s, r, txn) :
           IF o.ok
             THEN \E p \in auditMirror(d, r, txn) :
                      /\ SaveLedger(p.ledger)
                      /\ run' = [At("copy", txn, p.ledger) EXCEPT
                                    !.from = {s}, !.at = {d}, !.rev = r]
             ELSE SaveLedger(o.ledger) /\ UNCHANGED run
    /\ UNCHANGED <<gitVars, good, bad, damage, txn, prep, ids, reported, abandoned>>

\* The data, and one whole representation of every edge, as the audit of
\* the source finds it.
SyncObjects(s) ==
    catalog[run.rev] \cup
    UNION {LET found == {k \in Usable(s, e, run.mem) : ManifestParts(k) \subseteq good[s]}
               k == CHOOSE x \in found : TRUE
           IN  IF found = {} THEN {} ELSE {k} \cup ManifestParts(k) :
           e \in hist[run.rev]}

\* Data goes first, then edge after edge, each with its manifest last.
CopyRank(k) ==
    CASE k.kind = "data" -> 0
      [] k.kind = "part" -> 2 * Sequence(k.rev)
      [] k.kind = "manifest" -> 2 * Sequence(k.rev) + 1

CopyNext(s, d) ==
    {k \in SyncObjects(s) \ good[d] :
        \A x \in SyncObjects(s) \ good[d] : CopyRank(k) <= CopyRank(x)}

\* copyObject: the destination's lack is observed; then the object is read
\* from the source, whose failure is observed too, and created.
CopyObject(s, d, k) ==
    LET L == observeDataFailure(ledger, d, k) IN
    /\ run.pc = "copy" /\ s \in run.from /\ d \in run.at
    /\ k \in CopyNext(s, d)
    /\ \/ /\ k \in good[s]
          /\ SaveLedger(L)
          /\ \/ PutAcknowledged(d, k) /\ UNCHANGED run
             \/ PutUncertain(d, k) /\ run' = Idle
       \/ /\ k \notin good[s]
          /\ SaveLedger(observeDataFailure(L, s, k))
          /\ UNCHANGED good /\ run' = Idle
    /\ UNCHANGED <<gitVars, bad, damage, txn, prep, ids, reported, abandoned>>

\* updateCompletionLedgerForSync never moves a row backwards.
updateCompletionLedgerForSync(row, r) ==
    IF row # NoRev /\ Sequence(r) < Sequence(row) THEN row ELSE r

\* Mutant: a sync of any revision lifts the quarantine.
SyncedLedgerLifting(both, r) ==
    [ledger EXCEPT
        !.quarantined = @ \ both,
        !.mirrors = [m \in Mirrors |->
            IF m \in both THEN updateCompletionLedgerForSync(@[m], r) ELSE @[m]]]

\* The ledger after a sync of r between the mirrors of `both'; only a sync of
\* HEAD lifts a quarantine.
SyncedLedger(both, r) ==
    LET held == IF r = head THEN ledger.quarantined \ both ELSE ledger.quarantined IN
    [ledger EXCEPT
        !.quarantined = held,
        !.mirrors = [m \in Mirrors |->
            IF m \in both \ held
              THEN updateCompletionLedgerForSync(@[m], r) ELSE @[m]]]

\* Everything is copied: source and destination are audited again, and when
\* both pass, without a new incident, the ledger is saved once.
FinishSync(s, d) ==
    /\ run.pc = "copy" /\ s \in run.from /\ d \in run.at
    /\ CopyNext(s, d) = {}
    /\ \E o \in auditMirror(s, run.rev, run.mem), p \in auditMirror(d, run.rev, run.mem) :
           SaveLedger(IF ~o.ok THEN o.ledger
                      ELSE IF ~p.ok THEN p.ledger
                      ELSE SyncedLedger({s, d}, run.rev))
    /\ run' = Idle
    /\ UNCHANGED <<gitVars, good, bad, damage, txn, prep, ids, reported, abandoned>>

-----------------------------------------------------------------------------
(* repair data: relocate object k, whose bytes are healthy on mirror s.     *)

\* An unpublished repair takes further parts.
Extending == txn.kind = "repair" /\ txn.local = NoRev /\ ~txn.resetting

Relocated(t) == {t.parts[n].pack : n \in 1 .. Len(t.parts)}

\* The part is staged already: commitTransaction goes on.
RepairResumed(k) ==
    /\ ValidatedHead("repair data")
    /\ Extending
    /\ k \in catalog[head] /\ k.pack \in Relocated(txn)
    /\ BeginTransaction(txn)
    /\ UNCHANGED <<gitVars, mirrorVars, recordVars, ids, reported, abandoned>>

\* The source is read before a pending transaction is touched.
RepairDataPart(s, k) ==
    /\ ValidatedHead("repair data")
    /\ txn.kind = "none" \/ txn.attempted \/ Extending
    /\ k \in catalog[head]
    /\ Extending => k.pack \notin Relocated(txn)
    /\ \/ /\ k \notin good[s]
          /\ SaveLedger(observeDataFailure(ledger, s, k))
          /\ UNCHANGED run
       \/ /\ k \in good[s]
          /\ txn.kind = "none" \/ Extending
          /\ run' = [At("relocate", txn, ledger) EXCEPT !.key = {k}]
          /\ UNCHANGED <<ledger, hurt>>
       \/ \* prepareForwardRepair
          /\ k \in good[s]
          /\ txn.attempted /\ txn.metadata # NoMetadata
          /\ ledger.quarantined # {} \/ ledger.forward # NoRev
          /\ run' = [At("confirm", txn, ledger) EXCEPT !.then = "forward", !.key = {k}]
          /\ UNCHANGED <<ledger, hurt>>
    /\ UNCHANGED <<gitVars, good, bad, damage, txn, prep, ids, reported, abandoned>>

\* The pending revision is the tip of the primary: the anchor is recorded.
AnchorForwardRepair ==
    LET L == [run.led EXCEPT !.forward = run.mem.local] IN
    /\ run.pc = "anchor"
    /\ remote = run.mem.local
    /\ SaveLedger(L)
    /\ run' = [run EXCEPT !.pc = "anchored", !.led = L]
    /\ UNCHANGED <<gitVars, good, bad, damage, txn, prep, ids, reported, abandoned>>

\* Mutant: the acknowledged manifests outlive the cursors.
RetractCursors ==
    LET t == [run.mem EXCEPT !.dataComplete = {}, !.revComplete = {},
                 !.metaCursor = [m \in Mirrors |-> 0]]
    IN  /\ run.pc = "anchored"
        /\ Save(t)
        /\ run' = [run EXCEPT !.pc = "upload", !.mem = t, !.todo = Mirrors]
        /\ UNCHANGED <<gitVars, mirrorVars, ledger, prep, ids, reported, abandoned>>

\* Progress is forgotten and the metadata offered to every mirror.
RetractProgress ==
    LET t == [run.mem EXCEPT !.dataComplete = {}, !.revComplete = {},
                 !.metaCursor = [m \in Mirrors |-> 0], !.manifest = {}]
    IN  /\ run.pc = "anchored"
        /\ Save(t)
        /\ run' = [run EXCEPT !.pc = "upload", !.mem = t, !.todo = Mirrors]
        /\ UNCHANGED <<gitVars, mirrorVars, ledger, prep, ids, reported, abandoned>>

\* Mutant: the chain is not audited before the transaction goes.
RetireUnaudited ==
    /\ run.pc = "chain"
    /\ Save(NoTxn)
    /\ run' = [At("relocate", NoTxn, ledger) EXCEPT !.key = run.key]
    /\ UNCHANGED <<gitVars, mirrorVars, ledger, prep, ids, reported, abandoned>>

\* One mirror has the complete chain: the transaction is retired and the
\* anchor stays.
RetireTransaction ==
    /\ run.pc = "chain"
    /\ \E m \in Mirrors : auditManifestChain(m, run.mem.local, run.mem) = "ok"
    /\ Save(NoTxn)
    /\ run' = [At("relocate", NoTxn, ledger) EXCEPT !.key = run.key]
    /\ UNCHANGED <<gitVars, mirrorVars, ledger, prep, ids, reported, abandoned>>

\* No mirror could be shown to have it.
RetainTransaction ==
    /\ run.pc = "chain"
    /\ run' = IF run.unsure # {} THEN [run EXCEPT !.pc = "rotate"] ELSE Idle
    /\ UNCHANGED <<gitVars, mirrorVars, recordVars, ids, reported, abandoned>>

\* Stage the relocation under a fresh ID and commit.
StageRelocation(k, i) ==
    LET fresh == [newTransaction("repair", head) EXCEPT
                     !.staged = TRUE, !.catalog = catalog[head]]
        start == IF run.mem.kind = "none" THEN fresh ELSE run.mem
        new == DataKey(k.pack, i)
        t == [start EXCEPT !.catalog = rewriteCandidatePackObjectID(@, k, new),
                           !.parts = rewriteDataParts(@, Len(@) + 1, new),
                           !.dataComplete = {}, !.revComplete = {}]
    IN  /\ run.pc = "relocate" /\ k \in run.key
        /\ k \in start.catalog
        /\ ValidateTransition(catalog[head], t.catalog, TRUE) = "repair"
        /\ NextId(i) /\ ids' = i
        /\ Save(t)
        /\ BeginTransaction(t)
        /\ UNCHANGED <<gitVars, mirrorVars, ledger, prep, reported, abandoned>>

-----------------------------------------------------------------------------
(* repair metadata: a new representation of the edge of r, on mirror d.     *)

RepairMetadataEdge(d, r, i) ==
    /\ ValidatedHead("repair metadata")
    /\ r \in hist[head]
    /\ txn.local = r => r \in hist[remote]
    /\ NextId(i) /\ ids' = i
    /\ run' = [At("rebuild", txn, ledger) EXCEPT !.at = {d}, !.rev = r, !.id = i]
    /\ UNCHANGED <<gitVars, mirrorVars, recordVars, reported, abandoned>>

\* Parts, then the manifest; anything but an acknowledgement ends it.
PutRebuilt(d) ==
    LET n == run.part + 1
        key == IF n <= MetaParts THEN PartKey(run.rev, n, run.id)
                                 ELSE ManifestKey(run.rev, Build(run.id))
    IN  /\ run.pc = "rebuild" /\ d \in run.at
        /\ \/ /\ PutAcknowledged(d, key)
              /\ run' = IF n <= MetaParts THEN [run EXCEPT !.part = n]
                        ELSE IF run.mem.local = run.rev THEN [run EXCEPT !.pc = "adopt"]
                        ELSE Idle
           \/ PutUncertain(d, key) /\ run' = Idle
        /\ UNCHANGED <<gitVars, bad, hurt, damage, recordVars, ids, reported, abandoned>>

\* A pending transaction adopts the representation and forgets the
\* acknowledgements of the old one.
AdoptRebuilt(d) ==
    LET t == [run.mem EXCEPT !.metadata = Build(run.id),
                 !.attempted = TRUE, !.confirmed = TRUE, !.revComplete = {},
                 !.metaCursor = [m \in Mirrors |-> IF m = d THEN MetaParts ELSE 0],
                 !.manifest = {d}]
    IN  /\ run.pc = "adopt" /\ d \in run.at
        /\ Save(t)
        /\ run' = Idle
        /\ UNCHANGED <<gitVars, mirrorVars, ledger, prep, ids, reported, abandoned>>

-----------------------------------------------------------------------------
CurrentData == catalog[head]

\* verify, and the reads of other commands.
Audits ==
    \/ \E r \in Revs : Verify(r)
    \/ \E m \in Mirrors : VerifyMirror(m) \/ RecordVerified(m)
    \/ VerifyAgain
    \/ \E m \in Mirrors : \E k \in CurrentData : ReadFails(m, k)

Syncs ==
    \/ \E s, d \in Mirrors : \E r \in Revs : Sync(s, d, r)
    \/ \E s \in run.from, d \in run.at :
           FinishSync(s, d) \/ \E k \in CopyNext(s, d) : CopyObject(s, d, k)

DataRepair ==
    \/ \E k \in CurrentData : RepairResumed(k)
    \/ \E s \in Mirrors : \E k \in CurrentData : RepairDataPart(s, k)
    \/ AnchorForwardRepair \/ RetractProgress
    \/ RetireTransaction \/ RetainTransaction
    \/ \E k \in run.key : \E i \in Ids : StageRelocation(k, i)

MetadataRepair ==
    \/ \E d \in Mirrors : \E r \in Revs : \E i \in Ids : RepairMetadataEdge(d, r, i)
    \/ \E d \in Mirrors : PutRebuilt(d) \/ AdoptRebuilt(d)

\* A third revision has been pushed, its data went to the mirrors `held', and
\* the command ended before or after the answer arrived.  Since then mirrors
\* have lost objects, and the ledger is L.
Pending(held, answered, lost, L) ==
    LET objects == {DataKey(2, 2), DataKey(4, 4)} IN
    /\ head = 3 /\ remote = 3 /\ inflight = NoPush /\ revs = 3
    /\ hist = [r \in Revs \cup {NoRev} |-> IF r \in 1 .. 3 THEN 1 .. r ELSE {}]
    /\ catalog = [r \in Revs \cup {NoRev} |->
                     IF r = 2 THEN {DataKey(2, 2)} ELSE IF r = 3 THEN objects ELSE {}]
    /\ good = [m \in Mirrors |->
                  (Edge(1, 1) \cup Edge(2, 3) \cup
                   IF m \in held THEN objects ELSE {DataKey(2, 2)}) \ lost[m]]
    /\ bad = [m \in Mirrors |-> {}] /\ hurt = [m \in Mirrors |-> {}] /\ damage = 0
    /\ txn = [PlannedTransaction("ordinary", 2) EXCEPT
                 !.capturing = TRUE, !.capture = held, !.staged = TRUE,
                 !.catalog = objects, !.dataComplete = held,
                 !.local = 3, !.accepted = TRUE, !.metadata = Build(5),
                 !.attempted = TRUE, !.confirmed = answered]
    /\ ledger = L
    /\ prep = FALSE /\ run = Idle /\ ids = 5
    /\ reported = [r \in Revs |-> IF r = 2 THEN Mirrors ELSE {}]
    /\ abandoned = {}

\* The ledger before the third revision completes anywhere.
SecondComplete == [newCompletionLedger EXCEPT !.mirrors = [m \in Mirrors |-> 2]]

InitPending ==
    /\ scenario \in Starting("pending")
    /\ \E held \in (SUBSET Mirrors) \ {{}}, answered \in BOOLEAN :
          Pending(held, answered, [m \in Mirrors |-> {}], SecondComplete)

\* The loss of a data object on one mirror has been observed.
InitDamaged ==
    /\ scenario \in Starting("damaged")
    /\ \E m \in Mirrors :
          Pending(Mirrors, FALSE, [x \in Mirrors |-> IF x = m THEN {DataKey(2, 2)} ELSE {}],
                  quarantine(SecondComplete, m))

MaintenanceNext == Next \/ Audits \/ Syncs \/ DataRepair \/ MetadataRepair

MaintenanceSpec ==
    (InitPublished \/ InitPending \/ InitDamaged) /\ [][MaintenanceNext]_vars

\* revalidateCandidate with a mirror of the capture that does not pass and
\* stays in the capture.  The capture then claims for the new incident what
\* that mirror acknowledged before it, and an interrupted commit resumes from
\* the claim.
StaleCapture ==
    Revalidated /\ run.mem.capturing /\ ~(run.mem.capture \subseteq run.hit)

\* Every step but that one; the runs of this module that check what the
\* records claim take only such steps.
Audited == ~StaleCapture

\* A pending revision under commit and reset, retried.
FairSpec == InitPending /\ [][Next]_vars /\ Fairness

-----------------------------------------------------------------------------
(* Properties.                                                              *)

\* Verify: "Each restart quarantines a previously unquarantined mirror; the
\* loop is bounded": the last attempt the bound allows meets no new incident,
\* so verify never answers "integrity changed throughout verification".
VerifySettles ==
    run.pc = "verify" /\ run.part > Cardinality(Mirrors) =>
        ledger.incident = run.led.incident

\* verify, sync and repair: a mirror leaves quarantine only when it has, since
\* the latest incident, been shown to hold the whole current revision.
QuarantineLiftedByEvidence ==
    [][\A m \in ledger.quarantined \ ledger'.quarantined :
          Holds(good'[m] \cup hurt'[m], head)]_vars

\* requireBackupEligibility, finishSnapshot and prepareForwardRepair: while a
\* published revision waits for its forward repair no success is reported;
\* the anchor moves only to a descendant, and is lifted only when a mirror
\* has completed a revision whose history contains the anchored one.
AnchorHeld ==
    [][ledger.forward # NoRev =>
          /\ reported' = reported
          /\ ledger'.forward # ledger.forward =>
                \/ ledger.forward \in hist[ledger'.forward]
                \/ \E m \in Mirrors :
                       LET r == ledger'.mirrors[m] IN
                       /\ r # NoRev
                       /\ ledger.forward \in hist[r]
                       /\ Holds(good[m] \cup hurt[m], r)]_vars
=============================================================================
