----------------------------- MODULE Publication -----------------------------
(***************************************************************************)
(* The publication of a revision by the one authoritative checkout: add,    *)
(* commit and reset (internal/backup/add.go, capture.go, commit.go,         *)
(* incident.go, preparation.go, reset.go).                                  *)
(*                                                                          *)
(* At most one command runs, under the repository lock.  An action is the   *)
(* code between two durable writes or remote calls; Stop ends the command   *)
(* between any two of them, by a crash or by an error return, and loses     *)
(* `run'.  Everything else survives.                                        *)
(***************************************************************************)
EXTENDS ObjectMirrors

VARIABLES
    txn,        \* transaction.json, NoTxn when absent
    ledger,     \* completion-ledger.json
    prep,       \* the preparation record of the first publication exists
    run,        \* the command in progress: its place and its memory
    ids,        \* object IDs handed out
    reported,   \* revisions reported successful -> the mirrors named
    abandoned   \* revisions whose transaction was reset

recordVars == <<txn, ledger, prep>>
vars == <<gitVars, mirrorVars, recordVars, run, ids, reported, abandoned>>

-----------------------------------------------------------------------------
(* The command in progress.                                                 *)

Places == {"idle", "capture", "recheck", "record", "data", "revalidate",
           "create", "accept", "stage", "confirm", "push", "confirmTip",
           "upload", "completed", "rotate", "finish", "reset",
           \* of the commands of Maintenance
           "verify", "verified", "copy", "relocate", "anchor", "anchored",
           "chain", "rebuild", "adopt"}

Runs ==
    [pc: Places, mem: Transactions, led: Ledgers, todo: SUBSET Mirrors,
     hit: SUBSET Mirrors, at: SUBSET Mirrors, unsure: SUBSET Keys,
     part: Nat, then: {"none", "upload", "record", "forward"},
     from: SUBSET Mirrors, rev: Revs \cup {NoRev}, id: Ids \cup {0},
     key: SUBSET DataKeys]

\* No command runs.
Idle ==
    [pc |-> "idle", mem |-> NoTxn, led |-> newCompletionLedger,
     todo |-> {}, hit |-> {}, at |-> {}, unsure |-> {}, part |-> 0,
     then |-> "none", from |-> {}, rev |-> NoRev, id |-> 0, key |-> {}]

\* A command at place p holding transaction t and ledger copy L.
At(p, t, L) == [Idle EXCEPT !.pc = p, !.mem = t, !.led = L]

\* The operator uses command c in this scenario.
Used(c) == c \in scenario.commands

\* The scenarios that begin at s.
Starting(s) == {x \in Scenarios : x.start = s}

NextId(i) == ids < scenario.ids /\ i = ids + 1

\* saveTransaction.
Save(t) == txn' = t

\* saveLedger; a new incident starts a new period of evidence.
SaveLedger(L) ==
    /\ ledger' = L
    /\ hurt' = IF L.incident > ledger.incident
                 THEN [m \in Mirrors |-> {}] ELSE hurt

-----------------------------------------------------------------------------
(* Audits that may quarantine a mirror.  An audit returns whether it passed *)
(* and the ledger it leaves; unavailability fails it without a trace.       *)

\* observeDataFailure for key k on mirror m, from ledger L.
observeDataFailure(L, m, k) ==
    LET acknowledged ==
            /\ txn.kind # "none" /\ txn.local = head
            /\ m \in txn.dataComplete \/ m \in txn.capture
        known == L.mirrors[m] # NoRev /\ k \in catalog[L.mirrors[m]]
    IN  IF k \in catalog[head] /\ (k \in bad[m] \/ acknowledged \/ known)
          THEN quarantine(L, m) ELSE L

\* auditData stops at the first part that fails.
auditData(m, objects) ==
    {[ok |-> FALSE, ledger |-> ledger]}
    \cup IF objects \subseteq good[m]
           THEN {[ok |-> TRUE, ledger |-> ledger]}
           ELSE {[ok |-> FALSE, ledger |-> observeDataFailure(ledger, m, k)] :
                    k \in objects \ good[m]}

\* auditChain for revision r, with t pending, starting from ledger L.
ObserveChainFailure(m, r, t, L) ==
    LET status == auditManifestChain(m, r, t)
        acknowledged ==
            /\ t.kind # "none" /\ t.local = r /\ t.metadata # NoMetadata
            /\ m \in t.manifest
        known == L.mirrors[m]
    IN  IF \/ status = "corrupt"
           \/ acknowledged
           \/ /\ m \notin L.quarantined
              /\ known # NoRev
              /\ auditManifestChain(m, known, t) # "ok"
          THEN quarantine(L, m) ELSE L

auditChain(m, r, t, L) ==
    {[ok |-> FALSE, ledger |-> L]}
    \cup IF auditManifestChain(m, r, t) = "ok"
           THEN {[ok |-> TRUE, ledger |-> L]}
           ELSE {[ok |-> FALSE, ledger |-> ObserveChainFailure(m, r, t, L)]}

\* auditMirror: data, then the chain whatever the data audit said.
auditMirror(m, r, t) ==
    UNION {{[ok |-> d.ok /\ c.ok, ledger |-> c.ledger] :
               c \in auditChain(m, r, t, d.ledger)} :
           d \in auditData(m, catalog[r])}

\* Mutant: a candidate is revalidated by its data alone.
AuditCandidateData(m, t) == auditData(m, t.catalog)

\* The candidate audit of revalidateCandidate: the chain of the base is
\* audited only when the data passed.
AuditCandidate(m, t) ==
    UNION {IF d.ok THEN auditChain(m, t.base, t, d.ledger) ELSE {d} :
           d \in auditData(m, t.catalog)}

-----------------------------------------------------------------------------
(* add.                                                                     *)

\* addInitial: plan the first backup before anything is published.
addInitial ==
    /\ Used("add") /\ run.pc = "idle" /\ prep
    /\ txn.kind \in {"none", "initial"}
    /\ head = NoRev
    /\ Save(PlannedTransaction("initial", NoRev))
    /\ UNCHANGED <<gitVars, mirrorVars, ledger, prep, run, ids, reported, abandoned>>

\* Add: fetch, fast-forward the checkout and save a plan against the tip.
\* It replaces a plan without commit progress; Replan saves the same record.
Add ==
    /\ Used("add") /\ run.pc = "idle" /\ ~prep
    /\ txn.kind = "none" \/ replaceableByAdd(txn)
    /\ FetchHead
    /\ Save(PlannedTransaction("ordinary", head'))
    /\ UNCHANGED <<remote, inflight, revs, hist, catalog, scenario, mirrorVars, ledger, prep,
                   run, ids, reported, abandoned>>

\* Mutant: the fetch moves the branch whatever is pending.
FetchAnyway ==
    /\ Used("add") /\ run.pc = "idle" /\ ~prep
    /\ head # remote
    /\ FetchHead
    /\ UNCHANGED <<remote, inflight, revs, hist, catalog, scenario, mirrorVars, recordVars,
                   run, ids, reported, abandoned>>

\* A command that calls validatedHead fast-forwards the checkout unless an
\* accepted local commit is pending or the first publication is under way,
\* and may stop right after.
FetchOnly ==
    /\ Used("add") /\ run.pc = "idle" /\ ~prep
    /\ txn.kind = "none" \/ ~txn.accepted
    /\ head # remote
    /\ FetchHead
    /\ UNCHANGED <<remote, inflight, revs, hist, catalog, scenario, mirrorVars, recordVars,
                   run, ids, reported, abandoned>>

-----------------------------------------------------------------------------
(* commit: the first publication (preparation.go).                          *)

\* startGenesis: pin the remote and stage an empty first revision that
\* carries the saved plan along.
startGenesis ==
    /\ run.pc = "idle" /\ prep
    /\ txn.kind = "initial"
    /\ Save([PlannedTransaction("genesis", NoRev) EXCEPT !.staged = TRUE])
    /\ UNCHANGED <<gitVars, mirrorVars, ledger, prep, run, ids, reported, abandoned>>

\* finishPreparation: the plan has been handed to an ordinary transaction.
finishPreparation ==
    /\ run.pc = "idle" /\ prep
    /\ txn.kind = "ordinary"
    /\ prep' = FALSE
    /\ UNCHANGED <<gitVars, mirrorVars, txn, ledger, run, ids, reported, abandoned>>

-----------------------------------------------------------------------------
(* commit: capture of an add plan (capture.go).                             *)

\* The checks of Commit and capturePlan, and the record that starts the
\* capture on the mirrors complete through the base.
StartCapture ==
    LET through == {m \in Mirrors : ledger.mirrors[m] = txn.base}
        t == [txn EXCEPT !.incident = ledger.incident, !.capturing = TRUE,
                         !.capture = through]
    IN  /\ run.pc = "idle" /\ ~prep
        /\ txn.kind = "ordinary" /\ ~txn.staged /\ ~txn.capturing
        /\ head = txn.base
        /\ requireBackupEligibility(txn, ledger)
        /\ through # {}
        /\ Save(t)
        /\ run' = At("capture", t, ledger)
        /\ UNCHANGED <<gitVars, mirrorVars, ledger, prep, ids, reported, abandoned>>

\* revalidateCapture: a resumed capture keeps the mirrors still eligible,
\* after auditing what they hold when an incident came in between.  A mirror
\* that cannot be reached for the audit is dropped.
revalidateCapture ==
    /\ run.pc = "idle" /\ ~prep
    /\ txn.kind = "ordinary" /\ ~txn.staged /\ txn.capturing
    /\ head = txn.base
    /\ requireBackupEligibility(txn, ledger)
    /\ LET retained == {m \in txn.capture : eligible(ledger, m, txn.base)}
           passing == {m \in retained : txn.catalog \subseteq good[m]}
       IN  \E kept \in (IF txn.incident = ledger.incident
                          THEN {retained} ELSE SUBSET passing) :
               /\ kept # {}
               /\ LET t == [txn EXCEPT !.capture = kept,
                                       !.incident = ledger.incident]
                  IN  Save(t) /\ run' = At("capture", t, ledger)
    /\ UNCHANGED <<gitVars, mirrorVars, ledger, prep, ids, reported, abandoned>>

\* uploadCapturedPart and persist: a new pack goes to the mirrors of the
\* capture; those that acknowledge it remain, and at least one must.
CapturePack(i) ==
    /\ run.pc = "capture"
    /\ NextId(i) /\ ids' = i
    /\ \E acked \in SUBSET run.mem.capture :
           LET key == DataKey(i, i)
               t == [run.mem EXCEPT !.capture = acked,
                                    !.catalog = @ \cup {key}]
           IN  /\ acked # {}
               /\ \E stray \in SUBSET (run.mem.capture \ acked) :
                      good' = [m \in Mirrors |->
                                 IF m \in acked \cup stray
                                   THEN good[m] \cup {key} ELSE good[m]]
               /\ Save(t)
               /\ run' = [run EXCEPT !.mem = t]
    /\ UNCHANGED <<gitVars, bad, hurt, damage, ledger, prep, reported, abandoned>>

\* finalizeCapture: the candidate differs from the base; its catalog extends
\* the base's, and commitTransaction takes over.
finalizeCapture ==
    LET t == [run.mem EXCEPT !.staged = TRUE,
                             !.catalog = @ \cup catalog[run.mem.base],
                             !.dataComplete = run.mem.capture]
    IN  /\ run.pc = "capture"
        /\ Save(t)
        /\ run' = Idle
        /\ UNCHANGED <<gitVars, mirrorVars, ledger, prep, ids, reported, abandoned>>

\* The candidate equals the base: the transaction is cleared.
NoChanges ==
    /\ run.pc = "capture"
    /\ run.mem.catalog = {}
    /\ Save(NoTxn)
    /\ run' = Idle
    /\ UNCHANGED <<gitVars, mirrorVars, ledger, prep, ids, reported, abandoned>>

-----------------------------------------------------------------------------
(* commitTransaction: resuming a staged candidate.                          *)

\* A mirror is given up for this command, with the keys left in doubt.
GiveUp(m, doubt) ==
    run' = [run EXCEPT !.todo = @ \ {m}, !.at = {}, !.unsure = @ \cup doubt]

\* Mutant: a created commit is taken for an accepted one.
NextStageWithoutAccept(t) ==
    IF t.local = NoRev THEN "create"
    ELSE IF t.metadata = NoMetadata THEN "stage"
    ELSE IF ~t.confirmed THEN "confirm"
    ELSE "upload"

\* Where the resumed transaction continues once its data is settled.
NextStage(t) ==
    IF t.local = NoRev THEN "create"
    ELSE IF ~t.accepted THEN "accept"
    ELSE IF t.metadata = NoMetadata THEN "stage"
    ELSE IF ~t.confirmed THEN "confirm"
    ELSE "upload"

\* Enter a stage; uploadDataParts visits the mirrors that lack the first
\* part, revalidateCandidate all, uploadMetadata those with complete data.
Enter(stage, t, L) ==
    [At(stage, t, L) EXCEPT
        !.part = IF stage = "data" THEN 1 ELSE 0,
        !.todo = CASE stage = "upload" -> t.dataComplete
                   [] stage = "revalidate" -> Mirrors
                   [] stage = "data" -> {m \in Mirrors : t.dataCursor[m] = 0}
                   [] OTHER -> {},
        !.then = IF stage = "confirm" THEN "upload" ELSE "none"]

AfterData(t, L) ==
    IF t.kind = "repair" \/ t.incident # L.incident
      THEN "revalidate" ELSE NextStage(t)

\* The in-memory correction of saved progress: completion is shown again,
\* metadata acknowledged before an incident is forgotten, and data counts
\* only on mirrors whose evidence reaches the base.
Normalised(t, L) ==
    [t EXCEPT
        !.revComplete = {},
        !.metaCursor = IF t.incident = L.incident THEN @
                       ELSE [m \in Mirrors |-> 0],
        !.manifest = IF t.incident = L.incident THEN @ ELSE {},
        !.dataComplete =
            {m \in Mirrors :
                /\ CompleteThroughBase(t, L, m)
                /\ IF t.capturing THEN m \in t.capture
                   ELSE t.parts = <<>> \/ m \in t.dataComplete}]

\* validateStagedDataSet: a repair has staged exactly the parts it relocates.
validateStagedDataSet(t) ==
    \/ t.capturing /\ t.capture # {} /\ t.parts = <<>>
    \/ ~t.capturing /\ validateDataPartCatalog(t.parts,
                         WalkChangedPacks(catalog[t.base], t.catalog), TRUE)

\* The checks of the candidate against its base, its staged data and the
\* local commit made from it.
ValidCandidate(t) ==
    /\ t.base # NoRev =>
           ValidateTransition(catalog[t.base], t.catalog, t.kind = "repair") = t.kind
    /\ validateStagedDataSet(t)
    /\ t.local # NoRev => catalog[t.local] = t.catalog

\* Mutant: a completion recorded before the command stopped is not looked for.
BeginWithoutRecheck(t) ==
    LET u == Normalised(t, ledger) IN
    /\ ~t.resetting
    /\ t.staged /\ ValidCandidate(t)
    /\ requireBackupEligibility(t, ledger)
    /\ run' = IF t.local = NoRev THEN Enter("data", u, ledger)
              ELSE Enter(AfterData(u, ledger), u, ledger)

\* commitTransaction up to its first durable effect, for a loaded t.
BeginTransaction(t) ==
    LET complete == {m \in Mirrors : eligible(ledger, m, t.local)}
        u == Normalised(t, ledger)
    IN  /\ ~t.resetting
        /\ t.staged /\ ValidCandidate(t)
        /\ requireBackupEligibility(t, ledger)
        /\ run' = IF complete # {}
                    THEN [At("recheck", t, ledger) EXCEPT !.todo = complete]
                  ELSE IF t.local = NoRev THEN Enter("data", u, ledger)
                  ELSE Enter(AfterData(u, ledger), u, ledger)

\* Commit with a staged transaction.
Commit ==
    /\ run.pc = "idle"
    /\ prep <=> txn.kind = "genesis"
    /\ txn.base # NoRev /\ txn.local = NoRev => head = txn.base
    /\ BeginTransaction(txn)
    /\ UNCHANGED <<gitVars, mirrorVars, recordVars, ids, reported, abandoned>>

\* A mirror recorded complete is audited against the representation pinned
\* by this transaction.  The first that passes finishes the revision; when
\* none does, the transaction is retained.
Recheck(m) ==
    /\ run.pc = "recheck" /\ m \in run.todo
    /\ \E o \in auditMirror(m, run.mem.local, run.mem) :
           /\ SaveLedger(o.ledger)
           /\ run' = IF o.ok
                       THEN [run EXCEPT !.todo = {}, !.at = {m},
                               !.pc = IF run.mem.confirmed THEN "record"
                                                           ELSE "confirm",
                               !.then = "record"]
                     ELSE IF run.todo = {m} THEN Idle
                     ELSE [run EXCEPT !.todo = @ \ {m}]
    /\ UNCHANGED <<gitVars, good, bad, damage, txn, prep, ids, reported, abandoned>>

\* recordVerified on a freshly loaded ledger, then finishSnapshot on the
\* result.
RecordRecheck(m) ==
    LET L == recordVerified(ledger, m, run.mem.local) IN
    /\ run.pc = "record" /\ m \in run.at
    /\ SaveLedger(L)
    /\ run' = At("finish", run.mem, L)
    /\ UNCHANGED <<gitVars, good, bad, damage, txn, prep, ids, reported, abandoned>>

\* uploadDataParts without staged parts: captured or empty revisions.
DataAcknowledged ==
    LET t == [run.mem EXCEPT !.dataComplete =
                 {m \in Mirrors :
                     /\ CompleteThroughBase(run.mem, run.led, m)
                     /\ run.mem.capturing => m \in run.mem.capture}]
    IN  /\ run.pc = "data" /\ run.mem.parts = <<>>
        /\ Save(t)
        /\ run' = Enter(AfterData(t, run.led), t, run.led)
        /\ UNCHANGED <<gitVars, mirrorVars, ledger, prep, ids, reported, abandoned>>

\* uploadDataParts with the parts of a repair: one part after the other, to
\* each mirror that has all the earlier ones.
UploadDataPart(m) ==
    LET n == run.part
        key == run.mem.parts[n]
        t == [run.mem EXCEPT !.dataCursor[m] = n]
    IN  /\ run.pc = "data" /\ n \in 1 .. Len(run.mem.parts)
        /\ m \in run.todo
        /\ \/ /\ PutAcknowledged(m, key)
              /\ Save(t)
              /\ run' = [run EXCEPT !.mem = t, !.todo = @ \ {m}]
           \/ PutUncertain(m, key) /\ GiveUp(m, {key}) /\ UNCHANGED txn
           \/ PutFailed /\ GiveUp(m, {}) /\ UNCHANGED txn
        /\ UNCHANGED <<gitVars, bad, hurt, damage, ledger, prep, ids, reported,
                       abandoned>>

\* A part in doubt that no mirror acknowledged.
DataPartInDoubt ==
    run.unsure # {} /\ \A m \in Mirrors : run.mem.dataCursor[m] < run.part

NextDataPart ==
    LET n == run.part + 1 IN
    /\ run.pc = "data" /\ run.part \in 1 .. Len(run.mem.parts)
    /\ run.todo = {}
    /\ ~DataPartInDoubt
    /\ run' = [run EXCEPT !.part = n, !.unsure = {},
                  !.todo = IF n > Len(run.mem.parts) THEN {}
                           ELSE {m \in Mirrors : run.mem.dataCursor[m] = n - 1}]
    /\ UNCHANGED <<gitVars, mirrorVars, recordVars, ids, reported, abandoned>>

\* rotateDataPart: the part in doubt gets a fresh ID in the candidate catalog
\* and among the staged parts, and the command ends.
RotateDataPart(i) ==
    LET n == run.part
        old == run.mem.parts[n]
        new == DataKey(old.pack, i)
        t == [run.mem EXCEPT !.parts = rewriteDataParts(@, n, new),
                             !.catalog = rewriteCandidatePackObjectID(@, old, new),
                             !.dataComplete = {}]
    IN  /\ run.pc = "data" /\ n \in 1 .. Len(run.mem.parts)
        /\ run.todo = {}
        /\ DataPartInDoubt
        /\ NextId(i) /\ ids' = i
        /\ Save(t)
        /\ run' = Idle
        /\ UNCHANGED <<gitVars, mirrorVars, ledger, prep, reported, abandoned>>

\* Every part has been offered: a mirror with all of them, and evidence
\* through the base, has complete data.
DataPartsAcknowledged ==
    LET t == [run.mem EXCEPT !.dataComplete =
                 {m \in Mirrors :
                     /\ CompleteThroughBase(run.mem, run.led, m)
                     /\ run.mem.dataCursor[m] = Len(run.mem.parts)}]
    IN  /\ run.pc = "data" /\ run.mem.parts # <<>>
        /\ run.part > Len(run.mem.parts)
        /\ Save(t)
        /\ run' = Enter(AfterData(t, run.led), t, run.led)
        /\ UNCHANGED <<gitVars, mirrorVars, ledger, prep, ids, reported, abandoned>>

\* revalidateCandidate, one mirror.
RevalidateMirror(m) ==
    /\ run.pc = "revalidate" /\ m \in run.todo
    /\ \/ /\ run.mem.kind # "repair"
          /\ ~eligible(run.led, m, run.mem.base)
          /\ ~eligible(run.led, m, run.mem.local)
          /\ run' = [run EXCEPT !.todo = @ \ {m}]
          /\ UNCHANGED <<ledger, hurt>>
       \/ /\ \/ run.mem.kind = "repair"
             \/ eligible(run.led, m, run.mem.base)
             \/ eligible(run.led, m, run.mem.local)
          /\ \E o \in AuditCandidate(m, run.mem) :
                 /\ SaveLedger(o.ledger)
                 /\ run' = [run EXCEPT !.todo = @ \ {m},
                              !.hit = IF o.ok THEN @ \cup {m} ELSE @]
    /\ UNCHANGED <<gitVars, good, bad, damage, txn, prep, ids, reported, abandoned>>

\* revalidateCandidate, after the last mirror: no incident may have come up
\* and one mirror must have passed.
Revalidated ==
    LET t == [run.mem EXCEPT
                 !.dataComplete = run.hit, !.revComplete = {},
                 !.dataCursor = [m \in Mirrors |->
                     IF m \in run.hit THEN Len(run.mem.parts) ELSE @[m]],
                 !.capture = IF run.mem.capturing THEN @ \cup run.hit ELSE @,
                 !.incident = run.led.incident]
    IN  /\ run.pc = "revalidate" /\ run.todo = {}
        /\ ledger.incident = run.led.incident
        /\ run.hit # {}
        /\ Save(t)
        /\ run' = Enter(NextStage(t), t, run.led)
        /\ UNCHANGED <<gitVars, mirrorVars, ledger, prep, ids, reported, abandoned>>

-----------------------------------------------------------------------------
(* commitTransaction: the local commit and the primary.                     *)

CreateLocalCommit ==
    LET t == [run.mem EXCEPT !.local = revs + 1] IN
    /\ run.pc = "create"
    /\ run.mem.dataComplete # {}
    /\ CreateCommitState(run.mem.base, run.mem.catalog)
    /\ Save(t)
    /\ run' = [run EXCEPT !.mem = t, !.pc = "accept"]
    /\ UNCHANGED <<head, remote, inflight, scenario, mirrorVars, ledger, prep, ids, reported,
                   abandoned>>

\* Move the branch and worktree to the new commit.
ApplyLocalCommit ==
    /\ run.pc = "accept"
    /\ head # run.mem.local
    /\ ApplyCommit(run.mem.local, run.mem.base)
    /\ UNCHANGED <<remote, inflight, revs, hist, catalog, scenario, mirrorVars, recordVars,
                   run, ids, reported, abandoned>>

AcceptLocalCommit ==
    LET t == [run.mem EXCEPT !.accepted = TRUE] IN
    /\ run.pc = "accept"
    /\ head = run.mem.local
    /\ Save(t)
    /\ run' = Enter(NextStage(t), t, run.led)
    /\ UNCHANGED <<gitVars, mirrorVars, ledger, prep, ids, reported, abandoned>>

\* metadatachain.Build: fresh IDs for every part and for the manifest of an
\* edge.  One number stands for the IDs of one build.
Build(i) == [parts |-> [n \in PartIndexes |-> i], id |-> i]

Edge(r, i) == {ManifestKey(r, Build(i))} \cup ManifestParts(ManifestKey(r, Build(i)))

\* stageMetadataResult.
StageMetadata(i) ==
    LET t == [run.mem EXCEPT !.metadata = Build(i)]
    IN  /\ run.pc = "stage"
        /\ NextId(i) /\ ids' = i
        /\ Save(t)
        /\ run' = Enter(NextStage(t), t, run.led)
        /\ UNCHANGED <<gitVars, mirrorVars, ledger, prep, reported, abandoned>>

\* Where confirmOrPush returns to.
AfterConfirm(t) ==
    CASE run.then = "record" -> [run EXCEPT !.pc = "record", !.mem = t, !.then = "none"]
      [] run.then = "forward" -> [run EXCEPT !.pc = "anchor", !.mem = t]
      [] OTHER -> Enter("upload", t, run.led)

\* Mutant: a remote history that contains the base confirms the push.
ConfirmByBase ==
    LET t == [run.mem EXCEPT !.confirmed = TRUE] IN
    /\ run.pc = "confirm"
    /\ run.mem.attempted
    /\ run.mem.base \in hist[remote]
    /\ Save(t)
    /\ run' = AfterConfirm(t)
    /\ UNCHANGED <<gitVars, mirrorVars, ledger, prep, ids, reported, abandoned>>

\* confirmOrPush after an earlier attempt: the remote history contains the
\* commit, as its tip or below a descendant.
ConfirmPublished ==
    LET t == [run.mem EXCEPT !.confirmed = TRUE] IN
    /\ run.pc = "confirm"
    /\ run.mem.attempted
    /\ run.mem.local \in hist[remote]
    /\ Save(t)
    /\ run' = AfterConfirm(t)
    /\ UNCHANGED <<gitVars, mirrorVars, ledger, prep, ids, reported, abandoned>>

\* Otherwise, or when the remote cannot be read, the attempt is recorded
\* before the push.
RecordPushIntent ==
    LET t == [run.mem EXCEPT !.attempted = TRUE] IN
    /\ run.pc = "confirm"
    /\ Save(t)
    /\ run' = [run EXCEPT !.mem = t, !.pc = "push"]
    /\ UNCHANGED <<gitVars, mirrorVars, ledger, prep, ids, reported, abandoned>>

Push ==
    /\ run.pc = "push"
    /\ \/ PushAccepted(run.mem.local) /\ run' = [run EXCEPT !.pc = "confirmTip"]
       \/ PushLost(run.mem.local) /\ run' = Idle
    /\ UNCHANGED <<head, revs, hist, catalog, scenario, mirrorVars, recordVars, ids, reported,
                   abandoned>>

\* The remote is read back; only the exact commit confirms the push.
ConfirmTip ==
    LET t == [run.mem EXCEPT !.confirmed = TRUE] IN
    /\ run.pc = "confirmTip"
    /\ remote = run.mem.local
    /\ Save(t)
    /\ run' = AfterConfirm(t)
    /\ UNCHANGED <<gitVars, mirrorVars, ledger, prep, ids, reported, abandoned>>

-----------------------------------------------------------------------------
(* uploadMetadata: mirrors one after the other, each from its saved cursor. *)

UploadPart(m) ==
    LET n == run.mem.metaCursor[m] + 1
        key == PartKey(run.mem.local, n, run.mem.metadata.parts[n])
        t == [run.mem EXCEPT !.metaCursor[m] = n]
    IN  /\ run.pc = "upload" /\ m \in run.todo /\ run.at \subseteq {m}
        /\ run.mem.metaCursor[m] < MetaParts
        /\ \/ /\ PutAcknowledged(m, key)
              /\ Save(t)
              /\ run' = [run EXCEPT !.mem = t, !.at = {m}]
           \/ /\ PutUncertain(m, key)
              /\ GiveUp(m, {key})
              /\ UNCHANGED txn
           \/ PutFailed /\ GiveUp(m, {}) /\ UNCHANGED txn
        /\ UNCHANGED <<gitVars, bad, hurt, damage, ledger, prep, ids, reported, abandoned>>

\* The manifest goes last; its acknowledgement is kept in memory until the
\* completion is recorded.  A forward repair uploads metadata only: it saves
\* the acknowledgement and claims no completion.
UploadManifest(m) ==
    LET key == ManifestKey(run.mem.local, run.mem.metadata) IN
    /\ run.pc = "upload" /\ m \in run.todo /\ run.at \subseteq {m}
    /\ run.mem.metaCursor[m] = MetaParts
    /\ m \notin run.mem.manifest
    /\ \/ /\ PutAcknowledged(m, key)
          /\ run.then # "forward"
          /\ run' = [run EXCEPT !.mem.manifest = @ \cup {m}, !.at = {m}]
          /\ UNCHANGED txn
       \/ /\ PutAcknowledged(m, key)
          /\ run.then = "forward"
          /\ LET t == [run.mem EXCEPT !.manifest = @ \cup {m}] IN
                Save(t) /\ run' = [run EXCEPT !.mem = t, !.at = {}, !.todo = @ \ {m}]
       \/ PutUncertain(m, key) /\ GiveUp(m, {key}) /\ UNCHANGED txn
       \/ PutFailed /\ GiveUp(m, {}) /\ UNCHANGED txn
    /\ UNCHANGED <<gitVars, bad, hurt, damage, ledger, prep, ids, reported, abandoned>>

\* The completion is recorded in the ledger, from the copy in memory.
RecordCompletion(m) ==
    LET L == recordVerified(run.led, m, run.mem.local) IN
    /\ run.pc = "upload" /\ m \in run.todo /\ run.at \subseteq {m}
    /\ run.mem.metaCursor[m] = MetaParts
    /\ m \in run.mem.manifest /\ run.then # "forward"
    /\ SaveLedger(L)
    /\ run' = [run EXCEPT !.led = L, !.at = {m}, !.pc = "completed",
                          !.mem.revComplete = @ \cup {m}]
    /\ UNCHANGED <<gitVars, good, bad, damage, txn, prep, ids, reported, abandoned>>

\* ... and then in the transaction.
SaveCompletion ==
    /\ run.pc = "completed"
    /\ Save(run.mem)
    /\ run' = [run EXCEPT !.pc = "upload", !.todo = @ \ run.at, !.at = {}]
    /\ UNCHANGED <<gitVars, mirrorVars, ledger, prep, ids, reported, abandoned>>

\* rotateMetadataRepresentation: parts in doubt that no mirror acknowledged
\* get a fresh ID, and so does the manifest when its own put or a part is in
\* doubt; the new manifest is acknowledged nowhere.
rotateMetadataRepresentation(t, unsure, i) ==
    LET relocated == {n \in PartIndexes :
            /\ PartKey(t.local, n, t.metadata.parts[n]) \in unsure
            /\ \A m \in Mirrors : t.metaCursor[m] < n}
        doubted == ManifestKey(t.local, t.metadata) \in unsure
    IN  [t EXCEPT
            !.metadata.parts =
                [n \in PartIndexes |-> IF n \in relocated THEN i ELSE @[n]],
            !.metadata.id = IF t.manifest = {} /\ (doubted \/ relocated # {})
                              THEN i ELSE @,
            !.manifest = {},
            !.revComplete = {}]

\* uploadMetadata returns: to finishSnapshot when a mirror is complete, else
\* with an error, after the uncertain keys have been relocated.
EndUpload ==
    /\ run.pc = "upload" /\ run.todo = {}
    /\ run' = IF run.then = "forward" THEN [run EXCEPT !.pc = "chain"]
              ELSE IF run.mem.revComplete # {}
                THEN At("finish", run.mem, run.led)
              ELSE IF run.unsure # {} THEN [run EXCEPT !.pc = "rotate"]
              ELSE Idle
    /\ UNCHANGED <<gitVars, mirrorVars, recordVars, ids, reported, abandoned>>

RotateMetadata(i) ==
    LET t == rotateMetadataRepresentation(run.mem, run.unsure, i) IN
    /\ run.pc = "rotate"
    /\ NextId(i)
    /\ IF t.metadata = run.mem.metadata
         THEN UNCHANGED <<txn, ids>>
         ELSE Save(t) /\ ids' = i
    /\ run' = Idle
    /\ UNCHANGED <<gitVars, mirrorVars, ledger, prep, reported, abandoned>>

-----------------------------------------------------------------------------
(* finishSnapshot.                                                          *)

CompleteMirrors == {m \in Mirrors : eligible(run.led, m, run.mem.local)}

CanFinish ==
    /\ run.pc = "finish"
    /\ CompleteMirrors # {}
    /\ run.mem.confirmed

\* A completed repair lifts the forward-repair anchor it descends from.
ForwardRepairCompleted ==
    LET L == [run.led EXCEPT !.forward = NoRev] IN
    /\ CanFinish
    /\ run.mem.kind = "repair" /\ run.led.forward # NoRev
    /\ run.led.forward \in hist[run.mem.local]
    /\ SaveLedger(L)
    /\ run' = [run EXCEPT !.led = L]
    /\ UNCHANGED <<gitVars, good, bad, damage, txn, prep, ids, reported, abandoned>>

\* The first publication hands its plan to an ordinary transaction.
HandOffGenesis ==
    /\ CanFinish
    /\ run.mem.kind = "genesis"
    /\ Save(PlannedTransaction("ordinary", run.mem.local))
    /\ run' = Idle
    /\ UNCHANGED <<gitVars, mirrorVars, ledger, prep, ids, reported, abandoned>>

\* Mutant: a repair finishes before the anchor is lifted.
FinishBeforeAnchor ==
    /\ CanFinish
    /\ run.mem.kind # "genesis"
    /\ Save(NoTxn)
    /\ reported' = [reported EXCEPT ![run.mem.local] = CompleteMirrors]
    /\ run' = Idle
    /\ UNCHANGED <<gitVars, mirrorVars, ledger, prep, ids, abandoned>>

\* clearTransactionFiles, and the success is reported with the complete
\* mirrors.
FinishSnapshot ==
    /\ CanFinish
    /\ run.mem.kind # "genesis"
    /\ run.mem.kind = "repair" => run.led.forward = NoRev
    /\ Save(NoTxn)
    /\ reported' = [reported EXCEPT ![run.mem.local] = CompleteMirrors]
    /\ run' = Idle
    /\ UNCHANGED <<gitVars, mirrorVars, ledger, prep, ids, abandoned>>

-----------------------------------------------------------------------------
(* reset.                                                                   *)

\* A plan without a candidate is simply cleared.
ResetPlan ==
    /\ run.pc = "idle"
    /\ txn.planned /\ ~txn.staged
    /\ prep => txn.kind = "initial"
    /\ Save(NoTxn)
    /\ UNCHANGED <<gitVars, mirrorVars, ledger, prep, run, ids, reported, abandoned>>

\* Mutant: an attempted push is given up without asking the primary.
PushForgotten == TRUE

\* Mutant: any other tip above the base counts as a competitor.
PushOvertaken ==
    /\ remote \notin {txn.local, txn.base}
    /\ txn.base \in hist[remote]

\* A recorded push can be given up only when a competing descendant of the
\* base has taken its place on the primary.
PushDefeated ==
    /\ remote \notin {txn.local, txn.base}
    /\ txn.base # NoRev
    /\ txn.local \notin hist[remote]
    /\ txn.base \in hist[remote]

Reset ==
    LET t == [txn EXCEPT !.attempted = FALSE, !.resetting = TRUE] IN
    /\ run.pc = "idle"
    /\ txn.staged
    /\ ~txn.confirmed
    /\ txn.attempted => PushDefeated
    /\ IF txn.resetting THEN UNCHANGED txn ELSE Save(t)
    /\ run' = At("reset", t, ledger)
    /\ UNCHANGED <<gitVars, mirrorVars, ledger, prep, ids, reported, abandoned>>

\* The branch returns to the base; the head may be there already when an
\* earlier reset was interrupted.
ResetHead ==
    /\ run.pc = "reset"
    /\ head # run.mem.base
    /\ run.mem.accepted \/ prep
    /\ ApplyCommit(run.mem.base, run.mem.local)
    /\ UNCHANGED <<remote, inflight, revs, hist, catalog, scenario, mirrorVars, recordVars,
                   run, ids, reported, abandoned>>

ResetUnaccept ==
    LET t == [run.mem EXCEPT !.accepted = FALSE] IN
    /\ run.pc = "reset"
    /\ ~prep
    /\ run.mem.accepted /\ head = run.mem.base
    /\ Save(t)
    /\ run' = [run EXCEPT !.mem = t]
    /\ UNCHANGED <<gitVars, mirrorVars, ledger, prep, ids, reported, abandoned>>

ResetClear ==
    /\ run.pc = "reset"
    /\ head = run.mem.base
    /\ run.mem.accepted => prep
    /\ Save(NoTxn)
    /\ run' = Idle
    /\ abandoned' = abandoned \cup ({run.mem.local} \ {NoRev})
    /\ UNCHANGED <<gitVars, mirrorVars, ledger, prep, ids, reported>>

-----------------------------------------------------------------------------
(* The environment.                                                         *)

\* The command ends, by a crash or by an error return.
Stop ==
    /\ run.pc # "idle"
    /\ run' = Idle
    /\ UNCHANGED <<gitVars, mirrorVars, recordVars, ids, reported, abandoned>>

\* A writer that overlaps by accident publishes on top of the primary, and
\* completes its metadata on some mirrors.
Rival(i) ==
    /\ scenario.rivals > 0 /\ remote # NoRev
    /\ NextId(i) /\ ids' = i
    /\ CreateCommitState(remote, catalog[remote])
    /\ remote' = revs'
    /\ scenario' = [scenario EXCEPT !.rivals = @ - 1]
    /\ \E done \in SUBSET Mirrors :
           good' = [m \in Mirrors |->
                      IF m \in done THEN good[m] \cup Edge(revs + 1, i) ELSE good[m]]
    /\ UNCHANGED <<head, inflight, bad, hurt, damage, recordVars, run, reported,
                   abandoned>>

DeliverPush ==
    /\ Deliver
    /\ UNCHANGED <<mirrorVars, recordVars, run, ids, reported, abandoned>>

DamageObject ==
    /\ Damage
    /\ UNCHANGED <<gitVars, recordVars, run, ids, reported, abandoned>>

-----------------------------------------------------------------------------
TypeOK ==
    /\ GitTypeOK
    /\ MirrorTypeOK
    /\ txn \in Transactions
    /\ ledger \in Ledgers
    /\ prep \in BOOLEAN
    /\ run \in Runs
    /\ ids \in 0 .. MaxId
    /\ reported \in [Revs -> SUBSET Mirrors]
    /\ abandoned \in SUBSET Revs

\* After init: a local checkout with a preparation record.
InitGenesis ==
    /\ scenario \in Starting("genesis")
    /\ GitInit
    /\ MirrorInit
    /\ txn = NoTxn
    /\ ledger = newCompletionLedger
    /\ prep = TRUE
    /\ run = Idle
    /\ ids = 0
    /\ reported = [r \in Revs |-> {}]
    /\ abandoned = {}

\* add, and what precedes commitTransaction.
Prepare ==
    \/ addInitial \/ Add \/ FetchOnly \/ startGenesis \/ finishPreparation
    \/ StartCapture \/ revalidateCapture \/ finalizeCapture \/ NoChanges
    \/ \E i \in Ids : CapturePack(i)

\* commitTransaction and finishSnapshot.
Publish ==
    \/ Commit
    \/ \E m \in Mirrors : Recheck(m) \/ RecordRecheck(m)
    \/ DataAcknowledged
    \/ \E m \in Mirrors : UploadDataPart(m)
    \/ NextDataPart
    \/ \E i \in Ids : RotateDataPart(i)
    \/ DataPartsAcknowledged
    \/ \E m \in Mirrors : RevalidateMirror(m)
    \/ Revalidated
    \/ CreateLocalCommit \/ ApplyLocalCommit \/ AcceptLocalCommit
    \/ \E i \in Ids : StageMetadata(i)
    \/ ConfirmPublished \/ RecordPushIntent \/ Push \/ ConfirmTip
    \/ \E m \in Mirrors : UploadPart(m) \/ UploadManifest(m) \/ RecordCompletion(m)
    \/ SaveCompletion \/ EndUpload
    \/ \E i \in Ids : RotateMetadata(i)
    \/ ForwardRepairCompleted \/ HandOffGenesis \/ FinishSnapshot

Abandon ==
    ResetPlan \/ Reset \/ ResetHead \/ ResetUnaccept \/ ResetClear

Environment ==
    \/ Stop \/ DeliverPush \/ DamageObject
    \/ \E i \in Ids : Rival(i)

Next == Prepare \/ Publish \/ Abandon \/ Environment

\* Later life: a first revision everywhere and a second one, with one pack,
\* complete on some mirrors; nothing is pending.
InitPublished ==
    \E done \in (SUBSET Mirrors) \ {{}} :
        /\ head = 2 /\ remote = 2 /\ inflight = NoPush /\ revs = 2
        /\ hist = [r \in Revs \cup {NoRev} |-> IF r \in 1 .. 2 THEN 1 .. r ELSE {}]
        /\ catalog = [r \in Revs \cup {NoRev} |-> IF r = 2 THEN {DataKey(2, 2)} ELSE {}]
        /\ scenario \in Starting("published")
        /\ good = [m \in Mirrors |->
                      Edge(1, 1) \cup
                      IF m \in done THEN Edge(2, 3) \cup {DataKey(2, 2)} ELSE {}]
        /\ bad = [m \in Mirrors |-> {}] /\ hurt = [m \in Mirrors |-> {}] /\ damage = 0
        /\ txn = NoTxn
        /\ ledger = [newCompletionLedger EXCEPT
                        !.mirrors = [m \in Mirrors |-> IF m \in done THEN 2 ELSE 1]]
        /\ prep = FALSE /\ run = Idle /\ ids = 3
        /\ reported = [r \in Revs |-> IF r = 2 THEN done ELSE {}]
        /\ abandoned = {}

Spec == (InitGenesis \/ InitPublished) /\ [][Next]_vars

-----------------------------------------------------------------------------
(* Properties.                                                              *)

\* commit.go, saveTransaction and commitTransaction: no step of any command
\* builds a record that validateTransaction would refuse, so no save fails
\* after remote effects; and the candidate of a staged transaction, rewritten
\* by rotations, repairs and retirements, stays one that commit accepts.
SavesNeverRefused == ValidTransaction(txn) /\ (txn.staged => ValidCandidate(txn))

\* Every variable has its type and every record is one that can be saved, in
\* the first publication as in later ones.
WellFormed == TypeOK /\ SavesNeverRefused

\* incident.go and uploadMetadata: every row of the completion ledger is
\* backed by evidence newer than the latest incident: the mirror held the
\* whole revision, and can have lost of it only what was damaged since.  A
\* quarantined mirror has no row, as requireBackupEligibility and capturePlan
\* count on, which pick mirrors by their rows alone.
EvidenceFresh ==
    \A m \in Mirrors :
        ledger.mirrors[m] # NoRev =>
            /\ m \notin ledger.quarantined
            /\ Holds(good[m] \cup hurt[m], ledger.mirrors[m])

\* confirmOrPush before uploadMetadata: a revision gets a ledger row only
\* when the primary has it for good, and the local branch contains it, as
\* auditChain requires of every row it meets.
LedgerPublished ==
    \A m \in Mirrors :
        ledger.mirrors[m] # NoRev => ledger.mirrors[m] \in hist[remote] \cap hist[head]

\* Reset: a revision whose transaction was given up never appears on the
\* primary, not even when a push of it is still on its way.
AbandonedNeverPublished == abandoned \cap hist[remote] = {}

\* commit.go and reset.go: once the local commit is accepted, the branch
\* stays on it until the transaction is finished or reset.
AcceptedIsHead ==
    txn.accepted => head = txn.local \/ (txn.resetting /\ head = txn.base)

\* mirrorProgress: while no incident came in between, what the transaction
\* counts as done on a mirror is there, or was damaged after it was.  The data
\* of a repair counts from its local commit on: until then every resumption
\* audits it again.
ProgressBacked ==
    txn.staged /\ txn.incident = ledger.incident =>
        \A m \in Mirrors :
            LET held == good[m] \cup hurt[m] IN
            /\ m \in txn.dataComplete /\ (txn.kind = "repair" => txn.local # NoRev) =>
                   txn.catalog \subseteq held
            /\ \A n \in 1 .. txn.metaCursor[m] :
                   PartKey(txn.local, n, txn.metadata.parts[n]) \in held
            /\ m \in txn.manifest => ManifestKey(txn.local, txn.metadata) \in held

\* finishSnapshot: at the moment a revision is reported successful it is on
\* the primary and each mirror named holds all of it, up to damage nobody
\* has observed yet.
ReportedRecoverable ==
    [][\A r \in Revs :
          reported'[r] # reported[r] =>
              /\ r \in hist[remote]
              /\ reported'[r] # {}
              /\ \A m \in reported'[r] : Holds(good[m] \cup hurt[m], r)]_vars

\* The two records a checkout keeps about its mirrors, the ledger and the
\* transaction, claim nothing that was not shown since the latest incident,
\* after any mix of audits, uploads, repairs and copies held in memory.
RecordsBacked == EvidenceFresh /\ ProgressBacked

\* finishSnapshot, RetireTransaction and reset: the transaction of a revision
\* that is on the primary is dropped only once a mirror has held the metadata
\* of its whole history.  No published edge is left that nothing remembers.
PublishedEdgeKept ==
    [][txn.local \in hist[remote] /\ txn'.local # txn.local =>
          \E m \in Mirrors : \A e \in hist[txn.local] :
              \E k \in Manifests(good[m] \cup hurt[m], e) :
                  ManifestParts(k) \subseteq good[m] \cup hurt[m]]_vars

\* commit, reset and overlapping writers implement RevisionLife.
Life ==
    INSTANCE RevisionLife WITH
        created <- 1 .. revs,
        published <- hist[remote],
        reported <- {r \in Revs : reported[r] # {}}

ImplementsRevisionLife == Life!Spec

-----------------------------------------------------------------------------
(* Progress.  The operator runs commit until it succeeds, and a call that   *)
(* is tried again and again succeeds at some point: each of these steps is  *)
(* taken if it is possible infinitely often.  A command that cannot go on   *)
(* ends.  Nothing is assumed of crashes, and no command runs to its end.    *)

Fairness ==
    /\ WF_vars(Stop)
    /\ SF_vars(Commit)
    /\ SF_vars(\E m \in Mirrors : Recheck(m) /\ run'.at # {})
    /\ SF_vars(\E m \in Mirrors : RecordRecheck(m))
    /\ SF_vars(ConfirmPublished)
    /\ SF_vars(RecordPushIntent)
    /\ SF_vars(Push /\ remote' = run.mem.local)
    /\ SF_vars(ConfirmTip)
    /\ SF_vars(\E m \in Mirrors : UploadPart(m) /\ txn' # txn)
    /\ SF_vars(\E m \in Mirrors : UploadManifest(m) /\ m \in run'.mem.manifest)
    /\ SF_vars(\E m \in Mirrors : RecordCompletion(m))
    /\ SF_vars(FinishSnapshot)

\* commitTransaction: a revision whose push was attempted (without an
\* overlapping writer, the newest) is eventually reported successful, however
\* often commit is interrupted and whatever answers are lost: no partial
\* progress is a dead end.
PushedEventuallyReported ==
    txn.attempted ~> \E r \in Revs : r = revs /\ reported[r] # {}

\* Reset, finishReset: once Resetting is persisted, the branch is where the
\* rest of the reset expects it, however often the reset was interrupted.
ResetReplayable ==
    txn.resetting =>
        \/ head = txn.base
        \/ head = txn.local /\ (txn.accepted \/ prep)
=============================================================================
