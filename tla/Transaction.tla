----------------------------- MODULE Transaction -----------------------------
(***************************************************************************)
(* The durable records of a backup checkout: the pending transaction        *)
(* (transaction.json), the completion ledger (completion-ledger.json) and   *)
(* the identities of the immutable objects they speak of                    *)
(* (internal/backup/model.go, runtime.go, incident.go, sync.go).            *)
(*                                                                          *)
(* A revision (a Git commit) is a number; 0 is the empty commit ID.  An     *)
(* object ID is a number handed out once, as 128 random bits are.  The      *)
(* bytes of an object are determined by its key, so a store either holds    *)
(* the object or holds damaged bytes under its key.                         *)
(***************************************************************************)
EXTENDS Transition

CONSTANTS
    Mirrors,      \* the configured object mirrors
    MaxRev,       \* bound on revisions created
    MaxId,        \* bound on object IDs handed out
    MetaParts     \* parts of one encrypted metadata bundle

ASSUME TransactionAssumption ==
    /\ IsFiniteSet(Mirrors) /\ Mirrors # {}
    /\ MaxRev \in Nat \ {0}
    /\ MaxId \in Nat \ {0}
    /\ MetaParts \in Nat \ {0}

NoRev == 0
Revs == 1 .. MaxRev
Ids == 1 .. MaxId
PartIndexes == 1 .. MetaParts

-----------------------------------------------------------------------------
(* Object keys.  A data part belongs to a pack and is relocated under a new *)
(* ID by a repair; a metadata part and a manifest belong to one revision.   *)

DataKeys == [kind: {"data"}, pack: Ids, id: Ids]
PartKeys == [kind: {"part"}, rev: Revs, index: PartIndexes, id: Ids]
ManifestKeys ==
    [kind: {"manifest"}, rev: Revs, parts: [PartIndexes -> Ids], id: Ids]
Keys == DataKeys \cup PartKeys \cup ManifestKeys

DataKey(p, i) == [kind |-> "data", pack |-> p, id |-> i]
PartKey(r, n, i) == [kind |-> "part", rev |-> r, index |-> n, id |-> i]

\* stagedMetadata: the IDs of the parts and of the manifest of one
\* representation of a revision's metadata edge.
Metadatas == [parts: [PartIndexes -> Ids \cup {0}], id: Ids \cup {0}]
NoMetadata == [parts |-> [n \in PartIndexes |-> 0], id |-> 0]

\* The manifest names its parts, so its key changes with any of them.
ManifestKey(r, md) ==
    [kind |-> "manifest", rev |-> r, parts |-> md.parts, id |-> md.id]

ManifestParts(k) == {PartKey(k.rev, n, k.parts[n]) : n \in PartIndexes}

-----------------------------------------------------------------------------
(* The pending transaction.  A set of mirrors stands for a per-mirror flag; *)
(* until the candidate is staged, `catalog' holds the packs captured.       *)

Kinds == {"none", "initial", "genesis", "ordinary", "repair"}

Transactions ==
    [kind: Kinds, base: Revs \cup {NoRev}, incident: Nat,
     planned: BOOLEAN, capturing: BOOLEAN, capture: SUBSET Mirrors,
     staged: BOOLEAN, catalog: SUBSET DataKeys, parts: Seq(DataKeys),
     local: Revs \cup {NoRev}, accepted: BOOLEAN, metadata: Metadatas,
     attempted: BOOLEAN, confirmed: BOOLEAN, resetting: BOOLEAN,
     dataCursor: [Mirrors -> Nat], dataComplete: SUBSET Mirrors,
     metaCursor: [Mirrors -> 0 .. MetaParts], manifest: SUBSET Mirrors,
     revComplete: SUBSET Mirrors]

newTransaction(kind, base) ==
    [kind |-> kind, base |-> base, incident |-> 0,
     planned |-> FALSE, capturing |-> FALSE, capture |-> {},
     staged |-> FALSE, catalog |-> {}, parts |-> <<>>,
     local |-> NoRev, accepted |-> FALSE, metadata |-> NoMetadata,
     attempted |-> FALSE, confirmed |-> FALSE, resetting |-> FALSE,
     dataCursor |-> [m \in Mirrors |-> 0], dataComplete |-> {},
     metaCursor |-> [m \in Mirrors |-> 0], manifest |-> {},
     revComplete |-> {}]

\* No transaction.json.
NoTxn == newTransaction("none", NoRev)

\* An add plan waiting for its capture.
PlannedTransaction(kind, base) ==
    [newTransaction(kind, base) EXCEPT !.planned = TRUE]

replaceableByAdd(t) ==
    /\ t.planned /\ ~t.capturing /\ ~t.staged
    /\ t.parts = <<>> /\ t.local = NoRev /\ ~t.attempted

\* validateTransactionProgress, for one mirror.
ValidProgress(t, m) ==
    LET metadataCount == IF t.metadata = NoMetadata THEN 0 ELSE MetaParts IN
    /\ t.dataCursor[m] <= Len(t.parts)
    /\ t.metaCursor[m] <= metadataCount
    /\ m \in t.dataComplete =>
           IF t.capturing THEN m \in t.capture
                          ELSE t.dataCursor[m] = Len(t.parts)
    /\ m \in t.revComplete \cup t.manifest \/ t.metaCursor[m] # 0 =>
           t.metadata # NoMetadata /\ t.confirmed
    /\ m \in t.manifest => t.metaCursor[m] = metadataCount
    /\ m \in t.revComplete => m \in t.dataComplete /\ m \in t.manifest

\* validateTransaction, which every load and every save runs.
ValidTransaction(t) ==
    t.kind # "none" =>
    /\ t.kind = "genesis" => t.planned /\ ~t.capturing
    /\ t.kind = "initial" => t.planned /\ ~t.capturing /\ ~t.staged
    /\ (t.kind \in {"initial", "genesis"}) <=> (t.base = NoRev)
    /\ IF t.planned /\ ~t.staged
         THEN /\ t.kind \in {"ordinary", "initial"}
              /\ t.parts = <<>> /\ t.local = NoRev /\ ~t.accepted
              /\ t.metadata = NoMetadata /\ ~t.attempted /\ ~t.confirmed
              /\ t.dataComplete = {} /\ t.manifest = {} /\ t.revComplete = {}
              /\ \A m \in Mirrors : t.dataCursor[m] = 0 /\ t.metaCursor[m] = 0
         ELSE /\ t.staged
              /\ t.capturing => /\ t.kind = "ordinary" /\ t.planned
                                /\ t.capture # {} /\ t.parts = <<>>
              /\ (t.kind = "repair") <=> (t.parts # <<>>)
              /\ t.accepted => t.local # NoRev
              /\ t.attempted => t.accepted
              /\ t.confirmed => t.attempted
              /\ t.metadata # NoMetadata => t.local # NoRev
              /\ \A m \in Mirrors : ValidProgress(t, m)
              /\ validateDataPartCatalog(t.parts, t.catalog, FALSE)

-----------------------------------------------------------------------------
(* The completion ledger.  A row NoRev is an absent row.                    *)

Ledgers ==
    [incident: Nat, quarantined: SUBSET Mirrors,
     mirrors: [Mirrors -> Revs \cup {NoRev}], forward: Revs \cup {NoRev}]

newCompletionLedger ==
    [incident |-> 0, quarantined |-> {},
     mirrors |-> [m \in Mirrors |-> NoRev], forward |-> NoRev]

eligible(L, m, r) == r # NoRev /\ m \notin L.quarantined /\ L.mirrors[m] = r

\* Mutant: observing a quarantined mirror again opens another incident.
QuarantineAgain(L, m) ==
    [L EXCEPT !.incident = @ + 1,
              !.quarantined = @ \cup {m},
              !.mirrors = [x \in Mirrors |-> NoRev]]

\* quarantine: one atomic write opens a new incident and revokes every row.
quarantine(L, m) ==
    IF m \in L.quarantined THEN L
    ELSE [L EXCEPT !.incident = @ + 1,
                   !.quarantined = @ \cup {m},
                   !.mirrors = [x \in Mirrors |-> NoRev]]

recordVerified(L, m, r) ==
    [L EXCEPT !.quarantined = @ \ {m}, !.mirrors[m] = r]

\* requireBackupEligibility.
requireBackupEligibility(t, L) ==
    \/ t.kind = "repair"
    \/ t.kind = "genesis" /\ L.incident = 0
    \/ /\ L.forward = NoRev
       /\ \E m \in Mirrors : eligible(L, m, t.base) \/ eligible(L, m, t.local)

\* A mirror whose evidence reaches the base of the transaction.
CompleteThroughBase(t, L, m) ==
    \/ t.base = NoRev /\ m \notin L.quarantined
    \/ eligible(L, m, t.base)
=============================================================================
