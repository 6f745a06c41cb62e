# A TLA+ verification of `backup`

`backup` makes encrypted, deduplicated backups of a Linux machine. Two kinds of
storage hold them: a *primary*, a Git repository whose branch only
fast-forwards and whose commits are the catalog of each revision, and a set of
*mirrors*, append-only object stores that hold the encrypted packs and, for
disaster recovery, encrypted bundles of the Git history. Any command may be
killed between any two steps, a push or an upload may take effect although its
answer was lost, another machine may publish to the same primary, and a mirror
may lose or corrupt what it acknowledged. The program's promise is that a
revision it reports as backed up is published and was recoverable from one mirror
alone, and that whatever was interrupted can be resumed. These modules state
that promise and check it.

## 1. Inventory

| Part (under `src/internal/`) | State it keeps | Operations | What makes it hard |
|---|---|---|---|
| metadata checkout (`repository/manage.go`) | branch, index, worktree blobs, materialization intent | ApplyCommit, RecoverMaterialization, DeleteHead, ResetIndex | four files move together; death and power loss in between; a removal that is undone |
| transaction (`backup/model.go`, `runtime.go`) | `transaction.json`: kind, base, local commit, push flags, per-mirror progress, staged files | load, validate, save, clear | the only memory of an interrupted command; its validation may refuse it |
| completion ledger (`backup/incident.go`) | `completion-ledger.json`: incident number, quarantined mirrors, the revision each mirror has complete, forward-repair anchor | quarantine, recordVerified, eligible | evidence must be newer than the last incident |
| primary (`repository`, `backup/commit.go`) | remote branch, local commits | create, push, fetch | lost answers; pushes that take effect late; a second writer |
| mirrors (`objectstore`, `s3server`) | immutable objects by content hash and random ID | conditional put, audit, list, read | ambiguous creation; loss and corruption at rest |
| add, replan (`backup/add.go`, `replan.go`) | a plan inside the transaction | plan, replace a plan | what may be replaced |
| capture (`backup/capture.go`, `transaction_files.go`, `dedup_index.go`) | segments, the mirrors that have every pack | capture, checkpoint, resume | a mirror drops out; files change between two reads; what was in memory is lost |
| commit (`backup/commit.go`) | all of the above | data, local commit, push, metadata, completion, clean-up | every transition is a crash point |
| reset (`backup/reset.go`) | `Resetting` | abandon an unpublished transaction | a push in doubt |
| verify, sync (`backup/verify.go`, `sync.go`) | ledger | audit, copy | incidents met on the way |
| repair (`backup/repair.go`, `forward_repair.go`, `metadata_repair.go`) | transaction, anchor | relocate a part, retire a damaged publication, rebuild an edge | runs while another publication is pending |
| restore (`backup/restore*.go`) | staging tree, destination | plan, stage, verify, publish | partial publication; a bad part found late; reruns |
| recover (`backup/recover.go`, `metadata.go`) | quarantine repository | search representations, select tips | broken alternatives |
| history validation (`repository/history*.go`, `stream_*.go`, `cache.go`) | validated-ancestor cache | validate, classify transitions | cached prefixes |
| filesystem mirror (`objectstore/filesystem.go`) | objects, marker, temporaries | initialise, open, put, audit | a name before its bytes and directory are durable; a full disk |
| durable store (`durable/store.go`) | state directory, lock | write, read | rename before sync |
| object server (`s3server/server.go`) | objects, listing index | put, get, list, restart | concurrent puts, index limit |
| scan, sort, pack, formats | none that outlives a command | pure or I/O | sizes and order |

The parts meet in one place: a command takes the operation lock, recovers the
checkout, loads the transaction and the ledger, and acts on primary and mirrors
while it saves both records step by step. There is one command at a time per
repository; the concurrency is with its own earlier pushes, other machines, and
the decay of the mirrors.

Properties worth having follow from `docs/design.md` (atomic, idempotent
transitions; publication before mirror completion; evidence and quarantine;
reset; forward repair). `PROJECT.json` lists the hazards at their lines.

## 2. Modules

    Transition -> Transaction -> Primary -> ObjectMirrors -> Publication -> Maintenance
    Materialization -> MaterializationProofs
    ObjectDisk -> FilesystemStore, ObjectServer        (both implement ImmutableObjects)
    FilesystemStore -> FilesystemStoreProofs
    DurableStore, ExternalSort, DedupIndex -> Capture
    Restore                Recover                RevisionLife (implemented by Publication)

The layers justify one another's assumptions. `Primary` takes `ApplyCommit` as
one step, because `Materialization` shows that no command sees it half done; the
one exception, a power loss in a window shown by `intent_unsynced`, is not carried
into the modules above.
`ObjectMirrors` takes an acknowledged put and a successful audit as evidence that
lasts until the medium decays, because both stores implement `ImmutableObjects`.
`Publication` takes a save of its records as atomic and durable, because of
`DurableStore` inside `Capture`, and a capture as a set of packs and mirrors,
because `Capture` shows what its record is worth.

**Materialization.** One action per system call of `ApplyCommit` and
`RecoverMaterialization` that a death or a power loss can separate from the next: a
rename or a removal is one step, the sync of its directory another. `work`, `index`
and `intent` are what a process sees; `workDisk`, `indexDisk` and `intentDisk` are the
sets of what a power loss may leave, every value since the last sync. `OpenLocked` is
the recovery every command starts with, including its refusal; the initial reset,
which deletes the branch without an intent, is there too. The auxiliary variable
`exposed` says that an intent is being replayed that is not known to be durable
(`replaying`), and that a power loss has then taken it (`lost`).

**Transition.** Which changes of the pack catalog are an ordinary revision and
which a repair, and the rewriting of staged rows. Only pack rows are kept;
`packsOnly` says that a candidate agrees with its base in the other files.

**Transaction.** The two records, their constructors, `ValidTransaction` (the
validation of `saveTransaction`) and the ledger operations. A revision is a
number; an object ID is a number never used before; a metadata representation is
the IDs of its parts and of its manifest.

**Primary.** `head`, `remote`, and for each revision its history (`hist`) and
data catalog. `inflight` is a push whose answer was lost: it is delivered later,
if the remote still is the base, or never. `scenario` fixes for one behaviour
where it starts, which commands the operator uses besides commit and reset, and
the bounds.

**ObjectMirrors.** `good` and `bad` objects per mirror, and the audits that look
at them. `hurt` records what was damaged since the last incident (it is emptied by
the next), so that a property can tell old evidence from new.

**Publication.** add, commit and reset. `run` is the command in progress: its
place `pc`, the transaction it holds in memory (`mem`), its ledger copy (`led`,
which the code reads once and writes back later), the mirrors still to visit.
Every action that ends with a durable write is one step of the code up to its
checkpoint; `Stop` may end the command between any two and stands for a crash
and for every error return. `Rival` is another machine. Mirrors are visited in
any order, which includes the configured one.

**Maintenance.** verify, a failing read, sync, repair of data with forward
repair, and repair of metadata.

**RevisionLife.** The abstract specification: a revision is created, published,
reported, or abandoned; only published ones are reported, publication is never
undone, and an abandoned one is never published.

**ObjectDisk** is what the stores see of the disk: a directory, a name, or the
bytes of a file may be visible and not yet durable, and a power cut keeps or
loses each of them. **ImmutableObjects** is what callers rely on: a name is given
bytes once, and an object somebody has evidence of outlives every crash.

**FilesystemStore.** Initialisation with its marker, opening under the configured
mount, `PutOpenFile` step by step (look up, clean up temporaries, reserve space,
write, flush, parents, publish, sync), the audit that settles a conflict, kill,
power cut, unmounting. An object and a temporary file take one unit of space.
Temporary files that were unlinked in a root not yet synced (`removed`) may come back
with a power cut (`returned`) and then stay until a put of a new key cleans up.
Listing, which only reads, is not modelled.

**ObjectServer.** The server's put handler step by step for several requests at
once, HEAD with a checksum, the listing index (pending and sorted keys, its
limit, the scan that builds it) and paged listings; beside it the client's view,
in which an answer may be lost. One namespace; request signing is left out. A
failed scan leaves the server without an index until the next start. When a put
fails after its link, the handler opens the object again to index it; `skipped` has the
keys for which that fails too.

**DurableStore, ExternalSort, DedupIndex** are the parts `Capture` is built on:
one state file replaced by rename and directory sync; the bounded-memory sort
with its runs, merge passes and duplicate check; and the open-addressing table
that says which contents are already stored.

**Capture.** `capturePlan` from the choice of mirrors to the candidate. `mem` is
all the process holds; `file` and `disk` are the transaction as read and as a
power cut leaves it; `segment` are the staged files. What a planned path holds
when it is read is chosen anew at every read. `Exit` is every error return and
every kill, after which the command is run again. A staged file is written in one
step, durable on return; files of numbers at or above the recorded count are never
read. Between two commands a mirror may lose a pack; the incident that finds it
revokes the rows of all mirrors, which verify restores one by one. The shortcut taken
when the candidate equals its base is left out.

**Restore.** Plan, catalogs of needed packs, part by part staging, the check of
the whole stage, and the publication of one path after another; then the report.
`dest` and `destDisk` are the destinations as seen and as a power cut leaves them.
They are in one directory that nobody else changes (the design's premise,
`src/docs/design.md:456`). Of the mirrors asked for a part, the first that returns
it intact decides. What a bad read does to the ledger is `Maintenance`'s failing
read.

**Recover.** Discovery of manifests, the logical paths to a tip, the search over
the representations of each edge in a private repository that is recreated after
a failure, validation, which repository is kept, what is reported and published.
The limits on paths, on materialisations and on commit records are modelled; those on
listed keys, manifest bytes and steps of the path search, and estimates of disk space,
are not.

## 3. Runs

| Run | Bounds | Shows |
|---|---|---|
| materialization | 2 commits, 2 blobs, 3 crashes | the checkout is whole whenever a command looks; torn states are recorded; a recovery is never refused, and a durable intent is completed; all unless an intent is lost as `intent_unsynced` shows |
| intent_unsynced | the same | violated: see below |
| publication | 2 mirrors, metadata in 2 parts; from nothing: 2 revisions, 3 IDs; from a published revision: 4 revisions, 6 IDs, 1 rival | saved records are valid and their candidates committable, ledger rows are published revisions, a reported revision is recoverable, a reset one is never published, and a revision's life is the abstract one |
| progress | 2 mirrors, a pushed revision complete nowhere, 1 spare ID | a pushed revision is eventually reported |
| maintenance | 2 mirrors; one of: a new backup with verify and 1 loss of data (3 revisions, 5 IDs); a pending revision with verify and 1 lost manifest (3, 5); verify and sync with 2 losses of data or parts (2, 3); repair of damaged data under a pending revision (4, 7); repair of metadata under a pending revision with 1 lost manifest (3, 6) | saved records stay valid; rows and progress rest on evidence newer than the incident; verification settles; only an audit of HEAD lifts a quarantine; repairs keep edges recoverable; the anchor holds |
| stale_capture | 2 mirrors, 3 revisions, 5 IDs, 2 losses of data, sync | violated: see below |
| reset_replay | 3 revisions, 5 IDs | violated: see below |
| object_server | 3 keys, 2 requests at once, an index of 2 keys, pages of 1, 1 failing sync, 1 stop | the index is exact but for skipped keys, listings miss nothing that was there throughout, evidence lasts |
| filesystem_store | 3 keys in 2 directories, room for 2 objects, 2 failing calls, 3 stops | evidence is durable, the reserve is kept but for removals a power cut undoes, a published object settles although the disk is full |
| capture | 3 paths, 2 of them changed and a cap of 1, 4 contents (large, in the base, two that share a pack), segments of 2, 2 mirrors, 1 interruption, 1 loss | the recorded chain always validates and is backed by its mirrors; the candidate is exactly what was read last; changes are printed or counted; capture completes |
| restore | 2 files in 2 packs of 2 and 1 parts, 1 link, 2 mirrors with any parts bad, 2 faults | only exact files are published, and none before all are staged; reports are true; success is durable; a rerun completes |
| recover | 4 commits in a fork, any subset of 11 representations, any invalid commits, 1 fault | exactly the recoverable commits are reported, the published history is whole, the selected repository was kept |

Why the bounds are enough for the questions asked. Two mirrors are the least with
which one can be complete while the other lags, is quarantined or is damaged; two
requests the least that race. The published states start with the genesis and one
backup (2 revisions, 3 IDs), the pending and damaged ones with a third revision (5
IDs). What a scenario allows above that is its subject: a new backup with an ID to
spare for a rotation and a rival's revision; a repair revision with fresh keys; a
rebuilt representation. The damage bound is the number of objects lost or corrupted
in one behaviour, two where a second incident must fall into the handling of the
first. The index of the object server and the disk of the filesystem store are one
key short of what is asked of them, so that both limits are met. In `capture` the
digests collide and the probe wraps around; sorting has room for one record and
two open runs, so that runs are merged more than once. `recover` has sound, undecryptable and
overfull bundles, wrong repositories, sequences and bases, and limits that some searches
reach. Crashes of publication commands are unbounded. Deadlock is off where the
system may come to rest: a repository with no work left or at a bound, a store
without requests, a finished capture or restore. Larger instances were also
checked and are too long to keep: `publication` with one more ID, the repairs with
two metadata parts (3.3 and 5.3 million distinct states), a new backup with verify
and a lost manifest, and sync beside a new backup (1.1 and 0.7 million).

**Fairness.** `Materialization`: weak fairness of the recovery steps, since every
command runs them first. `Publication`: weak fairness of `Stop`, as a command
that cannot go on returns, and strong fairness of commit and of the successful
outcome of each step it needs: the operator runs commit again, and neither primary
nor mirror fails forever. `FilesystemStore`: a begun operation takes its next step,
the disk is opened and mounted again, and the upload of a key is tried again
(strong fairness of `PutStart`). `Capture`: a command takes its steps and is started
again. `Restore`: the same, with overwrite. No fairness is assumed of rivals,
damage, delayed pushes, interruptions or other commands.

**Disagreements found.**

`intent_unsynced`: the comment of `ApplyCommit` says that it "durably treats the seven
worktree blobs, branch ref, and derived Git index as one recoverable state transition"
(`src/internal/repository/manage.go:394`). The intent is renamed into place
(`git.go:516`) before `.git` is synced (`git.go:520`). A process that dies in between
leaves an intent that is seen and not durable; the next command replays it without
syncing `.git`, which happens only in `ResetIndex` (`manage.go:550`), after the blobs and
the branch are durably at the target. A power loss before that can take the intent and
leave the branch at one commit and the index at another, with nothing to replay; lost
before the branch moves, it leaves the blobs torn. Later moves from there may be torn or
refused as well. The properties of `materialization` therefore except behaviours in
which this happened (`exposed = "lost"`), and `TornIsRecorded` the window itself.

`reset_replay`: the comment of `Reset` says that once `Resetting` is persisted
"every branch/worktree step below is safe to replay after a crash"
(`src/internal/backup/reset.go:11`). A commit stopped after `ApplyCommit` and before
`LocalAccepted` is saved leaves HEAD at the local commit with the flag unset. Reset
then records `Resetting`, and `finishReset` asks for `ApplyCommit(base, base)`, which
refuses because HEAD is not the base. Every later reset refuses too, commit refuses
because a reset is recorded, and add does not replace the transaction.

`stale_capture`: the comment of `revalidateCandidate` says that "an interrupted
ordinary candidate likewise cannot reuse pre-incident acknowledgements without fresh
checksum evidence" (`src/internal/backup/incident.go:302`). The function clears the
progress of every mirror and marks in `Capture.Mirrors` those that pass, but leaves
the mark of a mirror that fails or is skipped (`incident.go:349`), and saves the new
incident number. A commit stopped after that save is resumed from the capture
(`commit.go:233`): the mirror counts as holding the data, and since the incident
numbers now agree nothing is audited again (`commit.go:250`). The action
`StaleCapture` names the step. With a sync that lifts the quarantine and
the loss of a captured pack the claim is false. `maintenance` takes every step but this
one (its action constraint `Audited`).

Four disagreements are exceptions stated in a property rather than runs of their own.

- `ChangesReported`: `src/docs/design.md:272` says that a planned path changed since add
  "produces an informational warning", and line 274 that such changes "use the 100-detail
  warning cap and aggregate remainder". The cap is spent and saved with each printed
  warning (`src/internal/backup/capture.go:204`), the count of changes only with the
  segment (`capture.go:136`). A capture interrupted in between reads the path again when
  resumed: it prints it a second time and spends the cap twice, or omits it. A later
  changed path is then in neither the details nor the remainder.
- `IndexExact`: the comment in `putObject` says that a key published by a failed put
  "must enter the live listing index" (`src/internal/s3server/server.go:464`), but it
  enters only if the object can then be opened (line 467).
- `ReserveKept`: a failed put unlinks its temporary file without a sync of the root
  (`src/internal/objectstore/filesystem.go:447`). A power cut may bring back several
  such files, and they use the reserve until the next put of a new key removes them.
- `SuccessDurable` does not speak of a destination directory made by an earlier,
  interrupted restore, which a later run opens without a sync
  (`src/internal/backup/restore.go:234`).

## 4. Proofs

`MaterializationProofs` proves for every set of commits, number of blobs and
number of crashes, from `MaterializationAssumption` alone (the three special
values differ, at least one blob):

- `Invariance`: the inductive invariant `IInv`;
- `TypeCorrect`: the type invariant;
- `Consistency`, `Replayable`, `TornRecorded`: the invariants that the run
  `materialization` checks on a small instance.

`CheckoutConsistent` speaks only of the moments when a command looks, so it is not
inductive. `IInv` adds what holds in between: `IntentInv` (an intent that is seen, or
that a power loss may bring back, can be replayed from the head, and outside the exposed
window an intent whose move has begun is durable), `MovingInv` (which blobs are of the
target, in what is seen and on disk, and where the branch and index are, at each step),
`ResetInv` (an initial reset concerns only the branch its own publication created) and
`SettledInv` (with no intent and no reset recorded, blobs, branch and index agree, also
on disk). These four are claimed while `exposed` is not `lost`; beside the types only
`HoldsIntent`, that a replay has read an intent, is claimed always. Each has a step
lemma with one case per action; `LostStays` says that the exception is final.

`FilesystemStoreProofs` proves for any keys, directories, capacity and number of
faults and stops:

- `Invariance` and `TypeCorrect`: the inductive invariant and the types;
- `Evidence`: `EvidenceDurable`;
- `Implementation`: the store implements `ImmutableObjects`, step by step;
- `Reserved`: `ReserveKept`.

The assumptions are `DiskAssumption` (every key has a directory) and
`StoreAssumption`; of the latter, only `Reserved` needs that there are finitely many
keys and that the disk is larger than the reserve (initialisation writes the identity
file without a space check). `EvidenceDurable` is not inductive: an acknowledged put
is durable only because of what earlier steps did. `NameInv` says that a name exists
only in a durable directory and for synced bytes; `OpInv` says where the operation
in progress stands, above all that its key has no name before the rename and has one
after it. `ReserveKept` is inductive beside them: a rename trades a temporary file
for a name, and a power cut that loses a name leaves at most the temporary file it
was renamed from; files that come back after their removal are counted apart and not
bounded by the reserve. The refinement needs the same invariant, since an acknowledgement
must map to a step that stores an object.

Only model-checked: everything about the other modules, the refinements of
`ObjectServer` and `Publication`, and all liveness (fairness is outside the prover),
`PublishedSettles` of the filesystem store included. The sort, the deduplication
table and the search of `Recover` are recursive over data, which the prover cannot
induct on.

## 5. Not modelled

- Scan, ignore rules and the building of a plan (`add`, `replan`, observations): a
  sequential derivation from a directory tree. What commit may meet afterwards, a
  path changed or gone, is in `Capture`.
- History validation and its cache, revision resolution, full verification, `find`:
  they read immutable objects and change no state but the cache, which saves work and
  decides nothing.
- Cryptography, compression, file formats, request signing, paths: their results are
  identities of objects, and no property tells more apart.
- Local configuration, command line, logging and progress output.
- Liveness of `Recover` and `ObjectServer`: a search that ends by its limits, and
  requests that either return or are lost.
