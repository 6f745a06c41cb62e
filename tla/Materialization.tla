--------------------------- MODULE Materialization ---------------------------
(***************************************************************************)
(* The metadata checkout of one machine: the required worktree blobs, the   *)
(* branch ref and Git's index, moved together by ApplyCommit and replayed   *)
(* by RecoverMaterialization after a crash (internal/repository/manage.go). *)
(*                                                                          *)
(* The bytes of a file are synced before it is renamed into place; a rename *)
(* or a removal is visible at once and durable only after the directory is  *)
(* synced.  `work', `index' and `intent' are what a process sees; the       *)
(* variables in Disk are sets, of what a power loss may leave: the visible  *)
(* value and every earlier one since the last sync.  Git syncs the branch   *)
(* ref itself (core.fsync).                                                 *)
(***************************************************************************)
EXTENDS Integers

CONSTANTS
    Commits,      \* the commits a checkout may be moved to
    Genesis,      \* the commit an initial publication creates
    NoCommit,     \* the empty commit ID: an unborn branch, an absent file
    Prepared,     \* blob contents of a local preparation, of no commit yet
    NumBlobs,     \* len(RequiredBlobNames)
    MaxCrashes    \* bound on process deaths and power losses

ASSUME MaterializationAssumption ==
    /\ NoCommit \notin Commits
    /\ Prepared \notin Commits \cup {NoCommit}
    /\ Genesis \in Commits
    /\ NumBlobs \in Nat \ {0}
    /\ MaxCrashes \in Nat

VARIABLES
    head,        \* the branch ref
    index,       \* the commit Git's index was last reset to
    indexDisk,   \* what a power loss may leave of it
    work,        \* the commit each worktree blob was written from
    workDisk,    \* what a power loss may leave of each
    intent,      \* the materialization intent file, NoIntent when absent
    intentDisk,  \* what a power loss may leave of it
    preparing,   \* the preparation record of the initial publication exists
    resetting,   \* a reset of the initial publication is recorded
    pc,          \* the step the process holding the operation lock is at
    moving,      \* the intent that process has read
    current,     \* the head it read with the intent
    written,     \* how many blobs it has written or removed
    exposed,     \* auxiliary: see OpenLocked
    crashes

vars == <<head, index, indexDisk, work, workDisk, intent, intentDisk,
          preparing, resetting, pc, moving, current, written, exposed, crashes>>

tree == <<work, workDisk>>
git == <<index, indexDisk, intent, intentDisk>>
records == <<preparing, resetting>>
local == <<moving, current, written>>

Blobs == 1 .. NumBlobs
Targets == Commits \cup {NoCommit}
Contents == Targets \cup {Prepared}
Intents == [target: Targets, expected: Targets]
NoIntent == [target |-> Prepared, expected |-> Prepared]
Steps == {"down", "ready", "record", "blobs", "blobSync", "ref", "index",
          "indexSync", "clear", "sync",
          "resetHead", "resetIndex", "resetSync", "resetClear"}

TypeOK ==
    /\ head \in Targets
    /\ index \in Targets
    /\ indexDisk \subseteq Targets
    /\ work \in [Blobs -> Contents]
    /\ workDisk \in [Blobs -> SUBSET Contents]
    /\ intent \in Intents \cup {NoIntent}
    /\ intentDisk \subseteq Intents \cup {NoIntent}
    /\ preparing \in BOOLEAN
    /\ resetting \in BOOLEAN
    /\ pc \in Steps
    /\ moving \in Intents \cup {NoIntent}
    /\ current \in Targets
    /\ written \in 0 .. NumBlobs
    /\ exposed \in {"no", "replaying", "lost"}
    /\ crashes \in 0 .. MaxCrashes

(***************************************************************************)
(* A repository InitializeLocal has just prepared: an unborn branch, an     *)
(* empty index and the editable preparation files.                          *)
(***************************************************************************)
Init ==
    /\ head = NoCommit
    /\ index = NoCommit
    /\ indexDisk = {NoCommit}
    /\ work = [b \in Blobs |-> Prepared]
    /\ workDisk = [b \in Blobs |-> {Prepared}]
    /\ intent = NoIntent
    /\ intentDisk = {NoIntent}
    /\ preparing = TRUE
    /\ resetting = FALSE
    /\ pc = "down"
    /\ moving = NoIntent
    /\ current = NoCommit
    /\ written = 0
    /\ exposed = "no"
    /\ crashes = 0

-----------------------------------------------------------------------------
(* The system calls.                                                        *)

\* Blob b gets another content or is removed, and the worktree is synced.
SetBlob(b, content) ==
    /\ work' = [work EXCEPT ![b] = content]
    /\ workDisk' = [workDisk EXCEPT ![b] = @ \cup {content}]

SyncWork ==
    /\ workDisk' = [b \in Blobs |-> {work[b]}]
    /\ UNCHANGED work

\* The intent file, or Git's index, is replaced or removed.
SetIntent(i) ==
    /\ intent' = i
    /\ intentDisk' = intentDisk \cup {i}
    /\ UNCHANGED <<index, indexDisk, exposed>>

SetIndex(c) ==
    /\ index' = c
    /\ indexDisk' = indexDisk \cup {c}
    /\ UNCHANGED <<intent, intentDisk, exposed>>

\* .git is synced: the names of the intent and of the index are durable.
SyncGit ==
    /\ intentDisk' = {intent}
    /\ indexDisk' = {index}
    /\ exposed' = IF exposed = "replaying" THEN "no" ELSE exposed
    /\ UNCHANGED <<index, intent>>

-----------------------------------------------------------------------------
(* RecoverMaterialization, one action per system call that another process  *)
(* can find done without the next one.                                      *)

\* The process reads intent i and the head and starts writing blobs.
StartMoving(i) ==
    /\ head \in {i.expected, i.target}
    /\ moving' = i
    /\ current' = head
    /\ written' = 0
    /\ pc' = "blobs"

\* Mutant: a recorded intent is left alone.
OpenWithoutRecovery ==
    /\ pc = "down"
    /\ pc' = "ready"
    /\ UNCHANGED <<head, tree, git, records, local, exposed, crashes>>

\* openStateAndLock: take the lock, then finish any recorded intent before
\* the command looks at the checkout; an intent that starts from neither end
\* is refused.  The intent is replayed as it is seen: .git is not synced
\* first.  `exposed' tells that a replay has begun of an intent that is not
\* known to be durable, and later whether power was lost before the sync that
\* ends this, and the intent with it.
OpenLocked ==
    /\ pc = "down"
    /\ \/ /\ intent = NoIntent
          /\ pc' = "ready"
          /\ UNCHANGED <<local, exposed>>
       \/ /\ intent # NoIntent
          /\ StartMoving(intent)
          /\ exposed' = IF exposed = "no" /\ intentDisk # {intent}
                        THEN "replaying" ELSE exposed
       \/ /\ intent # NoIntent
          /\ head \notin {intent.expected, intent.target}
          /\ UNCHANGED <<pc, local, exposed>>
    /\ UNCHANGED <<head, tree, git, records, crashes>>

\* Mutant: the intent is recorded before the head is compared.
ApplyUnchecked(target, expected) ==
    /\ pc = "ready"
    /\ ~resetting
    /\ preparing => target = Genesis /\ expected = NoCommit
    /\ SetIntent([target |-> target, expected |-> expected])
    /\ pc' = IF head = expected THEN "record" ELSE pc
    /\ UNCHANGED <<head, tree, records, local, crashes>>

\* ApplyCommit: the intent is written and renamed into place.  A preparation
\* is moved only to the commit it creates, and a recorded initial reset
\* admits no other move of the branch.
ApplyCommit(target, expected) ==
    /\ pc = "ready"
    /\ ~resetting
    /\ preparing => target = Genesis /\ expected = NoCommit
    /\ head = expected
    /\ SetIntent([target |-> target, expected |-> expected])
    /\ pc' = "record"
    /\ UNCHANGED <<head, tree, records, local, crashes>>

\* atomicWriteFile ends with a sync of .git; then the recovery itself runs.
RecordIntent ==
    /\ pc = "record"
    /\ SyncGit
    /\ StartMoving(intent)
    /\ UNCHANGED <<head, tree, records, crashes>>

\* One blob of the target is renamed into place ...
WriteBlob ==
    /\ pc = "blobs"
    /\ moving.target # NoCommit
    /\ written < NumBlobs
    /\ SetBlob(written + 1, moving.target)
    /\ pc' = "blobSync"
    /\ UNCHANGED <<head, git, records, local, exposed, crashes>>

\* ... and the worktree synced.
SyncBlob ==
    /\ pc = "blobSync"
    /\ SyncWork
    /\ written' = written + 1
    /\ pc' = "blobs"
    /\ UNCHANGED <<head, git, records, moving, current, exposed, crashes>>

\* An unborn target: the blob is removed.
RemoveBlob ==
    /\ pc = "blobs"
    /\ moving.target = NoCommit
    /\ written < NumBlobs
    /\ SetBlob(written + 1, NoCommit)
    /\ written' = written + 1
    /\ UNCHANGED <<head, git, records, pc, moving, current, exposed, crashes>>

\* All blobs are done.  Removals are synced now, writes have been.
FinishBlobs ==
    /\ pc = "blobs"
    /\ written = NumBlobs
    /\ IF moving.target = NoCommit THEN SyncWork ELSE UNCHANGED tree
    /\ pc' = "ref"
    /\ UNCHANGED <<head, git, records, local, exposed, crashes>>

\* Mutant: the index is not reset before the intent is cleared.
UpdateRefOnly ==
    /\ pc = "ref"
    /\ \/ current = moving.target /\ UNCHANGED head
       \/ /\ current # moving.target
          /\ head = moving.expected
          /\ head' = moving.target
    /\ pc' = "clear"
    /\ UNCHANGED <<tree, git, records, local, exposed, crashes>>

\* AcceptCommit or DeleteHead: a compare-and-swap from the expected commit,
\* skipped when the head read at the start was the target already.
UpdateRef ==
    /\ pc = "ref"
    /\ \/ current = moving.target /\ UNCHANGED head
       \/ /\ current # moving.target
          /\ head = moving.expected
          /\ head' = moving.target
    /\ pc' = "index"
    /\ UNCHANGED <<tree, git, records, local, exposed, crashes>>

\* ResetIndex: git read-tree replaces the index, then .git is synced.
ReadTree ==
    /\ pc = "index"
    /\ SetIndex(moving.target)
    /\ pc' = "indexSync"
    /\ UNCHANGED <<head, tree, records, local, crashes>>

ResetIndex ==
    /\ pc = "indexSync"
    /\ SyncGit
    /\ pc' = "clear"
    /\ UNCHANGED <<head, tree, records, local, crashes>>

RemoveIntent ==
    /\ pc = "clear"
    /\ SetIntent(NoIntent)
    /\ pc' = "sync"
    /\ UNCHANGED <<head, tree, records, local, crashes>>

SyncIntent ==
    /\ pc = "sync"
    /\ SyncGit
    /\ pc' = "ready"
    /\ UNCHANGED <<head, tree, records, local, crashes>>

-----------------------------------------------------------------------------
(* resetInitialGenesis (internal/backup/reset.go): the branch is deleted    *)
(* without an intent; the recorded Resetting flag makes it resumable, and   *)
(* the worktree keeps the files of the preparation.                         *)

StartInitialReset ==
    /\ pc = "ready"
    /\ preparing
    /\ resetting' = TRUE
    /\ pc' = "resetHead"
    /\ UNCHANGED <<head, tree, git, preparing, local, exposed, crashes>>

ResetHead ==
    /\ pc = "resetHead"
    /\ head \in {Genesis, NoCommit}
    /\ head' = NoCommit
    /\ pc' = "resetIndex"
    /\ UNCHANGED <<tree, git, records, local, exposed, crashes>>

\* ResetIndex("") in two steps as above.
EmptyIndex ==
    /\ pc = "resetIndex"
    /\ SetIndex(NoCommit)
    /\ pc' = "resetSync"
    /\ UNCHANGED <<head, tree, records, local, crashes>>

SyncEmptyIndex ==
    /\ pc = "resetSync"
    /\ SyncGit
    /\ pc' = "resetClear"
    /\ UNCHANGED <<head, tree, records, local, crashes>>

\* clearTransactionFiles forgets the reset.
FinishInitialReset ==
    /\ pc = "resetClear"
    /\ resetting' = FALSE
    /\ pc' = "ready"
    /\ UNCHANGED <<head, tree, git, preparing, local, exposed, crashes>>

\* finishPreparation: the initial publication is complete, and the record
\* that allowed an initial reset is removed.  (The state directory is synced
\* whenever it is opened, so a record that is seen is durable.)
FinishPreparation ==
    /\ pc = "ready"
    /\ preparing
    /\ ~resetting
    /\ head = Genesis
    /\ preparing' = FALSE
    /\ UNCHANGED <<head, tree, git, resetting, pc, local, exposed, crashes>>

-----------------------------------------------------------------------------
\* The command ends and releases the lock.
Close ==
    /\ pc = "ready"
    /\ pc' = "down"
    /\ UNCHANGED <<head, tree, git, records, local, exposed, crashes>>

\* The process dies, or a step returns an error: the kernel keeps what it
\* has done.
Crash ==
    /\ pc # "down"
    /\ crashes < MaxCrashes
    /\ crashes' = crashes + 1
    /\ pc' = "down"
    /\ UNCHANGED <<head, tree, git, records, local, exposed>>

\* The machine loses power: of every name not yet synced, any value since
\* the last sync remains.
PowerLoss ==
    /\ crashes < MaxCrashes
    /\ crashes' = crashes + 1
    /\ work' \in {w \in [Blobs -> Contents] : \A b \in Blobs : w[b] \in workDisk[b]}
    /\ workDisk' = [b \in Blobs |-> {work'[b]}]
    /\ index' \in indexDisk
    /\ indexDisk' = {index'}
    /\ intent' \in intentDisk
    /\ intentDisk' = {intent'}
    /\ exposed' = IF exposed # "replaying" THEN exposed
                  ELSE IF intent' = intent THEN "no" ELSE "lost"
    /\ pc' = "down"
    /\ UNCHANGED <<head, records, local>>

Recovery ==
    \/ OpenLocked
    \/ RecordIntent
    \/ WriteBlob
    \/ SyncBlob
    \/ RemoveBlob
    \/ FinishBlobs
    \/ UpdateRef
    \/ ReadTree
    \/ ResetIndex
    \/ RemoveIntent
    \/ SyncIntent

Next ==
    \/ Recovery
    \/ \E target, expected \in Targets : ApplyCommit(target, expected)
    \/ StartInitialReset
    \/ ResetHead
    \/ EmptyIndex
    \/ SyncEmptyIndex
    \/ FinishInitialReset
    \/ FinishPreparation
    \/ Close
    \/ Crash
    \/ PowerLoss

\* Fairness: a machine that is up eventually runs another command, and a
\* command takes its next step unless the process or the machine dies.
Spec == Init /\ [][Next]_vars /\ WF_vars(Recovery)

-----------------------------------------------------------------------------
(* Properties.                                                              *)

\* Branch, index and blobs are at one commit.  An unborn branch keeps the
\* preparation's files, so it constrains only the index.
Whole ==
    /\ index = head
    /\ head # NoCommit => \A b \in Blobs : work[b] = head

\* ApplyCommit "durably treats the seven worktree blobs, branch ref, and
\* derived Git index as one recoverable state transition": when a command may
\* look at the checkout, every piece of it is at the same commit and no move
\* is left to finish.
CheckoutWhole == pc = "ready" /\ ~resetting => Whole /\ intent = NoIntent

\* That holds whatever process deaths and power losses interrupted the move,
\* except after a power loss that took an intent a later process had begun to
\* replay before any sync of .git made it durable.
CheckoutConsistent == exposed # "lost" => CheckoutWhole

\* With the same exception, RecoverMaterialization never answers "metadata
\* branch changed during materialization recovery": an intent that is seen
\* can be replayed, also one that a power loss brings back after its removal,
\* and also when another move was recorded on top of that removal.
RecoveryNeverStuck ==
    exposed # "lost" /\ intent # NoIntent =>
        head \in {intent.expected, intent.target}

\* A checkout whose pieces disagree, in what is seen or in what a power loss
\* may leave, is covered by a record that no power loss takes away: the
\* intent or the recorded initial reset.  The exception is a checkout whose
\* intent is being replayed before it is durable.
TornIsRecorded ==
    \/ intent # NoIntent /\ intentDisk = {intent}
    \/ resetting
    \/ exposed # "no"
    \/ /\ Whole
       /\ indexDisk = {head}
       /\ head # NoCommit => \A b \in Blobs : workDisk[b] = {head}

\* A durable intent is rolled forward: whatever crashes follow, its target
\* becomes the head and the intent is cleared, unless an earlier move was
\* lost as above.
IntentCompletes ==
    \A c \in Targets :
        (intentDisk = {intent} /\ intent # NoIntent /\ intent.target = c)
            ~> (head = c /\ intent = NoIntent) \/ exposed = "lost"
=============================================================================
