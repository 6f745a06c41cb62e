--------------------------- MODULE FilesystemStore ---------------------------
(***************************************************************************)
(* A filesystem mirror (internal/objectstore/filesystem.go): one process    *)
(* at a time holds the lock and one operation at a time the mutex, so what  *)
(* is hard is where an operation stops: a system call fails, the process    *)
(* dies, power is lost, the disk is unplugged, or it is full.               *)
(*                                                                          *)
(* An object and a temporary file take one unit of space each.  Temporary   *)
(* files live in the root: one that is unlinked is gone for good only after *)
(* the root is synced, and until then a power loss may bring it back.       *)
(***************************************************************************)
EXTENDS ObjectDisk, Integers, FiniteSets

CONSTANTS
    Capacity,    \* units of space on the disk
    Reserve,     \* reserveBytes
    MaxFaults,   \* bound on failing system calls, decays and unmounts
    MaxStops     \* bound on process deaths and power cuts

\* The identity file is written without a space check: a disk to be
\* initialised has room for it beside the reserve.
ASSUME StoreAssumption ==
    /\ {Capacity, Reserve, MaxFaults, MaxStops} \subseteq Nat
    /\ Reserve < Capacity
    /\ IsFiniteSet(Keys)

VARIABLES
    marker,      \* the store's identity file: "absent", "visible", "durable"
    identity,    \* the identity was returned and is in the configuration
    mounted,     \* the configured path leads to this store
    temps,       \* temporary files in the root
    removed,     \* files unlinked there since it was last synced
    returned,    \* files a power loss has brought back after that
    open,        \* a process holds the store open
    cleaned,     \* and has removed stale temporary files
    op,          \* the operation that holds the mutex
    evidence,    \* keys whose creation or audit the caller takes as done
    faults, stops

storeVars == <<marker, identity, mounted>>
processVars == <<open, cleaned, op>>
bounds == <<faults, stops>>
tempVars == <<temps, removed, returned>>
vars == <<diskVars, storeVars, tempVars, processVars, evidence, bounds>>

NoOp == [pc |-> "idle"]
KeySteps == {"written", "flushed", "parents", "renamed", "settle"}
Operations == {NoOp} \cup [pc: {"initTemp", "initNamed"}] \cup [pc: KeySteps, key: Keys]

TypeOK ==
    /\ DiskTypeOK
    /\ marker \in Existence
    /\ identity \in BOOLEAN
    /\ mounted \in BOOLEAN
    /\ temps \in Nat /\ removed \in Nat /\ returned \in Nat
    /\ open \in BOOLEAN
    /\ cleaned \in BOOLEAN
    /\ op \in Operations
    /\ evidence \subseteq Keys
    /\ faults \in 0 .. MaxFaults
    /\ stops \in 0 .. MaxStops

Init ==
    /\ DiskInit
    /\ marker = "absent" /\ identity = FALSE /\ mounted = TRUE
    /\ temps = 0 /\ removed = 0 /\ returned = 0
    /\ open = FALSE /\ cleaned = FALSE /\ op = NoOp
    /\ evidence = {}
    /\ faults = 0 /\ stops = 0

At(s) == op.pc = s

\* The system calls on temporary files.
CreateTemp == temps' = temps + 1 /\ UNCHANGED <<removed, returned>>

\* The file of the operation is unlinked, which may fail; `pending' files
\* were unlinked before it and not synced.
UnlinkTemp(pending) ==
    /\ \/ temps' = temps - 1 /\ removed' = pending + 1
       \/ temps' = temps /\ removed' = pending
    /\ UNCHANGED returned

\* A sync of the root makes the unlinks final.
SyncTemps == removed' = 0 /\ UNCHANGED <<temps, returned>>

Fault ==
    /\ faults < MaxFaults
    /\ faults' = faults + 1
    /\ UNCHANGED stops

-----------------------------------------------------------------------------
(* InitializeFilesystem provisions an empty directory, once.                *)

EmptyRoot ==
    /\ marker = "absent"
    /\ temps + returned = 0
    /\ \A d \in Dirs : dir[d] = "absent"

InitBegin ==
    /\ At("idle") /\ ~open
    /\ mounted
    /\ EmptyRoot
    /\ CreateTemp
    /\ op' = [pc |-> "initTemp"]
    /\ UNCHANGED <<diskVars, storeVars, open, cleaned, evidence, bounds>>

\* The marker is written, synced and renamed into place; if that fails the
\* temporary file is removed.
InitPublish ==
    /\ At("initTemp")
    /\ \/ /\ marker' = "visible"
          /\ op' = [pc |-> "initNamed"]
          /\ temps' = temps - 1
          /\ UNCHANGED <<removed, returned, bounds>>
       \/ /\ UnlinkTemp(removed)
          /\ op' = NoOp
          /\ Fault
          /\ UNCHANGED marker
    /\ UNCHANGED <<diskVars, identity, mounted, open, cleaned, evidence>>

\* The root and the directory above it are synced.
InitSync ==
    /\ At("initNamed")
    /\ \/ marker' = "durable" /\ identity' = TRUE /\ SyncTemps /\ UNCHANGED bounds
       \/ UNCHANGED <<marker, identity, tempVars>> /\ Fault
    /\ op' = NoOp
    /\ UNCHANGED <<diskVars, mounted, open, cleaned, evidence>>

-----------------------------------------------------------------------------
(* Opening, and the check every operation starts with.                      *)

\* check: the path still leads to the opened root and its marker is ours.
Check == open /\ mounted /\ marker # "absent"

OpenFilesystem ==
    /\ At("idle") /\ ~open
    /\ identity
    /\ mounted
    /\ marker # "absent"
    /\ open' = TRUE
    /\ cleaned' = FALSE
    /\ UNCHANGED <<diskVars, storeVars, tempVars, op, evidence, bounds>>

Close ==
    /\ open
    /\ At("idle")
    /\ open' = FALSE
    /\ UNCHANGED <<diskVars, storeVars, tempVars, cleaned, op, evidence, bounds>>

-----------------------------------------------------------------------------
(* PutOpenFile.                                                             *)

Used == Cardinality({k \in Keys : Visible(k)})

\* Mutant: the size of the new object is not set against the space left.
RequireReserve(t) == Used + t + Reserve <= Capacity

\* requireCapacity, with t temporary files there.
RequireCapacity(t) == Used + t + 1 + Reserve <= Capacity

\* cleanupTemps: the temporary files left once an open has cleaned up.
cleanupTemps == IF cleaned THEN temps ELSE 0

\* Mutant: space is asked for before the key is looked up.
PutStartFull(k) ==
    /\ Check /\ At("idle")
    /\ RequireCapacity(temps + returned)
    /\ IF Visible(k)
         THEN /\ op' = [pc |-> "settle", key |-> k]
              /\ UNCHANGED <<dir, tempVars, cleaned>>
         ELSE /\ cleaned' = TRUE
              /\ SyncRoot
              /\ temps' = IF cleaned THEN temps + 1 ELSE 1
              /\ removed' = 0 /\ returned' = 0
              /\ op' = [pc |-> "written", key |-> k]
    /\ UNCHANGED <<entry, flushed, rotten, storeVars, open, evidence, bounds>>

\* A key that exists is a conflict, which the caller settles by an audit.
\* Otherwise stale temporary files are removed, once per open, and the root
\* synced; then space is checked and the bytes are copied and hashed.
PutStart(k) ==
    /\ Check /\ At("idle")
    /\ IF Visible(k)
         THEN /\ op' = [pc |-> "settle", key |-> k]
              /\ UNCHANGED <<dir, tempVars, cleaned>>
         ELSE /\ cleaned' = TRUE
              /\ IF cleaned THEN UNCHANGED <<dir, removed, returned>>
                            ELSE SyncRoot /\ removed' = 0 /\ returned' = 0
              /\ \/ /\ RequireCapacity(cleanupTemps + returned')
                    /\ temps' = cleanupTemps + 1
                    /\ op' = [pc |-> "written", key |-> k]
                 \/ /\ ~RequireCapacity(cleanupTemps + returned')
                    /\ temps' = cleanupTemps
                    /\ UNCHANGED op
    /\ UNCHANGED <<entry, flushed, rotten, storeVars, open, evidence, bounds>>

\* The cleanup fails: some of the files are unlinked and the root not synced.
CleanupFail ==
    /\ Check /\ At("idle") /\ ~cleaned
    /\ \E k \in Keys : ~Visible(k)
    /\ temps' \in 0 .. temps
    /\ returned' \in 0 .. returned
    /\ removed' = removed + (temps - temps') + (returned - returned')
    /\ Fault
    /\ UNCHANGED <<diskVars, storeVars, processVars, evidence>>

\* The bytes are synced.
PutFlush ==
    /\ At("written")
    /\ op' = [op EXCEPT !.pc = "flushed"]
    /\ UNCHANGED <<diskVars, storeVars, tempVars, open, cleaned, evidence, bounds>>

\* Directories along the key are made where they are missing ...
PutMakeParents ==
    /\ At("flushed")
    /\ MakeDirectory(DirOf[op.key])
    /\ op' = [op EXCEPT !.pc = "parents"]
    /\ UNCHANGED <<entry, flushed, rotten, storeVars, tempVars, open, cleaned, evidence, bounds>>

\* ... and synced whether new or not; after another check the file is
\* renamed to its key.
PutRename ==
    /\ At("parents")
    /\ Check
    /\ SyncRoot
    /\ Publish(op.key, TRUE, TRUE)
    /\ temps' = temps - 1 /\ removed' = 0 /\ UNCHANGED returned
    /\ op' = [op EXCEPT !.pc = "renamed"]
    /\ UNCHANGED <<storeVars, open, cleaned, evidence, bounds>>

\* Mutant: a failing sync is taken for a creation.
PutSyncAnyway ==
    /\ At("renamed")
    /\ \/ SyncDirectory(DirOf[op.key]) /\ SyncRoot /\ SyncTemps /\ UNCHANGED bounds
       \/ UNCHANGED <<entry, dir, tempVars>> /\ Fault
    /\ evidence' = evidence \cup {op.key}
    /\ op' = NoOp
    /\ UNCHANGED <<flushed, rotten, storeVars, open, cleaned>>

\* The directory is synced and the creation acknowledged; if that fails the
\* answer is ambiguous and the caller audits.  An error of the removal of the
\* temporary name, which is gone, turns either answer into CreateFailed.
PutSync ==
    /\ At("renamed")
    /\ \/ /\ SyncDirectory(DirOf[op.key]) /\ SyncRoot /\ SyncTemps
          /\ evidence' = evidence \cup ({op.key} \ rotten)
          /\ op' = NoOp
          /\ UNCHANGED bounds
       \/ /\ UNCHANGED <<entry, dir, tempVars, evidence>>
          /\ op' \in {[op EXCEPT !.pc = "settle"], NoOp}
          /\ Fault
       \/ /\ SyncDirectory(DirOf[op.key]) /\ SyncRoot /\ SyncTemps
          /\ op' = NoOp
          /\ Fault
          /\ UNCHANGED evidence
    /\ UNCHANGED <<flushed, rotten, storeVars, open, cleaned>>

\* A step before the rename fails: CreateFailed.  The directories may have
\* been synced.  The temporary file is unlinked, unless that fails as well,
\* and the root is not synced after it.
PutFail ==
    /\ op.pc \in {"written", "flushed", "parents"}
    /\ \/ Fault
       \/ ~mounted /\ At("parents") /\ UNCHANGED bounds
    /\ \/ UNCHANGED dir /\ UnlinkTemp(removed)
       \/ At("parents") /\ SyncRoot /\ UnlinkTemp(0)
    /\ op' = NoOp
    /\ UNCHANGED <<entry, flushed, rotten, storeVars, open, cleaned, evidence>>

-----------------------------------------------------------------------------
(* getVerified: read, hash, then sync the file and every directory of the   *)
(* key up to the one above the root, since the audit may stand for a        *)
(* creation whose answer was lost.                                          *)

\* Mutant: an audit that only reads.
ReadOnlyAudit(k) == UNCHANGED <<dir, entry, flushed, tempVars>>

SyncedAudit(k) ==
    /\ flushed' = flushed \cup {k}
    /\ SyncDirectory(DirOf[k])
    /\ SyncRoot /\ SyncTemps

Sound(k) == Visible(k) /\ k \notin rotten

\* The caller of a put settles a conflict or an ambiguous answer.
Settle ==
    /\ At("settle")
    /\ Check
    /\ IF Sound(op.key)
         THEN SyncedAudit(op.key) /\ evidence' = evidence \cup {op.key}
         ELSE UNCHANGED <<dir, entry, flushed, tempVars, evidence>>
    /\ op' = NoOp
    /\ UNCHANGED <<rotten, storeVars, open, cleaned, bounds>>

\* The audit that would settle it fails, or the store is gone.
SettleFail ==
    /\ At("settle")
    /\ IF Check THEN Fault ELSE UNCHANGED bounds
    /\ op' = NoOp
    /\ UNCHANGED <<diskVars, storeVars, tempVars, open, cleaned, evidence>>

\* verify, sync and reads audit keys of their own choice.
Audit(k) ==
    /\ At("idle")
    /\ Check
    /\ Sound(k)
    /\ SyncedAudit(k)
    /\ evidence' = evidence \cup {k}
    /\ UNCHANGED <<rotten, storeVars, processVars, bounds>>

-----------------------------------------------------------------------------
(* What happens to the process, the machine and the disk.                   *)

Stopped ==
    /\ stops < MaxStops
    /\ stops' = stops + 1
    /\ open' = FALSE
    /\ op' = NoOp
    /\ UNCHANGED <<identity, cleaned, evidence, faults>>

Kill ==
    /\ open \/ ~At("idle")
    /\ Stopped
    /\ UNCHANGED <<diskVars, marker, mounted, tempVars>>

\* A rename that is lost may bring the temporary name back, and so may an
\* unlink.
PowerLoss ==
    /\ Stopped
    /\ PowerCut
    /\ marker' \in IF marker = "visible" THEN {"absent", "durable"} ELSE {marker}
    /\ temps' \in 0 .. temps + Cardinality({k \in Keys : Visible(k) /\ entry'[k] = "absent"})
    /\ returned' \in 0 .. returned + removed
    /\ removed' = 0
    /\ UNCHANGED mounted

Unmount ==
    /\ mounted
    /\ mounted' = FALSE
    /\ Fault
    /\ UNCHANGED <<diskVars, marker, identity, tempVars, processVars, evidence>>

Mount ==
    /\ ~mounted
    /\ mounted' = TRUE
    /\ UNCHANGED <<diskVars, marker, identity, tempVars, processVars, evidence, bounds>>

DecayObject(k) ==
    /\ Fault
    /\ Rot(k)
    /\ evidence' = evidence \ {k}
    /\ UNCHANGED <<storeVars, tempVars, processVars>>

PutStep == PutFlush \/ PutMakeParents \/ PutRename \/ PutSync \/ PutFail

Next ==
    \/ InitBegin \/ InitPublish \/ InitSync
    \/ OpenFilesystem \/ Close
    \/ \E k \in Keys : PutStart(k) \/ Audit(k) \/ DecayObject(k)
    \/ CleanupFail \/ PutStep \/ Settle \/ SettleFail
    \/ Kill \/ PowerLoss \/ Unmount \/ Mount

Spec == Init /\ [][Next]_vars

\* The operator runs the upload of each key again until it is done, mounts
\* the disk for it, and an operation that began takes its next step.
Fairness ==
    /\ WF_vars(OpenFilesystem) /\ WF_vars(Mount)
    /\ WF_vars(PutStep) /\ WF_vars(Settle \/ SettleFail)
    /\ \A k \in Keys : SF_vars(PutStart(k))

FairSpec == Spec /\ Fairness

-----------------------------------------------------------------------------
(* Properties.                                                              *)

\* What a caller was told is on the disk for good: the bytes of an object it
\* has evidence of, its name and the directories above, and the marker of a
\* store whose identity was returned to the configuration.  Neither the death
\* of the process nor a power cut takes any of it back.
EvidenceDurable ==
    /\ identity => marker = "durable"
    /\ \A k \in evidence :
        /\ entry[k] = "durable" /\ dir[DirOf[k]] = "durable"
        /\ k \in flushed /\ k \notin rotten

Objects == INSTANCE ImmutableObjects WITH slot <- SlotOf

\* Seen from outside, the store is the immutable object store that the rest
\* of the program assumes.
ImplementsImmutableObjects == Objects!Spec

\* The store keeps its reserve: neither failed puts that leave temporary
\* files nor crashes let objects and temporary files fill the disk beyond
\* Capacity - Reserve.  Files that were unlinked and that a power loss brings
\* back before the root was synced are not counted: they stay until the next
\* put of a new key cleans up.
ReserveKept == Used + temps + Reserve <= Capacity

\* An object that has its name is eventually acknowledged or audited, or is
\* found gone or decayed: the upload can be repeated even when the disk has
\* no room left for another copy.
PublishedSettles ==
    \A k \in Keys : Visible(k) ~> (k \in evidence \/ ~Visible(k) \/ k \in rotten)
=============================================================================
