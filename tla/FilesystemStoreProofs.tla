------------------------ MODULE FilesystemStoreProofs ------------------------
(***************************************************************************)
(* The safety properties of FilesystemStore, for any keys, directories,     *)
(* capacity and number of faults and crashes.                               *)
(***************************************************************************)
EXTENDS FilesystemStore, FiniteSetTheorems, TLAPS

-----------------------------------------------------------------------------
(* The inductive invariant.                                                 *)

Writing == {"written", "flushed", "parents"}

\* Where the operation in progress stands: a temporary file is there until
\* the rename, the key has no name before it and keeps its name after it.
OpInv ==
    /\ op.pc \in Writing \cup {"initTemp"} => temps >= 1
    /\ op.pc = "initTemp" => marker = "absent"
    /\ op.pc \in Writing => ~Visible(op.key)
    /\ op.pc = "parents" => dir[DirOf[op.key]] # "absent"
    /\ op.pc = "renamed" => Visible(op.key)

\* A name appears in a durable directory and for synced bytes.
NameInv ==
    \A k \in Keys : Visible(k) => dir[DirOf[k]] = "durable" /\ k \in flushed

IInv == TypeOK /\ OpInv /\ NameInv /\ EvidenceDurable

-----------------------------------------------------------------------------
(* Every step preserves it.                                                 *)

\* An operation on a key has one.
LEMMA OpKey ==
    ASSUME op \in Operations, op.pc \in KeySteps
    PROVE  op.key \in Keys /\ op \in [pc: KeySteps, key: Keys]
BY DEF Operations, NoOp, KeySteps

\* The unprovisioned store satisfies the invariant.
LEMMA InitIInv == Init => IInv
<1> SUFFICES ASSUME Init PROVE IInv
    OBVIOUS
<1>1. identity \in BOOLEAN /\ mounted \in BOOLEAN /\ open \in BOOLEAN /\ cleaned \in BOOLEAN /\ ~identity
    BY Zenon DEF Init
<1> QED
    BY <1>1, StoreAssumption, DiskAssumption
    DEF Init, IInv, TypeOK, OpInv, NameInv, EvidenceDurable, DiskInit, DiskTypeOK,
        Existence, Operations, NoOp, Writing, Visible

\* What the syncs do to a well-typed disk.
LEMMA SyncRootEffect ==
    ASSUME dir \in [Dirs -> Existence], SyncRoot
    PROVE  /\ dir' \in [Dirs -> Existence]
           /\ \A d \in Dirs : dir[d] # "absent" => dir'[d] = "durable"
BY DEF SyncRoot, Settled, Existence

LEMMA SyncDirectoryEffect ==
    ASSUME NEW d \in Dirs, entry \in [Keys -> Existence], SyncDirectory(d)
    PROVE  /\ entry' \in [Keys -> Existence]
           /\ \A k \in Keys : Visible(k)' <=> Visible(k)
           /\ \A k \in Keys : entry[k] = "durable" => entry'[k] = "durable"
           /\ \A k \in Keys : DirOf[k] = d /\ Visible(k) => entry'[k] = "durable"
BY DEF SyncDirectory, Settled, Existence, Visible

LEMMA NextIInv == IInv /\ [Next]_vars => IInv'
<1> SUFFICES ASSUME IInv, [Next]_vars PROVE IInv'
    OBVIOUS
<1> USE StoreAssumption, DiskAssumption DEF IInv, tempVars
<1>1. CASE InitBegin
    BY <1>1 DEF InitBegin, CreateTemp, TypeOK, OpInv, NameInv, EvidenceDurable, DiskTypeOK, Operations, NoOp,
       diskVars, storeVars, bounds, At, EmptyRoot, Writing, Visible, KeySteps
<1>2. CASE InitPublish
    BY <1>2 DEF InitPublish, UnlinkTemp, TypeOK, OpInv, NameInv, EvidenceDurable, DiskTypeOK, Operations, NoOp,
       diskVars, storeVars, bounds, At, Writing, Visible, KeySteps, Fault, Existence
<1>3. CASE InitSync
  <2>1. /\ identity' \in BOOLEAN /\ mounted' \in BOOLEAN
        /\ open' \in BOOLEAN /\ cleaned' \in BOOLEAN
      BY <1>3, Zenon DEF InitSync, SyncTemps, TypeOK, storeVars
  <2> QED
      BY <1>3, <2>1 DEF InitSync, SyncTemps, TypeOK, OpInv, NameInv, EvidenceDurable, DiskTypeOK, Operations, NoOp,
         diskVars, storeVars, bounds, At, Writing, Visible, KeySteps, Fault, Existence
<1>4. CASE OpenFilesystem
    BY <1>4, Zenon DEF OpenFilesystem, TypeOK, OpInv, NameInv, EvidenceDurable, DiskTypeOK,
       diskVars, storeVars, bounds, Visible
<1>5. CASE Close
    BY <1>5, Zenon DEF Close, TypeOK, OpInv, NameInv, EvidenceDurable, DiskTypeOK,
       diskVars, storeVars, bounds, Visible
<1>6. ASSUME NEW k \in Keys, PutStart(k) PROVE IInv'
  <2>1. /\ identity' \in BOOLEAN /\ mounted' \in BOOLEAN
        /\ open' \in BOOLEAN /\ cleaned' \in BOOLEAN
      BY <1>6, Zenon DEF PutStart, TypeOK, storeVars
  <2> QED
      BY <1>6, <2>1, SyncRootEffect DEF PutStart, TypeOK, OpInv, NameInv, EvidenceDurable, DiskTypeOK,
         Operations, NoOp, diskVars, storeVars, bounds, At, Writing, Visible, KeySteps,
         cleanupTemps, Existence
<1>7. ASSUME NEW k \in Keys, Audit(k) PROVE IInv'
    BY <1>7, SyncRootEffect, SyncDirectoryEffect DEF Audit, SyncTemps, SyncedAudit, Sound, TypeOK, OpInv,
       NameInv, EvidenceDurable, DiskTypeOK, storeVars, processVars, bounds, At, Writing, Visible
<1>8. ASSUME NEW k \in Keys, DecayObject(k) PROVE IInv'
    BY <1>8 DEF DecayObject, Rot, Fault, TypeOK, OpInv, NameInv, EvidenceDurable, DiskTypeOK,
       storeVars, processVars, Visible
<1>9. CASE PutFlush
    BY <1>9, OpKey DEF PutFlush, TypeOK, OpInv, NameInv, EvidenceDurable, DiskTypeOK,
       Operations, NoOp, diskVars, storeVars, bounds, At, Writing, Visible, KeySteps
<1>10. CASE PutMakeParents
    BY <1>10, OpKey DEF PutMakeParents, MakeDirectory, TypeOK, OpInv, NameInv, EvidenceDurable,
       DiskTypeOK, Operations, NoOp, storeVars, bounds, At, Writing, Visible, KeySteps, Existence
<1>11. CASE PutRename
    BY <1>11, OpKey, SyncRootEffect DEF PutRename, Publish, TypeOK, OpInv, NameInv,
       EvidenceDurable, DiskTypeOK, Operations, NoOp, storeVars, bounds, At, Writing, Visible,
       KeySteps, Existence
<1>12. CASE PutSync
    BY <1>12, OpKey, SyncRootEffect, SyncDirectoryEffect DEF PutSync, SyncTemps, Fault, TypeOK, OpInv,
       NameInv, EvidenceDurable, DiskTypeOK, Operations, NoOp, storeVars, bounds, At, Writing,
       Visible, KeySteps
<1>13. CASE PutFail
    BY <1>13, OpKey, SyncRootEffect DEF PutFail, UnlinkTemp, Fault, TypeOK, OpInv, NameInv, EvidenceDurable,
       DiskTypeOK, Operations, NoOp, storeVars, bounds, At, Writing, Visible, KeySteps
<1>14. CASE Settle
    BY <1>14, OpKey, SyncRootEffect, SyncDirectoryEffect DEF Settle, SyncTemps, SyncedAudit, Sound, TypeOK,
       OpInv, NameInv, EvidenceDurable, DiskTypeOK, Operations, NoOp, storeVars, bounds, At,
       Writing, Visible, KeySteps
<1>15. CASE SettleFail
    BY <1>15 DEF SettleFail, Fault, TypeOK, OpInv, NameInv, EvidenceDurable, DiskTypeOK,
       Operations, NoOp, diskVars, storeVars, bounds, Writing, Visible
<1>16. CASE Kill
  <2>1. /\ identity' \in BOOLEAN /\ mounted' \in BOOLEAN
        /\ open' \in BOOLEAN /\ cleaned' \in BOOLEAN
      BY <1>16, Zenon DEF Kill, Stopped, TypeOK, storeVars
  <2> QED
      BY <1>16, <2>1 DEF Kill, Stopped, TypeOK, OpInv, NameInv, EvidenceDurable, DiskTypeOK, Operations,
         NoOp, diskVars, Writing, Visible
<1>17. CASE PowerLoss
  <2>1. /\ identity' \in BOOLEAN /\ mounted' \in BOOLEAN
        /\ open' \in BOOLEAN /\ cleaned' \in BOOLEAN
      BY <1>17, Zenon DEF PowerLoss, Stopped, TypeOK, storeVars
  <2> QED
      BY <1>17, <2>1 DEF PowerLoss, PowerCut, Stopped, TypeOK, OpInv, NameInv, EvidenceDurable,
         DiskTypeOK, Operations, NoOp, Writing, Visible, Existence
<1>18. CASE Unmount
  <2>1. /\ identity' \in BOOLEAN /\ mounted' \in BOOLEAN
        /\ open' \in BOOLEAN /\ cleaned' \in BOOLEAN
      BY <1>18, Zenon DEF Unmount, processVars, TypeOK, storeVars
  <2> QED
      BY <1>18, <2>1 DEF Unmount, Fault, TypeOK, OpInv, NameInv, EvidenceDurable, DiskTypeOK, diskVars,
         processVars, Visible
<1>19. CASE Mount
    BY <1>19 DEF Mount, TypeOK, OpInv, NameInv, EvidenceDurable, DiskTypeOK, diskVars,
       processVars, bounds, Visible
<1>20. CASE CleanupFail
  <2>1. /\ identity' \in BOOLEAN /\ mounted' \in BOOLEAN
        /\ open' \in BOOLEAN /\ cleaned' \in BOOLEAN
      BY <1>20, Zenon DEF CleanupFail, processVars, TypeOK, storeVars
  <2>2. temps' \in Nat /\ removed' \in Nat /\ returned' \in Nat
      BY <1>20 DEF CleanupFail, TypeOK
  <2>3. op.pc = "idle"
      BY <1>20 DEF CleanupFail, At
  <2>4. TypeOK'
    <3>1. Fault /\ UNCHANGED <<diskVars, marker, op, evidence>>
        BY <1>20, Zenon DEF CleanupFail, storeVars, processVars
    <3> QED
        BY <2>1, <2>2, <3>1 DEF Fault, TypeOK, DiskTypeOK, diskVars
  <2>5. OpInv'
      BY <1>20, <2>3 DEF CleanupFail, OpInv, processVars, Writing
  <2>6. NameInv' /\ EvidenceDurable'
      BY <1>20 DEF CleanupFail, NameInv, EvidenceDurable, diskVars, storeVars, Visible
  <2> QED
      BY <2>4, <2>5, <2>6
<1>21. CASE UNCHANGED vars
    BY <1>21 DEF vars, TypeOK, OpInv, NameInv, EvidenceDurable, DiskTypeOK, diskVars, storeVars,
       processVars, bounds, Visible
<1> QED
    BY <1>1, <1>2, <1>3, <1>4, <1>5, <1>6, <1>7, <1>8, <1>9, <1>10, <1>11, <1>12, <1>13, <1>14,
       <1>15, <1>16, <1>17, <1>18, <1>19, <1>20, <1>21 DEF Next, PutStep

-----------------------------------------------------------------------------
(* Invariants.                                                              *)

\* The inductive invariant holds for every set of keys and directories and
\* every number of failing calls, process deaths and power cuts.
THEOREM Invariance == Spec => []IInv
BY InitIInv, NextIInv, PTL DEF Spec

\* Every variable of the store keeps its type.
THEOREM TypeCorrect == Spec => []TypeOK
BY Invariance, PTL DEF IInv

\* PutOpenFile, Audit and InitializeFilesystem: what a caller was told is
\* durable, and no crash takes it back.
THEOREM Evidence == Spec => []EvidenceDurable
BY Invariance, PTL DEF IInv

-----------------------------------------------------------------------------
(* The store implements ImmutableObjects.                                   *)

\* The empty store is the abstract empty store.
LEMMA InitRefines == Init => Objects!Init
BY DEF Init, DiskInit, Objects!Init, SlotOf, Visible

\* Steps that change neither names nor bytes nor evidence are invisible.
LEMMA SlotsKept ==
    ASSUME \A k \in Keys : Visible(k)' <=> Visible(k), rotten' = rotten
    PROVE  SlotOf' = SlotOf
BY DEF SlotOf

\* An audit or an acknowledged put is the abstract acknowledgement.
LEMMA AcknowledgeRefines ==
    ASSUME NEW k \in Keys, Sound(k), SlotOf' = SlotOf, evidence' = evidence \cup {k}
    PROVE  Objects!Next
BY DEF Sound, SlotOf, Objects!Next, Objects!Acknowledge

\* Every step of the store is a step of the abstract one or invisible to it.
LEMMA NextRefines ==
    IInv /\ [Next]_vars => [Objects!Next]_<<SlotOf, evidence>>
<1> SUFFICES ASSUME IInv, [Next]_vars, ~(UNCHANGED <<SlotOf, evidence>>)
             PROVE  Objects!Next
    OBVIOUS
<1> USE DiskAssumption DEF IInv
<1>1. ASSUME UNCHANGED <<entry, rotten, evidence>> PROVE FALSE
    BY <1>1 DEF SlotOf, Visible
<1>2. ASSUME NEW k \in Keys, Audit(k) PROVE Objects!Next
  <2>1. SlotOf' = SlotOf
      BY <1>2, SyncDirectoryEffect, SlotsKept DEF Audit, SyncedAudit, TypeOK, DiskTypeOK
  <2> QED
      BY <1>2, <2>1, AcknowledgeRefines DEF Audit
<1>3. ASSUME NEW k \in Keys, DecayObject(k) PROVE Objects!Next
  <2>1. SlotOf[k] = "intact" /\ SlotOf' = [SlotOf EXCEPT ![k] = "decayed"]
      BY <1>3, Zenon DEF DecayObject, Rot, SlotOf, Visible
  <2> QED
      BY <1>3, <2>1, Zenon DEF DecayObject, Objects!Next, Objects!Decay
<1>4. CASE PutRename
  <2>1. op.key \in Keys /\ ~Visible(op.key)
      BY <1>4, OpKey DEF PutRename, At, TypeOK, OpInv, Writing, KeySteps
  <2>2. SlotOf[op.key] = "free" /\ SlotOf' = [SlotOf EXCEPT ![op.key] = "intact"]
      BY <1>4, <2>1 DEF PutRename, Publish, SlotOf, Visible, TypeOK, DiskTypeOK
  <2> QED
      BY <1>4, <2>1, <2>2, Zenon DEF PutRename, Objects!Next, Objects!Create
<1>5. CASE PutSync
  <2>1. op.key \in Keys /\ Visible(op.key)
      BY <1>5, OpKey DEF PutSync, At, TypeOK, OpInv, KeySteps
  <2>2. SlotOf' = SlotOf
      BY <1>5, <2>1, SyncDirectoryEffect, SlotsKept DEF PutSync, TypeOK, DiskTypeOK, Visible
  <2>3. op.key \notin rotten /\ evidence' = evidence \cup {op.key}
      BY <1>5, <2>2 DEF PutSync
  <2> QED
      BY <2>1, <2>2, <2>3, AcknowledgeRefines DEF Sound
<1>6. CASE Settle
  <2>1. op.key \in Keys
      BY <1>6, OpKey DEF Settle, At, TypeOK, KeySteps
  <2>2. SlotOf' = SlotOf
      BY <1>6, <2>1, SyncDirectoryEffect, SlotsKept
      DEF Settle, SyncedAudit, TypeOK, DiskTypeOK, Visible
  <2>3. Sound(op.key) /\ evidence' = evidence \cup {op.key}
      BY <1>6, <2>2 DEF Settle
  <2> QED
      BY <2>1, <2>2, <2>3, AcknowledgeRefines
<1>7. CASE PowerLoss
  <2>1. \A k \in Keys : \/ Visible(k)' /\ Visible(k) /\ (k \in rotten' <=> k \in rotten)
                        \/ ~Visible(k)'
      BY <1>7 DEF PowerLoss, PowerCut, NameInv, Visible, TypeOK, DiskTypeOK, Existence
  <2>2. \A k \in evidence : Visible(k)'
      BY <1>7 DEF PowerLoss, PowerCut, EvidenceDurable, Visible, TypeOK
  <2>3. evidence' = evidence
      BY <1>7 DEF PowerLoss, Stopped
  <2>4. \A k \in Keys : \/ SlotOf'[k] = SlotOf[k]
                        \/ k \notin evidence /\ SlotOf[k] # "free" /\ SlotOf'[k] = "free"
      BY <2>1, <2>2 DEF SlotOf
  <2> QED
      BY <2>3, <2>4 DEF Objects!Next, Objects!PowerCut, SlotOf
<1>8. CASE InitBegin \/ InitPublish \/ InitSync \/ OpenFilesystem \/ Close
    BY <1>8, <1>1 DEF InitBegin, InitPublish, InitSync, OpenFilesystem, Close, diskVars
<1>9. CASE PutFlush \/ PutMakeParents \/ PutFail \/ SettleFail \/ CleanupFail
    BY <1>9, <1>1 DEF PutFlush, PutMakeParents, PutFail, SettleFail, CleanupFail, diskVars
<1>10. CASE Kill \/ Unmount \/ Mount \/ UNCHANGED vars
    BY <1>10, <1>1 DEF Kill, Stopped, Unmount, Mount, vars, diskVars
<1>11. ASSUME NEW k \in Keys, PutStart(k) PROVE Objects!Next
    BY <1>11, <1>1 DEF PutStart
<1> QED
    BY <1>2, <1>3, <1>4, <1>5, <1>6, <1>7, <1>8, <1>9, <1>10, <1>11 DEF Next, PutStep

\* The filesystem mirror is the immutable object store its callers rely on.
THEOREM Implementation == Spec => ImplementsImmutableObjects
BY InitRefines, NextRefines, Invariance, PTL DEF Spec, ImplementsImmutableObjects, Objects!Spec

-----------------------------------------------------------------------------
(* The space reserve.                                                       *)

Names == {k \in Keys : Visible(k)}

\* There are finitely many names, and Used counts them.
LEMMA NamesFinite == IsFiniteSet(Names) /\ Used = Cardinality(Names) /\ Used \in Nat
BY StoreAssumption, FS_Subset, FS_CardinalityType DEF Names, Used

\* Steps that leave the names alone leave the space they use alone.
LEMMA UsedKept ==
    ASSUME \A k \in Keys : Visible(k)' <=> Visible(k)
    PROVE  Used' = Used
BY DEF Used

\* A rename turns a temporary file into a name.
LEMMA UsedGrows ==
    ASSUME TypeOK, NEW k \in Keys, ~Visible(k), entry' = [entry EXCEPT ![k] = "visible"]
    PROVE  Used' = Used + 1
<1>1. Names' = Names \cup {k} /\ k \notin Names
    BY DEF Names, Visible, TypeOK, DiskTypeOK
<1>2. Used' = Cardinality(Names')
    BY DEF Used, Names
<1> QED
    BY <1>1, <1>2, NamesFinite, FS_AddElement

\* A power cut frees the space of the names it loses, at most for as many
\* temporary names as come back.
LEMMA UsedLost ==
    ASSUME \A k \in Keys : Visible(k)' => Visible(k)
    PROVE  LET lost == {k \in Keys : Visible(k) /\ entry'[k] = "absent"}
           IN  Cardinality(lost) \in Nat /\ Used' = Used - Cardinality(lost)
<1> DEFINE lost == {k \in Keys : Visible(k) /\ entry'[k] = "absent"}
<1>1. Names' = Names \ lost /\ Names \cap lost = lost
    BY DEF Names, Visible
<1>2. Used' = Cardinality(Names')
    BY DEF Used, Names
<1>3. lost \in SUBSET Names
    BY DEF Names
<1>4. Cardinality(lost) \in Nat
    BY <1>3, NamesFinite, FS_Subset, FS_CardinalityType
<1>5. Cardinality(Names \ lost) = Cardinality(Names) - Cardinality(Names \cap lost)
    BY NamesFinite, FS_Difference, Zenon
<1> QED
    BY <1>1, <1>2, <1>4, <1>5, NamesFinite

\* Fewer names and no more temporary files leave as much free space.
LEMMA LessSpace ==
    \A u, v, s, t, r, c \in Nat :
        v <= u /\ t <= s /\ u + s + r <= c => v + t + r <= c
OBVIOUS

\* Space for a new file beside g others is space for it without them.
LEMMA RoomForOne ==
    \A u, t, g, r, c \in Nat :
        u + (t + g) + 1 + r <= c => u + (t + 1) + r <= c
OBVIOUS

LEMMA ReserveInit == Init => ReserveKept
<1> SUFFICES ASSUME Init PROVE ReserveKept
    OBVIOUS
<1>1. Names = {}
    BY DEF Init, DiskInit, Names, Visible
<1> QED
    BY <1>1, NamesFinite, FS_EmptySet, StoreAssumption DEF Init, ReserveKept

LEMMA ReserveStep == IInv /\ ReserveKept /\ [Next]_vars => ReserveKept'
<1> SUFFICES ASSUME IInv, ReserveKept, [Next]_vars PROVE ReserveKept'
    OBVIOUS
<1>1. Capacity \in Nat /\ Reserve \in Nat /\ Reserve < Capacity /\ Used \in Nat /\ temps \in Nat /\ returned \in Nat
    BY StoreAssumption, NamesFinite DEF IInv, TypeOK
<1>2. ASSUME Used' = Used, temps' \in Nat, temps' <= temps PROVE ReserveKept'
  <2>1. Used' \in Nat /\ Used' <= Used /\ temps' \in Nat /\ temps' <= temps
      BY <1>1, <1>2
  <2>2. Used + temps + Reserve <= Capacity
      BY DEF ReserveKept
  <2>3. Used' + temps' + Reserve <= Capacity
      BY <1>1, <2>1, <2>2, LessSpace, Zenon
  <2> QED
      BY <2>3 DEF ReserveKept
<1>3. ASSUME UNCHANGED entry PROVE Used' = Used
    BY <1>3, UsedKept DEF Visible
<1>4. temps' \in Nat /\ returned' \in Nat
    BY NextIInv DEF IInv, TypeOK
<1>5. CASE InitBegin
  <2>1. Names = {}
      BY <1>5, DiskAssumption DEF InitBegin, EmptyRoot, IInv, NameInv, Names
  <2>2. Used' = 0
      BY <1>3, <1>5, <2>1, NamesFinite, FS_EmptySet DEF InitBegin, diskVars
  <2> QED
      BY <1>1, <1>5, <2>2 DEF InitBegin, CreateTemp, EmptyRoot, ReserveKept
<1>6. ASSUME NEW k \in Keys, PutStart(k) PROVE ReserveKept'
  <2>1. Used' = Used
      BY <1>3, <1>6 DEF PutStart
  <2>2. cleanupTemps \in Nat /\ cleanupTemps <= temps
      BY <1>1 DEF cleanupTemps
  <2>3. CASE temps' = cleanupTemps + 1 /\ RequireCapacity(cleanupTemps + returned')
    <3>1. Used + (cleanupTemps + returned') + 1 + Reserve <= Capacity
        BY <2>3 DEF RequireCapacity
    <3>2. Used + (cleanupTemps + 1) + Reserve <= Capacity
        BY <1>1, <1>4, <2>2, <3>1, RoomForOne, Zenon
    <3> QED
        BY <2>1, <2>3, <3>2, Zenon DEF ReserveKept
  <2>4. CASE temps' = temps \/ temps' = cleanupTemps
      BY <1>1, <1>2, <1>4, <2>1, <2>2, <2>4
  <2> QED
      BY <1>6, <2>3, <2>4 DEF PutStart, tempVars
<1>7. CASE PutRename
  <2>1. op.key \in Keys /\ ~Visible(op.key)
      BY <1>7, OpKey DEF PutRename, At, IInv, TypeOK, OpInv, Writing, KeySteps
  <2>2. Used' = Used + 1
      BY <1>7, <2>1, UsedGrows, Zenon DEF PutRename, Publish, IInv
  <2> QED
      BY <1>1, <1>4, <1>7, <2>2 DEF PutRename, ReserveKept
<1>8. CASE PowerLoss
  <2> DEFINE lost == {k \in Keys : Visible(k) /\ entry'[k] = "absent"}
  <2>1. \A k \in Keys : Visible(k)' => Visible(k)
      BY <1>8 DEF PowerLoss, PowerCut, Visible
  <2>2. Cardinality(lost) \in Nat /\ Used' = Used - Cardinality(lost)
      BY <2>1, UsedLost
  <2>3. temps' <= temps + Cardinality(lost)
      BY <1>1, <1>8, <2>2 DEF PowerLoss
  <2> HIDE DEF lost
  <2> QED
      BY <1>1, <1>4, <2>2, <2>3 DEF ReserveKept
<1>9. CASE PutSync \/ Settle \/ \E k \in Keys : Audit(k)
  <2>1. At("renamed") \/ At("settle") => op.key \in Keys
      BY OpKey DEF At, IInv, TypeOK, KeySteps
  <2>2. \A k \in Keys : Visible(k)' <=> Visible(k)
      BY <1>9, <2>1, SyncDirectoryEffect, DiskAssumption
      DEF PutSync, Settle, Audit, SyncedAudit, IInv, TypeOK, DiskTypeOK, Visible
  <2> QED
      BY <1>1, <1>2, <1>4, <1>9, <2>2, UsedKept
      DEF PutSync, Settle, Audit, SyncedAudit, SyncTemps, tempVars
<1>10. CASE InitPublish \/ InitSync \/ OpenFilesystem \/ Close
    BY <1>1, <1>2, <1>3, <1>4, <1>10 
    DEF InitPublish, InitSync, OpenFilesystem, Close, UnlinkTemp, SyncTemps, tempVars, diskVars
<1>11. CASE PutFlush \/ PutMakeParents \/ PutFail \/ SettleFail \/ CleanupFail
    BY <1>1, <1>2, <1>3, <1>4, <1>11
    DEF PutFlush, PutMakeParents, PutFail, SettleFail, CleanupFail, UnlinkTemp, tempVars, diskVars
<1>12. CASE Kill \/ Unmount \/ Mount \/ UNCHANGED vars \/ \E k \in Keys : DecayObject(k)
    BY <1>1, <1>2, <1>3, <1>4, <1>12
    DEF Kill, Unmount, Mount, DecayObject, Rot, vars, tempVars, diskVars
<1> QED
    BY <1>5, <1>6, <1>7, <1>8, <1>9, <1>10, <1>11, <1>12 DEF Next, PutStep

\* PutOpenFile's capacity check: the store never eats into its reserve,
\* whatever temporary files failures and crashes leave behind, apart from
\* those a power loss brings back after their removal.
THEOREM Reserved == Spec => []ReserveKept
BY ReserveInit, ReserveStep, Invariance, PTL DEF Spec
=============================================================================
