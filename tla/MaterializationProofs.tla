------------------------ MODULE MaterializationProofs ------------------------
(***************************************************************************)
(* The safety properties of Materialization, for any commits, any number of *)
(* blobs and any number of crashes.                                         *)
(***************************************************************************)
EXTENDS Materialization, TLAPS

-----------------------------------------------------------------------------
(* The inductive invariant.                                                 *)

Replaying == {"blobs", "blobSync", "ref", "index", "indexSync"}
Resetting == {"resetHead", "resetIndex", "resetSync", "resetClear"}
Durable == intent # NoIntent /\ intentDisk = {intent}

\* Which intents a power loss may leave, and from where they can be replayed.
\* Outside a replay of an intent not yet durable, the head is at one end of
\* every one of them; during an initial publication there is only the one
\* that creates the branch.
IntentInv ==
    /\ intent \in intentDisk
    /\ intentDisk = {intent} \/ NoIntent \in intentDisk
    /\ \A i \in intentDisk : i = NoIntent \/
           /\ preparing => i = [target |-> Genesis, expected |-> NoCommit]
           /\ exposed = "no" => head \in {i.expected, i.target}
    /\ intent # NoIntent => head \in {intent.expected, intent.target}
    /\ pc \in {"ready", "sync"} \cup Resetting => intent = NoIntent
    /\ pc \in {"record", "clear"} \cup Replaying => intent # NoIntent
    /\ pc \in {"clear"} \cup Replaying => moving = intent
    /\ pc \in Replaying /\ exposed = "no" => intentDisk = {intent}
    /\ pc = "clear" => intentDisk = {intent}
    /\ exposed = "replaying" => pc \in {"down"} \cup Replaying /\ intent # NoIntent

\* How far a move has come.
MovingInv ==
    /\ pc \in {"blobs", "blobSync", "ref"} => head = current
    /\ pc \in {"index", "indexSync", "clear"} => head = moving.target
    /\ pc = "blobs" =>
           \A b \in 1 .. written :
               /\ work[b] = moving.target
               /\ moving.target # NoCommit => workDisk[b] = {moving.target}
    /\ pc = "blobSync" =>
           /\ moving.target # NoCommit
           /\ \A b \in 1 .. (written + 1) : work[b] = moving.target
    /\ pc \in {"ref", "index", "indexSync", "clear"} =>
           \A b \in Blobs : work[b] = moving.target /\ workDisk[b] = {moving.target}
    /\ pc \in {"indexSync", "clear"} => index = moving.target
    /\ pc = "clear" => indexDisk = {moving.target}

\* An initial reset concerns only the branch its publication created.
ResetInv ==
    /\ resetting => preparing
    /\ preparing => head \in {Genesis, NoCommit}
    /\ pc \in Resetting => resetting
    /\ pc \in {"resetIndex", "resetSync", "resetClear"} => head = NoCommit
    /\ pc \in {"resetSync", "resetClear"} => index = NoCommit
    /\ pc = "resetClear" => indexDisk = {NoCommit}

\* Without a durable record of work to do, the pieces of the checkout agree,
\* and a power loss leaves them so.
SettledInv ==
    exposed = "no" /\ ~resetting /\ ~Durable =>
        /\ index = head /\ indexDisk = {head}
        /\ head # NoCommit =>
               \A b \in Blobs : work[b] = head /\ workDisk[b] = {head}

\* A move is made of an intent that was read, blob by blob.
HoldsIntent ==
    /\ pc \in {"clear"} \cup Replaying => moving # NoIntent
    /\ pc = "blobSync" => written < NumBlobs

\* The first always, the others as long as no intent was lost during its
\* replay.
IInv ==
    /\ TypeOK
    /\ HoldsIntent
    /\ exposed # "lost" => IntentInv /\ MovingInv /\ ResetInv /\ SettledInv

-----------------------------------------------------------------------------
(* Every step preserves it.                                                 *)

\* The absent intent is not the intent of any move.
LEMMA NoIntentNotIntent == NoIntent \notin Intents
BY MaterializationAssumption DEF NoIntent, Intents, Targets

\* The initial preparation satisfies the invariant.
LEMMA InitIInv == Init => IInv
<1> SUFFICES ASSUME Init PROVE IInv
    OBVIOUS
<1>1. TypeOK
    <2>1. work \in [Blobs -> Contents] /\ workDisk \in [Blobs -> SUBSET Contents]
        BY DEF Init, Contents
    <2>2. written \in 0 .. NumBlobs /\ crashes \in 0 .. MaxCrashes
        BY MaterializationAssumption DEF Init
    <2>3. preparing \in BOOLEAN /\ resetting \in BOOLEAN
        BY Zenon DEF Init
    <2> QED
        BY <2>1, <2>2, <2>3 DEF Init, TypeOK, Targets, Steps
<1>2. HoldsIntent /\ IntentInv /\ MovingInv /\ ResetInv /\ SettledInv
    BY DEF Init, HoldsIntent, IntentInv, MovingInv, ResetInv, SettledInv, Replaying, Resetting, Durable
<1> QED
    BY <1>1, <1>2 DEF IInv

\* A lost intent stays lost: no step clears the observation.
LEMMA LostStays ==
    ASSUME TypeOK, [Next]_vars, exposed' # "lost"
    PROVE  exposed # "lost"
<1> USE DEF TypeOK, tree, git, records, local
<1>1. CASE OpenLocked
    BY <1>1 DEF OpenLocked, StartMoving
<1>2. CASE RecordIntent
    BY <1>2 DEF RecordIntent, StartMoving, SyncGit
<1>3. CASE WriteBlob
    BY <1>3 DEF WriteBlob, SetBlob
<1>4. CASE SyncBlob
    BY <1>4 DEF SyncBlob, SyncWork
<1>5. CASE RemoveBlob
    BY <1>5 DEF RemoveBlob, SetBlob
<1>6. CASE FinishBlobs
    BY <1>6 DEF FinishBlobs, SyncWork
<1>7. CASE UpdateRef
    BY <1>7 DEF UpdateRef
<1>8. CASE ReadTree
    BY <1>8 DEF ReadTree, SetIndex
<1>9. CASE ResetIndex
    BY <1>9 DEF ResetIndex, SyncGit
<1>10. CASE RemoveIntent
    BY <1>10 DEF RemoveIntent, SetIntent
<1>11. CASE SyncIntent
    BY <1>11 DEF SyncIntent, SyncGit
<1>12. ASSUME NEW target \in Targets, NEW expected \in Targets,
              ApplyCommit(target, expected)
       PROVE  exposed # "lost"
    BY <1>12 DEF ApplyCommit, SetIntent, Intents
<1>13. CASE StartInitialReset
    BY <1>13 DEF StartInitialReset
<1>14. CASE ResetHead
    BY <1>14 DEF ResetHead
<1>15. CASE EmptyIndex
    BY <1>15 DEF EmptyIndex, SetIndex
<1>16. CASE SyncEmptyIndex
    BY <1>16 DEF SyncEmptyIndex, SyncGit
<1>17. CASE FinishInitialReset
    BY <1>17 DEF FinishInitialReset
<1>18. CASE FinishPreparation
    BY <1>18 DEF FinishPreparation
<1>19. CASE Close
    BY <1>19 DEF Close
<1>20. CASE Crash
    BY <1>20 DEF Crash
<1>21. CASE PowerLoss
    BY <1>21 DEF PowerLoss
<1>22. CASE UNCHANGED vars
    BY <1>22 DEF vars
<1> QED
    BY <1>1, <1>2, <1>3, <1>4, <1>5, <1>6, <1>7, <1>8, <1>9, <1>10, <1>11,
       <1>12, <1>13, <1>14, <1>15, <1>16, <1>17, <1>18, <1>19, <1>20, <1>21, <1>22 DEF Next, Recovery

\* Every step of RecoverMaterialization and reset keeps the types.
LEMMA TypeStep ==
    ASSUME TypeOK, HoldsIntent, [Next]_vars
    PROVE  (TypeOK /\ HoldsIntent)'
<1> USE MaterializationAssumption, NoIntentNotIntent DEF TypeOK, HoldsIntent, Replaying, NoIntent, Blobs, Targets, Contents, Steps, Intents, tree, git, records, local
<1>1. CASE OpenLocked
    BY <1>1 DEF OpenLocked, StartMoving
<1>2. CASE RecordIntent
    BY <1>2 DEF RecordIntent, StartMoving, SyncGit
<1>3. CASE WriteBlob
    BY <1>3 DEF WriteBlob, SetBlob
<1>4. CASE SyncBlob
    BY <1>4 DEF SyncBlob, SyncWork
<1>5. CASE RemoveBlob
    BY <1>5 DEF RemoveBlob, SetBlob
<1>6. CASE FinishBlobs
    BY <1>6 DEF FinishBlobs, SyncWork
<1>7. CASE UpdateRef
    BY <1>7 DEF UpdateRef
<1>8. CASE ReadTree
    BY <1>8 DEF ReadTree, SetIndex
<1>9. CASE ResetIndex
    BY <1>9 DEF ResetIndex, SyncGit
<1>10. CASE RemoveIntent
    BY <1>10 DEF RemoveIntent, SetIntent
<1>11. CASE SyncIntent
    BY <1>11 DEF SyncIntent, SyncGit
<1>12. ASSUME NEW target \in Targets, NEW expected \in Targets,
              ApplyCommit(target, expected)
       PROVE  (TypeOK /\ HoldsIntent)'
    BY <1>12 DEF ApplyCommit, SetIntent, Intents
<1>13. CASE StartInitialReset
    BY <1>13 DEF StartInitialReset
<1>14. CASE ResetHead
    BY <1>14 DEF ResetHead
<1>15. CASE EmptyIndex
    BY <1>15 DEF EmptyIndex, SetIndex
<1>16. CASE SyncEmptyIndex
    BY <1>16 DEF SyncEmptyIndex, SyncGit
<1>17. CASE FinishInitialReset
    BY <1>17, ZenonT(40) DEF FinishInitialReset
<1>18. CASE FinishPreparation
    BY <1>18, ZenonT(40) DEF FinishPreparation
<1>19. CASE Close
    BY <1>19 DEF Close
<1>20. CASE Crash
    BY <1>20 DEF Crash
<1>21. CASE PowerLoss
    BY <1>21 DEF PowerLoss
<1>22. CASE UNCHANGED vars
    BY <1>22, SMTT(30) DEF vars
<1> QED
    BY <1>1, <1>2, <1>3, <1>4, <1>5, <1>6, <1>7, <1>8, <1>9, <1>10, <1>11,
       <1>12, <1>13, <1>14, <1>15, <1>16, <1>17, <1>18, <1>19, <1>20, <1>21, <1>22, ZenonT(60) DEF Next, Recovery

\* No step leaves an intent that could not be replayed.
LEMMA IntentStep ==
    ASSUME TypeOK, HoldsIntent, exposed # "lost", IntentInv, MovingInv, ResetInv, SettledInv,
           [Next]_vars, exposed' # "lost"
    PROVE  IntentInv'
<1> USE MaterializationAssumption, NoIntentNotIntent DEF TypeOK, Blobs, Targets, Contents, Steps, tree, git, records, local, Replaying, Resetting, IntentInv, MovingInv, ResetInv
<1>1. CASE OpenLocked
    BY <1>1 DEF OpenLocked, StartMoving
<1>2. CASE RecordIntent
    BY <1>2 DEF RecordIntent, StartMoving, SyncGit
<1>3. CASE WriteBlob
    BY <1>3 DEF WriteBlob, SetBlob
<1>4. CASE SyncBlob
    BY <1>4 DEF SyncBlob, SyncWork
<1>5. CASE RemoveBlob
    BY <1>5 DEF RemoveBlob, SetBlob
<1>6. CASE FinishBlobs
    BY <1>6 DEF FinishBlobs, SyncWork
<1>7. CASE UpdateRef
    BY <1>7 DEF UpdateRef
<1>8. CASE ReadTree
    BY <1>8 DEF ReadTree, SetIndex
<1>9. CASE ResetIndex
    BY <1>9 DEF ResetIndex, SyncGit
<1>10. CASE RemoveIntent
    BY <1>10 DEF RemoveIntent, SetIntent
<1>11. CASE SyncIntent
    BY <1>11 DEF SyncIntent, SyncGit
<1>12. ASSUME NEW target \in Targets, NEW expected \in Targets,
              ApplyCommit(target, expected)
       PROVE  IntentInv'
    BY <1>12, SMTT(30) DEF ApplyCommit, SetIntent, Intents
<1>13. CASE StartInitialReset
    BY <1>13 DEF StartInitialReset
<1>14. CASE ResetHead
    BY <1>14 DEF ResetHead
<1>15. CASE EmptyIndex
    BY <1>15 DEF EmptyIndex, SetIndex
<1>16. CASE SyncEmptyIndex
    BY <1>16 DEF SyncEmptyIndex, SyncGit
<1>17. CASE FinishInitialReset
    BY <1>17 DEF FinishInitialReset
<1>18. CASE FinishPreparation
    BY <1>18 DEF FinishPreparation
<1>19. CASE Close
    BY <1>19 DEF Close
<1>20. CASE Crash
    BY <1>20 DEF Crash
<1>21. CASE PowerLoss
    BY <1>21 DEF PowerLoss
<1>22. CASE UNCHANGED vars
    BY <1>22, SMTT(30) DEF vars
<1> QED
    BY <1>1, <1>2, <1>3, <1>4, <1>5, <1>6, <1>7, <1>8, <1>9, <1>10, <1>11,
       <1>12, <1>13, <1>14, <1>15, <1>16, <1>17, <1>18, <1>19, <1>20, <1>21, <1>22, ZenonT(60) DEF Next, Recovery

\* Each step of a move builds on what the earlier ones left.
LEMMA MovingStep ==
    ASSUME TypeOK, HoldsIntent, exposed # "lost", IntentInv, MovingInv, ResetInv, SettledInv,
           [Next]_vars, exposed' # "lost"
    PROVE  MovingInv'
<1> USE MaterializationAssumption, NoIntentNotIntent DEF TypeOK, Blobs, Targets, Contents, Steps, tree, git, records, local, Replaying, Resetting, HoldsIntent, IntentInv, MovingInv
<1>1. CASE OpenLocked
    BY <1>1 DEF OpenLocked, StartMoving
<1>2. CASE RecordIntent
    BY <1>2 DEF RecordIntent, StartMoving, SyncGit
<1>3. CASE WriteBlob
    BY <1>3 DEF WriteBlob, SetBlob
<1>4. CASE SyncBlob
    BY <1>4, SMTT(30) DEF SyncBlob, SyncWork
<1>5. CASE RemoveBlob
    BY <1>5 DEF RemoveBlob, SetBlob
<1>6. CASE FinishBlobs
    BY <1>6 DEF FinishBlobs, SyncWork
<1>7. CASE UpdateRef
    BY <1>7 DEF UpdateRef
<1>8. CASE ReadTree
    BY <1>8 DEF ReadTree, SetIndex
<1>9. CASE ResetIndex
    BY <1>9 DEF ResetIndex, SyncGit
<1>10. CASE RemoveIntent
    BY <1>10 DEF RemoveIntent, SetIntent
<1>11. CASE SyncIntent
    BY <1>11 DEF SyncIntent, SyncGit
<1>12. ASSUME NEW target \in Targets, NEW expected \in Targets,
              ApplyCommit(target, expected)
       PROVE  MovingInv'
    BY <1>12 DEF ApplyCommit, SetIntent, Intents
<1>13. CASE StartInitialReset
    BY <1>13 DEF StartInitialReset
<1>14. CASE ResetHead
    BY <1>14 DEF ResetHead
<1>15. CASE EmptyIndex
    BY <1>15 DEF EmptyIndex, SetIndex
<1>16. CASE SyncEmptyIndex
    BY <1>16 DEF SyncEmptyIndex, SyncGit
<1>17. CASE FinishInitialReset
    BY <1>17 DEF FinishInitialReset
<1>18. CASE FinishPreparation
    BY <1>18 DEF FinishPreparation
<1>19. CASE Close
    BY <1>19 DEF Close
<1>20. CASE Crash
    BY <1>20 DEF Crash
<1>21. CASE PowerLoss
    BY <1>21 DEF PowerLoss
<1>22. CASE UNCHANGED vars
    BY <1>22, SMTT(30) DEF vars
<1> QED
    BY <1>1, <1>2, <1>3, <1>4, <1>5, <1>6, <1>7, <1>8, <1>9, <1>10, <1>11,
       <1>12, <1>13, <1>14, <1>15, <1>16, <1>17, <1>18, <1>19, <1>20, <1>21, <1>22, ZenonT(60) DEF Next, Recovery

\* Only the branch of the initial publication is ever deleted.
LEMMA ResetStep ==
    ASSUME TypeOK, HoldsIntent, exposed # "lost", IntentInv, MovingInv, ResetInv, SettledInv,
           [Next]_vars, exposed' # "lost"
    PROVE  ResetInv'
<1> USE MaterializationAssumption, NoIntentNotIntent DEF TypeOK, Blobs, Targets, Contents, Steps, tree, git, records, local, Replaying, Resetting, IntentInv, MovingInv, ResetInv
<1>1. CASE OpenLocked
    BY <1>1 DEF OpenLocked, StartMoving
<1>2. CASE RecordIntent
    BY <1>2 DEF RecordIntent, StartMoving, SyncGit
<1>3. CASE WriteBlob
    BY <1>3 DEF WriteBlob, SetBlob
<1>4. CASE SyncBlob
    BY <1>4 DEF SyncBlob, SyncWork
<1>5. CASE RemoveBlob
    BY <1>5 DEF RemoveBlob, SetBlob
<1>6. CASE FinishBlobs
    BY <1>6 DEF FinishBlobs, SyncWork
<1>7. CASE UpdateRef
    BY <1>7 DEF UpdateRef
<1>8. CASE ReadTree
    BY <1>8 DEF ReadTree, SetIndex
<1>9. CASE ResetIndex
    BY <1>9 DEF ResetIndex, SyncGit
<1>10. CASE RemoveIntent
    BY <1>10 DEF RemoveIntent, SetIntent
<1>11. CASE SyncIntent
    BY <1>11 DEF SyncIntent, SyncGit
<1>12. ASSUME NEW target \in Targets, NEW expected \in Targets,
              ApplyCommit(target, expected)
       PROVE  ResetInv'
    BY <1>12 DEF ApplyCommit, SetIntent, Intents
<1>13. CASE StartInitialReset
    BY <1>13 DEF StartInitialReset
<1>14. CASE ResetHead
    BY <1>14 DEF ResetHead
<1>15. CASE EmptyIndex
    BY <1>15 DEF EmptyIndex, SetIndex
<1>16. CASE SyncEmptyIndex
    BY <1>16 DEF SyncEmptyIndex, SyncGit
<1>17. CASE FinishInitialReset
    BY <1>17 DEF FinishInitialReset
<1>18. CASE FinishPreparation
    BY <1>18 DEF FinishPreparation
<1>19. CASE Close
    BY <1>19 DEF Close
<1>20. CASE Crash
    BY <1>20 DEF Crash
<1>21. CASE PowerLoss
    BY <1>21 DEF PowerLoss
<1>22. CASE UNCHANGED vars
    BY <1>22, SMTT(30) DEF vars
<1> QED
    BY <1>1, <1>2, <1>3, <1>4, <1>5, <1>6, <1>7, <1>8, <1>9, <1>10, <1>11,
       <1>12, <1>13, <1>14, <1>15, <1>16, <1>17, <1>18, <1>19, <1>20, <1>21, <1>22, ZenonT(60) DEF Next, Recovery

\* A record is removed only when the pieces agree.
LEMMA SettledStep ==
    ASSUME TypeOK, HoldsIntent, exposed # "lost", IntentInv, MovingInv, ResetInv, SettledInv,
           [Next]_vars, exposed' # "lost"
    PROVE  SettledInv'
<1> USE MaterializationAssumption, NoIntentNotIntent DEF TypeOK, Blobs, Targets, Contents, Steps, tree, git, records, local, Replaying, Resetting, IntentInv, MovingInv, ResetInv, SettledInv, Durable
<1>1. CASE OpenLocked
    BY <1>1, SMTT(30) DEF OpenLocked, StartMoving
<1>2. CASE RecordIntent
    BY <1>2, SMTT(30) DEF RecordIntent, StartMoving, SyncGit
<1>3. CASE WriteBlob
    BY <1>3, SMTT(30) DEF WriteBlob, SetBlob
<1>4. CASE SyncBlob
    BY <1>4, SMTT(30) DEF SyncBlob, SyncWork
<1>5. CASE RemoveBlob
    BY <1>5 DEF RemoveBlob, SetBlob
<1>6. CASE FinishBlobs
    BY <1>6 DEF FinishBlobs, SyncWork
<1>7. CASE UpdateRef
    BY <1>7, SMTT(30) DEF UpdateRef
<1>8. CASE ReadTree
    BY <1>8, SMTT(30) DEF ReadTree, SetIndex
<1>9. CASE ResetIndex
    BY <1>9, SMTT(30) DEF ResetIndex, SyncGit
<1>10. CASE RemoveIntent
    BY <1>10 DEF RemoveIntent, SetIntent
<1>11. CASE SyncIntent
    BY <1>11, SMTT(30) DEF SyncIntent, SyncGit
<1>12. ASSUME NEW target \in Targets, NEW expected \in Targets,
              ApplyCommit(target, expected)
       PROVE  SettledInv'
    BY <1>12, SMTT(30) DEF ApplyCommit, SetIntent, Intents
<1>13. CASE StartInitialReset
    BY <1>13, SMTT(30) DEF StartInitialReset
<1>14. CASE ResetHead
    BY <1>14, SMTT(30) DEF ResetHead
<1>15. CASE EmptyIndex
    BY <1>15, SMTT(30) DEF EmptyIndex, SetIndex
<1>16. CASE SyncEmptyIndex
    BY <1>16, SMTT(30) DEF SyncEmptyIndex, SyncGit
<1>17. CASE FinishInitialReset
    BY <1>17, SMTT(30) DEF FinishInitialReset
<1>18. CASE FinishPreparation
    BY <1>18, SMTT(30) DEF FinishPreparation
<1>19. CASE Close
    BY <1>19, SMTT(30) DEF Close
<1>20. CASE Crash
    BY <1>20, SMTT(30) DEF Crash
<1>21. CASE PowerLoss
    BY <1>21, SMTT(30) DEF PowerLoss
<1>22. CASE UNCHANGED vars
    BY <1>22 DEF vars
<1> QED
    BY <1>1, <1>2, <1>3, <1>4, <1>5, <1>6, <1>7, <1>8, <1>9, <1>10, <1>11,
       <1>12, <1>13, <1>14, <1>15, <1>16, <1>17, <1>18, <1>19, <1>20, <1>21, <1>22, ZenonT(60) DEF Next, Recovery

-----------------------------------------------------------------------------
(* The theorems.                                                            *)

\* IInv holds in every state of every behaviour.
THEOREM Invariance == Spec => []IInv
<1>1. Init => IInv
    BY InitIInv
<1>2. IInv /\ [Next]_vars => IInv'
    BY LostStays, TypeStep, IntentStep, MovingStep, ResetStep, SettledStep DEF IInv
<1> QED
    BY <1>1, <1>2, PTL DEF Spec

\* Type correctness.
THEOREM TypeCorrect == Spec => []TypeOK
<1>1. IInv => TypeOK
    BY Zenon DEF IInv
<1> QED
    BY <1>1, Invariance, PTL

\* ApplyCommit is one transition to every later command: when one may look at
\* the checkout, blobs, branch and index are at the same commit, unless a
\* power loss took an intent replayed before it was durable.
THEOREM Consistency == Spec => []CheckoutConsistent
<1>1. IInv => CheckoutConsistent
    BY SMTT(30) DEF IInv, TypeOK, IntentInv, SettledInv, Durable, CheckoutConsistent, CheckoutWhole, Whole
<1> QED
    BY <1>1, Invariance, PTL

\* With the same exception, RecoverMaterialization never meets a recorded
\* intent it has to refuse.
THEOREM Replayable == Spec => []RecoveryNeverStuck
<1>1. IInv => RecoveryNeverStuck
    BY Zenon DEF IInv, IntentInv, RecoveryNeverStuck
<1> QED
    BY <1>1, Invariance, PTL

\* A checkout whose pieces disagree is covered by a record that no power loss
\* takes away, unless a replay of an intent not yet durable is under way.
THEOREM TornRecorded == Spec => []TornIsRecorded
<1>1. IInv => TornIsRecorded
    BY Zenon DEF IInv, SettledInv, Durable, TornIsRecorded, Whole
<1> QED
    BY <1>1, Invariance, PTL
=============================================================================
