-------------------------- MODULE LifecycleProofs --------------------------
(***************************************************************************)
(* Theorems about GameServerLifecycle for any number of Backups, Restores  *)
(* and wipe requests, any number of pods of a Job, with and without        *)
(* graceful stops, evictions and container restarts.                       *)
(***************************************************************************)
EXTENDS GameServerLifecycle, TLAPS

-----------------------------------------------------------------------------
(* The type invariant by groups of variables.                              *)

GsOK ==
    /\ gs \in GameServer
    /\ gsFresh \subseteq {"pass"} \cup CR
    /\ down \in BOOLEAN

SsOK == ss \in StatefulSet /\ ssFresh \in BOOLEAN

PodOK ==
    /\ seen \in {0, 1}
    /\ game \in {"none", "up", "terminating"}
    /\ process \in [stopping: BOOLEAN, quiesced: BOOLEAN]
    /\ same \subseteq Backup

JobOK ==
    /\ job \in [Op -> {"none", "active", "succeeded", "failed", "deleting"}]
    /\ pods \in [Op -> 0..MaxPods]

CrOK ==
    /\ phase \in [CR -> Phase]
    /\ deleting \subseteq CR
    /\ bound \subseteq CR
    /\ pc \in [CR -> Pc]
    /\ copy \in [Backup -> Copy]

VolumeOK == volume \in {"whole", "partial", "accepted"}

UserOK == toggles \in 0..MaxToggles /\ asked \subseteq Token

Types == GsOK /\ SsOK /\ PodOK /\ JobOK /\ CrOK /\ VolumeOK /\ UserOK /\ WorkloadTypeOK

\* TypeOK is the conjunction of the groups.
LEMMA TypeGroups == TypeOK <=> Types /\ torn \subseteq Backup
  BY DEF TypeOK, ObjectsTypeOK, Types, GsOK, SsOK, PodOK, JobOK, CrOK, VolumeOK, UserOK

\* A group whose variables an action leaves alone keeps its type.
LEMMA Frame ==
  /\ UNCHANGED gsVars => (GsOK => GsOK')
  /\ UNCHANGED ssVars => (SsOK => SsOK')
  /\ UNCHANGED podVars => (PodOK => PodOK')
  /\ UNCHANGED jobVars => (JobOK => JobOK')
  /\ UNCHANGED crVars => (CrOK => CrOK')
  /\ UNCHANGED volume => (VolumeOK => VolumeOK')
  /\ UNCHANGED userVars => (UserOK => UserOK')
  /\ UNCHANGED passVars => (WorkloadTypeOK => WorkloadTypeOK')
  BY DEF gsVars, ssVars, podVars, jobVars, crVars, userVars, passVars, GsOK, SsOK, PodOK,
         JobOK, CrOK, VolumeOK, UserOK, WorkloadTypeOK

\* The initial state has the types.
LEMMA InitTypes == Init => Types
  <1> SUFFICES ASSUME Init PROVE Types
    OBVIOUS
  <1> USE DEF Init, ObjectsInit, WorkloadInit
  <1>1. GsOK
    BY Zenon DEF GsOK, GameServer, OpOrNone
  <1>2. NoFence \in Fence
    BY DEF NoFence, Fence, OpOrNone
  <1>3. SsOK
    BY <1>2, Zenon DEF SsOK, StatefulSet
  <1>4. PodOK
    BY DEF PodOK, NewProcess
  <1>5. JobOK
    BY ConstantsAssumption DEF JobOK
  <1>6. NoCopy \in Copy
    BY DEF NoCopy, Copy
  <1>7. CrOK
    BY <1>6 DEF CrOK, Phase, Pc
  <1>8. VolumeOK /\ UserOK
    BY ConstantsAssumption DEF VolumeOK, UserOK
  <1>9. WorkloadTypeOK
    <2>1. snap \in Snapshot
      BY DEF Snapshot, NoSnapshot, OpOrNone
    <2>2. next \in StatefulSet
      BY <1>2 DEF NoWorkload, StatefulSet
    <2>3. at \in Steps /\ want \in {0, 1}
      BY DEF Steps
    <2> QED
      BY <2>1, <2>2, <2>3 DEF WorkloadTypeOK
  <1> QED
    BY <1>1, <1>3, <1>4, <1>5, <1>7, <1>8, <1>9 DEF Types

-----------------------------------------------------------------------------
(* Every step keeps the types, component by component.                     *)

\* The pods of the game and of the Jobs keep their types.
LEMMA KubernetesTypes ==
  ASSUME Types, StatefulSetController \/ JobController, UNCHANGED passVars
  PROVE  Types'
  <1> USE DEF Types
  <1>1. CASE StatefulSetController
    <2>1. NewProcess \in [stopping: BOOLEAN, quiesced: BOOLEAN]
      BY DEF NewProcess
    <2>2. ASSUME StsObserve PROVE PodOK'
      BY <2>2 DEF StsObserve, PodOK, SsOK, StatefulSet
    <2>3. ASSUME StsCreatePod \/ StsDeletePod PROVE PodOK'
      BY <2>3 DEF StsCreatePod, StsDeletePod, PodOK
    <2>4. ASSUME GamePodGone \/ GameExits PROVE PodOK'
      BY <2>1, <2>4 DEF GamePodGone, GameExits, PodOK
    <2>5. PodOK'
      BY <1>1, <2>2, <2>3, <2>4 DEF StatefulSetController
    <2> QED
      BY <1>1, <2>5, Frame DEF StatefulSetController
  <1>2. CASE JobController
    <2>1. ASSUME NEW o \in Op, JobStartPod(o) \/ PodExit(o) \/ JobSucceed(o)
                        \/ JobFail(o) \/ JobDeleted(o) \/ JobCollected(o)
          PROVE  JobOK' /\ VolumeOK'
      <3>1. CASE JobStartPod(o)
        BY <3>1, ConstantsAssumption DEF JobStartPod, JobOK, VolumeOK
      <3>2. CASE PodExit(o)
        BY <3>2, ConstantsAssumption DEF PodExit, JobOK, VolumeOK
      <3>3. CASE JobSucceed(o)
        BY <3>3, ConstantsAssumption DEF JobSucceed, JobOK, VolumeOK
      <3>4. CASE JobFail(o) \/ JobDeleted(o) \/ JobCollected(o)
        BY <3>4 DEF JobFail, JobDeleted, JobCollected, JobOK, VolumeOK
      <3> QED
        BY <2>1, <3>1, <3>2, <3>3, <3>4
    <2>2. ASSUME NEW o \in Op, WorkerGone(o)
          PROVE  copy' \in [Backup -> Copy]
      <3>1. \A b \in Backup :
               [copy[b] EXCEPT !.gate = "empty", !.worker = "preparing"] \in Copy
        BY Zenon DEF CrOK, Copy
      <3> QED
        BY <2>2, <3>1, Zenon DEF WorkerGone, CrOK
    <2>3. ASSUME NEW o \in Op, JobStartPod(o) \/ PodExit(o) \/ JobSucceed(o)
                        \/ JobFail(o) \/ JobDeleted(o) \/ JobCollected(o)
          PROVE  copy' \in [Backup -> Copy]
      BY <2>2, <2>3 DEF JobStartPod, PodExit, JobSucceed, JobFail, JobDeleted, JobCollected,
                        CrOK
    <2>4. ASSUME NEW b \in Backup, WorkerReady(b) \/ WorkerStarts(b) \/ GateProjected(b)
          PROVE  JobOK' /\ VolumeOK' /\ copy' \in [Backup -> Copy]
      BY <2>4 DEF WorkerReady, WorkerStarts, GateProjected, JobOK, jobVars, VolumeOK, CrOK,
                  Copy
    <2>5. JobOK' /\ VolumeOK' /\ copy' \in [Backup -> Copy]
      BY <1>2, <2>1, <2>3, <2>4 DEF JobController
    <2>6. CrOK'
      BY <1>2, <2>5 DEF JobController, CrOK
    <2> QED
      BY <1>2, <2>5, <2>6, Frame DEF JobController
  <1> QED
    BY <1>1, <1>2

\* A request of a user keeps the types.
LEMMA UserTypes ==
  ASSUME Types, User, UNCHANGED passVars
  PROVE  Types'
  <1> USE DEF Types
  <1>1. CASE Power
    <2>1. GsOK'
      BY <1>1, Zenon DEF Power, Suspend, Resume, RequestRestart, UpdateGs, GsOK, GameServer
    <2>2. VolumeOK' /\ UserOK'
      BY <1>1, ConstantsAssumption
         DEF Power, Suspend, Resume, RequestRestart, VolumeOK, UserOK
    <2> QED
      BY <1>1, <2>1, <2>2, Frame DEF Power
  <1>2. CASE WipeRequest
    <2>1. GsOK'
      BY <1>2, Zenon DEF WipeRequest, CancelWipe, RequestWipe, UpdateGs, GsOK, GameServer
    <2>2. UserOK'
      BY <1>2, Zenon DEF WipeRequest, CancelWipe, RequestWipe, UserOK
    <2> QED
      BY <1>2, <2>1, <2>2, Frame DEF WipeRequest
  <1>3. CASE ObjectRequest
    <2>1. CrOK'
      BY <1>3 DEF ObjectRequest, Create, Delete, ForceDelete, CrOK, Phase
    <2> QED
      BY <1>3, <2>1, Frame DEF ObjectRequest
  <1> QED
    BY <1>1, <1>2, <1>3 DEF User

\* What the operations write into the shared objects has their types: the claim,
\* the owner's record and the workload without its fence.
LEMMA OperationValues ==
  ASSUME Types
  PROVE  /\ \A o \in Op : Claimed(o) \in GameServer
         /\ OwnerValue \in Fence /\ NoFence \in Fence
         /\ ClearFence(ss) \in StatefulSet
         /\ RestoreGuard \in Restore \cup {None} /\ WipeGuard \in Token \cup {None}
  <1> USE DEF Types
  <1>1. ASSUME NEW o \in Op PROVE Claimed(o) \in GameServer
    BY <1>1, Zenon DEF Claimed, GsOK, GameServer, OpOrNone
  <1>2. OwnerValue \in Fence /\ NoFence \in Fence
    BY DEF OwnerValue, NoFence, Fence, GsOK, GameServer, OpOrNone
  <1>3. ClearFence(ss) \in StatefulSet
    BY <1>2 DEF ClearFence, SsOK, StatefulSet
  <1>4. RestoreGuard \in Restore \cup {None} /\ WipeGuard \in Token \cup {None}
    BY DEF RestoreGuard, WipeGuard
  <1> QED
    BY <1>1, <1>2, <1>3, <1>4

\* A checked write of a well-typed GameServer or StatefulSet keeps the types.
LEMMA UpdateTypes ==
  /\ \A new, keep : GsOK /\ new \in GameServer /\ UpdateGs(new, keep) /\ UNCHANGED down => GsOK'
  /\ \A new : SsOK /\ new \in StatefulSet /\ UpdateSs(new) => SsOK'
  BY Zenon DEF GsOK, SsOK, UpdateGs, UpdateSs

\* Claiming the server keeps the types.
LEMMA ClaimTypes ==
  ASSUME Types, NEW o \in Op, NEW keep, Claim(o, keep), UNCHANGED passVars
  PROVE  Types'
  BY OperationValues, UpdateTypes, Frame DEF Claim, Types

\* Stamping the workload keeps the types.
LEMMA StampTypes ==
  ASSUME Types, StampRestoreGuard, UNCHANGED passVars
  PROVE  Types'
  <1>1. [ss EXCEPT !.restore = RestoreGuard] \in StatefulSet
    BY OperationValues DEF Types, SsOK, StatefulSet
  <1> QED
    BY <1>1, UpdateTypes, Frame DEF StampRestoreGuard, Types

\* Cancelling workers keeps the types.
LEMMA CancelTypes ==
  ASSUME Types, NEW o \in Op, CancelWorkers(o), UNCHANGED passVars
  PROVE  Types'
  <1> USE DEF Types
  <1>1. CASE DeleteJob(o)
    <2>1. JobOK'
      BY <1>1 DEF DeleteJob, JobOK
    <2> QED
      BY <1>1, <2>1, Frame DEF DeleteJob
  <1>2. CASE o \in Backup /\ RevokeStart(o)
    <2>1. CrOK'
      BY <1>2 DEF RevokeStart, CrOK, Copy
    <2> QED
      BY <1>2, <2>1, Frame DEF RevokeStart
  <1> QED
    BY <1>1, <1>2 DEF CancelWorkers

\* The save-on call keeps the types.
LEMMA SaveOnTypes ==
  ASSUME Types, NEW b, SaveOn(b), UNCHANGED passVars
  PROVE  Types'
  <1>1. PodOK'
    BY Zenon DEF SaveOn, PodOK, Types
  <1> QED
    BY <1>1, Frame DEF SaveOn, Types

\* Recovering from a vanished operation keeps the types.
LEMMA RecoverTypes ==
  ASSUME Types, NEW keep, RecoverLifecycleOperation(keep), UNCHANGED passVars
  PROVE  Types'
  <1> gs.recovery \subseteq Op
    BY DEF Types, GsOK, GameServer
  <1>1. ASSUME FinishRecovery(keep) PROVE Types'
    <2>1. [gs EXCEPT !.recovery = {}, !.debt = @ \ gs.recovery] \in GameServer
      BY Zenon DEF Types, GsOK, GameServer
    <2> QED
      BY <1>1, <2>1, UpdateTypes, Frame DEF FinishRecovery, Types
  <1> QED
    BY <1>1, CancelTypes, StampTypes, SaveOnTypes DEF RecoverLifecycleOperation, StampForRecovery

\* A step of a Restore keeps the types.
LEMMA RestoreTypes ==
  ASSUME Types, Restoring, UNCHANGED passVars
  PROVE  Types'
  <1> USE DEF Types
  <1> PICK r \in Restore : RestoreWork(r) \/ RestoreCleanup(r) \/ GiveUp(r) \/ RestoreAborts(r)
    BY DEF Restoring
  <1>0. r \in CR /\ r \in Op
    BY DEF CR, Op
  <1>1. ASSUME PinSnapshot(r) \/ GiveUp(r) \/ StartRestore(r) \/ SucceedRestore(r) \/ FailRestore(r)
        PROVE  Types'
    <2>1. CrOK'
      BY <1>1 DEF PinSnapshot, GiveUp, StartRestore, SucceedRestore, FailRestore, SetPhase,
                  CrOK, Phase
    <2> QED
      BY <1>1, <2>1, Frame
         DEF PinSnapshot, GiveUp, StartRestore, SucceedRestore, FailRestore, KeepShared
  <1>2. ASSUME BindRestoreTarget(r) \/ RemoveFinalizer(r) PROVE Types'
    <2>1. CrOK'
      BY <1>0, <1>2 DEF BindRestoreTarget, RemoveFinalizer, CrOK, Phase
    <2> QED
      BY <1>2, <2>1, Frame DEF BindRestoreTarget, RemoveFinalizer, KeepShared
  <1>3. ASSUME AuthorizeRestore(r) PROVE Types'
    <2>1. CrOK'
      BY <1>3, Zenon DEF AuthorizeRestore, Step, CrOK, Pc
    <2> QED
      BY <1>3, <2>1, Frame DEF AuthorizeRestore, KeepShared
  <1>4. ASSUME CreateRestoreJob(r) PROVE Types'
    <2>1. CrOK'
      BY <1>4, Zenon DEF CreateRestoreJob, Step, CrOK, Pc
    <2>2. JobOK'
      BY <1>4, Zenon DEF CreateRestoreJob, JobOK
    <2> QED
      BY <1>4, <2>1, <2>2, Frame DEF CreateRestoreJob
  <1>5. ASSUME ResuspendTarget(r) PROVE Types'
    <2>1. [gs EXCEPT !.suspend = TRUE] \in GameServer
      BY Zenon DEF GsOK, GameServer
    <2> QED
      BY <1>5, <2>1, UpdateTypes, Frame DEF ResuspendTarget
  <1>6. ASSUME ReleaseRestoreFence(r) PROVE Types'
    <2>1. CrOK'
      BY <1>6, Zenon DEF ReleaseRestoreFence, Step, CrOK, Pc
    <2>2. GsOK'
      BY <1>0, <1>6, Zenon DEF ReleaseRestoreFence, GsOK
    <2>3. SsOK'
      BY <1>6, OperationValues, UpdateTypes, Frame DEF ReleaseRestoreFence
    <2> QED
      BY <1>6, <2>1, <2>2, <2>3, Frame DEF ReleaseRestoreFence
  <1>7. ASSUME ClearRestoreMarker(r) PROVE Types'
    <2>1. CrOK'
      BY <1>7, Zenon DEF ClearRestoreMarker, Step, CrOK, Pc
    <2>2. [ss EXCEPT !.restore = None] \in StatefulSet
      BY DEF SsOK, StatefulSet
    <2>3. SsOK'
      BY <1>7, <2>2, UpdateTypes, Frame DEF ClearRestoreMarker
    <2> QED
      BY <1>7, <2>1, <2>3, Frame DEF ClearRestoreMarker
  <1>8. ASSUME CommitRestore(r) PROVE Types'
    <2>1. CrOK'
      BY <1>8, Zenon DEF CommitRestore, Step, CrOK, Pc
    <2>2. [gs EXCEPT !.owner = None, !.suspend = (pc[r] = "keep")] \in GameServer
      BY Zenon DEF GsOK, GameServer, OpOrNone
    <2> QED
      BY <1>8, <2>1, <2>2, UpdateTypes, Frame DEF CommitRestore
  <1>9. ASSUME RestoreAborts(r) PROVE Types'
    <2>1. CrOK'
      BY <1>9, Zenon DEF RestoreAborts, Step, CrOK, Pc
    <2>2. GsOK'
      BY <1>9, Zenon DEF RestoreAborts, GsOK
    <2> QED
      BY <1>9, <2>1, <2>2, Frame DEF RestoreAborts
  <1>10. RestoreWork(r) => Types'
    BY <1>0, <1>1, <1>2, <1>3, <1>4, ClaimTypes, StampTypes, SMTT(20), ZenonT(20)
       DEF RestoreWork, ClaimRestoreTarget, FenceForRestore
  <1>11. RestoreCleanup(r) => Types'
    BY <1>0, <1>2, <1>5, <1>6, <1>7, <1>8, CancelTypes, RecoverTypes, StampTypes
       DEF RestoreCleanup, CancelRestoreJob, CancelWorkers, RecoverRestore, FenceForCleanup
  <1> QED
    BY <1>1, <1>9, <1>10, <1>11

\* A step of a Backup keeps the types.
LEMMA BackupTypes ==
  ASSUME Types, BackingUp, UNCHANGED passVars
  PROVE  Types'
  <1> USE DEF Types
  <1> PICK b \in Backup : BackupWork(b) \/ BackupCleanup(b) \/ BackupFaults(b)
    BY DEF BackingUp
  <1>0. b \in CR /\ b \in Op
    BY SMTT(20), ZenonT(20) DEF CR, Op
  <1>1. ASSUME AddFinalizer(b) \/ AdmitBackup(b) \/ CompleteBackup(b) \/ FailBackup(b)
               \/ AbandonSaving(b) \/ DropBackup(b)
        PROVE  Types'
    <2>1. CrOK'
      BY <1>0, <1>1, ZenonT(30) DEF AddFinalizer, AdmitBackup, CompleteBackup, FailBackup, AbandonSaving,
                        DropBackup, SetPhase, CrOK, Phase
    <2> QED
      BY <1>1, <2>1, Frame, ZenonT(30) DEF AddFinalizer, AdmitBackup, CompleteBackup, FailBackup,
                               AbandonSaving, DropBackup, KeepShared
  <1>2. ASSUME FenceBackupWorkload(b) PROVE Types'
    <2>1. [ss EXCEPT !.op = OwnerValue] \in StatefulSet
      BY OperationValues DEF SsOK, StatefulSet
    <2> QED
      BY <1>2, <2>1, UpdateTypes, Frame DEF FenceBackupWorkload
  <1>3. ASSUME PinSource(b) PROVE Types'
    <2>1. CrOK'
      BY <1>3 DEF PinSource, CrOK, Copy
    <2>2. PodOK'
      BY <1>3 DEF PinSource, PodOK
    <2> QED
      BY <1>3, <2>1, <2>2, Frame DEF PinSource
  <1>4. ASSUME CreateBackupJob(b) PROVE Types'
    <2>1. JobOK'
      BY <1>4, Zenon DEF CreateBackupJob, JobOK
    <2> QED
      BY <1>4, <2>1, Frame DEF CreateBackupJob
  <1>5. ASSUME RecordIntent(b) PROVE Types'
    <2>1. [gs EXCEPT !.debt = @ \cup {b}] \in GameServer
      BY DEF GsOK, GameServer
    <2> QED
      BY <1>5, <2>1, UpdateTypes, Frame DEF RecordIntent
  <1>6. ASSUME AttemptQuiesce(b) PROVE Types'
    <2>1. copy' \in [Backup -> Copy]
      BY <1>6 DEF AttemptQuiesce, CrOK, Copy
    <2>2. CrOK'
      BY <1>6, <2>1, Zenon DEF AttemptQuiesce, Step, CrOK, Pc
    <2> QED
      BY <1>6, <2>2, Frame DEF AttemptQuiesce, KeepShared
  <1>7. ASSUME NEW c \in {"none", "pending", "done", "unsupported", "undone"}
        PROVE  [copy EXCEPT ![b] = [copy[b] EXCEPT !.attempt = c]] \in [Backup -> Copy]
    BY DEF CrOK, Copy
  <1>8. ASSUME CallQuiesce(b) PROVE Types'
    <2>1. PICK effect \in BOOLEAN :
             /\ process' = [process EXCEPT !.quiesced = @ \/ effect]
             /\ \/ UNCHANGED <<phase, copy>>
                \/ SetCopy(b, [copy[b] EXCEPT !.attempt = "done"]) /\ UNCHANGED phase
                \/ SetPhase(b, "Failed") /\ UNCHANGED copy
      BY <1>8, Zenon DEF CallQuiesce
    <2>2. copy' \in [Backup -> Copy]
      BY <1>7, <2>1 DEF SetCopy, CrOK
    <2>3. phase' \in [CR -> Phase]
      BY <2>1 DEF SetPhase, CrOK, Phase
    <2>4. CrOK'
      BY <1>8, <2>2, <2>3, Zenon DEF CallQuiesce, Step, CrOK, Pc
    <2>5. process' \in [stopping: BOOLEAN, quiesced: BOOLEAN]
      BY <2>1 DEF PodOK
    <2>6. PodOK'
      BY <1>8, <2>5 DEF CallQuiesce, PodOK
    <2> QED
      BY <1>8, <2>4, <2>6, Frame DEF CallQuiesce
  <1>9. [gs EXCEPT !.debt = @ \ {b}] \in GameServer
    BY DEF GsOK, GameServer
  <1>10. ASSUME QuiesceUnsupported(b) PROVE Types'
    <2>1. copy' \in [Backup -> Copy]
      BY <1>7, <1>10 DEF QuiesceUnsupported, SetCopy
    <2>2. CrOK'
      BY <1>10, <2>1, Zenon DEF QuiesceUnsupported, Step, CrOK, Pc
    <2>3. GsOK'
      BY <1>9, <1>10, UpdateTypes, Frame DEF QuiesceUnsupported, gsVars
    <2> QED
      BY <1>10, <2>2, <2>3, Frame DEF QuiesceUnsupported
  <1>11. ASSUME AuthorizeStart(b) PROVE Types'
    <2>1. CrOK'
      BY <1>11 DEF AuthorizeStart, CrOK, Copy
    <2> QED
      BY <1>11, <2>1, Frame DEF AuthorizeStart, KeepShared
  <1>12. ASSUME RecordUnquiesced(b) PROVE Types'
    <2>1. PICK result \in {copy[b].attempt, "undone"} :
             SetCopy(b, [copy[b] EXCEPT !.attempt = result])
      BY <1>12 DEF RecordUnquiesced
    <2>2. result \in {"none", "pending", "done", "unsupported", "undone"}
      BY <2>1 DEF CrOK, Copy
    <2>3. CrOK'
      BY <1>7, <1>12, <2>1, <2>2 DEF RecordUnquiesced, SetCopy, CrOK
    <2>4. GsOK'
      BY <1>9, <1>12, UpdateTypes, Frame DEF RecordUnquiesced, gsVars
    <2> QED
      BY <1>12, <2>3, <2>4, Frame DEF RecordUnquiesced
  <1>13. ASSUME ReleaseBackupFence(b) PROVE Types'
    <2>1. CrOK'
      BY <1>13, Zenon DEF ReleaseBackupFence, Step, CrOK, Pc
    <2>2. GsOK'
      BY <1>0, <1>13, Zenon DEF ReleaseBackupFence, GsOK
    <2>3. SsOK'
      BY <1>13, OperationValues, UpdateTypes, Frame DEF ReleaseBackupFence
    <2> QED
      BY <1>13, <2>1, <2>2, <2>3, Frame DEF ReleaseBackupFence
  <1>14. ASSUME ReleaseBackupTarget(b) PROVE Types'
    <2>1. CrOK'
      BY <1>14, Zenon DEF ReleaseBackupTarget, Step, CrOK, Pc
    <2>2. [gs EXCEPT !.owner = None, !.debt = @ \ {b}] \in GameServer
      BY Zenon DEF GsOK, GameServer, OpOrNone
    <2> QED
      BY <1>14, <2>1, <2>2, UpdateTypes, Frame DEF ReleaseBackupTarget
  <1>15. ASSUME BackupAborts(b) PROVE Types'
    <2>1. CrOK'
      BY <1>15, Zenon DEF BackupAborts, Step, CrOK, Pc
    <2>2. GsOK'
      BY <1>15, ZenonT(30) DEF BackupAborts, GsOK
    <2> QED
      BY <1>15, <2>1, <2>2, Frame DEF BackupAborts
  <1>16. BackupWork(b) => Types'
    BY <1>0, <1>1, <1>2, <1>3, <1>4, <1>5, <1>6, <1>8, <1>11, ClaimTypes, SMTT(20), ZenonT(20)
       DEF BackupWork, ClaimBackupTarget
  <1>17. BackupCleanup(b) => Types'
    BY <1>0, <1>1, <1>12, <1>13, <1>14, CancelTypes, RecoverTypes, SaveOnTypes, ZenonT(30)
       DEF BackupCleanup, CancelBackupJob, RecoverBackup, RestoreSaving
  <1>18. BackupFaults(b) => Types'
    BY <1>0, <1>1, <1>10, <1>15, CancelTypes
       DEF BackupFaults, WithdrawStart, CancelWorkers
  <1> QED
    BY <1>16, <1>17, <1>18

\* The values a pass starts and ends with have the types of its variables.
LEMMA PassValues ==
  /\ NoSnapshot \in Snapshot
  /\ NoWorkload \in StatefulSet
  /\ \A suspend \in BOOLEAN : [NoSnapshot EXCEPT !.suspend = suspend] \in Snapshot
  <1>1. NoSnapshot \in Snapshot
    BY DEF NoSnapshot, Snapshot, OpOrNone
  <1>2. NoFence \in Fence
    BY DEF NoFence, Fence, OpOrNone
  <1>3. NoWorkload \in StatefulSet
    BY <1>2 DEF NoWorkload, StatefulSet
  <1>4. ASSUME NEW suspend \in BOOLEAN
        PROVE  [NoSnapshot EXCEPT !.suspend = suspend] \in Snapshot
    BY <1>1 DEF Snapshot
  <1> QED
    BY <1>1, <1>3, <1>4

\* A decision about the replicas keeps the types of the pass and the GameServer.
LEMMA DecideTypes ==
  ASSUME Types, NEW step \in Steps, NEW n \in {0, 1}, DecideThen(step, n)
  PROVE  WorkloadTypeOK'
  <1>1. [snap EXCEPT !.restart = FALSE, !.stopAt = FALSE] \in Snapshot
    BY Zenon DEF Types, WorkloadTypeOK, Snapshot
  <1> QED
    BY <1>1 DEF DecideThen, Types, WorkloadTypeOK

\* A stop keeps the types of the pass and the GameServer.
LEMMA SoftStopTypes ==
  ASSUME Types, NEW stamped, NEW fresh, SoftStop(stamped, fresh), UNCHANGED down
  PROVE  WorkloadTypeOK' /\ GsOK'
  <1>1. [gs EXCEPT !.stopAt = TRUE] \in GameServer
    BY Zenon DEF Types, GsOK, GameServer
  <1>2. "render" \in Steps /\ "stop" \in Steps
    BY DEF Steps
  <1> QED
    BY <1>1, <1>2, DecideTypes, UpdateTypes, Frame
       DEF SoftStop, Decide, KeepGs, gsVars, Types

\* The step of desiredReplicas keeps the types.
LEMMA DesiredReplicasTypes ==
  ASSUME Types, DesiredReplicas
  PROVE  Types'
  <1> USE DEF Types
  <1>1. "render" \in Steps /\ "stop" \in Steps
    BY DEF Steps
  <1>2. UNCHANGED down
    BY DEF DesiredReplicas
  <1>3. ASSUME DecidePreserving PROVE WorkloadTypeOK' /\ GsOK'
    <2>1. (IF NeedsStop \/ ~ss.exists THEN 0 ELSE ss.replicas) \in {0, 1}
      BY DEF SsOK, StatefulSet
    <2> QED
      BY <1>1, <1>2, <1>3, <2>1, DecideTypes, Frame DEF DecidePreserving, Decide, KeepGs, gsVars
  <1>4. ASSUME DecideTaken \/ DecideGuarded \/ DecideStopping PROVE WorkloadTypeOK' /\ GsOK'
    BY <1>2, <1>4, SoftStopTypes, Zenon DEF DecideTaken, DecideGuarded, DecideStopping
  <1>5. ASSUME DecideRestarted PROVE WorkloadTypeOK' /\ GsOK'
    <2>1. [gs EXCEPT !.restart = FALSE, !.stopAt = FALSE] \in GameServer
      BY Zenon DEF GsOK, GameServer
    <2>2. (IF snap.suspend THEN 0 ELSE 1) \in {0, 1}
      OBVIOUS
    <2> QED
      BY <1>1, <1>2, <1>5, <2>1, <2>2, DecideTypes, UpdateTypes DEF DecideRestarted, Decide
  <1>6. ASSUME DecideRunning PROVE WorkloadTypeOK' /\ GsOK'
    <2>1. [gs EXCEPT !.stopAt = FALSE] \in GameServer
      BY Zenon DEF GsOK, GameServer
    <2>2. GsOK'
      BY <1>2, <1>6, <2>1, UpdateTypes, Frame DEF DecideRunning, KeepGs, gsVars
    <2> QED
      BY <1>1, <1>6, <2>2, DecideTypes DEF DecideRunning, Decide
  <1>7. WorkloadTypeOK' /\ GsOK'
    BY <1>3, <1>4, <1>5, <1>6 DEF DesiredReplicas
  <1> QED
    BY <1>7, Frame DEF DesiredReplicas

\* A step of a reconcile pass outside the wipe keeps the types.
LEMMA WorkloadTypes ==
  ASSUME Types, Workload
  PROVE  Types'
  <1> USE DEF Types
  <1>1. ASSUME EndPass PROVE WorkloadTypeOK' /\ ssFresh' \in BOOLEAN
    BY <1>1, PassValues, Zenon DEF EndPass, WorkloadTypeOK, Steps
  <1>2. ASSUME PassAborts PROVE Types'
    <2>1. GsOK' /\ SsOK'
      BY <1>1, <1>2 DEF PassAborts, GsOK, SsOK
    <2> QED
      BY <1>1, <1>2, <2>1, Frame DEF PassAborts
  <1>3. ASSUME IssueStopSequence PROVE Types'
    <2>1. PodOK'
      BY <1>3, Zenon DEF IssueStopSequence, PodOK
    <2>2. WorkloadTypeOK'
      BY <1>3 DEF IssueStopSequence, WorkloadTypeOK, Steps
    <2> QED
      BY <1>3, <2>1, <2>2, Frame DEF IssueStopSequence
  <1>4. ASSUME RenderWorkload PROVE Types'
    <2>1. Rendered \in StatefulSet
      <3>1. [ss EXCEPT !.op = OwnerValue, !.replicas = IF NeedsStop THEN 0 ELSE @] \in StatefulSet
        BY OperationValues, Zenon DEF SsOK, StatefulSet
      <3>2. (IF Fenced \/ Preserving THEN 0 ELSE want) \in {0, 1}
        BY DEF WorkloadTypeOK
      <3>3. (IF WipeGuard # None \/ ~(PendingWipe \/ WipeBusy) THEN WipeGuard ELSE ss.wipe)
              \in Token \cup {None}
        BY OperationValues DEF SsOK, StatefulSet
      <3>4. (IF Held THEN OwnerValue ELSE NoFence) \in Fence
        BY OperationValues
      <3>5. RestoreGuard \in Restore \cup {None}
        BY OperationValues
      <3>6. CASE Preserving /\ ss.exists
        BY <3>1, <3>6 DEF Rendered
      <3>7. CASE ~(Preserving /\ ss.exists)
        BY <3>2, <3>3, <3>4, <3>5, <3>7 DEF Rendered, StatefulSet
      <3> QED
        BY <3>6, <3>7
    <2>2. WorkloadTypeOK' /\ SsOK'
      BY <1>4, <2>1 DEF RenderWorkload, WorkloadTypeOK, SsOK, Steps
    <2> QED
      BY <1>4, <2>2, Frame DEF RenderWorkload
  <1>5. ASSUME WriteWorkload \/ WorkloadUnchanged PROVE Types'
    <2>1. WorkloadTypeOK'
      BY <1>5, PassValues DEF WriteWorkload, WorkloadUnchanged, WorkloadTypeOK, Steps
    <2>2. SsOK'
      BY <1>5, Zenon DEF WriteWorkload, WorkloadUnchanged, UpdateSs, WorkloadTypeOK, SsOK
    <2> QED
      BY <1>5, <2>1, <2>2, Frame DEF WriteWorkload, WorkloadUnchanged
  <1>6. ASSUME PatchStatus PROVE Types'
    <2>1. down' \in BOOLEAN
      BY <1>6 DEF PatchStatus
    <2>2. GsOK' /\ SsOK'
      BY <1>1, <1>6, <2>1 DEF PatchStatus, GsOK, SsOK
    <2> QED
      BY <1>1, <1>6, <2>2, Frame DEF PatchStatus
  <1> QED
    BY <1>2, <1>3, <1>4, <1>5, <1>6, DesiredReplicasTypes DEF Workload

\* The token a wipe claims with is a request, or names an earlier request's worker.
LEMMA WipeTokensTokens ==
  ASSUME Types, NeedsWipeGuard
  PROVE  WipeTokens \subseteq Token
  <1>1. CASE \E t \in Token : job[t] # "none"
    BY <1>1 DEF WipeTokens
  <1>2. CASE ~(\E t \in Token : job[t] # "none") /\ \E t \in Token : pods[t] > 0
    BY <1>2 DEF WipeTokens
  <1>3. CASE ~(\E t \in Token : job[t] # "none") /\ ~(\E t \in Token : pods[t] > 0)
    <2>1. PendingWipe
      BY <1>3, SMTT(20), ZenonT(20) DEF NeedsWipeGuard, WipeBusy, WorkersLive, JobLive
    <2> QED
      BY <1>3, <2>1 DEF WipeTokens, PendingWipe, Types, GsOK, GameServer
  <1> QED
    BY <1>1, <1>2, <1>3

\* A step of a wipe keeps the types.
LEMMA WipeTypes ==
  ASSUME Types, Wipe
  PROVE  Types'
  <1> USE DEF Types
  <1>0. Token \subseteq Op /\ gs.suspend \in BOOLEAN
    BY DEF Op, GsOK, GameServer
  <1>1. ASSUME NEW s \in BOOLEAN, ToStatus(s), UNCHANGED <<want, next>> PROVE WorkloadTypeOK'
    BY <1>1, PassValues DEF ToStatus, WorkloadTypeOK, Steps
  <1>2. ASSUME ClaimWipe PROVE Types'
    <2>1. PICK t \in WipeTokens :
             /\ UpdateGs(Claimed(t), {})
             /\ IF at = "start" THEN EndPass
                ELSE ToStatus(Claimed(t).suspend) /\ UNCHANGED <<want, next, ssFresh>>
      BY <1>2 DEF ClaimWipe
    <2>2. Claimed(t) \in GameServer
      BY <1>0, <1>2, WipeTokensTokens, OperationValues DEF ClaimWipe
    <2>3. GsOK'
      BY <1>2, <2>1, <2>2, UpdateTypes DEF ClaimWipe
    <2>4. Claimed(t).suspend \in BOOLEAN
      BY <2>2 DEF GameServer
    <2>5. WorkloadTypeOK' /\ ssFresh' \in BOOLEAN
      <3>1. CASE at = "start"
        BY <2>1, <3>1, PassValues, Zenon DEF EndPass, WorkloadTypeOK, Steps
      <3>2. CASE at # "start"
        BY <1>1, <2>1, <2>4, <3>2 DEF SsOK
      <3> QED
        BY <3>1, <3>2
    <2>6. SsOK'
      BY <1>2, <2>5 DEF ClaimWipe, SsOK
    <2> QED
      BY <1>2, <2>3, <2>5, <2>6, Frame DEF ClaimWipe
  <1>3. ASSUME AssertWipe PROVE Types'
    <2>1. WipeGuard \in Op
      BY <1>0, <1>3, OperationValues DEF AssertWipe
    <2> QED
      BY <1>3, <2>1, OperationValues, UpdateTypes, Frame DEF AssertWipe
  <1>4. ASSUME RecoverWipe PROVE Types'
    BY <1>4, RecoverTypes DEF RecoverWipe
  <1>5. ASSUME StartPass PROVE Types'
    <2>1. PendingWipe \in BOOLEAN
      BY DEF PendingWipe
    <2>2. snap' \in Snapshot
      BY <1>5, <2>1 DEF StartPass, Snapshot, GsOK, GameServer
    <2>3. WorkloadTypeOK'
      BY <1>5, <2>2 DEF StartPass, WorkloadTypeOK, Steps
    <2>4. GsOK'
      BY <1>5 DEF StartPass, GsOK
    <2> QED
      BY <1>5, <2>3, <2>4, Frame DEF StartPass
  <1>6. ASSUME DeleteJobs \/ UNCHANGED job, UNCHANGED pods PROVE JobOK'
    BY <1>6 DEF DeleteJobs, JobOK
  <1>7. ASSUME DeleteWipeJob \/ WipeWaits \/ SkipWipe PROVE Types'
    <2>1. JobOK'
      BY <1>6, <1>7 DEF DeleteWipeJob, WipeWaits, SkipWipe
    <2>2. WorkloadTypeOK'
      BY <1>0, <1>1, <1>7 DEF DeleteWipeJob, WipeWaits, SkipWipe, WorkloadTypeOK, Snapshot
    <2> QED
      BY <1>7, <2>1, <2>2, Frame DEF DeleteWipeJob, WipeWaits, SkipWipe
  <1>8. ASSUME RecordWipeSuccess PROVE Types'
    <2>1. [gs EXCEPT !.wipeOk = WipeGuard] \in GameServer
      BY OperationValues DEF GsOK, GameServer
    <2> QED
      BY <1>0, <1>1, <1>8, <2>1, UpdateTypes, Frame DEF RecordWipeSuccess
  <1>9. ASSUME FenceForWipe PROVE Types'
    <2>1. [ss EXCEPT !.wipe = WipeGuard, !.replicas = 0] \in StatefulSet
      BY OperationValues, Zenon DEF SsOK, StatefulSet
    <2> QED
      BY <1>0, <1>1, <1>9, <2>1, UpdateTypes, Frame DEF FenceForWipe
  <1>10. ASSUME AuthorizeWipe PROVE Types'
    <2>1. [snap EXCEPT !.owner = WipeGuard] \in Snapshot
      BY <1>0, OperationValues DEF WorkloadTypeOK, Snapshot, OpOrNone
    <2>2. WorkloadTypeOK'
      BY <1>10, <2>1 DEF AuthorizeWipe, WorkloadTypeOK, Steps
    <2> QED
      BY <1>10, <2>2, Frame DEF AuthorizeWipe
  <1>11. ASSUME CreateWipeJob PROVE Types'
    <2>1. JobOK'
      BY <1>11, Zenon DEF CreateWipeJob, JobOK
    <2> QED
      BY <1>0, <1>1, <1>11, <2>1, Frame DEF CreateWipeJob
  <1>12. ASSUME ClearWipeWorkloadGuard PROVE Types'
    <2>1. [ss EXCEPT !.wipe = None] \in StatefulSet
      BY DEF SsOK, StatefulSet
    <2>2. SsOK'
      BY <1>12, <2>1, UpdateTypes, Frame DEF ClearWipeWorkloadGuard
    <2>3. WorkloadTypeOK'
      BY <1>12 DEF ClearWipeWorkloadGuard, WorkloadTypeOK, Steps
    <2>4. GsOK'
      BY <1>12 DEF ClearWipeWorkloadGuard, GsOK
    <2> QED
      BY <1>12, <2>2, <2>3, <2>4, Frame DEF ClearWipeWorkloadGuard
  <1>13. ASSUME ReleaseWipeFence PROVE Types'
    <2>1. SsOK'
      BY <1>13, OperationValues, UpdateTypes, Frame DEF ReleaseWipeFence
    <2>2. WorkloadTypeOK'
      BY <1>13 DEF ReleaseWipeFence, WorkloadTypeOK, Steps
    <2> QED
      BY <1>13, <2>1, <2>2, Frame DEF ReleaseWipeFence
  <1>14. ASSUME ReleaseWipeGuard PROVE Types'
    <2>1. WipeReleased \in GameServer
      <3>1. (IF Recorded THEN None ELSE gs.wipeOk) \in Token \cup {None}
        BY DEF GsOK, GameServer
      <3>2. gs.wipeReq \in OpOrNone
        BY <1>0 DEF GsOK, GameServer, OpOrNone
      <3>3. WipeGuard \in Token \cup {None} /\ None \in OpOrNone
        BY OperationValues DEF OpOrNone
      <3> DEFINE ok == IF Recorded THEN None ELSE gs.wipeOk
      <3> HIDE DEF ok
      <3>4. ok \in Token \cup {None}
        BY <3>1 DEF ok
      <3>5. [gs EXCEPT !.owner = None, !.wipeDone = WipeGuard, !.suspend = FALSE, !.wipeOk = ok]
               \in GameServer
        BY <3>3, <3>4, Zenon DEF GsOK, GameServer
      <3>6. [gs EXCEPT !.owner = gs.wipeReq, !.suspend = TRUE, !.wipeOk = ok] \in GameServer
        BY <3>2, <3>4, Zenon DEF GsOK, GameServer
      <3>7. [gs EXCEPT !.owner = None, !.wipeOk = ok] \in GameServer
        BY <3>3, <3>4, Zenon DEF GsOK, GameServer
      <3> QED
        BY <3>5, <3>6, <3>7, Zenon DEF WipeReleased, ok
    <2>2. WipeReleased.suspend \in BOOLEAN
      BY <2>1 DEF GameServer
    <2> QED
      BY <1>1, <1>14, <2>1, <2>2, UpdateTypes, Frame DEF ReleaseWipeGuard
  <1> QED
    BY <1>2, <1>3, <1>4, <1>5, <1>7, <1>8, <1>9, <1>10, <1>11, <1>12, <1>13, <1>14 DEF Wipe

-----------------------------------------------------------------------------
\* Every reachable state of the controllers, Kubernetes and the users is well
\* typed; in particular restoreTargetStopped only ever stamps a Restore, or
\* nothing, on the workload, whichever operation asks for the stop.
THEOREM TypeCorrect == Spec => []TypeOK
  <1>1. Init => TypeOK
    BY InitTypes, TypeGroups DEF Init
  <1>2. ASSUME TypeOK, [Next]_vars PROVE TypeOK'
    <2>1. Types /\ torn \subseteq Backup
      BY <1>2, TypeGroups
    <2>2. ASSUME Next PROVE Types' /\ torn' \subseteq Backup
      BY <2>1, <2>2, WorkloadTypes, WipeTypes, RestoreTypes, BackupTypes, KubernetesTypes,
         UserTypes
         DEF Next, Observe
    <2>3. ASSUME UNCHANGED vars PROVE Types' /\ torn' \subseteq Backup
      BY <2>1, <2>3, Frame DEF vars, objectVars, Types
    <2>4. Types' /\ torn' \subseteq Backup
      BY <1>2, <2>2, <2>3
    <2> QED
      BY <2>4 DEF TypeOK, ObjectsTypeOK, Types, GsOK, SsOK, PodOK, JobOK, CrOK, VolumeOK, UserOK
  <1> QED
    BY <1>1, <1>2, PTL DEF Spec
=============================================================================
