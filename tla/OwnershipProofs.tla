-------------------------- MODULE OwnershipProofs --------------------------
(***************************************************************************)
(* The records of ownership cover every live worker, for any number of     *)
(* Backups, Restores and wipe requests.  WorkersAccounted and              *)
(* AckedWipeQuiet are not inductive: they rest on what a reconcile knows   *)
(* between two of its calls, after the check and before the write.         *)
(***************************************************************************)
EXTENDS LifecycleProofs

\* A Restore about to create its Job exists and carries its finalizer: this is
\* where it matters that finalizers are not stripped in the middle of a reconcile.
Finalized == \A r \in Restore : pc[r] = "launch" => r \in bound /\ Exists(r)

\* A Restore about to create its Job still owns the server.
LauncherOwns == \A r \in Restore : pc[r] = "launch" => gs.owner = r

\* An operation that is releasing the server has no worker left.
Releasing == {"unmark.resume", "unmark.keep", "resume", "keep", "release"}
ReleaserDrained == \A c \in CR : pc[c] \in Releasing => ~WorkersLive(c)

\* A current copy of the GameServer, kept from one call to the next, names the
\* operation that keeps it as the owner.
FreshOwns == \A c \in CR : c \in gsFresh => gs.owner = c

\* A pass about to create a wipe Job works for the owner of the server.
WipeLauncherOwns == at = "launch" => snap.owner \in Token /\ gs.owner = snap.owner

\* A pass that is releasing a wipe has no Job and no pod of any wipe left.
WipeReleaserDrained ==
    at \in {"unfence", "release"} => gs.owner \in Token /\ \A t \in Token : ~HasWork(t)

\* The Jobs and pods of wipes, finished ones included, belong to the request that
\* owns the server, which is not acknowledged.
WipeWorkOwned == \A t \in Token : HasWork(t) => gs.owner = t
OwnerUnacked == gs.owner \in Token => gs.owner # gs.wipeDone

WipeInv ==
    FreshOwns /\ WipeLauncherOwns /\ WipeReleaserDrained /\ WipeWorkOwned /\ OwnerUnacked

\* The live workers of Backups and Restores are accounted for.
CRAccounted == \A c \in CR : WorkersLive(c) => c = gs.owner \/ c \in gs.recovery

OwnershipInv == Finalized /\ LauncherOwns /\ ReleaserDrained /\ CRAccounted

-----------------------------------------------------------------------------
(* Calm steps: ownership and its records stay, no worker comes to life, no *)
(* reconcile passes a check.                                               *)

OwnerKept ==
    gs'.owner = gs.owner /\ gs'.recovery = gs.recovery /\ gs'.wipeDone = gs.wipeDone

FreshKept == \A c \in CR : c \in gsFresh' => c \in gsFresh

NoNewWork ==
    /\ \A c \in CR : WorkersLive(c)' => WorkersLive(c)
    /\ \A t \in Token : HasWork(t)' => HasWork(t)

PassKept == at' \in {"launch", "unfence", "release"} => at' = at /\ snap' = snap

ReconcilesKept ==
    \A c \in CR : pc'[c] # "idle" =>
        /\ pc'[c] = pc[c]
        /\ c \in bound /\ Exists(c) => c \in bound' /\ Exists(c)'

Calm ==
    /\ OwnerKept /\ FreshKept /\ NoNewWork /\ PassKept
    /\ ForceDeletes # "any" => ReconcilesKept

\* A step that leaves the owner, the Jobs and the reconciles alone is calm.
LEMMA CalmFrame ==
  /\ UNCHANGED gsVars => OwnerKept /\ FreshKept
  /\ UNCHANGED jobVars => NoNewWork
  /\ UNCHANGED passVars => PassKept
  /\ UNCHANGED crVars => ReconcilesKept
  /\ UNCHANGED <<phase, bound, pc>> => ReconcilesKept
  BY DEF gsVars, jobVars, passVars, crVars, OwnerKept, FreshKept, NoNewWork, PassKept,
         ReconcilesKept, HasWork, WorkersLive, JobLive, Exists

\* A checked write that keeps the owner and its records is calm on the GameServer.
LEMMA CalmUpdate ==
  ASSUME NEW new, NEW keep, UpdateGs(new, keep), new.owner = gs.owner,
         new.recovery = gs.recovery, new.wipeDone = gs.wipeDone
  PROVE  OwnerKept /\ FreshKept
  BY DEF UpdateGs, OwnerKept, FreshKept

\* The controllers of Kubernetes only start pods of Jobs that were created.
LEMMA KubernetesCalm ==
  ASSUME Types, StatefulSetController \/ JobController, UNCHANGED passVars
  PROVE  Calm
  <1>1. CASE StatefulSetController
    BY <1>1, CalmFrame DEF StatefulSetController, Calm
  <1>2. CASE JobController
    <2>1. ASSUME NEW o \in Op, JobStartPod(o) \/ PodExit(o) \/ JobSucceed(o)
                        \/ JobFail(o) \/ JobDeleted(o) \/ JobCollected(o)
          PROVE  NoNewWork
      BY <2>1 DEF JobStartPod, PodExit, JobSucceed, JobFail, JobDeleted, JobCollected,
                  NoNewWork, HasWork, WorkersLive, JobLive, Types, JobOK, Op
    <2>2. ASSUME NEW b \in Backup, WorkerReady(b) \/ WorkerStarts(b) \/ GateProjected(b)
          PROVE  NoNewWork
      BY <2>2, CalmFrame DEF WorkerReady, WorkerStarts, GateProjected
    <2>3. NoNewWork
      BY <1>2, <2>1, <2>2 DEF JobController
    <2> QED
      BY <1>2, <2>3, CalmFrame DEF JobController, Calm
  <1> QED
    BY <1>1, <1>2

\* Users change the power intent, the requests and the objects, never the owner.
LEMMA UserCalm ==
  ASSUME Types, User, UNCHANGED passVars
  PROVE  Calm
  <1>1. CASE Power
    <2>1. OwnerKept /\ FreshKept
      BY <1>1 DEF Power, Suspend, Resume, RequestRestart, UpdateGs, OwnerKept, FreshKept,
                  Types, GsOK, GameServer
    <2> QED
      BY <1>1, <2>1, CalmFrame DEF Power, Calm
  <1>2. CASE WipeRequest
    <2>1. OwnerKept /\ FreshKept
      BY <1>2, Zenon DEF WipeRequest, CancelWipe, RequestWipe, UpdateGs, OwnerKept, FreshKept,
                  Types, GsOK, GameServer
    <2> QED
      BY <1>2, <2>1, CalmFrame DEF WipeRequest, Calm
  <1>3. CASE ObjectRequest
    <2>1. ASSUME ForceDeletes # "any" PROVE ReconcilesKept
      BY <1>3, <2>1, ConstantsAssumption
         DEF ObjectRequest, Create, Delete, ForceDelete, ReconcilesKept, Exists, Types, CrOK
    <2> QED
      BY <1>3, <2>1, CalmFrame DEF ObjectRequest, Calm
  <1> QED
    BY <1>1, <1>2, <1>3 DEF User

\* A pass outside its wipe step decides and writes the workload only.
LEMMA WorkloadCalm ==
  ASSUME Types, Workload
  PROVE  Calm
  <1>1. ASSUME DesiredReplicas PROVE Calm
    <2>1. /\ at' \in {"render", "stop"}
          /\ \/ KeepGs
             \/ \E new : /\ UpdateGs(new, {"pass"}) /\ new.owner = gs.owner
                         /\ new.recovery = gs.recovery /\ new.wipeDone = gs.wipeDone
      <3>1. ASSUME NEW s \in BOOLEAN
            PROVE  LET new == [gs EXCEPT !.stopAt = s]
                   IN  new.owner = gs.owner /\ new.recovery = gs.recovery /\ new.wipeDone = gs.wipeDone
        BY DEF Types, GsOK, GameServer
      <3>2. LET new == [gs EXCEPT !.restart = FALSE, !.stopAt = FALSE]
            IN  new.owner = gs.owner /\ new.recovery = gs.recovery /\ new.wipeDone = gs.wipeDone
        BY DEF Types, GsOK, GameServer
      <3>3. ASSUME NEW stamped, NEW fresh, SoftStop(stamped, fresh)
            PROVE  /\ at' \in {"render", "stop"}
                   /\ \/ KeepGs
                      \/ \E new : /\ UpdateGs(new, {"pass"}) /\ new.owner = gs.owner
                                  /\ new.recovery = gs.recovery /\ new.wipeDone = gs.wipeDone
        BY <3>1, <3>3, Zenon DEF SoftStop, Decide, DecideThen
      <3> QED
        BY <1>1, <3>1, <3>2, <3>3, Zenon
           DEF DesiredReplicas, DecidePreserving, DecideTaken, DecideGuarded, DecideRestarted,
               DecideStopping, DecideRunning, Decide, DecideThen
    <2>2. OwnerKept /\ FreshKept
      BY <2>1, CalmUpdate DEF KeepGs, OwnerKept, FreshKept
    <2>3. PassKept
      BY <2>1 DEF PassKept
    <2> QED
      BY <1>1, <2>2, <2>3, CalmFrame DEF DesiredReplicas, Calm
  <1>2. ASSUME PassAborts \/ PatchStatus PROVE Calm
    <2>1. OwnerKept /\ FreshKept /\ PassKept
      BY <1>2, Zenon DEF PassAborts, PatchStatus, EndPass, OwnerKept, FreshKept, PassKept
    <2> QED
      BY <1>2, <2>1, CalmFrame, Zenon DEF PassAborts, PatchStatus, Calm
  <1>3. ASSUME IssueStopSequence \/ RenderWorkload \/ WriteWorkload \/ WorkloadUnchanged PROVE Calm
    <2>1. PassKept
      BY <1>3 DEF IssueStopSequence, RenderWorkload, WriteWorkload, WorkloadUnchanged, PassKept
    <2> QED
      BY <1>3, <2>1, CalmFrame
         DEF IssueStopSequence, RenderWorkload, WriteWorkload, WorkloadUnchanged, Calm
  <1> QED
    BY <1>1, <1>2, <1>3 DEF Workload

\* The recovery of a vanished operation is calm until its record is dropped.
LEMMA RecoverCalm ==
  ASSUME Types, NEW keep, RecoverLifecycleOperation(keep), UNCHANGED passVars
  PROVE  Calm \/ FinishRecovery(keep)
  <1>1. ASSUME NEW p \in gs.recovery, CancelWorkers(p) PROVE Calm
    <2>1. NoNewWork
      BY <1>1, CalmFrame DEF CancelWorkers, DeleteJob, RevokeStart, NoNewWork, HasWork, WorkersLive,
                             JobLive, Types, JobOK, Op, GsOK, GameServer
    <2> QED
      BY <1>1, <2>1, CalmFrame DEF CancelWorkers, DeleteJob, RevokeStart, Calm
  <1>2. ASSUME StampForRecovery PROVE Calm
    BY <1>2, CalmFrame DEF StampForRecovery, StampRestoreGuard, Calm
  <1>3. ASSUME NEW p, SaveOn(p) PROVE Calm
    BY <1>3, CalmFrame DEF SaveOn, Calm
  <1> QED
    BY <1>1, <1>2, <1>3 DEF RecoverLifecycleOperation

\* The steps of a Restore that claim, check, launch or release.
RestoreMoves(r) ==
    \/ ClaimRestoreTarget(r) \/ FinishRecovery({})
    \/ AuthorizeRestore(r) \/ CreateRestoreJob(r)
    \/ ReleaseRestoreFence(r) \/ ClearRestoreMarker(r) \/ CommitRestore(r)

\* Every other step of a Restore is calm.
LEMMA RestoreCalm ==
  ASSUME Types, Restoring, UNCHANGED passVars
  PROVE  Calm \/ \E r \in Restore : RestoreMoves(r)
  <1> PICK r \in Restore : RestoreWork(r) \/ RestoreCleanup(r) \/ GiveUp(r) \/ RestoreAborts(r)
    BY DEF Restoring
  <1>0. r \in CR /\ r \in Op /\ r \notin Token
    BY ConstantsAssumption DEF CR, Op
  <1>1. ASSUME PinSnapshot(r) \/ GiveUp(r) \/ StartRestore(r) \/ SucceedRestore(r) \/ FailRestore(r)
               \/ BindRestoreTarget(r) \/ RemoveFinalizer(r)
        PROVE  Calm
    <2>1. ReconcilesKept
      BY <1>0, <1>1
         DEF PinSnapshot, GiveUp, StartRestore, SucceedRestore, FailRestore, BindRestoreTarget,
             RemoveFinalizer, Suspended, HoldsTarget, Claiming, Reconciling, Quiet, Cleaning,
             SetPhase, ReconcilesKept, Exists, Types, CrOK
    <2> QED
      BY <1>1, <2>1, CalmFrame
         DEF PinSnapshot, GiveUp, StartRestore, SucceedRestore, FailRestore, BindRestoreTarget,
             RemoveFinalizer, KeepShared, Calm
  <1>2. ASSUME FenceForRestore(r) \/ FenceForCleanup(r) PROVE Calm
    BY <1>2, CalmFrame DEF FenceForRestore, FenceForCleanup, StampRestoreGuard, Calm
  <1>3. ASSUME CancelRestoreJob(r) PROVE Calm
    <2>1. NoNewWork
      BY <1>3 DEF CancelRestoreJob, DeleteJob, NoNewWork, HasWork, WorkersLive, JobLive, Types, JobOK
    <2> QED
      BY <1>3, <2>1, CalmFrame DEF CancelRestoreJob, DeleteJob, Calm
  <1>4. ASSUME ResuspendTarget(r) PROVE Calm
    <2>1. OwnerKept /\ FreshKept
      BY <1>4 DEF ResuspendTarget, UpdateGs, OwnerKept, FreshKept, Types, GsOK, GameServer
    <2> QED
      BY <1>4, <2>1, CalmFrame DEF ResuspendTarget, Calm
  <1>5. ASSUME RestoreAborts(r) PROVE Calm
    <2>1. OwnerKept /\ FreshKept
      BY <1>5 DEF RestoreAborts, OwnerKept, FreshKept
    <2>2. ReconcilesKept
      BY <1>5 DEF RestoreAborts, Step, ReconcilesKept, Exists, Types, CrOK
    <2> QED
      BY <1>5, <2>1, <2>2, CalmFrame DEF RestoreAborts, Calm
  <1>6. ASSUME RecoverRestore(r) PROVE Calm \/ FinishRecovery({})
    BY <1>6, RecoverCalm DEF RecoverRestore
  <1>7. RestoreWork(r) => Calm \/ RestoreMoves(r)
    BY <1>1, <1>2 DEF RestoreWork, RestoreMoves
  <1>8. RestoreCleanup(r) => Calm \/ RestoreMoves(r)
    BY <1>1, <1>2, <1>3, <1>4, <1>6 DEF RestoreCleanup, RestoreMoves
  <1> QED
    BY <1>1, <1>5, <1>7, <1>8

\* The steps of a Backup that claim, create its Job, call the agent or release.
BackupMoves(b) ==
    \/ ClaimBackupTarget(b) \/ FinishRecovery({})
    \/ CreateBackupJob(b) \/ AttemptQuiesce(b)
    \/ ReleaseBackupFence(b) \/ ReleaseBackupTarget(b)

\* Every other step of a Backup is calm.
LEMMA BackupCalm ==
  ASSUME Types, BackingUp, UNCHANGED passVars
  PROVE  Calm \/ \E b \in Backup : BackupMoves(b)
  <1> PICK b \in Backup : BackupWork(b) \/ BackupCleanup(b) \/ BackupFaults(b)
    BY DEF BackingUp
  <1>0. b \in CR /\ b \in Op /\ b \notin Token
    BY ConstantsAssumption DEF CR, Op
  <1>1. ASSUME AddFinalizer(b) \/ AdmitBackup(b) \/ CompleteBackup(b) \/ FailBackup(b)
               \/ AbandonSaving(b) \/ DropBackup(b)
        PROVE  Calm
    <2>1. ReconcilesKept
      BY <1>0, <1>1
         DEF AddFinalizer, AdmitBackup, CompleteBackup, FailBackup, AbandonSaving, DropBackup,
             Working, Active, Prepared, FenceObserved, Admitted, Idle, Finished, SetPhase,
             ReconcilesKept, Exists, Types, CrOK
    <2> QED
      BY <1>1, <2>1, CalmFrame
         DEF AddFinalizer, AdmitBackup, CompleteBackup, FailBackup, AbandonSaving, DropBackup,
             KeepShared, Calm
  <1>2. ASSUME FenceBackupWorkload(b) \/ RestoreSaving(b) PROVE Calm
    BY <1>2, CalmFrame DEF FenceBackupWorkload, RestoreSaving, SaveOn, Calm
  <1>3. ASSUME PinSource(b) \/ AuthorizeStart(b) PROVE Calm
    BY <1>3, CalmFrame DEF PinSource, AuthorizeStart, KeepShared, Calm
  <1>4. ASSUME RecordIntent(b) PROVE Calm
    <2>1. OwnerKept /\ FreshKept
      BY <1>4 DEF RecordIntent, UpdateGs, OwnerKept, FreshKept, Types, GsOK, GameServer
    <2> QED
      BY <1>4, <2>1, CalmFrame DEF RecordIntent, Calm
  <1>5. ASSUME CallQuiesce(b) PROVE Calm
    <2>1. /\ pc' = [pc EXCEPT ![b] = "idle"] /\ UNCHANGED bound
          /\ UNCHANGED phase \/ phase' = [phase EXCEPT ![b] = "Failed"]
      BY <1>5 DEF CallQuiesce, Step, SetPhase
    <2>2. ReconcilesKept
      BY <1>0, <2>1 DEF ReconcilesKept, Exists, Types, CrOK
    <2> QED
      BY <1>5, <2>2, CalmFrame DEF CallQuiesce, Calm
  <1>6. ASSUME QuiesceUnsupported(b) PROVE Calm
    <2>1. OwnerKept /\ FreshKept
      BY <1>6 DEF QuiesceUnsupported, UpdateGs, OwnerKept, FreshKept, Types, GsOK, GameServer
    <2>2. ReconcilesKept
      BY <1>6 DEF QuiesceUnsupported, Step, ReconcilesKept, Exists, Types, CrOK
    <2> QED
      BY <1>6, <2>1, <2>2, CalmFrame DEF QuiesceUnsupported, Calm
  <1>7. ASSUME RecordUnquiesced(b) PROVE Calm
    <2>1. OwnerKept /\ FreshKept
      BY <1>7 DEF RecordUnquiesced, UpdateGs, OwnerKept, FreshKept, Types, GsOK, GameServer
    <2> QED
      BY <1>7, <2>1, CalmFrame DEF RecordUnquiesced, Calm
  <1>8. ASSUME BackupAborts(b) PROVE Calm
    <2>1. OwnerKept /\ FreshKept
      BY <1>8 DEF BackupAborts, OwnerKept, FreshKept
    <2>2. ReconcilesKept
      BY <1>8 DEF BackupAborts, Step, ReconcilesKept, Exists, Types, CrOK
    <2> QED
      BY <1>8, <2>1, <2>2, CalmFrame DEF BackupAborts, Calm
  <1>9. ASSUME CancelWorkers(b) PROVE Calm
    <2>1. NoNewWork
      <3>1. CASE DeleteJob(b)
        <4>1. pods' = pods /\ b \in Op /\ job[b] = "active" /\ job' = [job EXCEPT ![b] = "deleting"]
          BY <3>1 DEF DeleteJob, Op, CR
        <4>2. \A o \in Op : JobLive(o)' => JobLive(o)
          BY <4>1 DEF JobLive, Types, JobOK
        <4>3. \A o \in Op : (job[o] # "none")' => job[o] # "none"
          BY <4>1 DEF Types, JobOK
        <4> QED
          BY <4>1, <4>2, <4>3 DEF NoNewWork, HasWork, WorkersLive, Op
      <3>2. CASE RevokeStart(b)
        BY <3>2, CalmFrame DEF RevokeStart
      <3> QED
        BY <1>9, <3>1, <3>2 DEF CancelWorkers
    <2> QED
      BY <1>9, <2>1, CalmFrame DEF CancelWorkers, DeleteJob, RevokeStart, Calm
  <1>10. ASSUME RecoverBackup(b) PROVE Calm \/ FinishRecovery({})
    BY <1>10, RecoverCalm DEF RecoverBackup
  <1>11. BackupWork(b) => Calm \/ BackupMoves(b)
    BY <1>1, <1>2, <1>3, <1>4, <1>5 DEF BackupWork, BackupMoves
  <1>12. BackupCleanup(b) => Calm \/ BackupMoves(b)
    BY <1>1, <1>2, <1>7, <1>9, <1>10 DEF BackupCleanup, BackupMoves, CancelBackupJob
  <1>13. BackupFaults(b) => Calm
    BY <1>1, <1>6, <1>8, <1>9 DEF BackupFaults, WithdrawStart, CancelWorkers
  <1> QED
    BY <1>11, <1>12, <1>13

\* The steps of a wipe that claim, check, launch or release.
WipeMoves ==
    \/ ClaimWipe \/ (FinishRecovery({"pass"}) /\ UNCHANGED passVars)
    \/ AuthorizeWipe \/ CreateWipeJob
    \/ ClearWipeWorkloadGuard \/ ReleaseWipeFence \/ ReleaseWipeGuard

\* Every other step of a wipe is calm.
LEMMA WipeCalm ==
  ASSUME Types, Wipe
  PROVE  Calm \/ WipeMoves
  <1>1. ASSUME AssertWipe PROVE Calm
    <2>1. WipeGuard = gs.owner /\ gs.owner # None
      BY <1>1, ConstantsAssumption DEF AssertWipe, WipeGuard
    <2>2. Claimed(WipeGuard).owner = gs.owner /\ Claimed(WipeGuard).recovery = gs.recovery
          /\ Claimed(WipeGuard).wipeDone = gs.wipeDone
      BY <2>1 DEF Claimed, Types, GsOK, GameServer
    <2>3. OwnerKept /\ FreshKept
      BY <1>1, <2>2, CalmUpdate DEF AssertWipe
    <2> QED
      BY <1>1, <2>3, CalmFrame DEF AssertWipe, Calm
  <1>2. ASSUME RecoverWipe PROVE Calm \/ (FinishRecovery({"pass"}) /\ UNCHANGED passVars)
    BY <1>2, RecoverCalm DEF RecoverWipe
  <1>3. ASSUME StartPass PROVE Calm
    <2>1. OwnerKept /\ FreshKept
      BY <1>3, ConstantsAssumption DEF StartPass, OwnerKept, FreshKept
    <2>2. PassKept
      BY <1>3 DEF StartPass, PassKept
    <2> QED
      BY <1>3, <2>1, <2>2, CalmFrame DEF StartPass, Calm
  <1>4. ASSUME DeleteJobs \/ UNCHANGED job, UNCHANGED pods PROVE NoNewWork
    BY <1>4, ConstantsAssumption
       DEF DeleteJobs, Undeleted, NoNewWork, HasWork, WorkersLive, JobLive, Types, JobOK, Op
  <1>5. ASSUME DeleteWipeJob \/ WipeWaits \/ SkipWipe PROVE Calm
    <2>1. NoNewWork
      BY <1>4, <1>5 DEF DeleteWipeJob, WipeWaits, SkipWipe
    <2>2. PassKept
      BY <1>5 DEF DeleteWipeJob, WipeWaits, SkipWipe, ToStatus, PassKept
    <2> QED
      BY <1>5, <2>1, <2>2, CalmFrame DEF DeleteWipeJob, WipeWaits, SkipWipe, Calm
  <1>6. ASSUME RecordWipeSuccess PROVE Calm
    <2>1. OwnerKept /\ FreshKept
      BY <1>6 DEF RecordWipeSuccess, UpdateGs, OwnerKept, FreshKept, Types, GsOK, GameServer
    <2>2. PassKept
      BY <1>6 DEF RecordWipeSuccess, ToStatus, PassKept
    <2> QED
      BY <1>6, <2>1, <2>2, CalmFrame DEF RecordWipeSuccess, Calm
  <1>7. ASSUME FenceForWipe PROVE Calm
    <2>1. PassKept
      BY <1>7 DEF FenceForWipe, ToStatus, PassKept
    <2> QED
      BY <1>7, <2>1, CalmFrame DEF FenceForWipe, Calm
  <1> QED
    BY <1>1, <1>2, <1>3, <1>5, <1>6, <1>7 DEF Wipe, WipeMoves

-----------------------------------------------------------------------------
(* The invariant of wipes.                                                 *)

\* A calm step keeps the invariant of wipes.
LEMMA CalmKeepsWipe ==
  ASSUME WipeInv, Calm
  PROVE  WipeInv'
  BY DEF WipeInv, FreshOwns, WipeLauncherOwns, WipeReleaserDrained, WipeWorkOwned, OwnerUnacked,
         Calm, OwnerKept, FreshKept, NoNewWork, PassKept

\* While no wipe owns the server there is no worker of a wipe, and no pass is
\* launching or releasing one.
LEMMA NoWipeAtWork ==
  ASSUME WipeInv, gs.owner \notin Token
  PROVE  at \notin {"launch", "unfence", "release"} /\ \A t \in Token : ~HasWork(t)
  BY DEF WipeInv, WipeLauncherOwns, WipeReleaserDrained, WipeWorkOwned

\* A claim of a Backup or Restore finds no wipe at work.
LEMMA ClaimKeepsWipe ==
  ASSUME Types, WipeInv, NEW o \in CR, Claim(o, {}), UNCHANGED passVars
  PROVE  WipeInv'
  <1>1. gs.owner \notin Token /\ o \notin Token
    BY ConstantsAssumption DEF Claim, Claimable, Exists, Op
  <1>2. gs'.owner = o /\ gsFresh' = {}
    BY DEF Claim, UpdateGs, Claimed, Types, GsOK, GameServer
  <1>3. UNCHANGED <<job, pods, at, snap>>
    BY DEF Claim, jobVars, passVars
  <1> QED
    BY <1>1, <1>2, <1>3, NoWipeAtWork
       DEF WipeInv, FreshOwns, WipeLauncherOwns, WipeReleaserDrained, WipeWorkOwned, OwnerUnacked,
           HasWork

\* The end of a recovery does not touch wipes.
LEMMA FinishKeepsWipe ==
  ASSUME Types, WipeInv, NEW keep, FinishRecovery(keep), UNCHANGED passVars
  PROVE  WipeInv'
  <1>1. gs'.owner = gs.owner /\ gs'.wipeDone = gs.wipeDone /\ gsFresh' \subseteq gsFresh
    BY DEF FinishRecovery, UpdateGs, Types, GsOK, GameServer
  <1>2. UNCHANGED <<job, pods, at, snap>>
    BY DEF FinishRecovery, jobVars, passVars
  <1> QED
    BY <1>1, <1>2
       DEF WipeInv, FreshOwns, WipeLauncherOwns, WipeReleaserDrained, WipeWorkOwned, OwnerUnacked,
           HasWork

\* The launch and the release of a Restore or Backup keep the invariant of wipes.
LEMMA ObjectMovesKeepWipe ==
  ASSUME Types, WipeInv, NEW c \in CR, UNCHANGED passVars,
         \/ c \in Restore /\ RestoreMoves(c)
         \/ c \in Backup /\ BackupMoves(c)
  PROVE  WipeInv'
  <1>0. c \notin Token /\ c \in Op
    BY ConstantsAssumption DEF Op
  <1>1. ASSUME AuthorizeRestore(c) \/ ClearRestoreMarker(c) \/ AttemptQuiesce(c)
        PROVE  WipeInv'
    BY <1>1 DEF AuthorizeRestore, ClearRestoreMarker, AttemptQuiesce, KeepShared, gsVars, jobVars,
                passVars, WipeInv, FreshOwns, WipeLauncherOwns, WipeReleaserDrained,
                WipeWorkOwned, OwnerUnacked, HasWork
  <1>2. ASSUME CreateRestoreJob(c) \/ CreateBackupJob(c) PROVE WipeInv'
    <2>1. \A t \in Token : HasWork(t)' => HasWork(t)
      BY <1>0, <1>2 DEF CreateRestoreJob, CreateBackupJob, HasWork, Types, JobOK, Op
    <2> QED
      BY <1>2, <2>1 DEF CreateRestoreJob, CreateBackupJob, gsVars, passVars, WipeInv, FreshOwns,
                        WipeLauncherOwns, WipeReleaserDrained, WipeWorkOwned, OwnerUnacked
  <1>3. ASSUME ReleaseRestoreFence(c) \/ ReleaseBackupFence(c) PROVE WipeInv'
    <2>1. gs.owner = c /\ gsFresh' = gsFresh \cup {c} /\ UNCHANGED <<gs, job, pods, at, snap>>
      BY <1>3 DEF ReleaseRestoreFence, ReleaseBackupFence, Releasable, jobVars, passVars
    <2> QED
      BY <2>1 DEF WipeInv, FreshOwns, WipeLauncherOwns, WipeReleaserDrained, WipeWorkOwned,
                  OwnerUnacked, HasWork
  <1>4. ASSUME CommitRestore(c) \/ ReleaseBackupTarget(c) PROVE WipeInv'
    <2>1. gs.owner \notin Token
      BY <1>0, <1>4 DEF CommitRestore, ReleaseBackupTarget, WipeInv, FreshOwns
    <2>2. gs'.owner = None /\ gsFresh' = {} /\ UNCHANGED <<job, pods, at, snap>>
      BY <1>4, Zenon DEF CommitRestore, ReleaseBackupTarget, UpdateGs, jobVars, passVars, Types, GsOK,
                  GameServer
    <2> QED
      BY <2>1, <2>2, NoWipeAtWork, ConstantsAssumption
         DEF WipeInv, FreshOwns, WipeLauncherOwns, WipeReleaserDrained, WipeWorkOwned,
             OwnerUnacked, HasWork, Op
  <1> QED
    BY <1>1, <1>2, <1>3, <1>4, ClaimKeepsWipe, FinishKeepsWipe
       DEF RestoreMoves, BackupMoves, ClaimRestoreTarget, ClaimBackupTarget

\* The claim, the launch and the release of a wipe keep the invariant of wipes.
LEMMA WipeMovesKeepWipe ==
  ASSUME Types, WipeInv, WipeMoves
  PROVE  WipeInv'
  <1> USE DEF FreshOwns, WipeLauncherOwns, WipeReleaserDrained, WipeWorkOwned, OwnerUnacked
  <1>1. ASSUME ClaimWipe PROVE WipeInv'
    <2>1. gs.owner \notin Token
      BY <1>1, ConstantsAssumption DEF ClaimWipe, WipeGuard, Op
    <2>2. \A t \in Token : ~HasWork(t)
      BY <2>1, NoWipeAtWork
    <2>3. PendingWipe
      BY <1>1, <2>2 DEF ClaimWipe, NeedsWipeGuard, WipeBusy, WorkersLive, JobLive, HasWork
    <2>4. WipeTokens = {gs.wipeReq}
      BY <2>2 DEF WipeTokens, HasWork
    <2>5. gs'.owner = gs.wipeReq /\ gs'.wipeDone = gs.wipeDone /\ gsFresh' = {}
      BY <1>1, <2>4 DEF ClaimWipe, UpdateGs, Claimed, Types, GsOK, GameServer
    <2>6. at' \in {"start", "status"} /\ UNCHANGED <<job, pods>>
      BY <1>1 DEF ClaimWipe, EndPass, ToStatus, jobVars
    <2> QED
      BY <2>2, <2>3, <2>5, <2>6 DEF WipeInv, PendingWipe, HasWork
  <1>2. ASSUME AuthorizeWipe PROVE WipeInv'
    <2>1. gs.owner \in Token /\ WipeGuard = gs.owner
      BY <1>2, ConstantsAssumption DEF AuthorizeWipe, WipeReady, WipeGuard
    <2>2. at' = "launch" /\ snap'.owner = WipeGuard /\ UNCHANGED <<gs, gsFresh, job, pods>>
      BY <1>2 DEF AuthorizeWipe, gsVars, jobVars, Types, WorkloadTypeOK, Snapshot
    <2> QED
      BY <2>1, <2>2 DEF WipeInv, HasWork
  <1>3. ASSUME CreateWipeJob PROVE WipeInv'
    <2>1. gs.owner = snap.owner /\ at' = "status" /\ UNCHANGED <<gs, gsFresh, pods>>
      BY <1>3 DEF CreateWipeJob, ToStatus, gsVars, WipeInv
    <2>2. \A t \in Token : HasWork(t)' => HasWork(t) \/ t = gs.owner
      BY <1>3, <2>1 DEF CreateWipeJob, HasWork, Types, JobOK, Op
    <2> QED
      BY <2>1, <2>2 DEF WipeInv
  <1>4. ASSUME ClearWipeWorkloadGuard PROVE WipeInv'
    <2>1. gs.owner \in Token
      BY <1>4, ConstantsAssumption DEF ClearWipeWorkloadGuard, WipeReady, WipeGuard
    <2>2. \A t \in Token : ~HasWork(t)
      BY <1>4 DEF ClearWipeWorkloadGuard, CanRelease, NoWipeJob, WipeBusy, WorkersLive, JobLive,
                  HasWork
    <2>3. at' = "unfence" /\ gsFresh' = gsFresh \cup {"pass"} /\ UNCHANGED <<gs, job, pods>>
      BY <1>4 DEF ClearWipeWorkloadGuard, jobVars
    <2> QED
      BY <2>1, <2>2, <2>3, ConstantsAssumption DEF WipeInv, HasWork
  <1>5. ASSUME ReleaseWipeFence PROVE WipeInv'
    BY <1>5 DEF ReleaseWipeFence, gsVars, jobVars, WipeInv, HasWork
  <1>6. ASSUME ReleaseWipeGuard PROVE WipeInv'
    <2>1. \A t \in Token : ~HasWork(t)
      BY <1>6 DEF ReleaseWipeGuard, WipeInv
    <2>2. \/ gs'.owner = None
          \/ PendingWipe /\ gs'.owner = gs.wipeReq /\ gs'.wipeDone = gs.wipeDone
      BY <1>6 DEF ReleaseWipeGuard, UpdateGs, WipeReleased, Types, GsOK, GameServer
    <2>3. gsFresh' = {} /\ at' = "status" /\ UNCHANGED <<job, pods>>
      BY <1>6 DEF ReleaseWipeGuard, UpdateGs, ToStatus, jobVars
    <2> QED
      BY <2>1, <2>2, <2>3, ConstantsAssumption DEF WipeInv, PendingWipe, HasWork, Op
  <1> QED
    BY <1>1, <1>2, <1>3, <1>4, <1>5, <1>6, FinishKeepsWipe DEF WipeMoves

\* Every step keeps the invariant of wipes.
LEMMA NextKeepsWipe ==
  ASSUME TypeOK, WipeInv, [Next]_vars
  PROVE  WipeInv'
  <1>1. Types
    BY TypeGroups
  <1>2. ASSUME Next PROVE WipeInv'
    <2>1. CASE Workload
      BY <1>1, <2>1, WorkloadCalm, CalmKeepsWipe
    <2>2. CASE Wipe
      BY <1>1, <2>2, WipeCalm, CalmKeepsWipe, WipeMovesKeepWipe
    <2>3. CASE Restoring /\ UNCHANGED passVars
      BY <1>1, <2>3, RestoreCalm, CalmKeepsWipe, ObjectMovesKeepWipe DEF CR
    <2>4. CASE BackingUp /\ UNCHANGED passVars
      BY <1>1, <2>4, BackupCalm, CalmKeepsWipe, ObjectMovesKeepWipe DEF CR
    <2>5. CASE (StatefulSetController \/ JobController \/ User) /\ UNCHANGED passVars
      BY <1>1, <2>5, KubernetesCalm, UserCalm, CalmKeepsWipe
    <2> QED
      BY <1>2, <2>1, <2>2, <2>3, <2>4, <2>5 DEF Next
  <1>3. ASSUME UNCHANGED vars PROVE WipeInv'
    BY <1>3, CalmFrame, CalmKeepsWipe DEF vars, objectVars, Calm
  <1> QED
    BY <1>2, <1>3

\* No wipe is under way when the operator starts (ObjectsInit, WorkloadInit).
LEMMA InitialWipe == Init => WipeInv
  <1> SUFFICES ASSUME Init PROVE WipeInv
    OBVIOUS
  <1>1. gsFresh = {} /\ gs.owner = None /\ at = "start"
    BY DEF Init, ObjectsInit, WorkloadInit
  <1>2. \A t \in Token : ~HasWork(t)
    <2>1. job = [o \in Op |-> "none"] /\ pods = [o \in Op |-> 0] /\ Token \subseteq Op
      BY DEF Init, ObjectsInit, Op
    <2> QED
      BY <2>1 DEF HasWork
  <1>3. None \notin Token
    BY ConstantsAssumption DEF Op
  <1> QED
    BY <1>1, <1>2, <1>3
       DEF WipeInv, FreshOwns, WipeLauncherOwns, WipeReleaserDrained, WipeWorkOwned, OwnerUnacked

\* An acknowledged wipe has no worker and never gets one again, however the passes
\* of the operator are interrupted, whatever is deleted by force, and however often
\* the request is replaced or withdrawn (reconcileWipe, releaseWipeGuard).
THEOREM AckedWipesStayQuiet == Spec => []AckedWipeQuiet
  <1>1. TypeOK /\ WipeInv => AckedWipeQuiet
    BY DEF WipeInv, WipeWorkOwned, OwnerUnacked, HasWork, AckedWipeQuiet, WorkersLive, JobLive
  <1> QED
    BY <1>1, InitialWipe, NextKeepsWipe, TypeCorrect, PTL DEF Spec

-----------------------------------------------------------------------------
(* The invariant of ownership.                                             *)

\* A calm step keeps the invariant of ownership.
LEMMA CalmKeepsOwnership ==
  ASSUME ForceDeletes # "any", OwnershipInv, Calm
  PROVE  OwnershipInv'
  <1> USE DEF Calm, OwnershipInv
  <1>1. Finalized' /\ LauncherOwns'
    BY DEF Finalized, LauncherOwns, OwnerKept, ReconcilesKept, CR
  <1>2. ReleaserDrained'
    BY DEF ReleaserDrained, Releasing, NoNewWork, ReconcilesKept
  <1>3. CRAccounted'
    BY DEF CRAccounted, OwnerKept, NoNewWork
  <1> QED
    BY <1>1, <1>2, <1>3

\* A claim keeps the invariant of ownership: it takes over from an operation that
\* is gone, which is therefore not about to create its Job, and records it.
LEMMA ClaimKeepsOwnership ==
  ASSUME Types, OwnershipInv, NEW o \in Op, NEW keep, Claimable(o), UpdateGs(Claimed(o), keep),
         UNCHANGED <<jobVars, crVars>>
  PROVE  OwnershipInv'
  <1>1. gs'.owner = o /\ gs'.recovery = gs.recovery \cup ({gs.owner} \ {None, o})
    BY DEF UpdateGs, Claimed, Types, GsOK, GameServer
  <1>2. UNCHANGED <<job, pods, phase, bound, pc>>
    BY DEF jobVars, crVars
  <1>3. ASSUME NEW r \in Restore, pc[r] = "launch" PROVE o = r
    BY <1>3, ConstantsAssumption DEF OwnershipInv, Finalized, LauncherOwns, Claimable, Op, CR
  <1>4. Finalized' /\ LauncherOwns' /\ ReleaserDrained'
    BY <1>1, <1>2, <1>3 DEF OwnershipInv, Finalized, LauncherOwns, ReleaserDrained, Exists,
                            WorkersLive, JobLive
  <1>5. CRAccounted'
    BY <1>1, <1>2, ConstantsAssumption DEF OwnershipInv, CRAccounted, WorkersLive, JobLive, Op
  <1> QED
    BY <1>4, <1>5 DEF OwnershipInv

\* The record of a predecessor is dropped after its workers.
LEMMA FinishKeepsOwnership ==
  ASSUME Types, OwnershipInv, NEW keep, FinishRecovery(keep)
  PROVE  OwnershipInv'
  <1>1. gs'.owner = gs.owner /\ \A p \in gs.recovery : ~WorkersLive(p)
    BY DEF FinishRecovery, RecoveryStopped, RecoveryDrained, UpdateGs, Types, GsOK, GameServer
  <1>2. UNCHANGED <<job, pods, phase, bound, pc>>
    BY DEF FinishRecovery, jobVars, crVars
  <1> QED
    BY <1>1, <1>2 DEF OwnershipInv, Finalized, LauncherOwns, ReleaserDrained, CRAccounted, Exists,
                      WorkersLive, JobLive

\* The launch and the release of a Restore or Backup keep the invariant.
LEMMA ObjectMovesKeepOwnership ==
  ASSUME Types, WipeInv, OwnershipInv, NEW c \in CR, UNCHANGED passVars,
         \/ c \in Restore /\ RestoreMoves(c)
         \/ c \in Backup /\ BackupMoves(c)
  PROVE  OwnershipInv'
  <1>0. c \in Op /\ CR \subseteq Op /\ Restore \subseteq CR
    BY DEF Op, CR
  <1>1. ASSUME c \in Restore, AuthorizeRestore(c) PROVE OwnershipInv'
    <2>1. gs.owner = c /\ c \in bound /\ Exists(c)
      BY <1>1 DEF AuthorizeRestore, Launching, HoldsTarget, Claiming, Reconciling
    <2>2. pc' = [pc EXCEPT ![c] = "launch"] /\ UNCHANGED <<gs, job, pods, phase, bound>>
      BY <1>1 DEF AuthorizeRestore, Step, KeepShared, gsVars, jobVars
    <2> QED
      BY <1>0, <2>1, <2>2, SMTT(20), ZenonT(20)
         DEF OwnershipInv, Finalized, LauncherOwns, ReleaserDrained, CRAccounted, Releasing,
             Exists, WorkersLive, JobLive, Types, CrOK
  <1>2. ASSUME c \in Restore, CreateRestoreJob(c) PROVE OwnershipInv'
    <2>1. gs.owner = c
      BY <1>2 DEF CreateRestoreJob, OwnershipInv, LauncherOwns
    <2>2. /\ pc' = [pc EXCEPT ![c] = "idle"] /\ job' = [job EXCEPT ![c] = "active"]
          /\ UNCHANGED <<gs, pods, phase, bound>>
      BY <1>2 DEF CreateRestoreJob, Step, gsVars
    <2> QED
      BY <1>0, <2>1, <2>2, SMTT(20), ZenonT(20)
         DEF OwnershipInv, Finalized, LauncherOwns, ReleaserDrained, CRAccounted, Releasing,
             Exists, WorkersLive, JobLive, Types, CrOK, JobOK
  <1>3. ASSUME c \in Backup, CreateBackupJob(c) PROVE OwnershipInv'
    <2>1. gs.owner = c /\ pc[c] = "idle"
      BY <1>3 DEF CreateBackupJob, Prepared, FenceObserved, Admitted, Working, Owns
    <2>2. job' = [job EXCEPT ![c] = "active"] /\ UNCHANGED <<gs, pods, phase, bound, pc>>
      BY <1>3 DEF CreateBackupJob, gsVars, crVars
    <2> QED
      BY <1>0, <2>1, <2>2
         DEF OwnershipInv, Finalized, LauncherOwns, ReleaserDrained, CRAccounted, Releasing,
             Exists, WorkersLive, JobLive, Types, CrOK, JobOK
  <1>4. ASSUME c \in Backup, AttemptQuiesce(c) PROVE OwnershipInv'
    <2>1. pc' = [pc EXCEPT ![c] = "quiesce"] /\ UNCHANGED <<gs, job, pods, phase, bound>>
      BY <1>4 DEF AttemptQuiesce, Step, KeepShared, gsVars, jobVars
    <2> QED
      BY <1>0, <2>1
         DEF OwnershipInv, Finalized, LauncherOwns, ReleaserDrained, CRAccounted, Releasing,
             Exists, WorkersLive, JobLive, Types, CrOK
  <1>5. ASSUME ReleaseRestoreFence(c) \/ ReleaseBackupFence(c) \/ ClearRestoreMarker(c)
        PROVE  OwnershipInv'
    <2>1. ~WorkersLive(c)
      BY <1>5 DEF ReleaseRestoreFence, ReleaseBackupFence, ClearRestoreMarker, Releasable, Quiet,
                  Idle, OwnershipInv, ReleaserDrained, Releasing
    <2>2. PICK to \in Releasing : pc' = [pc EXCEPT ![c] = to]
      BY <1>5 DEF ReleaseRestoreFence, ReleaseBackupFence, ClearRestoreMarker, Step, Releasing
    <2>3. UNCHANGED <<gs, job, pods, phase, bound>>
      BY <1>5 DEF ReleaseRestoreFence, ReleaseBackupFence, ClearRestoreMarker, gsVars, jobVars
    <2> QED
      BY <1>0, <2>1, <2>2, <2>3
         DEF OwnershipInv, Finalized, LauncherOwns, ReleaserDrained, CRAccounted, Releasing,
             Exists, WorkersLive, JobLive, Types, CrOK
  <1>6. ASSUME CommitRestore(c) \/ ReleaseBackupTarget(c) PROVE OwnershipInv'
    <2>1. gs.owner = c
      BY <1>6 DEF CommitRestore, ReleaseBackupTarget, WipeInv, FreshOwns
    <2>2. ~WorkersLive(c) /\ pc[c] # "launch"
      BY <1>6 DEF CommitRestore, ReleaseBackupTarget, OwnershipInv, ReleaserDrained, Releasing
    <2>3. /\ gs'.owner = None /\ gs'.recovery = gs.recovery
          /\ pc' = [pc EXCEPT ![c] = "idle"] /\ UNCHANGED <<job, pods, phase, bound>>
      BY <1>6, Zenon DEF CommitRestore, ReleaseBackupTarget, UpdateGs, Step, jobVars, Types, GsOK,
                  GameServer
    <2> QED
      BY <1>0, <2>1, <2>2, <2>3
         DEF OwnershipInv, Finalized, LauncherOwns, ReleaserDrained, CRAccounted, Releasing,
             Exists, WorkersLive, JobLive, Types, CrOK
  <1>7. ASSUME Claim(c, {}) PROVE OwnershipInv'
    BY <1>0, <1>7, ClaimKeepsOwnership DEF Claim
  <1> QED
    BY <1>1, <1>2, <1>3, <1>4, <1>5, <1>6, <1>7, FinishKeepsOwnership
       DEF RestoreMoves, BackupMoves, ClaimRestoreTarget, ClaimBackupTarget

\* The moves of a wipe keep the invariant: they concern no other operation.
LEMMA WipeMovesKeepOwnership ==
  ASSUME Types, WipeInv, OwnershipInv, WipeMoves
  PROVE  OwnershipInv'
  <1>0. /\ CR \subseteq Op /\ Token \subseteq Op /\ Restore \subseteq CR
        /\ \A c \in CR : c \notin Token /\ c # None
    BY ConstantsAssumption DEF Op, CR
  <1>1. ASSUME ClaimWipe PROVE OwnershipInv'
    <2>1. PICK t \in WipeTokens : Claimable(t) /\ UpdateGs(Claimed(t), {})
      BY <1>1 DEF ClaimWipe
    <2>2. t \in Op
      BY <1>0, <1>1, <2>1, WipeTokensTokens DEF ClaimWipe
    <2>3. UNCHANGED <<jobVars, crVars>>
      BY <1>1 DEF ClaimWipe
    <2> QED
      BY <2>1, <2>2, <2>3, ClaimKeepsOwnership
  <1>2. ASSUME AuthorizeWipe \/ ClearWipeWorkloadGuard \/ ReleaseWipeFence PROVE OwnershipInv'
    <2>1. UNCHANGED <<gs, job, pods, phase, bound, pc>>
      BY <1>2 DEF AuthorizeWipe, ClearWipeWorkloadGuard, ReleaseWipeFence, gsVars, jobVars, crVars
    <2> QED
      BY <2>1 DEF OwnershipInv, Finalized, LauncherOwns, ReleaserDrained, CRAccounted, Exists,
                  WorkersLive, JobLive
  <1>3. ASSUME CreateWipeJob PROVE OwnershipInv'
    <2>1. \A c \in CR : job'[c] = job[c]
      BY <1>0, <1>3 DEF CreateWipeJob, Types, JobOK, WipeInv, WipeLauncherOwns
    <2>2. UNCHANGED <<gs, pods, phase, bound, pc>>
      BY <1>3 DEF CreateWipeJob, gsVars, crVars
    <2> QED
      BY <1>0, <2>1, <2>2 DEF OwnershipInv, Finalized, LauncherOwns, ReleaserDrained, CRAccounted,
                              Exists, WorkersLive, JobLive
  <1>4. ASSUME ReleaseWipeGuard PROVE OwnershipInv'
    <2>1. gs.owner \in Token
      BY <1>4 DEF ReleaseWipeGuard, WipeInv, WipeReleaserDrained
    <2>2. gs'.recovery = gs.recovery
      BY <1>4 DEF ReleaseWipeGuard, UpdateGs, WipeReleased, Types, GsOK, GameServer
    <2>3. UNCHANGED <<job, pods, phase, bound, pc>>
      BY <1>4 DEF ReleaseWipeGuard, jobVars, crVars
    <2> QED
      BY <1>0, <2>1, <2>2, <2>3 DEF OwnershipInv, Finalized, LauncherOwns, ReleaserDrained,
                                    CRAccounted, Exists, WorkersLive, JobLive
  <1> QED
    BY <1>1, <1>2, <1>3, <1>4, FinishKeepsOwnership DEF WipeMoves

\* Every step keeps the invariant of ownership.
LEMMA NextKeepsOwnership ==
  ASSUME ForceDeletes # "any", TypeOK, WipeInv, OwnershipInv, [Next]_vars
  PROVE  OwnershipInv'
  <1>1. Types
    BY TypeGroups
  <1>2. ASSUME Next PROVE OwnershipInv'
    <2>1. CASE Workload
      BY <1>1, <2>1, WorkloadCalm, CalmKeepsOwnership
    <2>2. CASE Wipe
      BY <1>1, <2>2, WipeCalm, CalmKeepsOwnership, WipeMovesKeepOwnership
    <2>3. CASE Restoring /\ UNCHANGED passVars
      BY <1>1, <2>3, RestoreCalm, CalmKeepsOwnership, ObjectMovesKeepOwnership DEF CR
    <2>4. CASE BackingUp /\ UNCHANGED passVars
      BY <1>1, <2>4, BackupCalm, CalmKeepsOwnership, ObjectMovesKeepOwnership DEF CR
    <2>5. CASE (StatefulSetController \/ JobController \/ User) /\ UNCHANGED passVars
      BY <1>1, <2>5, KubernetesCalm, UserCalm, CalmKeepsOwnership
    <2> QED
      BY <1>2, <2>1, <2>2, <2>3, <2>4, <2>5 DEF Next
  <1>3. ASSUME UNCHANGED vars PROVE OwnershipInv'
    BY <1>3, CalmFrame, CalmKeepsOwnership DEF vars, objectVars, Calm
  <1> QED
    BY <1>2, <1>3

\* Nothing is reconciled and nothing runs when the operator is installed.
LEMMA InitialOwnership == Init => OwnershipInv
  <1>1. ASSUME Init PROVE OwnershipInv
    <2>1. \A c \in CR : pc[c] = "idle"
      BY <1>1 DEF Init, ObjectsInit
    <2>2. \A o \in Op : job[o] = "none" /\ pods[o] = 0
      BY <1>1 DEF Init, ObjectsInit
    <2>3. \A c \in CR : ~WorkersLive(c)
      BY <2>2 DEF WorkersLive, JobLive, Op
    <2> QED
      BY <2>1, <2>3 DEF OwnershipInv, Finalized, LauncherOwns, ReleaserDrained, Releasing,
                  CRAccounted, CR
  <1> QED
    BY <1>1

\* A live worker always belongs to the owner of the server or to a vanished owner
\* that is recorded for recovery, provided that no finalizer is stripped between
\* the last check of a Restore and the creation of its Job: the claim, the takeover
\* and the release of lifecycle_operation.go never lose track of a writer.
THEOREM WorkersStayAccounted ==
  ASSUME ForceDeletes # "any"
  PROVE  Spec => []WorkersAccounted
  <1>1. Init => OwnershipInv
    BY InitialOwnership
  <1>2. TypeOK /\ WipeInv /\ OwnershipInv => WorkersAccounted
    BY DEF WipeInv, WipeWorkOwned, HasWork, OwnershipInv, CRAccounted, WorkersAccounted,
           WorkersLive, JobLive, Op, CR
  <1>3. TypeOK /\ WipeInv /\ OwnershipInv /\ [Next]_vars => OwnershipInv'
    BY NextKeepsOwnership
  <1> QED
    BY <1>1, <1>2, <1>3, InitialWipe, NextKeepsWipe, TypeCorrect, PTL DEF Spec
=============================================================================
