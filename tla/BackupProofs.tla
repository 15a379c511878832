---------------------------- MODULE BackupProofs ----------------------------
(***************************************************************************)
(* What a copy owes to the game and what the workload owes to a copy: the  *)
(* cleanup debt of a save-off call, the replica count that stays as it is  *)
(* under a copy, and the stop command that is never sent under one.        *)
(***************************************************************************)
EXTENDS ExclusionProofs

\* The predecessors to recover have vanished.
RecoveryGone == \A c \in gs.recovery : c \in CR /\ phase[c] = "gone"

\* An owner that exists carries its finalizer.
OwnerFinalized == gs.owner \in CR /\ Exists(gs.owner) => gs.owner \in bound

\* A Backup about to make the save-off call exists, owns the server and has recorded
\* the debt and the attempt.
CallerOwes ==
    \A b \in Backup : pc[b] = "quiesce" =>
        /\ gs.owner = b /\ b \in gs.debt /\ copy[b].attempt = "pending"
        /\ Exists(b)

\* A Backup that is releasing the server has settled its attempt.
ReleaserSettled ==
    \A b \in Backup : pc[b] = "release" => copy[b].attempt \notin {"pending", "done"}

\* While saving is disabled a Backup that attempted it, in this very pod, owns the
\* server or is to be recovered, and its debt is on record.
QuiescedBy ==
    process.quiesced =>
        \E b \in gs.debt \cap same : /\ b = gs.owner \/ b \in gs.recovery
                                     /\ copy[b].attempt \in {"pending", "done"}

QuiesceInv == RecoveryGone /\ OwnerFinalized /\ CallerOwes /\ ReleaserSettled /\ QuiescedBy

-----------------------------------------------------------------------------
(* How the records of ownership change.                                    *)

RecordsKept == gs'.owner = gs.owner /\ gs'.recovery = gs.recovery

\* A claim takes over from a vanished owner, which is recovered later.
Takes(o) ==
    /\ Claimable(o)
    /\ gs'.owner = o /\ gs'.recovery = gs.recovery \cup ({gs.owner} \ {None, o})
    /\ UNCHANGED crVars
    /\ o \in CR => pc[o] = "idle" /\ Exists(o) /\ ~Done(o) /\ o \in bound

Recovers ==
    /\ gs'.owner = gs.owner /\ gs'.recovery = {}
    /\ \E keep : FinishRecovery(keep)

Releases ==
    /\ gs'.owner \in Token \cup {None} /\ gs'.recovery = gs.recovery
    /\ \/ gs.owner \in Token
       \/ gs.owner \in Restore /\ pc[gs.owner] \in {"resume", "keep"}
       \/ gs.owner \in Backup /\ pc[gs.owner] = "release"
    /\ UNCHANGED <<phase, bound, copy>>

\* Ownership is kept, claimed, recovered from or released.
LEMMA NextRecords ==
  ASSUME Types, WipeInv, Next
  PROVE  RecordsKept \/ (\E o \in Op : Takes(o)) \/ Recovers \/ Releases
  <1>0. None \notin CR /\ Restore \subseteq CR /\ Backup \subseteq CR /\ CR \subseteq Op
        /\ CR \cap Token = {} /\ Token \subseteq Op
    BY ConstantsAssumption DEF CR, Op
  <1>1. ASSUME NEW o \in Op
        PROVE  /\ Claimed(o).owner = o
               /\ Claimed(o).recovery = gs.recovery \cup ({gs.owner} \ {None, o})
    BY DEF Claimed, Types, GsOK, GameServer
  <1>2. ASSUME NEW keep, FinishRecovery(keep) PROVE Recovers
    BY <1>2 DEF FinishRecovery, UpdateGs, Recovers, Types, GsOK, GameServer
  <1>3. Calm => RecordsKept
    BY DEF Calm, OwnerKept, RecordsKept
  <1>4. ASSUME NEW r \in Restore, RestoreMoves(r)
        PROVE  RecordsKept \/ (\E o \in Op : Takes(o)) \/ Recovers \/ Releases
    <2>1. CASE ClaimRestoreTarget(r)
      <3>1. pc[r] = "idle" /\ Exists(r) /\ ~Done(r) /\ r \in bound
        BY <2>1, <1>0, ConstantsAssumption DEF ClaimRestoreTarget, Claiming, Reconciling, Terminal, Done, Exists
      <3> QED
        BY <1>0, <1>1, <2>1, <3>1 DEF ClaimRestoreTarget, Claim, UpdateGs, Takes
    <2>2. CASE CommitRestore(r)
      <3>1. gs.owner = r
        BY <1>0, <2>2 DEF CommitRestore, WipeInv, FreshOwns
      <3> QED
        BY <1>0, <2>2, <3>1 DEF CommitRestore, UpdateGs, Releases, Types, GsOK, GameServer
    <2>3. CASE \/ AuthorizeRestore(r) \/ CreateRestoreJob(r)
               \/ ReleaseRestoreFence(r) \/ ClearRestoreMarker(r)
      BY <2>3 DEF AuthorizeRestore, CreateRestoreJob, ReleaseRestoreFence,
                  ClearRestoreMarker, KeepShared, gsVars, RecordsKept
    <2> QED
      BY <1>2, <1>4, <2>1, <2>2, <2>3 DEF RestoreMoves
  <1>5. ASSUME NEW b \in Backup, BackupMoves(b)
        PROVE  RecordsKept \/ (\E o \in Op : Takes(o)) \/ Recovers \/ Releases
    <2>1. CASE ClaimBackupTarget(b)
      <3>1. pc[b] = "idle" /\ Exists(b) /\ ~Done(b) /\ b \in bound
        BY <1>0, <2>1 DEF ClaimBackupTarget, Working, Active, Done, Exists
      <3> QED
        BY <1>0, <1>1, <2>1, <3>1 DEF ClaimBackupTarget, Claim, UpdateGs, Takes
    <2>2. CASE ReleaseBackupTarget(b)
      <3>1. gs.owner = b
        BY <1>0, <2>2 DEF ReleaseBackupTarget, WipeInv, FreshOwns
      <3> QED
        BY <1>0, <2>2, <3>1 DEF ReleaseBackupTarget, UpdateGs, Releases, Types, GsOK,
                                GameServer
    <2>3. CASE CreateBackupJob(b) \/ AttemptQuiesce(b) \/ ReleaseBackupFence(b)
      BY <2>3 DEF CreateBackupJob, AttemptQuiesce, ReleaseBackupFence, KeepShared, gsVars, RecordsKept
    <2> QED
      BY <1>2, <1>5, <2>1, <2>2, <2>3 DEF BackupMoves
  <1>6. ASSUME WipeMoves
        PROVE  RecordsKept \/ (\E o \in Op : Takes(o)) \/ Recovers \/ Releases
    <2>1. CASE ClaimWipe
      <3>1. PICK t \in WipeTokens : Claimable(t) /\ gs' = Claimed(t)
        BY <2>1 DEF ClaimWipe, UpdateGs
      <3>2. t \in Token
        BY <2>1, <3>1, WipeTokensTokens DEF ClaimWipe
      <3> QED
        BY <1>0, <1>1, <2>1, <3>1, <3>2 DEF ClaimWipe, Takes
    <2>2. CASE ReleaseWipeGuard
      <3>1. gs.owner \in Token
        BY <2>2 DEF ReleaseWipeGuard, WipeInv, WipeReleaserDrained
      <3>2. gs'.owner \in Token \cup {None} /\ gs'.recovery = gs.recovery
        BY <2>2 DEF ReleaseWipeGuard, UpdateGs, WipeReleased, Types, GsOK, GameServer
      <3> QED
        BY <2>2, <3>1, <3>2 DEF ReleaseWipeGuard, Releases, crVars
    <2>3. CASE AuthorizeWipe \/ CreateWipeJob \/ ClearWipeWorkloadGuard \/ ReleaseWipeFence
      BY <2>3 DEF AuthorizeWipe, CreateWipeJob, ClearWipeWorkloadGuard, ReleaseWipeFence, gsVars,
                  RecordsKept
    <2> QED
      BY <1>2, <1>6, <2>1, <2>2, <2>3 DEF WipeMoves
  <1> QED
    BY <1>3, <1>4, <1>5, <1>6, WorkloadCalm, WipeCalm, RestoreCalm, BackupCalm,
       KubernetesCalm, UserCalm DEF Next

\* A reconcile comes to the save-off call and to the release by one action each, and
\* an object that is being reconciled does not vanish.
ReconcilesOnly ==
    /\ \A b \in Backup : pc'[b] = "quiesce" => pc[b] = "quiesce" \/ AttemptQuiesce(b)
    /\ \A b \in Backup : pc'[b] = "release" => pc[b] = "release" \/ ReleaseBackupFence(b)
    /\ \A c \in CR : pc'[c] # "idle" /\ pc[c] # "idle" /\ c \in bound /\ Exists(c)
                        => c \in bound' /\ Exists(c)'

\* Every step has these properties: the two places are reached from the checks before
\* them, and force deletion waits for the end of the reconcile.
LEMMA NextReconciles ==
  ASSUME ForceDeletes # "any", Types, Next
  PROVE  ReconcilesOnly
  <1>0. Restore \subseteq CR /\ Backup \subseteq CR /\ Backup \cap Restore = {}
    BY ConstantsAssumption DEF CR
  <1>1. Calm => ReconcilesOnly
    BY <1>0 DEF Calm, ReconcilesKept, ReconcilesOnly
  <1>2. ASSUME NEW r \in Restore, RestoreMoves(r) PROVE ReconcilesOnly
    <2>1. UNCHANGED <<phase, bound>> /\ \A b \in Backup : pc'[b] = pc[b]
      BY <1>0, <1>2 DEF RestoreMoves, ClaimRestoreTarget, Claim, FinishRecovery, AuthorizeRestore,
           CreateRestoreJob, ReleaseRestoreFence, ClearRestoreMarker, CommitRestore, Step, crVars,
           Types, CrOK
    <2> QED
      BY <2>1 DEF ReconcilesOnly, Exists
  <1>3. ASSUME NEW b \in Backup, BackupMoves(b) PROVE ReconcilesOnly
    <2>1. UNCHANGED <<phase, bound>>
      BY <1>3 DEF BackupMoves, ClaimBackupTarget, Claim, FinishRecovery, CreateBackupJob,
           AttemptQuiesce, ReleaseBackupFence, ReleaseBackupTarget, crVars
    <2>2. CASE ClaimBackupTarget(b) \/ FinishRecovery({}) \/ CreateBackupJob(b)
      BY <2>1, <2>2 DEF ClaimBackupTarget, Claim, FinishRecovery, CreateBackupJob, crVars,
                        ReconcilesOnly, Exists
    <2>3. CASE AttemptQuiesce(b) \/ ReleaseBackupFence(b) \/ ReleaseBackupTarget(b)
      <3>1. \A p \in CR \ {b} : pc'[p] = pc[p]
        BY <2>3 DEF AttemptQuiesce, ReleaseBackupFence, ReleaseBackupTarget, Step, Types, CrOK
      <3>2. \/ pc'[b] = "quiesce" /\ AttemptQuiesce(b)
            \/ pc'[b] = "release" /\ ReleaseBackupFence(b)
            \/ pc'[b] = "idle"
        BY <1>0, <2>3 DEF AttemptQuiesce, ReleaseBackupFence, ReleaseBackupTarget, Step, Types, CrOK
      <3> QED
        BY <1>0, <2>1, <3>1, <3>2 DEF ReconcilesOnly, Exists
    <2> QED
      BY <1>3, <2>2, <2>3 DEF BackupMoves
  <1>4. ASSUME WipeMoves PROVE ReconcilesOnly
    <2>1. UNCHANGED <<phase, bound, pc>>
      BY <1>4 DEF WipeMoves, ClaimWipe, FinishRecovery, AuthorizeWipe, CreateWipeJob,
                  ClearWipeWorkloadGuard, ReleaseWipeFence, ReleaseWipeGuard, crVars
    <2> QED
      BY <2>1 DEF ReconcilesOnly, Exists
  <1> QED
    BY <1>1, <1>2, <1>3, <1>4, WorkloadCalm, WipeCalm, RestoreCalm, BackupCalm,
       KubernetesCalm, UserCalm DEF Next

-----------------------------------------------------------------------------
(* Which steps touch saving, the debts and the attempts.                   *)

SavingKept ==
    /\ gs'.debt = gs.debt
    /\ process'.quiesced => process.quiesced /\ same \subseteq same'
    /\ \A b \in Backup : copy'[b].attempt = copy[b].attempt

SavingMoves(b) ==
    \/ RecordIntent(b) \/ AttemptQuiesce(b) \/ CallQuiesce(b) \/ QuiesceUnsupported(b)
    \/ RecordUnquiesced(b) \/ ReleaseBackupTarget(b)

\* A step that leaves the debts, the game and the attempts alone.
LEMMA SavingFrame ==
  /\ gs'.debt = gs.debt /\ UNCHANGED <<podVars, copy>> => SavingKept
  /\ UNCHANGED <<gsVars, podVars, copy>> => SavingKept
  BY DEF SavingKept, podVars, gsVars

\* So is a recovery that does not finish.
LEMMA SavingRecovery ==
  ASSUME Types, NEW keep, RecoverLifecycleOperation(keep)
  PROVE  SavingKept \/ FinishRecovery(keep)
  <1>1. ASSUME NEW p, CancelWorkers(p) PROVE SavingKept
    <2>1. UNCHANGED <<gsVars, podVars>> /\ \A b \in Backup : copy'[b].attempt = copy[b].attempt
      BY <1>1 DEF CancelWorkers, DeleteJob, RevokeStart, crVars, Types, CrOK, Copy
    <2> QED
      BY <2>1 DEF SavingKept, podVars, gsVars
  <1>2. StampForRecovery => SavingKept
    BY SavingFrame DEF StampForRecovery, StampRestoreGuard, crVars
  <1>3. ASSUME NEW p, SaveOn(p) PROVE SavingKept
    BY <1>3 DEF SaveOn, SavingKept, gsVars, crVars, Types, PodOK
  <1> QED
    BY <1>1, <1>2, <1>3 DEF RecoverLifecycleOperation

\* The steps of a pass keep the debts and the attempts.
LEMMA PassSaving ==
  ASSUME Types, Workload \/ Wipe
  PROVE  SavingKept \/ \E keep : FinishRecovery(keep)
  <1>1. CASE PassAborts \/ RenderWorkload \/ WriteWorkload \/ WorkloadUnchanged \/ PatchStatus
    BY <1>1, SavingFrame, Zenon DEF PassAborts, RenderWorkload, WriteWorkload, WorkloadUnchanged,
                             PatchStatus, gsVars, crVars
  <1>2. CASE DesiredReplicas
    <2>1. gs'.debt = gs.debt
      BY <1>2, ZenonT(30) DEF DesiredReplicas, DecidePreserving, DecideTaken, DecideGuarded, DecideRestarted,
                  DecideStopping, DecideRunning, SoftStop, KeepGs, UpdateGs, Types, GsOK, GameServer
    <2> QED
      BY <1>2, <2>1, SavingFrame DEF DesiredReplicas, crVars
  <1>3. CASE IssueStopSequence
    <2>1. process'.quiesced = process.quiesced
      BY <1>3 DEF IssueStopSequence, Types, PodOK
    <2> QED
      BY <1>3, <2>1 DEF IssueStopSequence, SavingKept, gsVars, crVars
  <1>4. CASE ClaimWipe \/ AssertWipe \/ RecordWipeSuccess \/ ReleaseWipeGuard
    <2>1. \A o : Claimed(o).debt = gs.debt
      BY DEF Claimed, Types, GsOK, GameServer
    <2>2. gs'.debt = gs.debt
      BY <1>4, <2>1, Zenon DEF ClaimWipe, AssertWipe, RecordWipeSuccess, ReleaseWipeGuard, WipeReleased,
                        UpdateGs, Types, GsOK, GameServer
    <2> QED
      BY <1>4, <2>2, SavingFrame DEF ClaimWipe, AssertWipe, RecordWipeSuccess, ReleaseWipeGuard, crVars
  <1>5. CASE RecoverWipe
    BY <1>5, SavingRecovery, SMTT(20), ZenonT(20) DEF RecoverWipe
  <1>6. CASE \/ StartPass \/ DeleteWipeJob \/ FenceForWipe \/ AuthorizeWipe \/ CreateWipeJob
             \/ ClearWipeWorkloadGuard \/ ReleaseWipeFence \/ WipeWaits \/ SkipWipe
    BY <1>6, SavingFrame DEF StartPass, DeleteWipeJob, FenceForWipe, AuthorizeWipe, CreateWipeJob,
         ClearWipeWorkloadGuard, ReleaseWipeFence, WipeWaits, SkipWipe, gsVars, crVars
  <1> QED
    BY <1>1, <1>2, <1>3, <1>4, <1>5, <1>6 DEF Workload, Wipe

\* So do those of a Restore.
LEMMA RestorerSaving ==
  ASSUME Types, Restoring
  PROVE  SavingKept \/ \E keep : FinishRecovery(keep)
  <1> PICK r \in Restore : RestoreWork(r) \/ RestoreCleanup(r) \/ GiveUp(r) \/ RestoreAborts(r)
    BY DEF Restoring
  <1>1. CASE \/ PinSnapshot(r) \/ GiveUp(r) \/ StartRestore(r) \/ SucceedRestore(r)
             \/ FailRestore(r) \/ BindRestoreTarget(r) \/ RemoveFinalizer(r) \/ AuthorizeRestore(r)
    BY <1>1, SavingFrame DEF PinSnapshot, GiveUp, StartRestore, SucceedRestore, FailRestore,
         BindRestoreTarget, RemoveFinalizer, AuthorizeRestore, KeepShared
  <1>2. CASE \/ FenceForRestore(r) \/ FenceForCleanup(r) \/ CreateRestoreJob(r) \/ CancelRestoreJob(r)
             \/ ReleaseRestoreFence(r) \/ ClearRestoreMarker(r) \/ RestoreAborts(r)
    BY <1>2, SavingFrame DEF FenceForRestore, FenceForCleanup, StampRestoreGuard, CreateRestoreJob,
         CancelRestoreJob, DeleteJob, ReleaseRestoreFence, ClearRestoreMarker, RestoreAborts,
         gsVars, crVars
  <1>3. CASE ClaimRestoreTarget(r) \/ ResuspendTarget(r) \/ CommitRestore(r)
    <2>1. Claimed(r).debt = gs.debt
      BY DEF Claimed, Types, GsOK, GameServer
    <2>2. gs'.debt = gs.debt
      BY <1>3, <2>1, Zenon DEF ClaimRestoreTarget, Claim, ResuspendTarget, CommitRestore, UpdateGs, Types,
                        GsOK, GameServer
    <2> QED
      BY <1>3, <2>2, SavingFrame DEF ClaimRestoreTarget, Claim, ResuspendTarget, CommitRestore, crVars
  <1>4. CASE RecoverRestore(r)
    BY <1>4, SavingRecovery DEF RecoverRestore
  <1> QED
    BY <1>1, <1>2, <1>3, <1>4 DEF RestoreWork, RestoreCleanup

\* A Backup moves them by six of its actions.
LEMMA BackupSaving ==
  ASSUME Types, BackingUp
  PROVE  \/ SavingKept \/ \E keep : FinishRecovery(keep)
         \/ \E b \in Backup : SavingMoves(b)
  <1> PICK b \in Backup : BackupWork(b) \/ BackupCleanup(b) \/ BackupFaults(b)
    BY DEF BackingUp
  <1>1. CASE \/ AddFinalizer(b) \/ AdmitBackup(b) \/ CompleteBackup(b) \/ FailBackup(b)
             \/ AbandonSaving(b) \/ DropBackup(b)
    BY <1>1, SavingFrame DEF AddFinalizer, AdmitBackup, CompleteBackup, FailBackup, AbandonSaving,
                             DropBackup, KeepShared
  <1>2. CASE \/ FenceBackupWorkload(b) \/ CreateBackupJob(b) \/ ReleaseBackupFence(b)
             \/ BackupAborts(b)
    BY <1>2, SavingFrame DEF FenceBackupWorkload, CreateBackupJob, ReleaseBackupFence, BackupAborts,
                             gsVars, crVars
  <1>3. CASE ClaimBackupTarget(b)
    <2>1. Claimed(b).debt = gs.debt
      BY DEF Claimed, Types, GsOK, GameServer
    <2> QED
      BY <1>3, <2>1, SavingFrame DEF ClaimBackupTarget, Claim, UpdateGs, crVars
  <1>4. CASE PinSource(b) \/ AuthorizeStart(b)
    <2>1. \A p \in Backup : copy'[p].attempt = copy[p].attempt
      BY <1>4 DEF PinSource, AuthorizeStart, Types, CrOK, Copy
    <2>2. gs'.debt = gs.debt /\ process' = process /\ same \subseteq same'
      BY <1>4 DEF PinSource, AuthorizeStart, KeepShared, gsVars, podVars
    <2> QED
      BY <2>1, <2>2 DEF SavingKept
  <1>5. CASE WithdrawStart(b) \/ CancelBackupJob(b)
    <2>1. UNCHANGED <<gsVars, podVars>> /\ \A p \in Backup : copy'[p].attempt = copy[p].attempt
      BY <1>5 DEF WithdrawStart, CancelBackupJob, CancelWorkers, DeleteJob, RevokeStart, crVars,
                  Types, CrOK, Copy
    <2> QED
      BY <2>1 DEF SavingKept, podVars, gsVars
  <1>6. CASE RestoreSaving(b)
    BY <1>6 DEF RestoreSaving, SaveOn, SavingKept, gsVars, crVars, Types, PodOK
  <1>7. CASE RecoverBackup(b)
    BY <1>7, SavingRecovery DEF RecoverBackup
  <1> QED
    BY <1>1, <1>2, <1>3, <1>4, <1>5, <1>6, <1>7
       DEF BackupWork, BackupCleanup, BackupFaults, SavingMoves

\* Kubernetes may take a quiesced process away, and never makes one.
LEMMA OutsideSaving ==
  ASSUME Types, StatefulSetController \/ JobController \/ User
  PROVE  SavingKept
  <1>1. CASE StatefulSetController
    <2>1. process'.quiesced => process.quiesced /\ same \subseteq same'
      BY <1>1 DEF StatefulSetController, StsObserve, StsCreatePod, StsDeletePod, GamePodGone,
                  GameExits, NewProcess
    <2> QED
      BY <1>1, <2>1 DEF StatefulSetController, SavingKept, gsVars, crVars
  <1>2. CASE JobController
    <2>1. ASSUME NEW b \in Backup PROVE copy'[b].attempt = copy[b].attempt
      <3>1. ASSUME NEW o, WorkerGone(o) PROVE copy'[b].attempt = copy[b].attempt
        BY <3>1, Zenon DEF WorkerGone, Types, CrOK, Copy
      <3>2. ASSUME NEW o \in Op, JobStartPod(o) \/ JobFail(o) \/ JobDeleted(o) \/ JobCollected(o)
            PROVE  copy' = copy
        BY <3>2 DEF JobStartPod, JobFail, JobDeleted, JobCollected
      <3>3. ASSUME NEW o \in Op, PodExit(o) \/ JobSucceed(o) PROVE WorkerGone(o)
        BY <3>3 DEF PodExit, JobSucceed
      <3>4. ASSUME NEW p \in Backup, WorkerReady(p) \/ WorkerStarts(p) \/ GateProjected(p)
            PROVE  copy'[b].attempt = copy[b].attempt
        BY <3>4 DEF WorkerReady, WorkerStarts, GateProjected, Types, CrOK, Copy
      <3> QED
        BY <1>2, <3>1, <3>2, <3>3, <3>4 DEF JobController
    <2> QED
      BY <1>2, <2>1 DEF JobController, SavingKept, gsVars, podVars
  <1>3. CASE User
    <2>1. gs'.debt = gs.debt
      BY <1>3, ZenonT(30) DEF User, Power, Suspend, Resume, RequestRestart, WipeRequest, CancelWipe, RequestWipe,
                  ObjectRequest, UpdateGs, gsVars, Types, GsOK, GameServer
    <2>2. UNCHANGED <<podVars, copy>>
      BY <1>3 DEF User, Power, WipeRequest, ObjectRequest, crVars
    <2> QED
      BY <2>1, <2>2, SavingFrame
  <1> QED
    BY <1>1, <1>2, <1>3

\* All steps that touch them.
LEMMA NextSaving ==
  ASSUME Types, Next
  PROVE  \/ SavingKept \/ \E keep : FinishRecovery(keep)
         \/ \E b \in Backup : SavingMoves(b)
  BY PassSaving, RestorerSaving, BackupSaving, OutsideSaving DEF Next

-----------------------------------------------------------------------------
(* The invariant of the debts.                                             *)

\* The predecessors stay gone.
LEMMA NextKeepsGone ==
  ASSUME Types, WipeInv, OwnerCreated, RecoveryGone, Next
  PROVE  RecoveryGone'
  <1>1. \A c \in CR : phase[c] = "gone" => phase'[c] = "gone"
    BY NextAges DEF Ages
  <1>2. CASE RecordsKept \/ Recovers \/ Releases
    BY <1>1, <1>2 DEF RecordsKept, Recovers, Releases, RecoveryGone
  <1>3. ASSUME NEW o \in Op, Takes(o) PROVE RecoveryGone'
    <2>1. \A c \in {gs.owner} \ {None, o} : c \in CR /\ phase[c] = "gone"
      BY <1>3 DEF Takes, Claimable, Exists, OwnerCreated, Types, GsOK, GameServer, OpOrNone, Op
    <2> QED
      BY <1>1, <1>3, <2>1 DEF Takes, RecoveryGone
  <1> QED
    BY <1>2, <1>3, NextRecords
\* The owner loses its finalizer only when it vanishes.
LEMMA NextBound ==
  ASSUME Types, Next, gs.owner \in CR, gs.owner \in bound
  PROVE  gs.owner \in bound' \/ phase'[gs.owner] = "gone"
  <1>1. ASSUME NEW o, CancelWorkers(o) PROVE UNCHANGED bound
    BY <1>1 DEF CancelWorkers, DeleteJob, RevokeStart, crVars
  <1>2. ASSUME NEW keep, RecoverLifecycleOperation(keep) PROVE UNCHANGED bound
    BY <1>1, <1>2 DEF RecoverLifecycleOperation, StampForRecovery, StampRestoreGuard, SaveOn,
                      FinishRecovery, crVars
  <1>3. CASE Workload
    BY <1>3, Zenon DEF Workload, PassAborts, DesiredReplicas, IssueStopSequence,
         RenderWorkload, WriteWorkload, WorkloadUnchanged, PatchStatus, crVars
  <1>4. CASE Wipe
    BY <1>2, <1>4, ZenonT(30) DEF Wipe, ClaimWipe, AssertWipe, RecoverWipe, StartPass,
         DeleteWipeJob, RecordWipeSuccess, FenceForWipe, AuthorizeWipe, CreateWipeJob,
         ClearWipeWorkloadGuard, ReleaseWipeFence, ReleaseWipeGuard, WipeWaits, SkipWipe, crVars
  <1>5. CASE StatefulSetController \/ JobController
    BY <1>5 DEF StatefulSetController, JobController, crVars
  <1>6. CASE User
    <2>1. CASE Power \/ WipeRequest
      BY <2>1 DEF Power, WipeRequest, crVars
    <2>2. CASE ObjectRequest
      BY <2>2 DEF ObjectRequest, Create, Delete, ForceDelete, Types, CrOK
    <2> QED
      BY <1>6, <2>1, <2>2 DEF User
  <1>7. CASE Restoring
    <2> PICK r \in Restore : RestoreWork(r) \/ RestoreCleanup(r) \/ GiveUp(r) \/ RestoreAborts(r)
      BY <1>7 DEF Restoring
    <2>1. CASE BindRestoreTarget(r) \/ RemoveFinalizer(r)
      BY <2>1 DEF BindRestoreTarget, RemoveFinalizer
    <2>2. CASE \/ PinSnapshot(r) \/ GiveUp(r) \/ StartRestore(r) \/ SucceedRestore(r) \/ FailRestore(r)
               \/ ClaimRestoreTarget(r) \/ FenceForRestore(r)
               \/ AuthorizeRestore(r) \/ CreateRestoreJob(r) \/ CancelRestoreJob(r)
               \/ ResuspendTarget(r) \/ RecoverRestore(r) \/ FenceForCleanup(r)
               \/ ReleaseRestoreFence(r) \/ ClearRestoreMarker(r) \/ CommitRestore(r)
               \/ RestoreAborts(r)
      BY <1>2, <2>2, ZenonT(30)
         DEF PinSnapshot, GiveUp, StartRestore, SucceedRestore, FailRestore, ClaimRestoreTarget,
             Claim, FenceForRestore, StampRestoreGuard, AuthorizeRestore, CreateRestoreJob,
             CancelRestoreJob, DeleteJob, ResuspendTarget, RecoverRestore, FenceForCleanup,
             ReleaseRestoreFence, ClearRestoreMarker, CommitRestore, RestoreAborts, crVars
    <2> QED
      BY <2>1, <2>2 DEF RestoreWork, RestoreCleanup
  <1>8. CASE BackingUp
    <2> PICK b \in Backup : BackupWork(b) \/ BackupCleanup(b) \/ BackupFaults(b)
      BY <1>8 DEF BackingUp
    <2>0. b \in CR
      BY DEF CR
    <2>1. CASE AddFinalizer(b) \/ AbandonSaving(b) \/ DropBackup(b)
      BY <2>0, <2>1 DEF AddFinalizer, AbandonSaving, DropBackup, SetPhase, Types, CrOK
    <2>2. CASE \/ AdmitBackup(b) \/ CompleteBackup(b) \/ FailBackup(b) \/ CallQuiesce(b)
               \/ ClaimBackupTarget(b) \/ FenceBackupWorkload(b) \/ PinSource(b)
               \/ CreateBackupJob(b) \/ RecordIntent(b) \/ AttemptQuiesce(b) \/ AuthorizeStart(b)
               \/ CancelBackupJob(b) \/ RecoverBackup(b) \/ RestoreSaving(b) \/ RecordUnquiesced(b)
               \/ ReleaseBackupFence(b) \/ ReleaseBackupTarget(b) \/ QuiesceUnsupported(b)
               \/ WithdrawStart(b) \/ BackupAborts(b)
      BY <1>1, <1>2, <2>2, ZenonT(30)
         DEF AdmitBackup, CompleteBackup, FailBackup, CallQuiesce, ClaimBackupTarget, Claim,
             FenceBackupWorkload, PinSource, CreateBackupJob, RecordIntent, AttemptQuiesce,
             AuthorizeStart, CancelBackupJob, RecoverBackup, RestoreSaving, SaveOn, RecordUnquiesced,
             ReleaseBackupFence, ReleaseBackupTarget, QuiesceUnsupported, WithdrawStart, RevokeStart,
             BackupAborts, crVars
    <2> QED
      BY <2>1, <2>2, ZenonT(30) DEF BackupWork, BackupCleanup, BackupFaults
  <1> QED
    BY <1>3, <1>4, <1>5, <1>6, <1>7, <1>8 DEF Next

\* An owner that exists keeps its finalizer.
LEMMA NextKeepsFinalized ==
  ASSUME Types, WipeInv, OwnerCreated, OwnerFinalized, Next
  PROVE  OwnerFinalized'
  <1>0. None \notin CR /\ CR \cap Token = {}
    BY ConstantsAssumption DEF CR, Op
  <1>1. CASE gs'.owner = gs.owner
    <2>1. SUFFICES ASSUME gs.owner \in CR, phase'[gs.owner] \notin {"uncreated", "gone"}
                   PROVE  gs.owner \in bound'
      BY <1>0, <1>1 DEF OwnerFinalized, Exists
    <2>2. phase[gs.owner] \notin {"uncreated", "gone"}
      BY <2>1, NextAges DEF Ages, OwnerCreated
    <2>3. gs.owner \in bound
      BY <2>1, <2>2 DEF OwnerFinalized, Exists
    <2> QED
      BY <2>1, <2>2, <2>3, NextBound
  <1>2. CASE Releases
    BY <1>0, <1>2 DEF Releases, OwnerFinalized
  <1>3. ASSUME NEW o \in Op, Takes(o) PROVE OwnerFinalized'
    BY <1>3 DEF Takes, OwnerFinalized, crVars
  <1> QED
    BY <1>1, <1>2, <1>3, NextRecords DEF RecordsKept, Recovers

\* A Backup about to make the save-off call still owes it after any step, and one that
\* is releasing the server stays settled.
LEMMA NextKeepsCallers ==
  ASSUME ForceDeletes # "any", Types, WipeInv, OwnerCreated, QuiesceInv, Next
  PROVE  CallerOwes' /\ ReleaserSettled'
  <1>0. Backup \subseteq CR /\ None \notin CR /\ CR \cap Token = {} /\ Backup \cap Restore = {}
    BY ConstantsAssumption DEF CR, Op
  <1>1. ASSUME NEW b \in Backup, AttemptQuiesce(b)
        PROVE  /\ copy'[b].attempt = "pending" /\ pc'[b] = "quiesce"
               /\ \A p \in Backup \ {b} : copy'[p] = copy[p] /\ pc'[p] = pc[p]
               /\ gs.owner = b /\ b \in gs.debt /\ Exists(b)
               /\ UNCHANGED <<gs, phase>>
    BY <1>0, <1>1 DEF AttemptQuiesce, Admitted, Owns, Working, Active, Exists, Step, KeepShared,
                      gsVars, Types, CrOK, Copy
  <1>2. ASSUME NEW b \in Backup, ReleaseBackupFence(b)
        PROVE  /\ UNCHANGED <<gs, copy, phase>> /\ gs.owner = b /\ pc[b] = "idle"
               /\ copy[b].attempt \notin {"pending", "done"}
               /\ \A p \in Backup \ {b} : pc'[p] = pc[p]
               /\ pc'[b] = "release"
    BY <1>0, <1>2 DEF ReleaseBackupFence, Idle, Finished, Owes, Step, Types, CrOK
  <1>3. ASSUME NEW b \in Backup, pc[b] = "quiesce", pc'[b] = "quiesce", Next
        PROVE  Exists(b)'
    BY <1>0, <1>3, NextReconciles DEF QuiesceInv, CallerOwes, OwnerFinalized, ReconcilesOnly
  <1>4. ASSUME NEW b \in Backup, pc[b] = "quiesce", pc'[b] = "quiesce"
        PROVE  gs'.owner = b
    <2>1. gs.owner = b /\ Exists(b)
      BY <1>4 DEF QuiesceInv, CallerOwes
    <2>2. ~Releases
      BY <1>0, <1>4, <2>1 DEF Releases
    <2>3. \A o \in Op : Takes(o) => o = b
      BY <1>0, <2>1 DEF Takes, Claimable
    <2> QED
      BY <2>1, <2>2, <2>3, NextRecords DEF RecordsKept, Recovers, Takes
  <1>5. ASSUME NEW b \in Backup, pc[b] = "quiesce", pc'[b] = "quiesce"
        PROVE  b \in gs'.debt /\ copy'[b].attempt = "pending"
    <2>1. gs.owner = b /\ Exists(b) /\ b \in gs.debt /\ copy[b].attempt = "pending"
      BY <1>5 DEF QuiesceInv, CallerOwes
    <2>2. CASE SavingKept
      BY <2>1, <2>2 DEF SavingKept
    <2>3. ASSUME NEW keep, FinishRecovery(keep) PROVE b \in gs'.debt /\ copy'[b].attempt = "pending"
      <3>1. b \notin gs.recovery
        BY <1>0, <2>1 DEF QuiesceInv, RecoveryGone, Exists
      <3> QED
        BY <2>1, <2>3, <3>1 DEF FinishRecovery, UpdateGs, crVars, Types, GsOK, GameServer
    <2>4. ASSUME NEW p \in Backup, SavingMoves(p) PROVE b \in gs'.debt /\ copy'[b].attempt = "pending"
      <3>1. CASE p = b
        BY <1>0, <1>5, <2>4, <3>1, ZenonT(30)
           DEF SavingMoves, RecordIntent, Quiescing, Prepared, FenceObserved, Admitted, Working,
               AttemptQuiesce, CallQuiesce, QuiesceUnsupported, RecordUnquiesced, Idle, Finished,
               ReleaseBackupTarget, Step, Types, CrOK
      <3>2. CASE p # b
        <4>1. gs.owner # p
          BY <2>1, <3>2
        <4>2. ~(AttemptQuiesce(p) \/ RecordUnquiesced(p) \/ RecordIntent(p))
          BY <4>1 DEF AttemptQuiesce, RecordUnquiesced, RecordIntent, Quiescing, Prepared,
                      FenceObserved, Admitted, Owns, Owes
        <4>3. ~(CallQuiesce(p) \/ QuiesceUnsupported(p))
          BY <4>1, Zenon DEF CallQuiesce, QuiesceUnsupported, QuiesceInv, CallerOwes
        <4>4. ~ReleaseBackupTarget(p)
          BY <1>0, <4>1 DEF ReleaseBackupTarget, WipeInv, FreshOwns
        <4> QED
          BY <2>4, <4>2, <4>3, <4>4 DEF SavingMoves
      <3> QED
        BY <3>1, <3>2
    <2> QED
      BY <2>2, <2>3, <2>4, NextSaving
  <1>6. CallerOwes'
    <2> SUFFICES ASSUME NEW b \in Backup, pc'[b] = "quiesce"
                 PROVE  /\ gs'.owner = b /\ b \in gs'.debt /\ copy'[b].attempt = "pending"
                        /\ Exists(b)'
      BY DEF CallerOwes
    <2>1. CASE pc[b] = "quiesce"
      BY <1>3, <1>4, <1>5, <2>1
    <2>2. CASE AttemptQuiesce(b)
      BY <1>1, <2>2 DEF Exists
    <2> QED
      BY <2>1, <2>2, NextReconciles DEF ReconcilesOnly
  <1>7. ASSUME NEW b \in Backup, pc[b] = "release", pc'[b] = "release"
        PROVE  copy'[b].attempt = copy[b].attempt
    <2>1. CASE SavingKept
      BY <2>1 DEF SavingKept
    <2>2. ASSUME NEW keep, FinishRecovery(keep) PROVE copy'[b].attempt = copy[b].attempt
      BY <2>2 DEF FinishRecovery, crVars
    <2>3. ASSUME NEW p \in Backup, SavingMoves(p) PROVE copy'[b].attempt = copy[b].attempt
      <3>1. CASE p = b
        BY <1>0, <1>7, <2>3, <3>1, ZenonT(30)
           DEF SavingMoves, RecordIntent, Quiescing, Prepared, FenceObserved, Admitted, Working,
               AttemptQuiesce, CallQuiesce, QuiesceUnsupported, RecordUnquiesced, Idle, Finished,
               ReleaseBackupTarget, Step, Types, CrOK
      <3>2. CASE p # b
        BY <2>3, <3>2, Zenon DEF SavingMoves, RecordIntent, AttemptQuiesce, CallQuiesce, QuiesceUnsupported,
               RecordUnquiesced, ReleaseBackupTarget, SetCopy, crVars, Types, CrOK
      <3> QED
        BY <3>1, <3>2
    <2> QED
      BY <2>1, <2>2, <2>3, NextSaving
  <1>8. ReleaserSettled'
    <2> SUFFICES ASSUME NEW b \in Backup, pc'[b] = "release"
                 PROVE  copy'[b].attempt \notin {"pending", "done"}
      BY DEF ReleaserSettled
    <2>1. CASE pc[b] = "release"
      BY <1>7, <2>1 DEF QuiesceInv, ReleaserSettled
    <2>2. CASE ReleaseBackupFence(b)
      BY <1>2, <2>2
    <2> QED
      BY <2>1, <2>2, NextReconciles DEF ReconcilesOnly
  <1> QED
    BY <1>6, <1>8

\* While saving is disabled somebody owes the save-on call, after any step.
LEMMA NextKeepsQuiesced ==
  ASSUME ForceDeletes # "any", Types, WipeInv, OwnerCreated, QuiesceInv, Next
  PROVE  QuiescedBy'
  <1>0. Backup \subseteq CR /\ None \notin CR /\ CR \cap Token = {} /\ Backup \cap Restore = {}
    BY ConstantsAssumption DEF CR, Op
  <1>1. CASE SavingKept
    <2> SUFFICES ASSUME process'.quiesced
                 PROVE  \E b \in gs'.debt \cap same' :
                           /\ b = gs'.owner \/ b \in gs'.recovery
                           /\ copy'[b].attempt \in {"pending", "done"}
      BY DEF QuiescedBy
    <2>1. PICK b \in gs.debt \cap same : /\ b = gs.owner \/ b \in gs.recovery
                                         /\ copy[b].attempt \in {"pending", "done"}
      BY <1>1 DEF SavingKept, QuiesceInv, QuiescedBy
    <2>2. b \in Backup /\ b \in gs'.debt \cap same' /\ copy'[b].attempt \in {"pending", "done"}
      BY <1>1, <2>1 DEF SavingKept, Types, PodOK
    <2>3. b = gs'.owner \/ b \in gs'.recovery
      <3>1. CASE RecordsKept
        BY <2>1, <3>1 DEF RecordsKept
      <3>2. ASSUME NEW o \in Op, Takes(o) PROVE b = gs'.owner \/ b \in gs'.recovery
        BY <1>0, <2>1, <2>2, <3>2 DEF Takes
      <3>3. CASE Recovers
        BY <1>1, <2>1, <2>2, <3>3 DEF Recovers, FinishRecovery, Saving, UpdateGs, SavingKept, podVars,
             Types, GsOK, GameServer
      <3>4. CASE Releases
        BY <1>0, <2>1, <2>2, <3>4 DEF Releases, QuiesceInv, ReleaserSettled
      <3> QED
        BY <3>1, <3>2, <3>3, <3>4, NextRecords
    <2> QED
      BY <2>2, <2>3
  <1>2. ASSUME NEW keep, FinishRecovery(keep) PROVE QuiescedBy'
    <2>1. gs'.owner = gs.owner /\ gs'.debt = gs.debt \ gs.recovery /\ UNCHANGED <<process, same, copy>>
      BY <1>2 DEF FinishRecovery, UpdateGs, podVars, crVars, Types, GsOK, GameServer
    <2>2. process.quiesced => \A p \in gs.recovery \cap gs.debt : p \notin same
      BY <1>2 DEF FinishRecovery, Saving
    <2> QED
      BY <2>1, <2>2 DEF QuiesceInv, QuiescedBy
  <1>3. ASSUME NEW b \in Backup, RecordIntent(b) \/ AttemptQuiesce(b) PROVE QuiescedBy'
    <2>1. /\ gs'.owner = gs.owner /\ gs'.recovery = gs.recovery /\ gs.debt \subseteq gs'.debt
          /\ UNCHANGED <<process, same>>
      BY <1>3 DEF RecordIntent, AttemptQuiesce, UpdateGs, KeepShared, gsVars, podVars, Types, GsOK,
                  GameServer
    <2>2. \A p \in Backup : copy[p].attempt \in {"pending", "done"}
                               => copy'[p].attempt \in {"pending", "done"}
      BY <1>3 DEF RecordIntent, AttemptQuiesce, crVars, Types, CrOK, Copy
    <2> QED
      BY <2>1, <2>2 DEF QuiesceInv, QuiescedBy, Types, PodOK
  <1>4. ASSUME NEW b \in Backup, CallQuiesce(b) PROVE QuiescedBy'
    <2>1. gs.owner = b /\ b \in gs.debt /\ copy[b].attempt = "pending"
      BY <1>4 DEF CallQuiesce, QuiesceInv, CallerOwes
    <2>2. UNCHANGED <<gs, same>> /\ (process'.quiesced => process.quiesced \/ b \in same)
      BY <1>4, Zenon DEF CallQuiesce, gsVars, Types, PodOK
    <2>3. \A p \in Backup : copy[p].attempt \in {"pending", "done"}
                               => copy'[p].attempt \in {"pending", "done"}
      BY <1>4 DEF CallQuiesce, SetCopy, Types, CrOK, Copy
    <2> QED
      BY <2>1, <2>2, <2>3 DEF QuiesceInv, QuiescedBy, Types, PodOK
  <1>5. ASSUME NEW b \in Backup, QuiesceUnsupported(b) PROVE QuiescedBy'
    BY <1>5 DEF QuiesceUnsupported, podVars, QuiescedBy
  <1>6. ASSUME NEW b \in Backup, RecordUnquiesced(b) PROVE QuiescedBy'
    <2>1. /\ gs'.owner = gs.owner /\ gs'.recovery = gs.recovery /\ gs.debt \ {b} \subseteq gs'.debt
          /\ UNCHANGED <<process, same>> /\ \A p \in Backup \ {b} : copy'[p] = copy[p]
      BY <1>6 DEF RecordUnquiesced, SetCopy, UpdateGs, podVars, Types, GsOK, GameServer, CrOK
    <2>2. process.quiesced => b \notin same
      BY <1>6 DEF RecordUnquiesced, Saving
    <2> QED
      BY <2>1, <2>2 DEF QuiesceInv, QuiescedBy, Types, PodOK
  <1>7. ASSUME NEW b \in Backup, ReleaseBackupTarget(b) PROVE QuiescedBy'
    <2>1. gs.owner = b /\ copy[b].attempt \notin {"pending", "done"}
      BY <1>0, <1>7 DEF ReleaseBackupTarget, WipeInv, FreshOwns, QuiesceInv, ReleaserSettled
    <2>2. gs'.recovery = gs.recovery /\ gs'.debt = gs.debt \ {b} /\ UNCHANGED <<process, same, copy>>
      BY <1>7 DEF ReleaseBackupTarget, UpdateGs, podVars, Types, GsOK, GameServer
    <2> QED
      BY <2>1, <2>2 DEF QuiesceInv, QuiescedBy
  <1> QED
    BY <1>1, <1>2, <1>3, <1>4, <1>5, <1>6, <1>7, NextSaving DEF SavingMoves

\* While saving is disabled in the game, the GameServer names a Backup that has to
\* enable it again in that very pod, whatever is interrupted, deleted or taken over
\* (maybeQuiesce, recordBackupUnquiesced, recoverLifecycleOperation), unless a
\* finalizer is stripped in the middle of a reconcile.
THEOREM QuiesceStaysOwed ==
  ASSUME ForceDeletes # "any"
  PROVE  Spec => []QuiescedOwed
  <1>1. ASSUME Init PROVE QuiesceInv /\ OwnerCreated /\ ReleaserDone
    <2>1. /\ gs.recovery = {} /\ gs.owner = None /\ ~process.quiesced
          /\ \A c \in CR : pc[c] = "idle"
      BY <1>1 DEF Init, ObjectsInit, NewProcess
    <2>2. None \notin CR
      BY ConstantsAssumption DEF Op
    <2> QED
      BY <2>1, <2>2 DEF QuiesceInv, RecoveryGone, OwnerFinalized, CallerOwes, ReleaserSettled,
                        QuiescedBy, OwnerCreated, ReleaserDone, Releasing, CR
  <1>2. QuiesceInv => QuiescedOwed
    BY DEF QuiesceInv, QuiescedBy, QuiescedOwed
  <1>3. ASSUME TypeOK, WipeInv, OwnerCreated, ReleaserDone, QuiesceInv, [Next]_vars
        PROVE  QuiesceInv' /\ OwnerCreated' /\ ReleaserDone'
    <2>1. Types
      BY <1>3, TypeGroups
    <2>2. CASE Next
      BY <1>3, <2>1, <2>2, NextKeepsGone, NextKeepsFinalized, NextKeepsCallers, NextKeepsQuiesced,
         NextKeepsOwners, SMTT(20), ZenonT(20) DEF QuiesceInv
    <2>3. CASE UNCHANGED vars
      <3>1. UNCHANGED <<gs, process, phase, deleting, bound, pc, copy, same>>
        BY <2>3 DEF vars, objectVars, gsVars, podVars, crVars
      <3> QED
        BY <1>3, <3>1 DEF QuiesceInv, RecoveryGone, OwnerFinalized, CallerOwes, ReleaserSettled,
                          QuiescedBy, OwnerCreated, ReleaserDone, Exists, Done
    <2> QED
      BY <1>3, <2>2, <2>3
  <1>4. TypeOK /\ WipeInv /\ OwnerCreated /\ ReleaserDone /\ QuiesceInv /\ [Next]_vars
           => QuiesceInv' /\ OwnerCreated' /\ ReleaserDone'
    BY <1>3
  <1> QED
    BY <1>1, <1>2, <1>4, InitialWipe, NextKeepsWipe, TypeCorrect, PTL DEF Spec

-----------------------------------------------------------------------------
(* The workload under a copy.                                              *)

\* The record of a Backup on the workload, or on the way to it, is that of the owner
\* unless the Backup is done.
FenceKnown ==
    \A b \in Backup : ss.op.owner = b \/ (at = "write" /\ next.op.owner = b)
                         => gs.owner = b \/ Done(b)

\* A pass that saw the record of the owning Backup on the workload keeps it, and keeps
\* the replicas unless a vanished Restore has to be stopped first.
FenceHeld ==
    Writing => \A b \in Backup : gs.owner = b /\ ss.exists /\ ss.op.owner = b =>
        /\ next.exists /\ next.op.owner = b
        /\ next.replicas = ss.replicas \/ (NeedsStop /\ next.replicas = 0)

\* An owner with a copy at work has fenced the workload, and nobody is to be recovered.
CopyFenced ==
    \A b \in Backup : gs.owner = b /\ WorkersLive(b)
                         => ss.exists /\ ss.op.owner = b /\ gs.recovery = {}

\* A worker that has prepared has a pod.
CopyAlive == \A b \in Backup : copy[b].worker # "preparing" => pods[b] > 0

CopyInv == FenceKnown /\ FenceHeld /\ CopyFenced /\ CopyAlive

\* The owner fences the workload.
Fences == gs.owner \in Backup /\ ss'.op.owner = gs.owner

\* The owner removes its record; a Backup does so once it is done and after its copy.
Unfences ==
    /\ ss'.op.owner = None
    /\ \/ gs.owner \in Exclusive
       \/ gs.owner \in Backup /\ ~WorkersLive(gs.owner) /\ Done(gs.owner)

\* The steps that change the record on the workload.
LEMMA NextOps ==
  ASSUME Types, WipeInv, Next
  PROVE  ss'.op = ss.op \/ WriteWorkload \/ Fences \/ Unfences
  <1>0. Backup \subseteq CR /\ Restore \subseteq CR
    BY DEF CR
  <1>1. ASSUME IF ss # ClearFence(ss) THEN UpdateSs(ClearFence(ss)) ELSE UNCHANGED ssVars
        PROVE  ss'.op = ss.op \/ ss'.op.owner = None
    BY <1>1 DEF ClearFence, NoFence, UpdateSs, ssVars, Types, SsOK, StatefulSet
  <1>2. ASSUME StampRestoreGuard PROVE ss'.op = ss.op
    BY <1>2 DEF StampRestoreGuard, UpdateSs, Types, SsOK, StatefulSet
  <1>3. ASSUME NEW o, CancelWorkers(o) PROVE ss' = ss
    BY <1>3 DEF CancelWorkers, DeleteJob, RevokeStart, ssVars
  <1>4. ASSUME NEW keep, RecoverLifecycleOperation(keep) PROVE ss'.op = ss.op
    BY <1>2, <1>3, <1>4 DEF RecoverLifecycleOperation, StampForRecovery, SaveOn, FinishRecovery, ssVars
  <1>5. CASE Workload
    BY <1>5, Zenon DEF Workload, PassAborts, DesiredReplicas, IssueStopSequence, RenderWorkload,
         WorkloadUnchanged, PatchStatus, ssVars
  <1>6. CASE Wipe
    <2>1. CASE ReleaseWipeFence
      <3>1. gs.owner \in Exclusive
        BY <2>1 DEF ReleaseWipeFence, WipeInv, WipeReleaserDrained, Exclusive
      <3> QED
        BY <1>1, <2>1, <3>1 DEF ReleaseWipeFence, Unfences
    <2>2. CASE FenceForWipe \/ ClearWipeWorkloadGuard
      BY <2>2, Zenon DEF FenceForWipe, ClearWipeWorkloadGuard, UpdateSs, ssVars, Types, SsOK, StatefulSet
    <2>3. CASE RecoverWipe
      BY <1>4, <2>3, SMTT(20), ZenonT(20) DEF RecoverWipe
    <2>4. CASE \/ ClaimWipe \/ AssertWipe \/ StartPass \/ DeleteWipeJob \/ RecordWipeSuccess
               \/ AuthorizeWipe \/ CreateWipeJob \/ ReleaseWipeGuard \/ WipeWaits \/ SkipWipe
      BY <2>4 DEF ClaimWipe, AssertWipe, StartPass, DeleteWipeJob, RecordWipeSuccess,
           AuthorizeWipe, CreateWipeJob, ReleaseWipeGuard, WipeWaits, SkipWipe, ssVars
    <2> QED
      BY <1>6, <2>1, <2>2, <2>3, <2>4 DEF Wipe
  <1>7. CASE StatefulSetController \/ JobController \/ User
    BY <1>7, SMTT(20), ZenonT(20) DEF StatefulSetController, JobController, User, Power, WipeRequest, ObjectRequest, ssVars
  <1>8. CASE Restoring
    <2> PICK r \in Restore : RestoreWork(r) \/ RestoreCleanup(r) \/ GiveUp(r) \/ RestoreAborts(r)
      BY <1>8 DEF Restoring
    <2>1. CASE ReleaseRestoreFence(r)
      BY <1>1, <2>1 DEF ReleaseRestoreFence, Releasable, Unfences, Exclusive
    <2>2. CASE ClearRestoreMarker(r)
      BY <2>2, SMTT(20), ZenonT(20) DEF ClearRestoreMarker, UpdateSs, ssVars, Types, SsOK, StatefulSet
    <2>3. CASE FenceForRestore(r) \/ FenceForCleanup(r) \/ RecoverRestore(r)
      BY <1>2, <1>4, <2>3 DEF FenceForRestore, FenceForCleanup, RecoverRestore
    <2>4. CASE \/ PinSnapshot(r) \/ GiveUp(r) \/ StartRestore(r) \/ SucceedRestore(r)
               \/ FailRestore(r) \/ BindRestoreTarget(r) \/ RemoveFinalizer(r) \/ AuthorizeRestore(r)
               \/ ClaimRestoreTarget(r) \/ CreateRestoreJob(r) \/ CancelRestoreJob(r)
               \/ ResuspendTarget(r) \/ CommitRestore(r) \/ RestoreAborts(r)
      BY <2>4, ZenonT(30) DEF PinSnapshot, GiveUp, StartRestore, SucceedRestore, FailRestore, BindRestoreTarget,
           RemoveFinalizer, AuthorizeRestore, ClaimRestoreTarget, Claim, CreateRestoreJob,
           CancelRestoreJob, DeleteJob, ResuspendTarget, CommitRestore, RestoreAborts, KeepShared, ssVars
    <2> QED
      BY <2>1, <2>2, <2>3, <2>4, ZenonT(30) DEF RestoreWork, RestoreCleanup
  <1>9. CASE BackingUp
    <2> PICK b \in Backup : BackupWork(b) \/ BackupCleanup(b) \/ BackupFaults(b)
      BY <1>9 DEF BackingUp
    <2>1. CASE ReleaseBackupFence(b)
      BY <1>1, <2>1 DEF ReleaseBackupFence, Idle, Finished, Terminal, Done, Unfences
    <2>2. CASE FenceBackupWorkload(b)
      BY <2>2 DEF FenceBackupWorkload, Admitted, Owns, OwnerValue, UpdateSs, Fences, Types, SsOK,
                  StatefulSet
    <2>3. CASE RecoverBackup(b) \/ CancelBackupJob(b) \/ WithdrawStart(b)
      BY <1>3, <1>4, <2>3 DEF RecoverBackup, CancelBackupJob, WithdrawStart, RevokeStart, ssVars
    <2>4. CASE \/ AddFinalizer(b) \/ AdmitBackup(b) \/ CompleteBackup(b) \/ FailBackup(b)
               \/ AbandonSaving(b) \/ DropBackup(b) \/ CallQuiesce(b)
               \/ ClaimBackupTarget(b) \/ PinSource(b) \/ CreateBackupJob(b) \/ RecordIntent(b)
               \/ AttemptQuiesce(b) \/ AuthorizeStart(b) \/ RestoreSaving(b) \/ RecordUnquiesced(b)
               \/ ReleaseBackupTarget(b) \/ QuiesceUnsupported(b) \/ BackupAborts(b)
      BY <2>4, ZenonT(30) DEF AddFinalizer, AdmitBackup, CompleteBackup, FailBackup, AbandonSaving, DropBackup,
           CallQuiesce, ClaimBackupTarget, Claim, PinSource, CreateBackupJob, RecordIntent,
           AttemptQuiesce, AuthorizeStart, RestoreSaving, SaveOn, RecordUnquiesced,
           ReleaseBackupTarget, QuiesceUnsupported, BackupAborts, KeepShared, ssVars
    <2> QED
      BY <2>1, <2>2, <2>3, <2>4, ZenonT(30) DEF BackupWork, BackupCleanup, BackupFaults
  <1> QED
    BY <1>5, <1>6, <1>7, <1>8, <1>9 DEF Next

\* Pods of workers, and what the workers do, are the Job controller's.
LEMMA NextCopies ==
  ASSUME Types, Next
  PROVE  JobController \/ (UNCHANGED pods /\ \A b \in Backup : copy'[b].worker = copy[b].worker)
  <1>1. ASSUME NEW o, CancelWorkers(o)
        PROVE  UNCHANGED pods /\ \A b \in Backup : copy'[b].worker = copy[b].worker
    BY <1>1, SMTT(30) DEF CancelWorkers, DeleteJob, RevokeStart, jobVars, crVars, Types, CrOK, Copy
  <1>2. ASSUME NEW keep, RecoverLifecycleOperation(keep)
        PROVE  UNCHANGED pods /\ \A b \in Backup : copy'[b].worker = copy[b].worker
    BY <1>1, <1>2 DEF RecoverLifecycleOperation, StampForRecovery, StampRestoreGuard, SaveOn,
                      FinishRecovery, jobVars, crVars
  <1>3. CASE Workload
    BY <1>3, Zenon DEF Workload, PassAborts, DesiredReplicas, IssueStopSequence,
         RenderWorkload, WriteWorkload, WorkloadUnchanged, PatchStatus, jobVars, crVars
  <1>4. CASE Wipe
    BY <1>2, <1>4, ZenonT(30) DEF Wipe, ClaimWipe, AssertWipe, RecoverWipe, StartPass, DeleteWipeJob,
         RecordWipeSuccess, FenceForWipe, AuthorizeWipe, CreateWipeJob, ClearWipeWorkloadGuard,
         ReleaseWipeFence, ReleaseWipeGuard, WipeWaits, SkipWipe, jobVars, crVars
  <1>5. CASE StatefulSetController \/ User
    BY <1>5 DEF StatefulSetController, User, Power, WipeRequest, ObjectRequest, jobVars, crVars
  <1>6. CASE Restoring
    BY <1>2, <1>6, ZenonT(30)
       DEF Restoring, RestoreWork, RestoreCleanup, PinSnapshot, GiveUp, StartRestore, SucceedRestore,
           FailRestore, BindRestoreTarget, RemoveFinalizer, AuthorizeRestore, ClaimRestoreTarget,
           Claim, CreateRestoreJob, CancelRestoreJob, DeleteJob, ResuspendTarget, RecoverRestore,
           CommitRestore, FenceForRestore, FenceForCleanup, StampRestoreGuard, ReleaseRestoreFence,
           ClearRestoreMarker, RestoreAborts, KeepShared, jobVars, crVars
  <1>7. CASE BackingUp
    <2> PICK b \in Backup : BackupWork(b) \/ BackupCleanup(b) \/ BackupFaults(b)
      BY <1>7, SMTT(20), ZenonT(20) DEF BackingUp
    <2>1. CASE RecoverBackup(b) \/ CancelBackupJob(b)
      BY <1>1, <1>2, <2>1, ZenonT(30) DEF RecoverBackup, CancelBackupJob
    <2>2. CASE \/ AddFinalizer(b) \/ AdmitBackup(b) \/ CompleteBackup(b) \/ FailBackup(b)
               \/ AbandonSaving(b) \/ DropBackup(b) \/ ReleaseBackupFence(b)
               \/ ClaimBackupTarget(b) \/ FenceBackupWorkload(b) \/ CreateBackupJob(b)
               \/ RecordIntent(b) \/ RestoreSaving(b) \/ ReleaseBackupTarget(b) \/ BackupAborts(b)
      BY <2>2, ZenonT(30) DEF AddFinalizer, AdmitBackup, CompleteBackup, FailBackup, AbandonSaving, DropBackup,
           ReleaseBackupFence, ClaimBackupTarget, Claim, FenceBackupWorkload, CreateBackupJob,
           RecordIntent, RestoreSaving, SaveOn, ReleaseBackupTarget, BackupAborts, KeepShared, jobVars,
           crVars
    <2>3. CASE PinSource(b) \/ AttemptQuiesce(b) \/ AuthorizeStart(b) \/ WithdrawStart(b)
      <3>1. UNCHANGED pods
        BY <2>3, Zenon DEF PinSource, AttemptQuiesce, AuthorizeStart, WithdrawStart, RevokeStart, KeepShared,
             jobVars
      <3>2. CASE PinSource(b)
        BY <3>1, <3>2 DEF PinSource, Types, CrOK, Copy
      <3>3. CASE AttemptQuiesce(b)
        BY <3>1, <3>3 DEF AttemptQuiesce, Types, CrOK, Copy
      <3>4. CASE AuthorizeStart(b)
        BY <3>1, <3>4 DEF AuthorizeStart, Types, CrOK, Copy
      <3>5. CASE WithdrawStart(b)
        BY <3>1, <3>5 DEF WithdrawStart, RevokeStart, Types, CrOK, Copy
      <3> QED
        BY <2>3, <3>2, <3>3, <3>4, <3>5
    <2>4. CASE CallQuiesce(b) \/ QuiesceUnsupported(b) \/ RecordUnquiesced(b)
      <3>1. UNCHANGED pods
        BY <2>4, Zenon DEF CallQuiesce, QuiesceUnsupported, RecordUnquiesced, jobVars
      <3>2. UNCHANGED copy \/ \E a : copy' = [copy EXCEPT ![b] = [copy[b] EXCEPT !.attempt = a]]
        BY <2>4, Zenon DEF CallQuiesce, QuiesceUnsupported, RecordUnquiesced, SetCopy
      <3> QED
        BY <3>1, <3>2 DEF Types, CrOK, Copy
    <2> QED
      BY <2>1, <2>2, <2>3, <2>4, ZenonT(30) DEF BackupWork, BackupCleanup, BackupFaults
  <1> QED
    BY <1>3, <1>4, <1>5, <1>6, <1>7 DEF Next

\* The records of Backups on the workload stay known.
LEMMA NextKeepsFences ==
  ASSUME Types, WipeInv, OwnerCreated, ReleaserDone, FenceKnown, Next
  PROVE  FenceKnown'
  <1>0. Backup \subseteq CR /\ None \notin CR
    BY ConstantsAssumption DEF CR, Op
  <1>1. ASSUME NEW b \in Backup, gs.owner = b \/ Done(b) PROVE gs'.owner = b \/ Done(b)'
    BY <1>0, <1>1, OwnerMoves, NextAges DEF Ages
  <1>2. ASSUME NEW b \in Backup, ss'.op.owner = b PROVE gs.owner = b \/ Done(b)
    BY <1>0, <1>2, NextOps, Zenon DEF FenceKnown, Fences, Unfences, WriteWorkload, UpdateSs
  <1>3. ASSUME NEW b \in Backup, at' = "write", next'.op.owner = b PROVE gs.owner = b \/ Done(b)
    <2>1. CASE RenderWorkload
      <3>1. next' = Rendered
        BY <2>1 DEF RenderWorkload
      <3>2. Rendered.op.owner \in {gs.owner, None}
        BY DEF Rendered, OwnerValue, NoFence, Types, SsOK, StatefulSet
      <3> QED
        BY <1>0, <1>3, <3>1, <3>2
    <2>2. CASE Steady
      BY <1>3, <2>2 DEF Steady, WorkloadKept, FenceKnown
    <2>3. CASE WriteWorkload \/ FenceForWipe
      BY <1>3, <2>3 DEF WriteWorkload, FenceForWipe, ToStatus
    <2>4. CASE UNCHANGED passVars
      BY <1>3, <2>4 DEF passVars, FenceKnown
    <2> QED
      BY <2>1, <2>2, <2>3, <2>4, NextSteady
  <1> QED
    BY <1>1, <1>2, <1>3 DEF FenceKnown

\* A pass that saw the fence of the owning Backup keeps to it.
LEMMA NextKeepsHeld ==
  ASSUME Types, WipeInv, FenceKnown, FenceHeld, Next
  PROVE  FenceHeld'
  <1>0. Backup \subseteq CR /\ None \notin CR /\ CR \cap Token = {}
    BY ConstantsAssumption DEF CR, Op
  <1>1. SUFFICES ASSUME Writing', NEW b \in Backup, gs'.owner = b, ss'.exists, ss'.op.owner = b
                 PROVE  /\ next'.exists /\ next'.op.owner = b
                        /\ next'.replicas = ss'.replicas \/ (NeedsStop' /\ next'.replicas = 0)
    BY DEF FenceHeld
  <1>2. CASE RenderWorkload
    <2>1. next' = Rendered /\ UNCHANGED <<gs, ss>>
      BY <1>2 DEF RenderWorkload, gsVars
    <2>2. Preserving /\ ss.exists
      BY <1>1, <2>1 DEF Preserving
    <2>3. /\ Rendered.exists = ss.exists /\ Rendered.op.owner = gs.owner
          /\ Rendered.replicas = IF NeedsStop THEN 0 ELSE ss.replicas
      BY <2>2, Zenon DEF Rendered, OwnerValue, Types, SsOK, StatefulSet
    <2> QED
      BY <1>1, <2>1, <2>2, <2>3 DEF NeedsStop
  <1>3. ASSUME Writing, ss' = ss, next' = next
        PROVE  /\ next'.exists /\ next'.op.owner = b
               /\ next'.replicas = ss'.replicas \/ (NeedsStop' /\ next'.replicas = 0)
    <2>1. gs.owner = b
      <3>1. ASSUME NEW o \in Op, Takes(o), gs.owner # b PROVE FALSE
        BY <1>0, <1>1, <1>3, <3>1 DEF Takes, FenceKnown
      <3> QED
        BY <1>0, <1>1, <3>1, NextRecords DEF RecordsKept, Recovers, Releases
    <2>2. /\ next.exists /\ next.op.owner = b
          /\ next.replicas = ss.replicas \/ (NeedsStop /\ next.replicas = 0)
      BY <1>1, <1>3, <2>1 DEF FenceHeld
    <2>3. CASE RecordsKept
      BY <1>3, <2>2, <2>3 DEF RecordsKept, NeedsStop
    <2>4. CASE Recovers
      <3>1. NeedsStop => ss.replicas = 0
        BY <2>4 DEF Recovers, FinishRecovery, RecoveryStopped, RestoreTargetStopped, TargetStopped,
                    Drained
      <3> QED
        BY <1>3, <2>2, <3>1
    <2>5. ASSUME NEW o \in Op, Takes(o) PROVE RecordsKept
      BY <1>1, <2>1, <2>5, Zenon DEF Takes, RecordsKept
    <2>6. ~Releases
      BY <1>0, <1>1 DEF Releases
    <2> QED
      BY <2>3, <2>4, <2>5, <2>6, NextRecords
  <1>4. CASE Steady
    BY <1>1, <1>3, <1>4 DEF Steady, WorkloadKept, Writing
  <1>5. CASE WriteWorkload \/ FenceForWipe
    BY <1>1, <1>5 DEF WriteWorkload, FenceForWipe, ToStatus, Writing
  <1>6. CASE StatefulSetController /\ UNCHANGED passVars
    BY <1>1, <1>3, <1>6 DEF StatefulSetController, ssVars, passVars, Writing
  <1> QED
    BY <1>2, <1>4, <1>5, <1>6, NextSteady

\* A copy at work stays fenced.
LEMMA NextKeepsCopies ==
  ASSUME ForceDeletes # "any", Types, WipeInv, OwnershipInv, RecoveryGone, FenceHeld, CopyFenced, Next
  PROVE  CopyFenced'
  <1>0. Backup \subseteq CR /\ None \notin CR /\ CR \cap Token = {} /\ CR \subseteq Op
        /\ Backup \cap Restore = {}
    BY ConstantsAssumption DEF CR, Op
  <1>1. SUFFICES ASSUME NEW b \in Backup, gs'.owner = b, WorkersLive(b)'
                 PROVE  ss'.exists /\ ss'.op.owner = b /\ gs'.recovery = {}
    BY DEF CopyFenced
  <1>2. ASSUME WorkersLive(b)
        PROVE  ss'.exists /\ ss'.op.owner = b /\ gs'.recovery = {}
    <2>1. gs.owner = b
      <3>1. ASSUME NEW o \in Op, Takes(o), gs.owner # b PROVE FALSE
        <4>1. o = b /\ Exists(b) /\ b \in gs.recovery
          BY <1>0, <1>1, <1>2, <3>1, SMTT(20), ZenonT(20) DEF Takes, OwnershipInv, CRAccounted
        <4> QED
          BY <1>0, <4>1 DEF RecoveryGone, Exists
      <3> QED
        BY <1>0, <1>1, <3>1, NextRecords DEF RecordsKept, Recovers, Releases
    <2>2. ss.exists /\ ss.op.owner = b /\ gs.recovery = {}
      BY <1>2, <2>1 DEF CopyFenced
    <2>3. gs'.recovery = {}
      BY <1>0, <1>1, <2>1, <2>2, NextRecords DEF RecordsKept, Recovers, Releases, Takes
    <2>4. CASE WriteWorkload
      BY <2>1, <2>2, <2>3, <2>4 DEF WriteWorkload, UpdateSs, FenceHeld, Writing
    <2>5. CASE ~WriteWorkload
      <3>1. ss'.exists
        BY <2>2, <2>5, NextSteady, Zenon DEF Steady, WorkloadKept, RenderWorkload, FenceForWipe, UpdateSs,
             StatefulSetController, ssVars, Types, SsOK, StatefulSet
      <3>2. ss'.op.owner = b
        BY <1>0, <1>2, <2>1, <2>2, <2>5, NextOps DEF Fences, Unfences, Exclusive
      <3> QED
        BY <2>3, <3>1, <3>2
    <2> QED
      BY <2>4, <2>5
  <1>3. ASSUME ~WorkersLive(b)
        PROVE  ss'.exists /\ ss'.op.owner = b /\ gs'.recovery = {}
    <2>1. ~NoNewWriter
      BY <1>0, <1>1, <1>3 DEF NoNewWriter, Live
    <2>2. ASSUME NEW p \in Backup, CreateBackupJob(p)
          PROVE  ss'.exists /\ ss'.op.owner = b /\ gs'.recovery = {}
      <3>1. UNCHANGED <<gs, ss>>
        BY <2>2, Zenon DEF CreateBackupJob, gsVars, ssVars
      <3>2. ss.exists /\ ss.op = OwnerValue /\ gs.recovery = {}
        BY <2>2, Zenon DEF CreateBackupJob, Prepared, FenceObserved, Admitted, Owns
      <3> QED
        BY <1>1, <3>1, <3>2 DEF OwnerValue
    <2>3. ~(AuthorizeWipe \/ CreateWipeJob)
      <3>1. AuthorizeWipe => UNCHANGED <<job, pods>>
        BY SMTT(20), ZenonT(20) DEF AuthorizeWipe, jobVars
      <3>2. CreateWipeJob => gs'.owner \in Token
        BY ZenonT(30) DEF CreateWipeJob, gsVars, WipeInv, WipeLauncherOwns
      <3> QED
        BY <1>0, <1>1, <1>3, <3>1, <3>2 DEF WorkersLive, JobLive
    <2>4. ASSUME NEW r \in Restore, AuthorizeRestore(r) \/ CreateRestoreJob(r) PROVE FALSE
      <3>1. AuthorizeRestore(r) => UNCHANGED <<job, pods>>
        BY DEF AuthorizeRestore, KeepShared, jobVars
      <3>2. CreateRestoreJob(r) => gs'.owner = r
        BY DEF CreateRestoreJob, gsVars, OwnershipInv, LauncherOwns
      <3> QED
        BY <1>0, <1>1, <1>3, <2>4, <3>1, <3>2 DEF WorkersLive, JobLive
    <2> QED
      BY <2>1, <2>2, <2>3, <2>4, NextWriters
  <1> QED
    BY <1>2, <1>3

\* A worker that has prepared keeps its pod while it lives.
LEMMA NextKeepsAlive ==
  ASSUME Types, CopyAlive, Next
  PROVE  CopyAlive'
  <1>0. Backup \subseteq Op
    BY DEF CR, Op
  <1>1. CASE UNCHANGED pods /\ \A b \in Backup : copy'[b].worker = copy[b].worker
    BY <1>1 DEF CopyAlive
  <1>2. ASSUME NEW o \in Op, PodExit(o) \/ JobSucceed(o) PROVE CopyAlive'
    <2>1. \A b \in Backup \ {o} : pods'[b] = pods[b]
      BY <1>0, <1>2, Zenon DEF PodExit, JobSucceed, Types, JobOK
    <2>3. \A b \in Backup \ {o} : copy'[b].worker = copy[b].worker
      BY <1>2, Zenon DEF PodExit, JobSucceed, WorkerGone, Types, CrOK
    <2>2. o \in Backup => copy'[o].worker = "preparing"
      BY <1>2, Zenon DEF PodExit, JobSucceed, WorkerGone, Types, CrOK, Copy
    <2> QED
      BY <2>1, <2>2, <2>3 DEF CopyAlive
  <1>3. ASSUME NEW o \in Op, JobStartPod(o) PROVE CopyAlive'
    <2>1. pods \in [Op -> Nat]
      BY ConstantsAssumption, SMTT(30) DEF Types, JobOK
    <2>2. \A b \in Backup : pods[b] > 0 => pods'[b] > 0
      BY <1>0, <1>3, <2>1, SMTT(30) DEF JobStartPod
    <2> QED
      BY <1>3, <2>2 DEF JobStartPod, CopyAlive
  <1>4. ASSUME NEW o \in Op, JobFail(o) \/ JobDeleted(o) \/ JobCollected(o) PROVE CopyAlive'
    BY <1>4 DEF JobFail, JobDeleted, JobCollected, CopyAlive
  <1>5. ASSUME NEW p \in Backup, WorkerReady(p) \/ WorkerStarts(p) \/ GateProjected(p)
        PROVE  CopyAlive'
    <2>1. UNCHANGED pods /\ \A b \in Backup \ {p} : copy'[b] = copy[b]
      BY <1>5 DEF WorkerReady, WorkerStarts, GateProjected, jobVars, Types, CrOK
    <2>2. copy'[p].worker # "preparing" => pods[p] > 0
      BY <1>5 DEF WorkerReady, WorkerStarts, GateProjected, CopyAlive, Types, CrOK, Copy
    <2> QED
      BY <2>1, <2>2 DEF CopyAlive
  <1> QED
    BY <1>1, <1>2, <1>3, <1>4, <1>5, NextCopies DEF JobController

\* No step changes the replica count of a workload while the Backup that owns the
\* server copies it, although a pass decides the count, computes the workload and
\* writes it in three steps that a claim may come between (desiredReplicas,
\* reconcileStatefulSet, prepareBackupWorkload), unless a finalizer is stripped in
\* the middle of a reconcile.
THEOREM WorkloadFrozen ==
  ASSUME ForceDeletes # "any"
  PROVE  Spec => FrozenWhileCopying
  <1> DEFINE Inv == /\ WipeInv /\ OwnershipInv /\ OwnerCreated /\ ReleaserDone /\ RecoveryGone
                    /\ CopyInv
             Frozen == \A b \in Backup : copy[b].worker = "copying" /\ gs.owner = b
                                            => ss'.replicas = ss.replicas
  <1>1. ASSUME Init PROVE Inv
    <2>1. OwnerCreated /\ ReleaserDone /\ RecoveryGone
      <3>1. gs.recovery = {} /\ gs.owner = None /\ \A c \in CR : pc[c] = "idle"
        BY <1>1 DEF Init, ObjectsInit
      <3>2. None \notin CR
        BY ConstantsAssumption DEF Op
      <3> QED
        BY <3>1, <3>2 DEF OwnerCreated, ReleaserDone, RecoveryGone, Releasing
    <2>2. CopyInv
      <3>0. ss.op = NoFence
        BY <1>1 DEF Init, ObjectsInit
      <3>1. /\ gs.owner = None /\ at = "start"
            /\ copy = [b \in Backup |-> NoCopy]
        BY <1>1 DEF Init, ObjectsInit, WorkloadInit
      <3>2. None \notin Backup
        BY ConstantsAssumption DEF Op, CR
      <3>3. ss.op.owner = None
        BY <3>0 DEF NoFence
      <3>4. FenceKnown
        BY <3>1, <3>2, <3>3 DEF FenceKnown
      <3>5. FenceHeld
        BY <3>1 DEF FenceHeld, Writing
      <3>6. CopyFenced
        BY <3>1, <3>2 DEF CopyFenced
      <3>7. CopyAlive
        BY <3>1 DEF CopyAlive, NoCopy
      <3> QED
        BY <3>4, <3>5, <3>6, <3>7 DEF CopyInv
    <2> QED
      BY <1>1, <2>1, <2>2, InitialWipe, InitialOwnership
  <1>2. ASSUME TypeOK, Inv, [Next]_vars PROVE Inv'
    <2>1. Types
      BY <1>2, TypeGroups
    <2>2. WipeInv' /\ OwnershipInv'
      BY <1>2, NextKeepsWipe, NextKeepsOwnership
    <2>3. CASE Next
      <3>1. OwnerCreated' /\ ReleaserDone' /\ RecoveryGone'
        BY <1>2, <2>1, <2>3, NextKeepsOwners, NextKeepsGone
      <3>2. CopyInv'
        BY <1>2, <2>1, <2>3, NextKeepsFences, NextKeepsHeld, NextKeepsCopies, NextKeepsAlive DEF CopyInv
      <3> QED
        BY <2>2, <3>1, <3>2
    <2>4. CASE UNCHANGED vars
      <3>1. UNCHANGED <<gs, ss, ssFresh, job, pods, phase, deleting, pc, copy, at, next>>
        BY <2>4 DEF vars, objectVars, gsVars, ssVars, jobVars, crVars, passVars
      <3>2. OwnerCreated' /\ ReleaserDone' /\ RecoveryGone'
        BY <1>2, <3>1 DEF OwnerCreated, ReleaserDone, RecoveryGone, Done
      <3>3. FenceKnown' /\ CopyAlive'
        BY <1>2, <3>1 DEF CopyInv, FenceKnown, CopyAlive, Done
      <3>4. FenceHeld'
        BY <1>2, <3>1 DEF CopyInv, FenceHeld, NeedsStop, Writing
      <3>5. CopyFenced'
        BY <1>2, <3>1 DEF CopyInv, CopyFenced, WorkersLive, JobLive
      <3> QED
        BY <2>2, <3>2, <3>3, <3>4, <3>5 DEF CopyInv
    <2> QED
      BY <1>2, <2>3, <2>4
  <1>3. ASSUME TypeOK, Inv, [Next]_vars PROVE [Frozen]_vars
    <2>1. Types
      BY <1>3, TypeGroups
    <2>2. SUFFICES ASSUME Next, NEW b \in Backup, copy[b].worker = "copying", gs.owner = b
                   PROVE  ss'.replicas = ss.replicas
      BY <1>3
    <2>3. ss.exists /\ ss.op.owner = b /\ gs.recovery = {}
      BY <1>3, <2>2 DEF CopyInv, CopyAlive, CopyFenced, WorkersLive
    <2>4. WriteWorkload => ss'.replicas = ss.replicas
      BY <1>3, <2>2, <2>3 DEF WriteWorkload, UpdateSs, CopyInv, FenceHeld, Writing, NeedsStop
    <2>5. ~FenceForWipe
      BY <2>2, ConstantsAssumption DEF FenceForWipe, WipeReady, WipeGuard, CR
    <2> QED
      BY <2>1, <2>2, <2>4, <2>5, NextSteady, Zenon DEF Steady, WorkloadKept, RenderWorkload,
         StatefulSetController, ssVars
  <1>4. FrozenWhileCopying <=> [][Frozen]_vars
    BY DEF FrozenWhileCopying
  <1> QED
    BY <1>1, <1>2, <1>3, <1>4, TypeCorrect, PTL DEF Spec

-----------------------------------------------------------------------------
(* The stop command.                                                       *)

\* A Restore that owns the server exists: its finalizer stays until it has let go.
RestoreOwnerLives == gs.owner \in Restore => phase[gs.owner] \notin {"uncreated", "gone"}

\* A pass about to send the stop command has recorded that it does, and finds no game
\* if a Backup has claimed the server since.
StopRecorded == at = "stop" => gs.stopAt
StopDrained == at = "stop" /\ gs.owner \in Backup => Drained

StopInv == RestoreOwnerLives /\ StopRecorded /\ StopDrained

\* A Restore that owns the server does not vanish.
LEMMA NextKeepsRestore ==
  ASSUME ForceDeletes = "never", Types, Next, gs.owner \in Restore, gs.owner \in bound,
         phase[gs.owner] # "gone"
  PROVE  phase'[gs.owner] # "gone"
  <1>0. gs.owner \in CR /\ gs.owner \notin Backup
    BY ConstantsAssumption DEF CR
  <1>1. ASSUME NEW o, CancelWorkers(o) PROVE UNCHANGED phase
    BY <1>1 DEF CancelWorkers, DeleteJob, RevokeStart, crVars
  <1>2. ASSUME NEW keep, RecoverLifecycleOperation(keep) PROVE UNCHANGED phase
    BY <1>1, <1>2 DEF RecoverLifecycleOperation, StampForRecovery, StampRestoreGuard, SaveOn,
                      FinishRecovery, crVars
  <1>3. CASE Workload
    BY <1>3, Zenon DEF Workload, PassAborts, DesiredReplicas, IssueStopSequence,
         RenderWorkload, WriteWorkload, WorkloadUnchanged, PatchStatus, crVars
  <1>4. CASE Wipe
    BY <1>2, <1>4, ZenonT(30) DEF Wipe, ClaimWipe, AssertWipe, RecoverWipe, StartPass,
         DeleteWipeJob, RecordWipeSuccess, FenceForWipe, AuthorizeWipe, CreateWipeJob,
         ClearWipeWorkloadGuard, ReleaseWipeFence, ReleaseWipeGuard, WipeWaits, SkipWipe, crVars
  <1>5. CASE StatefulSetController \/ JobController
    BY <1>5 DEF StatefulSetController, JobController, crVars
  <1>6. CASE User
    <2>1. CASE Power \/ WipeRequest
      BY <2>1, ZenonT(30) DEF Power, WipeRequest, crVars
    <2>2. CASE ObjectRequest
      BY <1>0, <2>2, SMTT(20), ZenonT(20) DEF ObjectRequest, Create, Delete, ForceDelete, Types, CrOK
    <2> QED
      BY <1>6, <2>1, <2>2, SMTT(20), ZenonT(20) DEF User
  <1>7. CASE Restoring
    <2> PICK r \in Restore : RestoreWork(r) \/ RestoreCleanup(r) \/ GiveUp(r) \/ RestoreAborts(r)
      BY <1>7, SMTT(20), ZenonT(20) DEF Restoring
    <2>1. CASE PinSnapshot(r) \/ GiveUp(r) \/ StartRestore(r) \/ SucceedRestore(r) \/ FailRestore(r)
      BY <1>0, <2>1, ZenonT(30) DEF PinSnapshot, GiveUp, StartRestore, SucceedRestore, FailRestore, SetPhase,
                        Types, CrOK
    <2>2. CASE RemoveFinalizer(r)
      BY <1>0, <2>2, SMTT(20), ZenonT(20) DEF RemoveFinalizer, Types, CrOK
    <2>3. CASE \/ BindRestoreTarget(r) \/ ClaimRestoreTarget(r) \/ FenceForRestore(r)
               \/ AuthorizeRestore(r) \/ CreateRestoreJob(r) \/ CancelRestoreJob(r)
               \/ ResuspendTarget(r) \/ RecoverRestore(r) \/ FenceForCleanup(r)
               \/ ReleaseRestoreFence(r) \/ ClearRestoreMarker(r) \/ CommitRestore(r)
               \/ RestoreAborts(r)
      BY <1>2, <2>3, ZenonT(30)
         DEF BindRestoreTarget, ClaimRestoreTarget, Claim, FenceForRestore, StampRestoreGuard,
             AuthorizeRestore, CreateRestoreJob, CancelRestoreJob, DeleteJob, ResuspendTarget,
             RecoverRestore, FenceForCleanup, ReleaseRestoreFence, ClearRestoreMarker, CommitRestore,
             RestoreAborts, crVars
    <2> QED
      BY <2>1, <2>2, <2>3, ZenonT(30) DEF RestoreWork, RestoreCleanup
  <1>8. CASE BackingUp
    <2> PICK b \in Backup : BackupWork(b) \/ BackupCleanup(b) \/ BackupFaults(b)
      BY <1>8 DEF BackingUp
    <2>1. CASE \/ AdmitBackup(b) \/ CompleteBackup(b) \/ FailBackup(b) \/ AbandonSaving(b)
               \/ DropBackup(b) \/ CallQuiesce(b)
      <3>1. UNCHANGED phase \/ \E p : phase' = [phase EXCEPT ![b] = p]
        BY <2>1, Zenon DEF AdmitBackup, CompleteBackup, FailBackup, AbandonSaving, DropBackup, CallQuiesce,
                    SetPhase
      <3> QED
        BY <1>0, <3>1 DEF Types, CrOK
    <2>2. CASE \/ AddFinalizer(b) \/ ClaimBackupTarget(b) \/ FenceBackupWorkload(b) \/ PinSource(b)
               \/ CreateBackupJob(b) \/ RecordIntent(b) \/ AttemptQuiesce(b) \/ AuthorizeStart(b)
               \/ CancelBackupJob(b) \/ RecoverBackup(b) \/ RestoreSaving(b) \/ RecordUnquiesced(b)
               \/ ReleaseBackupFence(b) \/ ReleaseBackupTarget(b) \/ QuiesceUnsupported(b)
               \/ WithdrawStart(b) \/ BackupAborts(b)
      BY <1>1, <1>2, <2>2, ZenonT(30)
         DEF AddFinalizer, ClaimBackupTarget, Claim, FenceBackupWorkload, PinSource, CreateBackupJob,
             RecordIntent, AttemptQuiesce, AuthorizeStart, CancelBackupJob, RecoverBackup,
             RestoreSaving, SaveOn, RecordUnquiesced, ReleaseBackupFence, ReleaseBackupTarget,
             QuiesceUnsupported, WithdrawStart, RevokeStart, BackupAborts, crVars
    <2> QED
      BY <2>1, <2>2, ZenonT(30) DEF BackupWork, BackupCleanup, BackupFaults
  <1> QED
    BY <1>3, <1>4, <1>5, <1>6, <1>7, <1>8 DEF Next

\* The stamp of a stop is written and withdrawn by desiredReplicas only, and the pass
\* comes to the stop command from there.
LEMMA NextStamps ==
  ASSUME Types, Next
  PROVE  DesiredReplicas \/ (gs'.stopAt = gs.stopAt /\ (at' = "stop" => at = "stop"))
  <1>0. \A o : Claimed(o).stopAt = gs.stopAt
    BY DEF Claimed, Types, GsOK, GameServer
  <1>1. ASSUME NEW o, CancelWorkers(o) PROVE gs'.stopAt = gs.stopAt
    BY <1>1 DEF CancelWorkers, DeleteJob, RevokeStart, gsVars
  <1>2. ASSUME NEW keep, RecoverLifecycleOperation(keep) PROVE gs'.stopAt = gs.stopAt
    BY <1>1, <1>2, Zenon DEF RecoverLifecycleOperation, StampForRecovery, StampRestoreGuard, SaveOn,
                      FinishRecovery, UpdateGs, gsVars, Types, GsOK, GameServer
  <1>3. CASE Workload
    BY <1>3, Zenon DEF Workload, PassAborts, IssueStopSequence, RenderWorkload, WriteWorkload,
         WorkloadUnchanged, PatchStatus, EndPass, gsVars
  <1>4. CASE Wipe
    <2>1. CASE ClaimWipe \/ AssertWipe \/ RecordWipeSuccess \/ ReleaseWipeGuard
      BY <1>0, <2>1, Zenon DEF ClaimWipe, AssertWipe, RecordWipeSuccess, ReleaseWipeGuard, WipeReleased,
           UpdateGs, EndPass, ToStatus, passVars, Types, GsOK, GameServer
    <2>2. CASE RecoverWipe
      BY <1>2, <2>2 DEF RecoverWipe, passVars
    <2>3. CASE \/ StartPass \/ DeleteWipeJob \/ FenceForWipe \/ AuthorizeWipe \/ CreateWipeJob
               \/ ClearWipeWorkloadGuard \/ ReleaseWipeFence \/ WipeWaits \/ SkipWipe
      BY <2>3 DEF StartPass, DeleteWipeJob, FenceForWipe, AuthorizeWipe, CreateWipeJob,
           ClearWipeWorkloadGuard, ReleaseWipeFence, WipeWaits, SkipWipe, ToStatus, gsVars
    <2> QED
      BY <1>4, <2>1, <2>2, <2>3 DEF Wipe
  <1>5. ASSUME StatefulSetController \/ JobController \/ User PROVE gs'.stopAt = gs.stopAt
    <2>1. CASE Power \/ WipeRequest
      BY <2>1, ZenonT(30) DEF Power, Suspend, Resume, RequestRestart, WipeRequest, CancelWipe, RequestWipe,
           UpdateGs, Types, GsOK, GameServer
    <2> QED
      BY <1>5, <2>1 DEF StatefulSetController, JobController, User, ObjectRequest, gsVars
  <1>6. ASSUME Restoring PROVE gs'.stopAt = gs.stopAt
    <2> PICK r \in Restore : RestoreWork(r) \/ RestoreCleanup(r) \/ GiveUp(r) \/ RestoreAborts(r)
      BY <1>6 DEF Restoring
    <2>1. CASE ClaimRestoreTarget(r) \/ ResuspendTarget(r) \/ CommitRestore(r) \/ RecoverRestore(r)
      BY <1>0, <1>2, <2>1, Zenon DEF ClaimRestoreTarget, Claim, ResuspendTarget, CommitRestore,
           RecoverRestore, UpdateGs, Types, GsOK, GameServer
    <2>2. CASE \/ PinSnapshot(r) \/ GiveUp(r) \/ StartRestore(r) \/ SucceedRestore(r)
               \/ FailRestore(r) \/ BindRestoreTarget(r) \/ RemoveFinalizer(r) \/ AuthorizeRestore(r)
               \/ CreateRestoreJob(r) \/ CancelRestoreJob(r) \/ FenceForRestore(r)
               \/ FenceForCleanup(r) \/ ReleaseRestoreFence(r) \/ ClearRestoreMarker(r)
               \/ RestoreAborts(r)
      BY <2>2, ZenonT(30) DEF PinSnapshot, GiveUp, StartRestore, SucceedRestore, FailRestore, BindRestoreTarget,
           RemoveFinalizer, AuthorizeRestore, CreateRestoreJob, CancelRestoreJob, DeleteJob,
           FenceForRestore, FenceForCleanup, StampRestoreGuard, ReleaseRestoreFence,
           ClearRestoreMarker, RestoreAborts, KeepShared, gsVars
    <2> QED
      BY <2>1, <2>2, ZenonT(30) DEF RestoreWork, RestoreCleanup
  <1>7. ASSUME BackingUp PROVE gs'.stopAt = gs.stopAt
    <2> PICK b \in Backup : BackupWork(b) \/ BackupCleanup(b) \/ BackupFaults(b)
      BY <1>7 DEF BackingUp
    <2>1. CASE RecoverBackup(b) \/ CancelBackupJob(b) \/ WithdrawStart(b)
      BY <1>1, <1>2, <2>1 DEF RecoverBackup, CancelBackupJob, WithdrawStart, RevokeStart, gsVars
    <2>2. CASE \/ ClaimBackupTarget(b) \/ RecordIntent(b) \/ QuiesceUnsupported(b)
               \/ RecordUnquiesced(b) \/ ReleaseBackupTarget(b)
      BY <1>0, <2>2, Zenon DEF ClaimBackupTarget, Claim, RecordIntent, QuiesceUnsupported, RecordUnquiesced,
           ReleaseBackupTarget, UpdateGs, Types, GsOK, GameServer
    <2>3. CASE \/ AddFinalizer(b) \/ AdmitBackup(b) \/ CompleteBackup(b) \/ FailBackup(b)
               \/ AbandonSaving(b) \/ DropBackup(b) \/ ReleaseBackupFence(b) \/ CallQuiesce(b)
               \/ FenceBackupWorkload(b) \/ CreateBackupJob(b) \/ PinSource(b) \/ AttemptQuiesce(b)
               \/ AuthorizeStart(b) \/ RestoreSaving(b) \/ BackupAborts(b)
      BY <2>3, ZenonT(30) DEF AddFinalizer, AdmitBackup, CompleteBackup, FailBackup, AbandonSaving, DropBackup,
           ReleaseBackupFence, CallQuiesce, FenceBackupWorkload, CreateBackupJob, PinSource,
           AttemptQuiesce, AuthorizeStart, RestoreSaving, SaveOn, BackupAborts, KeepShared, gsVars
    <2> QED
      BY <2>1, <2>2, <2>3, ZenonT(30) DEF BackupWork, BackupCleanup, BackupFaults
  <1> QED
    BY <1>3, <1>4, <1>5, <1>6, <1>7 DEF Next, passVars

\* The stop command is sent by issueStopSequence only.
LEMMA NextStops ==
  ASSUME Types, Next
  PROVE  IssueStopSequence \/ (process'.stopping => process.stopping)
  <1>1. ASSUME NEW p, SaveOn(p) PROVE process'.stopping = process.stopping
    BY <1>1 DEF SaveOn, Types, PodOK
  <1>2. ASSUME NEW o, CancelWorkers(o) PROVE process' = process
    BY <1>2 DEF CancelWorkers, DeleteJob, RevokeStart, podVars
  <1>3. ASSUME NEW keep, RecoverLifecycleOperation(keep) PROVE process'.stopping = process.stopping
    BY <1>1, <1>2, <1>3 DEF RecoverLifecycleOperation, StampForRecovery, StampRestoreGuard,
                      FinishRecovery, podVars
  <1>4. CASE Workload
    BY <1>4, Zenon DEF Workload, PassAborts, DesiredReplicas, RenderWorkload, WriteWorkload,
         WorkloadUnchanged, PatchStatus, podVars
  <1>5. CASE Wipe
    BY <1>3, <1>5, ZenonT(30) DEF Wipe, ClaimWipe, AssertWipe, RecoverWipe, StartPass,
         DeleteWipeJob, RecordWipeSuccess, FenceForWipe, AuthorizeWipe, CreateWipeJob,
         ClearWipeWorkloadGuard, ReleaseWipeFence, ReleaseWipeGuard, WipeWaits, SkipWipe, podVars
  <1>6. CASE StatefulSetController \/ JobController \/ User
    <2>1. process' = process \/ process' = NewProcess
      BY <1>6, ZenonT(30) DEF StatefulSetController, StsObserve, StsCreatePod, StsDeletePod, GamePodGone, GameExits,
           JobController, User, Power, WipeRequest, ObjectRequest, podVars
    <2> QED
      BY <2>1 DEF NewProcess
  <1>7. CASE Restoring
    BY <1>3, <1>7, ZenonT(30)
       DEF Restoring, RestoreWork, RestoreCleanup, PinSnapshot, GiveUp, StartRestore, SucceedRestore,
           FailRestore, BindRestoreTarget, RemoveFinalizer, AuthorizeRestore, ClaimRestoreTarget,
           Claim, CreateRestoreJob, CancelRestoreJob, DeleteJob, ResuspendTarget, RecoverRestore,
           CommitRestore, FenceForRestore, FenceForCleanup, StampRestoreGuard, ReleaseRestoreFence,
           ClearRestoreMarker, RestoreAborts, KeepShared, podVars
  <1>8. CASE BackingUp
    <2> PICK b \in Backup : BackupWork(b) \/ BackupCleanup(b) \/ BackupFaults(b)
      BY <1>8 DEF BackingUp
    <2>1. CASE RecoverBackup(b) \/ CancelBackupJob(b) \/ RestoreSaving(b) \/ WithdrawStart(b)
      BY <1>1, <1>2, <1>3, <2>1 DEF RecoverBackup, CancelBackupJob, RestoreSaving, WithdrawStart,
           RevokeStart, podVars
    <2>2. CASE CallQuiesce(b)
      BY <2>2 DEF CallQuiesce, Types, PodOK
    <2>3. CASE \/ AddFinalizer(b) \/ AdmitBackup(b) \/ CompleteBackup(b) \/ FailBackup(b)
               \/ AbandonSaving(b) \/ DropBackup(b) \/ ReleaseBackupFence(b) \/ FenceBackupWorkload(b)
               \/ CreateBackupJob(b) \/ PinSource(b) \/ AttemptQuiesce(b) \/ AuthorizeStart(b)
               \/ BackupAborts(b) \/ ClaimBackupTarget(b) \/ RecordIntent(b) \/ QuiesceUnsupported(b)
               \/ RecordUnquiesced(b) \/ ReleaseBackupTarget(b)
      BY <2>3, ZenonT(30) DEF AddFinalizer, AdmitBackup, CompleteBackup, FailBackup, AbandonSaving, DropBackup,
           ReleaseBackupFence, FenceBackupWorkload, CreateBackupJob, PinSource, AttemptQuiesce,
           AuthorizeStart, BackupAborts, ClaimBackupTarget, Claim, RecordIntent, QuiesceUnsupported,
           RecordUnquiesced, ReleaseBackupTarget, KeepShared, podVars
    <2> QED
      BY <2>1, <2>2, <2>3 DEF BackupWork, BackupCleanup, BackupFaults
  <1> QED
    BY <1>4, <1>5, <1>6, <1>7, <1>8 DEF Next

\* The invariant of the stop command.
LEMMA NextKeepsStop ==
  ASSUME ForceDeletes = "never", Types, WipeInv, OwnerCreated, OwnerFinalized, StopInv, Next
  PROVE  StopInv'
  <1>0. /\ Backup \subseteq CR /\ Restore \subseteq CR /\ None \notin CR /\ CR \cap Token = {}
        /\ Backup \cap Restore = {}
    BY ConstantsAssumption DEF CR, Op
  <1>1. RestoreOwnerLives'
    <2>1. ASSUME gs'.owner = gs.owner, gs.owner \in Restore
          PROVE  phase'[gs.owner] \notin {"uncreated", "gone"}
      <3>1. phase[gs.owner] \notin {"uncreated", "gone"}
        BY <2>1 DEF StopInv, RestoreOwnerLives
      <3>2. gs.owner \in bound
        BY <1>0, <2>1, <3>1 DEF OwnerFinalized, Exists
      <3> QED
        BY <1>0, <2>1, <3>1, <3>2, NextKeepsRestore, NextAges DEF Ages
    <2>2. ASSUME NEW o \in Op, Takes(o) PROVE RestoreOwnerLives'
      BY <1>0, <2>2 DEF Takes, RestoreOwnerLives, Exists, crVars
    <2>3. CASE Releases
      BY <1>0, <2>3 DEF Releases, RestoreOwnerLives
    <2> QED
      BY <2>1, <2>2, <2>3, NextRecords DEF RestoreOwnerLives, RecordsKept, Recovers
  <1>2. StopRecorded' /\ StopDrained'
    <2>1. CASE DesiredReplicas
      <3>1. at' = "stop" => gs'.stopAt /\ gs.owner \notin Backup /\ gs'.owner = gs.owner
        BY <2>1 DEF DesiredReplicas, DecidePreserving, DecideTaken, DecideGuarded, DecideRestarted,
             DecideStopping, DecideRunning, SoftStop, Decide, DecideThen, OnSnapshot, Preserving,
             UpdateGs, Types, GsOK, GameServer
      <3> QED
        BY <3>1 DEF StopRecorded, StopDrained
    <2>2. CASE ~DesiredReplicas
      <3>1. gs'.stopAt = gs.stopAt /\ (at' = "stop" => at = "stop")
        BY <2>2, NextStamps
      <3>2. ASSUME at' = "stop", gs'.owner \in Backup PROVE Drained
        <4>1. at = "stop" /\ gs.stopAt
          BY <3>1, <3>2 DEF StopInv, StopRecorded
        <4>2. CASE gs.owner \in Backup
          BY <4>1, <4>2 DEF StopInv, StopDrained
        <4>3. ASSUME NEW o \in Op, Takes(o), gs.owner \notin Backup PROVE Drained
          <5>1. o \in Backup /\ Claimable(o) /\ gs.owner # o
            BY <3>2, <4>3, SMTT(20), ZenonT(20) DEF Takes
          <5>2. gs.owner = None
            BY <1>0, <4>3, <5>1 DEF Claimable, Exists, StopInv, RestoreOwnerLives, Types, GsOK,
                 GameServer, OpOrNone, Op, CR
          <5> QED
            BY <1>0, <4>1, <5>1, <5>2, SMTT(20), ZenonT(20) DEF Claimable, Free, TransitionPending
        <4> QED
          BY <1>0, <3>2, <4>2, <4>3, NextRecords DEF RecordsKept, Recovers, Releases
      <3>3. ASSUME at' = "stop", Drained PROVE Drained'
        <4>1. ~RenderWorkload /\ ~WriteWorkload /\ ~FenceForWipe
          BY <3>3 DEF RenderWorkload, WriteWorkload, FenceForWipe, ToStatus
        <4>2. CASE Steady
          BY <3>3, <4>2 DEF Steady, WorkloadKept, Drained
        <4>3. CASE StatefulSetController
          <5>1. UNCHANGED ss
            BY <4>3, Zenon DEF StatefulSetController, ssVars
          <5>2. UNCHANGED <<seen, game>>
            <6>1. CASE StsObserve
              BY <3>3, <6>1 DEF StsObserve, Drained
            <6>2. CASE StsCreatePod \/ StsDeletePod
              BY <3>3, <6>2 DEF StsCreatePod, StsDeletePod, Drained
            <6>3. CASE GamePodGone \/ GameExits
              BY <3>3, <6>3 DEF GamePodGone, GameExits, Drained
            <6> QED
              BY <4>3, <6>1, <6>2, <6>3 DEF StatefulSetController
          <5> QED
            BY <3>3, <5>1, <5>2 DEF Drained
        <4> QED
          BY <4>1, <4>2, <4>3, NextSteady
      <3> QED
        BY <3>1, <3>2, <3>3 DEF StopInv, StopRecorded, StopDrained
    <2> QED
      BY <2>1, <2>2
  <1> QED
    BY <1>1, <1>2 DEF StopInv

\* No stop command goes out while a Backup owns the server: the stamp that precedes it
\* and the claim are checked writes of the same object, so that the claim finds either
\* the stamp or a pass whose write is refused (desiredReplicas, claimLifecycleOperation).
\* A Backup may take the server over from a Restore whose finalizer was stripped, under
\* a stop that is already on its way; the theorem is about the other histories.
THEOREM NoStopDuringBackup ==
  ASSUME ForceDeletes = "never"
  PROVE  Spec => StopNeverDuringBackup
  <1> DEFINE Inv == WipeInv /\ OwnerCreated /\ ReleaserDone /\ OwnerFinalized /\ StopInv
             Safe == process'.stopping /\ ~process.stopping => gs.owner \notin Backup
  <1>1. ASSUME Init PROVE Inv
    <2>1. gs.owner = None /\ at = "start" /\ \A c \in CR : pc[c] = "idle"
      BY <1>1 DEF Init, ObjectsInit, WorkloadInit
    <2>2. None \notin CR /\ Restore \subseteq CR
      BY ConstantsAssumption DEF Op, CR
    <2> QED
      BY <1>1, <2>1, <2>2, InitialWipe, SMTT(20), ZenonT(20) DEF OwnerCreated, ReleaserDone, Releasing, OwnerFinalized,
         StopInv, RestoreOwnerLives, StopRecorded, StopDrained
  <1>2. ASSUME TypeOK, Inv, [Next]_vars PROVE Inv'
    <2>1. Types
      BY <1>2, TypeGroups
    <2>2. WipeInv'
      BY <1>2, NextKeepsWipe
    <2>3. CASE Next
      BY <1>2, <2>1, <2>2, <2>3, NextKeepsOwners, NextKeepsFinalized, NextKeepsStop, SMTT(20), ZenonT(20)
    <2>4. CASE UNCHANGED vars
      <3>1. UNCHANGED <<gs, ss, seen, game, phase, deleting, bound, pc, at>>
        BY <2>4 DEF vars, objectVars, gsVars, ssVars, podVars, crVars, passVars
      <3> QED
        BY <1>2, <2>2, <3>1, ZenonT(30) DEF OwnerCreated, ReleaserDone, OwnerFinalized, Exists, Done,
           StopInv, RestoreOwnerLives, StopRecorded, StopDrained, Drained
    <2> QED
      BY <1>2, <2>3, <2>4
  <1>3. ASSUME TypeOK, Inv, [Next]_vars PROVE [Safe]_vars
    <2>1. Types
      BY <1>3, TypeGroups
    <2>2. ASSUME IssueStopSequence PROVE Safe
      BY <1>3, <2>2 DEF IssueStopSequence, StopInv, StopDrained, Drained
    <2> QED
      BY <1>3, <2>1, <2>2, NextStops
  <1>4. StopNeverDuringBackup <=> [][Safe]_vars
    BY DEF StopNeverDuringBackup
  <1> QED
    BY <1>1, <1>2, <1>3, <1>4, TypeCorrect, PTL DEF Spec
====
