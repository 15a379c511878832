--------------------------- MODULE CaptureProofs ---------------------------
(***************************************************************************)
(* A Backup that is reported Succeeded read data that did not change.      *)
(***************************************************************************)
EXTENDS BackupProofs

\* A pinned source belongs to the owner, behind its fence, until the Backup is done.
PinnedOwned ==
    \A b \in Backup : copy[b].source # "none" /\ ~Done(b) =>
        gs.owner = b /\ gs.recovery = {} /\ ss.exists /\ ss.op.owner = b

\* A stopped source stays stopped.
StoppedStill ==
    \A b \in Backup \ Raw : copy[b].source = "stopped" /\ ~Done(b) =>
        ss.replicas = 0 /\ seen = 0 /\ game = "none"

\* Without a stop sequence no stop command is sent.
NoStopSent == (process.stopping => FALSE) /\ at # "stop"

\* A pinned pod that is the present one is there.
SameUp == game = "none" => same = {}

\* Saving is disabled for live sources only, and is until the Backup is done.
AttemptLive ==
    \A b \in Backup : copy[b].attempt = "done" \/ pc[b] = "quiesce" =>
        b \notin Raw /\ copy[b].source = "live"
QuietSaves ==
    \A b \in Backup : copy[b].attempt = "done" /\ ~Done(b) /\ b \in same => process.quiesced

\* A successful Backup has no pod and creates no further Job.
OnePod ==
    \A b \in Backup :
        /\ pods[b] \in {0, 1}
        /\ job[b] = "succeeded" => pods[b] = 0
        /\ phase[b] = "Succeeded" => pods[b] = 0 /\ job[b] \in {"none", "succeeded"}

\* A torn copy has lost its pod for good, or belongs to a Backup that is done without
\* success.
TornLost ==
    \A b \in torn : /\ phase[b] # "Succeeded"
                    /\ Done(b) \/ (copy[b].source = "live" /\ ~(game = "up" /\ b \in same))

CaptureInv ==
    /\ PinnedOwned /\ StoppedStill /\ NoStopSent /\ SameUp /\ AttemptLive /\ QuietSaves
    /\ OnePod /\ TornLost

-----------------------------------------------------------------------------
(* The steps that matter to a copy.                                        *)

\* The game pod is Kubernetes', apart from the Backups that note it as their source.
LEMMA NextGame ==
  ASSUME Types, Next
  PROVE  UNCHANGED <<game, same>> \/ StatefulSetController \/ \E b \in Backup : PinSource(b)
  <1>1. ASSUME NEW keep, RecoverLifecycleOperation(keep) PROVE UNCHANGED <<game, same>>
    BY <1>1 DEF RecoverLifecycleOperation, CancelWorkers, DeleteJob, RevokeStart, StampForRecovery,
         StampRestoreGuard, SaveOn, FinishRecovery, podVars
  <1>2. CASE Workload
    BY <1>2, Zenon DEF Workload, PassAborts, DesiredReplicas, IssueStopSequence, RenderWorkload,
         WriteWorkload, WorkloadUnchanged, PatchStatus, podVars
  <1>3. CASE Wipe
    BY <1>1, <1>3, ZenonT(30) DEF Wipe, ClaimWipe, AssertWipe, RecoverWipe, StartPass, DeleteWipeJob,
         RecordWipeSuccess, FenceForWipe, AuthorizeWipe, CreateWipeJob, ClearWipeWorkloadGuard,
         ReleaseWipeFence, ReleaseWipeGuard, WipeWaits, SkipWipe, podVars
  <1>4. CASE JobController \/ User
    BY <1>4 DEF JobController, User, Power, WipeRequest, ObjectRequest, podVars
  <1>5. CASE Restoring
    BY <1>1, <1>5, ZenonT(30)
       DEF Restoring, RestoreWork, RestoreCleanup, PinSnapshot, GiveUp, StartRestore, SucceedRestore,
           FailRestore, BindRestoreTarget, RemoveFinalizer, AuthorizeRestore, ClaimRestoreTarget,
           Claim, CreateRestoreJob, CancelRestoreJob, DeleteJob, ResuspendTarget, RecoverRestore,
           CommitRestore, FenceForRestore, FenceForCleanup, StampRestoreGuard, ReleaseRestoreFence,
           ClearRestoreMarker, RestoreAborts, KeepShared, podVars
  <1>6. CASE BackingUp
    <2>1. ASSUME NEW b \in Backup, BackupWork(b) PROVE UNCHANGED <<game, same>> \/ PinSource(b)
      BY <2>1, ZenonT(30)
         DEF BackupWork, AddFinalizer, ClaimBackupTarget, Claim, AdmitBackup, FenceBackupWorkload,
             CreateBackupJob, RecordIntent, AttemptQuiesce, CallQuiesce, AuthorizeStart, CompleteBackup,
             KeepShared, podVars
    <2>2. ASSUME NEW b \in Backup, BackupCleanup(b) PROVE UNCHANGED <<game, same>>
      BY <1>1, <2>2, ZenonT(30)
         DEF BackupCleanup, CancelBackupJob, CancelWorkers, DeleteJob, RevokeStart, RecoverBackup,
             RestoreSaving, SaveOn, RecordUnquiesced, ReleaseBackupFence, ReleaseBackupTarget,
             DropBackup, KeepShared, podVars
    <2>3. ASSUME NEW b \in Backup, BackupFaults(b) PROVE UNCHANGED <<game, same>>
      BY <2>3, Zenon
         DEF BackupFaults, QuiesceUnsupported, WithdrawStart, RevokeStart, FailBackup, AbandonSaving,
             BackupAborts, KeepShared, podVars
    <2> QED BY <1>6, <2>1, <2>2, <2>3 DEF BackingUp
  <1> QED
    BY <1>2, <1>3, <1>4, <1>5, <1>6 DEF Next

\* Saving is enabled again by the end of the process, by a recovery, and by the cleanup
\* of the Backup that owes it.
LEMMA NextQuiesced ==
  ASSUME Types, Next
  PROVE  \/ process.quiesced => process'.quiesced
         \/ StatefulSetController
         \/ gs.recovery # {}
         \/ \E b \in Backup : RestoreSaving(b)
  <1> SUFFICES ASSUME gs.recovery = {}
               PROVE  \/ process.quiesced => process'.quiesced
                      \/ StatefulSetController
                      \/ \E b \in Backup : RestoreSaving(b)
    OBVIOUS
  <1>1. ASSUME NEW keep, RecoverLifecycleOperation(keep) PROVE UNCHANGED process
    BY <1>1 DEF RecoverLifecycleOperation, StampForRecovery, StampRestoreGuard, FinishRecovery, podVars
  <1>2. CASE Workload
    <2>1. IssueStopSequence => process'.quiesced = process.quiesced
      BY DEF IssueStopSequence, Types, PodOK
    <2> QED
      BY <1>2, <2>1, Zenon DEF Workload, PassAborts, DesiredReplicas, RenderWorkload,
           WriteWorkload, WorkloadUnchanged, PatchStatus, podVars
  <1>3. CASE Wipe
    BY <1>1, <1>3, ZenonT(30) DEF Wipe, ClaimWipe, AssertWipe, RecoverWipe, StartPass, DeleteWipeJob,
         RecordWipeSuccess, FenceForWipe, AuthorizeWipe, CreateWipeJob, ClearWipeWorkloadGuard,
         ReleaseWipeFence, ReleaseWipeGuard, WipeWaits, SkipWipe, podVars
  <1>4. CASE JobController \/ User
    BY <1>4 DEF JobController, User, Power, WipeRequest, ObjectRequest, podVars
  <1>5. CASE Restoring
    BY <1>1, <1>5, ZenonT(30)
       DEF Restoring, RestoreWork, RestoreCleanup, PinSnapshot, GiveUp, StartRestore, SucceedRestore,
           FailRestore, BindRestoreTarget, RemoveFinalizer, AuthorizeRestore, ClaimRestoreTarget,
           Claim, CreateRestoreJob, CancelRestoreJob, DeleteJob, ResuspendTarget, RecoverRestore,
           CommitRestore, FenceForRestore, FenceForCleanup, StampRestoreGuard, ReleaseRestoreFence,
           ClearRestoreMarker, RestoreAborts, KeepShared, podVars
  <1>6. CASE BackingUp
    <2> PICK b \in Backup : BackupWork(b) \/ BackupCleanup(b) \/ BackupFaults(b)
      BY <1>6 DEF BackingUp
    <2>1. CASE CallQuiesce(b)
      BY <2>1 DEF CallQuiesce, Types, PodOK
    <2> QED
      BY <1>1, <2>1, ZenonT(30)
       DEF BackupWork, BackupCleanup, BackupFaults, AddFinalizer, AdmitBackup,
           CompleteBackup, FailBackup, AbandonSaving, DropBackup, ReleaseBackupFence, PinSource,
           FenceBackupWorkload, AttemptQuiesce, AuthorizeStart, BackupAborts,
           ClaimBackupTarget, Claim, RecordIntent, CreateBackupJob, RecoverBackup, CancelBackupJob,
           CancelWorkers, DeleteJob, RevokeStart, WithdrawStart, QuiesceUnsupported,
           RecordUnquiesced, ReleaseBackupTarget, KeepShared, podVars
  <1> QED
    BY <1>2, <1>3, <1>4, <1>5, <1>6 DEF Next

\* The source of a copy is pinned once.
LEMMA NextSources ==
  ASSUME Types, Next
  PROVE  \A b \in Backup : copy'[b].source = copy[b].source \/ PinSource(b)
  <1> DEFINE Kept == \A b \in Backup : copy'[b].source = copy[b].source
  <1>1. ASSUME UNCHANGED copy PROVE Kept
    BY <1>1
  <1>2. ASSUME NEW b, NEW a, copy' = [copy EXCEPT ![b] = [copy[b] EXCEPT !.attempt = a]] PROVE Kept
    BY <1>2 DEF Types, CrOK, Copy
  <1>3. ASSUME NEW b, NEW a, copy' = [copy EXCEPT ![b].gate = a] PROVE Kept
    BY <1>3 DEF Types, CrOK, Copy
  <1>4. ASSUME NEW b, NEW a, copy' = [copy EXCEPT ![b].worker = a] PROVE Kept
    BY <1>4 DEF Types, CrOK, Copy
  <1>5. ASSUME NEW o, WorkerGone(o) PROVE Kept
    BY <1>5, Zenon DEF WorkerGone, Types, CrOK, Copy
  <1> HIDE DEF Kept
  <1>6. ASSUME NEW o, CancelWorkers(o) PROVE Kept
    BY <1>1, <1>3, <1>6 DEF CancelWorkers, DeleteJob, RevokeStart, crVars
  <1>7. ASSUME NEW keep, RecoverLifecycleOperation(keep) PROVE Kept
    BY <1>1, <1>6, <1>7 DEF RecoverLifecycleOperation, StampForRecovery, StampRestoreGuard, SaveOn,
         FinishRecovery, crVars
  <1>8. ASSUME Workload PROVE Kept
    BY <1>1, <1>8, Zenon DEF Workload, PassAborts, DesiredReplicas, IssueStopSequence, RenderWorkload,
         WriteWorkload, WorkloadUnchanged, PatchStatus, crVars
  <1>9. ASSUME Wipe PROVE Kept
    BY <1>1, <1>7, <1>9, ZenonT(30) DEF Wipe, ClaimWipe, AssertWipe, RecoverWipe, StartPass, DeleteWipeJob,
         RecordWipeSuccess, FenceForWipe, AuthorizeWipe, CreateWipeJob, ClearWipeWorkloadGuard,
         ReleaseWipeFence, ReleaseWipeGuard, WipeWaits, SkipWipe, crVars
  <1>10. ASSUME StatefulSetController \/ User PROVE Kept
    BY <1>1, <1>10 DEF StatefulSetController, User, Power, WipeRequest, ObjectRequest, crVars
  <1>11. ASSUME JobController PROVE Kept
    BY <1>1, <1>3, <1>4, <1>5, <1>11 DEF JobController, JobStartPod, PodExit, JobSucceed, JobFail,
         JobDeleted, JobCollected, WorkerReady, WorkerStarts, GateProjected
  <1>12. ASSUME Restoring PROVE Kept
    BY <1>1, <1>7, <1>12, ZenonT(30)
       DEF Restoring, RestoreWork, RestoreCleanup, PinSnapshot, GiveUp, StartRestore, SucceedRestore,
           FailRestore, BindRestoreTarget, RemoveFinalizer, AuthorizeRestore, ClaimRestoreTarget,
           Claim, CreateRestoreJob, CancelRestoreJob, DeleteJob, ResuspendTarget, RecoverRestore,
           CommitRestore, FenceForRestore, FenceForCleanup, StampRestoreGuard, ReleaseRestoreFence,
           ClearRestoreMarker, RestoreAborts, KeepShared, crVars
  <1>13. ASSUME NEW b \in Backup, BackupWork(b) \/ BackupCleanup(b) \/ BackupFaults(b)
         PROVE  Kept \/ PinSource(b)
    BY <1>1, <1>2, <1>3, <1>6, <1>7, <1>13, ZenonT(30)
       DEF BackupWork, BackupCleanup, BackupFaults, AddFinalizer, AdmitBackup,
           CompleteBackup, FailBackup, AbandonSaving, DropBackup, ReleaseBackupFence, CallQuiesce,
           FenceBackupWorkload, AttemptQuiesce, AuthorizeStart, RestoreSaving, SaveOn, BackupAborts,
           ClaimBackupTarget, Claim, RecordIntent, CreateBackupJob, RecoverBackup, CancelBackupJob,
           RevokeStart, WithdrawStart, QuiesceUnsupported, SetCopy,
           RecordUnquiesced, ReleaseBackupTarget, KeepShared, crVars
  <1>14. ASSUME NEW b \in Backup, PinSource(b)
         PROVE  \A c \in Backup : copy'[c].source = copy[c].source \/ PinSource(c)
    BY <1>14 DEF PinSource, Types, CrOK, Copy
  <1>15. ASSUME Kept PROVE \A b \in Backup : copy'[b].source = copy[b].source \/ PinSource(b)
    BY <1>15 DEF Kept
  <1> QED
    BY <1>8, <1>9, <1>10, <1>11, <1>12, <1>13, <1>14, <1>15 DEF Next, BackingUp

\* A Backup becomes successful through CompleteBackup alone.
LEMMA NextReports ==
  ASSUME Types, Next
  PROVE  \A b \in Backup : phase'[b] = "Succeeded" => phase[b] = "Succeeded" \/ CompleteBackup(b)
  <1>0. Restore \subseteq CR /\ Backup \subseteq CR /\ Backup \cap Restore = {}
    BY ConstantsAssumption DEF CR
  <1> DEFINE Kept == \A b \in Backup : phase'[b] = "Succeeded" => phase[b] = "Succeeded"
  <1>1. ASSUME UNCHANGED phase PROVE Kept
    BY <1>1
  <1>2. ASSUME NEW c \in CR, NEW p, phase' = [phase EXCEPT ![c] = p], p # "Succeeded" PROVE Kept
    BY <1>0, <1>2 DEF Types, CrOK
  <1>3. ASSUME NEW r \in Restore, NEW p, phase' = [phase EXCEPT ![r] = p] PROVE Kept
    BY <1>0, <1>3 DEF Types, CrOK
  <1> HIDE DEF Kept
  <1>4. ASSUME NEW o, CancelWorkers(o) PROVE UNCHANGED phase
    BY <1>4 DEF CancelWorkers, DeleteJob, RevokeStart, crVars
  <1>5. ASSUME NEW keep, RecoverLifecycleOperation(keep) PROVE UNCHANGED phase
    BY <1>4, <1>5 DEF RecoverLifecycleOperation, StampForRecovery, StampRestoreGuard, SaveOn,
                      FinishRecovery, crVars
  <1>6. ASSUME Workload PROVE Kept
    BY <1>1, <1>6, Zenon DEF Workload, PassAborts, DesiredReplicas, IssueStopSequence, RenderWorkload,
         WriteWorkload, WorkloadUnchanged, PatchStatus, crVars
  <1>7. ASSUME Wipe PROVE Kept
    BY <1>1, <1>5, <1>7, ZenonT(30) DEF Wipe, ClaimWipe, AssertWipe, RecoverWipe, StartPass,
         DeleteWipeJob, RecordWipeSuccess, FenceForWipe, AuthorizeWipe, CreateWipeJob,
         ClearWipeWorkloadGuard, ReleaseWipeFence, ReleaseWipeGuard, WipeWaits, SkipWipe, crVars
  <1>8. ASSUME StatefulSetController \/ JobController PROVE Kept
    BY <1>1, <1>8 DEF StatefulSetController, JobController, crVars
  <1>9. ASSUME User PROVE Kept
    <2>1. ASSUME NEW c \in CR, Create(c) \/ Delete(c) \/ ForceDelete(c) PROVE Kept
      BY <1>1, <1>2, <2>1 DEF Create, Delete, ForceDelete
    <2> QED
      BY <1>1, <1>9, <2>1 DEF User, Power, WipeRequest, ObjectRequest, crVars
  <1>10. ASSUME Restoring PROVE Kept
    BY <1>1, <1>3, <1>5, <1>10, ZenonT(30)
       DEF Restoring, RestoreWork, RestoreCleanup, PinSnapshot, GiveUp, StartRestore, SucceedRestore,
           FailRestore, BindRestoreTarget, RemoveFinalizer, AuthorizeRestore, ClaimRestoreTarget,
           Claim, CreateRestoreJob, CancelRestoreJob, DeleteJob, ResuspendTarget, RecoverRestore,
           CommitRestore, FenceForRestore, FenceForCleanup, StampRestoreGuard, ReleaseRestoreFence,
           ClearRestoreMarker, RestoreAborts, KeepShared, SetPhase, crVars
  <1>11. ASSUME NEW b \in Backup, BackupWork(b) \/ BackupCleanup(b) \/ BackupFaults(b)
         PROVE  Kept \/ CompleteBackup(b)
    BY <1>0, <1>1, <1>2, <1>4, <1>5, <1>11, ZenonT(30)
       DEF BackupWork, BackupCleanup, BackupFaults, AddFinalizer, AdmitBackup,
           FailBackup, AbandonSaving, DropBackup, ReleaseBackupFence, CallQuiesce, PinSource,
           FenceBackupWorkload, AttemptQuiesce, AuthorizeStart, RestoreSaving, SaveOn, BackupAborts,
           ClaimBackupTarget, Claim, RecordIntent, CreateBackupJob, RecoverBackup, CancelBackupJob,
           RevokeStart, WithdrawStart, QuiesceUnsupported, SetPhase,
           RecordUnquiesced, ReleaseBackupTarget, KeepShared, crVars
  <1>12. ASSUME NEW b \in Backup, CompleteBackup(b)
         PROVE  \A c \in Backup : phase'[c] = "Succeeded" => phase[c] = "Succeeded" \/ CompleteBackup(c)
    BY <1>0, <1>12, Zenon DEF CompleteBackup, SetPhase, Types, CrOK
  <1>13. ASSUME Kept
         PROVE  \A c \in Backup : phase'[c] = "Succeeded" => phase[c] = "Succeeded" \/ CompleteBackup(c)
    BY <1>13 DEF Kept
  <1> QED
    BY <1>6, <1>7, <1>8, <1>9, <1>10, <1>11, <1>12, <1>13 DEF Next, BackingUp

\* The Job of a Backup is created by the Backup, and otherwise only cancelled.
CopyJobMoves(b) ==
    job'[b] = job[b] \/ (job[b] = "active" /\ job'[b] = "deleting") \/ CreateBackupJob(b)

\* Except for what the Job controller does with it.
LEMMA NextCopyJobs ==
  ASSUME Types, WipeInv, Next
  PROVE  JobController \/ \A b \in Backup : CopyJobMoves(b)
  <1>0. /\ Backup \subseteq Op /\ Token \cap Backup = {} /\ Restore \cap Backup = {}
        /\ Token \subseteq Op /\ Restore \subseteq Op
    BY ConstantsAssumption DEF Op, CR
  <1> DEFINE Moves == \A b \in Backup : CopyJobMoves(b)
  <1>1. ASSUME UNCHANGED job PROVE Moves
    BY <1>1 DEF CopyJobMoves
  <1>2. ASSUME NEW p, DeleteJob(p) PROVE Moves
    BY <1>0, <1>2 DEF DeleteJob, CopyJobMoves, Types, JobOK
  <1>3. ASSUME DeleteJobs PROVE Moves
    BY <1>0, <1>3 DEF DeleteJobs, Undeleted, CopyJobMoves, Types, JobOK
  <1>4. ASSUME NEW o \in Op \ Backup, NEW v, job' = [job EXCEPT ![o] = v] PROVE Moves
    BY <1>0, <1>4 DEF CopyJobMoves, Types, JobOK
  <1>5. ASSUME NEW b \in Backup, CreateBackupJob(b) PROVE Moves
    BY <1>0, <1>5, Zenon DEF CreateBackupJob, CopyJobMoves, Types, JobOK
  <1> HIDE DEF Moves
  <1>6. ASSUME NEW p, CancelWorkers(p) PROVE Moves
    BY <1>1, <1>2, <1>6 DEF CancelWorkers, RevokeStart, jobVars
  <1>7. ASSUME NEW keep, RecoverLifecycleOperation(keep) PROVE Moves
    BY <1>1, <1>6, <1>7 DEF RecoverLifecycleOperation, StampForRecovery, StampRestoreGuard, SaveOn,
                      FinishRecovery, jobVars
  <1>8. ASSUME Workload PROVE Moves
    BY <1>1, <1>8, ZenonT(30) DEF Workload, PassAborts, DesiredReplicas, IssueStopSequence, RenderWorkload,
         WriteWorkload, WorkloadUnchanged, PatchStatus, jobVars
  <1>9. ASSUME Wipe PROVE Moves
    <2>1. ASSUME CreateWipeJob PROVE Moves
      <3>1. snap.owner \in Op \ Backup
        BY <1>0, <2>1 DEF CreateWipeJob, WipeInv, WipeLauncherOwns
      <3> QED
        BY <1>1, <1>4, <2>1, <3>1 DEF CreateWipeJob
    <2> QED
      BY <1>1, <1>3, <1>7, <1>9, <2>1, ZenonT(30) DEF Wipe, ClaimWipe, AssertWipe, RecoverWipe, StartPass,
         DeleteWipeJob, RecordWipeSuccess, FenceForWipe, AuthorizeWipe,
         ClearWipeWorkloadGuard, ReleaseWipeFence, ReleaseWipeGuard, WipeWaits, SkipWipe, jobVars
  <1>10. ASSUME StatefulSetController \/ User PROVE Moves
    BY <1>1, <1>10 DEF StatefulSetController, User, Power, WipeRequest, ObjectRequest, jobVars
  <1>11. ASSUME Restoring PROVE Moves
    <2>1. ASSUME NEW r \in Restore, CreateRestoreJob(r) PROVE Moves
      BY <1>0, <1>4, <2>1, Zenon DEF CreateRestoreJob
    <2> QED
      BY <1>1, <1>2, <1>7, <1>11, <2>1, ZenonT(30)
       DEF Restoring, RestoreWork, RestoreCleanup, PinSnapshot, GiveUp, StartRestore, SucceedRestore,
           FailRestore, BindRestoreTarget, RemoveFinalizer, AuthorizeRestore, ClaimRestoreTarget,
           Claim, CancelRestoreJob, ResuspendTarget, RecoverRestore,
           CommitRestore, FenceForRestore, FenceForCleanup, StampRestoreGuard, ReleaseRestoreFence,
           ClearRestoreMarker, RestoreAborts, KeepShared, jobVars
  <1>12. ASSUME BackingUp PROVE Moves
    BY <1>1, <1>5, <1>6, <1>7, <1>12, ZenonT(30)
       DEF BackingUp, BackupWork, BackupCleanup, BackupFaults, AddFinalizer, AdmitBackup,
           CompleteBackup, FailBackup, AbandonSaving, DropBackup, ReleaseBackupFence, CallQuiesce,
           PinSource, FenceBackupWorkload, AttemptQuiesce, AuthorizeStart, RestoreSaving, SaveOn,
           BackupAborts, ClaimBackupTarget, Claim, RecordIntent, RecoverBackup, CancelBackupJob,
           RevokeStart, WithdrawStart, QuiesceUnsupported, RecordUnquiesced,
           ReleaseBackupTarget, KeepShared, jobVars
  <1> QED
    BY <1>8, <1>9, <1>10, <1>11, <1>12 DEF Next, Moves

\* A Backup has at most one pod, and none once it has succeeded.
LEMMA NextKeepsOnePod ==
  ASSUME Types, WipeInv, OnePod, Next
  PROVE  OnePod'
  <1>0. Backup \subseteq Op
    BY DEF Op, CR
  <1>1. CASE JobController
    <2>1. UNCHANGED phase
      BY <1>1 DEF JobController
    <2>2. ASSUME NEW o \in Op, JobStartPod(o) PROVE OnePod'
      BY <1>0, <2>1, <2>2 DEF JobStartPod, OnePod, Types, JobOK
    <2>3. ASSUME NEW o \in Op, PodExit(o) PROVE OnePod'
      BY <1>0, <2>1, <2>3 DEF PodExit, OnePod, Types, JobOK
    <2>4. ASSUME NEW o \in Op, JobSucceed(o) PROVE OnePod'
      BY <1>0, <2>1, <2>4 DEF JobSucceed, OnePod, Types, JobOK
    <2>5. ASSUME NEW o \in Op, JobFail(o) \/ JobDeleted(o) \/ JobCollected(o) PROVE OnePod'
      BY <1>0, <2>1, <2>5 DEF JobFail, JobDeleted, JobCollected, OnePod, Types, JobOK
    <2>6. ASSUME NEW b \in Backup, WorkerReady(b) \/ WorkerStarts(b) \/ GateProjected(b) PROVE OnePod'
      BY <2>1, <2>6 DEF WorkerReady, WorkerStarts, GateProjected, jobVars, OnePod
    <2> QED
      BY <1>1, <2>2, <2>3, <2>4, <2>5, <2>6 DEF JobController
  <1>2. CASE ~JobController
    <2> SUFFICES ASSUME NEW b \in Backup
                 PROVE  /\ pods'[b] \in {0, 1}
                        /\ job'[b] = "succeeded" => pods'[b] = 0
                        /\ phase'[b] = "Succeeded" => pods'[b] = 0 /\ job'[b] \in {"none", "succeeded"}
      BY DEF OnePod
    <2>1. UNCHANGED pods /\ CopyJobMoves(b)
      BY <1>2, NextCopies, NextCopyJobs
    <2>2. pods'[b] \in {0, 1}
      BY <2>1 DEF OnePod
    <2>3. job'[b] = "succeeded" => job[b] = "succeeded"
      BY <1>0, <2>1 DEF CopyJobMoves, CreateBackupJob, Types, JobOK
    <2>4. ASSUME phase'[b] = "Succeeded" PROVE pods'[b] = 0 /\ job'[b] \in {"none", "succeeded"}
      <3>1. phase[b] = "Succeeded" \/ CompleteBackup(b)
        BY <2>4, NextReports
      <3>2. pods[b] = 0 /\ job[b] \in {"none", "succeeded"}
        BY <3>1 DEF OnePod, CompleteBackup
      <3>3. CreateBackupJob(b) => phase[b] = "Running" /\ UNCHANGED phase
        BY DEF CreateBackupJob, Prepared, FenceObserved, Admitted, crVars
      <3>4. job'[b] = job[b]
        BY <2>1, <2>4, <3>2, <3>3 DEF CopyJobMoves
      <3> QED
        BY <2>1, <3>2, <3>4
    <2> QED
      BY <2>1, <2>2, <2>3, <2>4 DEF OnePod
  <1> QED
    BY <1>1, <1>2

-----------------------------------------------------------------------------
(* The invariant of a copy is inductive.                                   *)

\* A pinned source stays behind the owner's fence.
LEMMA NextKeepsPinned ==
  ASSUME Types, WipeInv, OwnerCreated, ReleaserDone, FenceHeld, PinnedOwned, Next
  PROVE  PinnedOwned'
  <1>0. Backup \subseteq CR /\ None \notin Backup /\ Backup \cap Token = {} /\ Backup \cap Exclusive = {}
    BY ConstantsAssumption DEF Op, CR, Exclusive
  <1> SUFFICES ASSUME NEW b \in Backup, copy'[b].source # "none", ~Done(b)'
               PROVE  gs'.owner = b /\ gs'.recovery = {} /\ ss'.exists /\ ss'.op.owner = b
    BY DEF PinnedOwned
  <1>1. ~Done(b)
    BY <1>0, NextAges DEF Ages
  <1>2. CASE PinSource(b)
    BY <1>2 DEF PinSource, FenceObserved, Admitted, Owns, OwnerValue, gsVars, ssVars
  <1>3. CASE ~PinSource(b)
    <2>1. gs.owner = b /\ gs.recovery = {} /\ ss.exists /\ ss.op.owner = b
      BY <1>1, <1>3, NextSources DEF PinnedOwned
    <2>2. gs'.owner = b
      BY <1>0, <1>1, <2>1, OwnerMoves
    <2>3. gs'.recovery = {}
      BY <1>0, <2>1, <2>2, NextRecords DEF RecordsKept, Takes, Recovers, Releases
    <2>4. WriteWorkload => ss'.exists /\ ss'.op.owner = b
      BY <2>1 DEF WriteWorkload, UpdateSs, FenceHeld, Writing
    <2>5. ~FenceForWipe
      BY <1>0, <2>1 DEF FenceForWipe, WipeReady, WipeGuard
    <2>6. ss'.exists
      BY <2>1, <2>4, <2>5, NextSteady, Zenon DEF Steady, WorkloadKept, RenderWorkload, StatefulSetController,
                                          ssVars
    <2>7. ss'.op.owner = b
      BY <1>0, <1>1, <2>1, <2>4, NextOps DEF Fences, Unfences
    <2> QED
      BY <2>2, <2>3, <2>6, <2>7
  <1> QED
    BY <1>2, <1>3

\* A stopped source is not started.
LEMMA NextKeepsStill ==
  ASSUME Types, WipeInv, FenceHeld, PinnedOwned, StoppedStill, Next
  PROVE  StoppedStill'
  <1>0. Backup \subseteq CR /\ Backup \cap Token = {} /\ None \notin Backup
    BY ConstantsAssumption DEF Op, CR
  <1> SUFFICES ASSUME NEW b \in Backup \ Raw, copy'[b].source = "stopped", ~Done(b)'
               PROVE  ss'.replicas = 0 /\ seen' = 0 /\ game' = "none"
    BY DEF StoppedStill
  <1>1. ~Done(b)
    BY <1>0, NextAges DEF Ages
  <1>2. CASE PinSource(b)
    BY <1>2 DEF PinSource, FenceObserved, ssVars, Types, CrOK, Copy
  <1>3. CASE ~PinSource(b)
    <2>1. gs.owner = b /\ ss.exists /\ ss.op.owner = b
      BY <1>1, <1>3, NextSources DEF PinnedOwned
    <2>2. ss.replicas = 0 /\ seen = 0 /\ game = "none"
      BY <1>1, <1>3, NextSources DEF StoppedStill
    <2>3. WriteWorkload => ss'.replicas = 0
      BY <2>1, <2>2 DEF WriteWorkload, UpdateSs, FenceHeld, Writing
    <2>4. ~FenceForWipe
      BY <1>0, <2>1 DEF FenceForWipe, WipeReady, WipeGuard
    <2>5. StatefulSetController => ss'.replicas = 0 /\ seen' = 0 /\ game' = "none"
      BY <2>2 DEF StatefulSetController, StsObserve, StsCreatePod, StsDeletePod, GamePodGone,
                  GameExits, ssVars
    <2>6. WriteWorkload \/ RenderWorkload => seen' = 0 /\ game' = "none"
      BY <2>2 DEF WriteWorkload, RenderWorkload, podVars
    <2> QED
      BY <2>2, <2>3, <2>4, <2>5, <2>6, NextSteady, Zenon DEF Steady, WorkloadKept, RenderWorkload
  <1> QED
    BY <1>2, <1>3

\* No stop command is sent.
LEMMA NextKeepsUnstopped ==
  ASSUME ~Graceful, Types, NoStopSent, Next
  PROVE  NoStopSent'
  <1>1. DesiredReplicas => at' = "render"
    BY DEF DesiredReplicas, DecidePreserving, DecideTaken, DecideGuarded, DecideRestarted,
           DecideStopping, DecideRunning, SoftStop, Decide, DecideThen
  <1>2. at' # "stop"
    BY <1>1, NextStamps DEF NoStopSent
  <1>3. process'.stopping => FALSE
    BY NextStops DEF NoStopSent, IssueStopSequence
  <1> QED
    BY <1>2, <1>3 DEF NoStopSent

\* A pinned pod that is the present one is there.
LEMMA NextKeepsSame ==
  ASSUME Types, SameUp, Next
  PROVE  SameUp'
  <1>1. ASSUME NEW b \in Backup, PinSource(b) PROVE SameUp'
    BY <1>1 DEF PinSource, SameUp
  <1>2. StatefulSetController => SameUp'
    BY DEF StatefulSetController, StsObserve, StsCreatePod, StsDeletePod, GamePodGone, GameExits, SameUp
  <1>3. UNCHANGED <<game, same>> => SameUp'
    BY DEF SameUp
  <1> QED
    BY <1>1, <1>2, <1>3, NextGame

\* How an attempt comes to be recorded as done.
LEMMA NextAttempts ==
  ASSUME Types, Next
  PROVE  \A b \in Backup : copy'[b].attempt = "done" =>
           \/ copy[b].attempt = "done"
           \/ pc[b] = "quiesce" /\ process'.quiesced
  <1> SUFFICES ASSUME NEW b \in Backup, copy'[b].attempt = "done", copy[b].attempt # "done"
               PROVE  pc[b] = "quiesce" /\ process'.quiesced
    OBVIOUS
  <1>1. ASSUME NEW c \in Backup, SavingMoves(c) PROVE CallQuiesce(c) /\ copy' # copy
    <2>1. ~(RecordIntent(c) \/ AttemptQuiesce(c) \/ ReleaseBackupTarget(c))
      BY DEF RecordIntent, AttemptQuiesce, ReleaseBackupTarget, crVars, Types, CrOK, Copy
    <2>2. ~(QuiesceUnsupported(c) \/ RecordUnquiesced(c))
      BY DEF QuiesceUnsupported, RecordUnquiesced, SetCopy, Types, CrOK, Copy
    <2> QED
      BY <1>1, <2>1, <2>2 DEF SavingMoves
  <1>2. PICK c \in Backup : CallQuiesce(c) /\ copy' # copy
    BY <1>1, NextSaving DEF SavingKept, FinishRecovery, crVars
  <1>3. pc[c] = "quiesce" /\ process'.quiesced
    BY <1>2, Zenon DEF CallQuiesce, Types, PodOK
  <1>4. copy' = [copy EXCEPT ![c] = [copy[c] EXCEPT !.attempt = "done"]]
    BY <1>2 DEF CallQuiesce, SetCopy
  <1>5. c = b
    BY <1>4 DEF Types, CrOK, Copy
  <1> QED
    BY <1>3, <1>5

\* Saving is disabled for live sources only.
LEMMA NextKeepsLive ==
  ASSUME ForceDeletes # "any", Types, AttemptLive, Next
  PROVE  AttemptLive'
  <1> SUFFICES ASSUME NEW b \in Backup, copy'[b].attempt = "done" \/ pc'[b] = "quiesce"
               PROVE  b \notin Raw /\ copy'[b].source = "live"
    BY DEF AttemptLive
  <1>1. AttemptQuiesce(b) => b \notin Raw /\ copy[b].source = "live"
    BY DEF AttemptQuiesce, MustQuiesce
  <1>2. b \notin Raw /\ copy[b].source = "live"
    BY <1>1, NextAttempts, NextReconciles DEF AttemptLive, ReconcilesOnly
  <1>3. copy'[b].source = copy[b].source
    BY <1>2, NextSources DEF PinSource
  <1> QED
    BY <1>2, <1>3

\* Saving stays disabled until the Backup is done.
LEMMA NextKeepsQuiet ==
  ASSUME ~Crashes, Types, PinnedOwned, NoStopSent, AttemptLive, QuietSaves, Next
  PROVE  QuietSaves'
  <1>0. Backup \subseteq CR
    BY DEF CR
  <1> SUFFICES ASSUME NEW b \in Backup, copy'[b].attempt = "done", ~Done(b)', b \in same'
               PROVE  process'.quiesced
    BY DEF QuietSaves
  <1>1. ~Done(b)
    BY <1>0, NextAges DEF Ages
  <1>2. CASE copy[b].attempt # "done"
    BY <1>2, NextAttempts
  <1>3. CASE copy[b].attempt = "done"
    <2>1. copy[b].source = "live"
      BY <1>3 DEF AttemptLive
    <2>2. gs.owner = b /\ gs.recovery = {}
      BY <1>1, <2>1 DEF PinnedOwned
    <2>3. StatefulSetController => process' = process /\ same' = same
      BY DEF StatefulSetController, StsObserve, StsCreatePod, StsDeletePod, GamePodGone, GameExits,
             NoStopSent
    <2>4. b \in same
      BY <2>1, <2>3, NextGame DEF PinSource
    <2>5. process.quiesced
      BY <1>1, <1>3, <2>4 DEF QuietSaves
    <2>6. ASSUME NEW c \in Backup, RestoreSaving(c) PROVE FALSE
      BY <1>1, <2>2, <2>6 DEF RestoreSaving, Owes, Idle, Finished, Terminal, Done
    <2> QED
      BY <2>2, <2>3, <2>5, <2>6, NextQuiesced
  <1> QED
    BY <1>2, <1>3

\* A torn copy is not reported as a success.
LEMMA NextKeepsTorn ==
  ASSUME Types, ExclusiveWriter', CopyAlive', StoppedStill', NoStopSent', AttemptLive', QuietSaves',
         OnePod', SameUp, TornLost, torn \subseteq Backup, Next
  PROVE  TornLost'
  <1>0. Backup \subseteq CR /\ Backup \subseteq Op /\ Backup \cap Exclusive = {}
    BY ConstantsAssumption DEF Op, CR, Exclusive
  <1> SUFFICES ASSUME NEW b \in Backup, b \in torn'
               PROVE  /\ phase'[b] # "Succeeded"
                      /\ Done(b)' \/ (copy'[b].source = "live" /\ ~(game' = "up" /\ b \in same'))
    <2>1. torn' \subseteq Backup
      BY DEF Next, Observe
    <2> QED
      BY <2>1 DEF TornLost
  <1>1. CASE Disturbed(b)'
    <2>1. copy'[b].worker = "copying" /\ pods'[b] > 0
      BY <1>1 DEF Disturbed, CopyAlive
    <2>2. phase'[b] # "Succeeded"
      BY <2>1 DEF OnePod
    <2>3. \A o \in Exclusive : ~(pods'[o] > 0)
      BY <1>0, <2>1 DEF ExclusiveWriter
    <2>4. CASE b \notin Raw /\ copy'[b].source = "stopped" /\ game' # "none"
      BY <2>2, <2>4 DEF StoppedStill
    <2>5. CASE copy'[b].attempt = "done" /\ (~process'.quiesced \/ process'.stopping \/ game' # "up")
      <3>1. copy'[b].source = "live"
        BY <2>5 DEF AttemptLive
      <3>2. ~Done(b)' => ~(game' = "up" /\ b \in same')
        BY <2>5 DEF QuietSaves, NoStopSent
      <3> QED
        BY <2>2, <3>1, <3>2
    <2> QED
      BY <1>1, <2>3, <2>4, <2>5 DEF Disturbed
  <1>2. CASE ~Disturbed(b)'
    <2>1. b \in torn
      BY <1>2 DEF Next, Observe
    <2>2. phase[b] # "Succeeded" /\ (Done(b) \/ (copy[b].source = "live" /\ ~(game = "up" /\ b \in same)))
      BY <2>1 DEF TornLost
    <2>3. ~CompleteBackup(b)
      BY <2>2 DEF CompleteBackup, Prepared, FenceObserved, Admitted, Working, Done, SourceUnchanged
    <2>4. phase'[b] # "Succeeded"
      BY <2>2, <2>3, NextReports
    <2>5. CASE Done(b)
      BY <1>0, <2>4, <2>5, NextAges DEF Ages
    <2>6. CASE copy[b].source = "live" /\ ~(game = "up" /\ b \in same)
      <3>1. ~PinSource(b)
        BY <2>6 DEF PinSource
      <3>2. copy'[b].source = "live"
        BY <2>6, <3>1, NextSources
      <3>3. ASSUME NEW c \in Backup, PinSource(c) PROVE ~(game' = "up" /\ b \in same')
        BY <2>6, <3>1, <3>3 DEF PinSource
      <3>4. ASSUME StatefulSetController PROVE ~(game' = "up" /\ b \in same')
        BY <2>6, <3>4 DEF StatefulSetController, StsObserve, StsCreatePod, StsDeletePod, GamePodGone,
                          GameExits, SameUp
      <3> QED
        BY <2>4, <2>6, <3>2, <3>3, <3>4, NextGame
    <2> QED
      BY <2>2, <2>5, <2>6
  <1> QED
    BY <1>1, <1>2

\* A Backup that is reported Succeeded read data that did not change under it: saving
\* was disabled in the pinned pod, which neither stopped nor was replaced before the copy
\* ended, or the pinned source stayed stopped (prepareBackupSource, maybeQuiesce,
\* reconcilePreparedRestic), for any number of Backups, Restores and wipes, evictions of
\* the game pod and finalizers stripped between reconciles included.  The theorem is
\* about games without a stop sequence whose container does not exit by itself: a
\* restarted container saves again in the same pod, and a stop command that is on its
\* way may overtake the copy.
THEOREM CopiesConsistent ==
  ASSUME ForceDeletes # "any", ~Crashes, ~Graceful
  PROVE  Spec => []CaptureConsistent
  <1> DEFINE Inv == /\ WipeInv /\ OwnershipInv /\ ExclusionInv /\ RecoveryGone /\ CopyInv
                    /\ CaptureInv
  <1>1. ASSUME Init PROVE Inv
    <2>1. /\ ss.op = NoFence /\ gs.owner = None /\ gs.recovery = {} /\ at = "start"
          /\ copy = [b \in Backup |-> NoCopy] /\ process = NewProcess /\ same = {} /\ torn = {}
      BY <1>1 DEF Init, ObjectsInit, WorkloadInit
    <2>2. \A c \in CR : pc[c] = "idle" /\ phase[c] = "uncreated"
      BY <1>1 DEF Init, ObjectsInit
    <2>3. \A o \in Op : pods[o] = 0 /\ job[o] = "none"
      BY <1>1 DEF Init, ObjectsInit
    <2>4. None \notin Backup /\ Backup \subseteq CR /\ Backup \subseteq Op
      BY ConstantsAssumption DEF Op, CR
    <2>5. CopyInv /\ RecoveryGone
      <3>0. ss.op = NoFence
        BY <1>1 DEF Init, ObjectsInit
      <3>1. ss.op.owner = None
        BY <3>0 DEF NoFence
      <3>2. FenceKnown
        BY <2>1, <2>4, <3>1 DEF FenceKnown
      <3>3. FenceHeld
        BY <2>1, SMTT(20), ZenonT(20) DEF FenceHeld, Writing
      <3>4. CopyFenced /\ RecoveryGone
        BY <2>1, <2>4 DEF CopyFenced, RecoveryGone
      <3>5. CopyAlive
        BY <2>1, SMTT(20), ZenonT(20) DEF CopyAlive, NoCopy
      <3> QED
        BY <3>2, <3>3, <3>4, <3>5, SMTT(20), ZenonT(20) DEF CopyInv
    <2>6. CaptureInv
      BY <2>1, <2>2, <2>3, <2>4 DEF CaptureInv, PinnedOwned, StoppedStill, NoStopSent, SameUp,
         AttemptLive, QuietSaves, OnePod, TornLost, NoCopy, NewProcess
    <2> QED
      BY <1>1, <2>5, <2>6, InitialWipe, InitialOwnership, InitialExclusion, SMTT(20), ZenonT(20)
  <1>2. ASSUME TypeOK, Inv, [Next]_vars, ExclusiveWriter' PROVE Inv'
    <2>1. Types /\ torn \subseteq Backup
      BY <1>2, TypeGroups
    <2>2. WipeInv' /\ OwnershipInv' /\ ExclusionInv'
      BY <1>2, NextKeepsWipe, NextKeepsOwnership, NextKeepsExclusion
    <2>3. CASE Next
      <3>1. RecoveryGone' /\ CopyInv'
        BY <1>2, <2>1, <2>3, NextKeepsGone, NextKeepsFences, NextKeepsHeld, NextKeepsCopies,
           NextKeepsAlive DEF CopyInv, ExclusionInv
      <3>2. PinnedOwned' /\ StoppedStill'
        BY <1>2, <2>1, <2>3, NextKeepsPinned, NextKeepsStill DEF CopyInv, ExclusionInv, CaptureInv
      <3>3. NoStopSent' /\ SameUp' /\ AttemptLive' /\ QuietSaves'
        BY <1>2, <2>1, <2>3, NextKeepsUnstopped, NextKeepsSame, NextKeepsLive, NextKeepsQuiet
           DEF CaptureInv
      <3>4. OnePod'
        BY <1>2, <2>1, <2>3, NextKeepsOnePod DEF CaptureInv
      <3>5. TornLost'
        BY <1>2, <2>1, <2>3, <3>1, <3>2, <3>3, <3>4, NextKeepsTorn DEF CaptureInv, CopyInv
      <3> QED
        BY <2>2, <3>1, <3>2, <3>3, <3>4, <3>5 DEF CaptureInv
    <2>4. CASE UNCHANGED vars
      <3>1. /\ UNCHANGED <<gs, ss, ssFresh, seen, game, process, same, job, pods, phase, deleting>>
            /\ UNCHANGED <<pc, copy, at, next, torn>>
        BY <2>4 DEF vars, objectVars, gsVars, ssVars, podVars, jobVars, crVars, passVars
      <3>2. RecoveryGone' /\ FenceKnown' /\ CopyAlive'
        BY <1>2, <3>1 DEF RecoveryGone, CopyInv, FenceKnown, CopyAlive, Done
      <3>3. FenceHeld' /\ CopyFenced'
        BY <1>2, <3>1, SMTT(20), ZenonT(20) DEF CopyInv, FenceHeld, NeedsStop, Writing, CopyFenced, WorkersLive, JobLive
      <3>4. CaptureInv'
        BY <1>2, <3>1, ZenonT(30) DEF CaptureInv, PinnedOwned, StoppedStill, NoStopSent, SameUp,
           AttemptLive, QuietSaves, OnePod, TornLost, Done
      <3> QED
        BY <2>2, <3>2, <3>3, <3>4 DEF CopyInv
    <2> QED
      BY <1>2, <2>3, <2>4
  <1>3. TypeOK /\ Inv => CaptureConsistent
    BY DEF CaptureInv, TornLost, CaptureConsistent
  <1>4. TypeOK /\ Inv /\ [Next]_vars /\ ExclusiveWriter' => Inv'
    BY <1>2
  <1>5. Init => Inv
    BY <1>1
  <1> HIDE DEF Inv
  <1> QED
    BY <1>3, <1>4, <1>5, TypeCorrect, WritersExclusive, PTL DEF Spec
=============================================================================
