-------------------------- MODULE ExclusionProofs --------------------------
(***************************************************************************)
(* Mutual exclusion on the data of a server, for any number of Backups,    *)
(* Restores and wipe requests.  ExclusiveWriter is about pods; it rests on *)
(* what holds from the last check of an operation on, while its Job is     *)
(* still to be created, and on an update of the StatefulSet that a pass    *)
(* has computed and not yet written.                                       *)
(***************************************************************************)
EXTENDS OwnershipProofs

\* A Restore or wipe that has a worker, or has passed its last check.
Writes(o) ==
    \/ Live(o)
    \/ o \in Restore /\ pc[o] = "launch"
    \/ o \in Token /\ at = "launch" /\ snap.owner = o

\* The pass is about to write the StatefulSet, and will not lose the write.
Writing == at = "write" /\ ssFresh

\* A writer is alone.
Sole == \A o \in Exclusive : Writes(o) => \A p \in Op \ {o} : ~Live(p)

\* Beside a writer the workload is stopped, and no pass is about to start it.
Stopped ==
    (\E o \in Exclusive : Writes(o)) => Drained /\ (Writing => next.replicas = 0)

\* A Restore or Backup is done once it is deleted or has an outcome, and stays so.
Done(c) == c \in deleting \/ phase[c] \in {"Succeeded", "Failed", "gone"}

\* An owner has been created, and one that is releasing the server is done.
OwnerCreated == gs.owner \in CR => phase[gs.owner] # "uncreated"
ReleaserDone == \A c \in CR : pc[c] \in Releasing => Done(c)

\* The marker of a Restore on the workload, or on the way to it, is that of the
\* owner unless the Restore is done.
MarkKnown ==
    \A r \in Restore : ss.restore = r \/ (at = "write" /\ next.restore = r)
                          => gs.owner = r \/ Done(r)

\* A pass that saw the marker of a Restore does not start the workload.
MarkHeld ==
    Writing => /\ next.exists
               /\ \A r \in Restore : ss.restore = r /\ ~Done(r) => next.replicas \in {0, ss.replicas}

ExclusionInv == Sole /\ Stopped /\ OwnerCreated /\ ReleaserDone /\ MarkKnown /\ MarkHeld

-----------------------------------------------------------------------------
(* Objects only grow older.                                                *)

Ages == \A c \in CR : /\ Done(c) => Done(c)'
                      /\ phase'[c] = "uncreated" => phase[c] = "uncreated"
                      /\ phase[c] = "gone" => phase'[c] = "gone"

\* A step that leaves the phases and deletion timestamps alone.
LEMMA AgesFrame == UNCHANGED <<phase, deleting>> => Ages
  BY DEF Ages, Done

\* No step takes an outcome or a deletion back, or forgets that an object existed.
LEMMA NextAges ==
  ASSUME Types, Next
  PROVE  Ages
  <1>1. ASSUME NEW o, CancelWorkers(o) PROVE UNCHANGED <<phase, deleting>>
    BY <1>1 DEF CancelWorkers, DeleteJob, RevokeStart, crVars
  <1>2. ASSUME NEW keep, RecoverLifecycleOperation(keep) PROVE UNCHANGED <<phase, deleting>>
    BY <1>1, <1>2 DEF RecoverLifecycleOperation, StampForRecovery, StampRestoreGuard, SaveOn,
                      FinishRecovery, crVars
  <1>3. CASE Workload
    BY <1>3, AgesFrame, Zenon DEF Workload, PassAborts, DesiredReplicas, IssueStopSequence,
         RenderWorkload, WriteWorkload, WorkloadUnchanged, PatchStatus, crVars
  <1>4. CASE Wipe
    BY <1>2, <1>4, AgesFrame, ZenonT(30) DEF Wipe, ClaimWipe, AssertWipe, RecoverWipe, StartPass,
         DeleteWipeJob, RecordWipeSuccess, FenceForWipe, AuthorizeWipe, CreateWipeJob,
         ClearWipeWorkloadGuard, ReleaseWipeFence, ReleaseWipeGuard, WipeWaits, SkipWipe, crVars
  <1>5. CASE StatefulSetController \/ JobController
    BY <1>5, AgesFrame DEF StatefulSetController, JobController, crVars
  <1>6. CASE User
    <2>1. CASE Power \/ WipeRequest
      BY <2>1, AgesFrame DEF Power, WipeRequest, crVars
    <2>2. CASE ObjectRequest
      BY <2>2 DEF ObjectRequest, Create, Delete, ForceDelete, Exists, Ages, Done, Types, CrOK
    <2> QED
      BY <1>6, <2>1, <2>2 DEF User
  <1>7. CASE Restoring
    <2> PICK r \in Restore : RestoreWork(r) \/ RestoreCleanup(r) \/ GiveUp(r) \/ RestoreAborts(r)
      BY <1>7 DEF Restoring
    <2>0. r \in CR /\ r \notin Token
      BY ConstantsAssumption DEF CR
    <2>1. CASE PinSnapshot(r) \/ GiveUp(r) \/ StartRestore(r) \/ SucceedRestore(r) \/ FailRestore(r)
      BY <2>0, <2>1
         DEF PinSnapshot, GiveUp, StartRestore, SucceedRestore, FailRestore, Suspended, HoldsTarget,
             Claiming, Reconciling, Terminal, Exists, SetPhase, Ages, Done, Types, CrOK
    <2>2. CASE RemoveFinalizer(r)
      BY <2>0, <2>2 DEF RemoveFinalizer, Ages, Done, Types, CrOK
    <2>3. CASE \/ BindRestoreTarget(r) \/ ClaimRestoreTarget(r) \/ FenceForRestore(r)
               \/ AuthorizeRestore(r) \/ CreateRestoreJob(r) \/ CancelRestoreJob(r)
               \/ ResuspendTarget(r) \/ RecoverRestore(r) \/ FenceForCleanup(r)
               \/ ReleaseRestoreFence(r) \/ ClearRestoreMarker(r) \/ CommitRestore(r)
               \/ RestoreAborts(r)
      BY <1>2, <2>3, AgesFrame, ZenonT(30)
         DEF BindRestoreTarget, ClaimRestoreTarget, Claim, FenceForRestore, StampRestoreGuard,
             AuthorizeRestore, CreateRestoreJob, CancelRestoreJob, DeleteJob, ResuspendTarget,
             RecoverRestore, FenceForCleanup, ReleaseRestoreFence, ClearRestoreMarker,
             CommitRestore, RestoreAborts, crVars
    <2> QED
      BY <2>1, <2>2, <2>3 DEF RestoreWork, RestoreCleanup
  <1>8. CASE BackingUp
    <2> PICK b \in Backup : BackupWork(b) \/ BackupCleanup(b) \/ BackupFaults(b)
      BY <1>8 DEF BackingUp
    <2>0. b \in CR
      BY DEF CR
    <2>1. CASE AdmitBackup(b) \/ CompleteBackup(b) \/ FailBackup(b) \/ AbandonSaving(b) \/ DropBackup(b)
      BY <2>0, <2>1
         DEF AdmitBackup, CompleteBackup, FailBackup, AbandonSaving, DropBackup, Prepared,
             FenceObserved, Admitted, Working, Active, SetPhase, Ages, Done, Types, CrOK
    <2>2. CASE CallQuiesce(b)
      <3>1. /\ UNCHANGED deleting
            /\ UNCHANGED phase \/ (phase[b] = "Running" /\ phase' = [phase EXCEPT ![b] = "Failed"])
        BY <2>2 DEF CallQuiesce, SetPhase
      <3> QED
        BY <2>0, <3>1 DEF Ages, Done, Types, CrOK
    <2>3. CASE \/ AddFinalizer(b) \/ ClaimBackupTarget(b) \/ FenceBackupWorkload(b) \/ PinSource(b)
               \/ CreateBackupJob(b) \/ RecordIntent(b) \/ AttemptQuiesce(b) \/ AuthorizeStart(b)
               \/ CancelBackupJob(b) \/ RecoverBackup(b) \/ RestoreSaving(b) \/ RecordUnquiesced(b)
               \/ ReleaseBackupFence(b) \/ ReleaseBackupTarget(b) \/ QuiesceUnsupported(b)
               \/ WithdrawStart(b) \/ BackupAborts(b)
      BY <1>1, <1>2, <2>3, AgesFrame, ZenonT(30)
         DEF AddFinalizer, ClaimBackupTarget, Claim, FenceBackupWorkload, PinSource,
             CreateBackupJob, RecordIntent, AttemptQuiesce, AuthorizeStart, CancelBackupJob,
             RecoverBackup, RestoreSaving, SaveOn, RecordUnquiesced, ReleaseBackupFence,
             ReleaseBackupTarget, QuiesceUnsupported, WithdrawStart, RevokeStart, BackupAborts, crVars
    <2> QED
      BY <2>1, <2>2, <2>3 DEF BackupWork, BackupCleanup, BackupFaults
  <1> QED
    BY <1>3, <1>4, <1>5, <1>6, <1>7, <1>8 DEF Next

-----------------------------------------------------------------------------
(* Steady steps: the workload keeps its replicas, no pass computes it, and *)
(* a marker that appears on it is that of the owner.                       *)

WorkloadKept ==
    /\ ss'.exists = ss.exists /\ ss'.replicas = ss.replicas
    /\ ss'.restore \in Restore => ss'.restore \in {ss.restore, gs.owner}
    /\ at' = "write" => at = "write" /\ next' = next
    /\ Writing' => Writing /\ ss' = ss

Steady == WorkloadKept /\ seen' = seen /\ game' = game

\* The pass does not come to the write of the StatefulSet.
PassAway == UNCHANGED passVars \/ at' # "write"

\* A step that leaves the workload alone is steady.
LEMMA SteadyFrame ==
  /\ UNCHANGED ss /\ (ssFresh' => ssFresh) /\ PassAway => WorkloadKept
  /\ UNCHANGED ssVars /\ PassAway => WorkloadKept
  /\ UNCHANGED podVars => seen' = seen /\ game' = game
  <1>1. UNCHANGED ss /\ (ssFresh' => ssFresh) /\ PassAway => WorkloadKept
    BY DEF WorkloadKept, Writing, PassAway, passVars
  <1>2. UNCHANGED ssVars => UNCHANGED ss /\ (ssFresh' => ssFresh)
    BY DEF ssVars
  <1> QED
    BY <1>1, <1>2 DEF podVars

\* A checked write that keeps the replicas is steady.
LEMMA SteadyUpdate ==
  ASSUME NEW new, UpdateSs(new), new.exists = ss.exists, new.replicas = ss.replicas,
         new.restore \in Restore => new.restore \in {ss.restore, gs.owner}, PassAway
  PROVE  WorkloadKept
  BY DEF WorkloadKept, Writing, PassAway, passVars, UpdateSs

\* Removing the owner's record from the workload is such a write.
LEMMA SteadyClear ==
  ASSUME Types, IF ss # ClearFence(ss) THEN UpdateSs(ClearFence(ss)) ELSE UNCHANGED ssVars, PassAway
  PROVE  WorkloadKept
  <1>1. /\ ClearFence(ss).exists = ss.exists /\ ClearFence(ss).replicas = ss.replicas
        /\ ClearFence(ss).restore = ss.restore
    BY DEF ClearFence, Types, SsOK, StatefulSet
  <1> QED
    BY <1>1, SteadyUpdate, SteadyFrame

\* So is the stamp of restoreTargetStopped.
LEMMA SteadyStamp ==
  ASSUME Types, StampRestoreGuard, PassAway
  PROVE  Steady
  <1> DEFINE new == [ss EXCEPT !.restore = RestoreGuard]
  <1>1. new.exists = ss.exists /\ new.replicas = ss.replicas /\ new.restore = RestoreGuard
    BY DEF Types, SsOK, StatefulSet
  <1>2. RestoreGuard \in Restore => RestoreGuard = gs.owner
    BY ConstantsAssumption DEF RestoreGuard, Op, CR
  <1>3. UpdateSs(new) /\ UNCHANGED podVars
    BY DEF StampRestoreGuard
  <1> HIDE DEF new
  <1> QED
    BY <1>1, <1>2, <1>3, SteadyUpdate, SteadyFrame DEF Steady

\* The recovery of a vanished operation is steady.
LEMMA SteadyRecovery ==
  ASSUME Types, NEW keep, RecoverLifecycleOperation(keep), UNCHANGED passVars
  PROVE  Steady
  <1>1. PassAway
    BY DEF PassAway
  <1>2. ASSUME NEW o, CancelWorkers(o) PROVE Steady
    BY <1>1, <1>2, SteadyFrame DEF CancelWorkers, DeleteJob, RevokeStart, Steady
  <1>3. ASSUME NEW p, SaveOn(p) PROVE Steady
    BY <1>1, <1>3, SteadyFrame DEF SaveOn, Steady
  <1>4. ASSUME FinishRecovery(keep) PROVE Steady
    BY <1>1, <1>4, SteadyFrame DEF FinishRecovery, Steady
  <1> QED
    BY <1>1, <1>2, <1>3, <1>4, SteadyStamp DEF RecoverLifecycleOperation, StampForRecovery

\* A pass outside its wipe step is steady except when it computes and writes.
LEMMA WorkloadSteady ==
  ASSUME Types, Workload
  PROVE  Steady \/ RenderWorkload \/ WriteWorkload
  <1>1. ASSUME DesiredReplicas PROVE Steady
    <2>1. at' # "write"
      BY <1>1 DEF DesiredReplicas, DecidePreserving, DecideTaken, DecideGuarded, DecideRestarted,
                  DecideStopping, DecideRunning, SoftStop, Decide, DecideThen
    <2> QED
      BY <1>1, <2>1, SteadyFrame DEF DesiredReplicas, PassAway, Steady
  <1>2. ASSUME PassAborts \/ PatchStatus PROVE Steady
    BY <1>2, SteadyFrame, Zenon DEF PassAborts, PatchStatus, EndPass, PassAway, Steady
  <1>3. ASSUME IssueStopSequence PROVE Steady
    BY <1>3, SteadyFrame DEF IssueStopSequence, PassAway, Steady
  <1>4. ASSUME WorkloadUnchanged PROVE Steady
    BY <1>4, SteadyFrame DEF WorkloadUnchanged, PassAway, Steady
  <1> QED
    BY <1>1, <1>2, <1>3, <1>4 DEF Workload

\* A wipe step is steady except when it fences the workload.
LEMMA WipeSteady ==
  ASSUME Types, Wipe
  PROVE  Steady \/ FenceForWipe
  <1>1. ASSUME ClaimWipe PROVE Steady
    <2>1. at' # "write" /\ (ssFresh' => ssFresh) /\ UNCHANGED <<ss, podVars>>
      BY <1>1 DEF ClaimWipe, EndPass, ToStatus
    <2> QED
      BY <2>1, SteadyFrame DEF PassAway, Steady
  <1>2. ASSUME \/ AssertWipe \/ StartPass \/ DeleteWipeJob \/ RecordWipeSuccess \/ AuthorizeWipe
               \/ CreateWipeJob \/ ReleaseWipeGuard \/ WipeWaits \/ SkipWipe
        PROVE  Steady
    BY <1>2, SteadyFrame
       DEF AssertWipe, StartPass, DeleteWipeJob, RecordWipeSuccess, AuthorizeWipe, CreateWipeJob,
           ReleaseWipeGuard, WipeWaits, SkipWipe, ToStatus, PassAway, Steady
  <1>3. ASSUME ClearWipeWorkloadGuard PROVE Steady
    <2> DEFINE new == [ss EXCEPT !.wipe = None]
    <2>1. new.exists = ss.exists /\ new.replicas = ss.replicas /\ new.restore = ss.restore
      BY DEF Types, SsOK, StatefulSet
    <2>2. /\ UpdateSs(new) \/ UNCHANGED ssVars
          /\ PassAway /\ UNCHANGED podVars
      BY <1>3 DEF ClearWipeWorkloadGuard, PassAway
    <2> HIDE DEF new
    <2> QED
      BY <2>1, <2>2, SteadyUpdate, SteadyFrame DEF Steady
  <1>4. ASSUME ReleaseWipeFence PROVE Steady
    BY <1>4, SteadyClear, SteadyFrame DEF ReleaseWipeFence, PassAway, Steady
  <1>5. ASSUME RecoverWipe PROVE Steady
    BY <1>5, SteadyRecovery DEF RecoverWipe
  <1> QED
    BY <1>1, <1>2, <1>3, <1>4, <1>5 DEF Wipe

\* Every step of a Restore is steady.
LEMMA RestoreSteady ==
  ASSUME Types, Restoring, UNCHANGED passVars
  PROVE  Steady
  <1> PICK r \in Restore : RestoreWork(r) \/ RestoreCleanup(r) \/ GiveUp(r) \/ RestoreAborts(r)
    BY DEF Restoring
  <1>0. PassAway
    BY SMTT(20), ZenonT(20) DEF PassAway
  <1>1. ASSUME \/ PinSnapshot(r) \/ GiveUp(r) \/ StartRestore(r) \/ SucceedRestore(r)
               \/ FailRestore(r) \/ BindRestoreTarget(r) \/ RemoveFinalizer(r) \/ AuthorizeRestore(r)
        PROVE  Steady
    BY <1>0, <1>1, SteadyFrame
       DEF PinSnapshot, GiveUp, StartRestore, SucceedRestore, FailRestore, BindRestoreTarget,
           RemoveFinalizer, AuthorizeRestore, KeepShared, Steady
  <1>2. ASSUME \/ ClaimRestoreTarget(r) \/ CreateRestoreJob(r) \/ CancelRestoreJob(r)
               \/ ResuspendTarget(r) \/ CommitRestore(r) \/ RestoreAborts(r)
        PROVE  Steady
    BY <1>0, <1>2, SteadyFrame
       DEF ClaimRestoreTarget, Claim, CreateRestoreJob, CancelRestoreJob, DeleteJob,
           ResuspendTarget, CommitRestore, RestoreAborts, Steady
  <1>3. ASSUME ReleaseRestoreFence(r) PROVE Steady
    BY <1>0, <1>3, SteadyClear, SteadyFrame DEF ReleaseRestoreFence, Steady
  <1>4. ASSUME ClearRestoreMarker(r) PROVE Steady
    <2> DEFINE new == [ss EXCEPT !.restore = None]
    <2>1. new.exists = ss.exists /\ new.replicas = ss.replicas /\ new.restore = None
      BY DEF Types, SsOK, StatefulSet
    <2>2. UpdateSs(new) \/ UNCHANGED ssVars
      BY <1>4 DEF ClearRestoreMarker
    <2>3. None \notin Restore
      BY ConstantsAssumption DEF Op, CR
    <2>4. UNCHANGED podVars
      BY <1>4 DEF ClearRestoreMarker
    <2> HIDE DEF new
    <2> QED
      BY <1>0, <2>1, <2>2, <2>3, <2>4, SteadyUpdate, SteadyFrame DEF Steady
  <1> QED
    BY <1>0, <1>1, <1>2, <1>3, <1>4, SteadyStamp, SteadyRecovery
       DEF RestoreWork, RestoreCleanup, FenceForRestore, FenceForCleanup, RecoverRestore

\* Every step of a Backup is steady.
LEMMA BackupSteady ==
  ASSUME Types, BackingUp, UNCHANGED passVars
  PROVE  Steady
  <1> PICK b \in Backup : BackupWork(b) \/ BackupCleanup(b) \/ BackupFaults(b)
    BY DEF BackingUp
  <1>0. PassAway
    BY DEF PassAway
  <1>1. ASSUME \/ AddFinalizer(b) \/ AdmitBackup(b) \/ CompleteBackup(b) \/ FailBackup(b)
               \/ AbandonSaving(b) \/ DropBackup(b) \/ AttemptQuiesce(b) \/ AuthorizeStart(b)
        PROVE  Steady
    BY <1>0, <1>1, SteadyFrame
       DEF AddFinalizer, AdmitBackup, CompleteBackup, FailBackup, AbandonSaving, DropBackup,
           AttemptQuiesce, AuthorizeStart, KeepShared, Steady
  <1>2. ASSUME \/ ClaimBackupTarget(b) \/ CreateBackupJob(b) \/ RecordIntent(b)
               \/ QuiesceUnsupported(b) \/ RecordUnquiesced(b) \/ ReleaseBackupTarget(b)
               \/ BackupAborts(b)
        PROVE  Steady
    BY <1>0, <1>2, SteadyFrame
       DEF ClaimBackupTarget, Claim, CreateBackupJob, RecordIntent, QuiesceUnsupported,
           RecordUnquiesced, ReleaseBackupTarget, BackupAborts, Steady
  <1>3. ASSUME PinSource(b) \/ CallQuiesce(b) \/ RestoreSaving(b) PROVE Steady
    BY <1>0, <1>3, SteadyFrame, Zenon DEF PinSource, CallQuiesce, RestoreSaving, SaveOn, Steady
  <1>4. ASSUME FenceBackupWorkload(b) PROVE Steady
    <2> DEFINE new == [ss EXCEPT !.op = OwnerValue]
    <2>1. new.exists = ss.exists /\ new.replicas = ss.replicas /\ new.restore = ss.restore
      BY DEF Types, SsOK, StatefulSet
    <2>2. UpdateSs(new) /\ UNCHANGED podVars
      BY <1>4 DEF FenceBackupWorkload
    <2> HIDE DEF new
    <2> QED
      BY <1>0, <2>1, <2>2, SteadyUpdate, SteadyFrame DEF Steady
  <1>5. ASSUME ReleaseBackupFence(b) PROVE Steady
    BY <1>0, <1>5, SteadyClear, SteadyFrame DEF ReleaseBackupFence, Steady
  <1>6. ASSUME CancelBackupJob(b) \/ WithdrawStart(b) PROVE Steady
    BY <1>0, <1>6, SteadyFrame
       DEF CancelBackupJob, WithdrawStart, CancelWorkers, DeleteJob, RevokeStart, Steady
  <1> QED
    BY <1>1, <1>2, <1>3, <1>4, <1>5, <1>6, SteadyRecovery
       DEF BackupWork, BackupCleanup, BackupFaults, RecoverBackup

\* The Job controller and the users leave the workload alone.
LEMMA OutsideSteady ==
  ASSUME JobController \/ User, UNCHANGED passVars
  PROVE  Steady
  BY SteadyFrame
     DEF JobController, User, Power, WipeRequest, ObjectRequest, PassAway, Steady

\* The steps that are not steady.
LEMMA NextSteady ==
  ASSUME Types, Next
  PROVE  \/ Steady
         \/ RenderWorkload \/ WriteWorkload \/ FenceForWipe
         \/ StatefulSetController /\ UNCHANGED passVars
  BY WorkloadSteady, WipeSteady, RestoreSteady, BackupSteady, OutsideSteady DEF Next

-----------------------------------------------------------------------------
(* Writers appear by the last check of an operation only, and workers by   *)
(* the creation of a Job.                                                  *)

NoNewWriter ==
    /\ \A o \in Op : Live(o)' => Live(o)
    /\ \A o \in Exclusive : Writes(o)' => Writes(o)

\* A calm step brings no writer.
LEMMA CalmWriters ==
  ASSUME ForceDeletes # "any", Calm
  PROVE  NoNewWriter
  <1>1. \A o \in Op : Live(o)' => Live(o)
    BY DEF Calm, NoNewWork, Live, Op
  <1>2. \A r \in Restore : pc'[r] = "launch" => pc[r] = "launch"
    BY DEF Calm, ReconcilesKept, CR
  <1>3. at' = "launch" => at = "launch" /\ snap' = snap
    BY DEF Calm, PassKept
  <1> QED
    BY <1>1, <1>2, <1>3 DEF NoNewWriter, Writes, Exclusive, Op, CR

\* Nor does a step that creates no Job and passes no check.
LEMMA FrameWriters ==
  ASSUME UNCHANGED jobVars,
         \A r \in Restore : pc'[r] = "launch" => pc[r] = "launch",
         at' = "launch" => at = "launch" /\ snap' = snap
  PROVE  NoNewWriter
  BY DEF NoNewWriter, Writes, Live, HasWork, WorkersLive, JobLive, jobVars, Exclusive, Op, CR

\* The steps that bring a writer or a worker.
LEMMA NextWriters ==
  ASSUME ForceDeletes # "any", Types, Next
  PROVE  \/ NoNewWriter
         \/ AuthorizeWipe \/ CreateWipeJob
         \/ /\ \/ \E r \in Restore : AuthorizeRestore(r) \/ CreateRestoreJob(r)
               \/ \E b \in Backup : CreateBackupJob(b)
            /\ UNCHANGED passVars
  <1>1. ASSUME NEW r \in Restore, RestoreMoves(r), UNCHANGED passVars
        PROVE  NoNewWriter \/ AuthorizeRestore(r) \/ CreateRestoreJob(r)
    <2>1. CASE ClaimRestoreTarget(r) \/ FinishRecovery({})
      BY <1>1, <2>1, FrameWriters DEF ClaimRestoreTarget, Claim, FinishRecovery, crVars, passVars
    <2>2. CASE ReleaseRestoreFence(r) \/ ClearRestoreMarker(r) \/ CommitRestore(r)
      <3>1. UNCHANGED jobVars
        BY <2>2 DEF ReleaseRestoreFence, ClearRestoreMarker, CommitRestore
      <3>2. \A q \in Restore : pc'[q] = "launch" => pc[q] = "launch"
        BY <2>2 DEF ReleaseRestoreFence, ClearRestoreMarker, CommitRestore, Step, Types, CrOK, CR
      <3> QED
        BY <1>1, <3>1, <3>2, FrameWriters DEF passVars
    <2> QED
      BY <1>1, <2>1, <2>2 DEF RestoreMoves
  <1>2. ASSUME NEW b \in Backup, BackupMoves(b), UNCHANGED passVars
        PROVE  NoNewWriter \/ CreateBackupJob(b)
    <2>1. CASE ClaimBackupTarget(b) \/ FinishRecovery({})
      BY <1>2, <2>1, FrameWriters DEF ClaimBackupTarget, Claim, FinishRecovery, crVars, passVars
    <2>2. CASE AttemptQuiesce(b) \/ ReleaseBackupFence(b) \/ ReleaseBackupTarget(b)
      <3>1. UNCHANGED jobVars
        BY <2>2 DEF AttemptQuiesce, ReleaseBackupFence, ReleaseBackupTarget, KeepShared
      <3>2. \A q \in Restore : pc'[q] = "launch" => pc[q] = "launch"
        BY <2>2 DEF AttemptQuiesce, ReleaseBackupFence, ReleaseBackupTarget, Step, Types, CrOK, CR
      <3> QED
        BY <1>2, <3>1, <3>2, FrameWriters DEF passVars
    <2> QED
      BY <1>2, <2>1, <2>2 DEF BackupMoves
  <1>3. ASSUME WipeMoves PROVE NoNewWriter \/ AuthorizeWipe \/ CreateWipeJob
    <2>1. CASE FinishRecovery({"pass"}) /\ UNCHANGED passVars
      BY <2>1, FrameWriters DEF FinishRecovery, crVars, passVars
    <2>2. CASE ClaimWipe \/ ClearWipeWorkloadGuard \/ ReleaseWipeFence \/ ReleaseWipeGuard
      <3>1. UNCHANGED jobVars /\ UNCHANGED pc /\ at' # "launch"
        BY <2>2 DEF ClaimWipe, ClearWipeWorkloadGuard, ReleaseWipeFence, ReleaseWipeGuard, EndPass,
                    ToStatus, crVars
      <3> QED
        BY <3>1, FrameWriters
    <2> QED
      BY <1>3, <2>1, <2>2 DEF WipeMoves
  <1> QED
    BY <1>1, <1>2, <1>3, CalmWriters, WorkloadCalm, WipeCalm, RestoreCalm, BackupCalm,
       KubernetesCalm, UserCalm DEF Next

-----------------------------------------------------------------------------
(* The invariant of exclusion.                                             *)

\* Ownership goes from nobody, from a wipe, or from an operation that is done, and
\* to an operation that exists.
LEMMA OwnerMoves ==
  ASSUME Types, WipeInv, OwnerCreated, ReleaserDone, Next, gs'.owner # gs.owner
  PROVE  /\ gs.owner \in CR => Done(gs.owner)
         /\ gs'.owner \in CR => phase[gs'.owner] # "uncreated"
  <1>0. None \notin CR /\ Restore \subseteq CR /\ Backup \subseteq CR /\ CR \subseteq Op
        /\ CR \cap Token = {}
    BY ConstantsAssumption DEF CR, Op
  <1>1. ASSUME NEW o \in Op, Claimable(o), gs' = Claimed(o)
        PROVE  gs'.owner = o /\ (gs.owner \in CR => Done(gs.owner))
    <2>1. gs'.owner = o
      BY <1>1 DEF Claimed, Types, GsOK, GameServer
    <2>2. ASSUME gs.owner \in CR PROVE Done(gs.owner)
      BY <1>0, <1>1, <2>1, <2>2 DEF Claimable, Exists, OwnerCreated, Done
    <2> QED
      BY <2>1, <2>2
  <1>2. CASE ClaimWipe
    <2>1. PICK t \in WipeTokens : Claimable(t) /\ gs' = Claimed(t)
      BY <1>2 DEF ClaimWipe, UpdateGs
    <2>2. t \in Token
      BY <1>2, <2>1, WipeTokensTokens DEF ClaimWipe
    <2> QED
      BY <1>0, <1>1, <2>1, <2>2 DEF Op
  <1>3. CASE ReleaseWipeGuard
    <2>1. gs.owner \in Token
      BY <1>3 DEF ReleaseWipeGuard, WipeInv, WipeReleaserDrained
    <2>2. gs'.owner \in Token \cup {None}
      BY <1>3 DEF ReleaseWipeGuard, UpdateGs, WipeReleased, Types, GsOK, GameServer
    <2> QED
      BY <1>0, <2>1, <2>2
  <1>4. ASSUME NEW r \in Restore, RestoreMoves(r)
        PROVE  /\ gs.owner \in CR => Done(gs.owner)
               /\ gs'.owner \in CR => phase[gs'.owner] # "uncreated"
    <2>1. CASE ClaimRestoreTarget(r)
      <3>1. r \in Op /\ Claimable(r) /\ gs' = Claimed(r) /\ phase[r] # "uncreated"
        BY <1>0, <2>1, ConstantsAssumption
           DEF ClaimRestoreTarget, Claim, UpdateGs, Claiming, Reconciling, Exists, Op
      <3> QED
        BY <1>1, <3>1
    <2>2. CASE CommitRestore(r)
      <3>1. gs.owner = r /\ Done(r)
        BY <1>0, <2>2 DEF CommitRestore, WipeInv, FreshOwns, ReleaserDone, Releasing
      <3>2. gs'.owner = None
        BY <2>2 DEF CommitRestore, UpdateGs, Types, GsOK, GameServer
      <3> QED
        BY <1>0, <3>1, <3>2
    <2>3. CASE \/ FinishRecovery({}) \/ AuthorizeRestore(r) \/ CreateRestoreJob(r)
               \/ ReleaseRestoreFence(r) \/ ClearRestoreMarker(r)
      BY <2>3, Zenon DEF FinishRecovery, AuthorizeRestore, CreateRestoreJob, ReleaseRestoreFence,
                  ClearRestoreMarker, KeepShared, UpdateGs, gsVars, Types, GsOK, GameServer
    <2> QED
      BY <1>4, <2>1, <2>2, <2>3 DEF RestoreMoves
  <1>5. ASSUME NEW b \in Backup, BackupMoves(b)
        PROVE  /\ gs.owner \in CR => Done(gs.owner)
               /\ gs'.owner \in CR => phase[gs'.owner] # "uncreated"
    <2>1. CASE ClaimBackupTarget(b)
      <3>1. b \in Op /\ Claimable(b) /\ gs' = Claimed(b) /\ phase[b] # "uncreated"
        BY <1>0, <2>1 DEF ClaimBackupTarget, Claim, UpdateGs, Working, Active
      <3> QED
        BY <1>1, <3>1
    <2>2. CASE ReleaseBackupTarget(b)
      <3>1. gs.owner = b /\ Done(b)
        BY <1>0, <2>2 DEF ReleaseBackupTarget, WipeInv, FreshOwns, ReleaserDone, Releasing
      <3>2. gs'.owner = None
        BY <2>2 DEF ReleaseBackupTarget, UpdateGs, Types, GsOK, GameServer
      <3> QED
        BY <1>0, <3>1, <3>2
    <2>3. CASE FinishRecovery({}) \/ CreateBackupJob(b) \/ AttemptQuiesce(b) \/ ReleaseBackupFence(b)
      BY <2>3, Zenon DEF FinishRecovery, CreateBackupJob, AttemptQuiesce, ReleaseBackupFence, KeepShared,
                  UpdateGs, gsVars, Types, GsOK, GameServer
    <2> QED
      BY <1>5, <2>1, <2>2, <2>3 DEF BackupMoves
  <1>6. WipeMoves => ClaimWipe \/ ReleaseWipeGuard
    BY Zenon DEF WipeMoves, FinishRecovery, AuthorizeWipe, CreateWipeJob, ClearWipeWorkloadGuard,
           ReleaseWipeFence, UpdateGs, gsVars, Types, GsOK, GameServer
  <1>7. ~Calm
    BY DEF Calm, OwnerKept
  <1> QED
    BY <1>2, <1>3, <1>4, <1>5, <1>6, <1>7, WorkloadCalm, WipeCalm, RestoreCalm, BackupCalm,
       KubernetesCalm, UserCalm DEF Next

\* The records of owners stay true.
LEMMA NextKeepsOwners ==
  ASSUME ForceDeletes # "any", Types, WipeInv, OwnerCreated, ReleaserDone, Next
  PROVE  OwnerCreated' /\ ReleaserDone'
  <1>1. OwnerCreated'
    BY NextAges, OwnerMoves DEF Ages, OwnerCreated
  <1>2. ASSUME NEW c \in CR, pc'[c] \in Releasing PROVE Done(c)
    <2>1. CASE pc'[c] = pc[c]
      BY <1>2, <2>1 DEF ReleaserDone
    <2>2. CASE pc'[c] # pc[c]
      <3>1. ~Calm
        BY <1>2, <2>2 DEF Calm, ReconcilesKept, Releasing
      <3>2. ~WipeMoves
        BY <2>2 DEF WipeMoves, ClaimWipe, FinishRecovery, AuthorizeWipe, CreateWipeJob,
                    ClearWipeWorkloadGuard, ReleaseWipeFence, ReleaseWipeGuard, crVars
      <3>3. ASSUME NEW r \in Restore, RestoreMoves(r) PROVE Done(c)
        <4>1. CASE ClaimRestoreTarget(r) \/ FinishRecovery({})
          BY <2>2, <4>1 DEF ClaimRestoreTarget, Claim, FinishRecovery, crVars
        <4>2. CASE AuthorizeRestore(r) \/ CreateRestoreJob(r) \/ CommitRestore(r)
          BY <1>2, <2>2, <4>2 DEF AuthorizeRestore, CreateRestoreJob, CommitRestore, Step,
                                  Releasing, Types, CrOK
        <4>3. CASE ReleaseRestoreFence(r)
          BY <2>2, <4>3 DEF ReleaseRestoreFence, Releasable, Quiet, Cleaning, Terminal, Step, Done,
                            Types, CrOK
        <4>4. CASE ClearRestoreMarker(r)
          BY <2>2, <4>4 DEF ClearRestoreMarker, Step, ReleaserDone, Releasing, Types, CrOK
        <4> QED
          BY <3>3, <4>1, <4>2, <4>3, <4>4 DEF RestoreMoves
      <3>4. ASSUME NEW b \in Backup, BackupMoves(b) PROVE Done(c)
        <4>1. CASE ClaimBackupTarget(b) \/ FinishRecovery({}) \/ CreateBackupJob(b)
          BY <2>2, <4>1 DEF ClaimBackupTarget, Claim, FinishRecovery, CreateBackupJob, crVars
        <4>2. CASE AttemptQuiesce(b) \/ ReleaseBackupTarget(b)
          BY <1>2, <2>2, <4>2 DEF AttemptQuiesce, ReleaseBackupTarget, Step, Releasing, Types, CrOK
        <4>3. CASE ReleaseBackupFence(b)
          BY <2>2, <4>3 DEF ReleaseBackupFence, Idle, Finished, Terminal, Step, Done, Types, CrOK
        <4> QED
          BY <3>4, <4>1, <4>2, <4>3 DEF BackupMoves
      <3> QED
        BY <3>1, <3>2, <3>3, <3>4, WorkloadCalm, WipeCalm, RestoreCalm, BackupCalm, KubernetesCalm,
           UserCalm DEF Next
    <2> QED
      BY <2>1, <2>2
  <1>3. ReleaserDone'
    BY <1>2, NextAges DEF Ages, ReleaserDone
  <1> QED
    BY <1>1, <1>3

\* What a pass computes from a workload that carries the marker of the owner, or
\* from a stopped workload beside a writer, does not start it.
LEMMA RenderedHolds ==
  ASSUME Types, WipeInv, OwnershipInv, ExclusionInv, RenderWorkload
  PROVE  /\ Rendered.exists
         /\ Rendered.restore \in {ss.restore, RestoreGuard}
         /\ gs.owner \in Restore => Rendered.replicas \in {0, ss.replicas}
         /\ (\E o \in Exclusive : Writes(o)) => Rendered.replicas = 0
  <1> USE DEF Types, SsOK, StatefulSet
  <1>1. CASE Preserving /\ ss.exists
    <2> DEFINE held == [ss EXCEPT !.op = OwnerValue, !.replicas = IF NeedsStop THEN 0 ELSE @]
    <2>1. /\ held.exists = ss.exists /\ held.restore = ss.restore
          /\ held.replicas = IF NeedsStop THEN 0 ELSE ss.replicas
      OBVIOUS
    <2>2. Rendered = held
      BY <1>1 DEF Rendered
    <2> HIDE DEF held
    <2> QED
      BY <1>1, <2>1, <2>2, Zenon DEF ExclusionInv, Stopped, Drained
  <1>2. CASE ~(Preserving /\ ss.exists)
    <2>1. /\ Rendered.exists /\ Rendered.restore = RestoreGuard
          /\ Rendered.replicas = IF Fenced \/ Preserving THEN 0 ELSE want
      BY <1>2 DEF Rendered
    <2>2. gs.owner \in Restore \cup Token => Fenced
      BY ConstantsAssumption DEF Fenced, RestoreGuard, WipeGuard, Op, CR
    <2>3. ASSUME NEW o \in Exclusive, Writes(o) PROVE Preserving \/ gs.owner \in Restore \cup Token
      <3>1. CASE o \in Token
        BY <2>3, <3>1, ConstantsAssumption
           DEF Writes, Live, WipeInv, WipeWorkOwned, WipeLauncherOwns, Op, CR
      <3>2. CASE o \in Restore
        BY <2>3, <3>2, ConstantsAssumption
           DEF Writes, Live, OwnershipInv, CRAccounted, LauncherOwns, Preserving, Recovering, Op, CR
      <3> QED
        BY <2>3, <3>1, <3>2 DEF Exclusive
    <2> QED
      BY <2>1, <2>2, <2>3
  <1> QED
    BY <1>1, <1>2

\* The markers on the workload stay those of the owner or of something done.
LEMMA NextKeepsMarks ==
  ASSUME ForceDeletes # "any", Types, WipeInv, OwnershipInv, ExclusionInv, Next
  PROVE  MarkKnown' /\ MarkHeld'
  <1> USE DEF ExclusionInv
  <1>1. ASSUME NEW r \in Restore, gs.owner = r \/ Done(r) PROVE gs'.owner = r \/ Done(r)'
    BY <1>1, NextAges, OwnerMoves DEF Ages, CR
  <1>2. ASSUME NEW r \in Restore, ~Done(r)' PROVE ~Done(r)
    BY <1>2, NextAges DEF Ages, CR
  <1>3. CASE WorkloadKept
    <2>1. MarkKnown'
      BY <1>1, <1>3 DEF MarkKnown, WorkloadKept
    <2>2. MarkHeld'
      BY <1>2, <1>3 DEF MarkHeld, WorkloadKept, Writing
    <2> QED
      BY <2>1, <2>2
  <1>4. CASE RenderWorkload
    <2>1. next' = Rendered /\ UNCHANGED <<ss, gs>>
      BY <1>4 DEF RenderWorkload, gsVars
    <2>2. \A r \in Restore : Rendered.restore = r => gs.owner = r \/ Done(r)
      BY <1>4, RenderedHolds, ConstantsAssumption DEF MarkKnown, RestoreGuard, Op, CR
    <2>3. MarkKnown'
      BY <1>1, <2>1, <2>2 DEF MarkKnown
    <2>4. MarkHeld'
      BY <1>2, <1>4, <2>1, RenderedHolds DEF MarkHeld, MarkKnown
    <2> QED
      BY <2>3, <2>4
  <1>5. CASE WriteWorkload
    <2>1. at = "write" /\ ss' = next /\ at' = "wipe"
      BY <1>5 DEF WriteWorkload, UpdateSs
    <2> QED
      BY <1>1, <2>1 DEF MarkKnown, MarkHeld, Writing
  <1>6. CASE FenceForWipe
    <2>1. ss'.restore = ss.restore /\ at' = "status"
      BY <1>6 DEF FenceForWipe, UpdateSs, ToStatus, Types, SsOK, StatefulSet
    <2> QED
      BY <1>1, <2>1 DEF MarkKnown, MarkHeld, Writing
  <1>7. CASE StatefulSetController /\ UNCHANGED passVars
    BY <1>3, <1>7, SteadyFrame DEF StatefulSetController, PassAway
  <1> QED
    BY <1>3, <1>4, <1>5, <1>6, <1>7, NextSteady DEF Steady

\* What the last check of a Restore or wipe has seen.
LEMMA Authorized ==
  ASSUME Types, WipeInv, OwnershipInv, ExclusionInv, NEW o \in Exclusive,
         \/ o \in Restore /\ AuthorizeRestore(o) /\ UNCHANGED passVars
         \/ AuthorizeWipe /\ o = WipeGuard
  PROVE  /\ Drained
         /\ \A p \in Op \ {o} : ~Live(p)'
         /\ \A q \in Exclusive \ {o} : ~Writes(q)'
         /\ Writing' => next'.replicas = 0
         /\ UNCHANGED <<ss, seen, game, job, pods>>
  <1>1. Drained /\ \A p \in Op : ~WorkersLive(p)
    BY DEF AuthorizeRestore, RestoreTargetStopped, AuthorizeWipe, CanLaunch, TargetStopped
  <1>2. gs.owner = o
    BY ConstantsAssumption DEF AuthorizeRestore, Launching, HoldsTarget, AuthorizeWipe, WipeReady, WipeGuard
  <1>3. \A p \in Op \ {o} : ~Live(p)
    BY <1>1, <1>2 DEF Live, WipeInv, WipeWorkOwned
  <1>4. UNCHANGED <<ss, seen, game, job, pods>>
    BY DEF AuthorizeRestore, AuthorizeWipe, KeepShared, ssVars, podVars, jobVars
  <1>5. ASSUME o \in Restore, AuthorizeRestore(o), UNCHANGED passVars, Writing'
        PROVE  next'.replicas = 0
    <2>0. Writing
      BY <1>5 DEF AuthorizeRestore, KeepShared, Writing, ssVars, passVars
    <2>1. ss.restore = o /\ ss.replicas = 0
      BY <1>1, <1>2, <1>5 DEF AuthorizeRestore, RestoreTargetStopped, RestoreGuard, Drained
    <2>2. ~Done(o)
      BY <1>5 DEF AuthorizeRestore, Launching, HoldsTarget, Claiming, Reconciling, Done
    <2> QED
      BY <1>5, <2>0, <2>1, <2>2 DEF ExclusionInv, MarkHeld, passVars
  <1>6. AuthorizeWipe => ~Writing'
    BY DEF AuthorizeWipe, Writing
  <1>7. \A p \in Op : Live(p)' <=> Live(p)
    BY <1>4 DEF Live, HasWork, WorkersLive, JobLive
  <1>8. ASSUME NEW q \in Exclusive \ {o} PROVE ~Writes(q)'
    <2>1. q \in Op
      BY DEF Exclusive, Op, CR
    <2>2. CASE q \in Restore
      <3>1. pc'[q] = pc[q] /\ pc[q] # "launch"
        BY <1>2, <2>2 DEF AuthorizeRestore, AuthorizeWipe, Step, crVars, OwnershipInv, LauncherOwns,
                          Types, CrOK, CR
      <3> QED
        BY <1>3, <1>7, <2>1, <2>2, <3>1, ConstantsAssumption DEF Writes, CR
    <2>3. CASE q \in Token
      <3>1. ~(at' = "launch" /\ snap'.owner = q)
        BY <1>2, <2>3 DEF AuthorizeWipe, WipeInv, WipeLauncherOwns, passVars, Types, WorkloadTypeOK,
                          Snapshot
      <3> QED
        BY <1>3, <1>7, <2>1, <2>3, <3>1, ConstantsAssumption DEF Writes, CR
    <2> QED
      BY <2>2, <2>3 DEF Exclusive
  <1> QED
    BY <1>1, <1>3, <1>4, <1>5, <1>6, <1>7, <1>8

\* Whoever creates a Job owns the server, and nobody else is a writer.
LEMMA CreatorAlone ==
  ASSUME Types, WipeInv, OwnershipInv, ExclusionInv, NEW c \in Op,
         \/ /\ \/ c \in Restore /\ CreateRestoreJob(c)
               \/ c \in Backup /\ CreateBackupJob(c)
            /\ UNCHANGED passVars
         \/ CreateWipeJob /\ c = snap.owner
  PROVE  /\ \A o \in Exclusive \ {c} : ~Writes(o)
         /\ \A o \in Op \ {c} : Live(o)' => Live(o)
         /\ \A o \in Exclusive : Writes(o)' => Writes(o)
  <1>0. /\ Restore \subseteq CR /\ Backup \subseteq CR /\ CR \subseteq Op /\ Token \subseteq Op
        /\ CR \cap Token = {} /\ Backup \cap Restore = {} /\ Exclusive \subseteq Op
        /\ None \notin Op
    BY ConstantsAssumption, SMTT(20), ZenonT(20) DEF CR, Op, Exclusive
  <1>1. /\ gs.owner = c
        /\ c \in Exclusive => Writes(c)
        /\ c \in Backup => gs.recovery = {}
    BY <1>0, ZenonT(30) DEF CreateRestoreJob, CreateBackupJob, CreateWipeJob, Prepared, FenceObserved, Admitted,
                Owns, OwnershipInv, LauncherOwns, WipeInv, WipeLauncherOwns, Writes, Exclusive
  <1>2. \A o \in Op \ {c} : job'[o] = job[o]
    BY ZenonT(30) DEF CreateRestoreJob, CreateBackupJob, CreateWipeJob, Types, JobOK
  <1>3. UNCHANGED pods
    BY DEF CreateRestoreJob, CreateBackupJob, CreateWipeJob
  <1>4. \A o \in Op \ {c} : Live(o)' => Live(o)
    BY <1>2, <1>3 DEF Live, HasWork, WorkersLive, JobLive
  <1>5. ASSUME NEW o \in Exclusive \ {c} PROVE ~Writes(o)
    <2>1. CASE c \in Exclusive
      <3>1. ~Live(o)
        BY <1>0, <1>1, <1>5, <2>1 DEF ExclusionInv, Sole
      <3>2. o \in Restore => pc[o] # "launch"
        BY <1>1, <1>5 DEF OwnershipInv, LauncherOwns
      <3>3. o \in Token => ~(at = "launch" /\ snap.owner = o)
        BY <1>1, <1>5 DEF WipeInv, WipeLauncherOwns
      <3> QED
        BY <3>1, <3>2, <3>3 DEF Writes
    <2>2. CASE c \in Backup
      <3>1. CASE o \in Restore
        BY <1>0, <1>1, <1>5, <2>2, <3>1 DEF Writes, Live, OwnershipInv, LauncherOwns, CRAccounted
      <3>2. CASE o \in Token
        BY <1>0, <1>1, <1>5, <2>2, <3>2 DEF Writes, Live, WipeInv, WipeWorkOwned, WipeLauncherOwns
      <3> QED
        BY <1>5, <3>1, <3>2 DEF Exclusive
    <2> QED
      BY <2>1, <2>2 DEF Exclusive, Op, CR
  <1>6. ASSUME NEW o \in Exclusive \ {c} PROVE ~Writes(o)'
    <2>1. o \in Restore => pc'[o] # "launch"
      BY <1>0, <1>5, <1>6 DEF Writes, CreateRestoreJob, CreateBackupJob, CreateWipeJob, Step, crVars,
                       Types, CrOK
    <2>2. o \in Token => ~(at' = "launch" /\ snap'.owner = o)
      BY <1>5, <1>6 DEF Writes, CreateWipeJob, ToStatus, passVars
    <2> QED
      BY <1>0, <1>4, <1>5, <1>6, <2>1, <2>2 DEF Writes
  <1> QED
    BY <1>0, <1>1, <1>4, <1>5, <1>6

\* While there is a writer the workload stays stopped.
LEMMA StoppedStays ==
  ASSUME Types, WipeInv, OwnershipInv, ExclusionInv, Next, NEW o \in Exclusive, Writes(o)
  PROVE  Drained' /\ (Writing' => next'.replicas = 0)
  <1>0. Drained /\ (Writing => next.replicas = 0)
    BY DEF ExclusionInv, Stopped
  <1>1. CASE Steady
    BY <1>0, <1>1 DEF Steady, WorkloadKept, Drained, Writing
  <1>2. CASE RenderWorkload
    <2>1. next' = Rendered /\ UNCHANGED <<ss, seen, game>>
      BY <1>2 DEF RenderWorkload, podVars
    <2> QED
      BY <1>0, <1>2, <2>1, RenderedHolds DEF Drained
  <1>3. CASE WriteWorkload
    <2>1. Writing /\ ss' = next /\ at' = "wipe" /\ UNCHANGED <<seen, game>>
      BY <1>3 DEF WriteWorkload, UpdateSs, podVars, Writing
    <2> QED
      BY <1>0, <2>1 DEF ExclusionInv, MarkHeld, Drained, Writing
  <1>4. CASE FenceForWipe
    <2>1. ss'.exists = ss.exists /\ ss'.replicas = 0 /\ at' = "status" /\ UNCHANGED <<seen, game>>
      BY <1>4 DEF FenceForWipe, UpdateSs, ToStatus, podVars, Types, SsOK, StatefulSet
    <2> QED
      BY <1>0, <2>1 DEF Drained, Writing
  <1>5. CASE StatefulSetController /\ UNCHANGED passVars
    <2>1. UNCHANGED <<ss, ssFresh, at, next>>
      BY <1>5 DEF StatefulSetController, ssVars, passVars
    <2>2. UNCHANGED <<seen, game>>
      <3>1. CASE StsObserve
        BY <1>0, <3>1 DEF StsObserve, Drained
      <3>2. CASE StsCreatePod \/ StsDeletePod
        BY <1>0, <3>2 DEF StsCreatePod, StsDeletePod, Drained
      <3>3. CASE GamePodGone \/ GameExits
        BY <1>0, <3>3 DEF GamePodGone, GameExits, Drained
      <3> QED
        BY <1>5, <3>1, <3>2, <3>3 DEF StatefulSetController
    <2> QED
      BY <1>0, <2>1, <2>2 DEF Drained, Writing
  <1> QED
    BY <1>1, <1>2, <1>3, <1>4, <1>5, NextSteady

\* Every step keeps the invariant of exclusion.
LEMMA NextKeepsExclusion ==
  ASSUME ForceDeletes # "any", TypeOK, WipeInv, OwnershipInv, ExclusionInv, [Next]_vars
  PROVE  ExclusionInv'
  <1>0. Types
    BY TypeGroups
  <1>1. ASSUME UNCHANGED vars PROVE ExclusionInv'
    <2>1. UNCHANGED <<gs, ss, ssFresh, seen, game, job, pods, phase, deleting, pc, at, snap, next>>
      BY <1>1 DEF vars, objectVars, gsVars, ssVars, podVars, jobVars, crVars, passVars
    <2>2. Sole' /\ Stopped'
      BY <2>1 DEF ExclusionInv, Sole, Stopped, Writes, Live, HasWork, WorkersLive, JobLive, Drained,
                  Writing
    <2>3. OwnerCreated' /\ ReleaserDone' /\ MarkKnown' /\ MarkHeld'
      BY <2>1 DEF ExclusionInv, OwnerCreated, ReleaserDone, MarkKnown, MarkHeld, Done, Writing
    <2> QED
      BY <2>2, <2>3 DEF ExclusionInv
  <1>2. ASSUME Next PROVE ExclusionInv'
    <2>1. CASE NoNewWriter
      <3>1. Sole'
        BY <2>1 DEF NoNewWriter, ExclusionInv, Sole
      <3>2. Stopped'
        BY <1>0, <1>2, <2>1, StoppedStays DEF NoNewWriter, Stopped
      <3> QED
        BY <1>0, <1>2, <3>1, <3>2, NextKeepsOwners, NextKeepsMarks DEF ExclusionInv
    <2>2. ASSUME NEW c \in Op,
                 \/ /\ \/ c \in Restore /\ CreateRestoreJob(c)
                       \/ c \in Backup /\ CreateBackupJob(c)
                    /\ UNCHANGED passVars
                 \/ CreateWipeJob /\ c = snap.owner
          PROVE  ExclusionInv'
      <3>1. /\ \A o \in Exclusive \ {c} : ~Writes(o)
            /\ \A o \in Op \ {c} : Live(o)' => Live(o)
            /\ \A o \in Exclusive : Writes(o)' => Writes(o)
        BY <1>0, <2>2, CreatorAlone
      <3>2. Sole'
        BY <3>1 DEF ExclusionInv, Sole
      <3>3. Stopped'
        BY <1>0, <1>2, <3>1, StoppedStays DEF Stopped
      <3> QED
        BY <1>0, <1>2, <3>2, <3>3, NextKeepsOwners, NextKeepsMarks DEF ExclusionInv
    <2>3. ASSUME NEW o \in Exclusive,
                 \/ o \in Restore /\ AuthorizeRestore(o) /\ UNCHANGED passVars
                 \/ AuthorizeWipe /\ o = WipeGuard
          PROVE  ExclusionInv'
      <3>1. /\ Drained
            /\ \A p \in Op \ {o} : ~Live(p)'
            /\ \A q \in Exclusive \ {o} : ~Writes(q)'
            /\ Writing' => next'.replicas = 0
            /\ UNCHANGED <<ss, seen, game, job, pods>>
        BY <1>0, <2>3, Authorized
      <3>2. Sole'
        BY <3>1 DEF Sole
      <3>3. Stopped'
        BY <3>1 DEF Stopped, Drained
      <3> QED
        BY <1>0, <1>2, <3>2, <3>3, NextKeepsOwners, NextKeepsMarks DEF ExclusionInv
    <2>4. CreateWipeJob => snap.owner \in Op
      BY DEF CreateWipeJob, WipeInv, WipeLauncherOwns, Op
    <2>5. AuthorizeWipe => WipeGuard \in Exclusive
      BY <1>0, OperationValues DEF AuthorizeWipe, WipeReady, Exclusive
    <2>6. Restore \subseteq Op /\ Backup \subseteq Op /\ Restore \subseteq Exclusive
      BY DEF Op, CR, Exclusive
    <2>7. ASSUME CreateWipeJob PROVE ExclusionInv'
      BY <2>2, <2>4, <2>7
    <2>8. ASSUME AuthorizeWipe PROVE ExclusionInv'
      BY <2>3, <2>5, <2>8
    <2>9. ASSUME NEW r \in Restore, AuthorizeRestore(r) \/ CreateRestoreJob(r), UNCHANGED passVars
          PROVE  ExclusionInv'
      BY <2>2, <2>3, <2>6, <2>9
    <2>10. ASSUME NEW b \in Backup, CreateBackupJob(b), UNCHANGED passVars PROVE ExclusionInv'
      BY <2>2, <2>6, <2>10
    <2>11. \/ NoNewWriter \/ AuthorizeWipe \/ CreateWipeJob
           \/ /\ \/ \E r \in Restore : AuthorizeRestore(r) \/ CreateRestoreJob(r)
                 \/ \E b \in Backup : CreateBackupJob(b)
              /\ UNCHANGED passVars
      BY <1>0, <1>2, NextWriters
    <2> QED
      BY <2>1, <2>7, <2>8, <2>9, <2>10, <2>11
  <1> QED
    BY <1>1, <1>2

\* Before the first pass there is no writer, no owner and no marker.
LEMMA InitialExclusion == Init => ExclusionInv
  <1>1. ASSUME Init PROVE ExclusionInv
    <2>1. /\ \A c \in CR : pc[c] = "idle"
          /\ gs.owner = None /\ at = "start" /\ ss.restore = None
      BY <1>1 DEF Init, ObjectsInit, WorkloadInit
    <2>2. \A o \in Op : ~Live(o)
      <3>1. \A o \in Op : job[o] = "none" /\ pods[o] = 0
        BY <1>1 DEF Init, ObjectsInit
      <3> QED
        BY <3>1 DEF Live, HasWork, WorkersLive, JobLive
    <2>3. \A o \in Exclusive : ~Writes(o)
      BY <2>1, <2>2 DEF Writes, Exclusive, Op, CR
    <2>4. None \notin CR
      BY ConstantsAssumption DEF Op
    <2> QED
      BY <2>1, <2>3, <2>4 DEF ExclusionInv, Sole, Stopped, OwnerCreated, ReleaserDone, Releasing,
                  MarkKnown, MarkHeld, Writing, CR
  <1> QED
    BY <1>1

\* The invariant gives the mutual exclusion on the data.
LEMMA WritersSeparate ==
  ASSUME Types, ExclusionInv
  PROVE  ExclusiveWriter
  <1>1. pods \in [Op -> Nat]
    BY ConstantsAssumption DEF Types, JobOK
  <1>2. \A o \in Op : pods[o] > 0 => Live(o)
    BY DEF Live, HasWork, WorkersLive
  <1>3. Exclusive \subseteq Op
    BY DEF Exclusive, Op, CR
  <1>4. \A o \in Exclusive : pods[o] > 0 => game = "none" /\ \A p \in Op \ {o} : ~(pods[p] > 0)
    BY <1>2, <1>3 DEF ExclusionInv, Sole, Stopped, Drained, Writes
  <1> QED
    BY <1>1, <1>3, <1>4 DEF ExclusiveWriter

\* While a restore or wipe worker is live the game is gone and no other operation
\* has a worker, for any number of Backups, Restores and wipe requests and however
\* their reconciles, the passes of the operator, Kubernetes and the users
\* interleave (restoreTargetStopped, wipeTargetStopped, the callback of
\* reconcileStatefulSet), unless a finalizer is stripped in the middle of a
\* reconcile.
THEOREM WritersExclusive ==
  ASSUME ForceDeletes # "any"
  PROVE  Spec => []ExclusiveWriter
  <1>1. Init => ExclusionInv
    BY InitialExclusion
  <1>2. TypeOK /\ ExclusionInv => ExclusiveWriter
    BY TypeGroups, WritersSeparate
  <1>3. TypeOK /\ WipeInv /\ OwnershipInv /\ ExclusionInv /\ [Next]_vars => ExclusionInv'
    BY NextKeepsExclusion
  <1>4. TypeOK /\ WipeInv /\ OwnershipInv /\ [Next]_vars => OwnershipInv'
    BY NextKeepsOwnership
  <1>5. Init => OwnershipInv
    BY InitialOwnership
  <1> QED
    BY <1>1, <1>2, <1>3, <1>4, <1>5, InitialWipe, NextKeepsWipe, TypeCorrect, PTL DEF Spec
=============================================================================
