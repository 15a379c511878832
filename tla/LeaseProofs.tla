---------------------------- MODULE LeaseProofs ----------------------------
(***************************************************************************)
(* The controllers implement the lease of ServerLease: the initial states  *)
(* of the lifecycle are initial states of the lease, and every step is a   *)
(* step of the lease or leaves it alone.  From the same facts: partly      *)
(* restored data is not started behind the user's back.                    *)
(***************************************************************************)
EXTENDS BackupProofs

\* Whoever has passed the last check before a Job or before the end of its ownership
\* did so with nothing to recover, and nothing has come up since.
FreshClear == \A c \in CR : c \in gsFresh => gs.recovery = {}
WipeClear == at \in {"launch", "unfence", "release"} => gs.recovery = {}
LaunchClear == \A r \in Restore : pc[r] = "launch" => gs.recovery = {}

\* A server nobody owns has nothing to recover.
FreeClear == gs.owner = None => gs.recovery = {}

LeaseInv == FreshClear /\ WipeClear /\ LaunchClear /\ FreeClear

-----------------------------------------------------------------------------
(* The steps that touch the records of ownership, and those that do not.   *)

\* Every step is calm, or one of the few that move an operation on.
LEMMA NextMoves ==
  ASSUME Types, Next
  PROVE  \/ Calm
         \/ /\ (\E r \in Restore : RestoreMoves(r)) \/ (\E b \in Backup : BackupMoves(b))
            /\ UNCHANGED passVars
         \/ WipeMoves
  BY KubernetesCalm, UserCalm, WorkloadCalm, WipeCalm, RestoreCalm, BackupCalm DEF Next

\* A live owner is not displaced: a claim by anybody else leaves the records alone.
LEMMA ClaimOverLive ==
  ASSUME Types, NEW o \in Op, Claimable(o), gs.owner # None, Exists(gs.owner)
  PROVE  o = gs.owner /\ Claimed(o).recovery = gs.recovery
  BY DEF Claimable, Claimed, Types, GsOK, GameServer

\* A copy of the GameServer that is current knows all there is to recover.
LEMMA NextFresh ==
  ASSUME Types, FreshClear, Next
  PROVE  FreshClear'
  <1>0. \A o : Claimed(o).recovery = gs.recovery \cup ({gs.owner} \ {None, o})
    BY DEF Claimed, Types, GsOK, GameServer
  <1>1. CASE Calm
    BY <1>1 DEF Calm, OwnerKept, FreshKept, FreshClear
  <1>2. ASSUME NEW keep, FinishRecovery(keep) PROVE FreshClear'
    BY <1>2 DEF FinishRecovery, UpdateGs, FreshClear, Types, GsOK, GameServer
  <1>3. ASSUME NEW r \in Restore, RestoreMoves(r) PROVE FreshClear'
    <2>1. CASE ClaimRestoreTarget(r) \/ CommitRestore(r)
      BY <2>1 DEF ClaimRestoreTarget, Claim, CommitRestore, UpdateGs, FreshClear
    <2>2. CASE AuthorizeRestore(r) \/ CreateRestoreJob(r) \/ ClearRestoreMarker(r)
      BY <2>2 DEF AuthorizeRestore, CreateRestoreJob, ClearRestoreMarker, KeepShared, gsVars, FreshClear
    <2>3. CASE ReleaseRestoreFence(r)
      BY <2>3 DEF ReleaseRestoreFence, Releasable, FreshClear
    <2> QED
      BY <1>2, <1>3, <2>1, <2>2, <2>3 DEF RestoreMoves
  <1>4. ASSUME NEW b \in Backup, BackupMoves(b) PROVE FreshClear'
    <2>1. CASE ClaimBackupTarget(b) \/ ReleaseBackupTarget(b)
      BY <2>1 DEF ClaimBackupTarget, Claim, ReleaseBackupTarget, UpdateGs, FreshClear
    <2>2. CASE CreateBackupJob(b) \/ AttemptQuiesce(b)
      BY <2>2 DEF CreateBackupJob, AttemptQuiesce, KeepShared, gsVars, FreshClear
    <2>3. CASE ReleaseBackupFence(b)
      BY <2>3 DEF ReleaseBackupFence, Idle, FreshClear
    <2> QED
      BY <1>2, <1>4, <2>1, <2>2, <2>3 DEF BackupMoves
  <1>5. CASE WipeMoves
    <2>1. CASE ClaimWipe \/ ReleaseWipeGuard
      BY <2>1 DEF ClaimWipe, ReleaseWipeGuard, UpdateGs, FreshClear
    <2>2. CASE AuthorizeWipe \/ CreateWipeJob \/ ReleaseWipeFence
      BY <2>2 DEF AuthorizeWipe, CreateWipeJob, ReleaseWipeFence, gsVars, FreshClear
    <2>3. CASE ClearWipeWorkloadGuard
      BY <2>3 DEF ClearWipeWorkloadGuard, WipeReady, FreshClear
    <2> QED
      BY <1>2, <1>5, <2>1, <2>2, <2>3 DEF WipeMoves
  <1> QED
    BY <1>1, <1>3, <1>4, <1>5, NextMoves

\* A pass that works for a wipe has nothing to recover until it is done.
LEMMA NextKeepsWipeClear ==
  ASSUME Types, WipeInv, WipeClear, Next
  PROVE  WipeClear'
  <1>0. CR \cap Token = {} /\ None \notin Op /\ Token \subseteq Op /\ CR \subseteq Op
        /\ Restore \subseteq CR /\ Backup \subseteq CR
    BY ConstantsAssumption DEF Op, CR
  <1>1. CASE Calm
    BY <1>1 DEF Calm, OwnerKept, PassKept, WipeClear
  <1>2. ASSUME NEW keep, FinishRecovery(keep) PROVE WipeClear'
    BY <1>2 DEF FinishRecovery, UpdateGs, WipeClear, Types, GsOK, GameServer
  <1>3. ASSUME NEW c \in CR, Claim(c, {}), UNCHANGED passVars PROVE WipeClear'
    <2>1. at \in {"launch", "unfence", "release"} => gs.owner \in Token
      BY DEF WipeInv, WipeLauncherOwns, WipeReleaserDrained
    <2>2. gs.owner \notin Token
      BY <1>0, <1>3, ClaimOverLive DEF Claim, Exists
    <2> QED
      BY <1>3, <2>1, <2>2 DEF passVars, WipeClear
  <1>4. ASSUME NEW r \in Restore, RestoreMoves(r), UNCHANGED passVars PROVE WipeClear'
    <2>1. CASE CommitRestore(r)
      BY <1>4, <2>1 DEF CommitRestore, UpdateGs, passVars, WipeClear, Types, GsOK, GameServer
    <2>2. CASE AuthorizeRestore(r) \/ CreateRestoreJob(r) \/ ClearRestoreMarker(r) \/ ReleaseRestoreFence(r)
      BY <1>4, <2>2 DEF AuthorizeRestore, CreateRestoreJob, ClearRestoreMarker, ReleaseRestoreFence,
           KeepShared, gsVars, passVars, WipeClear
    <2> QED
      BY <1>0, <1>2, <1>3, <1>4, <2>1, <2>2 DEF RestoreMoves, ClaimRestoreTarget
  <1>5. ASSUME NEW b \in Backup, BackupMoves(b), UNCHANGED passVars PROVE WipeClear'
    <2>1. CASE ReleaseBackupTarget(b)
      BY <1>5, <2>1 DEF ReleaseBackupTarget, UpdateGs, passVars, WipeClear, Types, GsOK, GameServer
    <2>2. CASE CreateBackupJob(b) \/ AttemptQuiesce(b) \/ ReleaseBackupFence(b)
      BY <1>5, <2>2 DEF CreateBackupJob, AttemptQuiesce, ReleaseBackupFence, KeepShared, gsVars,
           passVars, WipeClear
    <2> QED
      BY <1>0, <1>2, <1>3, <1>5, <2>1, <2>2 DEF BackupMoves, ClaimBackupTarget
  <1>6. CASE WipeMoves
    <2>1. CASE ClaimWipe \/ ReleaseWipeGuard \/ CreateWipeJob
      BY <2>1 DEF ClaimWipe, ReleaseWipeGuard, CreateWipeJob, EndPass, ToStatus, WipeClear
    <2>2. CASE AuthorizeWipe \/ ClearWipeWorkloadGuard
      BY <2>2 DEF AuthorizeWipe, ClearWipeWorkloadGuard, WipeReady, gsVars, WipeClear
    <2>3. CASE ReleaseWipeFence
      BY <2>3 DEF ReleaseWipeFence, gsVars, WipeClear
    <2> QED
      BY <1>2, <1>6, <2>1, <2>2, <2>3 DEF WipeMoves
  <1> QED
    BY <1>1, <1>4, <1>5, <1>6, NextMoves

\* A Restore about to create its Job has nothing to recover: while it owns the
\* server it exists, and nobody takes the server over from it.
LEMMA NextKeepsLaunchClear ==
  ASSUME ForceDeletes # "any", Types, OwnershipInv, LaunchClear, Next
  PROVE  LaunchClear'
  <1>0. None \notin Op /\ Token \subseteq Op /\ Restore \subseteq Op /\ Backup \subseteq Op
    BY ConstantsAssumption DEF Op, CR
  <1>1. CASE Calm
    <2>1. gs'.recovery = gs.recovery
      BY <1>1 DEF Calm, OwnerKept
    <2>2. \A r \in Restore : pc'[r] = "launch" => pc[r] = "launch"
      BY <1>1 DEF Calm, ReconcilesKept, CR
    <2> QED
      BY <2>1, <2>2 DEF LaunchClear
  <1>2. ASSUME NEW keep, FinishRecovery(keep) PROVE LaunchClear'
    BY <1>2 DEF FinishRecovery, UpdateGs, LaunchClear, Types, GsOK, GameServer
  <1>3. ASSUME NEW o \in Op, NEW keep, Claimable(o), UpdateGs(Claimed(o), keep), UNCHANGED pc
        PROVE  LaunchClear'
    <2> SUFFICES ASSUME NEW r \in Restore, pc[r] = "launch"
                 PROVE  gs'.recovery = {}
      BY <1>3 DEF LaunchClear
    <2>1. gs.owner = r /\ Exists(r) /\ gs.recovery = {}
      BY DEF OwnershipInv, LauncherOwns, Finalized, LaunchClear
    <2>2. Claimed(o).recovery = gs.recovery
      BY <1>0, <1>3, <2>1, ClaimOverLive
    <2> QED
      BY <1>3, <2>1, <2>2 DEF UpdateGs
  <1>4. ASSUME UNCHANGED gs,
               \A r \in Restore : pc'[r] = "launch" => pc[r] = "launch" \/ gs.recovery = {}
        PROVE  LaunchClear'
    BY <1>4 DEF LaunchClear
  <1>5. ASSUME NEW r \in Restore, RestoreMoves(r) PROVE LaunchClear'
    <2>1. CASE CommitRestore(r)
      <3>1. gs'.recovery = gs.recovery
        BY <2>1 DEF CommitRestore, UpdateGs, Types, GsOK, GameServer
      <3>2. \A q \in Restore : pc'[q] = "launch" => pc[q] = "launch"
        BY <2>1 DEF CommitRestore, Step, Types, CrOK, CR
      <3> QED
        BY <3>1, <3>2 DEF LaunchClear
    <2>2. CASE AuthorizeRestore(r)
      BY <1>4, <2>2 DEF AuthorizeRestore, Launching, HoldsTarget, KeepShared, gsVars
    <2>3. CASE CreateRestoreJob(r) \/ ClearRestoreMarker(r) \/ ReleaseRestoreFence(r)
      <3>1. \A q \in Restore : pc'[q] = "launch" => pc[q] = "launch"
        BY <2>3 DEF CreateRestoreJob, ClearRestoreMarker, ReleaseRestoreFence, Step, Types, CrOK, CR
      <3>2. UNCHANGED gs
        BY <2>3 DEF CreateRestoreJob, ClearRestoreMarker, ReleaseRestoreFence, gsVars
      <3> QED
        BY <1>4, <3>1, <3>2
    <2>4. CASE ClaimRestoreTarget(r)
      BY <1>0, <1>3, <2>4 DEF ClaimRestoreTarget, Claim, crVars
    <2> QED
      BY <1>2, <1>5, <2>1, <2>2, <2>3, <2>4 DEF RestoreMoves
  <1>6. ASSUME NEW b \in Backup, BackupMoves(b) PROVE LaunchClear'
    <2>0. b \in CR /\ Restore \subseteq CR
      BY DEF CR
    <2>1. CASE ReleaseBackupTarget(b)
      <3>1. gs'.recovery = gs.recovery
        BY <2>1 DEF ReleaseBackupTarget, UpdateGs, Types, GsOK, GameServer
      <3>2. \A q \in Restore : pc'[q] = "launch" => pc[q] = "launch"
        BY <2>0, <2>1 DEF ReleaseBackupTarget, Step, Types, CrOK
      <3> QED
        BY <3>1, <3>2 DEF LaunchClear
    <2>2. CASE CreateBackupJob(b) \/ AttemptQuiesce(b) \/ ReleaseBackupFence(b)
      <3>1. \A q \in Restore : pc'[q] = "launch" => pc[q] = "launch"
        BY <2>0, <2>2 DEF CreateBackupJob, AttemptQuiesce, ReleaseBackupFence, Step, crVars, Types, CrOK
      <3>2. UNCHANGED gs
        BY <2>2 DEF CreateBackupJob, AttemptQuiesce, ReleaseBackupFence, KeepShared, gsVars
      <3> QED
        BY <1>4, <3>1, <3>2
    <2>3. CASE ClaimBackupTarget(b)
      BY <1>0, <1>3, <2>3 DEF ClaimBackupTarget, Claim, crVars
    <2> QED
      BY <1>2, <1>6, <2>1, <2>2, <2>3 DEF BackupMoves
  <1>7. CASE WipeMoves
    <2>1. CASE ClaimWipe
      <3> PICK t \in WipeTokens : Claimable(t) /\ UpdateGs(Claimed(t), {})
        BY <2>1 DEF ClaimWipe
      <3>1. t \in Op
        BY <1>0, <2>1, WipeTokensTokens DEF ClaimWipe
      <3> QED
        BY <1>3, <2>1, <3>1 DEF ClaimWipe, crVars
    <2>2. CASE ReleaseWipeGuard
      <3>1. gs'.recovery = gs.recovery
        BY <2>2 DEF ReleaseWipeGuard, WipeReleased, UpdateGs, Types, GsOK, GameServer
      <3> QED
        BY <2>2, <3>1 DEF ReleaseWipeGuard, crVars, LaunchClear
    <2>3. CASE AuthorizeWipe \/ CreateWipeJob \/ ReleaseWipeFence \/ ClearWipeWorkloadGuard
      BY <1>4, <2>3 DEF AuthorizeWipe, CreateWipeJob, ReleaseWipeFence, ClearWipeWorkloadGuard,
           gsVars, crVars
    <2> QED
      BY <1>2, <1>7, <2>1, <2>2, <2>3 DEF WipeMoves
  <1> QED
    BY <1>1, <1>5, <1>6, <1>7, NextMoves

\* The server is given up only with nothing left to recover.
LEMMA NextKeepsFreeClear ==
  ASSUME Types, WipeInv, FreshClear, WipeClear, FreeClear, Next
  PROVE  FreeClear'
  <1>0. None \notin Op
    BY ConstantsAssumption
  <1>1. CASE RecordsKept \/ Recovers
    BY <1>1 DEF RecordsKept, Recovers, FreeClear
  <1>2. ASSUME NEW o \in Op, Takes(o) PROVE FreeClear'
    BY <1>0, <1>2 DEF Takes, FreeClear
  <1>3. ASSUME gs'.owner # gs.owner PROVE
        \/ \E o \in Op : gs'.owner = o
        \/ gs.recovery = {}
    <2>1. CASE Calm
      BY <1>3, <2>1 DEF Calm, OwnerKept
    <2>2. ASSUME NEW keep, FinishRecovery(keep) PROVE FALSE
      BY <1>3, <2>2 DEF FinishRecovery, UpdateGs, Types, GsOK, GameServer
    <2>3. ASSUME NEW r \in Restore, RestoreMoves(r)
          PROVE  gs'.owner \in Op \/ gs.recovery = {}
      <3>1. CASE CommitRestore(r)
        BY <3>1 DEF CommitRestore, FreshClear, CR
      <3>2. CASE ClaimRestoreTarget(r)
        BY <3>2 DEF ClaimRestoreTarget, Claim, Claimed, UpdateGs, Types, GsOK, GameServer, Op, CR
      <3> QED
        BY <1>3, <2>2, <2>3, <3>1, <3>2
           DEF RestoreMoves, AuthorizeRestore, CreateRestoreJob, ReleaseRestoreFence,
               ClearRestoreMarker, KeepShared, gsVars
    <2>4. ASSUME NEW b \in Backup, BackupMoves(b)
          PROVE  gs'.owner \in Op \/ gs.recovery = {}
      <3>1. CASE ReleaseBackupTarget(b)
        BY <3>1 DEF ReleaseBackupTarget, FreshClear, CR
      <3>2. CASE ClaimBackupTarget(b)
        BY <3>2 DEF ClaimBackupTarget, Claim, Claimed, UpdateGs, Types, GsOK, GameServer, Op, CR
      <3> QED
        BY <1>3, <2>2, <2>4, <3>1, <3>2
           DEF BackupMoves, CreateBackupJob, AttemptQuiesce, ReleaseBackupFence, KeepShared, gsVars
    <2>5. CASE WipeMoves
      <3>1. CASE ClaimWipe
        <4> PICK t \in WipeTokens : Claimable(t) /\ UpdateGs(Claimed(t), {})
          BY <3>1 DEF ClaimWipe
        <4>1. t \in Op
          BY <3>1, WipeTokensTokens DEF ClaimWipe, Op
        <4> QED
          BY <4>1 DEF Claimed, UpdateGs, Types, GsOK, GameServer
      <3>2. CASE ReleaseWipeGuard
        BY <3>2 DEF ReleaseWipeGuard, WipeClear
      <3> QED
        BY <1>3, <2>2, <2>5, <3>1, <3>2
           DEF WipeMoves, AuthorizeWipe, CreateWipeJob, ClearWipeWorkloadGuard, ReleaseWipeFence, gsVars
    <2> QED
      BY <2>1, <2>3, <2>4, <2>5, NextMoves
  <1>4. CASE Releases
    BY <1>0, <1>3, <1>4 DEF Releases, FreeClear
  <1> QED
    BY <1>1, <1>2, <1>4, NextRecords

-----------------------------------------------------------------------------
(* What a step may change together.                                        *)

\* The workers, the game pod and the objects change in different steps: Jobs and
\* pods are touched by calls of their own.
LEMMA NextSeparates ==
  ASSUME Next
  PROVE  \/ UNCHANGED <<game, phase>>
         \/ UNCHANGED <<job, pods, phase>>
         \/ UNCHANGED <<job, pods, game>>
  <1>1. ASSUME NEW o, CancelWorkers(o) PROVE UNCHANGED <<game, phase>>
    BY <1>1 DEF CancelWorkers, DeleteJob, RevokeStart, podVars, crVars
  <1>2. ASSUME NEW p, SaveOn(p) PROVE UNCHANGED <<game, phase>>
    BY <1>2 DEF SaveOn, crVars
  <1>3. ASSUME NEW keep, RecoverLifecycleOperation(keep) PROVE UNCHANGED <<game, phase>>
    BY <1>1, <1>2, <1>3 DEF RecoverLifecycleOperation, StampForRecovery, StampRestoreGuard,
                      FinishRecovery, podVars, crVars
  <1>4. CASE Workload
    BY <1>4, Zenon DEF Workload, PassAborts, DesiredReplicas, IssueStopSequence, RenderWorkload,
         WriteWorkload, WorkloadUnchanged, PatchStatus, podVars, crVars
  <1>5. CASE Wipe
    BY <1>3, <1>5, ZenonT(30) DEF Wipe, ClaimWipe, AssertWipe, RecoverWipe, StartPass,
         DeleteWipeJob, RecordWipeSuccess, FenceForWipe, AuthorizeWipe, CreateWipeJob,
         ClearWipeWorkloadGuard, ReleaseWipeFence, ReleaseWipeGuard, WipeWaits, SkipWipe,
         podVars, crVars
  <1>6. CASE StatefulSetController \/ JobController \/ User
    BY <1>6 DEF StatefulSetController, JobController, User, Power, WipeRequest, ObjectRequest,
         podVars, jobVars, crVars
  <1>7. CASE Restoring
    <2> PICK r \in Restore : RestoreWork(r) \/ RestoreCleanup(r) \/ GiveUp(r) \/ RestoreAborts(r)
      BY <1>7, SMTT(20), ZenonT(20) DEF Restoring
    <2>1. CASE \/ PinSnapshot(r) \/ GiveUp(r) \/ StartRestore(r) \/ SucceedRestore(r)
               \/ FailRestore(r) \/ BindRestoreTarget(r) \/ RemoveFinalizer(r) \/ AuthorizeRestore(r)
      BY <2>1, ZenonT(30) DEF PinSnapshot, GiveUp, StartRestore, SucceedRestore, FailRestore, BindRestoreTarget,
           RemoveFinalizer, AuthorizeRestore, KeepShared, podVars, jobVars
    <2>2. CASE \/ ClaimRestoreTarget(r) \/ CreateRestoreJob(r) \/ CancelRestoreJob(r)
               \/ ResuspendTarget(r) \/ RecoverRestore(r) \/ CommitRestore(r) \/ FenceForRestore(r)
               \/ FenceForCleanup(r) \/ ReleaseRestoreFence(r) \/ ClearRestoreMarker(r)
               \/ RestoreAborts(r)
      BY <1>3, <2>2, ZenonT(30) DEF ClaimRestoreTarget, Claim, CreateRestoreJob, CancelRestoreJob, DeleteJob,
           ResuspendTarget, RecoverRestore, CommitRestore, FenceForRestore, FenceForCleanup,
           StampRestoreGuard, ReleaseRestoreFence, ClearRestoreMarker, RestoreAborts, podVars, crVars
    <2> QED
      BY <2>1, <2>2 DEF RestoreWork, RestoreCleanup
  <1>8. CASE BackingUp
    <2> PICK b \in Backup : BackupWork(b) \/ BackupCleanup(b) \/ BackupFaults(b)
      BY <1>8 DEF BackingUp
    <2>1. CASE \/ AdmitBackup(b) \/ CallQuiesce(b) \/ CompleteBackup(b) \/ FailBackup(b)
               \/ AbandonSaving(b) \/ DropBackup(b)
      BY <2>1, Zenon DEF AdmitBackup, CallQuiesce, CompleteBackup, FailBackup, AbandonSaving, DropBackup,
           KeepShared, podVars, jobVars
    <2>2. CASE \/ RecoverBackup(b) \/ CancelBackupJob(b) \/ RestoreSaving(b) \/ WithdrawStart(b)
      BY <1>1, <1>2, <1>3, <2>2 DEF RecoverBackup, CancelBackupJob, RestoreSaving, WithdrawStart,
           RevokeStart, podVars
    <2>3. CASE \/ AddFinalizer(b) \/ ReleaseBackupFence(b) \/ FenceBackupWorkload(b)
               \/ CreateBackupJob(b) \/ PinSource(b) \/ AttemptQuiesce(b) \/ AuthorizeStart(b)
               \/ BackupAborts(b) \/ ClaimBackupTarget(b) \/ RecordIntent(b) \/ QuiesceUnsupported(b)
               \/ RecordUnquiesced(b) \/ ReleaseBackupTarget(b)
      BY <2>3, ZenonT(30) DEF AddFinalizer, ReleaseBackupFence, FenceBackupWorkload, CreateBackupJob, PinSource,
           AttemptQuiesce, AuthorizeStart, BackupAborts, ClaimBackupTarget, Claim, RecordIntent,
           QuiesceUnsupported, RecordUnquiesced, ReleaseBackupTarget, KeepShared, podVars, crVars
    <2> QED
      BY <2>1, <2>2, <2>3 DEF BackupWork, BackupCleanup, BackupFaults
  <1> QED
    BY <1>4, <1>5, <1>6, <1>7, <1>8 DEF Next

-----------------------------------------------------------------------------
(* The steps of the lifecycle as steps of the lease.                       *)

LeaseStep == Lease!Next \/ UNCHANGED Lease!leaseVars

\* A step that leaves the records, the workers, the objects and the game pod alone.
LEMMA LeaseFrame ==
  ASSUME gs'.owner = gs.owner, gs'.recovery = gs.recovery, UNCHANGED <<job, pods, phase, game>>
  PROVE  LeaseStep
  BY DEF LeaseStep, Lease!leaseVars, Live, HasWork, WorkersLive, JobLive, Exists

\* A claim takes the lease, or asserts what the claimant has.
LEMMA ClaimTakes ==
  ASSUME Types, FreeClear, NEW o \in Op, NEW keep, Exists(o), Claimable(o),
         UpdateGs(Claimed(o), keep), UNCHANGED <<job, pods, phase, game>>
  PROVE  LeaseStep
  <1>0. None \notin Op
    BY ConstantsAssumption
  <1>1. gs'.owner = o /\ gs'.recovery = gs.recovery \cup ({gs.owner} \ {None, o})
    BY DEF Claimed, UpdateGs, Types, GsOK, GameServer
  <1>2. CASE gs.owner = o
    BY <1>1, <1>2, LeaseFrame
  <1>3. CASE gs.owner # o
    <2>1. IF gs.owner = None THEN gs.recovery = {} ELSE ~Exists(gs.owner)
      BY <1>3 DEF Claimable, FreeClear
    <2>2. Lease!Take(o)
      BY <1>0, <1>1, <1>3, <2>1 DEF Lease!Take, Live, HasWork, WorkersLive, JobLive, Exists
    <2> QED
      BY <2>2 DEF LeaseStep, Lease!Next
  <1> QED
    BY <1>2, <1>3

\* The end of a recovery: the vanished operations have no workers left.
LEMMA FinishRecovers ==
  ASSUME Types, RecoveryGone, NEW keep, FinishRecovery(keep)
  PROVE  LeaseStep
  <1>1. gs'.owner = gs.owner /\ gs'.recovery = {} /\ UNCHANGED <<job, pods, phase, game>>
    BY DEF FinishRecovery, UpdateGs, jobVars, crVars, podVars, Types, GsOK, GameServer
  <1>2. \A p \in gs.recovery : ~Live(p)
    BY ConstantsAssumption DEF FinishRecovery, RecoveryStopped, RecoveryDrained, RecoveryGone, Live
  <1>3. Lease!Recover
    BY <1>1, <1>2 DEF Lease!Recover, Live, HasWork, WorkersLive, JobLive, Exists
  <1> QED
    BY <1>3 DEF LeaseStep, Lease!Next

\* The end of an ownership: the owner has no workers left, and nothing to recover.
LEMMA ReleaseHandsOver ==
  ASSUME gs.owner # None, ~Live(gs.owner), gs.recovery = {}, gs'.recovery = gs.recovery,
         gs'.owner \in Token \cup {None}, UNCHANGED <<job, pods, phase, game>>
  PROVE  LeaseStep
  <1>1. Lease!HandOver(gs'.owner)
    BY DEF Lease!HandOver, Live, HasWork, WorkersLive, JobLive, Exists
  <1>2. gs'.owner \in {o \in Op : Exists(o)} \cup {None}
    BY DEF Exists, Op
  <1> QED
    BY <1>1, <1>2 DEF LeaseStep, Lease!Next

\* The creation of a Job: by the owner, with nothing to recover and nobody else at work.
LEMMA CreateBegins ==
  ASSUME Types, NEW o \in Op, gs.owner = o, Exists(o), gs.recovery = {},
         \A p \in Op \ {o} : ~Live(p), o \in Exclusive => game = "none",
         job' = [job EXCEPT ![o] = "active"], UNCHANGED <<gs, pods, phase, game>>
  PROVE  LeaseStep
  <1>1. Live(o)' /\ \A p \in Op \ {o} : Live(p)' = Live(p)
    BY DEF Live, HasWork, WorkersLive, JobLive, Types, JobOK
  <1>2. CASE Live(o)
    BY <1>1, <1>2 DEF LeaseStep, Lease!leaseVars, Exists
  <1>3. CASE ~Live(o)
    <2>1. {p \in Op : Live(p)} = {} /\ {p \in Op : Live(p)}' = {o}
      BY <1>1, <1>3
    <2>2. Lease!Begin(o)
      BY <2>1 DEF Lease!Begin, Exists
    <2> QED
      BY <2>2 DEF LeaseStep, Lease!Next
  <1> QED
    BY <1>2, <1>3

\* A calm step ends work, starts or stops the game, or creates or removes objects.
LEMMA CalmKeepsLease ==
  ASSUME Types, WipeInv, OwnershipInv, ExclusionInv, Next, Calm
  PROVE  LeaseStep
  <1>1. gs'.owner = gs.owner /\ gs'.recovery = gs.recovery
    BY DEF Calm, OwnerKept
  <1>2. \A o \in Op : Live(o)' => Live(o)
    BY DEF Calm, NoNewWork, Live, HasWork, Op
  <1>3. CASE UNCHANGED <<game, phase>>
    <2>1. Lease!End
      BY <1>1, <1>2, <1>3 DEF Lease!End, Exists
    <2> QED
      BY <2>1 DEF LeaseStep, Lease!Next
  <1>4. CASE UNCHANGED <<job, pods, phase>>
    <2>1. CASE game' = "none"
      <3>1. Lease!Quit
        BY <1>1, <1>4, <2>1 DEF Lease!Quit, Live, HasWork, WorkersLive, JobLive, Exists
      <3> QED
        BY <3>1 DEF LeaseStep, Lease!Next
    <2>2. CASE game' # "none"
      <3>1. \A o \in Exclusive : ~Live(o)
        BY <2>2, StoppedStays DEF Writes, Drained
      <3>2. Lease!Play
        BY <1>1, <1>4, <2>2, <3>1 DEF Lease!Play, Live, HasWork, WorkersLive, JobLive, Exists
      <3> QED
        BY <3>2 DEF LeaseStep, Lease!Next
    <2> QED
      BY <2>1, <2>2
  <1>5. CASE UNCHANGED <<job, pods, game>>
    <2>1. Lease!ComeAndGo
      BY <1>1, <1>5 DEF Lease!ComeAndGo, Live, HasWork, WorkersLive, JobLive
    <2> QED
      BY <2>1 DEF LeaseStep, Lease!Next
  <1> QED
    BY <1>3, <1>4, <1>5, NextSeparates

\* Every step of the controllers, of Kubernetes and of the users is a step of the lease.
LEMMA NextKeepsLease ==
  ASSUME Types, WipeInv, OwnershipInv, ExclusionInv, RecoveryGone, LeaseInv, Next
  PROVE  LeaseStep
  <1>0. /\ None \notin Op /\ Token \subseteq Op /\ Restore \subseteq Op /\ Backup \subseteq Op
        /\ CR \cap Token = {} /\ Backup \cap Restore = {} /\ Restore \subseteq CR
        /\ Backup \subseteq CR /\ Exclusive = Restore \cup Token
    BY ConstantsAssumption DEF Op, CR, Exclusive
  <1>1. ASSUME NEW c \in CR, Claim(c, {}), Exists(c) PROVE LeaseStep
    BY <1>0, <1>1, ClaimTakes DEF Claim, jobVars, crVars, podVars, LeaseInv, Op
  <1>2. ASSUME NEW r \in Restore, RestoreMoves(r), UNCHANGED passVars PROVE LeaseStep
    <2>1. CASE ClaimRestoreTarget(r)
      BY <1>0, <1>1, <2>1 DEF ClaimRestoreTarget, Claiming, Reconciling
    <2>2. CASE CommitRestore(r)
      <3>1. gs.owner = r /\ gs.recovery = {} /\ ~WorkersLive(r)
        BY <1>0, <2>2 DEF CommitRestore, WipeInv, FreshOwns, LeaseInv, FreshClear, OwnershipInv,
             ReleaserDrained, Releasing
      <3>2. gs'.owner = None /\ gs'.recovery = gs.recovery
        BY <2>2 DEF CommitRestore, UpdateGs, Types, GsOK, GameServer
      <3> QED
        BY <1>0, <2>2, <3>1, <3>2, ReleaseHandsOver DEF CommitRestore, jobVars, podVars, Live
    <2>3. CASE CreateRestoreJob(r)
      <3>1. gs.owner = r /\ Exists(r) /\ gs.recovery = {}
        BY <2>3 DEF CreateRestoreJob, OwnershipInv, LauncherOwns, Finalized, LeaseInv, LaunchClear
      <3>2. Writes(r)
        BY <2>3 DEF CreateRestoreJob, Writes
      <3>3. game = "none" /\ \A p \in Op \ {r} : ~Live(p)
        BY <1>0, <3>2 DEF ExclusionInv, Sole, Stopped, Drained
      <3> QED
        BY <1>0, <2>3, <3>1, <3>3, CreateBegins, Zenon DEF CreateRestoreJob, gsVars, podVars
    <2>4. CASE AuthorizeRestore(r) \/ ReleaseRestoreFence(r) \/ ClearRestoreMarker(r)
      BY <2>4, LeaseFrame DEF AuthorizeRestore, ReleaseRestoreFence, ClearRestoreMarker, KeepShared,
           gsVars, jobVars, podVars
    <2> QED
      BY <1>2, <2>1, <2>2, <2>3, <2>4, FinishRecovers DEF RestoreMoves
  <1>3. ASSUME NEW b \in Backup, BackupMoves(b), UNCHANGED passVars PROVE LeaseStep
    <2>1. CASE ClaimBackupTarget(b)
      <3>1. Exists(b)
        BY <2>1 DEF ClaimBackupTarget, Working, Active, Exists
      <3> QED
        BY <1>0, <1>1, <2>1, <3>1 DEF ClaimBackupTarget
    <2>2. CASE ReleaseBackupTarget(b)
      <3>1. gs.owner = b /\ gs.recovery = {} /\ ~WorkersLive(b)
        BY <1>0, <2>2 DEF ReleaseBackupTarget, WipeInv, FreshOwns, LeaseInv, FreshClear, OwnershipInv,
             ReleaserDrained, Releasing
      <3>2. gs'.owner = None /\ gs'.recovery = gs.recovery
        BY <2>2 DEF ReleaseBackupTarget, UpdateGs, Types, GsOK, GameServer
      <3> QED
        BY <1>0, <2>2, <3>1, <3>2, ReleaseHandsOver DEF ReleaseBackupTarget, jobVars, podVars, Live
    <2>3. CASE CreateBackupJob(b)
      <3>1. gs.owner = b /\ Exists(b) /\ gs.recovery = {}
        BY <2>3 DEF CreateBackupJob, Prepared, FenceObserved, Admitted, Working, Active, Owns, Exists
      <3>2. \A p \in Op \ {b} : ~Live(p)
        BY <1>0, <3>1 DEF OwnershipInv, CRAccounted, WipeInv, WipeWorkOwned, Live, Op
      <3> QED
        BY <1>0, <2>3, <3>1, <3>2, CreateBegins, Zenon DEF CreateBackupJob, gsVars, podVars, crVars
    <2>4. CASE AttemptQuiesce(b) \/ ReleaseBackupFence(b)
      BY <2>4, LeaseFrame DEF AttemptQuiesce, ReleaseBackupFence, KeepShared, gsVars, jobVars, podVars
    <2> QED
      BY <1>3, <2>1, <2>2, <2>3, <2>4, FinishRecovers DEF BackupMoves
  <1>4. CASE WipeMoves
    <2>1. CASE ClaimWipe
      <3> PICK t \in WipeTokens : Claimable(t) /\ UpdateGs(Claimed(t), {})
        BY <2>1 DEF ClaimWipe
      <3>1. t \in Op /\ Exists(t)
        BY <1>0, <2>1, WipeTokensTokens, SMTT(20), ZenonT(20) DEF ClaimWipe, Exists
      <3> QED
        BY <2>1, <3>1, ClaimTakes DEF ClaimWipe, jobVars, crVars, podVars, LeaseInv
    <2>2. CASE ReleaseWipeGuard
      <3>1. gs.owner \in Token /\ ~HasWork(gs.owner) /\ gs.recovery = {}
        BY <2>2, ZenonT(30) DEF ReleaseWipeGuard, WipeInv, WipeReleaserDrained, LeaseInv, WipeClear
      <3>2. gs'.owner \in Token \cup {None} /\ gs'.recovery = gs.recovery
        BY <2>2 DEF ReleaseWipeGuard, WipeReleased, PendingWipe, UpdateGs, Types, GsOK, GameServer
      <3> QED
        BY <1>0, <2>2, <3>1, <3>2, ReleaseHandsOver, ZenonT(30) DEF ReleaseWipeGuard, jobVars, crVars, podVars, Live
    <2>3. CASE CreateWipeJob
      <3> DEFINE t == snap.owner
      <3>1. t \in Token /\ gs.owner = t /\ gs.recovery = {} /\ Exists(t)
        BY <2>3 DEF CreateWipeJob, WipeInv, WipeLauncherOwns, LeaseInv, WipeClear, Exists
      <3>2. Writes(t)
        BY <2>3, <3>1 DEF CreateWipeJob, Writes
      <3>3. game = "none" /\ \A p \in Op \ {t} : ~Live(p)
        BY <1>0, <3>1, <3>2 DEF ExclusionInv, Sole, Stopped, Drained
      <3>4. CASE NoWipeJob
        BY <1>0, <2>3, <3>1, <3>3, <3>4, CreateBegins, Zenon DEF CreateWipeJob, gsVars, podVars, crVars
      <3>5. CASE ~NoWipeJob
        BY <2>3, <3>5, LeaseFrame DEF CreateWipeJob, gsVars, podVars, crVars
      <3> QED
        BY <3>4, <3>5
    <2>4. CASE AuthorizeWipe \/ ClearWipeWorkloadGuard \/ ReleaseWipeFence
      BY <2>4, LeaseFrame DEF AuthorizeWipe, ClearWipeWorkloadGuard, ReleaseWipeFence, gsVars, jobVars,
           crVars, podVars
    <2> QED
      BY <1>4, <2>1, <2>2, <2>3, <2>4, FinishRecovers DEF WipeMoves
  <1> QED
    BY <1>2, <1>3, <1>4, CalmKeepsLease, NextMoves

\* The lifecycle implements the lease: whatever the controllers, Kubernetes and the
\* users do, a live owner is never displaced, a Job is created only by the owner and
\* with nothing to recover, a restore or wipe works alone, and records are dropped
\* only after the workers (claimLifecycleOperation, recoverLifecycleOperation,
\* clearLifecycleOperation, releaseWipeGuard).  Finalizers are not stripped in the
\* middle of a reconcile.
THEOREM ImplementsLease ==
  ASSUME ForceDeletes # "any"
  PROVE  Spec => LeaseKept
  <1> DEFINE Inv == WipeInv /\ OwnershipInv /\ ExclusionInv /\ RecoveryGone /\ LeaseInv
  <1>1. ASSUME Init PROVE Inv /\ Lease!Init
    <2>1. /\ gs.owner = None /\ gs.recovery = {} /\ at = "start" /\ game = "none"
          /\ \A c \in CR : pc[c] = "idle"
          /\ \A o \in Op : job[o] = "none" /\ pods[o] = 0
      BY <1>1 DEF Init, ObjectsInit, WorkloadInit
    <2>2. ExclusionInv
      BY <1>1, InitialExclusion
    <2>3. \A o \in Op : ~Live(o)
      BY <2>1 DEF Live, HasWork, WorkersLive, JobLive
    <2>4. Lease!Init
      BY <2>1, <2>3 DEF Lease!Init
    <2> QED
      BY <1>1, <2>1, <2>2, <2>4, InitialWipe, InitialOwnership, SMTT(20), ZenonT(20)
         DEF RecoveryGone, LeaseInv, FreshClear, WipeClear, LaunchClear, FreeClear
  <1>2. ASSUME TypeOK, Inv, [Next]_vars PROVE Inv'
    <2>1. Types
      BY <1>2, TypeGroups
    <2>2. WipeInv' /\ OwnershipInv' /\ ExclusionInv'
      BY <1>2, NextKeepsWipe, NextKeepsOwnership, NextKeepsExclusion
    <2>3. CASE Next
      <3>1. RecoveryGone'
        BY <1>2, <2>1, <2>3, NextKeepsGone DEF ExclusionInv
      <3>2. LeaseInv'
        BY <1>2, <2>1, <2>3, NextFresh, NextKeepsWipeClear, NextKeepsLaunchClear,
           NextKeepsFreeClear, SMTT(20), ZenonT(20) DEF LeaseInv
      <3> QED
        BY <2>2, <3>1, <3>2
    <2>4. CASE UNCHANGED vars
      <3>1. UNCHANGED <<gs, gsFresh, at, pc, phase>>
        BY <2>4 DEF vars, objectVars, gsVars, crVars, passVars
      <3> QED
        BY <1>2, <2>2, <3>1 DEF RecoveryGone, LeaseInv, FreshClear, WipeClear, LaunchClear, FreeClear
    <2> QED
      BY <1>2, <2>3, <2>4
  <1>3. ASSUME TypeOK, Inv, [Next]_vars PROVE [Lease!Next]_(Lease!leaseVars)
    <2>1. Types
      BY <1>3, TypeGroups
    <2>2. CASE Next
      BY <1>3, <2>1, <2>2, NextKeepsLease DEF LeaseStep
    <2>3. CASE UNCHANGED vars
      <3>1. UNCHANGED <<gs, game, job, pods, phase>>
        BY <2>3 DEF vars, objectVars, gsVars, podVars, jobVars, crVars
      <3> QED
        BY <3>1, LeaseFrame DEF LeaseStep
    <2> QED
      BY <1>3, <2>2, <2>3
  <1>4. LeaseKept <=> Lease!Init /\ [][Lease!Next]_(Lease!leaseVars)
    BY DEF LeaseKept, Lease!Spec
  <1> QED
    BY <1>1, <1>2, <1>3, <1>4, TypeCorrect, PTL DEF Spec

-----------------------------------------------------------------------------
(* Partly restored data is held.                                           *)

\* A Restore that owns the server is there to clean up after itself.
NoRestoreLost == gs.recovery \cap Restore = {}

\* The Job of a Restore belongs to the owner, unless the Restore is done.
JobsOwned == \A r \in Restore : job[r] # "none" => gs.owner = r \/ Done(r)

\* A successful Restore creates no further Job.
SuccessSettled ==
    \A r \in Restore : phase[r] = "Succeeded" => job[r] \in {"none", "succeeded"} /\ pc[r] # "launch"

\* Success, of the Job or of the Restore, means that the data is whole, until the
\* owner that reports it has released the server.
RestoredWhole ==
    \A r \in Restore : gs.owner = r /\ (job[r] = "succeeded" \/ phase[r] = "Succeeded")
                          => volume # "partial"
ResumesWhole ==
    \A r \in Restore : pc[r] \in {"unmark.resume", "resume"} /\ r \in gsFresh => volume # "partial"

\* The same of a wipe, whose success outlives its Job on the GameServer.
WipedWhole ==
    \A t \in Token : gs.owner = t /\ (job[t] = "succeeded" \/ gs.wipeOk = t) => volume # "partial"
OkOwned == gs.wipeOk # None => gs.owner = gs.wipeOk

PartialInv ==
    /\ NoRestoreLost /\ JobsOwned /\ SuccessSettled
    /\ RestoredWhole /\ ResumesWhole /\ WipedWhole /\ OkOwned /\ PartialHeld

-----------------------------------------------------------------------------
(* What each step does to the data, the Jobs and the outcomes.             *)

\* Data becomes partial when a pod of the Restore that owns the server starts.
Overwrites == \E r \in Restore : gs.owner = r /\ job[r] = "active"

\* The data is otherwise changed by a finished Job and by a user's resumption only.
LEMMA NextVolume ==
  ASSUME Types, OwnershipInv, NoRestoreLost, Next
  PROVE  /\ volume' = volume \/ JobController \/ (Power /\ Resume)
         /\ volume' = "partial" => volume = "partial" \/ (Overwrites /\ JobController)
  <1>1. ASSUME NEW o, CancelWorkers(o) PROVE UNCHANGED volume
    BY <1>1 DEF CancelWorkers, DeleteJob, RevokeStart
  <1>2. ASSUME NEW keep, RecoverLifecycleOperation(keep) PROVE UNCHANGED volume
    BY <1>1, <1>2 DEF RecoverLifecycleOperation, StampForRecovery, StampRestoreGuard, SaveOn,
                      FinishRecovery
  <1>3. CASE Workload
    BY <1>3, Zenon DEF Workload, PassAborts, DesiredReplicas, IssueStopSequence, RenderWorkload,
         WriteWorkload, WorkloadUnchanged, PatchStatus
  <1>4. CASE Wipe
    BY <1>2, <1>4, ZenonT(30) DEF Wipe, ClaimWipe, AssertWipe, RecoverWipe, StartPass,
         DeleteWipeJob, RecordWipeSuccess, FenceForWipe, AuthorizeWipe, CreateWipeJob,
         ClearWipeWorkloadGuard, ReleaseWipeFence, ReleaseWipeGuard, WipeWaits, SkipWipe
  <1>5. CASE StatefulSetController
    BY <1>5 DEF StatefulSetController
  <1>6. CASE User
    BY <1>6 DEF User, Power, Suspend, Resume, RequestRestart, WipeRequest, ObjectRequest
  <1>7. CASE JobController
    <2>1. ASSUME NEW o \in Op, JobStartPod(o)
          PROVE  volume' = "partial" => volume = "partial" \/ Overwrites
      <3>1. o \in Restore => gs.owner = o
        BY <2>1 DEF JobStartPod, OwnershipInv, CRAccounted, NoRestoreLost, WorkersLive, JobLive, CR
      <3> QED
        BY <2>1, <3>1 DEF JobStartPod, Overwrites
    <2>2. ASSUME NEW o \in Op, PodExit(o) \/ JobSucceed(o) \/ JobFail(o) \/ JobDeleted(o) \/ JobCollected(o)
          PROVE  volume' = "partial" => volume = "partial"
      BY <2>2 DEF PodExit, JobSucceed, JobFail, JobDeleted, JobCollected
    <2>3. ASSUME NEW b \in Backup, WorkerReady(b) \/ WorkerStarts(b) \/ GateProjected(b)
          PROVE  volume' = volume
      BY <2>3 DEF WorkerReady, WorkerStarts, GateProjected
    <2> QED
      BY <1>7, <2>1, <2>2, <2>3 DEF JobController
  <1>8. CASE Restoring
    BY <1>2, <1>8, ZenonT(30)
       DEF Restoring, RestoreWork, RestoreCleanup, PinSnapshot, GiveUp, StartRestore, SucceedRestore,
           FailRestore, BindRestoreTarget, RemoveFinalizer, AuthorizeRestore, ClaimRestoreTarget,
           Claim, CreateRestoreJob, CancelRestoreJob, DeleteJob, ResuspendTarget, RecoverRestore,
           CommitRestore, FenceForRestore, FenceForCleanup, StampRestoreGuard, ReleaseRestoreFence,
           ClearRestoreMarker, RestoreAborts, KeepShared
  <1>9. CASE BackingUp
    BY <1>1, <1>2, <1>9, ZenonT(30)
       DEF BackingUp, BackupWork, BackupCleanup, BackupFaults, AddFinalizer, AdmitBackup,
           CompleteBackup, FailBackup, AbandonSaving, DropBackup, ReleaseBackupFence, CallQuiesce,
           FenceBackupWorkload, CreateBackupJob, PinSource, AttemptQuiesce, AuthorizeStart,
           RestoreSaving, SaveOn, BackupAborts, ClaimBackupTarget, Claim, RecordIntent,
           QuiesceUnsupported, RecordUnquiesced, ReleaseBackupTarget, CancelBackupJob,
           RecoverBackup, WithdrawStart, RevokeStart, KeepShared
  <1> QED
    BY <1>3, <1>4, <1>5, <1>6, <1>7, <1>8, <1>9 DEF Next

\* What may happen to the Job of a Restore or a wipe.
JobMoves(o) ==
    \/ job'[o] \in {job[o], "none"}
    \/ job[o] = "active" /\ job'[o] = "succeeded" /\ volume' = "whole"
    \/ job'[o] \in {"deleting", "failed"} /\ (o \in Restore => job[o] = "active")
    \/ job'[o] = "active" /\ (o \in Restore => pc[o] = "launch")

\* Every step moves the Jobs of Restores and wipes in these ways only.
LEMMA NextJobs ==
  ASSUME Types, WipeInv, Next
  PROVE  \A o \in Exclusive : JobMoves(o)
  <1>0. /\ Exclusive \subseteq Op /\ Restore \cap Token = {} /\ Restore \cap Backup = {}
        /\ Exclusive \cap Backup = {}
    BY ConstantsAssumption DEF Exclusive, Op, CR
  <1>1. ASSUME UNCHANGED job PROVE \A o \in Exclusive : JobMoves(o)
    BY <1>1 DEF JobMoves
  <1>2. ASSUME NEW p, DeleteJob(p) PROVE \A o \in Exclusive : JobMoves(o)
    BY <1>0, <1>2 DEF DeleteJob, JobMoves, Types, JobOK
  <1>3. ASSUME NEW p, CancelWorkers(p) PROVE \A o \in Exclusive : JobMoves(o)
    BY <1>1, <1>2, <1>3 DEF CancelWorkers, RevokeStart, jobVars
  <1>4. ASSUME NEW keep, RecoverLifecycleOperation(keep) PROVE \A o \in Exclusive : JobMoves(o)
    BY <1>1, <1>3, <1>4 DEF RecoverLifecycleOperation, StampForRecovery, StampRestoreGuard, SaveOn,
                      FinishRecovery, jobVars
  <1>5. ASSUME DeleteJobs PROVE \A o \in Exclusive : JobMoves(o)
    BY <1>0, <1>5 DEF DeleteJobs, Undeleted, JobMoves, Types, JobOK
  <1>6. CASE Workload
    BY <1>1, <1>6, Zenon DEF Workload, PassAborts, DesiredReplicas, IssueStopSequence, RenderWorkload,
         WriteWorkload, WorkloadUnchanged, PatchStatus, jobVars
  <1>7. CASE Wipe
    <2>1. CASE CreateWipeJob
      <3>1. ASSUME NoWipeJob PROVE \A o \in Exclusive : JobMoves(o)
        <4>1. job' = [job EXCEPT ![snap.owner] = "active"]
          BY <2>1, <3>1 DEF CreateWipeJob
        <4>2. \A o \in Exclusive : job'[o] = job[o] \/ (o = snap.owner /\ job'[o] = "active")
          BY <1>0, <4>1 DEF Types, JobOK
        <4>3. snap.owner \in Token
          BY <2>1 DEF CreateWipeJob, WipeInv, WipeLauncherOwns
        <4> QED
          BY <1>0, <4>2, <4>3 DEF JobMoves
      <3> QED
        BY <1>1, <2>1, <3>1 DEF CreateWipeJob
    <2> QED
      BY <1>1, <1>4, <1>5, <1>7, <2>1, ZenonT(30) DEF Wipe, ClaimWipe, AssertWipe, RecoverWipe, StartPass,
         DeleteWipeJob, RecordWipeSuccess, FenceForWipe, AuthorizeWipe,
         ClearWipeWorkloadGuard, ReleaseWipeFence, ReleaseWipeGuard, WipeWaits, SkipWipe, jobVars
  <1>8. CASE StatefulSetController \/ User
    BY <1>1, <1>8 DEF StatefulSetController, User, Power, WipeRequest, ObjectRequest, jobVars
  <1>9. CASE JobController
    <2>1. ASSUME NEW p \in Op, JobSucceed(p) PROVE \A o \in Exclusive : JobMoves(o)
      BY <1>0, <2>1 DEF JobSucceed, JobMoves, Types, JobOK
    <2>2. ASSUME NEW p \in Op, JobFail(p) \/ JobDeleted(p) \/ JobCollected(p)
          PROVE  \A o \in Exclusive : JobMoves(o)
      BY <1>0, <2>2 DEF JobFail, JobDeleted, JobCollected, JobMoves, Types, JobOK
    <2>3. ASSUME NEW p \in Op, JobStartPod(p) \/ PodExit(p) PROVE UNCHANGED job
      BY <2>3 DEF JobStartPod, PodExit
    <2>4. ASSUME NEW b \in Backup, WorkerReady(b) \/ WorkerStarts(b) \/ GateProjected(b)
          PROVE  UNCHANGED job
      BY <2>4 DEF WorkerReady, WorkerStarts, GateProjected, jobVars
    <2> QED
      BY <1>1, <1>9, <2>1, <2>2, <2>3, <2>4 DEF JobController
  <1>10. CASE Restoring
    <2>1. ASSUME NEW r \in Restore, CreateRestoreJob(r) PROVE \A o \in Exclusive : JobMoves(o)
      BY <1>0, <2>1 DEF CreateRestoreJob, JobMoves, Types, JobOK
    <2> QED
      BY <1>1, <1>2, <1>4, <1>10, <2>1, ZenonT(30)
       DEF Restoring, RestoreWork, RestoreCleanup, PinSnapshot, GiveUp, StartRestore, SucceedRestore,
           FailRestore, BindRestoreTarget, RemoveFinalizer, AuthorizeRestore, ClaimRestoreTarget,
           Claim, CancelRestoreJob, ResuspendTarget, RecoverRestore,
           CommitRestore, FenceForRestore, FenceForCleanup, StampRestoreGuard, ReleaseRestoreFence,
           ClearRestoreMarker, RestoreAborts, KeepShared, jobVars
  <1>11. CASE BackingUp
    <2>1. ASSUME NEW b \in Backup, CreateBackupJob(b) PROVE \A o \in Exclusive : JobMoves(o)
      BY <1>0, <2>1 DEF CreateBackupJob, JobMoves, Types, JobOK
    <2> QED
      BY <1>1, <1>3, <1>4, <1>11, <2>1, ZenonT(30)
       DEF BackingUp, BackupWork, BackupCleanup, BackupFaults, AddFinalizer, AdmitBackup,
           CompleteBackup, FailBackup, AbandonSaving, DropBackup, ReleaseBackupFence, CallQuiesce,
           FenceBackupWorkload, PinSource, AttemptQuiesce, AuthorizeStart,
           RestoreSaving, SaveOn, BackupAborts, ClaimBackupTarget, Claim, RecordIntent,
           QuiesceUnsupported, RecordUnquiesced, ReleaseBackupTarget, CancelBackupJob,
           RecoverBackup, WithdrawStart, RevokeStart, KeepShared, jobVars
  <1> QED
    BY <1>6, <1>7, <1>8, <1>9, <1>10, <1>11 DEF Next

\* A Restore becomes successful through SucceedRestore alone.
LEMMA NextOutcomes ==
  ASSUME Types, Next
  PROVE  \A r \in Restore : phase'[r] = "Succeeded" => phase[r] = "Succeeded" \/ SucceedRestore(r)
  <1>0. Restore \subseteq CR /\ Backup \subseteq CR /\ Backup \cap Restore = {}
    BY ConstantsAssumption DEF CR
  <1> DEFINE Same == \A r \in Restore : phase'[r] = "Succeeded" => phase[r] = "Succeeded"
  <1>1. ASSUME UNCHANGED phase PROVE Same
    BY <1>1
  <1>2. ASSUME NEW c \in CR, NEW p, phase' = [phase EXCEPT ![c] = p], p # "Succeeded" PROVE Same
    BY <1>0, <1>2 DEF Types, CrOK
  <1>3. ASSUME NEW b \in Backup, NEW p, phase' = [phase EXCEPT ![b] = p] PROVE Same
    BY <1>0, <1>3 DEF Types, CrOK
  <1> HIDE DEF Same
  <1>4. ASSUME NEW o, CancelWorkers(o) PROVE UNCHANGED phase
    BY <1>4 DEF CancelWorkers, DeleteJob, RevokeStart, crVars
  <1>5. ASSUME NEW keep, RecoverLifecycleOperation(keep) PROVE UNCHANGED phase
    BY <1>4, <1>5 DEF RecoverLifecycleOperation, StampForRecovery, StampRestoreGuard, SaveOn,
                      FinishRecovery, crVars
  <1>6. CASE Workload
    BY <1>1, <1>6, Zenon DEF Workload, PassAborts, DesiredReplicas, IssueStopSequence, RenderWorkload,
         WriteWorkload, WorkloadUnchanged, PatchStatus, crVars, Same
  <1>7. CASE Wipe
    BY <1>1, <1>5, <1>7, ZenonT(30) DEF Wipe, ClaimWipe, AssertWipe, RecoverWipe, StartPass,
         DeleteWipeJob, RecordWipeSuccess, FenceForWipe, AuthorizeWipe, CreateWipeJob,
         ClearWipeWorkloadGuard, ReleaseWipeFence, ReleaseWipeGuard, WipeWaits, SkipWipe, crVars, Same
  <1>8. CASE StatefulSetController \/ JobController
    BY <1>1, <1>8 DEF StatefulSetController, JobController, crVars, Same
  <1>9. CASE User
    <2>1. ASSUME NEW c \in CR, Create(c) \/ Delete(c) \/ ForceDelete(c) PROVE Same
      BY <1>1, <1>2, <2>1, SMTT(20), ZenonT(20) DEF Create, Delete, ForceDelete
    <2> QED
      BY <1>1, <1>9, <2>1 DEF User, Power, WipeRequest, ObjectRequest, crVars, Same
  <1>10. CASE Restoring
    <2> PICK r \in Restore : RestoreWork(r) \/ RestoreCleanup(r) \/ GiveUp(r) \/ RestoreAborts(r)
      BY <1>10, SMTT(20), ZenonT(20) DEF Restoring
    <2>1. CASE PinSnapshot(r) \/ GiveUp(r) \/ StartRestore(r) \/ FailRestore(r) \/ RemoveFinalizer(r)
      <3>1. Same
        BY <1>0, <1>1, <1>2, <2>1, ZenonT(30) DEF PinSnapshot, GiveUp, StartRestore, FailRestore, RemoveFinalizer,
             SetPhase
      <3> QED
        BY <3>1, SMTT(20), ZenonT(20) DEF Same
    <2>2. CASE SucceedRestore(r)
      BY <1>0, <2>2, Zenon DEF SucceedRestore, SetPhase, Types, CrOK
    <2>3. CASE \/ BindRestoreTarget(r) \/ AuthorizeRestore(r) \/ ClaimRestoreTarget(r)
               \/ CreateRestoreJob(r) \/ CancelRestoreJob(r) \/ ResuspendTarget(r) \/ RecoverRestore(r)
               \/ CommitRestore(r) \/ FenceForRestore(r) \/ FenceForCleanup(r)
               \/ ReleaseRestoreFence(r) \/ ClearRestoreMarker(r) \/ RestoreAborts(r)
      BY <1>1, <1>5, <2>3, ZenonT(30)
         DEF BindRestoreTarget, AuthorizeRestore, ClaimRestoreTarget, Claim, CreateRestoreJob,
             CancelRestoreJob, DeleteJob, ResuspendTarget, RecoverRestore, CommitRestore,
             FenceForRestore, FenceForCleanup, StampRestoreGuard, ReleaseRestoreFence,
             ClearRestoreMarker, RestoreAborts, crVars, Same
    <2> QED
      BY <2>1, <2>2, <2>3, ZenonT(30) DEF RestoreWork, RestoreCleanup
  <1>11. CASE BackingUp
    <2> PICK b \in Backup : BackupWork(b) \/ BackupCleanup(b) \/ BackupFaults(b)
      BY <1>11 DEF BackingUp
    <2>1. CASE \/ AdmitBackup(b) \/ CallQuiesce(b) \/ CompleteBackup(b) \/ FailBackup(b)
               \/ AbandonSaving(b) \/ DropBackup(b)
      BY <1>1, <1>3, <2>1, Zenon DEF AdmitBackup, CallQuiesce, CompleteBackup, FailBackup, AbandonSaving,
           DropBackup, SetPhase, Same
    <2>2. CASE \/ RecoverBackup(b) \/ CancelBackupJob(b) \/ RestoreSaving(b) \/ WithdrawStart(b)
      BY <1>1, <1>4, <1>5, <2>2 DEF RecoverBackup, CancelBackupJob, RestoreSaving, SaveOn,
           WithdrawStart, RevokeStart, crVars, Same
    <2>3. CASE \/ AddFinalizer(b) \/ ReleaseBackupFence(b) \/ FenceBackupWorkload(b)
               \/ CreateBackupJob(b) \/ PinSource(b) \/ AttemptQuiesce(b) \/ AuthorizeStart(b)
               \/ BackupAborts(b) \/ ClaimBackupTarget(b) \/ RecordIntent(b) \/ QuiesceUnsupported(b)
               \/ RecordUnquiesced(b) \/ ReleaseBackupTarget(b)
      BY <1>1, <2>3, ZenonT(30) DEF AddFinalizer, ReleaseBackupFence, FenceBackupWorkload, CreateBackupJob,
           PinSource, AttemptQuiesce, AuthorizeStart, BackupAborts, ClaimBackupTarget, Claim,
           RecordIntent, QuiesceUnsupported, RecordUnquiesced, ReleaseBackupTarget, crVars, Same
    <2> QED
      BY <2>1, <2>2, <2>3, ZenonT(30) DEF BackupWork, BackupCleanup, BackupFaults
  <1> QED
    BY <1>6, <1>7, <1>8, <1>9, <1>10, <1>11 DEF Next

\* A Restore comes to its Job through AuthorizeRestore, and to the resumption of the
\* server with a current copy through ReleaseRestoreFence after a success.
LEMMA NextLaunches ==
  ASSUME ForceDeletes # "any", Types, Next
  PROVE  \A r \in Restore :
           /\ pc'[r] = "launch" => pc[r] = "launch" \/ AuthorizeRestore(r)
           /\ pc'[r] \in {"unmark.resume", "resume"} /\ r \in gsFresh' =>
                \/ pc[r] \in {"unmark.resume", "resume"} /\ r \in gsFresh
                \/ ReleaseRestoreFence(r) /\ Success(r)
  <1>0. Restore \subseteq CR /\ Backup \subseteq CR /\ Backup \cap Restore = {} /\ "pass" \notin CR
    BY ConstantsAssumption DEF CR
  <1> SUFFICES ASSUME NEW q \in Restore
               PROVE  /\ pc'[q] = "launch" => pc[q] = "launch" \/ AuthorizeRestore(q)
                      /\ pc'[q] \in {"unmark.resume", "resume"} /\ q \in gsFresh' =>
                           \/ pc[q] \in {"unmark.resume", "resume"} /\ q \in gsFresh
                           \/ ReleaseRestoreFence(q) /\ Success(q)
    OBVIOUS
  <1>1. CASE Calm
    BY <1>0, <1>1 DEF Calm, FreshKept, ReconcilesKept
  <1>2. ASSUME NEW keep, FinishRecovery(keep), keep \cap CR = {}
        PROVE  UNCHANGED pc /\ q \notin gsFresh'
    BY <1>0, <1>2, SMTT(20), ZenonT(20) DEF FinishRecovery, UpdateGs, crVars
  <1>3. ASSUME NEW r \in Restore, RestoreMoves(r)
        PROVE  /\ pc'[q] = "launch" => pc[q] = "launch" \/ AuthorizeRestore(q)
               /\ pc'[q] \in {"unmark.resume", "resume"} /\ q \in gsFresh' =>
                    \/ pc[q] \in {"unmark.resume", "resume"} /\ q \in gsFresh
                    \/ ReleaseRestoreFence(q) /\ Success(q)
    <2>1. CASE ClaimRestoreTarget(r) \/ FinishRecovery({})
      BY <1>2, <2>1 DEF ClaimRestoreTarget, Claim, UpdateGs, crVars
    <2>2. CASE AuthorizeRestore(r)
      BY <1>0, <2>2, Zenon DEF AuthorizeRestore, Step, KeepShared, gsVars, Types, CrOK
    <2>3. CASE CreateRestoreJob(r)
      BY <1>0, <2>3 DEF CreateRestoreJob, Step, gsVars, Types, CrOK
    <2>4. CASE ReleaseRestoreFence(r)
      BY <1>0, <2>4, Zenon DEF ReleaseRestoreFence, Step, Types, CrOK
    <2>5. CASE ClearRestoreMarker(r)
      BY <1>0, <2>5 DEF ClearRestoreMarker, Step, gsVars, Types, CrOK
    <2>6. CASE CommitRestore(r)
      BY <1>0, <2>6, SMTT(20), ZenonT(20) DEF CommitRestore, Step, UpdateGs, Types, CrOK
    <2> QED
      BY <1>3, <2>1, <2>2, <2>3, <2>4, <2>5, <2>6, ZenonT(30) DEF RestoreMoves
  <1>4. ASSUME NEW b \in Backup, BackupMoves(b)
        PROVE  pc'[q] = pc[q] /\ (q \in gsFresh' => q \in gsFresh)
    <2>1. CASE ClaimBackupTarget(b) \/ FinishRecovery({})
      BY <1>2, <2>1 DEF ClaimBackupTarget, Claim, UpdateGs, crVars
    <2>2. CASE CreateBackupJob(b)
      BY <2>2 DEF CreateBackupJob, gsVars, crVars
    <2>3. CASE AttemptQuiesce(b)
      BY <1>0, <2>3 DEF AttemptQuiesce, Step, KeepShared, gsVars, Types, CrOK
    <2>4. CASE ReleaseBackupFence(b)
      BY <1>0, <2>4 DEF ReleaseBackupFence, Step, Types, CrOK
    <2>5. CASE ReleaseBackupTarget(b)
      BY <1>0, <2>5 DEF ReleaseBackupTarget, Step, UpdateGs, Types, CrOK
    <2> QED
      BY <1>4, <2>1, <2>2, <2>3, <2>4, <2>5 DEF BackupMoves
  <1>5. CASE WipeMoves
    <2>1. pc'[q] = pc[q] /\ (q \in gsFresh' => q \in gsFresh)
      <3>1. CASE FinishRecovery({"pass"})
        BY <1>0, <1>2, <3>1
      <3>2. CASE ClaimWipe \/ ReleaseWipeGuard
        BY <3>2 DEF ClaimWipe, ReleaseWipeGuard, UpdateGs, crVars
      <3>3. CASE AuthorizeWipe \/ CreateWipeJob \/ ReleaseWipeFence
        BY <3>3 DEF AuthorizeWipe, CreateWipeJob, ReleaseWipeFence, gsVars, crVars
      <3>4. CASE ClearWipeWorkloadGuard
        BY <1>0, <3>4, SMTT(20), ZenonT(20) DEF ClearWipeWorkloadGuard, crVars
      <3> QED
        BY <1>5, <3>1, <3>2, <3>3, <3>4 DEF WipeMoves
    <2> QED
      BY <2>1
  <1> QED
    BY <1>1, <1>3, <1>4, <1>5, NextMoves, ZenonT(30)

\* The server is started by a user, by the release after a successful Restore, and by
\* the release after a recorded wipe; the success of a wipe is recorded and cleared by
\* the wipe alone.
LEMMA NextIntent ==
  ASSUME Types, Next
  PROVE  /\ \/ gs.suspend => gs'.suspend
            \/ Power /\ Resume
            \/ \E r \in Restore : CommitRestore(r) /\ pc[r] = "resume"
            \/ ReleaseWipeGuard /\ Recorded
         /\ gs'.wipeOk = gs.wipeOk \/ RecordWipeSuccess \/ ReleaseWipeGuard
  <1> DEFINE Same == (gs.suspend => gs'.suspend) /\ gs'.wipeOk = gs.wipeOk
  <1>0. \A o : (gs.suspend => Claimed(o).suspend) /\ Claimed(o).wipeOk = gs.wipeOk
    BY DEF Claimed, Types, GsOK, GameServer
  <1>1. ASSUME UNCHANGED gs PROVE Same
    BY <1>1
  <1>2. ASSUME NEW o, NEW keep, UpdateGs(Claimed(o), keep) PROVE Same
    BY <1>0, <1>2 DEF UpdateGs
  <1>3. ASSUME NEW keep, NEW rec, NEW debt,
               UpdateGs([gs EXCEPT !.recovery = rec, !.debt = debt], keep)
        PROVE  Same
    BY <1>3 DEF UpdateGs, Types, GsOK, GameServer
  <1>4. ASSUME NEW keep, NEW debt, UpdateGs([gs EXCEPT !.debt = debt], keep) PROVE Same
    BY <1>4 DEF UpdateGs, Types, GsOK, GameServer
  <1>5. ASSUME NEW o, CancelWorkers(o) PROVE Same
    BY <1>5 DEF CancelWorkers, DeleteJob, RevokeStart, gsVars
  <1>6. ASSUME NEW keep, RecoverLifecycleOperation(keep) PROVE Same
    <2>1. CASE FinishRecovery(keep)
      BY <1>3, <2>1, Zenon DEF FinishRecovery
    <2> HIDE DEF Same
    <2> QED
      BY <1>1, <1>5, <1>6, <2>1 DEF RecoverLifecycleOperation, StampForRecovery, StampRestoreGuard,
                      SaveOn, gsVars
  <1>7. CASE Workload
    <2>1. CASE DesiredReplicas
      BY <2>1, ZenonT(30) DEF DesiredReplicas, DecidePreserving, DecideTaken, DecideGuarded, DecideRestarted,
           DecideStopping, DecideRunning, SoftStop, KeepGs, UpdateGs, Types, GsOK, GameServer
    <2> QED
      BY <1>7, <2>1, Zenon DEF Workload, PassAborts, IssueStopSequence, RenderWorkload,
         WriteWorkload, WorkloadUnchanged, PatchStatus, gsVars
  <1>8. CASE Wipe
    <2>1. CASE ClaimWipe \/ AssertWipe
      BY <1>2, <2>1, ZenonT(30) DEF ClaimWipe, AssertWipe
    <2>2. CASE RecordWipeSuccess
      BY <2>2 DEF RecordWipeSuccess, UpdateGs, Types, GsOK, GameServer
    <2>3. CASE ReleaseWipeGuard
      BY <2>3, Zenon DEF ReleaseWipeGuard, WipeReleased, UpdateGs, Types, GsOK, GameServer
    <2>4. CASE RecoverWipe
      BY <1>6, <2>4, SMTT(20), ZenonT(20) DEF RecoverWipe
    <2>5. CASE \/ StartPass \/ DeleteWipeJob \/ FenceForWipe \/ AuthorizeWipe \/ CreateWipeJob
               \/ ClearWipeWorkloadGuard \/ ReleaseWipeFence \/ WipeWaits \/ SkipWipe
      BY <2>5 DEF StartPass, DeleteWipeJob, FenceForWipe, AuthorizeWipe, CreateWipeJob,
           ClearWipeWorkloadGuard, ReleaseWipeFence, WipeWaits, SkipWipe, gsVars
    <2> QED
      BY <1>8, <2>1, <2>2, <2>3, <2>4, <2>5, SMTT(20), ZenonT(20) DEF Wipe
  <1>9. CASE StatefulSetController \/ JobController
    BY <1>9, SMTT(20), ZenonT(20) DEF StatefulSetController, JobController, gsVars
  <1>10. CASE User
    <2>1. CASE Power
      BY <2>1 DEF Power, Suspend, Resume, RequestRestart, UpdateGs, Types, GsOK, GameServer
    <2>2. CASE WipeRequest
      BY <2>2, Zenon DEF WipeRequest, CancelWipe, RequestWipe, UpdateGs, Types, GsOK, GameServer
    <2>3. CASE ObjectRequest
      BY <2>3, SMTT(20), ZenonT(20) DEF ObjectRequest, gsVars
    <2> QED
      BY <1>10, <2>1, <2>2, <2>3 DEF User
  <1>11. CASE Restoring
    <2> PICK r \in Restore : RestoreWork(r) \/ RestoreCleanup(r) \/ GiveUp(r) \/ RestoreAborts(r)
      BY <1>11, SMTT(20), ZenonT(20) DEF Restoring
    <2>1. CASE ClaimRestoreTarget(r)
      BY <1>2, <2>1, ZenonT(30) DEF ClaimRestoreTarget, Claim
    <2>2. CASE ResuspendTarget(r)
      BY <2>2 DEF ResuspendTarget, UpdateGs, Types, GsOK, GameServer
    <2>3. CASE CommitRestore(r)
      BY <2>3, ZenonT(30) DEF CommitRestore, UpdateGs, Types, GsOK, GameServer
    <2>4. CASE RecoverRestore(r)
      BY <1>6, <2>4 DEF RecoverRestore
    <2>5. CASE \/ PinSnapshot(r) \/ GiveUp(r) \/ StartRestore(r) \/ SucceedRestore(r)
               \/ FailRestore(r) \/ BindRestoreTarget(r) \/ RemoveFinalizer(r) \/ AuthorizeRestore(r)
               \/ CreateRestoreJob(r) \/ CancelRestoreJob(r) \/ FenceForRestore(r)
               \/ FenceForCleanup(r) \/ ReleaseRestoreFence(r) \/ ClearRestoreMarker(r)
               \/ RestoreAborts(r)
      BY <2>5, ZenonT(30) DEF PinSnapshot, GiveUp, StartRestore, SucceedRestore, FailRestore, BindRestoreTarget,
           RemoveFinalizer, AuthorizeRestore, CreateRestoreJob, CancelRestoreJob, DeleteJob,
           FenceForRestore, FenceForCleanup, StampRestoreGuard, ReleaseRestoreFence,
           ClearRestoreMarker, RestoreAborts, KeepShared, gsVars
    <2> QED
      BY <2>1, <2>2, <2>3, <2>4, <2>5, ZenonT(30) DEF RestoreWork, RestoreCleanup
  <1>12. CASE BackingUp
    <2> PICK b \in Backup : BackupWork(b) \/ BackupCleanup(b) \/ BackupFaults(b)
      BY <1>12, SMTT(20), ZenonT(20) DEF BackingUp
    <2>1. CASE ClaimBackupTarget(b)
      BY <1>2, <2>1 DEF ClaimBackupTarget, Claim
    <2>2. CASE RecordIntent(b) \/ QuiesceUnsupported(b) \/ RecordUnquiesced(b)
      BY <1>1, <1>4, <2>2, Zenon DEF RecordIntent, QuiesceUnsupported, RecordUnquiesced
    <2>3. CASE ReleaseBackupTarget(b)
      BY <2>3, SMTT(20), ZenonT(20) DEF ReleaseBackupTarget, UpdateGs, Types, GsOK, GameServer
    <2>4. CASE RecoverBackup(b) \/ CancelBackupJob(b)
      BY <1>5, <1>6, <2>4, ZenonT(30) DEF RecoverBackup, CancelBackupJob
    <2>5. CASE \/ AddFinalizer(b) \/ AdmitBackup(b) \/ CompleteBackup(b) \/ FailBackup(b)
               \/ AbandonSaving(b) \/ DropBackup(b) \/ ReleaseBackupFence(b) \/ CallQuiesce(b)
               \/ FenceBackupWorkload(b) \/ CreateBackupJob(b) \/ PinSource(b) \/ AttemptQuiesce(b)
               \/ AuthorizeStart(b) \/ RestoreSaving(b) \/ WithdrawStart(b) \/ BackupAborts(b)
      BY <2>5, ZenonT(30) DEF AddFinalizer, AdmitBackup, CompleteBackup, FailBackup, AbandonSaving, DropBackup,
           ReleaseBackupFence, CallQuiesce, FenceBackupWorkload, CreateBackupJob, PinSource,
           AttemptQuiesce, AuthorizeStart, RestoreSaving, SaveOn, WithdrawStart, RevokeStart,
           BackupAborts, KeepShared, gsVars
    <2> QED
      BY <2>1, <2>2, <2>3, <2>4, <2>5, ZenonT(30) DEF BackupWork, BackupCleanup, BackupFaults
  <1> QED
    BY <1>7, <1>8, <1>9, <1>10, <1>11, <1>12 DEF Next

\* The server of a wipe changes hands through releaseWipeGuard alone, and that of a
\* Restore that exists through the commit of its own release.
LEMMA OwnerLeaves ==
  ASSUME Types, WipeInv, RestoreOwnerLives, Next, gs.owner \in Exclusive, gs'.owner # gs.owner
  PROVE  IF gs.owner \in Token THEN ReleaseWipeGuard ELSE CommitRestore(gs.owner)
  <1>0. /\ None \notin Op /\ Token \subseteq Op /\ Restore \subseteq Op /\ Backup \subseteq Op
        /\ Restore \cap Token = {} /\ Backup \cap Restore = {} /\ Backup \cap Token = {}
        /\ gs.owner \in Op /\ Exclusive = Restore \cup Token /\ Restore \subseteq CR /\ Backup \subseteq CR
    BY ConstantsAssumption DEF Op, CR, Exclusive
  <1>1. Exists(gs.owner)
    BY <1>0 DEF RestoreOwnerLives, Exists
  <1>2. ASSUME NEW o \in Op, NEW keep, Claimable(o), UpdateGs(Claimed(o), keep) PROVE FALSE
    <2>1. o = gs.owner
      BY <1>0, <1>1, <1>2, ClaimOverLive
    <2>2. gs'.owner = o
      BY <1>2 DEF UpdateGs, Claimed, Types, GsOK, GameServer
    <2> QED
      BY <2>1, <2>2
  <1>3. ASSUME NEW keep, FinishRecovery(keep) PROVE FALSE
    BY <1>3 DEF FinishRecovery, UpdateGs, Types, GsOK, GameServer
  <1>4. CASE Calm
    BY <1>4 DEF Calm, OwnerKept
  <1>5. ASSUME NEW r \in Restore, RestoreMoves(r) PROVE r = gs.owner /\ CommitRestore(r)
    <2>1. CASE CommitRestore(r)
      BY <1>0, <2>1 DEF CommitRestore, WipeInv, FreshOwns
    <2> QED
      BY <1>0, <1>2, <1>3, <1>5, <2>1 DEF RestoreMoves, ClaimRestoreTarget, Claim, AuthorizeRestore,
         CreateRestoreJob, ReleaseRestoreFence, ClearRestoreMarker, KeepShared, gsVars
  <1>6. ASSUME NEW b \in Backup, BackupMoves(b) PROVE FALSE
    <2>1. CASE ReleaseBackupTarget(b)
      BY <1>0, <2>1 DEF ReleaseBackupTarget, WipeInv, FreshOwns
    <2> QED
      BY <1>0, <1>2, <1>3, <1>6, <2>1 DEF BackupMoves, ClaimBackupTarget, Claim, CreateBackupJob,
         AttemptQuiesce, ReleaseBackupFence, KeepShared, gsVars
  <1>7. CASE WipeMoves
    <2>1. CASE ClaimWipe
      <3> PICK t \in WipeTokens : Claimable(t) /\ UpdateGs(Claimed(t), {})
        BY <2>1, SMTT(20), ZenonT(20) DEF ClaimWipe
      <3>1. t \in Op
        BY <1>0, <2>1, WipeTokensTokens, SMTT(20), ZenonT(20) DEF ClaimWipe
      <3> QED
        BY <1>2, <3>1, SMTT(20), ZenonT(20)
    <2>2. CASE ReleaseWipeGuard
      BY <1>0, <2>2 DEF ReleaseWipeGuard, WipeInv, WipeReleaserDrained
    <2> QED
      BY <1>3, <1>7, <2>1, <2>2, SMTT(20), ZenonT(20) DEF WipeMoves, AuthorizeWipe, CreateWipeJob, ClearWipeWorkloadGuard,
         ReleaseWipeFence, gsVars
  <1> QED
    BY <1>0, <1>4, <1>5, <1>6, <1>7, NextMoves, SMTT(20), ZenonT(20)

-----------------------------------------------------------------------------
(* The invariant, and the theorem.                                         *)

\* No Restore is left to be recovered, and the Job of one belongs to the owner.
LEMMA NextKeepsJobs ==
  ASSUME ForceDeletes # "any", Types, WipeInv, OwnershipInv, OwnerCreated, ReleaserDone,
         RestoreOwnerLives, NoRestoreLost, JobsOwned, SuccessSettled, Next
  PROVE  NoRestoreLost' /\ JobsOwned' /\ SuccessSettled'
  <1>0. Restore \subseteq CR /\ Restore \subseteq Exclusive /\ Restore \subseteq Op
        /\ Restore \cap Token = {} /\ None \notin Op
    BY ConstantsAssumption DEF CR, Exclusive, Op
  <1>1. NoRestoreLost'
    <2>1. ASSUME NEW o \in Op, Takes(o) PROVE NoRestoreLost'
      BY <1>0, <2>1 DEF Takes, Claimable, Exists, RestoreOwnerLives, NoRestoreLost
    <2> QED
      BY <2>1, NextRecords, SMTT(20), ZenonT(20) DEF RecordsKept, Recovers, Releases, NoRestoreLost
  <1>2. JobsOwned'
    <2> SUFFICES ASSUME NEW r \in Restore, job'[r] # "none"
                 PROVE  gs'.owner = r \/ Done(r)'
      BY DEF JobsOwned
    <2>0. job'[r] # "none"
      OBVIOUS
    <2>1. gs.owner = r \/ Done(r)
      <3>1. CASE job[r] # "none"
        BY <3>1 DEF JobsOwned
      <3>2. CASE job[r] = "none"
        <4>1. pc[r] = "launch"
          BY <1>0, <2>0, <3>2, NextJobs DEF JobMoves
        <4> QED
          BY <4>1 DEF OwnershipInv, LauncherOwns
      <3> QED
        BY <3>1, <3>2
    <2>2. Done(r) => Done(r)'
      BY <1>0, NextAges DEF Ages
    <2>3. gs.owner = r /\ gs'.owner # r => Done(r)
      BY <1>0, OwnerMoves
    <2> QED
      BY <2>1, <2>2, <2>3
  <1>3. SuccessSettled'
    <2> SUFFICES ASSUME NEW r \in Restore, phase'[r] = "Succeeded"
                 PROVE  job'[r] \in {"none", "succeeded"} /\ pc'[r] # "launch"
      BY DEF SuccessSettled
    <2>1. CASE phase[r] = "Succeeded"
      <3>1. job[r] \in {"none", "succeeded"} /\ pc[r] # "launch"
        BY <2>1 DEF SuccessSettled
      <3>2. job'[r] \in {"none", "succeeded"}
        BY <1>0, <3>1, NextJobs DEF JobMoves
      <3>3. ~AuthorizeRestore(r)
        BY <2>1, SMTT(20), ZenonT(20) DEF AuthorizeRestore, Launching
      <3> QED
        BY <3>1, <3>2, <3>3, NextLaunches
    <2>2. CASE SucceedRestore(r)
      BY <2>2 DEF SucceedRestore, HoldsTarget, Claiming, Reconciling, KeepShared, jobVars
    <2> QED
      BY <2>1, <2>2, NextOutcomes
  <1> QED
    BY <1>1, <1>2, <1>3

\* Success means whole data.
LEMMA NextKeepsWhole ==
  ASSUME ForceDeletes # "any", Types, WipeInv, OwnershipInv, RestoreOwnerLives, PartialInv, Next
  PROVE  RestoredWhole' /\ ResumesWhole' /\ WipedWhole' /\ OkOwned'
  <1>0. /\ Restore \subseteq CR /\ Restore \subseteq Exclusive /\ Restore \subseteq Op
        /\ Restore \cap Token = {} /\ None \notin Op /\ Token \subseteq Exclusive /\ Token \subseteq Op
        /\ None \notin Token
    BY ConstantsAssumption DEF CR, Exclusive, Op
  <1>1. volume' = "partial" => volume = "partial" \/ Overwrites
    BY NextVolume DEF PartialInv
  <1>2. RestoredWhole'
    <2> SUFFICES ASSUME NEW r \in Restore, gs'.owner = r,
                        job'[r] = "succeeded" \/ phase'[r] = "Succeeded"
                 PROVE  volume' # "partial"
      BY DEF RestoredWhole
    <2>1. CASE gs.owner = r
      <3>1. CASE job[r] = "succeeded" \/ phase[r] = "Succeeded"
        <4>1. volume # "partial" /\ job[r] # "active"
          BY <2>1, <3>1 DEF PartialInv, RestoredWhole, SuccessSettled
        <4> QED
          BY <1>1, <2>1, <4>1 DEF Overwrites
      <3>2. CASE job[r] # "succeeded" /\ job'[r] = "succeeded"
        BY <1>0, <3>2, NextJobs DEF JobMoves
      <3>3. CASE SucceedRestore(r)
        BY <3>1, <3>3 DEF SucceedRestore
      <3> QED
        BY <3>1, <3>2, <3>3, NextOutcomes
    <2>2. CASE gs.owner # r
      <3>1. Takes(r)
        BY <1>0, <2>2, NextRecords, ZenonT(30) DEF RecordsKept, Recovers, Releases, Takes
      <3>2. pc[r] = "idle" /\ ~Done(r) /\ phase'[r] = phase[r]
        BY <1>0, <3>1 DEF Takes, crVars
      <3>3. job[r] = "none"
        BY <2>2, <3>2 DEF PartialInv, JobsOwned
      <3>4. job'[r] # "succeeded" /\ phase'[r] # "Succeeded"
        BY <1>0, <3>2, <3>3, NextJobs, SMTT(20), ZenonT(20) DEF JobMoves, Done
      <3> QED
        BY <3>4, SMTT(20), ZenonT(20)
    <2> QED
      BY <2>1, <2>2
  <1>3. ResumesWhole'
    <2> SUFFICES ASSUME NEW r \in Restore, pc'[r] \in {"unmark.resume", "resume"}, r \in gsFresh'
                 PROVE  volume' # "partial"
      BY DEF ResumesWhole
    <2>1. CASE pc[r] \in {"unmark.resume", "resume"} /\ r \in gsFresh
      <3>1. volume # "partial" /\ gs.owner = r /\ job[r] # "active"
        BY <1>0, <2>1 DEF PartialInv, ResumesWhole, WipeInv, FreshOwns, OwnershipInv, ReleaserDrained,
             Releasing, WorkersLive, JobLive
      <3> QED
        BY <1>1, <3>1 DEF Overwrites
    <2>2. CASE ReleaseRestoreFence(r) /\ Success(r)
      <3>1. volume # "partial"
        BY <2>2 DEF ReleaseRestoreFence, Releasable, Success, PartialInv, RestoredWhole
      <3> QED
        BY <2>2, <3>1, SMTT(20), ZenonT(20) DEF ReleaseRestoreFence
    <2> QED
      BY <2>1, <2>2, NextLaunches
  <1>4. OkOwned'
    <2>1. CASE RecordWipeSuccess
      <3>1. gs'.owner = gs.owner /\ gs'.wipeOk = WipeGuard
        BY <2>1 DEF RecordWipeSuccess, UpdateGs, Types, GsOK, GameServer
      <3> QED
        BY <2>1, <3>1 DEF RecordWipeSuccess, WipeReady, WipeGuard, OkOwned
    <2>2. CASE ReleaseWipeGuard
      <3>1. gs.owner \in Token
        BY <2>2 DEF ReleaseWipeGuard, WipeInv, WipeReleaserDrained
      <3>2. gs'.wipeOk = IF gs.wipeOk = gs.owner THEN None ELSE gs.wipeOk
        BY <2>2, <3>1, SMTT(20), ZenonT(20) DEF ReleaseWipeGuard, WipeReleased, Recorded, WipeGuard, UpdateGs, Types, GsOK,
             GameServer
      <3> QED
        BY <3>2 DEF PartialInv, OkOwned
    <2>3. CASE gs'.wipeOk = gs.wipeOk /\ ~ReleaseWipeGuard
      <3> SUFFICES ASSUME gs.wipeOk # None
                   PROVE  gs'.owner = gs.wipeOk
        BY <2>3 DEF OkOwned
      <3>1. gs.owner = gs.wipeOk /\ gs.wipeOk \in Token
        BY SMTT(20), ZenonT(20) DEF PartialInv, OkOwned, Types, GsOK, GameServer
      <3> QED
        BY <1>0, <2>3, <3>1, OwnerLeaves
    <2> QED
      BY <2>1, <2>2, <2>3, NextIntent
  <1>5. WipedWhole'
    <2> SUFFICES ASSUME NEW t \in Token, gs'.owner = t, job'[t] = "succeeded" \/ gs'.wipeOk = t
                 PROVE  volume' # "partial"
      BY DEF WipedWhole
    <2>1. CASE job[t] = "succeeded" \/ gs.wipeOk = t
      <3>1. gs.owner = t
        BY <1>0, <2>1 DEF WipeInv, WipeWorkOwned, HasWork, PartialInv, OkOwned
      <3>2. volume # "partial" /\ ~Overwrites
        BY <1>0, <2>1, <3>1, SMTT(20), ZenonT(20) DEF PartialInv, WipedWhole, Overwrites
      <3> QED
        BY <1>1, <3>2, SMTT(20), ZenonT(20)
    <2>2. CASE job[t] # "succeeded" /\ job'[t] = "succeeded"
      BY <1>0, <2>2, NextJobs, SMTT(20), ZenonT(20) DEF JobMoves
    <2>3. CASE RecordWipeSuccess
      <3>1. gs'.owner = gs.owner
        BY <2>3 DEF RecordWipeSuccess, UpdateGs, Types, GsOK, GameServer
      <3>2. job[t] = "succeeded"
        BY <2>3, <3>1 DEF RecordWipeSuccess, WipeReady, CanRecord, WipeGuard
      <3> QED
        BY <2>1, <3>2
    <2>4. CASE ReleaseWipeGuard /\ gs'.wipeOk = t
      <3>1. gs.owner \in Token
        BY <2>4 DEF ReleaseWipeGuard, WipeInv, WipeReleaserDrained
      <3>2. gs'.wipeOk \in {None, gs.wipeOk}
        BY <2>4, <3>1, SMTT(20), ZenonT(20) DEF ReleaseWipeGuard, WipeReleased, UpdateGs, Types, GsOK, GameServer
      <3> QED
        BY <1>0, <2>1, <2>4, <3>2, SMTT(20), ZenonT(20)
    <2> QED
      BY <2>1, <2>2, <2>3, <2>4, NextIntent, SMTT(20), ZenonT(20)
  <1> QED
    BY <1>2, <1>3, <1>4, <1>5

\* Partly restored data stays with a Restore or with a suspended server.
LEMMA NextKeepsPartial ==
  ASSUME Types, WipeInv, OwnershipInv, RestoreOwnerLives, PartialInv, Next
  PROVE  PartialHeld'
  <1>0. /\ Restore \subseteq CR /\ Restore \subseteq Exclusive /\ Restore \cap Token = {}
    BY ConstantsAssumption DEF CR, Exclusive, Op
  <1> SUFFICES ASSUME volume' = "partial"
               PROVE  gs'.suspend \/ ({gs'.owner} \cup gs'.recovery) \cap Restore # {}
    BY DEF PartialHeld
  <1>1. CASE Overwrites /\ JobController
    <2>1. gs' = gs /\ gs.owner \in Restore
      BY <1>1 DEF JobController, gsVars, Overwrites
    <2> QED
      BY <2>1, SMTT(20), ZenonT(20)
  <1>2. CASE volume = "partial" /\ gs.owner \in Restore
    <2>1. CASE gs'.owner = gs.owner
      BY <1>2, <2>1
    <2>2. CASE gs'.owner # gs.owner
      <3>1. CommitRestore(gs.owner)
        BY <1>0, <1>2, <2>2, OwnerLeaves
      <3>2. pc[gs.owner] = "keep"
        BY <1>2, <3>1 DEF CommitRestore, PartialInv, ResumesWhole
      <3>3. gs'.suspend = (pc[gs.owner] = "keep")
        BY <3>1 DEF CommitRestore, UpdateGs, Types, GsOK, GameServer
      <3> QED
        BY <3>2, <3>3, Zenon
    <2> QED
      BY <2>1, <2>2
  <1>3. CASE volume = "partial" /\ gs.owner \notin Restore
    <2>1. gs.suspend
      BY <1>3 DEF PartialInv, PartialHeld, NoRestoreLost
    <2>2. ~(Power /\ Resume)
      BY <1>3 DEF Resume, PartialInv, NoRestoreLost
    <2>3. \A r \in Restore : ~CommitRestore(r)
      BY <1>0, <1>3 DEF CommitRestore, WipeInv, FreshOwns
    <2>4. ~(ReleaseWipeGuard /\ Recorded)
      <3> SUFFICES ASSUME ReleaseWipeGuard, Recorded PROVE FALSE
        OBVIOUS
      <3>1. gs.owner \in Token /\ gs.wipeOk = gs.owner
        BY DEF ReleaseWipeGuard, WipeInv, WipeReleaserDrained, Recorded, WipeGuard
      <3> QED
        BY <1>3, <3>1 DEF PartialInv, WipedWhole
    <2> QED
      BY <2>1, <2>2, <2>3, <2>4, NextIntent, SMTT(20), ZenonT(20)
  <1>4. volume = "partial" \/ (Overwrites /\ JobController)
    BY NextVolume DEF PartialInv
  <1> QED
    BY <1>1, <1>2, <1>3, <1>4

\* Partly restored data never leaves the hands of a Restore without the server being
\* suspended, as cleanupRestore means it to: the outcome it commits was decided on the
\* copy of the GameServer the commit checks, and a wipe that starts the server again
\* has emptied the volume.  Finalizers are not stripped: the operation that takes over
\* from a Restore suspends the server, but a user may start it before the recovery ends.
THEOREM PartialStaysHeld ==
  ASSUME ForceDeletes = "never"
  PROVE  Spec => []PartialHeld
  <1> DEFINE Inv == /\ WipeInv /\ OwnershipInv /\ OwnerCreated /\ ReleaserDone /\ OwnerFinalized
                    /\ StopInv /\ PartialInv
  <1>1. ASSUME Init PROVE Inv
    <2>1. /\ gs.owner = None /\ gs.recovery = {} /\ gs.wipeOk = None /\ at = "start"
          /\ volume = "whole"
          /\ \A c \in CR : pc[c] = "idle" /\ phase[c] = "uncreated"
          /\ \A o \in Op : job[o] = "none"
      BY <1>1, ZenonT(30) DEF Init, ObjectsInit, WorkloadInit
    <2>2. None \notin CR /\ Restore \subseteq CR /\ Restore \subseteq Op
      BY ConstantsAssumption DEF Op, CR
    <2>3. PartialInv
      BY <2>1, <2>2 DEF PartialInv, NoRestoreLost, JobsOwned, SuccessSettled, RestoredWhole,
         ResumesWhole, WipedWhole, OkOwned, PartialHeld
    <2> QED
      BY <1>1, <2>1, <2>2, <2>3, InitialWipe, InitialOwnership, ZenonT(30) DEF OwnerCreated, ReleaserDone,
         Releasing, OwnerFinalized, StopInv, RestoreOwnerLives, StopRecorded, StopDrained
  <1>2. ASSUME TypeOK, Inv, [Next]_vars PROVE Inv'
    <2>1. Types
      BY <1>2, TypeGroups
    <2>2. WipeInv' /\ OwnershipInv'
      BY <1>2, NextKeepsWipe, NextKeepsOwnership
    <2>3. CASE Next
      <3>1. OwnerCreated' /\ ReleaserDone' /\ OwnerFinalized' /\ StopInv'
        BY <1>2, <2>1, <2>3, NextKeepsOwners, NextKeepsFinalized, NextKeepsStop, SMTT(20), ZenonT(20)
      <3>2. PartialInv'
        BY <1>2, <2>1, <2>3, NextKeepsJobs, NextKeepsWhole, NextKeepsPartial
           DEF StopInv, PartialInv
      <3> QED
        BY <2>2, <3>1, <3>2
    <2>4. CASE UNCHANGED vars
      <3>1. UNCHANGED <<gs, gsFresh, ss, seen, game, phase, deleting, bound, pc, at, job, volume>>
        BY <2>4, SMTT(20), ZenonT(20) DEF vars, objectVars, gsVars, ssVars, podVars, jobVars, crVars, passVars
      <3>2. OwnerCreated' /\ ReleaserDone' /\ OwnerFinalized' /\ StopInv'
        BY <1>2, <3>1, SMTT(20), ZenonT(20) DEF OwnerCreated, ReleaserDone, OwnerFinalized, Exists, Done,
           StopInv, RestoreOwnerLives, StopRecorded, StopDrained, Drained
      <3>3. PartialInv'
        BY <1>2, <3>1, ZenonT(30) DEF PartialInv, NoRestoreLost, JobsOwned, SuccessSettled, RestoredWhole,
           ResumesWhole, WipedWhole, OkOwned, PartialHeld, Done
      <3> QED
        BY <2>2, <3>2, <3>3, SMTT(20), ZenonT(20)
    <2> QED
      BY <1>2, <2>3, <2>4
  <1>3. Inv => PartialHeld
    BY DEF PartialInv
  <1> QED
    BY <1>1, <1>2, <1>3, TypeCorrect, PTL DEF Spec
=============================================================================
