-------------------------- MODULE BackupController --------------------------
(***************************************************************************)
(* Restic Backups, backup_controller.go, backup_guard.go, backup_worker.go *)
(* backup_preparation.go and backup_budgets.go: claim and fence the        *)
(* server, pin the pod that is copied, start a worker that only prepares,  *)
(* disable saving, authorize the worker with a token in a ConfigMap, and   *)
(* after the copy re-enable saving and release the server.  A deadline may *)
(* end any stage: time is not modelled, so that FailBackup is always       *)
(* possible.                                                               *)
(***************************************************************************)
EXTENDS LifecycleOperation

Active(b) == phase[b] \in {"Pending", "Running"}
Working(b) == pc[b] = "idle" /\ Active(b) /\ b \notin deleting

SetCopy(b, c) == copy' = [copy EXCEPT ![b] = c]

AddFinalizer(b) ==
    /\ Working(b) /\ b \notin bound
    /\ bound' = bound \cup {b}
    /\ UNCHANGED <<phase, deleting, pc, copy>> /\ KeepShared

\* Pins the target, then claims it.
ClaimBackupTarget(b) ==
    /\ Working(b) /\ b \in bound
    /\ Claim(b, {})

Owns(b) == gs.owner = b /\ gs.recovery = {}

\* The preparation budget starts with the ownership, not with the queueing.
AdmitBackup(b) ==
    /\ Working(b) /\ phase[b] = "Pending" /\ Owns(b)
    /\ SetPhase(b, "Running")
    /\ UNCHANGED <<deleting, bound, pc, copy>> /\ KeepShared

Admitted(b) == Working(b) /\ phase[b] = "Running" /\ Owns(b)

-----------------------------------------------------------------------------
(* prepareBackupWorkload: the fence, and the source of the copy.           *)

FenceBackupWorkload(b) ==
    /\ Admitted(b) /\ ss.exists /\ ss.op # OwnerValue
    /\ UpdateSs([ss EXCEPT !.op = OwnerValue])
    /\ UNCHANGED <<gsVars, podVars, jobVars, crVars, volume, userVars>>

FenceObserved(b) == Admitted(b) /\ ss.exists /\ ss.op = OwnerValue /\ seen = ss.replicas

SourceDrained(b) == game = "none" /\ \A o \in Op \ {b} : ~WorkersLive(o)

\* A protected copy reads a running pod or a proven stopped one, any other copy
\* the pod there is or none.
PinSource(b) ==
    /\ FenceObserved(b) /\ copy[b].source = "none"
    /\ \/ /\ ss.replicas = 0 /\ game = "none"
          /\ b \in Raw \/ SourceDrained(b)
          /\ copy' = [copy EXCEPT ![b].source = "stopped"]
          /\ UNCHANGED same
       \/ /\ game = "up"
          /\ b \in Raw \/ ss.replicas = 1
          /\ copy' = [copy EXCEPT ![b].source = "live"]
          /\ same' = same \cup {b}
    /\ UNCHANGED <<gsVars, ssVars, seen, game, process, jobVars, phase, deleting, bound,
                   pc, volume, userVars>>

\* Variant: any running pod will do.
SourceRunning(b) ==
    \/ copy[b].source = "stopped" /\ game = "none"
    \/ copy[b].source = "live" /\ game = "up"

\* The checks repeated by every later reconcile of the copy.
SourceUnchanged(b) ==
    \/ /\ copy[b].source = "stopped" /\ game = "none"
       /\ b \in Raw \/ (ss.replicas = 0 /\ SourceDrained(b))
    \/ /\ copy[b].source = "live" /\ game = "up" /\ b \in same
       /\ b \in Raw \/ ss.replicas = 1

Prepared(b) == FenceObserved(b) /\ SourceUnchanged(b)

\* The worker starts without permission to copy.
CreateBackupJob(b) ==
    /\ Prepared(b) /\ job[b] = "none"
    /\ job' = [job EXCEPT ![b] = "active"]
    /\ UNCHANGED <<gsVars, ssVars, podVars, pods, crVars, volume, userVars>>

WorkerPrepared(b) == job[b] = "active" /\ pods[b] > 0 /\ copy[b].worker # "preparing"

-----------------------------------------------------------------------------
(* maybeQuiesce.                                                           *)

MustQuiesce(b) == b \notin Raw /\ copy[b].source = "live"
Quiescing(b) == Prepared(b) /\ WorkerPrepared(b) /\ MustQuiesce(b)
                /\ copy[b].attempt \in {"none", "pending"}

\* The cleanup debt is durable on the GameServer before the call.
RecordIntent(b) ==
    /\ Quiescing(b) /\ b \notin gs.debt
    /\ UpdateGs([gs EXCEPT !.debt = @ \cup {b}], {})
    /\ UNCHANGED <<down, ssVars, podVars, jobVars, crVars, volume, userVars>>

\* Variant: the call is made before the debt is durable.
AttemptQuiesceAtOnce(b) ==
    /\ Admitted(b) /\ SourceUnchanged(b) /\ WorkerPrepared(b) /\ MustQuiesce(b)
    /\ copy[b].attempt \in {"none", "pending"}
    /\ copy' = [copy EXCEPT ![b].attempt = "pending"]
    /\ Step(b, "quiesce")
    /\ UNCHANGED <<phase, deleting, bound>> /\ KeepShared

AttemptQuiesce(b) ==
    /\ Admitted(b) /\ SourceUnchanged(b) /\ WorkerPrepared(b) /\ MustQuiesce(b)
    /\ copy[b].attempt \in {"none", "pending"} /\ b \in gs.debt
    /\ copy' = [copy EXCEPT ![b].attempt = "pending"]
    /\ Step(b, "quiesce")
    /\ UNCHANGED <<phase, deleting, bound>> /\ KeepShared

\* The save-off call.  It may take effect and still be reported as failed, or its
\* success may not be recorded.
CallQuiesce(b) ==
    /\ pc[b] = "quiesce" /\ Step(b, "idle")
    /\ \E effect \in IF b \in same THEN BOOLEAN ELSE {FALSE} :
          /\ process' = [process EXCEPT !.quiesced = @ \/ effect]
          /\ \/ effect /\ UNCHANGED <<phase, copy>>
             \/ effect /\ SetCopy(b, [copy[b] EXCEPT !.attempt = "done"]) /\ UNCHANGED phase
             \/ phase[b] = "Running" /\ SetPhase(b, "Failed") /\ UNCHANGED copy
    /\ UNCHANGED <<gsVars, ssVars, seen, game, same, jobVars, deleting, bound, volume, userVars>>

\* The game cannot be quiesced, and so never was: the copy goes on without it, and
\* owes nothing.
QuiesceUnsupported(b) ==
    /\ pc[b] = "quiesce" /\ Step(b, "idle")
    /\ ~process.quiesced
    /\ IF gs.owner = b /\ b \in gs.debt
       THEN UpdateGs([gs EXCEPT !.debt = @ \ {b}], {})
       ELSE UNCHANGED <<gs, gsFresh>>
    /\ \E result \in {"pending", "unsupported"} :
          SetCopy(b, [copy[b] EXCEPT !.attempt = result])
    /\ UNCHANGED <<down, ssVars, podVars, jobVars, phase, deleting, bound, volume, userVars>>

Settled(b) == MustQuiesce(b) => copy[b].attempt \in {"done", "unsupported"}

-----------------------------------------------------------------------------
(* The start token, and the end of the copy.                               *)

\* The fence was checked before the quiesce call changed the owner's record.
AuthorizeStart(b) ==
    /\ Admitted(b) /\ ss.op.owner = b /\ SourceUnchanged(b)
    /\ WorkerPrepared(b) /\ Settled(b) /\ copy[b].gate # "token"
    /\ copy' = [copy EXCEPT ![b].gate = "token"]
    /\ UNCHANGED <<phase, deleting, bound, pc>> /\ KeepShared

\* A reconcile that cannot confirm the authorization withdraws it.
WithdrawStart(b) ==
    /\ Working(b) /\ phase[b] = "Running"
    /\ RevokeStart(b)

CompleteBackup(b) ==
    /\ Prepared(b) /\ job[b] = "succeeded"
    /\ SetPhase(b, "Succeeded")
    /\ UNCHANGED <<deleting, bound, pc, copy>> /\ KeepShared

\* A deadline, a changed source, a failed Job, a missing Secret, a deletion.
FailBackup(b) ==
    /\ pc[b] = "idle" /\ Active(b)
    /\ b \in deleting => phase[b] = "Running"
    /\ SetPhase(b, "Failed")
    /\ UNCHANGED <<deleting, bound, pc, copy>> /\ KeepShared

-----------------------------------------------------------------------------
(* cleanupResticCopy, runUnquiesce and finalizeDelete.                     *)

\* Variant: a Backup deleted before it was admitted is forgotten.
FinishedTerminal(b) == pc[b] = "idle" /\ b \in bound /\ Terminal(b)

Finished(b) == pc[b] = "idle" /\ b \in bound
               /\ (Terminal(b) \/ (b \in deleting /\ phase[b] = "Pending"))

CancelBackupJob(b) ==
    /\ Finished(b) /\ (phase[b] = "Failed" \/ b \in deleting)
    /\ CancelWorkers(b)

RecoverBackup(b) ==
    /\ gs.owner = b
    /\ Finished(b) \/ (Working(b) /\ b \in bound)
    /\ RecoverLifecycleOperation({})

Idle(b) == Finished(b) /\ ~WorkersLive(b) /\ (gs.owner = b => gs.recovery = {})

\* Saving is disabled, or may be, and this Backup is the one to enable it.
Owes(b) == gs.owner = b /\ copy[b].attempt \in {"pending", "done"}

RestoreSaving(b) == Idle(b) /\ Owes(b) /\ SaveOn(b)

\* Variant: the outcome is recorded even if the call failed.
RecordUnquiescedAnyway(b) ==
    /\ Idle(b) /\ Owes(b)
    /\ IF b \in gs.debt THEN UpdateGs([gs EXCEPT !.debt = @ \ {b}], {}) ELSE UNCHANGED <<gs, gsFresh>>
    /\ \E result \in {copy[b].attempt, "undone"} : SetCopy(b, [copy[b] EXCEPT !.attempt = result])
    /\ UNCHANGED <<down, ssVars, podVars, jobVars, phase, deleting, bound, pc, volume, userVars>>

\* The debt goes from the GameServer first, then the Backup records the outcome.
RecordUnquiesced(b) ==
    /\ Idle(b) /\ Owes(b) /\ Saving(b)
    /\ IF b \in gs.debt THEN UpdateGs([gs EXCEPT !.debt = @ \ {b}], {}) ELSE UNCHANGED <<gs, gsFresh>>
    /\ \E result \in {copy[b].attempt, "undone"} : SetCopy(b, [copy[b] EXCEPT !.attempt = result])
    /\ UNCHANGED <<down, ssVars, podVars, jobVars, phase, deleting, bound, pc, volume, userVars>>

\* The bounded retry of a deletion: the owner and its debt stay behind.
AbandonSaving(b) ==
    /\ Idle(b) /\ Owes(b) /\ b \in deleting /\ phase[b] = "Succeeded"
    /\ SetPhase(b, "gone") /\ deleting' = deleting \ {b} /\ bound' = bound \ {b}
    /\ UNCHANGED <<pc, copy>> /\ KeepShared

\* Variant: a failed Backup keeps the server.
ReleaseAfterSuccess(b) ==
    /\ Idle(b) /\ gs.owner = b /\ ~Owes(b) /\ phase[b] = "Succeeded"
    /\ IF ss # ClearFence(ss) THEN UpdateSs(ClearFence(ss)) ELSE UNCHANGED ssVars
    /\ gsFresh' = gsFresh \cup {b}
    /\ Step(b, "release")
    /\ UNCHANGED <<gs, down, podVars, jobVars, phase, deleting, bound, copy, volume, userVars>>

ReleaseBackupFence(b) ==
    /\ Idle(b) /\ gs.owner = b /\ ~Owes(b)
    /\ IF ss # ClearFence(ss) THEN UpdateSs(ClearFence(ss)) ELSE UNCHANGED ssVars
    /\ gsFresh' = gsFresh \cup {b}
    /\ Step(b, "release")
    /\ UNCHANGED <<gs, down, podVars, jobVars, phase, deleting, bound, copy, volume, userVars>>

ReleaseBackupTarget(b) ==
    /\ pc[b] = "release" /\ b \in gsFresh
    /\ UpdateGs([gs EXCEPT !.owner = None, !.debt = @ \ {b}], {})
    /\ Step(b, "idle")
    /\ UNCHANGED <<down, ssVars, podVars, jobVars, phase, deleting, bound, copy, volume, userVars>>

DropBackup(b) ==
    /\ Idle(b) /\ b \in deleting /\ gs.owner # b
    /\ SetPhase(b, "gone") /\ deleting' = deleting \ {b} /\ bound' = bound \ {b}
    /\ UNCHANGED <<pc, copy>> /\ KeepShared

\* A checked write is refused, a call fails, or the operator crashes.
BackupAborts(b) ==
    /\ pc[b] # "idle" /\ Step(b, "idle")
    /\ gsFresh' = gsFresh \ {b}
    /\ UNCHANGED <<gs, down, ssVars, podVars, jobVars, phase, deleting, bound, copy, volume, userVars>>

BackupWork(b) ==
    \/ AddFinalizer(b) \/ ClaimBackupTarget(b) \/ AdmitBackup(b)
    \/ FenceBackupWorkload(b) \/ PinSource(b) \/ CreateBackupJob(b)
    \/ RecordIntent(b) \/ AttemptQuiesce(b) \/ CallQuiesce(b)
    \/ AuthorizeStart(b) \/ CompleteBackup(b)

BackupCleanup(b) ==
    \/ CancelBackupJob(b) \/ RecoverBackup(b) \/ RestoreSaving(b)
    \/ RecordUnquiesced(b) \/ ReleaseBackupFence(b) \/ ReleaseBackupTarget(b)
    \/ DropBackup(b)

BackupFaults(b) ==
    \/ QuiesceUnsupported(b) \/ WithdrawStart(b) \/ FailBackup(b)
    \/ AbandonSaving(b) \/ BackupAborts(b)

BackingUp == \E b \in Backup : BackupWork(b) \/ BackupCleanup(b) \/ BackupFaults(b)
=============================================================================
