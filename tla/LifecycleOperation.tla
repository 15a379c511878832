------------------------ MODULE LifecycleOperation ------------------------
(***************************************************************************)
(* Shared ownership of a GameServer, lifecycle_operation.go: at most one   *)
(* operation owns the server, the owner of a vanished operation is taken   *)
(* over together with a record of what is still to be cleaned up, and no   *)
(* new work is authorised until that recovery is done.                     *)
(***************************************************************************)
EXTENDS GameServerObjects

\* The reconcile of a Backup or Restore: the phase it has recorded, and the call
\* it has reached.  Reconciles of one object are serialized.
Terminal(c) == phase[c] \in {"Succeeded", "Failed"}
SetPhase(c, p) == phase' = [phase EXCEPT ![c] = p]
Step(c, to) == pc' = [pc EXCEPT ![c] = to]

KeepShared == UNCHANGED <<gsVars, ssVars, podVars, jobVars, volume, userVars>>

-----------------------------------------------------------------------------
(* claimLifecycleOperation.                                                *)

\* Variant: only a restart counts as a transition, a stop command does not.
TransitionPendingRestart == gs.restart

\* A stop command may have been sent, or a restart is on its way.
TransitionPending ==
    gs.restart \/ (gs.stopAt /\ ~(Drained /\ \A o \in Op : pods[o] = 0))

\* Admission to a server nobody owns.  A wipe goes first: every other kind
\* waits for a pending request and for wipe workers that are still live.  A copy
\* also waits for a stop in progress, and everyone for the copies of Backups.
Free(o) ==
    /\ o \notin Token => ~PendingWipe /\ ~WipeBusy
    /\ o \in Backup => ~TransitionPending
    /\ \A b \in Backup \ {o} : Exists(b) => ~WorkersLive(b)

\* What claimLifecycleOperation accepts: a free server, the claimant's own
\* ownership again, or an owner whose object no longer exists.
Claimable(o) ==
    \/ gs.owner = None /\ Free(o)
    \/ gs.owner = o
    \/ gs.owner \notin {None, o} /\ ~Exists(gs.owner)

\* The one checked Update of a claim.
Claimed(o) ==
    LET taken == {gs.owner} \ {None, o}
    IN  [gs EXCEPT !.owner = o,
                   !.recovery = @ \cup taken,
                   !.suspend = \/ @
                               \/ taken \cap Restore # {}
                               \/ o \in Restore
                               \/ o \in Token /\ PendingWipe]

Claim(o, keep) ==
    /\ Claimable(o)
    /\ Claimed(o) # gs
    /\ UpdateGs(Claimed(o), keep)
    /\ UNCHANGED <<down, ssVars, podVars, jobVars, crVars, volume, userVars>>

OwnerValue == [owner |-> gs.owner, recovery |-> gs.recovery, debt |-> gs.debt]

-----------------------------------------------------------------------------
(* Cancelling the workers of an operation: the start token of a Backup is  *)
(* revoked first, then the Job is deleted in the foreground.               *)

RevokeStart(b) ==
    /\ copy[b].gate = "token"
    /\ copy' = [copy EXCEPT ![b].gate = "revoked"]
    /\ UNCHANGED <<gsVars, ssVars, podVars, jobVars, phase, deleting, bound, pc, volume, userVars>>

DeleteJob(o) ==
    /\ job[o] = "active"
    /\ o \in Backup => copy[o].gate # "token"
    /\ job' = [job EXCEPT ![o] = "deleting"]
    /\ UNCHANGED <<gsVars, ssVars, podVars, pods, crVars, volume, userVars>>

CancelWorkers(o) == DeleteJob(o) \/ (o \in Backup /\ RevokeStart(o))

-----------------------------------------------------------------------------
(* recoverLifecycleOperation, run by the reconcile of the current owner.   *)

NeedsStop == gs.recovery \cap Restore # {}

\* Variant: only the Jobs of the predecessors are awaited, not their pods.
RecoveryDrainedJobs == \A p \in gs.recovery : ~JobLive(p)

RecoveryDrained == \A p \in gs.recovery : ~WorkersLive(p)

\* Variant: the stamp is the owner, whatever its kind.
StampOwner ==
    /\ TargetStopped /\ ss.restore # gs.owner
    /\ UpdateSs([ss EXCEPT !.restore = gs.owner])
    /\ UNCHANGED <<gsVars, podVars, jobVars, crVars, volume, userVars>>

\* restoreTargetStopped: a stopped workload is stamped with the guard of the
\* live owner first, by a checked write that a stale workload update loses to.
StampRestoreGuard ==
    /\ TargetStopped /\ ss.restore # RestoreGuard
    /\ UpdateSs([ss EXCEPT !.restore = RestoreGuard])
    /\ UNCHANGED <<gsVars, podVars, jobVars, crVars, volume, userVars>>

\* Variant: a stopped workload is enough, fenced or not.
RestoreTargetUnfenced == TargetStopped

RestoreTargetStopped == TargetStopped /\ ss.restore = RestoreGuard

StampForRecovery ==
    /\ NeedsStop /\ RecoveryDrained
    /\ StampRestoreGuard

RecoveryStopped == RecoveryDrained /\ (NeedsStop => RestoreTargetStopped)

\* The save-on call names the pod that was told to stop saving: in any other pod
\* it changes nothing.
SaveOn(b) ==
    /\ process.quiesced /\ b \in same
    /\ process' = [process EXCEPT !.quiesced = FALSE]
    /\ UNCHANGED <<gsVars, ssVars, seen, game, same, jobVars, crVars, volume, userVars>>

Saving(b) == ~process.quiesced \/ b \notin same

\* Variant: the recovery ends without waiting for the save-on calls.
FinishRecoveryEarly(keep) ==
    /\ gs.recovery # {} /\ RecoveryStopped
    /\ UpdateGs([gs EXCEPT !.recovery = {}, !.debt = @ \ gs.recovery], keep)
    /\ UNCHANGED <<down, ssVars, podVars, jobVars, crVars, volume, userVars>>

FinishRecovery(keep) ==
    /\ gs.recovery # {} /\ RecoveryStopped
    /\ \A p \in gs.recovery \cap gs.debt : Saving(p)
    /\ UpdateGs([gs EXCEPT !.recovery = {}, !.debt = @ \ gs.recovery], keep)
    /\ UNCHANGED <<down, ssVars, podVars, jobVars, crVars, volume, userVars>>

RecoverLifecycleOperation(keep) ==
    \/ \E p \in gs.recovery : CancelWorkers(p)
    \/ StampForRecovery
    \/ RecoveryStopped /\ \E p \in gs.recovery \cap gs.debt : SaveOn(p)
    \/ FinishRecovery(keep)

-----------------------------------------------------------------------------
(* clearLifecycleOperation: the workload's copy of the owner goes first,   *)
(* while the GameServer still holds it; the caller commits the Update of   *)
(* the GameServer.                                                         *)

ClearFence(s) == IF s.op = OwnerValue THEN [s EXCEPT !.op = NoFence] ELSE s
=============================================================================
