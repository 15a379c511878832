------------------------- MODULE RestoreController -------------------------
(***************************************************************************)
(* Restores into an existing server, restore_controller.go and             *)
(* restore_lifecycle.go: pin the snapshot, bind and claim the target, wait *)
(* for it to stop, run the restic Job, and release the target from         *)
(* cleanupRestore, which also handles failure, deletion and interruption.  *)
(* Reconciles of one Restore are serialized: pc is not idle between the    *)
(* checks and the Create of the Job, and between the writes of a release.  *)
(***************************************************************************)
EXTENDS LifecycleOperation

Reconciling(r) == pc[r] = "idle" /\ Exists(r) /\ r \notin deleting /\ ~Terminal(r)

\* The source Backup has succeeded: pin its snapshot.
PinSnapshot(r) ==
    /\ Reconciling(r) /\ phase[r] = "Pending"
    /\ SetPhase(r, "Suspending")
    /\ UNCHANGED <<deleting, bound, pc, copy>> /\ KeepShared

\* The source Backup failed or disappeared, or the spec changed after admission.
GiveUp(r) ==
    /\ Reconciling(r)
    /\ SetPhase(r, "Failed")
    /\ UNCHANGED <<deleting, bound, pc, copy>> /\ KeepShared

BindRestoreTarget(r) ==
    /\ Reconciling(r) /\ phase[r] # "Pending" /\ r \notin bound
    /\ bound' = bound \cup {r}
    /\ UNCHANGED <<phase, deleting, pc, copy>> /\ KeepShared

Claiming(r) == Reconciling(r) /\ phase[r] # "Pending" /\ r \in bound

\* Variant: a Restore that owns the server waits for the wipe that waits for it.
WaitsForAnyWipe == WipeGuard # None \/ WipeBusy \/ PendingWipe

\* A wipe that owns the server, still has workers or is requested goes first.
WaitsForWipe == WipeGuard # None \/ WipeBusy \/ (RestoreGuard = None /\ PendingWipe)

ClaimRestoreTarget(r) ==
    /\ Claiming(r) /\ ~WaitsForWipe
    /\ Claim(r, {})

\* claimRestoreTarget returned true in this reconcile.
HoldsTarget(r) == Claiming(r) /\ ~WaitsForWipe /\ gs.owner = r /\ gs.recovery = {} /\ gs.suspend

Suspended(r) == HoldsTarget(r) /\ phase[r] = "Suspending" /\ down
Launching(r) == HoldsTarget(r) /\ phase[r] = "Running" /\ job[r] = "none"

FenceForRestore(r) ==
    /\ Suspended(r) \/ Launching(r)
    /\ StampRestoreGuard

StartRestore(r) ==
    /\ Suspended(r) /\ RestoreTargetStopped
    /\ SetPhase(r, "Running")
    /\ UNCHANGED <<deleting, bound, pc, copy>> /\ KeepShared

AuthorizeRestore(r) ==
    /\ Launching(r) /\ RestoreTargetStopped
    /\ Step(r, "launch")
    /\ UNCHANGED <<phase, deleting, bound, copy>> /\ KeepShared

CreateRestoreJob(r) ==
    /\ pc[r] = "launch"
    /\ Step(r, "idle")
    /\ job' = [job EXCEPT ![r] = "active"]
    /\ UNCHANGED <<gsVars, ssVars, podVars, pods, phase, deleting, bound, copy, volume, userVars>>

SucceedRestore(r) ==
    /\ HoldsTarget(r) /\ phase[r] = "Running"
    /\ job[r] = "succeeded" /\ pods[r] = 0
    /\ SetPhase(r, "Succeeded")
    /\ UNCHANGED <<deleting, bound, pc, copy>> /\ KeepShared

FailRestore(r) ==
    /\ HoldsTarget(r) /\ phase[r] = "Running" /\ job[r] = "failed"
    /\ SetPhase(r, "Failed")
    /\ UNCHANGED <<deleting, bound, pc, copy>> /\ KeepShared

-----------------------------------------------------------------------------
(* cleanupRestore.                                                         *)

\* Variant: only deletion cleans up.
CleaningDeleted(r) == pc[r] = "idle" /\ Exists(r) /\ r \in bound /\ r \in deleting

Cleaning(r) == pc[r] = "idle" /\ Exists(r) /\ r \in bound /\ (r \in deleting \/ Terminal(r))
Success(r) == r \notin deleting /\ phase[r] = "Succeeded"

CancelRestoreJob(r) ==
    /\ Cleaning(r) /\ ~Success(r)
    /\ DeleteJob(r)

Quiet(r) == Cleaning(r) /\ ~WorkersLive(r)

\* A failed or cancelled Restore suspends the target again before anything else.
ResuspendTarget(r) ==
    /\ Quiet(r) /\ gs.owner = r /\ ~Success(r) /\ ~gs.suspend
    /\ UpdateGs([gs EXCEPT !.suspend = TRUE], {})
    /\ UNCHANGED <<down, ssVars, podVars, jobVars, crVars, volume, userVars>>

RecoverRestore(r) ==
    /\ gs.owner = r
    /\ \/ Claiming(r) /\ ~WaitsForWipe
       \/ Quiet(r) /\ (Success(r) \/ gs.suspend)
    /\ RecoverLifecycleOperation({})

Releasable(r) ==
    /\ Quiet(r) /\ gs.owner = r /\ gs.recovery = {}
    /\ Success(r) \/ gs.suspend

FenceForCleanup(r) ==
    /\ Releasable(r) /\ ~Success(r)
    /\ StampRestoreGuard

\* The fence, then the marker on the workload go; the owner still holds until the
\* checked commit, and the outcome was decided with the first read.
ReleaseRestoreFence(r) ==
    /\ Releasable(r) /\ (Success(r) \/ RestoreTargetStopped)
    /\ IF ss # ClearFence(ss) THEN UpdateSs(ClearFence(ss)) ELSE UNCHANGED ssVars
    /\ gsFresh' = gsFresh \cup {r}
    /\ Step(r, IF Success(r) THEN "unmark.resume" ELSE "unmark.keep")
    /\ UNCHANGED <<gs, down, podVars, jobVars, phase, deleting, bound, copy, volume, userVars>>

ClearRestoreMarker(r) ==
    /\ pc[r] \in {"unmark.resume", "unmark.keep"}
    /\ IF ss.restore = r THEN UpdateSs([ss EXCEPT !.restore = None]) ELSE UNCHANGED ssVars
    /\ Step(r, IF pc[r] = "unmark.resume" THEN "resume" ELSE "keep")
    /\ UNCHANGED <<gsVars, podVars, jobVars, phase, deleting, bound, copy, volume, userVars>>

\* Variant: the release resumes the server whatever the outcome.
CommitRestoreResuming(r) ==
    /\ pc[r] \in {"resume", "keep"} /\ r \in gsFresh
    /\ UpdateGs([gs EXCEPT !.owner = None, !.suspend = FALSE], {})
    /\ Step(r, "idle")
    /\ UNCHANGED <<down, ssVars, podVars, jobVars, phase, deleting, bound, copy, volume, userVars>>

CommitRestore(r) ==
    /\ pc[r] \in {"resume", "keep"} /\ r \in gsFresh
    /\ UpdateGs([gs EXCEPT !.owner = None, !.suspend = (pc[r] = "keep")], {})
    /\ Step(r, "idle")
    /\ UNCHANGED <<down, ssVars, podVars, jobVars, phase, deleting, bound, copy, volume, userVars>>

\* Variant: the finalizer of an unfinished Restore stays.
RemoveFinalizerTerminal(r) ==
    /\ Quiet(r) /\ gs.owner # r /\ Terminal(r)
    /\ bound' = bound \ {r} /\ deleting' = deleting \ {r}
    /\ phase' = IF r \in deleting THEN [phase EXCEPT ![r] = "gone"] ELSE phase
    /\ UNCHANGED <<pc, copy>> /\ KeepShared

RemoveFinalizer(r) ==
    /\ Quiet(r) /\ gs.owner # r
    /\ bound' = bound \ {r} /\ deleting' = deleting \ {r}
    /\ phase' = IF r \in deleting THEN [phase EXCEPT ![r] = "gone"] ELSE phase
    /\ UNCHANGED <<pc, copy>> /\ KeepShared

\* A checked write is refused, a call fails, or the operator crashes.
RestoreAborts(r) ==
    /\ pc[r] # "idle"
    /\ Step(r, "idle") /\ gsFresh' = gsFresh \ {r}
    /\ UNCHANGED <<gs, down, ssVars, podVars, jobVars, phase, deleting, bound, copy, volume, userVars>>

RestoreWork(r) ==
    \/ PinSnapshot(r) \/ BindRestoreTarget(r) \/ ClaimRestoreTarget(r)
    \/ FenceForRestore(r) \/ StartRestore(r) \/ AuthorizeRestore(r)
    \/ CreateRestoreJob(r) \/ SucceedRestore(r) \/ FailRestore(r)

RestoreCleanup(r) ==
    \/ CancelRestoreJob(r) \/ ResuspendTarget(r) \/ RecoverRestore(r)
    \/ FenceForCleanup(r) \/ ReleaseRestoreFence(r) \/ ClearRestoreMarker(r)
    \/ CommitRestore(r) \/ RemoveFinalizer(r)

Restoring ==
    \E r \in Restore : RestoreWork(r) \/ RestoreCleanup(r) \/ GiveUp(r) \/ RestoreAborts(r)
=============================================================================
