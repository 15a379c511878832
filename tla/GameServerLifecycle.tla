------------------------ MODULE GameServerLifecycle ------------------------
(***************************************************************************)
(* The controllers of one GameServer together: the GameServer reconciler   *)
(* with its wipe step, the Backup and Restore reconcilers, Kubernetes and  *)
(* the users.                                                              *)
(***************************************************************************)
EXTENDS GameServerWipe, RestoreController, BackupController

\* History: the Backups whose present copy read data while it could change.
VARIABLE torn

vars == <<objectVars, passVars, torn>>

\* A protected copy of a live server is disturbed by a game that saves, or that
\* was told to stop (it saves on its way out); one of a stopped server by a game;
\* every copy by a restore or wipe.
Disturbed(b) ==
    /\ copy[b].worker = "copying"
    /\ \/ \E o \in Exclusive : pods[o] > 0
       \/ copy[b].attempt = "done" /\ (~process.quiesced \/ process.stopping \/ game # "up")
       \/ b \notin Raw /\ copy[b].source = "stopped" /\ game # "none"

\* The worker of b ended without a snapshot: the next one starts over.
CopyLost(b) ==
    copy[b].worker = "copying" /\ copy'[b].worker # "copying" /\ job'[b] # "succeeded"

Observe == torn' = {b \in Backup : Disturbed(b)' \/ (b \in torn /\ ~CopyLost(b))}

Init == ObjectsInit /\ WorkloadInit /\ torn = {}

Next ==
    /\ \/ Workload \/ Wipe
       \/ /\ Restoring \/ BackingUp \/ StatefulSetController \/ JobController \/ User
          /\ UNCHANGED passVars
    /\ Observe

Spec == Init /\ [][Next]_vars

-----------------------------------------------------------------------------
(* Properties.                                                             *)

\* Every variable has its type: in particular the marker a workload carries for
\* restoreTargetStopped is a Restore's, whoever asks for the stop.
TypeOK == ObjectsTypeOK /\ WorkloadTypeOK /\ torn \subseteq Backup

\* Mutual exclusion on the data PVC: while a pod of a restore or wipe Job is live,
\* terminating ones included, the game pod is gone and no worker of another
\* operation is live (restoreTargetStopped, wipeTargetStopped and the fences that
\* a stale update of the StatefulSet loses to).
ExclusiveWriter ==
    \A o \in Exclusive : pods[o] > 0 =>
        game = "none" /\ \A p \in Op \ {o} : pods[p] = 0

\* A Job or pod that can still touch the data belongs to the owner of the server
\* or to a vanished owner that is still to be recovered: clearLifecycleOperation,
\* releaseWipeGuard and recoverLifecycleOperation drop a record only after its
\* workers, and no Job is created by an operation that lost the server.
WorkersAccounted == \A o \in Op : WorkersLive(o) => o = gs.owner \/ o \in gs.recovery

\* Partly restored data is never started except by a user's own request: "A failed
\* or canceled restore leaves its target suspended for inspection."
PartialNotStarted == game = "up" => volume # "partial"

\* The part of it that cleanupRestore itself decides: once no Restore holds the
\* server any more, partly restored data leaves it suspended.
PartialHeld ==
    volume = "partial" => gs.suspend \/ ({gs.owner} \cup gs.recovery) \cap Restore # {}

\* A wipe that ackWipe acknowledged has no worker and never gets one again, so
\* that the data of the server started next is safe from it.
AckedWipeQuiet == \A t \in Token : t = gs.wipeDone => ~WorkersLive(t)

\* A Backup that is reported Succeeded read data that did not change under it: the
\* game was told to stop saving and neither restarted nor stopped meanwhile, or a
\* stopped source stayed stopped (prepareBackupSource, reconcilePreparedRestic).
CaptureConsistent == \A b \in Backup : phase[b] = "Succeeded" => b \notin torn

\* While saving is disabled in the game, the GameServer names a Backup that has to
\* enable it again, in that very pod (setLifecycleUnquiesceIntent before the call,
\* recordBackupUnquiesced and recoverLifecycleOperation after the save-on).
QuiescedOwed ==
    process.quiesced =>
        \E b \in gs.debt \cap same : b = gs.owner \/ b \in gs.recovery

\* No step changes the replica count of a workload while the Backup that owns the
\* server copies it: power requests stay pending (desiredReplicas and the callback
\* of reconcileStatefulSet, which must agree on a copy that began between them).
FrozenWhileCopying ==
    [][\A b \in Backup : copy[b].worker = "copying" /\ gs.owner = b
          => ss'.replicas = ss.replicas]_vars

\* No stop command goes out while a Backup owns the server: its stamp is a checked
\* write, "so a claim racing that write wins either before the command or after
\* the stop has become visible" (desiredReplicas, claimLifecycleOperation).
StopNeverDuringBackup ==
    [][process'.stopping /\ ~process.stopping => gs.owner \notin Backup]_vars

-----------------------------------------------------------------------------
(* The lease on the server that the operations keep among them.            *)

\* The workers of an operation; a finished Job of a wipe still counts, because
\* deleting it makes it live again.
HasWork(o) == job[o] # "none" \/ pods[o] > 0
Live(o) == IF o \in Token THEN HasWork(o) ELSE WorkersLive(o)

\* What the operations see of each other: the lifecycle-operation annotation, the
\* objects that exist, the workers, and the game pod.
Lease == INSTANCE ServerLease
    WITH holder <- gs.owner, recovering <- gs.recovery,
         alive <- {o \in Op : Exists(o)}, working <- {o \in Op : Live(o)},
         playing <- game # "none"

\* The controllers together keep the lease: a live owner is never displaced, a Job
\* is created by the owner alone and only when nothing is left to recover, and the
\* annotation is given up, or its record of a vanished owner dropped, only after
\* the workers (claimLifecycleOperation, recoverLifecycleOperation,
\* clearLifecycleOperation, releaseWipeGuard and the two places that create Jobs).
LeaseKept == Lease!Spec
=============================================================================
