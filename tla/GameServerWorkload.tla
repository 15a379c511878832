------------------------ MODULE GameServerWorkload ------------------------
(***************************************************************************)
(* The workload part of GameServerReconciler.Reconcile: one pass reads the *)
(* GameServer, decides the replica count, computes the StatefulSet it      *)
(* wants from live reads, writes it with a checked Update, runs the wipe   *)
(* step and patches the status.  Passes of one GameServer are serialized;  *)
(* anything else may happen between two calls of a pass.                   *)
(***************************************************************************)
EXTENDS LifecycleOperation

VARIABLES
    at,     \* the next call of the running pass
    snap,   \* what the pass uses of the GameServer it read at its start
    want,   \* the replica count the pass decided on
    next    \* the StatefulSet the pass is about to write

passVars == <<at, snap, want, next>>

Snapshot ==
    [owner: OpOrNone, pending: BOOLEAN, restart: BOOLEAN, suspend: BOOLEAN,
     stopAt: BOOLEAN]

NoSnapshot ==
    [owner |-> None, pending |-> FALSE, restart |-> FALSE, suspend |-> FALSE,
     stopAt |-> FALSE]

Steps == {"start", "decide", "stop", "render", "write", "wipe", "launch", "unfence",
          "release", "status"}

NoWorkload ==
    [exists |-> FALSE, replicas |-> 0, restore |-> None, wipe |-> None, op |-> NoFence]

WorkloadTypeOK ==
    /\ at \in Steps
    /\ snap \in Snapshot
    /\ want \in {0, 1}
    /\ next \in StatefulSet

WorkloadInit ==
    /\ at = "start"
    /\ snap = NoSnapshot
    /\ want = 0
    /\ next = NoWorkload

\* The pass is over: it finished, lost a checked write, failed or crashed.
EndPass ==
    /\ at' = "start" /\ snap' = NoSnapshot /\ want' = 0 /\ next' = NoWorkload
    /\ ssFresh' = FALSE

PassAborts ==
    /\ at # "start"
    /\ EndPass /\ gsFresh' = gsFresh \ {"pass"}
    /\ UNCHANGED <<gs, down, ss, podVars, jobVars, crVars, volume, userVars>>

-----------------------------------------------------------------------------
(* desiredReplicas and softStop.  The ownership branches read the live     *)
(* GameServer, the others the copy the pass started from.                  *)

DecideThen(step, n) ==
    /\ at' = step /\ want' = n
    /\ snap' = [snap EXCEPT !.restart = FALSE, !.stopAt = FALSE]
    /\ UNCHANGED next

Decide(n) == DecideThen("render", n)

KeepGs == UNCHANGED <<gs, gsFresh>>
PassFresh == "pass" \in gsFresh

\* `stamped' and `fresh' describe the copy of the GameServer softStop works on.
\* The readiness it consults is cached, and the grace period may be over.  The
\* stamp is written by a checked Update before the stop command goes out.
SoftStop(stamped, fresh) ==
    \/ Decide(0) /\ KeepGs
    \/ Graceful /\ ss.exists /\ stamped /\ Decide(1) /\ KeepGs
    \/ /\ Graceful /\ ss.exists /\ ~stamped /\ fresh
       /\ UpdateGs([gs EXCEPT !.stopAt = TRUE], {"pass"})
       /\ DecideThen("stop", 1)

Held == gs.owner # None
Recovering == gs.recovery # {}

\* A copy, or the recovery from a vanished operation, freezes the workload.
Preserving == gs.owner \in Backup \/ Recovering

DecidePreserving ==
    /\ Preserving
    /\ Decide(IF NeedsStop \/ ~ss.exists THEN 0 ELSE ss.replicas)
    /\ KeepGs

Exclusive == Restore \cup Token

\* A Restore or wipe took the server since the pass began: stop on the live copy.
DecideTaken ==
    /\ ~Preserving /\ gs.owner \in Exclusive \ {snap.owner}
    /\ SoftStop(gs.stopAt, TRUE)

OnSnapshot == ~Preserving /\ gs.owner \notin Exclusive \ {snap.owner}
Guarded == snap.owner \in Exclusive \/ snap.pending

DecideGuarded ==
    /\ OnSnapshot /\ Guarded
    /\ SoftStop(snap.stopAt, PassFresh)

\* Variant: the acknowledgment of a restart is lost.
DecideRestartedUnacked ==
    /\ OnSnapshot /\ ~Guarded /\ snap.restart
    /\ game = "none" \/ ~process.stopping
    /\ KeepGs
    /\ Decide(IF snap.suspend THEN 0 ELSE 1)

\* restartPhase reads the cached status of the workload, which may still report
\* no pod for one that has started since, but not for one that was seen ready and
\* told to stop.
DecideRestarted ==
    /\ OnSnapshot /\ ~Guarded /\ snap.restart
    /\ game = "none" \/ ~process.stopping
    /\ PassFresh /\ UpdateGs([gs EXCEPT !.restart = FALSE, !.stopAt = FALSE], {"pass"})
    /\ Decide(IF snap.suspend THEN 0 ELSE 1)

DecideStopping ==
    /\ OnSnapshot /\ ~Guarded
    /\ snap.restart \/ snap.suspend
    /\ SoftStop(snap.stopAt, PassFresh)

DecideRunning ==
    /\ OnSnapshot /\ ~Guarded /\ ~snap.restart /\ ~snap.suspend
    /\ IF snap.stopAt
       THEN PassFresh /\ UpdateGs([gs EXCEPT !.stopAt = FALSE], {"pass"})
       ELSE KeepGs
    /\ Decide(1)

DesiredReplicas ==
    /\ at = "decide"
    /\ \/ DecidePreserving \/ DecideTaken \/ DecideGuarded
       \/ DecideRestarted \/ DecideStopping \/ DecideRunning
    /\ UNCHANGED <<down, ssVars, podVars, jobVars, crVars, volume, userVars>>

\* issueStopSequence is best effort.
IssueStopSequence ==
    /\ at = "stop" /\ at' = "render"
    /\ \/ game = "up" /\ process' = [process EXCEPT !.stopping = TRUE]
       \/ UNCHANGED process
    /\ UNCHANGED <<snap, want, next, gsVars, ssVars, seen, game, same, jobVars, crVars,
                   volume, userVars>>

-----------------------------------------------------------------------------
(* reconcileStatefulSet: the mutation callback reads the workload and the  *)
(* live GameServer; the Update that follows loses to any write in between. *)

Fenced == RestoreGuard # None \/ WipeGuard # None \/ PendingWipe \/ WipeBusy

\* Variant: the callback trusts the replica count, decided before a Backup claimed.
RenderedAsDecided ==
    [exists |-> TRUE,
     replicas |-> IF Fenced \/ NeedsStop THEN 0 ELSE want,
     restore |-> RestoreGuard,
     wipe |-> IF WipeGuard # None \/ ~(PendingWipe \/ WipeBusy) THEN WipeGuard ELSE ss.wipe,
     op |-> IF Held THEN OwnerValue ELSE NoFence]

Rendered ==
    IF Preserving /\ ss.exists
    THEN [ss EXCEPT !.op = OwnerValue, !.replicas = IF NeedsStop THEN 0 ELSE @]
    ELSE [exists |-> TRUE,
          replicas |-> IF Fenced \/ Preserving THEN 0 ELSE want,
          restore |-> RestoreGuard,
          wipe |-> IF WipeGuard # None \/ ~(PendingWipe \/ WipeBusy)
                   THEN WipeGuard ELSE ss.wipe,
          op |-> IF Held THEN OwnerValue ELSE NoFence]

RenderWorkload ==
    /\ at = "render"
    /\ at' = "write" /\ next' = Rendered /\ ssFresh' = TRUE /\ want' = 0
    /\ UNCHANGED <<snap, gsVars, ss, podVars, jobVars, crVars, volume, userVars>>

WriteWorkload ==
    /\ at = "write" /\ ssFresh
    /\ UpdateSs(next)
    /\ at' = "wipe" /\ next' = NoWorkload
    /\ UNCHANGED <<snap, want, gsVars, podVars, jobVars, crVars, volume, userVars>>

\* The cached copy the callback started from already was what it computed.
WorkloadUnchanged ==
    /\ at = "write"
    /\ at' = "wipe" /\ next' = NoWorkload /\ ssFresh' = FALSE
    /\ UNCHANGED <<snap, want, gsVars, ss, podVars, jobVars, crVars, volume, userVars>>

-----------------------------------------------------------------------------
(* reconcileStatus: the phase is derived from the pass's copy of the       *)
(* GameServer and the readiness of the workload.                           *)

PatchStatus ==
    /\ at = "status"
    /\ \E ready \in IF game = "up" THEN BOOLEAN ELSE {FALSE} :
          down' = (snap.suspend /\ ~ready)
    /\ EndPass /\ gsFresh' = gsFresh \ {"pass"}
    /\ UNCHANGED <<gs, ss, podVars, jobVars, crVars, volume, userVars>>

Workload ==
    \/ PassAborts \/ DesiredReplicas \/ IssueStopSequence \/ RenderWorkload
    \/ WriteWorkload \/ WorkloadUnchanged \/ PatchStatus
=============================================================================
