-------------------------- MODULE GameServerWipe --------------------------
(***************************************************************************)
(* Data wipes, gameserver_wipe.go and gameserver_wipe_guard.go.  A wipe    *)
(* has no object of its own: the request token on the GameServer is its    *)
(* identity, and the GameServer reconciler runs it inside its passes,      *)
(* claiming at the start of a pass and working at the end of one.          *)
(***************************************************************************)
EXTENDS GameServerWorkload

\* A Job or pod of an earlier request names the token that has to be owned.
WipeTokens ==
    LET withJob == {t \in Token : job[t] # "none"}
        withPod == {t \in Token : pods[t] > 0}
    IN  IF withJob # {} THEN withJob
        ELSE IF withPod # {} THEN withPod ELSE {gs.wipeReq}

\* A drained success that is already acknowledged needs no owner to go away.
NeedsWipeGuard ==
    \/ PendingWipe \/ WipeBusy
    \/ \E t \in Token : job[t] # "none" /\ ~(job[t] = "succeeded" /\ t = gs.wipeDone)

\* The two places of a pass that refresh the GameServer and run ensureWipeGuard.
WipeTurn == at = "wipe" /\ (snap.owner \in Token \/ snap.pending)
Ensuring == at = "start" \/ WipeTurn

ToStatus(suspend) == at' = "status" /\ snap' = [NoSnapshot EXCEPT !.suspend = suspend]

\* Without a guard: a claim at the start ends the pass, a claim at its end leaves
\* only the status to patch.
ClaimWipe ==
    /\ Ensuring /\ WipeGuard = None /\ NeedsWipeGuard
    /\ \E t \in WipeTokens :
          /\ Claimable(t) /\ UpdateGs(Claimed(t), {})
          /\ IF at = "start" THEN EndPass
             ELSE ToStatus(Claimed(t).suspend) /\ UNCHANGED <<want, next, ssFresh>>
    /\ UNCHANGED <<down, ss, podVars, jobVars, crVars, volume, userVars>>

\* With the guard: the claim is asserted again (a pending wipe suspends the
\* server once more) and the recovery retried.
AssertWipe ==
    /\ Ensuring /\ WipeGuard # None /\ Claimed(WipeGuard) # gs
    /\ UpdateGs(Claimed(WipeGuard), {"pass"})
    /\ UNCHANGED <<passVars, down, ssVars, podVars, jobVars, crVars, volume, userVars>>

RecoverWipe ==
    /\ Ensuring /\ WipeGuard # None
    /\ RecoverLifecycleOperation({"pass"})
    /\ UNCHANGED passVars

Ensured ==
    IF WipeGuard # None THEN Claimed(WipeGuard) = gs
    ELSE NeedsWipeGuard => \E t \in WipeTokens : ~Claimable(t)

StartPass ==
    /\ at = "start" /\ Ensured
    /\ at' = "decide" /\ gsFresh' = gsFresh \cup {"pass"}
    /\ snap' = [owner |-> gs.owner, pending |-> PendingWipe, restart |-> gs.restart,
                suspend |-> gs.suspend, stopAt |-> gs.stopAt]
    /\ UNCHANGED <<want, next, gs, down, ssVars, podVars, jobVars, crVars, volume, userVars>>

-----------------------------------------------------------------------------
(* reconcileWipe, for the token that owns the server.                      *)

\* Variant: the wipe does not wait for the recovery from its predecessors.
WipeReadyUnrecovered == WipeTurn /\ Ensured /\ WipeGuard # None

WipeReady == WipeTurn /\ Ensured /\ WipeGuard # None /\ gs.recovery = {}

Obsolete ==
    \/ ~PendingWipe \/ gs.wipeReq # WipeGuard
    \/ \E t \in Token : t # WipeGuard /\ job[t] # "none"
Recorded == gs.wipeOk = WipeGuard
Finishing == Obsolete \/ Recorded

Undeleted == {t \in Token : job[t] \notin {"none", "deleting"}}
NoWipeJob == \A t \in Token : job[t] = "none"

CanDelete == Finishing /\ Undeleted # {}

\* Variant: pods that outlive their Job are not awaited.
CanReleaseJobless == Finishing /\ NoWipeJob

CanRelease == Finishing /\ NoWipeJob /\ ~WipeBusy
CanRecord == ~Finishing /\ job[WipeGuard] = "succeeded"
CanFence == ~Finishing /\ NoWipeJob /\ ~WipeBusy /\ ss.exists /\ ss.wipe # WipeGuard
CanLaunch == ~Finishing /\ NoWipeJob /\ ss.wipe = WipeGuard /\ TargetStopped

DeleteJobs == job' = [o \in Op |-> IF o \in Undeleted THEN "deleting" ELSE job[o]]

DeleteWipeJob ==
    /\ WipeReady /\ CanDelete
    /\ DeleteJobs /\ ToStatus(gs.suspend)
    /\ UNCHANGED <<want, next, gsVars, ssVars, podVars, pods, crVars, volume, userVars>>

\* Variant: the wipe is acknowledged as soon as its Job has succeeded.
RecordAndAcknowledge ==
    /\ WipeReady /\ CanRecord
    /\ UpdateGs([gs EXCEPT !.wipeOk = WipeGuard, !.wipeDone = WipeGuard], {})
    /\ ToStatus(gs.suspend)
    /\ UNCHANGED <<want, next, down, ssVars, podVars, jobVars, crVars, volume, userVars>>

\* Success is durable before the Job goes away.
RecordWipeSuccess ==
    /\ WipeReady /\ CanRecord
    /\ UpdateGs([gs EXCEPT !.wipeOk = WipeGuard], {}) /\ ToStatus(gs.suspend)
    /\ UNCHANGED <<want, next, down, ssVars, podVars, jobVars, crVars, volume, userVars>>

FenceForWipe ==
    /\ WipeReady /\ CanFence
    /\ UpdateSs([ss EXCEPT !.wipe = WipeGuard, !.replicas = 0]) /\ ToStatus(gs.suspend)
    /\ UNCHANGED <<want, next, gsVars, podVars, jobVars, crVars, volume, userVars>>

AuthorizeWipe ==
    /\ WipeReady /\ CanLaunch
    /\ at' = "launch" /\ snap' = [snap EXCEPT !.owner = WipeGuard]
    /\ UNCHANGED <<want, next, gsVars, ssVars, podVars, jobVars, crVars, volume, userVars>>

CreateWipeJob ==
    /\ at = "launch"
    /\ job' = IF NoWipeJob THEN [job EXCEPT ![snap.owner] = "active"] ELSE job
    /\ ToStatus(gs.suspend)
    /\ UNCHANGED <<want, next, gsVars, ssVars, podVars, pods, crVars, volume, userVars>>

\* releaseWipeGuard: the marker and the fence on the workload go, in this order,
\* while the owner still holds.
ClearWipeWorkloadGuard ==
    /\ WipeReady /\ CanRelease
    /\ IF ss.wipe = WipeGuard THEN UpdateSs([ss EXCEPT !.wipe = None]) ELSE UNCHANGED ssVars
    /\ at' = "unfence" /\ gsFresh' = gsFresh \cup {"pass"}
    /\ UNCHANGED <<snap, want, next, gs, down, podVars, jobVars, crVars, volume, userVars>>

ReleaseWipeFence ==
    /\ at = "unfence" /\ at' = "release"
    /\ IF ss # ClearFence(ss) THEN UpdateSs(ClearFence(ss)) ELSE UNCHANGED ssVars
    /\ UNCHANGED <<snap, want, next, gsVars, podVars, jobVars, crVars, volume, userVars>>

WipeReleased ==
    LET ok == IF Recorded THEN None ELSE gs.wipeOk
    IN  IF Recorded /\ ~Obsolete
        THEN [gs EXCEPT !.owner = None, !.wipeDone = WipeGuard, !.suspend = FALSE,
                        !.wipeOk = ok]
        ELSE IF PendingWipe
        THEN [gs EXCEPT !.owner = gs.wipeReq, !.suspend = TRUE, !.wipeOk = ok]
        ELSE [gs EXCEPT !.owner = None, !.wipeOk = ok]

ReleaseWipeGuard ==
    /\ at = "release" /\ PassFresh
    /\ UpdateGs(WipeReleased, {}) /\ ToStatus(WipeReleased.suspend)
    /\ UNCHANGED <<want, next, down, ssVars, podVars, jobVars, crVars, volume, userVars>>

\* Nothing to do for the wipe in this pass.
WipeWaits ==
    /\ WipeTurn /\ Ensured
    /\ ~(WipeReady /\ (CanDelete \/ CanRelease \/ CanRecord \/ CanFence \/ CanLaunch))
    /\ IF gs.owner = None THEN DeleteJobs ELSE UNCHANGED job
    /\ ToStatus(gs.suspend)
    /\ UNCHANGED <<want, next, gsVars, ssVars, podVars, pods, crVars, volume, userVars>>

\* A pass without a wipe removes the Job an acknowledged wipe left behind, if the
\* GameServer is still the one its inventory was taken for and that one is current.
SkipWipe ==
    /\ at = "wipe" /\ ~WipeTurn
    /\ DeleteJobs \/ UNCHANGED job
    /\ ToStatus(snap.suspend)
    /\ UNCHANGED <<want, next, gsVars, ssVars, podVars, pods, crVars, volume, userVars>>

Wipe ==
    \/ ClaimWipe \/ AssertWipe \/ RecoverWipe \/ StartPass
    \/ DeleteWipeJob \/ RecordWipeSuccess \/ FenceForWipe \/ AuthorizeWipe
    \/ CreateWipeJob \/ ClearWipeWorkloadGuard \/ ReleaseWipeFence \/ ReleaseWipeGuard
    \/ WipeWaits \/ SkipWipe
=============================================================================
