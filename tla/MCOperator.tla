------------------------------ MODULE MCOperator ------------------------------
(*****************************************************************************)
(* Controllers of the operator beside the lifecycle: addresses, schedules    *)
(* and retention, CSI snapshots, network captures and template rollout. A    *)
(* behaviour chooses one of the components, which share no state, and runs   *)
(* it alone.                                                                 *)
(*****************************************************************************)
EXTENDS AddressAssignment, BackupRetention, VolumeSnapshots, NetworkCapture, TemplateRollout, TLC

(* Values of constants. *)
MCRequests == 1 :> {{"lb","addr"},{"addr"}} @@ 2 :> {{"lb","addr","pool"},{"lb","pool"}}

VARIABLE part    \* the component this behaviour is about
suiteVars == <<part, addressVars, scheduleVars, forgetVars, csiVars, vrVars, captureVars, nodeVars,
               enableVars, rolloutVars>>

Parts == {"AddressAssignment", "BackupSchedule", "SnapshotForget", "CsiCapture", "VolumeRestore",
          "SidecarCapture", "NodeCapture", "CaptureEnablement", "TemplateRollout"}
\* A component that is not the chosen one rests in one of its initial states.
SuiteInit ==
    /\ part \in Parts
    /\ AddressInit /\ (part # "AddressAssignment" => manager = "metallb" /\ spec[1].wants = {"addr"} /\ {"addr", "pool"} \subseteq spec[2].wants)
    /\ ScheduleInit /\ (part # "BackupSchedule" => sched.policy = "Allow")
    /\ ForgetInit /\ (part # "SnapshotForget" => ~fb.legacy)
    /\ CsiInit /\ (part # "CsiCapture" => ~retain)
    /\ VolumeRestoreInit /\ (part # "VolumeRestore" => target.by = "nobody" /\ \A r \in Refs : source[r] = "owned")
    /\ CaptureInit
    /\ NodeInit
    /\ EnableInit
    /\ RolloutInit /\ (part # "TemplateRollout" => ~sts.exists /\ gs.fromRestore = 0)
OthersRest ==
    /\ UNCHANGED part
    /\ part # "AddressAssignment" => UNCHANGED addressVars
    /\ part # "BackupSchedule" => UNCHANGED scheduleVars
    /\ part # "SnapshotForget" => UNCHANGED forgetVars
    /\ part # "CsiCapture" => UNCHANGED csiVars
    /\ part # "VolumeRestore" => UNCHANGED vrVars
    /\ part # "SidecarCapture" => UNCHANGED captureVars
    /\ part # "NodeCapture" => UNCHANGED nodeVars
    /\ part # "CaptureEnablement" => UNCHANGED enableVars
    /\ part # "TemplateRollout" => UNCHANGED rolloutVars
SuiteNext ==
    \/ part = "AddressAssignment" /\ OthersRest /\ AddressNext
    \/ part = "BackupSchedule" /\ OthersRest /\ ScheduleNext
    \/ part = "SnapshotForget" /\ OthersRest /\ ForgetNext
    \/ part = "CsiCapture" /\ OthersRest /\ CsiNext
    \/ part = "VolumeRestore" /\ OthersRest /\ VolumeRestoreNext
    \/ part = "SidecarCapture" /\ OthersRest /\ CaptureNext
    \/ part = "NodeCapture" /\ OthersRest /\ NodeNext
    \/ part = "CaptureEnablement" /\ OthersRest /\ EnableNext
    \/ part = "TemplateRollout" /\ OthersRest /\ RolloutNext

SuiteSpec == SuiteInit /\ [][SuiteNext]_suiteVars

\* Schedules, retention and CSI snapshots: no slot is fired over a running Backup where that is
\* forbidden, retention and forget never take what a Restore needs, a capture is reported only if
\* saving was off and its own snapshot was taken, and a restored server uses its own references.
SnapshotsSafe ==
    /\ [](/\ ScheduleTypeOK /\ OneInFlight
          /\ ForgetTypeOK /\ KnownRestoreKeepsSnapshot /\ OrphanAnnounced
          /\ CsiTypeOK /\ ConsistentCapture /\ OffersPinnedSnapshot /\ CompleteMeansReclaimed
          /\ VolumeRestoreTypeOK /\ NoForeignData)
    /\ TrimOnlySurplus
    /\ LastSuccessNeverRewinds
    /\ ReclaimsOnlyOwn
    /\ SuccessMeansOwnRefs

\* Network captures: one runs at a time, its pointer and lock belong to it, completed means closed, and
\* a deleted one leaves nothing in the diagnostics namespace.
CapturesSafe ==
    /\ [](/\ CaptureTypeOK /\ OneCaptureRuns /\ CompletedMeansClosed
          /\ NodeTypeOK /\ WorkersHoldLock /\ GoneLeavesNothing
          /\ EnableTypeOK)
    /\ PointerOnlyOwn

\* Template rollout and addresses: a pod runs the pinned revision, whose content is kept, a restored
\* server starts on its source and a canceled rollout pins nothing; of contending servers one is told
\* that the address is its own.
RolloutSafe ==
    /\ [](/\ AddressTypeOK /\ SomeoneUncontested /\ NoOrphanedKey
          /\ RolloutTypeOK /\ PinnedContentKept /\ PodRunsPinned /\ RestoredStartsOnSource)
    /\ FailureNotForgotten
    /\ CanceledNotPinned
=============================================================================
