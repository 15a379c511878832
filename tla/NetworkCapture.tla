---------------------------- MODULE NetworkCapture ----------------------------
(*****************************************************************************)
(* The operator's side of packet captures. The parts share no state; each    *)
(* has its own initial states and steps.                                     *)
(*****************************************************************************)
EXTENDS Naturals

(***************************************************************************)
(* NetworkCaptures of one GameServer, taken by the capture sidecar in its  *)
(* game pod.  The controller works on cached objects, one capture at a     *)
(* time: it takes the earliest capture as the only active one, records the *)
(* pod, asks the sidecar to start, points the GameServer at the capture    *)
(* and only then writes Running; users ask for stops, pods are replaced    *)
(* and calls fail in between.                                              *)
(***************************************************************************)
CONSTANTS
    Captures,     \* captures are 1..Captures, ordered by creation timestamp and name
    SameSecond,   \* whether they may have been created within one second, named in any order
    PodLimit,     \* bound on the incarnations of the game pod
    Stoppable     \* the captures a user may stop

VARIABLES
    nc, ncSeen,   \* the NetworkCaptures, and the cached ones
    active,       \* status.capture.activeCapture of the GameServer; 0 is none
    activeSeen,   \* the same in the cache
    gamePod,      \* the UID of the game pod
    sidecar,      \* what the sidecar of that pod knows of each capture
    capPass       \* the pass of the controller

captureVars == <<nc, ncSeen, active, activeSeen, gamePod, sidecar, capPass>>

Capture == 1..Captures
Terminal == {"Completed", "Failed", "Expired"}
NoCapture == [phase |-> "absent", stop |-> FALSE, podUID |-> 0, stopFailed |-> FALSE]
CaptureNoPass == [c |-> 0, at |-> "idle", copy |-> NoCapture]

CaptureTypeOK ==
    /\ \A n \in {nc, ncSeen} : n \in [Capture ->
          [phase: {"absent", "Pending", "Running", "gone"} \cup Terminal,
           stop: BOOLEAN, podUID: 0..PodLimit, stopFailed: BOOLEAN]]
    /\ active \in 0..Captures /\ activeSeen \in 0..Captures /\ gamePod \in 1..PodLimit
    /\ sidecar \in [Capture -> {"unknown", "running", "closed"}]
    /\ capPass.c \in 0..Captures
    /\ capPass.at \in {"idle", "begin", "recorded", "started", "stopped"}

CaptureInit ==
    /\ nc = [c \in Capture |-> NoCapture] /\ ncSeen = nc
    /\ active = 0 /\ activeSeen = 0 /\ gamePod = 1
    /\ sidecar = [c \in Capture |-> "unknown"] /\ capPass = CaptureNoPass

-----------------------------------------------------------------------------
(* The surroundings.                                                       *)

CreateCapture(c) ==
    /\ nc[c].phase = "absent" /\ (c > 1 /\ ~SameSecond => nc[c - 1].phase # "absent")
    /\ nc' = [nc EXCEPT ![c].phase = "Pending"]
    /\ UNCHANGED <<ncSeen, active, activeSeen, gamePod, sidecar, capPass>>
\* The API sets the stop annotation.
RequestStop(c) ==
    /\ c \in Stoppable /\ nc[c].phase \in {"Pending", "Running"} /\ ~nc[c].stop
    /\ nc' = [nc EXCEPT ![c].stop = TRUE]
    /\ UNCHANGED <<ncSeen, active, activeSeen, gamePod, sidecar, capPass>>
\* A new pod; in between there may be none, which every check treats as another UID.
CapturePodReplaced ==
    /\ gamePod < PodLimit /\ gamePod' = gamePod + 1
    /\ sidecar' = [c \in Capture |-> "unknown"]
    /\ UNCHANGED <<nc, ncSeen, active, activeSeen, capPass>>
SidecarFinishes(c) ==
    /\ sidecar[c] = "running" /\ sidecar' = [sidecar EXCEPT ![c] = "closed"]
    /\ UNCHANGED <<nc, ncSeen, active, activeSeen, gamePod, capPass>>
CapturesSynced ==
    /\ ncSeen # nc /\ ncSeen' = nc
    /\ UNCHANGED <<nc, active, activeSeen, gamePod, sidecar, capPass>>
PointerSynced ==
    /\ activeSeen # active /\ activeSeen' = active
    /\ UNCHANGED <<nc, ncSeen, active, gamePod, sidecar, capPass>>

-----------------------------------------------------------------------------
(* Writes of a pass.  A status update carries the resourceVersion of the   *)
(* copy, and may also not happen at all.                                   *)

EndCapturePass == capPass' = CaptureNoPass
WriteStatus(record) ==
    \/ nc[capPass.c] = capPass.copy /\ nc' = [nc EXCEPT ![capPass.c] = record]
    \/ UNCHANGED nc
\* A merge patch against the cached GameServer changes nothing if the cache shows the
\* pointer as it is to be.
ClearPointer == active' = IF activeSeen # 0 THEN 0 ELSE active
ReleaseActiveCaptureLock == active' = IF activeSeen = capPass.c THEN 0 ELSE active

\* A capture that fails gives up the pointer if it is its own.
FailCapture ==
    /\ ReleaseActiveCaptureLock
    /\ WriteStatus([capPass.copy EXCEPT !.phase = "Failed"]) /\ EndCapturePass

BeginCapturePass(c) ==
    /\ capPass = CaptureNoPass /\ ncSeen[c].phase \notin {"absent", "gone"}
    /\ capPass' = [c |-> c, at |-> "begin", copy |-> ncSeen[c]]
    /\ UNCHANGED <<nc, ncSeen, active, activeSeen, gamePod, sidecar>>
\* An error or a restart.
CapturePassFails ==
    /\ capPass # CaptureNoPass /\ EndCapturePass
    /\ UNCHANGED <<nc, ncSeen, active, activeSeen, gamePod, sidecar>>

Going(phase) == capPass.at = "begin" /\ capPass.copy.phase = phase /\ ~capPass.copy.stop

-----------------------------------------------------------------------------
(* A requested stop.                                                       *)

NeverStarted ==
    /\ capPass.copy.phase = "Pending"
    /\ \/ capPass.copy.podUID = 0
       \/ capPass.copy.podUID # gamePod
       \/ sidecar[capPass.c] = "unknown"
\* A sidecar that does not say what it knows is asked again, and after
\* pendingStopUnreachableTimeout told to stop all the same.
StopSidecar ==
    /\ capPass.at = "begin" /\ capPass.copy.stop /\ capPass.copy.phase \notin Terminal
    /\ \/ /\ NeverStarted /\ UNCHANGED sidecar
          /\ capPass' = [capPass EXCEPT !.at = "stopped"]
       \/ /\ ~NeverStarted
          /\ sidecar' = [sidecar EXCEPT ![capPass.c] = IF @ = "running" THEN "closed" ELSE @]
          /\ capPass' = [capPass EXCEPT !.at = "stopped"]
       \/ /\ ~NeverStarted /\ UNCHANGED sidecar
          /\ capPass' = [capPass EXCEPT !.at = "stopped", !.copy.stopFailed = TRUE]
    /\ UNCHANGED <<nc, ncSeen, active, activeSeen, gamePod>>
CompleteRequestedStop ==
    /\ capPass.at = "stopped" /\ ReleaseActiveCaptureLock
    /\ IF nc[capPass.c] = [capPass.copy EXCEPT !.stopFailed = nc[capPass.c].stopFailed]
       THEN nc' = [nc EXCEPT ![capPass.c] = [capPass.copy EXCEPT !.phase = "Completed"]]
       ELSE UNCHANGED nc
    /\ EndCapturePass /\ UNCHANGED <<ncSeen, activeSeen, gamePod, sidecar>>

-----------------------------------------------------------------------------
(* Pending: one at a time, then start.                                     *)

EarlierActive(c) == \E d \in 1..(c - 1) : ncSeen[d].phase \in {"Pending", "Running"}

\* The capture is refused: switched off, without limits or behind an earlier one.
RefuseCapture ==
    /\ Going("Pending") /\ FailCapture
    /\ UNCHANGED <<ncSeen, activeSeen, gamePod, sidecar>>
RecordPod ==
    /\ Going("Pending") /\ ~EarlierActive(capPass.c)
    /\ nc[capPass.c] = capPass.copy
    /\ nc' = [nc EXCEPT ![capPass.c].podUID = gamePod]
    /\ capPass' = [capPass EXCEPT !.at = "recorded", !.copy.podUID = gamePod]
    /\ UNCHANGED <<ncSeen, active, activeSeen, gamePod, sidecar>>
\* Only the pod that was recorded has the sidecar in it, which takes one capture at a time.
\* An answer may be lost after the sidecar has started.
SidecarBusy == \E d \in Capture \ {capPass.c} : sidecar[d] = "running"
StartSidecar ==
    /\ capPass.at = "recorded" /\ gamePod = capPass.copy.podUID
    /\ sidecar[capPass.c] = "unknown" => ~SidecarBusy
    /\ sidecar' = [sidecar EXCEPT ![capPass.c] = IF @ = "unknown" THEN "running" ELSE @]
    /\ \/ capPass' = [capPass EXCEPT !.at = "started"] /\ UNCHANGED <<nc, active>>
       \/ EndCapturePass /\ UNCHANGED <<nc, active>>
       \/ FailCapture
    /\ UNCHANGED <<ncSeen, activeSeen, gamePod>>
StartRefused ==
    /\ capPass.at = "recorded" /\ (SidecarBusy \/ gamePod # capPass.copy.podUID)
    /\ FailCapture /\ UNCHANGED <<ncSeen, activeSeen, gamePod, sidecar>>
\* The pointer first, then the phase.
MarkRunning ==
    /\ capPass.at = "started"
    /\ active' = IF activeSeen # capPass.c THEN capPass.c ELSE active
    /\ WriteStatus([capPass.copy EXCEPT !.phase = "Running"]) /\ EndCapturePass
    /\ UNCHANGED <<ncSeen, activeSeen, gamePod, sidecar>>

-----------------------------------------------------------------------------
(* Running.                                                                *)

\* The pod was replaced, the sidecar crashed or does not answer.
RunningFails ==
    /\ Going("Running") /\ FailCapture
    /\ UNCHANGED <<ncSeen, activeSeen, gamePod, sidecar>>
RunningCompletes ==
    /\ Going("Running") /\ gamePod = capPass.copy.podUID /\ sidecar[capPass.c] = "closed"
    /\ ClearPointer
    /\ WriteStatus([capPass.copy EXCEPT !.phase = "Completed"]) /\ EndCapturePass
    /\ UNCHANGED <<ncSeen, activeSeen, gamePod, sidecar>>
\* The retention window has passed and the capture still runs.
ExpireStuckRunningCapture ==
    /\ Going("Running") /\ ClearPointer
    /\ sidecar' \in {sidecar, [sidecar EXCEPT ![capPass.c] = IF @ = "running" THEN "closed" ELSE @]}
    /\ WriteStatus([capPass.copy EXCEPT !.phase = "Expired"]) /\ EndCapturePass
    /\ UNCHANGED <<ncSeen, activeSeen, gamePod>>

-----------------------------------------------------------------------------
(* Retention: the phase, then the file, then the object.                   *)

\* Past the retention window.  A file that cannot be deleted keeps the object, Expired,
\* for captureFileCleanupBudget.
ExpireCapture ==
    /\ capPass.at = "begin" /\ capPass.copy.phase \in Terminal
    /\ \/ WriteStatus([capPass.copy EXCEPT !.phase = "Expired"])
       \/ nc' = [nc EXCEPT ![capPass.c] = [NoCapture EXCEPT !.phase = "gone"]]
    /\ EndCapturePass /\ UNCHANGED <<ncSeen, active, activeSeen, gamePod, sidecar>>

CapturePass ==
    \/ \E c \in Capture : BeginCapturePass(c)
    \/ StopSidecar \/ CompleteRequestedStop \/ RefuseCapture \/ RecordPod \/ StartSidecar \/ StartRefused
    \/ MarkRunning \/ RunningFails \/ RunningCompletes \/ ExpireStuckRunningCapture
    \/ ExpireCapture \/ CapturePassFails
PassGoesOn == capPass # CaptureNoPass /\ CapturePass
CaptureNext ==
    \/ CapturePass \/ CapturePodReplaced \/ CapturesSynced \/ PointerSynced
    \/ \E c \in Capture : CreateCapture(c) \/ RequestStop(c) \/ SidecarFinishes(c)

-----------------------------------------------------------------------------
(* Properties.                                                             *)

\* One capture of a server is Running at a time, however stale the list was in which the
\* controller looked for the earliest one.
OneCaptureRuns == \A c, d \in Capture : nc[c].phase = "Running" /\ nc[d].phase = "Running" => c = d

\* Completed means that the file is closed: a stop that comes while the sidecar is being
\* started, before the phase says so, still reaches it, unless the stop was seen to fail.
CompletedMeansClosed ==
    \A c \in Capture : nc[c].phase = "Completed" /\ ~nc[c].stopFailed => sidecar[c] # "running"

\* A pass for one capture does not take the pointer of another that is Running.
PointerOnlyOwn ==
    [][\A c \in Capture : (active = c /\ active' # c /\ nc[c].phase = "Running")
                             => capPass.c = c]_captureVars

-----------------------------------------------------------------------------
(***************************************************************************)
(* NetworkCaptures taken by a privileged worker Job in a diagnostics       *)
(* namespace.  The capture's finalizer and recorded target come before any *)
(* object there; a worker is drained, Job and pods, before the capture is  *)
(* ended, its pointer released or its finalizer removed.  NetworkCaptures  *)
(* are read from a cache, everything else from the API server.             *)
(***************************************************************************)
CONSTANTS
    NodeCaptures,   \* captures are 1..NodeCaptures, ordered by creation
    Disturbed,      \* the captures that are stopped, or whose Job is deleted, by others
    StaleAfterEnd   \* whether a pass may begin before the cache shows the end that an
                    \* earlier pass has written

VARIABLES
    ncap, ncapSeen,   \* the NetworkCaptures, and the cached ones
    anchor,           \* the ConfigMap that owns a capture's objects
    nodeJob,          \* the worker Job of each capture
    nodeWorker,       \* the worker pod of each capture
    pointer,          \* the GameServer's activeCapture; 0 is none
    nodePass          \* the pass of the controller

nodeVars == <<ncap, ncapSeen, anchor, nodeJob, nodeWorker, pointer, nodePass>>

ASSUME NodeAssumption == NodeCaptures \in Nat

NodeCap == 1..NodeCaptures
Ended == {"Completed", "Failed"}
NoNodeCapture == [phase |-> "absent", bound |-> FALSE, ends |-> FALSE, deleting |-> FALSE]
NoNodePass == [c |-> 0, at |-> "idle", copy |-> NoNodeCapture]

NodeTypeOK ==
    /\ \A n \in {ncap, ncapSeen} : n \in [NodeCap ->
          [phase: {"absent", "Pending", "Running", "gone"} \cup Ended, bound: BOOLEAN,
           ends: BOOLEAN, deleting: BOOLEAN]]
    /\ anchor \in [NodeCap -> {"none", "present", "deleting"}]
    /\ nodeJob \in [NodeCap -> {"none", "active", "succeeded", "failed", "deleting"}]
    /\ nodeWorker \in [NodeCap -> {"none", "running", "stopped"}]
    /\ pointer \in 0..NodeCaptures /\ nodePass.c \in 0..NodeCaptures
    /\ nodePass.at \in {"idle", "begin", "bound", "created"}

NodeInit ==
    /\ ncap = [c \in NodeCap |-> NoNodeCapture] /\ ncapSeen = ncap
    /\ anchor = [c \in NodeCap |-> "none"] /\ nodeJob = [c \in NodeCap |-> "none"]
    /\ nodeWorker = [c \in NodeCap |-> "none"] /\ pointer = 0 /\ nodePass = NoNodePass

-----------------------------------------------------------------------------
(* Users, the Job controller, the kubelet and the garbage collector.       *)

CreateNodeCapture(c) ==
    /\ ncap[c].phase = "absent" /\ (c > 1 => ncap[c - 1].phase # "absent")
    /\ ncap' = [ncap EXCEPT ![c].phase = "Pending"]
    /\ UNCHANGED <<ncapSeen, anchor, nodeJob, nodeWorker, pointer, nodePass>>
\* A stop annotation, handled as the annotation of a worker that has finished.
RequestNodeStop(c) ==
    /\ c \in Disturbed /\ ncap[c].phase \in {"Pending", "Running"} /\ ~ncap[c].ends
    /\ ncap' = [ncap EXCEPT ![c].ends = TRUE]
    /\ UNCHANGED <<ncapSeen, anchor, nodeJob, nodeWorker, pointer, nodePass>>
\* By a user, or by the controller once an ended capture has been retained long enough.
\* Without the finalizer the object goes at once.
DeleteNodeCapture(c) ==
    /\ ncap[c].phase \notin {"absent", "gone"} /\ ~ncap[c].deleting
    /\ ncap' = [ncap EXCEPT ![c] = IF @.bound THEN [@ EXCEPT !.deleting = TRUE]
                                   ELSE [NoNodeCapture EXCEPT !.phase = "gone"]]
    /\ UNCHANGED <<ncapSeen, anchor, nodeJob, nodeWorker, pointer, nodePass>>
NodeWorkerStarts(c) ==
    /\ nodeJob[c] = "active" /\ nodeWorker[c] = "none" /\ nodeWorker' = [nodeWorker EXCEPT ![c] = "running"]
    /\ UNCHANGED <<ncap, ncapSeen, anchor, nodeJob, pointer, nodePass>>
WorkerEnds(c) ==
    /\ nodeWorker[c] = "running" /\ nodeWorker' = [nodeWorker EXCEPT ![c] = "stopped"]
    /\ \E end \in {"succeeded", "failed"} :
          nodeJob' = [nodeJob EXCEPT ![c] = IF @ = "active" THEN end ELSE @]
    /\ UNCHANGED <<ncap, ncapSeen, anchor, pointer, nodePass>>
\* Somebody deletes the Job and leaves its pod.
JobOrphaned(c) ==
    /\ c \in Disturbed /\ nodeJob[c] \in {"active", "succeeded", "failed"}
    /\ nodeJob' = [nodeJob EXCEPT ![c] = "none"]
    /\ UNCHANGED <<ncap, ncapSeen, anchor, nodeWorker, pointer, nodePass>>
\* A pod that has ended, or was deleted, goes.
WorkerGone(c) ==
    /\ nodeWorker[c] = "stopped" \/ (nodeJob[c] = "deleting" /\ nodeWorker[c] # "none")
    /\ nodeWorker' = [nodeWorker EXCEPT ![c] = "none"]
    /\ UNCHANGED <<ncap, ncapSeen, anchor, nodeJob, pointer, nodePass>>
JobGone(c) ==
    /\ nodeJob[c] = "deleting" /\ nodeWorker[c] = "none" /\ nodeJob' = [nodeJob EXCEPT ![c] = "none"]
    /\ UNCHANGED <<ncap, ncapSeen, anchor, nodeWorker, pointer, nodePass>>
AnchorGone(c) ==
    /\ anchor[c] = "deleting" /\ nodeJob[c] = "none" /\ anchor' = [anchor EXCEPT ![c] = "none"]
    /\ UNCHANGED <<ncap, ncapSeen, nodeJob, nodeWorker, pointer, nodePass>>
NodeCapturesSynced ==
    /\ ncapSeen # ncap /\ ncapSeen' = ncap
    /\ UNCHANGED <<ncap, anchor, nodeJob, nodeWorker, pointer, nodePass>>

-----------------------------------------------------------------------------
(* Passes.                                                                 *)

me == nodePass.c
Quiet == nodePass' = NoNodePass
NodeUnchanged == ncap[me] = nodePass.copy
Store(record) == ncap' = IF NodeUnchanged THEN [ncap EXCEPT ![me] = record] ELSE ncap

BeginNodePass(c) ==
    /\ nodePass = NoNodePass /\ ncapSeen[c].phase \notin {"absent", "gone"}
    /\ StaleAfterEnd \/ (ncap[c].phase \in Ended => ncapSeen[c].phase \in Ended)
    /\ nodePass' = [c |-> c, at |-> "begin", copy |-> ncapSeen[c]]
    /\ UNCHANGED <<ncap, ncapSeen, anchor, nodeJob, nodeWorker, pointer>>
\* An error or a restart at any point.
NodePassFails ==
    /\ nodePass # NoNodePass /\ Quiet
    /\ UNCHANGED <<ncap, ncapSeen, anchor, nodeJob, nodeWorker, pointer>>

\* Variant: the pods of the Job are not awaited.
DrainedJobOnly(c) == nodeJob[c] = "none"
\* Whether neither the Job nor a pod of it is left.
DrainedWorker(c) == nodeJob[c] = "none" /\ nodeWorker[c] = "none"
DeleteNodeWorkers ==
    /\ ~DrainedWorker(me) /\ Quiet
    /\ nodeJob' = [nodeJob EXCEPT ![me] = IF @ = "none" THEN @ ELSE "deleting"]
    /\ nodeWorker' = [nodeWorker EXCEPT ![me] = IF @ = "none" THEN @ ELSE "stopped"]
    /\ UNCHANGED <<ncap, ncapSeen, anchor, pointer>>

ReleaseNodeCaptureLock == pointer' = IF pointer = me THEN 0 ELSE pointer
NodeLive == nodePass.at = "begin" /\ ~nodePass.copy.deleting /\ nodePass.copy.phase \notin Ended

\* An end, a failure, a stop and a deletion all drain first.
MustDrain == nodePass.at = "begin" /\ DeleteNodeWorkers
\* A target that is gone or has changed, a failed worker, an earlier capture.
NodeFail ==
    /\ NodeLive /\ DrainedWorker(me) /\ Store([nodePass.copy EXCEPT !.phase = "Failed"])
    /\ pointer' \in {pointer, IF pointer = me THEN 0 ELSE pointer} /\ Quiet
    /\ UNCHANGED <<ncapSeen, anchor, nodeJob, nodeWorker>>
\* The artifact is looked for until two minutes after the end.
FinishNodeCapture ==
    /\ NodeLive /\ nodePass.copy.ends /\ DrainedWorker(me)
    /\ \E end \in Ended : Store([nodePass.copy EXCEPT !.phase = end])
    /\ ReleaseNodeCaptureLock /\ Quiet /\ UNCHANGED <<ncapSeen, anchor, nodeJob, nodeWorker>>

-----------------------------------------------------------------------------
(* From the target to the worker.                                          *)

EarlierUnfinished(c) ==
    \E d \in 1..(c - 1) : ncap[d].phase \in {"Pending", "Running"}
Proceeds == NodeLive /\ ~nodePass.copy.ends
\* The finalizer, the target and the namespace in one update.
BindTarget ==
    /\ Proceeds
    /\ \/ nodePass.copy.bound /\ UNCHANGED ncap
       \/ /\ ~nodePass.copy.bound /\ ~EarlierUnfinished(me) /\ NodeUnchanged
          /\ ncap' = [ncap EXCEPT ![me].bound = TRUE]
    /\ nodePass' = [nodePass EXCEPT !.at = "bound", !.copy.bound = TRUE]
    /\ UNCHANGED <<ncapSeen, anchor, nodeJob, nodeWorker, pointer>>
\* The objects in the diagnostics namespace, the worker last.
MissingJob == nodeJob[me] = "none" /\ nodePass.copy.phase # "Running"
EnsureNodeArtifacts ==
    /\ nodePass.at = "bound" /\ anchor[me] # "deleting"
    /\ anchor' = [anchor EXCEPT ![me] = "present"]
    /\ nodeJob' = [nodeJob EXCEPT ![me] = IF MissingJob THEN "active" ELSE @]
    /\ nodePass' = [nodePass EXCEPT !.at = "created"]
    /\ UNCHANGED <<ncap, ncapSeen, nodeWorker, pointer>>
MarkNodeRunning ==
    /\ nodePass.at = "created" /\ nodeJob[me] \in {"active", "deleting"} /\ pointer' = me
    /\ Store([nodePass.copy EXCEPT !.phase = "Running"]) /\ Quiet
    /\ UNCHANGED <<ncapSeen, anchor, nodeJob, nodeWorker>>
WorkerSucceeded ==
    /\ nodePass.at = "created" /\ nodeJob[me] = "succeeded"
    /\ Store([nodePass.copy EXCEPT !.ends = TRUE]) /\ Quiet
    /\ UNCHANGED <<ncapSeen, anchor, nodeJob, nodeWorker, pointer>>

-----------------------------------------------------------------------------
(* The end: retention, deletion, finalizer.                                *)

CleanupNodeCapture ==
    /\ nodePass.at = "begin" /\ nodePass.copy.deleting /\ DrainedWorker(me)
    /\ anchor[me] # "none" /\ anchor' = [anchor EXCEPT ![me] = "deleting"]
    /\ Quiet /\ UNCHANGED <<ncap, ncapSeen, nodeJob, nodeWorker, pointer>>
RemoveFinalizer ==
    /\ nodePass.at = "begin" /\ nodePass.copy.deleting /\ DrainedWorker(me)
    /\ anchor[me] = "none" /\ ReleaseNodeCaptureLock
    /\ Store([NoNodeCapture EXCEPT !.phase = "gone"]) /\ Quiet
    /\ UNCHANGED <<ncapSeen, anchor, nodeJob, nodeWorker>>

NodePassStep ==
    \/ MustDrain \/ NodeFail \/ FinishNodeCapture \/ BindTarget \/ EnsureNodeArtifacts
    \/ MarkNodeRunning \/ WorkerSucceeded \/ CleanupNodeCapture
    \/ RemoveFinalizer \/ NodePassFails
ClusterStep ==
    \E c \in NodeCap : WorkerGone(c) \/ JobGone(c) \/ AnchorGone(c)
NodeNext ==
    \/ NodePassStep \/ ClusterStep \/ NodeCapturesSynced
    \/ \E c \in NodeCap : BeginNodePass(c) \/ CreateNodeCapture(c) \/ RequestNodeStop(c)
          \/ DeleteNodeCapture(c) \/ NodeWorkerStarts(c) \/ WorkerEnds(c) \/ JobOrphaned(c)

-----------------------------------------------------------------------------
(* Properties.                                                             *)

\* No worker runs for a capture that has ended or is gone, and no two captures have one:
\* the lock of a capture is not freed early, whatever the cache showed of the others.
WorkersHoldLock ==
    /\ \A c \in NodeCap : nodeWorker[c] # "none" => ncap[c].phase \in {"Pending", "Running"}
    /\ \A c, d \in NodeCap : nodeWorker[c] # "none" /\ nodeWorker[d] # "none" => c = d

\* A capture that is gone leaves nothing in the diagnostics namespace and no pointer to
\* itself, also when it was deleted while it was being set up.
GoneLeavesNothing ==
    \A c \in NodeCap : ncap[c].phase = "gone" =>
        anchor[c] = "none" /\ DrainedWorker(c) /\ pointer # c

-----------------------------------------------------------------------------
(***************************************************************************)
(* spec.capture.enabled of a GameServer: enabling injects the capture      *)
(* container into the running pod, live; disabling asks every capture to   *)
(* stop.  The pod and the captures are read from caches, the injection is  *)
(* checked against the pod's version, and a refusal of it is no error: the *)
(* next pod event has to bring the pass that repairs it.                   *)
(***************************************************************************)
CONSTANTS EnablePodStarts,   \* bound: pods the StatefulSet makes
          PodChanges,        \* bound: kubelet status updates of a pod
          EnabledCaptures    \* captures a user may ask for

VARIABLES
    capEnabled,    \* spec.capture.enabled
    capPod,        \* the pod: its number, version and capture container
    capPodSeen,    \* the operator's cached copy
    captureOf,     \* capture -> "none", "active", "asked" (stop annotation) or "ended"
    captureSeen,   \* the cached list
    capReady,      \* status.capture.ready
    capDue,        \* a watch event waits for a pass
    capSettled     \* users, kubelet and pods no longer interfere
enableVars == <<capEnabled, capPod, capPodSeen, captureOf, captureSeen, capReady, capDue, capSettled>>

Container == {"none", "injected", "running", "ended"}
CapPod == [pod : 0..EnablePodStarts, version : 0..PodChanges + 3, container : Container]
CaptureStates == {"none", "active", "asked", "ended"}
EnableTypeOK ==
    /\ capEnabled \in BOOLEAN /\ capPod \in CapPod /\ capPodSeen \in CapPod
    /\ captureOf \in [EnabledCaptures -> CaptureStates] /\ captureSeen \in [EnabledCaptures -> CaptureStates]
    /\ capReady \in BOOLEAN /\ capDue \in BOOLEAN /\ capSettled \in BOOLEAN

NoCapPod == [pod |-> 0, version |-> 0, container |-> "none"]
EnableInit ==
    /\ capEnabled = FALSE /\ capPod = NoCapPod /\ capPodSeen = NoCapPod
    /\ captureOf = [c \in EnabledCaptures |-> "none"] /\ captureSeen = captureOf
    /\ capReady = FALSE /\ capDue = FALSE /\ capSettled = FALSE

-----------------------------------------------------------------------------
(* Users, the kubelet, the capture controller and the watches.             *)

ToggleCapture == ~capSettled /\ capEnabled' = ~capEnabled /\ capDue' = TRUE
                 /\ UNCHANGED <<capPod, capPodSeen, captureOf, captureSeen, capReady, capSettled>>
\* The API admits captures of an enabled server only.
AskCapture(c) ==
    /\ ~capSettled /\ capEnabled /\ captureOf[c] = "none" /\ captureOf' = [captureOf EXCEPT ![c] = "active"]
    /\ UNCHANGED <<capEnabled, capPod, capPodSeen, captureSeen, capReady, capDue, capSettled>>
\* A capture ends by itself, or because it was asked to.
CaptureEnds(c) ==
    /\ captureOf[c] = "asked" \/ (captureOf[c] = "active" /\ ~capSettled)
    /\ captureOf' = [captureOf EXCEPT ![c] = "ended"]
    /\ UNCHANGED <<capEnabled, capPod, capPodSeen, captureSeen, capReady, capDue, capSettled>>
PodMade == /\ ~capSettled /\ capPod.pod < EnablePodStarts
           /\ capPod' = [pod |-> capPod.pod + 1, version |-> 0, container |-> "none"]
           /\ UNCHANGED <<capEnabled, capPodSeen, captureOf, captureSeen, capReady, capDue, capSettled>>
NewVersion(container) == capPod' = [capPod EXCEPT !.version = @ + 1, !.container = container]
PodStatusMoves ==
    /\ capPod.pod > 0
    /\ \/ ~capSettled /\ capPod.version < PodChanges /\ NewVersion(capPod.container)
       \/ capPod.container = "injected" /\ NewVersion("running")
       \/ ~capSettled /\ capPod.container = "running" /\ NewVersion("ended")
    /\ UNCHANGED <<capEnabled, capPodSeen, captureOf, captureSeen, capReady, capDue, capSettled>>
MapPodToGameServer == capDue' = TRUE
PodSynced ==
    /\ capPodSeen # capPod /\ capPodSeen' = capPod /\ MapPodToGameServer
    /\ UNCHANGED <<capEnabled, capPod, captureOf, captureSeen, capReady, capSettled>>
CapturesListed ==
    /\ captureSeen # captureOf /\ captureSeen' = captureOf
    /\ UNCHANGED <<capEnabled, capPod, capPodSeen, captureOf, capReady, capDue, capSettled>>
CapSettles == ~capSettled /\ capSettled' = TRUE
              /\ UNCHANGED <<capEnabled, capPod, capPodSeen, captureOf, captureSeen, capReady, capDue>>

-----------------------------------------------------------------------------
(* reconcileCapture.                                                       *)

EnableStopActiveCaptures ==
    captureOf' = [c \in EnabledCaptures |->
        IF captureSeen[c] = "active" /\ captureOf[c] = "active" THEN "asked" ELSE captureOf[c]]
\* The update is refused when the pod has moved on since the copy was read.
InjectContainer ==
    IF capPodSeen.container = "none" /\ capPodSeen = capPod
    THEN capPod' = [capPod EXCEPT !.version = @ + 1, !.container = "injected"] ELSE UNCHANGED capPod
PassOver == capDue' = FALSE /\ UNCHANGED <<capEnabled, capPodSeen, captureSeen, capSettled>>
DisableCapture == ~capEnabled /\ EnableStopActiveCaptures /\ capReady' = FALSE /\ PassOver /\ UNCHANGED capPod
EnableCapture ==
    /\ capEnabled /\ PassOver /\ UNCHANGED captureOf
    /\ IF capPodSeen.pod = 0 THEN capReady' = FALSE /\ UNCHANGED capPod
       ELSE InjectContainer /\ capReady' = (capPodSeen.container = "running")
\* A pass runs for an event, or at the periodic resync.
ReconcileCapture == DisableCapture \/ EnableCapture
DuePass == capDue /\ ReconcileCapture
Resync == DisableCapture
CaptureGoesOn == \E c \in EnabledCaptures : CaptureEnds(c)
EnableNext ==
    \/ ToggleCapture \/ PodMade \/ PodStatusMoves \/ PodSynced \/ CapturesListed \/ CapSettles
    \/ \E c \in EnabledCaptures : AskCapture(c) \/ CaptureEnds(c)
    \/ DuePass \/ Resync

-----------------------------------------------------------------------------
(* Properties.                                                             *)
=============================================================================
