------------------------- MODULE GameServerObjects -------------------------
(***************************************************************************)
(* The Kubernetes objects of ONE GameServer that the operator's            *)
(* controllers share, and everything that changes them from outside the    *)
(* operator: the StatefulSet and Job controllers, the garbage collector,   *)
(* the game process and the users of the API.                              *)
(*                                                                         *)
(* Optimistic concurrency.  An Update carries the resourceVersion of the   *)
(* read it is computed from and is refused once the object has changed.    *)
(* `gsFresh' is the set of actors whose last read of the GameServer is     *)
(* still its current version, `ssFresh' says the same of the workload      *)
(* reconciler's read of the StatefulSet.  Every write empties them.        *)
(***************************************************************************)
EXTENDS Naturals, FiniteSets

CONSTANTS
    Backup,        \* UIDs of Backup objects (restic strategy)
    Raw,           \* the Backups without spec.quiesce
    Restore,       \* UIDs of Restore objects
    Token,         \* request tokens of data wipes
    None,          \* an absent annotation or owner
    MaxPods,       \* most pods of a restore or wipe Job at a time (old one terminating)
    MaxToggles,    \* bound on the power requests (suspend, resume, restart) of users
    Graceful,      \* the template declares a stop sequence and a transport for it
    Evictions,     \* game pods are evicted, or deleted by hand
    Crashes,       \* the game container exits by itself and is restarted in its pod
    ForceDeletes   \* finalizers stripped by hand: never, between reconciles, any time

CR == Backup \cup Restore
Op == CR \cup Token

ASSUME ConstantsAssumption ==
    /\ None \notin Op /\ "pass" \notin CR
    /\ Backup \cap Restore = {} /\ CR \cap Token = {}
    /\ Raw \subseteq Backup
    /\ MaxPods \in Nat \ {0}
    /\ MaxToggles \in Nat
    /\ Graceful \in BOOLEAN /\ Evictions \in BOOLEAN /\ Crashes \in BOOLEAN
    /\ ForceDeletes \in {"never", "quiet", "any"}

VARIABLES
    gs,        \* the GameServer: owner annotation, power intent, request tokens
    gsFresh,   \* actors whose copy of the GameServer is current
    down,      \* status.phase of the GameServer is Suspended
    ss,        \* the StatefulSet: replicas and the fences stamped on it
    ssFresh,   \* the workload reconciler's copy of the StatefulSet is current
    seen,      \* the replicas the StatefulSet controller has observed
    game,      \* the game pod
    process,   \* the game process: told to stop, saving disabled
    job,       \* the worker Job of each operation
    pods,      \* live (running or terminating) worker pods of each operation
    phase,     \* status.phase of each Backup and Restore
    deleting,  \* objects with a deletion timestamp
    bound,     \* objects whose target is pinned and that carry the finalizer
    pc,        \* where the reconcile of each object is between two calls
    copy,      \* what a Backup records of its copy, its start gate and its worker
    same,      \* Backups whose pinned source pod is the present game pod
    volume,    \* the data PVC: whole, partly restored, or partly restored and
               \* started all the same by a user
    toggles,   \* power requests made so far
    asked      \* wipe tokens issued so far (the API issues each one once)

gsVars == <<gs, gsFresh, down>>
ssVars == <<ss, ssFresh>>
podVars == <<seen, game, process, same>>
jobVars == <<job, pods>>
crVars == <<phase, deleting, bound, pc, copy>>
userVars == <<toggles, asked>>
objectVars == <<gsVars, ssVars, podVars, jobVars, crVars, volume, userVars>>

OpOrNone == Op \cup {None}

\* `debt' is NeedsUnquiesce of the owner and of the predecessors to recover.
GameServer ==
    [owner: OpOrNone, recovery: SUBSET Op, debt: SUBSET Backup,
     suspend: BOOLEAN, restart: BOOLEAN, stopAt: BOOLEAN,
     wipeReq: Token \cup {None}, wipeDone: Token \cup {None}, wipeOk: Token \cup {None}]

\* The lifecycle-operation annotation as it is copied onto the StatefulSet.
Fence == [owner: OpOrNone, recovery: SUBSET Op, debt: SUBSET Backup]

NoFence == [owner |-> None, recovery |-> {}, debt |-> {}]

StatefulSet ==
    [exists: BOOLEAN, replicas: {0, 1}, restore: Restore \cup {None},
     wipe: Token \cup {None}, op: Fence]

\* A Backup is Running here once its preparation deadline is recorded.
Phase == {"uncreated", "Pending", "Suspending", "Running", "Succeeded", "Failed", "gone"}

Pc == {"idle", "launch", "unmark.resume", "unmark.keep", "resume", "keep",
       "quiesce", "release"}

\* `source' is the pinned source, `attempt' the quiesce annotations (undone once
\* unquiesced-at is set), `gate' the start token of the worker (revoked while the
\* worker may still see the old one), `worker' the stage of the worker pod.
Copy ==
    [source: {"none", "live", "stopped"},
     attempt: {"none", "pending", "done", "unsupported", "undone"},
     gate: {"empty", "token", "revoked"},
     worker: {"preparing", "ready", "copying"}]

NoCopy == [source |-> "none", attempt |-> "none", gate |-> "empty", worker |-> "preparing"]

ObjectsTypeOK ==
    /\ gs \in GameServer
    /\ gsFresh \subseteq {"pass"} \cup CR
    /\ down \in BOOLEAN
    /\ ss \in StatefulSet
    /\ ssFresh \in BOOLEAN
    /\ seen \in {0, 1}
    /\ game \in {"none", "up", "terminating"}
    /\ process \in [stopping: BOOLEAN, quiesced: BOOLEAN]
    /\ job \in [Op -> {"none", "active", "succeeded", "failed", "deleting"}]
    /\ pods \in [Op -> 0..MaxPods]
    /\ phase \in [CR -> Phase]
    /\ deleting \subseteq CR
    /\ bound \subseteq CR
    /\ pc \in [CR -> Pc]
    /\ copy \in [Backup -> Copy]
    /\ same \subseteq Backup
    /\ volume \in {"whole", "partial", "accepted"}
    /\ toggles \in 0..MaxToggles
    /\ asked \subseteq Token

NewProcess == [stopping |-> FALSE, quiesced |-> FALSE]

ObjectsInit ==
    /\ gs = [owner |-> None, recovery |-> {}, debt |-> {}, suspend |-> FALSE,
             restart |-> FALSE, stopAt |-> FALSE, wipeReq |-> None, wipeDone |-> None,
             wipeOk |-> None]
    /\ gsFresh = {}
    /\ down = FALSE
    /\ ss = [exists |-> FALSE, replicas |-> 0, restore |-> None, wipe |-> None,
             op |-> NoFence]
    /\ ssFresh = FALSE
    /\ seen = 0
    /\ game = "none"
    /\ process = NewProcess
    /\ job = [o \in Op |-> "none"]
    /\ pods = [o \in Op |-> 0]
    /\ phase = [c \in CR |-> "uncreated"]
    /\ deleting = {}
    /\ bound = {}
    /\ pc = [c \in CR |-> "idle"]
    /\ copy = [b \in Backup |-> NoCopy]
    /\ same = {}
    /\ volume = "whole"
    /\ toggles = 0
    /\ asked = {}

-----------------------------------------------------------------------------
(* What the controllers read off these objects.                            *)

\* A claim writes the compatibility guard of its kind beside the owner and
\* removes the other two, so the guards are functions of the owner.
RestoreGuard == IF gs.owner \in Restore THEN gs.owner ELSE None
WipeGuard == IF gs.owner \in Token THEN gs.owner ELSE None

PendingWipe == gs.wipeReq # None /\ gs.wipeReq # gs.wipeDone

Exists(o) == o \in Token \/ phase[o] \notin {"uncreated", "gone"}

\* A Job that may still start a pod, or is being deleted in the foreground.
JobLive(o) == job[o] \in {"active", "deleting"}
WorkersLive(o) == JobLive(o) \/ pods[o] > 0
WipeBusy == \E t \in Token : WorkersLive(t)

Drained == ss.exists /\ ss.replicas = 0 /\ seen = 0 /\ game = "none"

\* No user of the data PVC is left: the workload is scaled down and observed,
\* no pod mounts the claim and no Job is still going to start one.
TargetStopped == Drained /\ \A o \in Op : ~WorkersLive(o)

\* A checked write to the GameServer; the copies in `keep' stay current.
UpdateGs(new, keep) == gs' = new /\ gsFresh' = gsFresh \cap keep

UpdateSs(new) == ss' = new /\ ssFresh' = FALSE

-----------------------------------------------------------------------------
(* The StatefulSet controller observes the spec, then creates the game pod *)
(* or deletes it gracefully.  The kubelet restarts a container that exits; *)
(* its new process saves again.                                            *)

StsObserve ==
    /\ ss.exists /\ seen # ss.replicas
    /\ seen' = ss.replicas
    /\ UNCHANGED <<game, process, same>>

StsCreatePod ==
    /\ seen = 1 /\ game = "none"
    /\ game' = "up"
    /\ UNCHANGED <<seen, process, same>>

StsDeletePod ==
    /\ seen = 0 \/ Evictions
    /\ game = "up"
    /\ game' = "terminating"
    /\ UNCHANGED <<seen, process, same>>

GamePodGone ==
    /\ game = "terminating"
    /\ game' = "none" /\ process' = NewProcess /\ same' = {}
    /\ UNCHANGED seen

GameExits ==
    /\ game = "up"
    /\ process.stopping \/ (Crashes /\ process.quiesced)
    /\ process' = NewProcess
    /\ UNCHANGED <<seen, game, same>>

StatefulSetController ==
    /\ StsObserve \/ StsCreatePod \/ StsDeletePod \/ GamePodGone \/ GameExits
    /\ UNCHANGED <<gsVars, ssVars, jobVars, crVars, volume, userVars>>

-----------------------------------------------------------------------------
(* The Job controller.  A replacement pod can start while the pod it       *)
(* replaces is still terminating on a lost node, and pods outlive a Job    *)
(* that was not deleted in the foreground.  A Backup's Job has one pod at  *)
(* a time here: a second one is never authorized beside the first.         *)

\* A restore overwrites the volume in place.
JobStartPod(o) ==
    /\ job[o] = "active"
    /\ pods[o] < IF o \in Backup THEN 1 ELSE MaxPods
    /\ pods' = [pods EXCEPT ![o] = @ + 1]
    /\ volume' = IF o \in Restore THEN "partial" ELSE volume
    /\ UNCHANGED <<job, copy>>

\* A start token names the pod it is for, so it dies with that pod.
WorkerGone(o) ==
    copy' = [b \in Backup |->
                IF b = o THEN [copy[b] EXCEPT !.gate = "empty", !.worker = "preparing"]
                ELSE copy[b]]

PodExit(o) ==
    /\ pods[o] > 0
    /\ pods' = [pods EXCEPT ![o] = @ - 1]
    /\ WorkerGone(o)
    /\ UNCHANGED <<job, volume>>

\* `restic restore --delete' made the volume match the snapshot, the wipe script
\* verified that it is empty, or restic wrote the snapshot.
JobSucceed(o) ==
    /\ job[o] = "active" /\ pods[o] > 0
    /\ o \in Backup => copy[o].worker = "copying"
    /\ job' = [job EXCEPT ![o] = "succeeded"]
    /\ pods' = [pods EXCEPT ![o] = @ - 1]
    /\ volume' = IF o \in Backup THEN volume ELSE "whole"
    /\ WorkerGone(o)

\* The backoff limit or the active deadline: pods may still be terminating.
JobFail(o) ==
    /\ job[o] = "active"
    /\ job' = [job EXCEPT ![o] = "failed"]
    /\ UNCHANGED <<pods, volume, copy>>

\* Foreground deletion removes the Job after its pods.
JobDeleted(o) ==
    /\ job[o] = "deleting" /\ pods[o] = 0
    /\ job' = [job EXCEPT ![o] = "none"]
    /\ UNCHANGED <<pods, volume, copy>>

\* The garbage collector removes the Job of a vanished object, and a user may
\* delete one by hand; neither waits for the pods.  The Job of an existing Backup
\* goes after its pod here, so that a second Job never meets the first one's pod.
JobCollected(o) ==
    /\ job[o] # "none"
    /\ o \in Backup => pods[o] = 0 \/ ~Exists(o)
    /\ job' = [job EXCEPT ![o] = "none"]
    /\ UNCHANGED <<pods, volume, copy>>

\* The worker mounted the source and validated the repository.
WorkerReady(b) ==
    /\ pods[b] > 0 /\ copy[b].worker = "preparing"
    /\ copy' = [copy EXCEPT ![b].worker = "ready"]
    /\ UNCHANGED <<jobVars, volume>>

\* The worker sees its start token, which may have been revoked since.
WorkerStarts(b) ==
    /\ copy[b].worker = "ready" /\ copy[b].gate # "empty"
    /\ copy' = [copy EXCEPT ![b].worker = "copying"]
    /\ UNCHANGED <<jobVars, volume>>

GateProjected(b) ==
    /\ copy[b].gate = "revoked"
    /\ copy' = [copy EXCEPT ![b].gate = "empty"]
    /\ UNCHANGED <<jobVars, volume>>

JobController ==
    /\ \/ \E o \in Op : \/ JobStartPod(o) \/ PodExit(o) \/ JobSucceed(o)
                        \/ JobFail(o) \/ JobDeleted(o) \/ JobCollected(o)
       \/ \E b \in Backup : WorkerReady(b) \/ WorkerStarts(b) \/ GateProjected(b)
    /\ UNCHANGED <<gsVars, ssVars, podVars, phase, deleting, bound, pc, userVars>>

-----------------------------------------------------------------------------
(* Requests of users: the verbs of api/internal/handlers/lifecycle.go, and *)
(* creation and deletion of Backups and Restores.                          *)

Suspend ==
    /\ ~gs.suspend
    /\ UpdateGs([gs EXCEPT !.suspend = TRUE], {})
    /\ UNCHANGED volume

\* Starting a server no Restore holds any more accepts the data it has.
Resume ==
    /\ gs.suspend
    /\ UpdateGs([gs EXCEPT !.suspend = FALSE], {})
    /\ volume' = IF volume = "partial" /\ ({gs.owner} \cup gs.recovery) \cap Restore = {}
                 THEN "accepted" ELSE volume

RequestRestart ==
    /\ ~gs.restart
    /\ UpdateGs([gs EXCEPT !.restart = TRUE], {})
    /\ UNCHANGED volume

Power ==
    /\ toggles < MaxToggles /\ toggles' = toggles + 1
    /\ Suspend \/ Resume \/ RequestRestart
    /\ UNCHANGED <<down, ssVars, podVars, jobVars, crVars, asked>>

RequestWipe(t) ==
    /\ t \notin asked /\ asked' = asked \cup {t}
    /\ UpdateGs([gs EXCEPT !.wipeReq = t, !.suspend = TRUE], {})

\* The annotation is removed by hand.
CancelWipe ==
    /\ PendingWipe
    /\ UpdateGs([gs EXCEPT !.wipeReq = None], {})
    /\ UNCHANGED asked

WipeRequest ==
    /\ CancelWipe \/ \E t \in Token : RequestWipe(t)
    /\ UNCHANGED <<down, ssVars, podVars, jobVars, crVars, volume, toggles>>

Create(c) ==
    /\ phase[c] = "uncreated"
    /\ phase' = [phase EXCEPT ![c] = "Pending"]
    /\ UNCHANGED <<deleting, bound>>

\* Without a finalizer the object goes at once.
Delete(c) ==
    /\ Exists(c) /\ c \notin deleting
    /\ IF c \in bound
       THEN deleting' = deleting \cup {c} /\ UNCHANGED phase
       ELSE phase' = [phase EXCEPT ![c] = "gone"] /\ UNCHANGED deleting
    /\ UNCHANGED bound

ForceDelete(c) ==
    /\ ForceDeletes = "any" \/ (ForceDeletes = "quiet" /\ pc[c] = "idle")
    /\ Exists(c) /\ c \in bound
    /\ phase' = [phase EXCEPT ![c] = "gone"]
    /\ deleting' = deleting \ {c} /\ bound' = bound \ {c}

ObjectRequest ==
    /\ \E c \in CR : Create(c) \/ Delete(c) \/ ForceDelete(c)
    /\ UNCHANGED <<gsVars, ssVars, podVars, jobVars, pc, copy, volume, userVars>>

User == Power \/ WipeRequest \/ ObjectRequest
=============================================================================
