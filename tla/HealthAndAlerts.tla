--------------------------- MODULE HealthAndAlerts ----------------------------
(*****************************************************************************)
(* From a heartbeat to a notification. The parts share no state; each has    *)
(* its own initial states and steps.                                         *)
(*****************************************************************************)
EXTENDS Naturals

(***************************************************************************)
(* The health of a game server, from the agent's heartbeat to an alert:    *)
(* the agent patches its heartbeat into the server's status, the operator  *)
(* derives phase and conditions from the pod and the heartbeat's age, and  *)
(* the API's notifier turns the transitions it observes into "unhealthy"   *)
(* and "recovered" events.  The notifier watches with an informer or, in a *)
(* standalone panel, polls; either way it may miss versions in between.    *)
(***************************************************************************)
CONSTANTS HealthMaxUid,    \* bound: servers created under the one name
          BreakRunning,    \* whether the spec or template may become invalid under a server that is up
          RelistReplaces   \* whether a relist may hide a deletion and re-creation from the informer

VARIABLES
    uid,              \* the server object, 0 when there is none
    suspended,        \* spec.suspend, or asleep
    invalid,          \* whether the reconciler stops at a check of the spec or the template
    healthWorkload,   \* the StatefulSet and its pod
    beat,             \* age of status.agent.lastHeartbeat, stale also when there is none
    health,           \* the rest of the server's status
    queue,            \* the work queue: a reconciliation is due now, later (RequeueAfter), or not
    statusPass,       \* the pass under way: what it read of the server
    observer,         \* how the notifier observes; "blank" is a poller without a baseline
    healthSeen,       \* the last version it observed
    alerted,          \* its map of outstanding alerts
    lastEvent,        \* the last event it emitted for seen.uid
    beenUp            \* whether it has observed seen.uid in another phase than Failed
healthVars == <<uid, suspended, invalid, healthWorkload, beat, health, queue, statusPass, observer,
                healthSeen, alerted, lastEvent, beenUp>>
serverVars == <<uid, suspended, invalid, healthWorkload, beat, health, queue, statusPass>>
observerVars == <<observer, healthSeen, alerted, lastEvent, beenUp>>

\* No StatefulSet; its pod waiting for a volume, missing or being set up, failing for good, or ready.
Workloads == {"absent", "unbound", "starting", "failing", "ready"}
Phases == {"", "Pending", "Starting", "Running", "Stopping", "Suspended", "Failed"}
NoHealth == [phase |-> "", healthy |-> FALSE, reason |-> ""]
Health == [phase : Phases, healthy : BOOLEAN,
           reason : {"", "Pending", "AgentStale", "AgentFresh", "Stopping", "Suspended", "Failed"}]
NotSeen == [uid |-> 0, phase |-> "", healthy |-> FALSE]
NoStatusPass == [on |-> FALSE, suspended |-> FALSE, invalid |-> FALSE, fresh |-> FALSE]

HealthTypeOK ==
    /\ uid \in 0..HealthMaxUid /\ suspended \in BOOLEAN /\ invalid \in BOOLEAN /\ healthWorkload \in Workloads
    /\ beat \in {"fresh", "stale"} /\ health \in Health /\ queue \in {"none", "later", "now"}
    /\ statusPass \in [on : BOOLEAN, suspended : BOOLEAN, invalid : BOOLEAN, fresh : BOOLEAN]
    /\ observer \in {"informer", "blank", "poller"}
    /\ healthSeen \in [uid : 0..HealthMaxUid, phase : Phases, healthy : BOOLEAN]
    /\ alerted \in BOOLEAN /\ lastEvent \in {"none", "unhealthy", "recovered"} /\ beenUp \in BOOLEAN

HealthInit ==
    /\ uid = 1 /\ suspended = FALSE /\ invalid = FALSE /\ healthWorkload = "absent" /\ beat = "stale"
    /\ health = NoHealth
    /\ queue = "now" /\ statusPass = NoStatusPass
    /\ observer \in {"informer", "blank"} /\ healthSeen = NotSeen /\ alerted = FALSE /\ lastEvent = "none"
    /\ beenUp = FALSE

-----------------------------------------------------------------------------
(* The server, its pod and its agent.                                      *)

Event == queue' = "now"
SetSuspend ==
    /\ uid # 0 /\ suspended' = ~suspended /\ Event
    /\ UNCHANGED <<uid, invalid, healthWorkload, beat, health, statusPass, observerVars>>

\* A template disappears or returns, or the spec is edited into something the reconciler refuses.
SetInvalid ==
    /\ uid # 0 /\ (invalid \/ BreakRunning \/ (~health.healthy /\ ~statusPass.on))
    /\ invalid' = ~invalid /\ Event
    /\ UNCHANGED <<uid, suspended, healthWorkload, beat, health, statusPass, observerVars>>

\* The kubelet, the scheduler and the volume provisioner; a pod may be deleted at any time.
WorkloadMoves ==
    /\ uid # 0
    /\ healthWorkload' \in CASE healthWorkload = "absent" -> {"unbound", "starting"}
                             [] healthWorkload = "unbound" -> {"starting"}
                             [] healthWorkload = "starting" -> {"ready", "failing"}
                             [] healthWorkload \in {"failing",
                                                    "ready"} -> {"starting", "failing"} \ {healthWorkload}
    /\ Event
    /\ UNCHANGED <<uid, suspended, invalid, beat, health, statusPass, observerVars>>

\* The agent runs in the server's pod and sends one heartbeat after another; a failed one is only logged.
HeartbeatRun == uid # 0 /\ healthWorkload \in {"starting", "ready"}
\* sendOnce: a merge patch of status.agent alone.
SendHeartbeat ==
    /\ HeartbeatRun /\ beat' = "fresh" /\ Event
    /\ UNCHANGED <<uid, suspended, invalid, healthWorkload, health, statusPass, observerVars>>

\* The heartbeat grows old; nobody is told.
HeartbeatAges ==
    /\ beat = "fresh" /\ beat' = "stale"
    /\ UNCHANGED <<uid, suspended, invalid, healthWorkload, health, queue, statusPass, observerVars>>

DeleteGame ==
    /\ uid # 0 /\ uid < HealthMaxUid /\ uid' = 0 /\ suspended' = FALSE /\ invalid' = FALSE
    /\ healthWorkload' = "absent" /\ beat' = "stale"
    /\ health' = NoHealth /\ queue' = "none" /\ statusPass' = NoStatusPass
    /\ UNCHANGED observerVars

\* Re-created under the same name; uid 0 leaves the next uid to what the notifier knows.
CreateGame ==
    /\ uid = 0 /\ healthSeen.uid < HealthMaxUid /\ uid' = healthSeen.uid + 1 /\ Event
    /\ UNCHANGED <<suspended, invalid, healthWorkload, beat, health, statusPass, observerVars>>

-----------------------------------------------------------------------------
(* The reconciler: status is computed from a copy of the server read at    *)
(* the start and the children read at the end, and merged into the server. *)

\* A pass begins when an event has queued one, or when the time RequeueAfter set has come.
BeginStatusPass ==
    /\ uid # 0 /\ queue # "none" /\ ~statusPass.on
    /\ statusPass' = [on |-> TRUE, suspended |-> suspended, invalid |-> invalid, fresh |-> beat = "fresh"]
    /\ queue' = "none"
    /\ UNCHANGED <<uid, suspended, invalid, healthWorkload, beat, health, observerVars>>

HeartbeatFresh == statusPass.fresh
DerivePhase ==
    CASE statusPass.suspended -> IF healthWorkload = "ready" THEN "Stopping" ELSE "Suspended"
      [] ~statusPass.suspended /\ healthWorkload = "absent" -> "Pending"
      [] ~statusPass.suspended /\ healthWorkload = "ready" -> IF HeartbeatFresh THEN "Running" ELSE "Starting"
      [] OTHER -> "Starting"
\* startupFailure: an image that cannot be pulled, a crash loop, a container that exited.
StartupFailure == healthWorkload = "failing"
\* A volume that cannot be provisioned keeps the server out of Failed.
PVCProvisioningFailure == healthWorkload = "unbound"
PhaseOfPass ==
    IF DerivePhase = "Starting" /\ ~PVCProvisioningFailure /\ StartupFailure THEN "Failed" ELSE DerivePhase

Conditions(phase) ==
    [phase |-> phase, healthy |-> phase = "Running",
     reason |-> CASE phase = "Running" -> "AgentFresh" [] phase = "Starting" -> "AgentStale" [] OTHER -> phase]

\* setPhase writes the phase and the Ready condition and leaves Healthy as it was.
SetPhase == [health EXCEPT !.phase = "Failed"]

RequeueAfter(phase) == ~statusPass.invalid
HealthReconcileStatus ==
    /\ statusPass.on
    /\ LET new == IF statusPass.invalid THEN SetPhase ELSE Conditions(PhaseOfPass)
       IN  /\ health' = new
           /\ queue' = IF queue = "now" \/ new # health THEN "now"
                        ELSE IF RequeueAfter(new.phase) THEN "later" ELSE "none"
    /\ statusPass' = NoStatusPass
    /\ UNCHANGED <<uid, suspended, invalid, healthWorkload, beat, observerVars>>

-----------------------------------------------------------------------------
(* The notifier.                                                           *)

\* serverEvents: the event one observed update stands for, "none" for most.
HealthFails(old, new) == new.phase = "Failed" /\ old.phase # "Failed"
LosesAgent(old, new) == old.healthy /\ ~new.healthy /\ new.reason = "AgentStale"
\* Variant: a recovery is announced whether or not its outage was.
ServerEventUnpaired(old, new, outstanding) ==
    CASE ~outstanding /\ (HealthFails(old, new) \/ LosesAgent(old, new)) -> "unhealthy"
      [] new.healthy /\ ~old.healthy -> "recovered"
      [] OTHER -> "none"

ServerEvent(old, new, outstanding) ==
    CASE ~outstanding /\ (HealthFails(old, new) \/ LosesAgent(old, new)) -> "unhealthy"
      [] outstanding /\ new.healthy /\ ~old.healthy -> "recovered"
      [] OTHER -> "none"
HealthCurrent == [uid |-> uid, phase |-> health.phase, healthy |-> health.healthy]
EventSettles(e, outstanding) ==
    CASE e = "unhealthy" -> TRUE [] e = "recovered" -> FALSE [] OTHER -> outstanding
HealthObserve(old, outstanding, same) ==
    LET e == ServerEvent(old, health, outstanding)
    IN  /\ healthSeen' = HealthCurrent
        /\ alerted' = EventSettles(e, outstanding)
        /\ lastEvent' = IF e # "none" THEN e ELSE IF same THEN lastEvent ELSE "none"
        /\ beenUp' = (health.phase # "Failed" \/ (same /\ beenUp))

\* The informer: an addition seeds silently, an update compares, a deletion forgets.
Seeds ==
    /\ healthSeen' = HealthCurrent /\ beenUp' = (health.phase # "Failed") /\ lastEvent' = "none"
    /\ UNCHANGED alerted
InformerAdds ==
    observer = "informer" /\ healthSeen.uid = 0 /\ uid # 0 /\ Seeds /\ UNCHANGED <<serverVars, observer>>
InformerUpdates ==
    /\ observer = "informer" /\ healthSeen.uid # 0 /\ uid # 0 /\ healthSeen # HealthCurrent
    /\ uid = healthSeen.uid \/ RelistReplaces
    /\ HealthObserve(healthSeen, alerted, uid = healthSeen.uid)
    /\ UNCHANGED <<serverVars, observer>>
InformerDeletes ==
    /\ observer = "informer" /\ healthSeen.uid # 0 /\ uid # healthSeen.uid
    /\ healthSeen' = NotSeen /\ alerted' = FALSE /\ lastEvent' = "none" /\ beenUp' = FALSE
    /\ UNCHANGED <<serverVars, observer>>

\* pollClusterSnapshot: the first snapshot is silent, a new uid is compared with nothing, a server that
\* is gone is forgotten; a snapshot that failed changes nothing.
PollBaseline == observer = "blank" /\ observer' = "poller" /\ Seeds /\ UNCHANGED serverVars
PollKeyed(same) == IF same THEN alerted ELSE FALSE
PollSnapshot ==
    /\ observer = "poller" /\ healthSeen # HealthCurrent
    /\ LET same == uid = healthSeen.uid
       IN IF uid = 0 THEN healthSeen' = NotSeen /\ alerted' = FALSE /\ lastEvent' = "none" /\ beenUp' = FALSE
          ELSE HealthObserve(IF same THEN healthSeen ELSE NotSeen, PollKeyed(same), same)
    /\ UNCHANGED <<serverVars, observer>>

HealthOperatorStep == BeginStatusPass \/ HealthReconcileStatus
NotifierStep == InformerAdds \/ InformerUpdates \/ InformerDeletes \/ PollBaseline \/ PollSnapshot
HealthNext ==
    \/ SetSuspend \/ SetInvalid \/ WorkloadMoves \/ SendHeartbeat \/ HeartbeatAges \/ DeleteGame \/ CreateGame
    \/ HealthOperatorStep \/ NotifierStep

-----------------------------------------------------------------------------
\* Recovery events pair with an outage: the notifier emits one only for a server it has reported
\* unhealthy, whatever was deleted and re-created in between.
RecoveryPairsOutage ==
    [][lastEvent' = "recovered" /\ lastEvent # "recovered"
         => lastEvent = "unhealthy" /\ healthSeen'.uid = healthSeen.uid]_healthVars

\* Once the notifier has observed that a server runs again, no alert is left outstanding: the outage's
\* end has been reported, and the next outage will be.
RunningLeavesNoAlert == healthSeen.phase = "Running" => lastEvent # "unhealthy" /\ ~alerted

\* A server the notifier observes as Failed after it knew it in another phase has been alerted on.
FailureAlerted == healthSeen.phase = "Failed" /\ beenUp => lastEvent = "unhealthy"

-----------------------------------------------------------------------------
(***************************************************************************)
(* Delivery of notifications: a bounded queue, one worker that re-reads    *)
(* the sinks for every event and retries each sink in turn, and on a       *)
(* standalone panel the loop that keeps one poller per registered cluster  *)
(* while any sink could use what it observes.                              *)
(***************************************************************************)
CONSTANTS NotifySinks,      \* positions in the list of configured sinks
          QueueSize,        \* capacity of the channel
          Tries,            \* attempts of deliverWithRetry
          NotifyReadFails   \* reading the sinks for an event may fail

VARIABLES
    sinks,        \* the notifications section: sink -> "disabled", "bare" (no configRef) or "bound"
    readable,     \* the section can be read and parsed
    pending,      \* events in the channel
    fan,          \* the fan-out of one event: [todo (sinks still to be sent to), tries]
    owing,        \* sinks that matched an event taken from the channel and have no result counted for it
    registered,   \* the cluster's client in the registry, 0 for none
    observing,    \* watchRegistry's last observation decision
    poller,       \* the client its poller was started for, 0 for none
    settled       \* no more events, edits or registry changes
notifyVars == <<sinks, readable, pending, fan, owing, registered, observing, poller, settled>>
notifyConfigVars == <<sinks, readable, registered, settled>>
deliveryVars == <<pending, fan, owing>>

NotifyResting == [todo |-> {}, tries |-> 0]
NotifyTypeOK ==
    /\ sinks \in [NotifySinks -> {"disabled", "bare", "bound"}] /\ readable \in BOOLEAN
    /\ pending \in 0..QueueSize
    /\ fan \in [todo : SUBSET NotifySinks, tries : 0..(Tries - 1)] /\ owing \subseteq NotifySinks
    /\ registered \in 0..2 /\ observing \in BOOLEAN /\ poller \in 0..2 /\ settled \in BOOLEAN

NotifyInit ==
    /\ sinks = [s \in NotifySinks |-> "bound"] /\ readable = TRUE /\ pending = 0 /\ fan = NotifyResting
    /\ owing = {}
    /\ registered = 0 /\ observing = FALSE /\ poller = 0 /\ settled = FALSE

-----------------------------------------------------------------------------
(* The world: admins, the database and the registry.                       *)

SinksEdited ==
    /\ ~settled
    /\ \E s \in NotifySinks, c \in {"disabled", "bare", "bound"} : sinks' = [sinks EXCEPT ![s] = c]
    /\ UNCHANGED <<readable, registered, settled, deliveryVars, observing, poller>>
ConfigUnreadable ==
    /\ ~settled /\ readable' = ~readable
    /\ UNCHANGED <<sinks, registered, settled, deliveryVars, observing, poller>>
RegistryChanges ==
    /\ ~settled /\ registered' \in (0..2) \ {registered}
    /\ UNCHANGED <<sinks, readable, settled, deliveryVars, observing, poller>>
Settles ==
    /\ ~settled /\ readable /\ settled' = TRUE
    /\ UNCHANGED <<sinks, readable, registered, deliveryVars, observing, poller>>

-----------------------------------------------------------------------------
(* The queue and its worker.                                               *)

\* An enqueue that knows no capacity.
NotifyEnqueueAlways ==
    /\ ~settled /\ pending' = pending + 1 /\ UNCHANGED <<notifyConfigVars, fan, owing, observing, poller>>
\* Enqueue never blocks: a full channel drops the event, which is counted.
NotifyEnqueue ==
    /\ ~settled /\ pending < QueueSize /\ pending' = pending + 1
    /\ UNCHANGED <<notifyConfigVars, fan, owing, observing, poller>>

Matching == {s \in NotifySinks : sinks[s] # "disabled"}
\* fanOut reads the sinks of the event's turn; one without a configRef is counted as skipped.
Bound == {s \in Matching : sinks[s] = "bound"}
FanOut ==
    /\ fan = NotifyResting /\ pending > 0 /\ pending' = pending - 1
    /\ \E read \in {Bound} \cup (IF NotifyReadFails THEN {{}} ELSE {}) : fan' = [todo |-> read, tries |-> 0]
    /\ owing' = owing \cup Bound
    /\ UNCHANGED <<notifyConfigVars, observing, poller>>

NotifyCurrent == CHOOSE s \in fan.todo : \A t \in fan.todo : s <= t
NotifyCounts(s) == owing' = owing \ {s} /\ fan' = [fan EXCEPT !.todo = @ \ {s}, !.tries = 0]
\* A failure that a retry cannot fix, or a missing secret, gives the sink up at once; the others still get
\* the event.
GiveUp(s) == NotifyCounts(s)
NotifyRetry(s) ==
    IF fan.tries + 1 < Tries THEN fan' = [fan EXCEPT !.tries = @ + 1] /\ UNCHANGED owing ELSE NotifyCounts(s)
\* One attempt: a blocked address, a 4xx or missing keys refuse for good; 5xx, the network and SMTP replies
\* may pass.
HttpAnswers == {"sent", "refused", "transient"}
SmtpAnswers == {"sent", "refused", "transient"}
NotifyDeliver ==
    /\ fan.todo # {}
    /\ \E answer \in HttpAnswers \cup SmtpAnswers :
          CASE answer = "sent" -> NotifyCounts(NotifyCurrent)
            [] answer = "refused" -> GiveUp(NotifyCurrent)
            [] answer = "transient" -> NotifyRetry(NotifyCurrent)
    /\ UNCHANGED <<notifyConfigVars, pending, observing, poller>>

-----------------------------------------------------------------------------
(* watchRegistry: one round of the loop.                                   *)

\* notificationObservationEnabled: an unreadable section keeps the last decision.
Enabled == IF readable THEN \E s \in NotifySinks : sinks[s] = "bound" ELSE observing
FollowsClient(wanted) == wanted
WatchRound ==
    /\ observing' = Enabled
    /\ poller' = FollowsClient(IF Enabled THEN registered ELSE 0)
    /\ UNCHANGED <<notifyConfigVars, deliveryVars>>

NotifyWorkerStep == FanOut \/ NotifyDeliver
NotifyNext ==
    \/ SinksEdited \/ ConfigUnreadable \/ RegistryChanges \/ Settles
    \/ NotifyEnqueue \/ NotifyWorkerStep \/ WatchRound

-----------------------------------------------------------------------------
(* Properties.                                                             *)

\* Every enabled sink that an event taken from the channel was for has a result counted when the worker
\* goes on to the next event: one failing, refusing or unconfigured sink takes nothing from the others.
LossIsVisible == fan = NotifyResting => owing = {}
=============================================================================
