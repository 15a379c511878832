-------------------------- MODULE MCControlLiveness ---------------------------
(*****************************************************************************)
(* Progress of the components of the control plane and of the operator: a    *)
(* behaviour chooses one of the components, which share no state, and is     *)
(* fair to its steps.                                                        *)
(*****************************************************************************)
EXTENDS AgentCredentials, Audit, NetworkCapture, Clusters, VolumeSnapshots, GameConfiguration, Modules,
        HealthAndAlerts, AccountsAndLogin, Tunnels, BackupRetention, Telemetry, TemplateRollout, TLC

(* Values of constants. *)
MCCatalog == <<[id |-> "old", loader |-> "paper", default |-> FALSE], [id |-> "new", loader |-> "paper", default |-> TRUE],
               [id |-> "bare", loader |-> "vanilla", default |-> FALSE]>>
MCClaimOf == [v \in {"old", "new", "bare"} |-> v]
MCReports == {[key |-> 1, sent |-> 0], [key |-> 1, sent |-> 1], [key |-> 1, sent |-> 2], [key |-> 1, sent |-> 6], [key |-> 2, sent |-> 1]}

VARIABLE part    \* the component this behaviour is about
suiteVars == <<part, certVars, sinkVars, enableVars, clusterHealthVars, clusterVars, csiVars, configVars,
               keyVars, moduleVars, notifyVars, registryVars, tunnelVars, captureVars, forgetVars,
               bridgeVars, telemetryVars, rolloutVars, vrVars, scheduleVars, environmentVars, nodeVars,
               localesVars, credVars, trailVars, accountVars, healthVars, ingestVars>>

Parts == {"AgentCerts", "AuditSinks", "CaptureEnablement", "ClusterHealth", "ClusterRegistration", "CsiCapture",
          "GameConfig", "ManagementKey", "ModuleInstall", "NotifyDelivery", "ProviderRegistry", "ServerTunnel",
          "SidecarCapture", "SnapshotForget", "SyslogBridge", "TelemetryReporter", "TemplateRollout",
          "VolumeRestore"}
\* A component that is not the chosen one rests in one of its initial states.
SuiteInit ==
    /\ part \in Parts
    /\ CertInit
    /\ SinkInit /\ (part # "AuditSinks" => sink = "s3")
    /\ EnableInit
    /\ ClusterHealthInit /\ (part # "ClusterHealth" => \A g \in 1..Generations : credentialOf[g] = "good")
    /\ ClusterInit /\ (part # "ClusterRegistration" => ~standalone)
    /\ CsiInit /\ (part # "CsiCapture" => ~retain)
    /\ ConfigInit
    /\ KeyInit /\ (part # "ManagementKey" => ~provided /\ generated = 0 /\ keyRow.key = 0)
    /\ ModuleInit /\ (part # "ModuleInstall" => tmpl.owner = "none")
    /\ NotifyInit
    /\ RegistryInit /\ (part # "ProviderRegistry" => ~externalUrl)
    /\ TunnelInit
    /\ CaptureInit
    /\ ForgetInit /\ (part # "SnapshotForget" => ~fb.legacy)
    /\ BridgeInit /\ (part # "SyslogBridge" => network = "tcp")
    /\ TelemetryInit /\ (part # "TelemetryReporter" => choice = "default")
    /\ RolloutInit /\ (part # "TemplateRollout" => ~sts.exists /\ gs.fromRestore = 0)
    /\ VolumeRestoreInit /\ (part # "VolumeRestore" => target.by = "nobody" /\ \A r \in Refs : source[r] = "owned")
    /\ ScheduleInit /\ sched.policy = "Allow"
    /\ EnvironmentInit /\ ~injected /\ ids = "append" /\ \A l \in DOMAIN given : given[l] = "plain"
    /\ NodeInit
    /\ LocalesInit
    /\ CredInit /\ tunnel.provider = "frp"
    /\ TrailInit /\ lastRow = 0
    /\ AccountInit
    /\ HealthInit /\ observer = "informer"
    /\ IngestInit
OthersRest ==
    /\ UNCHANGED <<part, scheduleVars, environmentVars, nodeVars, localesVars, credVars, trailVars,
                   accountVars, healthVars, ingestVars>>
    /\ part # "AgentCerts" => UNCHANGED certVars
    /\ part # "AuditSinks" => UNCHANGED sinkVars
    /\ part # "CaptureEnablement" => UNCHANGED enableVars
    /\ part # "ClusterHealth" => UNCHANGED clusterHealthVars
    /\ part # "ClusterRegistration" => UNCHANGED clusterVars
    /\ part # "CsiCapture" => UNCHANGED csiVars
    /\ part # "GameConfig" => UNCHANGED configVars
    /\ part # "ManagementKey" => UNCHANGED keyVars
    /\ part # "ModuleInstall" => UNCHANGED moduleVars
    /\ part # "NotifyDelivery" => UNCHANGED notifyVars
    /\ part # "ProviderRegistry" => UNCHANGED registryVars
    /\ part # "ServerTunnel" => UNCHANGED tunnelVars
    /\ part # "SidecarCapture" => UNCHANGED captureVars
    /\ part # "SnapshotForget" => UNCHANGED forgetVars
    /\ part # "SyslogBridge" => UNCHANGED bridgeVars
    /\ part # "TelemetryReporter" => UNCHANGED telemetryVars
    /\ part # "TemplateRollout" => UNCHANGED rolloutVars
    /\ part # "VolumeRestore" => UNCHANGED vrVars
SuiteNext ==
    \/ part = "AgentCerts" /\ OthersRest /\ CertNext
    \/ part = "AuditSinks" /\ OthersRest /\ SinkNext
    \/ part = "CaptureEnablement" /\ OthersRest /\ EnableNext
    \/ part = "ClusterHealth" /\ OthersRest /\ ClusterHealthNext
    \/ part = "ClusterRegistration" /\ OthersRest /\ ClusterNext
    \/ part = "CsiCapture" /\ OthersRest /\ CsiNext
    \/ part = "GameConfig" /\ OthersRest /\ ConfigNext
    \/ part = "ManagementKey" /\ OthersRest /\ KeyNext
    \/ part = "ModuleInstall" /\ OthersRest /\ ModuleNext
    \/ part = "NotifyDelivery" /\ OthersRest /\ NotifyNext
    \/ part = "ProviderRegistry" /\ OthersRest /\ RegistryNext
    \/ part = "ServerTunnel" /\ OthersRest /\ TunnelNext
    \/ part = "SidecarCapture" /\ OthersRest /\ CaptureNext
    \/ part = "SnapshotForget" /\ OthersRest /\ ForgetNext
    \/ part = "SyslogBridge" /\ OthersRest /\ BridgeNext
    \/ part = "TelemetryReporter" /\ OthersRest /\ TelemetryNext
    \/ part = "TemplateRollout" /\ OthersRest /\ RolloutNext
    \/ part = "VolumeRestore" /\ OthersRest /\ VolumeRestoreNext

\* Each component's fair steps, gathered by rank into actions that TLC takes as one: since part never
\* changes, a behaviour is fair to every one of its component's own steps.
Fair1 ==
    \/ part = "AgentCerts" /\ CertOperatorStep
    \/ part = "AuditSinks" /\ WebhookTakes
    \/ part = "CaptureEnablement" /\ PodStatusMoves
    \/ part = "ClusterHealth" /\ ClusterSynced
    \/ part = "ClusterRegistration" /\ RequestStep
    \/ part = "CsiCapture" /\ CsiStep
    \/ part = "GameConfig" /\ ConfigPass
    \/ part = "ManagementKey" /\ RotationStep
    \/ part = "ModuleInstall" /\ ModuleSynced
    \/ part = "NotifyDelivery" /\ NotifyWorkerStep
    \/ part = "ProviderRegistry" /\ ResolverStep(1)
    \/ part = "ServerTunnel" /\ ServiceSynced
    \/ part = "SidecarCapture" /\ CapturesSynced
    \/ part = "SnapshotForget" /\ FinalizeDelete
    \/ part = "SyslogBridge" /\ Handles(1)
    \/ part = "TelemetryReporter" /\ ReplicaStep(1)
    \/ part = "TemplateRollout" /\ RolloutPass
    \/ part = "VolumeRestore" /\ (Refused \/ RecordStart \/ PlanOwnedRefCopies \/ BindRestoreTarget)
Fair2 ==
    \/ part = "AgentCerts" /\ CachesSync
    \/ part = "AuditSinks" /\ SinkPost
    \/ part = "CaptureEnablement" /\ PodSynced
    \/ part = "ClusterHealth" /\ ClusterHealthTimerFires
    \/ part = "ClusterRegistration" /\ LoadStep
    \/ part = "CsiCapture" /\ OutdatedPassEnds
    \/ part = "GameConfig" /\ ConfigPodStarts
    \/ part = "ManagementKey" /\ PublicationStep
    \/ part = "ModuleInstall" /\ Unresolved
    \/ part = "NotifyDelivery" /\ WatchRound
    \/ part = "ServerTunnel" /\ RelayStops
    \/ part = "SidecarCapture" /\ PassGoesOn
    \/ part = "SnapshotForget" /\ ForgetWaitElapses
    \/ part = "SyslogBridge" /\ Handles(2)
    \/ part = "TelemetryReporter" /\ SlotRipens
    \/ part = "TemplateRollout" /\ OtherReleases
    \/ part = "VolumeRestore" /\ PrepareTarget
Fair3 ==
    \/ part = "AgentCerts" /\ VolumeSync
    \/ part = "AuditSinks" /\ S3Takes
    \/ part = "CaptureEnablement" /\ CapturesListed
    \/ part = "ClusterHealth" /\ CheckStep
    \/ part = "ClusterRegistration" /\ WatchSeesDeletion
    \/ part = "CsiCapture" /\ BeginCsiPass
    \/ part = "ManagementKey" /\ CrashesEnd
    \/ part = "ModuleInstall" /\ BeginPull
    \/ part = "ServerTunnel" /\ RelayStarts
    \/ part = "SnapshotForget" /\ CopyJobEnds
    \/ part = "TelemetryReporter" /\ ApplyNotice
    \/ part = "TemplateRollout" /\ CacheCatchesUp
    \/ part = "VolumeRestore" /\ AwaitFails
Fair4 ==
    \/ part = "AuditSinks" /\ FlushTick
    \/ part = "CaptureEnablement" /\ CaptureGoesOn
    \/ part = "CsiCapture" /\ CsiDeadlinePasses
    \/ part = "ServerTunnel" /\ RolloutObserved
    \/ part = "TemplateRollout" /\ RolloutPodStarts
    \/ part = "VolumeRestore" /\ VolumeRestoreDeadlinePasses
Fair5 ==
    \/ part = "AuditSinks" /\ PushBatch
    \/ part = "CaptureEnablement" /\ DuePass
    \/ part = "CsiCapture" /\ TroubleEnds
    \/ part = "ServerTunnel" /\ ReconcileTunnelRBAC
    \/ part = "TemplateRollout" /\ PodStops
    \/ part = "VolumeRestore" /\ RestorePassEnds
Fair6 ==
    \/ part = "AuditSinks" /\ StartDraining
    \/ part = "CaptureEnablement" /\ Resync
    \/ part = "TemplateRollout" /\ CopyRestoredTemplate
Fair7 ==
    \/ part = "AuditSinks" /\ SinkDrainEnds
Strong1 ==
    \/ part = "ManagementKey" /\ LoadKey("rotate")
    \/ part = "ModuleInstall" /\ RefuseBundle
    \/ part = "ProviderRegistry" /\ ClockTicks
    \/ part = "ServerTunnel" /\ ReconcileTunnel
    \/ part = "SidecarCapture" /\ BeginCapturePass(1)
    \/ part = "VolumeRestore" /\ CreateRestored
Strong2 ==
    \/ part = "ModuleInstall" /\ ApplyTemplate
    \/ part = "ServerTunnel" /\ ReportTunnel
    \/ part = "SidecarCapture" /\ StopSidecar
Strong3 ==
    \/ part = "ModuleInstall" /\ ModuleApplyLocales
    \/ part = "SidecarCapture" /\ CompleteRequestedStop
Strong4 ==
    \/ part = "ModuleInstall" /\ RecordReady
\* The variables of the chosen component: a fair step is one that changes these.
partVars ==
    CASE part = "AgentCerts" -> certVars
      [] part = "AuditSinks" -> sinkVars
      [] part = "CaptureEnablement" -> enableVars
      [] part = "ClusterHealth" -> clusterHealthVars
      [] part = "ClusterRegistration" -> clusterVars
      [] part = "CsiCapture" -> csiVars
      [] part = "GameConfig" -> configVars
      [] part = "ManagementKey" -> keyVars
      [] part = "ModuleInstall" -> moduleVars
      [] part = "NotifyDelivery" -> notifyVars
      [] part = "ProviderRegistry" -> registryVars
      [] part = "ServerTunnel" -> tunnelVars
      [] part = "SidecarCapture" -> captureVars
      [] part = "SnapshotForget" -> forgetVars
      [] part = "SyslogBridge" -> bridgeVars
      [] part = "TelemetryReporter" -> telemetryVars
      [] part = "TemplateRollout" -> rolloutVars
      [] part = "VolumeRestore" -> vrVars
SuiteFairness ==
    /\ WF_partVars(Fair1 /\ UNCHANGED part)
    /\ WF_partVars(Fair2 /\ UNCHANGED part)
    /\ WF_partVars(Fair3 /\ UNCHANGED part)
    /\ WF_partVars(Fair4 /\ UNCHANGED part)
    /\ WF_partVars(Fair5 /\ UNCHANGED part)
    /\ WF_partVars(Fair6 /\ UNCHANGED part)
    /\ WF_partVars(Fair7 /\ UNCHANGED part)
    /\ SF_partVars(Strong1 /\ UNCHANGED part)
    /\ SF_partVars(Strong2 /\ UNCHANGED part)
    /\ SF_partVars(Strong3 /\ UNCHANGED part)
    /\ SF_partVars(Strong4 /\ UNCHANGED part)
SuiteSpec == SuiteInit /\ [][SuiteNext]_suiteVars /\ SuiteFairness

OperationRuns ==
    \/ part = "CaptureEnablement" /\ capSettled /\ ~capEnabled
    \/ part = "CsiCapture" /\ csiFrozen
    \/ part = "ManagementKey" /\ keyState.previous # 0
    \/ part = "SidecarCapture" /\ \E c \in Capture : nc[c].stop
    \/ part = "SnapshotForget" /\ fb.deleting
    \/ part = "TemplateRollout" /\ HoldsRollout(gs)
    \/ part = "VolumeRestore" /\ vr.phase = "Running"
OperationEnded ==
    \/ part = "CaptureEnablement" /\ \A c \in EnabledCaptures : captureOf[c] \in {"none", "ended"}
    \/ part = "CsiCapture" /\ ~csiFrozen
    \/ part = "ManagementKey" /\ keyVerdict \in Success
    \/ part = "SidecarCapture" /\ \A c \in Capture : nc[c].stop => nc[c].phase \in Terminal \cup {"gone"}
    \/ part = "SnapshotForget" /\ fb.gone
    \/ part = "TemplateRollout" /\ (HoldsRollout(gs) => Obstructed)
    \/ part = "VolumeRestore" /\ (vr.phase # "Running" \/ target.phase = "Running")
\* An operation that began comes to its end: captures end once capturing is disabled; a game frozen for
\* a CSI snapshot saves again; a rotation of the management key is confirmed; a capture asked to stop
\* ends; a Backup being deleted is gone once its snapshot is forgotten; a template rollout lets go of
\* its server unless something obstructs it; a restore of volume references runs or is decided.
OperationsEnd == OperationRuns ~> OperationEnded

DeliveryOwed ==
    \/ part = "AuditSinks" /\ audited > 0
    \/ part = "ProviderRegistry" /\ idpSettled
    \/ part = "SyslogBridge"
    \/ part = "TelemetryReporter" /\ telemetryCalm /\ TelemetryGate /\ ~recent
DeliveryMade ==
    \/ part = "AuditSinks" /\ (sinkProcess = "exited" \/ \A e \in 1..audited : \E c \in DOMAIN counted : e \in counted[c])
    \/ part = "ProviderRegistry" /\ answer.from = registryRow.version
    \/ part = "SyslogBridge" /\ \A p \in Posts : post[p] \in {"accepted", "failed", "refused"}
    \/ part = "TelemetryReporter" /\ recent
\* What is owed to an outside party is delivered: an audited event is written or counted as lost by the
\* sink; logins come to use the stored provider once the identity provider is steady; a post to the
\* syslog bridge is answered; reports keep coming while the gate is open.
DeliveriesMade == DeliveryOwed ~> DeliveryMade

WorldSettled ==
    \/ part = "ClusterHealth" /\ healthSettled
    \/ part = "ClusterRegistration"
    \/ part = "NotifyDelivery" /\ settled
    \/ part = "TelemetryReporter" /\ telemetryCalm /\ ~TelemetryGate
StatusTrue ==
    \/ part = "ClusterHealth" /\ clusterHealthVerdict.observed = generation
       /\ (clusterHealthVerdict.phase = "healthy" <=> Reachable)
    \/ part = "ClusterRegistration" /\ clusterClient = ClusterIdentity
    \/ part = "NotifyDelivery" /\ pending = 0 /\ fan = NotifyResting
       /\ poller = IF \E s \in NotifySinks : sinks[s] = "bound" THEN registered ELSE 0
    \/ part = "TelemetryReporter" /\ due = NoSlot
\* When the world stays still, what is reported of it becomes true and stays true: the health verdict
\* is about the current cluster and right; the cached client is the one of the registered cluster; the
\* notification queue drains and the pollers are the bound sinks'; a closed gate leaves no report due.
StatusConverges == <>[]WorldSettled => <>[]StatusTrue

SpecSettled ==
    \/ part = "AgentCerts" /\ caSettled
    \/ part = "CaptureEnablement" /\ capSettled /\ capEnabled /\ capPod.pod > 0
    \/ part = "GameConfig" /\ quiet /\ configWanted.option # 0 /\ ConfigKnown(configWanted.version)
    \/ part = "ModuleInstall" /\ mod.life = "live" /\ catalog = store
    \/ part = "ServerTunnel" /\ tunnelCredential = "foreign" /\ tunnelWanted \in {"frp", "tailscale", "playit"}
WorkloadFollows ==
    \/ part = "AgentCerts" /\ volume.signer = ca /\ volume.names = wantNames
    \/ part = "CaptureEnablement" /\ capPod.container \in {"running", "ended"}
    \/ part = "GameConfig" /\ RunsWith(configWanted)
    \/ part = "ModuleInstall" /\ (\/ mod.phase = "Failed" \/ tmpl.owner = "manual"
        \/ /\ tmpl.owner = "module" /\ mod.phase = "Ready" /\ tmpl.content = mod.applied
           /\ mod.applied[2] = store[mod.applied[1]])
    \/ part = "ServerTunnel" /\ ~relay.mounts
\* When what is wanted stays, the workload follows it for good: an agent certificate is signed by the
\* current authority for the wanted names; a pod of a server with capturing enabled has the capture
\* container; an accepted configuration is the one that runs; a module is applied with the content its
\* catalog names, or has failed; a credential of another owner is not mounted by the relay.
SpecReachesWorkload == <>[]SpecSettled => <>[]WorkloadFollows
=============================================================================
