------------------------------ MODULE MCServices ------------------------------
(*****************************************************************************)
(* Server health and notifications, the capture API, the audit trail and its *)
(* sinks, modules, upstream caches and tunnels, model-checked side by side:  *)
(* a behaviour chooses one of the components, which share no state, and runs *)
(* it alone.                                                                 *)
(*****************************************************************************)
EXTENDS HealthAndAlerts, CaptureApi, Audit, Modules, UpstreamCaches, Tunnels, TLC

(* Values of constants. *)
MCProviderOf == [p \in {"a", "b", "c"} |-> CASE p = "a" -> "steam" [] p = "b" -> "modrinth" [] p = "c" -> "curseforge"]

VARIABLE part    \* the component this behaviour is about
suiteVars == <<part, healthVars, notifyVars, captureApiVars, trailVars, sinkVars, bridgeVars, moduleVars,
               localesVars, updateVars, steamVars, playerVars, tunnelVars, credVars>>

Parts == {"ServerHealth", "NotifyDelivery", "CaptureApi", "AuditTrail", "AuditSinks", "SyslogBridge",
          "ModuleInstall", "ModuleLocales", "ModUpdates", "SteamNames", "PlayerCache", "ServerTunnel",
          "TunnelCredentials"}
\* A component that is not the chosen one rests in one of its initial states.
SuiteInit ==
    /\ part \in Parts
    /\ HealthInit /\ (part # "ServerHealth" => observer = "informer")
    /\ NotifyInit
    /\ CaptureApiInit
    /\ TrailInit /\ (part # "AuditTrail" => lastRow = 0)
    /\ SinkInit /\ (part # "AuditSinks" => sink = "s3")
    /\ BridgeInit /\ (part # "SyslogBridge" => network = "tcp")
    /\ ModuleInit /\ (part # "ModuleInstall" => tmpl.owner = "none")
    /\ LocalesInit
    /\ UpdateInit
    /\ SteamInit /\ (part # "SteamNames" => \A i \in SteamIds : ~named[i])
    /\ PlayerInit /\ (part # "PlayerCache" => ~commands /\ answering = "ok")
    /\ TunnelInit
    /\ CredInit /\ (part # "TunnelCredentials" => tunnel.provider = "frp")
OthersRest ==
    /\ UNCHANGED part
    /\ part # "ServerHealth" => UNCHANGED healthVars
    /\ part # "NotifyDelivery" => UNCHANGED notifyVars
    /\ part # "CaptureApi" => UNCHANGED captureApiVars
    /\ part # "AuditTrail" => UNCHANGED trailVars
    /\ part # "AuditSinks" => UNCHANGED sinkVars
    /\ part # "SyslogBridge" => UNCHANGED bridgeVars
    /\ part # "ModuleInstall" => UNCHANGED moduleVars
    /\ part # "ModuleLocales" => UNCHANGED localesVars
    /\ part # "ModUpdates" => UNCHANGED updateVars
    /\ part # "SteamNames" => UNCHANGED steamVars
    /\ part # "PlayerCache" => UNCHANGED playerVars
    /\ part # "ServerTunnel" => UNCHANGED tunnelVars
    /\ part # "TunnelCredentials" => UNCHANGED credVars
SuiteNext ==
    \/ part = "ServerHealth" /\ OthersRest /\ HealthNext
    \/ part = "NotifyDelivery" /\ OthersRest /\ NotifyNext
    \/ part = "CaptureApi" /\ OthersRest /\ CaptureApiNext
    \/ part = "AuditTrail" /\ OthersRest /\ TrailNext
    \/ part = "AuditSinks" /\ OthersRest /\ SinkNext
    \/ part = "SyslogBridge" /\ OthersRest /\ BridgeNext
    \/ part = "ModuleInstall" /\ OthersRest /\ ModuleNext
    \/ part = "ModuleLocales" /\ OthersRest /\ LocalesNext
    \/ part = "ModUpdates" /\ OthersRest /\ UpdateNext
    \/ part = "SteamNames" /\ OthersRest /\ SteamNext
    \/ part = "PlayerCache" /\ OthersRest /\ PlayerNext
    \/ part = "ServerTunnel" /\ OthersRest /\ TunnelNext
    \/ part = "TunnelCredentials" /\ OthersRest /\ CredNext

SuiteSpec == SuiteInit /\ [][SuiteNext]_suiteVars

\* Health and notifications: a failure raises an alert that its recovery withdraws, also over re-
\* created servers and skipped versions, and a lost notification shows.
AlertsSafe ==
    /\ [](/\ HealthTypeOK /\ RunningLeavesNoAlert /\ FailureAlerted
          /\ NotifyTypeOK /\ LossIsVisible)
    /\ RecoveryPairsOutage

\* Captures and audit: no capture leaves without its audit row, an intact chain verifies after every
\* sweep, and the mirrors store each event once, in order and in whole frames, or count it as lost.
AuditSafe ==
    /\ [](/\ CaptureApiTypeOK /\ NoStrandedFile /\ ServedWasAudited
          /\ TrailTypeOK /\ IntactChainVerifies /\ RecordedOnce
          /\ SinkTypeOK /\ GapsAreCounted /\ StoredOnceInOrder
          /\ BridgeTypeOK /\ FramesStayInStep)
    /\ PhaseNeverRewinds

\* Modules and upstream caches: only signed and pinned content is applied and a template made by hand
\* is kept, no language is lost unnoticed, and a cached answer is neither older than its bound nor than
\* the moderation that changed it.
CatalogSafe ==
    /\ [](/\ ModuleTypeOK /\ OnlySignedContent /\ PinHeld
          /\ LocalesTypeOK /\ ServedWithinBound /\ NoLanguageLost
          /\ UpdateTypeOK /\ AnswerWithinTtl
          /\ SteamTypeOK /\ NamelessOnlyBriefly
          /\ PlayerTypeOK /\ CachedAfterModeration)
    /\ ManualTemplateKept

\* Tunnels: an address is published only for a relay that is ready in its present form, and a Secret or
\* key in use is kept while credentials and providers are switched.
TunnelsSafe ==
    /\ [](/\ TunnelTypeOK /\ TailnetOnlyWhenReady
          /\ CredTypeOK /\ ReferencedSecretExists)
    /\ ReadyCountsCurrentRelay
    /\ ActiveKeyKept
=============================================================================
