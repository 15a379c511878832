------------------------------- MODULE MCAgent --------------------------------
(*****************************************************************************)
(* The agent and the processes around a game, with the routes and rights     *)
(* that lead to it, model-checked side by side: a behaviour chooses one of   *)
(* the components, which share no state, and runs it alone.                  *)
(*****************************************************************************)
EXTENDS ServerAccess, AgentData, AgentConsole, CaptureProcesses, GameConfiguration, IdleSleep,
        TunnelRelay, TLC

(* Values of constants. *)
MCQuiesceCommands == <<"pause", "flush">>
MCCatalog == <<[id |-> "old", loader |-> "paper", default |-> FALSE], [id |-> "new", loader |-> "paper", default |-> TRUE],
               [id |-> "bare", loader |-> "vanilla", default |-> FALSE]>>
MCClaimOf == [v \in {"old", "new", "bare"} |-> v]
MCPortOf == "a" :> "game" @@ "b" :> "query" @@ "c" :> "other"

VARIABLE part    \* the component this behaviour is about
suiteVars == <<part, sharingVars, routeVars, quiesceVars, rconVars, httpVars, beVars, sidecarVars,
               workerVars, fileVars, modVars, configVars, environmentVars, idleVars, sentinelVars, udpVars,
               relayVars, reporterVars, tailnetVars, attachVars, logVars, tailVars>>

Parts == {"ServerSharing", "AgentRoute", "AgentQuiesce", "RconStream", "RconHttp", "BattlEyeClient",
          "CaptureSidecar", "NodeCaptureWorker", "FileStore", "ModFiles", "GameConfig", "GameEnvironment",
          "IdleScaler", "WakeSentinel", "UdpWake", "RelaySupervisor", "PlayitReporter", "TailnetForward",
          "ConsoleAttach", "PodLogTimeline", "LogTail"}
\* A component that is not the chosen one rests in one of its initial states.
SuiteInit ==
    /\ part \in Parts
    /\ SharingInit
    /\ RouteInit
    /\ QuiesceInit
    /\ RconInit /\ (part # "RconStream" => protocol = "source")
    /\ HttpInit /\ (part # "RconHttp" => httpClient = "rest")
    /\ BeInit
    /\ SidecarInit
    /\ WorkerInit
    /\ FileInit /\ (part # "FileStore" => fileEntry.type = "none")
    /\ ModInit /\ (part # "ModFiles" => ~extract)
    /\ ConfigInit
    /\ EnvironmentInit /\ (part # "GameEnvironment" => ~injected /\ ids = "append" /\ \A l \in DOMAIN given : given[l] = "plain")
    /\ IdleInit
    /\ SentinelInit
    /\ UdpInit
    /\ RelayInit
    /\ ReporterInit
    /\ TailnetInit
    /\ AttachInit /\ (part # "ConsoleAttach" => attachUse = "console")
    /\ LogsInit /\ (part # "PodLogTimeline" => ~fromEnd /\ doomed = 0)
    /\ TailInit /\ (part # "LogTail" => atPath /\ tailStart = "end" /\ size[1] = 0)
OthersRest ==
    /\ UNCHANGED part
    /\ part # "ServerSharing" => UNCHANGED sharingVars
    /\ part # "AgentRoute" => UNCHANGED routeVars
    /\ part # "AgentQuiesce" => UNCHANGED quiesceVars
    /\ part # "RconStream" => UNCHANGED rconVars
    /\ part # "RconHttp" => UNCHANGED httpVars
    /\ part # "BattlEyeClient" => UNCHANGED beVars
    /\ part # "CaptureSidecar" => UNCHANGED sidecarVars
    /\ part # "NodeCaptureWorker" => UNCHANGED workerVars
    /\ part # "FileStore" => UNCHANGED fileVars
    /\ part # "ModFiles" => UNCHANGED modVars
    /\ part # "GameConfig" => UNCHANGED configVars
    /\ part # "GameEnvironment" => UNCHANGED environmentVars
    /\ part # "IdleScaler" => UNCHANGED idleVars
    /\ part # "WakeSentinel" => UNCHANGED sentinelVars
    /\ part # "UdpWake" => UNCHANGED udpVars
    /\ part # "RelaySupervisor" => UNCHANGED relayVars
    /\ part # "PlayitReporter" => UNCHANGED reporterVars
    /\ part # "TailnetForward" => UNCHANGED tailnetVars
    /\ part # "ConsoleAttach" => UNCHANGED attachVars
    /\ part # "PodLogTimeline" => UNCHANGED logVars
    /\ part # "LogTail" => UNCHANGED tailVars
SuiteNext ==
    \/ part = "ServerSharing" /\ OthersRest /\ SharingNext
    \/ part = "AgentRoute" /\ OthersRest /\ RouteNext
    \/ part = "AgentQuiesce" /\ OthersRest /\ QuiesceNext
    \/ part = "RconStream" /\ OthersRest /\ RconNext
    \/ part = "RconHttp" /\ OthersRest /\ HttpNext
    \/ part = "BattlEyeClient" /\ OthersRest /\ BeNext
    \/ part = "CaptureSidecar" /\ OthersRest /\ SidecarNext
    \/ part = "NodeCaptureWorker" /\ OthersRest /\ WorkerNext
    \/ part = "FileStore" /\ OthersRest /\ FileNext
    \/ part = "ModFiles" /\ OthersRest /\ ModNext
    \/ part = "GameConfig" /\ OthersRest /\ ConfigNext
    \/ part = "GameEnvironment" /\ OthersRest /\ EnvironmentNext
    \/ part = "IdleScaler" /\ OthersRest /\ IdleNext
    \/ part = "WakeSentinel" /\ OthersRest /\ SentinelNext
    \/ part = "UdpWake" /\ OthersRest /\ UdpNext
    \/ part = "RelaySupervisor" /\ OthersRest /\ RelayNext
    \/ part = "PlayitReporter" /\ OthersRest /\ ReporterNext
    \/ part = "TailnetForward" /\ OthersRest /\ TailnetNext
    \/ part = "ConsoleAttach" /\ OthersRest /\ AttachNext
    \/ part = "PodLogTimeline" /\ OthersRest /\ LogsNext
    \/ part = "LogTail" /\ OthersRest /\ TailNext

SuiteSpec == SuiteInit /\ [][SuiteNext]_suiteVars

\* Requests to a game: they reach the server they were resolved and granted for and act with the rights
\* of its present owner, a reply answers its own command, a rejected password is not tried again during
\* the cooldown, and a game left frozen is known to be.
CommandsSafe ==
    /\ [](/\ SharingTypeOK
          /\ RouteTypeOK /\ ReachesResolvedServer /\ ReachesGrantedServer
          /\ QuiesceTypeOK /\ FrozenIsOwed
          /\ RconTypeOK /\ AnswersOwnCommand
          /\ HttpTypeOK /\ CooldownIsAirtight
          /\ BeTypeOK /\ NoSplicedReply)
    /\ OwnerActs
    /\ NoEffectOnReplacement
    /\ CollaboratorsWithoutOwner
    /\ RestartIsNoRejection

\* Files and configuration of a game: no file is torn, replaced by a creation or stripped of its
\* rights, the ledger of mods tells what is installed, each version keeps its own mods, and game and
\* agent run with one password and the documented environment.
FilesSafe ==
    /\ [](/\ FileTypeOK /\ NeverTorn
          /\ ModTypeOK /\ NoLeftovers /\ LedgerHonest
          /\ ConfigTypeOK /\ GameAndAgentAgree /\ ModSetsKept
          /\ EnvironmentTypeOK /\ PrecedenceHolds)
    /\ CreateNeverReplaces
    /\ WriteKeepsAccess
    /\ UpgradeKeepsOne

\* Idle sleep and relays: a wake is justified, bounded and keeps its period, players handed through are
\* kept, an exited relay is never ready, and no session or slot outlives its forwarder.
SleepAndRelaysSafe ==
    /\ [](/\ IdleTypeOK
          /\ SentinelTypeOK /\ BurstBounded /\ ExitLeavesNothing
          /\ UdpTypeOK /\ WakeJustified
          /\ RelayTypeOK /\ ExitedNeverReady
          /\ ReporterTypeOK
          /\ TailnetTypeOK /\ NothingOutlivesAttempt /\ SlotsAccounted)
    /\ WokenKeepsPeriod
    /\ HandedThroughKept
    /\ OneWakePerWindow
    /\ ResetNeedsOneLongRun

\* Captures, consoles and logs beside a game: one writer per capture within the budget and only of its
\* target, quick actions drain before they end, and a log is followed over rotations in its own pod
\* without a loss.
StreamsSafe ==
    /\ SidecarTypeOK /\ EndedMeansClosed /\ OneWriter /\ WithinBudget /\ EndsForItself
    /\ WorkerTypeOK /\ CapturesOnlyTarget /\ CompletedIsTargets /\ ResultDescribesFile
    /\ AttachTypeOK /\ SentMeansDrained
    /\ LogsTypeOK /\ OwnPodOnly
    /\ TailTypeOK /\ RotationLosesNothing
=============================================================================
