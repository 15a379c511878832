--------------------------- MODULE MCAgentLiveness ----------------------------
(*****************************************************************************)
(* Progress of the agent and of the processes around a game: a behaviour     *)
(* chooses one of the components, which share no state, and is fair to its   *)
(* steps.                                                                    *)
(*****************************************************************************)
EXTENDS AgentConsole, CaptureProcesses, IdleSleep, TunnelRelay, TLC

(* Values of constants. *)
MCPortOf == "a" :> "game" @@ "b" :> "query" @@ "c" :> "other"

VARIABLE part    \* the component this behaviour is about
suiteVars == <<part, beVars, sidecarVars, attachVars, idleVars, tailVars, reporterVars, logVars, httpVars,
               rconVars, relayVars, tailnetVars, sentinelVars, udpVars, workerVars>>

Parts == {"BattlEyeClient", "CaptureSidecar", "ConsoleAttach", "IdleScaler", "LogTail", "PlayitReporter",
          "PodLogTimeline", "RconHttp", "RconStream", "RelaySupervisor", "TailnetForward", "WakeSentinel"}
\* A component that is not the chosen one rests in one of its initial states.
SuiteInit ==
    /\ part \in Parts
    /\ BeInit
    /\ SidecarInit
    /\ AttachInit /\ (part # "ConsoleAttach" => attachUse = "console")
    /\ IdleInit
    /\ TailInit /\ (part # "LogTail" => atPath /\ tailStart = "end" /\ size[1] = 0)
    /\ ReporterInit
    /\ LogsInit /\ (part # "PodLogTimeline" => ~fromEnd /\ doomed = 0)
    /\ HttpInit /\ (part # "RconHttp" => httpClient = "rest")
    /\ RconInit /\ (part # "RconStream" => protocol = "source")
    /\ RelayInit
    /\ TailnetInit
    /\ SentinelInit
    /\ UdpInit
    /\ WorkerInit
OthersRest ==
    /\ UNCHANGED <<part, udpVars, workerVars>>
    /\ part # "BattlEyeClient" => UNCHANGED beVars
    /\ part # "CaptureSidecar" => UNCHANGED sidecarVars
    /\ part # "ConsoleAttach" => UNCHANGED attachVars
    /\ part # "IdleScaler" => UNCHANGED idleVars
    /\ part # "LogTail" => UNCHANGED tailVars
    /\ part # "PlayitReporter" => UNCHANGED reporterVars
    /\ part # "PodLogTimeline" => UNCHANGED logVars
    /\ part # "RconHttp" => UNCHANGED httpVars
    /\ part # "RconStream" => UNCHANGED rconVars
    /\ part # "RelaySupervisor" => UNCHANGED relayVars
    /\ part # "TailnetForward" => UNCHANGED tailnetVars
    /\ part # "WakeSentinel" => UNCHANGED sentinelVars
SuiteNext ==
    \/ part = "BattlEyeClient" /\ OthersRest /\ BeNext
    \/ part = "CaptureSidecar" /\ OthersRest /\ SidecarNext
    \/ part = "ConsoleAttach" /\ OthersRest /\ AttachNext
    \/ part = "IdleScaler" /\ OthersRest /\ IdleNext
    \/ part = "LogTail" /\ OthersRest /\ TailNext
    \/ part = "PlayitReporter" /\ OthersRest /\ ReporterNext
    \/ part = "PodLogTimeline" /\ OthersRest /\ LogsNext
    \/ part = "RconHttp" /\ OthersRest /\ HttpNext
    \/ part = "RconStream" /\ OthersRest /\ RconNext
    \/ part = "RelaySupervisor" /\ OthersRest /\ RelayNext
    \/ part = "TailnetForward" /\ OthersRest /\ TailnetNext
    \/ part = "WakeSentinel" /\ OthersRest /\ SentinelNext

\* Each component's fair steps, gathered by rank into actions that TLC takes as one: since part never
\* changes, a behaviour is fair to every one of its component's own steps.
Fair1 ==
    \/ part = "BattlEyeClient" /\ LoginEnds
    \/ part = "CaptureSidecar" /\ CloseWriter
    \/ part = "ConsoleAttach" /\ PumpBrowser
    \/ part = "IdleScaler" /\ BeginIdlePass
    \/ part = "LogTail" /\ TailerStep
    \/ part = "PlayitReporter" /\ QueryPlayitState
    \/ part = "PodLogTimeline" /\ ContainersMove
    \/ part = "RconHttp" /\ CoolsDown
    \/ part = "RconStream" /\ RconGameAnswers
    \/ part = "RelaySupervisor" /\ LoadConfig
    \/ part = "TailnetForward" /\ JoinTailnet
    \/ part = "WakeSentinel" /\ ListenersEnd
Fair2 ==
    \/ part = "BattlEyeClient" /\ SendCommand
    \/ part = "CaptureSidecar" /\ PublishEnd
    \/ part = "ConsoleAttach" /\ PumpStdout
    \/ part = "IdleScaler" /\ ReconcileIdle
    \/ part = "LogTail" /\ NewFileAtPath
    \/ part = "PlayitReporter" /\ ReporterWakes
    \/ part = "PodLogTimeline" /\ HandlerStep
    \/ part = "RconHttp" /\ BeginCall
    \/ part = "RconStream" /\ CooldownTicks
    \/ part = "RelaySupervisor" /\ ReadCredentials
    \/ part = "TailnetForward" /\ OpenListener
    \/ part = "WakeSentinel" /\ SentinelDrainEnds
Fair3 ==
    \/ part = "BattlEyeClient" /\ Retransmit
    \/ part = "CaptureSidecar" /\ LeaveSlot
    \/ part = "ConsoleAttach" /\ AttachSteps
    \/ part = "RconHttp" /\ LoginLocked
    \/ part = "RconStream" /\ BeginExec
    \/ part = "RelaySupervisor" /\ ChildExits
    \/ part = "TailnetForward" /\ ServingEnds
    \/ part = "WakeSentinel" /\ RunReturns
Fair4 ==
    \/ part = "BattlEyeClient" /\ WaitEnds
    \/ part = "CaptureSidecar" /\ SidecarTimerFires(1)
    \/ part = "ConsoleAttach" /\ Negotiated
    \/ part = "RconHttp" /\ RequestWithPassword
    \/ part = "RconStream" /\ ReadFrame
    \/ part = "RelaySupervisor" /\ Query
    \/ part = "TailnetForward" /\ CloseForwarder
    \/ part = "WakeSentinel" /\ SentinelTakeSlot(1)
Fair5 ==
    \/ part = "CaptureSidecar" /\ TimerEnds(1)
    \/ part = "ConsoleAttach" /\ TakeSize
    \/ part = "RconHttp" /\ RunStep
    \/ part = "RconStream" /\ ReadTimesOut
    \/ part = "RelaySupervisor" /\ RelayObserve
    \/ part = "TailnetForward" /\ WaitTailnetRetry
    \/ part = "WakeSentinel" /\ Session(1)
Fair6 ==
    \/ part = "RconStream" /\ ConnectionEnds
    \/ part = "RelaySupervisor" /\ MonitorWakes
    \/ part = "TailnetForward" /\ AnySessionEnds
    \/ part = "WakeSentinel" /\ CutSession(1)
Fair7 ==
    \/ part = "RelaySupervisor" /\ StartAttempt
    \/ part = "WakeSentinel" /\ SentinelTakeSlot(2)
Fair8 ==
    \/ part = "RelaySupervisor" /\ CancelThenClear
    \/ part = "WakeSentinel" /\ Session(2)
Fair9 ==
    \/ part = "RelaySupervisor" /\ Joined
    \/ part = "WakeSentinel" /\ CutSession(2)
Fair10 ==
    \/ part = "RelaySupervisor" /\ WaitRelayRetry
Strong1 ==
    \/ part = "IdleScaler" /\ UndisturbedIdle
    \/ part = "PlayitReporter" /\ ReportSucceeds
Strong2 ==
    \/ part = "IdleScaler" /\ ReconcileSentinel
Strong3 ==
    \/ part = "IdleScaler" /\ ReconcileService
Strong4 ==
    \/ part = "IdleScaler" /\ ScaleGame
Strong5 ==
    \/ part = "IdleScaler" /\ IdleReconcileStatus
\* The variables of the chosen component: a fair step is one that changes these.
partVars ==
    CASE part = "BattlEyeClient" -> beVars
      [] part = "CaptureSidecar" -> sidecarVars
      [] part = "ConsoleAttach" -> attachVars
      [] part = "IdleScaler" -> idleVars
      [] part = "LogTail" -> tailVars
      [] part = "PlayitReporter" -> reporterVars
      [] part = "PodLogTimeline" -> logVars
      [] part = "RconHttp" -> httpVars
      [] part = "RconStream" -> rconVars
      [] part = "RelaySupervisor" -> relayVars
      [] part = "TailnetForward" -> tailnetVars
      [] part = "WakeSentinel" -> sentinelVars
SuiteFairness ==
    /\ WF_partVars(Fair1 /\ UNCHANGED part)
    /\ WF_partVars(Fair2 /\ UNCHANGED part)
    /\ WF_partVars(Fair3 /\ UNCHANGED part)
    /\ WF_partVars(Fair4 /\ UNCHANGED part)
    /\ WF_partVars(Fair5 /\ UNCHANGED part)
    /\ WF_partVars(Fair6 /\ UNCHANGED part)
    /\ WF_partVars(Fair7 /\ UNCHANGED part)
    /\ WF_partVars(Fair8 /\ UNCHANGED part)
    /\ WF_partVars(Fair9 /\ UNCHANGED part)
    /\ WF_partVars(Fair10 /\ UNCHANGED part)
    /\ SF_partVars(Strong1 /\ UNCHANGED part)
    /\ SF_partVars(Strong2 /\ UNCHANGED part)
    /\ SF_partVars(Strong3 /\ UNCHANGED part)
    /\ SF_partVars(Strong4 /\ UNCHANGED part)
    /\ SF_partVars(Strong5 /\ UNCHANGED part)
SuiteSpec == SuiteInit /\ [][SuiteNext]_suiteVars /\ SuiteFairness

ReleaseOwed ==
    \/ part = "BattlEyeClient" /\ beExec.at # "idle"
    \/ part = "CaptureSidecar" /\ \E n \in SidecarStarted : session[n].status # "ended"
    \/ part = "ConsoleAttach" /\ browser = "gone"
    \/ part = "PodLogTimeline" /\ viewer = "gone"
    \/ part = "RelaySupervisor" /\ signalled
    \/ part = "TailnetForward" /\ cancelled
    \/ part = "WakeSentinel" /\ sentinelProc \in {"stopping", "failing"}
Released ==
    \/ part = "BattlEyeClient" /\ beExec.at = "idle"
    \/ part = "CaptureSidecar" /\ \A n \in SidecarStarted : session[n].status = "ended" /\ finishing # n
    \/ part = "ConsoleAttach" /\ attachHandler = "returned" /\ pumpIn = "done" /\ pumpOut = "done"
    \/ part = "PodLogTimeline" /\ timeline.at = "returned"
    \/ part = "RelaySupervisor" /\ supervisor = "returned"
    \/ part = "TailnetForward" /\ attempt = "returned"
    \/ part = "WakeSentinel" /\ sentinelProc \in {"exited", "crashed"}
\* What an agent process holds is let go of when its user or its process goes: a command to a BattlEye
\* server returns; a capture session ends and leaves nothing finishing; a gone browser ends the attach
\* and both its pumps; a gone viewer ends the log timeline; a signalled relay supervisor returns; a
\* cancelled forwarding attempt returns; a stopping sentinel exits.
AgentReleases == ReleaseOwed ~> Released

ServiceOwed ==
    \/ part = "IdleScaler" /\ server.requested # server.completed
    \/ part = "LogTail" /\ rotationsEnd
    \/ part = "PodLogTimeline" /\ containers[GameStep] = "running"
    \/ part = "RconHttp" /\ steady
    \/ part = "RconStream" /\ calm
    \/ part = "TailnetForward" /\ failed
Served ==
    \/ part = "IdleScaler" /\ (server.requested = server.completed \/ server.mode # "idle")
    \/ part = "LogTail" /\ (tailer = "ended" \/ (fd = tailLatest /\ pos = size[tailLatest]))
    \/ part = "PodLogTimeline" /\ (timeline.at = "returned" \/ timeline.step = GameStep)
    \/ part = "RconHttp" /\ httpLast = "ok"
    \/ part = "RconStream" /\ last.result = "ok"
    \/ part = "TailnetForward" /\ ~tailReady
\* A request is served once the fault that delayed it is over: a wake request is completed or idling is
\* given up; the tailer catches up with the last log file; the timeline reaches the running game; calls
\* succeed again on a steady server; a corrected password is used; a broken listener clears readiness.
AgentServes == ServiceOwed ~> Served

RouteSettled ==
    \/ part = "IdleScaler" /\ ~server.asleep /\ server.mode # "suspended" /\ server.requested = server.completed
       /\ idleGame = "ready"
    \/ part = "PlayitReporter" /\ playitd = "running" /\ reporterListed = {"a", "b"}
RouteTrue ==
    \/ part = "IdleScaler" /\ route = "game" /\ sentinel = "none"
    \/ part = "PlayitReporter" /\ endpointsSet = PlayitEndpoints({"a", "b"})
\* When the servers stay as they are, the traffic reaches them for good: traffic of an awake server
\* goes to the game and no sentinel is left; the reported endpoints are those of the running tunnels.
RoutesConverge == <>[]RouteSettled => <>[]RouteTrue
=============================================================================
