----------------------------- MODULE TunnelRelay ------------------------------
(*****************************************************************************)
(* The processes in a relay's pod. The parts share no state; each has its    *)
(* own initial states and steps.                                             *)
(*****************************************************************************)
EXTENDS Integers, FiniteSetsExt, FiniteSets

(***************************************************************************)
(* The wrapper in a relay pod: it supervises the provider's child process, *)
(* polls its connection from a second goroutine, answers /readyz from a    *)
(* lease on the last observation, and restarts the child with a backoff    *)
(* that only a minute of uninterrupted readiness resets.                   *)
(***************************************************************************)
CONSTANTS StaleAfter,   \* healthStaleAfter, in ticks
          ResetAfter,   \* healthyResetAfter, in ticks
          MaxRetries    \* where the retry counter saturates
ASSUME RelayAssumption == StaleAfter \in Nat \ {0} /\ ResetAfter \in Nat \ {0} /\ MaxRetries \in Nat \ {0}

VARIABLES
    signalled,    \* the root context is cancelled: SIGTERM arrived
    supervisor,   \* "config", "credential", "attempt", "run", "exited", "cancelled", "cleared", "backoff", "returned"
    child,        \* the relay process: "none", "up" or "connected" (forwards registered)
    monitor,      \* the attempt's monitor: "none", "asks", "unready", "ready" (an answer in hand), "sleeps"
    lease,        \* relayHealth: ready observed, age of the observation, for how long healthy (-1: not)
    retries,
    uptime        \* history: ticks since the attempt began
relayVars == <<signalled, supervisor, child, monitor, lease, retries, uptime>>

NoLease == [ready |-> FALSE, age |-> StaleAfter, healthy |-> -1]
\* The attempt's context: a child of the root context, cancelled once the child process is gone.
AttemptCancelled == signalled \/ supervisor \in {"cancelled", "cleared", "backoff", "returned"}
\* relayHealth.snapshot: what /readyz answers.
Ready == lease.age < StaleAfter /\ lease.ready

RelayTypeOK ==
    /\ signalled \in BOOLEAN /\ child \in {"none", "up", "connected"}
    /\ supervisor \in {"config", "credential", "attempt", "run", "exited", "cancelled", "cleared", "backoff",
                       "returned"}
    /\ monitor \in {"none", "asks", "unready", "ready", "sleeps"}
    /\ lease \in [ready: BOOLEAN, age: 0..StaleAfter, healthy: -1..ResetAfter]
    /\ retries \in 0..MaxRetries /\ uptime \in 0..ResetAfter

RelayInit ==
    /\ signalled = FALSE /\ supervisor = "config" /\ child = "none" /\ monitor = "none"
    /\ lease = NoLease /\ retries = 0 /\ uptime = 0

-----------------------------------------------------------------------------
\* main: the signal handler cancels the root context.
Signal ==
    /\ ~signalled /\ signalled' = TRUE /\ UNCHANGED <<supervisor, child, monitor, lease, retries, uptime>>
RelayTick ==
    /\ lease' = [lease EXCEPT !.age = Min({@ + 1, StaleAfter}),
                              !.healthy = IF @ = -1 THEN @ ELSE Min({@ + 1, ResetAfter})]
    /\ uptime' = Min({uptime + 1, ResetAfter})
    /\ lease' # lease \/ uptime' # uptime
    /\ UNCHANGED <<signalled, supervisor, child, monitor, retries>>
ChildConnection ==
    /\ child # "none" /\ child' = (IF child = "up" THEN "connected" ELSE "up")
    /\ UNCHANGED <<signalled, supervisor, monitor, lease, retries, uptime>>
\* The child ends by itself, or on the SIGTERM (and kill) of the cancelled context.
ChildExits ==
    /\ supervisor = "run" /\ child' = "none" /\ supervisor' = "exited"
    /\ UNCHANGED <<signalled, monitor, lease, retries, uptime>>

\* monitorRelay: check; then, under the health lock and unless the attempt is cancelled, observe; then
\* sleep.  observeLocked.
Query ==
    /\ monitor = "asks"
    /\ monitor' = (IF child = "connected" THEN "ready" ELSE "unready")
    /\ UNCHANGED <<signalled, supervisor, child, lease, retries, uptime>>
ObserveLocked(ready) ==
    LET healthy == IF ~ready THEN -1 ELSE IF lease.healthy = -1 \/ lease.age >= StaleAfter THEN 0 ELSE lease.healthy
    IN  /\ lease' = [ready |-> ready, age |-> 0, healthy |-> healthy]
        /\ retries' = IF healthy >= ResetAfter THEN 0 ELSE retries
RelayObserve ==
    /\ monitor \in {"ready", "unready"}
    /\ IF AttemptCancelled THEN UNCHANGED <<lease, retries>> ELSE ObserveLocked(monitor = "ready")
    /\ monitor' = "sleeps" /\ UNCHANGED <<signalled, supervisor, child, uptime>>
MonitorWakes ==
    /\ monitor = "sleeps" /\ monitor' = (IF AttemptCancelled THEN "none" ELSE "asks")
    /\ UNCHANGED <<signalled, supervisor, child, lease, retries, uptime>>

-----------------------------------------------------------------------------
\* main and run: a configuration or a credential that cannot be used ends the process.
LoadConfig ==
    /\ supervisor = "config" /\ supervisor' \in {"credential", "returned"}
    /\ UNCHANGED <<signalled, child, monitor, lease, retries, uptime>>
ReadCredentials ==
    /\ supervisor = "credential" /\ supervisor' \in {"attempt", "returned"}
    /\ UNCHANGED <<signalled, child, monitor, lease, retries, uptime>>
\* superviseRelay.
Clear == lease' = NoLease
StartAttempt ==
    /\ supervisor = "attempt"
    /\ IF signalled THEN supervisor' = "returned" /\ UNCHANGED <<child, monitor, lease, uptime>>
       ELSE /\ Clear /\ monitor' = "asks" /\ uptime' = 0
            /\ \/ supervisor' = "run" /\ child' = "up"
               \/ supervisor' = "exited" /\ child' = "none"       \* the command does not start
    /\ UNCHANGED <<signalled, retries>>
CancelThenClear ==
    \/ supervisor = "exited" /\ supervisor' = "cancelled"
          /\ UNCHANGED <<signalled, child, monitor, lease, retries, uptime>>
    \/ supervisor = "cancelled" /\ supervisor' = "cleared" /\ Clear
          /\ UNCHANGED <<signalled, child, monitor, retries, uptime>>
\* isUnrecoverable: the process returns and the pod is restarted; else backoff.next.
RelayRetry == retries' = Min({retries + 1, MaxRetries})
Joined ==
    /\ supervisor = "cleared" /\ monitor = "none"
    /\ \/ supervisor' = "returned" /\ UNCHANGED retries
       \/ ~signalled /\ supervisor' = "backoff" /\ RelayRetry
    /\ UNCHANGED <<signalled, child, monitor, lease, uptime>>
\* waitRelayRetry: the delay elapses, or the cancellation interrupts it.
WaitRelayRetry ==
    /\ supervisor = "backoff" /\ supervisor' = (IF signalled THEN "returned" ELSE "attempt")
    /\ UNCHANGED <<signalled, child, monitor, lease, retries, uptime>>

RelayNext ==
    \/ LoadConfig \/ ReadCredentials \/ Signal \/ RelayTick \/ ChildConnection \/ ChildExits \/ Query
    \/ RelayObserve \/ MonitorWakes
    \/ StartAttempt \/ CancelThenClear \/ Joined \/ WaitRelayRetry

-----------------------------------------------------------------------------
(* Properties.                                                             *)

\* Once the supervisor has cleared the lease of an attempt whose child is gone, no answer the monitor
\* still had in hand makes /readyz succeed again before the next attempt.
ExitedNeverReady == supervisor \in {"cleared", "backoff", "returned"} => ~Ready

\* The retry escalation is only reset on account of an attempt that has lasted the whole interval:
\* readiness of earlier attempts does not add up.
ResetNeedsOneLongRun == [][retries' < retries => uptime >= ResetAfter]_relayVars

-----------------------------------------------------------------------------
(***************************************************************************)
(* The goroutine that reports the address playit assigns: it polls playitd *)
(* and patches status.tunnelEndpoints when the set differs from the last   *)
(* one it reported.  A new pod starts with nothing reported.               *)
(***************************************************************************)
CONSTANTS Tunnels,   \* tunnels playit may list
          PortOf,    \* Tunnels -> backing ports, "other" when no advertised port matches
          Ports      \* the advertised ports

VARIABLES
    playitd,          \* the daemon: "down", "starting" or "running"
    reporterListed,   \* the enabled tunnels it lists
    endpointsSet,     \* status.tunnelEndpoints: the ports with an address
    lastReported,     \* the reporter: last set patched, "never" at first
    reporter,         \* "polls", "patches" or "sleeps"
    inHand            \* the set computed from the last query, to be patched
reporterVars == <<playitd, reporterListed, endpointsSet, lastReported, reporter, inHand>>

\* playitEndpoints: by destination port; a single tunnel with a single port matches whatever its port.
PlayitEndpoints(tunnels) ==
    IF Cardinality(tunnels) = 1 /\ Cardinality(Ports) = 1 THEN Ports
    ELSE {PortOf[t] : t \in tunnels} \intersect Ports

ReporterNever == {"never"}
ReporterTypeOK ==
    /\ playitd \in {"down", "starting", "running"} /\ reporterListed \subseteq Tunnels
    /\ endpointsSet \subseteq Ports /\ lastReported \in SUBSET Ports \union {ReporterNever}
    /\ reporter \in {"polls", "patches", "sleeps"} /\ inHand \subseteq Ports

ReporterInit ==
    /\ playitd = "down" /\ reporterListed = {} /\ endpointsSet = {}
    /\ lastReported = ReporterNever /\ reporter = "polls" /\ inHand = {}

PlayitdMoves ==
    /\ \/ playitd' \in {"down", "starting", "running"} \ {playitd} /\ UNCHANGED reporterListed
       \/ reporterListed' \in SUBSET Tunnels \ {reporterListed} /\ UNCHANGED playitd
    /\ UNCHANGED <<endpointsSet, lastReported, reporter, inHand>>
\* queryPlayitState: an error or another phase than running leaves the status alone and backs off.
QueryPlayitState ==
    /\ reporter = "polls"
    /\ \/ /\ playitd # "running" /\ reporter' = "sleeps" /\ UNCHANGED inHand
       \/ /\ playitd = "running" /\ inHand' = PlayitEndpoints(reporterListed)
          /\ reporter' = IF lastReported = ReporterNever \/ inHand' # lastReported THEN "patches" ELSE "sleeps"
    /\ UNCHANGED <<playitd, reporterListed, endpointsSet, lastReported>>
ReportEndpoints ==
    /\ reporter = "patches" /\ reporter' = "sleeps"
    /\ \/ endpointsSet' = inHand /\ lastReported' = inHand
       \/ UNCHANGED <<endpointsSet, lastReported>>
    /\ UNCHANGED <<playitd, reporterListed, inHand>>
ReporterWakes ==
    /\ reporter = "sleeps" /\ reporter' = "polls"
    /\ UNCHANGED <<playitd, reporterListed, endpointsSet, lastReported, inHand>>
\* The pod is replaced: startPlayitReporter begins with nothing reported, the status stays.
ReporterPodReplaced ==
    /\ playitd' = "down" /\ reporterListed' = {} /\ lastReported' = ReporterNever /\ reporter' = "polls"
    /\ inHand' = {}
    /\ UNCHANGED endpointsSet
\* A report that succeeds (liveness assumes the API server does not refuse for ever).
ReportSucceeds == ReportEndpoints /\ lastReported' = inHand

ReporterNext == PlayitdMoves \/ QueryPlayitState \/ ReportEndpoints \/ ReporterWakes \/ ReporterPodReplaced

-----------------------------------------------------------------------------

-----------------------------------------------------------------------------
(***************************************************************************)
(* The embedded tailnet node of a tailscale relay: each attempt joins the  *)
(* tailnet, opens one listener per advertised port, forwards sessions      *)
(* within one shared budget, and closes everything before the next attempt.*)
(***************************************************************************)
CONSTANTS ForwardPorts,   \* the forwarding plan: advertised TCP and UDP ports
          UdpPorts,       \* those of them that are UDP
          Peers,          \* clients
          SessionLimit,   \* forwardLimits.sessions
          QueueLimit      \* forwardLimits.udpQueue

VARIABLES
    cancelled,     \* the root context
    tailnet,       \* the tailnet's state: "offline", "untagged" or "online", and its addresses
    attempt,       \* runTailscale: "join", "listen", "serve", "close", "wait", "returned"
    joined,        \* the addresses the attempt joined with
    opened,        \* listeners opened by the attempt
    tailnetOpen,   \* those of them that accept
    tailReady,     \* the atomic the readiness probe reads
    failed,        \* a listener's error waits in the channel
    slots,         \* sessions that hold a slot of the budget
    sessions       \* running sessions <<port, peer>> with queued datagrams (0 for TCP)
tailnetVars == <<cancelled, tailnet, attempt, joined, opened, tailnetOpen, tailReady, failed, slots,
                 sessions>>

TailnetSessions == ForwardPorts \X Peers
TailnetTypeOK ==
    /\ cancelled \in BOOLEAN /\ tailReady \in BOOLEAN /\ failed \in BOOLEAN
    /\ tailnet \in [state: {"offline", "untagged", "online"}, address: {1, 2}] /\ joined \in {1, 2}
    /\ attempt \in {"join", "listen", "serve", "close", "wait", "returned"}
    /\ tailnetOpen \subseteq opened /\ opened \subseteq ForwardPorts /\ slots \in Nat
    /\ DOMAIN sessions \subseteq TailnetSessions /\ \A s \in DOMAIN sessions : sessions[s] \in 0..QueueLimit

NoSessions == [s \in {} |-> 0]
TailnetInit ==
    /\ cancelled = FALSE /\ tailnet = [state |-> "offline", address |-> 1] /\ attempt = "join" /\ joined = 1
    /\ opened = {} /\ tailnetOpen = {} /\ tailReady = FALSE /\ failed = FALSE /\ slots = 0
    /\ sessions = NoSessions

-----------------------------------------------------------------------------
Terminated == ~cancelled /\ cancelled' = TRUE
              /\ UNCHANGED <<tailnet, attempt, joined, opened, tailnetOpen, tailReady, failed, slots,
                             sessions>>
TailnetMoves ==
    /\ \/ \E s \in {"offline", "untagged", "online"} \ {tailnet.state} : tailnet' = [tailnet EXCEPT !.state = s]
       \/ tailnet.address = 1 /\ tailnet' = [tailnet EXCEPT !.address = 2]
    /\ UNCHANGED <<cancelled, attempt, joined, opened, tailnetOpen, tailReady, failed, slots, sessions>>

\* node.Up and tailnetReady: the requested tags must have been granted.
TailnetOnline == tailnet.state = "online"
JoinTailnet ==
    /\ attempt = "join"
    /\ IF cancelled THEN attempt' = "returned" /\ UNCHANGED joined
       ELSE \/ TailnetOnline /\ attempt' = "listen" /\ joined' = tailnet.address
            \/ attempt' = "wait" /\ UNCHANGED joined
    /\ UNCHANGED <<cancelled, tailnet, opened, tailnetOpen, tailReady, failed, slots, sessions>>
\* One listener after another, serving at once; the last one makes the node ready.
TailnetListening(p) ==
    /\ tailnetOpen' = tailnetOpen \union {p} /\ opened' = opened \union {p}
    /\ tailReady' = (opened' = ForwardPorts)
    /\ attempt' = IF opened' = ForwardPorts THEN "serve" ELSE "listen"
OpenListener ==
    /\ attempt = "listen"
    /\ \/ \E p \in ForwardPorts \ opened : TailnetListening(p)
       \/ attempt' = "close" /\ UNCHANGED <<opened, tailnetOpen, tailReady>>
    /\ UNCHANGED <<cancelled, tailnet, joined, failed, slots, sessions>>
\* serveTailnetObserved: the poll; new addresses end the attempt.
PollTailnet ==
    /\ attempt = "serve" /\ tailReady' = TailnetOnline
    /\ attempt' = (IF tailnet.address # joined THEN "close" ELSE "serve")
    /\ UNCHANGED <<cancelled, tailnet, joined, opened, tailnetOpen, failed, slots, sessions>>
ServingEnds ==
    /\ attempt = "serve" /\ (cancelled \/ failed) /\ attempt' = "close"
    /\ UNCHANGED <<cancelled, tailnet, joined, opened, tailnetOpen, tailReady, failed, slots, sessions>>
\* forwarder.Close closes the listeners, cancels the sessions and waits for them; the deferred
\* stores follow, then the node is closed.
TailnetClosed(waits) ==
    /\ attempt = "close"
    /\ IF tailnetOpen # {} THEN tailnetOpen' = {} /\ UNCHANGED <<attempt, opened, tailReady, failed, slots>>
       ELSE /\ waits => DOMAIN sessions = {}
            /\ tailReady' = FALSE /\ failed' = FALSE /\ slots' = 0 /\ opened' = {}
            /\ attempt' = (IF cancelled THEN "returned" ELSE "wait") /\ UNCHANGED tailnetOpen
    /\ UNCHANGED <<cancelled, tailnet, joined, sessions>>
CloseForwarder == TailnetClosed(TRUE)
\* waitTailnetRetry: the delay, the cancellation, or the health server's failure.
WaitTailnetRetry ==
    /\ attempt = "wait" /\ attempt' \in (IF cancelled THEN {"returned"} ELSE {"join", "returned"})
    /\ UNCHANGED <<cancelled, tailnet, joined, opened, tailnetOpen, tailReady, failed, slots, sessions>>

-----------------------------------------------------------------------------
(* The forwarder.                                                          *)

Acquire == slots < SessionLimit
Starts(s) == s \notin DOMAIN sessions /\ Acquire
\* serveTCP: a connection without a slot is closed.
AcceptTCP(s) ==
    /\ s[1] \in tailnetOpen \ UdpPorts /\ Starts(s)
    /\ slots' = slots + 1
    /\ sessions' = [x \in DOMAIN sessions \union {s} |-> IF x = s THEN 0 ELSE sessions[x]]
    /\ UNCHANGED <<cancelled, tailnet, attempt, joined, opened, tailnetOpen, tailReady, failed>>
\* serveUDP: a datagram starts a session or joins its queue, unless the queue is full.
ReceiveUDP(s) ==
    /\ s[1] \in tailnetOpen \intersect UdpPorts /\ ~cancelled
    /\ \/ /\ Starts(s) /\ slots' = slots + 1
          /\ sessions' = [x \in DOMAIN sessions \union {s} |-> IF x = s THEN 1 ELSE sessions[x]]
       \/ /\ s \in DOMAIN sessions /\ sessions[s] < QueueLimit /\ sessions' = [sessions EXCEPT ![s] = @ + 1]
          /\ UNCHANGED slots
    /\ UNCHANGED <<cancelled, tailnet, attempt, joined, opened, tailnetOpen, tailReady, failed>>
ForwardDatagram(s) ==
    /\ s \in DOMAIN sessions /\ sessions[s] > 0 /\ sessions' = [sessions EXCEPT ![s] = @ - 1]
    /\ UNCHANGED <<cancelled, tailnet, attempt, joined, opened, tailnetOpen, tailReady, failed, slots>>
\* proxyTCP and proxyUDP end: the peers close, the idle time elapses, the context is cancelled.
SessionEnds(s) ==
    /\ s \in DOMAIN sessions /\ sessions' = [x \in DOMAIN sessions \ {s} |-> sessions[x]]
    /\ slots' = slots - 1
    /\ UNCHANGED <<cancelled, tailnet, attempt, joined, opened, tailnetOpen, tailReady, failed>>
SessionProceeds(s) == \E ends \in BOOLEAN : IF ends THEN SessionEnds(s) ELSE ForwardDatagram(s)
\* forwarder.fail: a listener's error is kept unless the forwarder is being closed.
ListenerFails ==
    /\ attempt \in {"listen", "serve"} /\ ~cancelled /\ ~failed
    /\ \E p \in tailnetOpen : tailnetOpen' = tailnetOpen \ {p}
    /\ failed' = TRUE /\ UNCHANGED <<cancelled, tailnet, attempt, joined, opened, tailReady, slots, sessions>>

AnySessionEnds == (cancelled \/ attempt = "close") /\ \E s \in TailnetSessions : SessionEnds(s)
TailnetNext ==
    \/ Terminated \/ TailnetMoves \/ JoinTailnet \/ OpenListener \/ PollTailnet \/ ServingEnds
    \/ CloseForwarder
    \/ WaitTailnetRetry \/ ListenerFails
    \/ \E s \in TailnetSessions : AcceptTCP(s) \/ ReceiveUDP(s) \/ SessionProceeds(s)

-----------------------------------------------------------------------------
(* Properties.                                                             *)

\* Between attempts, and once the process returns, nothing of the former attempt is left: no listener,
\* no session, and the probe does not answer ready.
NothingOutlivesAttempt ==
    attempt \in {"join", "wait", "returned"} => tailnetOpen = {} /\ DOMAIN sessions = {} /\ ~tailReady
\* Every slot of the shared budget belongs to a session that runs, so the budget neither leaks nor is
\* exceeded, whatever mix of TCP and UDP sessions ends in whatever way.
SlotsAccounted == slots = Cardinality(DOMAIN sessions) /\ slots <= SessionLimit
=============================================================================
