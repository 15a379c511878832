------------------------------ MODULE IdleSleep -------------------------------
(*****************************************************************************)
(* Putting an idle server to sleep and waking it when a player knocks. The   *)
(* parts share no state; each has its own initial states and steps.          *)
(*****************************************************************************)
EXTENDS Naturals, FiniteSets, Sequences, SequencesExt

(***************************************************************************)
(* Idle scale-to-zero and wake-on-connect.  A pass of the GameServer       *)
(* controller decides sleep or wake from a copy of the object and writes   *)
(* it as an annotation, then plans the wake sentinel, points the Service   *)
(* at the sentinel or the game, scales the game and writes the status.     *)
(* Players, the agent's heartbeat, wake requests and crashes come between  *)
(* the steps.  The server is exposed through a Service (not Hostport).     *)
(***************************************************************************)
CONSTANTS WakeLimit,       \* bound on the wake requests
          CrashAfterWake   \* a pass that has woken the server may end before its status write

VARIABLES
    server,     \* the GameServer, as far as the idle policy reads it
    passed,     \* a full idle period has passed since the last wake
    idleGame,   \* the game pod
    sentinel,   \* the sentinel Deployment's pod
    route,      \* what the game Service selects
    idlePass    \* the pass: where it is, its copy and its decisions

idleVars == <<server, passed, idleGame, sentinel, route, idlePass>>

NoIdlePass == [at |-> "none", asleep |-> FALSE, stop |-> FALSE, toSentinel |-> FALSE,
               woke |-> FALSE, empty |-> "none", copy |-> {}]
GameServerIdle ==
    [mode: {"idle", "suspended", "off"},        \* idle policy on, server stopped by its user, policy off
     asleep: BOOLEAN, requested: 0..WakeLimit, completed: 0..WakeLimit,
     running: BOOLEAN,                          \* status.phase of the last pass
     seen: {"unknown", "none", "some"},         \* players in a fresh heartbeat, else unknown
     empty: {"none", "since", "due"}]           \* status.idle.emptySince and whether it is over
IdleTypeOK ==
    /\ server \in GameServerIdle /\ passed \in BOOLEAN
    /\ idleGame \in {"down", "starting", "ready", "draining"}
    /\ sentinel \in {"none", "starting", "ready"} /\ route \in {"game", "sentinel"}
    /\ idlePass.at \in {"none", "idle", "sentinel", "service", "scale", "status"}
    /\ idlePass.copy \subseteq GameServerIdle

IdleInit ==
    /\ server = [mode |-> "idle", asleep |-> FALSE, requested |-> 0, completed |-> 0,
                 running |-> TRUE, seen |-> "none", empty |-> "none"]
    /\ passed = TRUE  /\ idleGame = "ready" /\ sentinel = "none"
    /\ route = "game" /\ idlePass = NoIdlePass

-----------------------------------------------------------------------------
(* The environment.                                                        *)

EditPower ==
    /\ \E mode \in {"idle", "suspended", "off"} \ {server.mode} : server' = [server EXCEPT !.mode = mode]
    /\ UNCHANGED <<passed, idleGame, sentinel, route, idlePass>>
\* The :wake verb, or the sentinel when a player joins, stamps a fresh token.
IdleRequestWake ==
    /\ server.requested < WakeLimit /\ server' = [server EXCEPT !.requested = @ + 1]
    /\ UNCHANGED <<passed, idleGame, sentinel, route, idlePass>>
\* A heartbeat tells who is on; it grows stale when the game or the agent is gone.
Heartbeat ==
    /\ \E n \in {"none", "some", "unknown"} :
         /\ n # "unknown" => idleGame \in {"ready", "draining"}
         /\ server' = [server EXCEPT !.seen = n]
    /\ UNCHANGED <<passed, idleGame, sentinel, route, idlePass>>
\* A full idle period goes by.
IdlePeriodPasses ==
    /\ server' = [server EXCEPT !.empty = IF @ = "since" THEN "due" ELSE @] /\ passed' = TRUE
    /\ UNCHANGED <<idleGame, sentinel, route, idlePass>>
PodMoves ==
    /\ \/ idleGame = "starting" /\ idleGame' = "ready"
       \/ idleGame = "draining" /\ idleGame' = "down"
    /\ UNCHANGED <<server, passed, sentinel, route, idlePass>>
SentinelReady ==
    /\ sentinel = "starting" /\ sentinel' = "ready"
    /\ UNCHANGED <<server, passed, idleGame, route, idlePass>>

-----------------------------------------------------------------------------
(* One pass.                                                               *)

BeginIdlePass ==
    /\ idlePass.at = "none" /\ idlePass' = [NoIdlePass EXCEPT !.at = "idle", !.copy = {server}]
    /\ UNCHANGED <<server, passed, idleGame, sentinel, route>>
Copied == CHOOSE s \in idlePass.copy : TRUE
IdleStep(to) == idlePass' = [idlePass EXCEPT !.at = to]
\* Any step may fail, and the operator may stop.
IdlePassFails ==
    /\ idlePass.at # "none" /\ (idlePass.woke => CrashAfterWake) /\ idlePass' = NoIdlePass
    /\ UNCHANGED <<server, passed, idleGame, sentinel, route>>

WakePending == Copied.requested # Copied.completed
IdleEligible == Copied.running /\ Copied.seen = "none"
\* The outcome of idleDecide: the state, the transition to write, the new emptySince.
Outcome(state, write, empty) == [asleep |-> state, write |-> write, empty |-> empty]
IdleDecide(due) ==
    IF Copied.mode # "idle" THEN Outcome(FALSE, IF Copied.asleep THEN "wake" ELSE "", "none")
    ELSE IF WakePending THEN Outcome(FALSE, "wake", "none")
    ELSE IF Copied.asleep THEN IF due THEN Outcome(FALSE, "wake", "none") ELSE Outcome(TRUE, "", "none")
    ELSE IF ~IdleEligible THEN Outcome(FALSE, "", "none")
    ELSE IF Copied.empty = "due" THEN Outcome(TRUE, "sleep", "none")
    ELSE Outcome(FALSE, "", "since")

\* applyIdleTransition, refused when the object has changed since it was read.
ApplyIdleTransition(write) ==
    IF write = "" THEN server' = server
    ELSE server' = [server EXCEPT !.asleep = (write = "sleep"),
                                  !.completed = IF write = "wake" THEN Copied.requested ELSE @]
LockHolds == server \in idlePass.copy
ReconcileIdle ==
    /\ idlePass.at = "idle"
    /\ \E due \in BOOLEAN : LET out == IdleDecide(due) IN      \* a wake window has begun since
         IF out.write # "" /\ ~LockHolds
         THEN idlePass' = NoIdlePass /\ UNCHANGED <<server, passed>>
         ELSE /\ ApplyIdleTransition(out.write)
              /\ idlePass' = [idlePass EXCEPT !.at = "sentinel", !.asleep = out.asleep,
                                              !.empty = out.empty, !.copy = {},
                                              !.stop = server'.mode = "suspended",
                                              !.woke = out.write = "wake"]
              /\ passed' = (passed /\ out.write # "wake")
    /\ UNCHANGED <<idleGame, sentinel, route>>

\* A pass that nobody overtakes between its read and its write.
UndisturbedIdle == ReconcileIdle /\ LockHolds

\* Variant: a sentinel stays for as long as there is one.
PlanKeepsSentinel ==
    IF idlePass.asleep THEN [want |-> TRUE, toSentinel |-> sentinel = "ready"]
    ELSE [want |-> sentinel # "none", toSentinel |-> sentinel # "none"]
\* planSentinel, then reconcileSentinel.
PlanSentinel ==
    IF idlePass.asleep THEN [want |-> TRUE, toSentinel |-> sentinel = "ready"]
    ELSE IF sentinel # "none" /\ idleGame # "ready" THEN [want |-> TRUE, toSentinel |-> TRUE]
    ELSE [want |-> FALSE, toSentinel |-> FALSE]
ReconcileSentinel ==
    /\ idlePass.at = "sentinel"
    /\ sentinel' = IF ~PlanSentinel.want THEN "none"
                   ELSE IF sentinel = "none" THEN "starting" ELSE sentinel
    /\ idlePass' = [idlePass EXCEPT !.at = "service", !.toSentinel = PlanSentinel.toSentinel]
    /\ UNCHANGED <<server, passed, idleGame, route>>
ReconcileService ==
    /\ idlePass.at = "service" /\ IdleStep("scale")
    /\ route' = IF idlePass.toSentinel THEN "sentinel" ELSE "game"
    /\ UNCHANGED <<server, passed, idleGame, sentinel>>
\* desiredReplicas and the StatefulSet; a pod being stopped is not called back.
ScaleGame ==
    /\ idlePass.at = "scale" /\ IdleStep("status")
    /\ idleGame' = IF idlePass.stop \/ idlePass.asleep
                   THEN IF idleGame \in {"ready", "starting"} THEN "draining" ELSE idleGame
                   ELSE IF idleGame = "down" THEN "starting" ELSE idleGame
    /\ UNCHANGED <<server, passed, sentinel, route>>
IdleReconcileStatus ==
    /\ idlePass.at = "status" /\ idlePass' = NoIdlePass
    /\ server' = [server EXCEPT !.running = idleGame = "ready",
                                !.empty = IF idlePass.empty = "since" /\ @ = "due" THEN @ ELSE idlePass.empty]
    /\ UNCHANGED <<passed, idleGame, sentinel, route>>

IdleNext ==
    \/ EditPower \/ IdleRequestWake \/ Heartbeat \/ IdlePeriodPasses \/ PodMoves
    \/ SentinelReady
    \/ BeginIdlePass \/ IdlePassFails \/ ReconcileIdle \/ ReconcileSentinel \/ ReconcileService
    \/ ScaleGame \/ IdleReconcileStatus

-----------------------------------------------------------------------------
(* Properties.                                                             *)

\* A server somebody has just woken does not go to sleep again before a full idle period is
\* over: a clock that began before the wake is not taken over.
WokenKeepsPeriod == [][~server.asleep /\ server'.asleep => passed]_idleVars

-----------------------------------------------------------------------------
(***************************************************************************)
(* The wake sentinel's process: one TCP listener hands connections to      *)
(* sessions bounded by a semaphore; a session classifies its client, asks  *)
(* for a wake through a waker that coalesces bursts, holds the connection  *)
(* until the game answers or a deadline passes, then proxies it.  On       *)
(* SIGTERM the listener stops at once and the sessions get a drain; a      *)
(* failing listener ends everything without one.                           *)
(***************************************************************************)
CONSTANTS Conns, MaxConnections

VARIABLES
    sentinelConn,   \* each client connection
    waker,          \* a patch in flight, and one less than an interval ago
    stamped,        \* the wake annotation has been written since the game was last up
    upstream,       \* the game pod accepts connections
    sentinelProc    \* the process: its listener runs, stops or fails; its sessions drain or are cut; its end
wakerVars == <<waker, stamped>>
sentinelVars == <<sentinelConn, waker, stamped, upstream, sentinelProc>>

SentinelTypeOK ==
    /\ sentinelConn \in [Conns -> {"none", "backlog", "accepted", "classify", "wake", "patch", "held",
                                   "proxied", "half", "closed"}]
    /\ waker \in [inFlight: BOOLEAN, recent: BOOLEAN] /\ stamped \in BOOLEAN
    /\ upstream \in BOOLEAN
    /\ sentinelProc \in {"running", "stopping", "failing", "draining", "forced", "failed", "exited",
                         "crashed"}

\* Connections a session goroutine is running for; each holds a slot of the semaphore.
InSession == {c \in Conns : sentinelConn[c] \in {"classify", "wake", "patch", "held", "proxied", "half"}}
SentinelListening == sentinelProc \in {"running", "stopping", "failing"}
SessionsCancelled == sentinelProc \in {"forced", "failed"}

SentinelInit ==
    /\ sentinelConn = [c \in Conns |-> "none"] /\ waker = [inFlight |-> FALSE, recent |-> FALSE]
    /\ stamped = FALSE /\ upstream = FALSE /\ sentinelProc = "running"

SentinelBecomes(c, state) == sentinelConn' = [sentinelConn EXCEPT ![c] = state]

-----------------------------------------------------------------------------
(* The listener.                                                           *)

ClientConnects(c) ==
    /\ sentinelConn[c] = "none" /\ SentinelListening /\ SentinelBecomes(c, "backlog")
    /\ UNCHANGED <<wakerVars, upstream, sentinelProc>>
\* Accept; a connection accepted while the listener stops is closed at once.
Accept(c) ==
    /\ SentinelListening /\ sentinelConn[c] = "backlog" /\ \A d \in Conns : sentinelConn[d] # "accepted"
    /\ SentinelBecomes(c, IF sentinelProc = "running" THEN "accepted" ELSE "closed")
    /\ UNCHANGED <<wakerVars, upstream, sentinelProc>>
\* The select between a slot and the listener's context takes either when both are ready.
SentinelTakeSlot(c) ==
    /\ sentinelConn[c] = "accepted"
    /\ \E next \in (IF Cardinality(InSession) < MaxConnections THEN {"classify"} ELSE {})
                  \union (IF sentinelProc = "running" THEN {} ELSE {"closed"}) : SentinelBecomes(c, next)
    /\ UNCHANGED <<wakerVars, upstream, sentinelProc>>

Terminate ==
    /\ sentinelProc = "running"
    /\ sentinelProc' \in {"stopping", "failing"}    \* SIGTERM, or a listener's error
    /\ UNCHANGED <<sentinelConn, wakerVars, upstream>>
\* Variant: the drain begins without waiting for the accepted connections.
ListenerEndsUnwaited ==
    /\ sentinelProc \in {"stopping", "failing"}
    /\ sentinelProc' = IF sentinelProc = "failing" THEN "failed" ELSE "draining"
    /\ sentinelConn' = [c \in Conns |-> IF sentinelConn[c] = "backlog" THEN "closed" ELSE sentinelConn[c]]
    /\ UNCHANGED <<wakerVars, upstream>>
\* listeners.Wait(), then the drain: without one when a listener failed.
ListenersEnd ==
    /\ sentinelProc \in {"stopping", "failing"} /\ \A c \in Conns : sentinelConn[c] # "accepted"
    /\ sentinelProc' = IF sentinelProc = "failing" THEN "failed" ELSE "draining"
    /\ sentinelConn' = [c \in Conns |-> IF sentinelConn[c] = "backlog" THEN "closed" ELSE sentinelConn[c]]
    /\ UNCHANGED <<wakerVars, upstream>>
\* Variant: the drain has no timer.
DrainWaits ==
    /\ sentinelProc = "draining" /\ InSession = {} /\ sentinelProc' = "forced"
    /\ UNCHANGED <<sentinelConn, wakerVars, upstream>>
\* The drain's timer, or every session being done, cancels the sessions' context.
SentinelDrainEnds ==
    /\ sentinelProc = "draining" /\ sentinelProc' = "forced"
    /\ UNCHANGED <<sentinelConn, wakerVars, upstream>>
RunReturns ==
    /\ SessionsCancelled /\ InSession = {}
    /\ sentinelProc' = IF sentinelProc = "forced" THEN "exited" ELSE "crashed"
    /\ UNCHANGED <<sentinelConn, wakerVars, upstream>>

-----------------------------------------------------------------------------
(* One session.                                                            *)

\* A join goes on; a status ping is answered, anything else, or a client that says nothing in
\* time, is closed.  A generic port takes every connection for a join.
Classify(c) ==
    /\ sentinelConn[c] = "classify" /\ \E next \in {"wake", "closed"} : SentinelBecomes(c, next)
    /\ UNCHANGED <<wakerVars, upstream, sentinelProc>>
\* RequestWake does nothing while a patch is in flight or one ended less than an interval ago.
SentinelRequestWake(c) ==
    /\ sentinelConn[c] = "wake"
    /\ IF waker.inFlight \/ waker.recent
       THEN SentinelBecomes(c, "held") /\ UNCHANGED waker
       ELSE SentinelBecomes(c, "patch") /\ waker' = [waker EXCEPT !.inFlight = TRUE]
    /\ UNCHANGED <<stamped, upstream, sentinelProc>>
\* The patch lands, or fails: either way the interval starts.
PatchEnds(c) ==
    /\ sentinelConn[c] = "patch" /\ SentinelBecomes(c, "held")
    /\ waker' = [inFlight |-> FALSE, recent |-> TRUE] /\ stamped' \in {stamped, TRUE}
    /\ UNCHANGED <<upstream, sentinelProc>>
IntervalPasses ==
    /\ waker.recent /\ waker' = [waker EXCEPT !.recent = FALSE]
    /\ UNCHANGED <<sentinelConn, stamped, upstream, sentinelProc>>
\* waitForUpstream: the game accepts and takes the replayed handshake.
HandThrough(c) ==
    /\ sentinelConn[c] = "held" /\ upstream /\ ~SessionsCancelled /\ SentinelBecomes(c, "proxied")
    /\ UNCHANGED <<wakerVars, upstream, sentinelProc>>
\* The wake deadline, the end of the sessions' context or a failed replay.
BounceJoin(c) ==
    /\ sentinelConn[c] = "held" /\ SentinelBecomes(c, "closed")
    /\ UNCHANGED <<wakerVars, upstream, sentinelProc>>
\* proxyBidirectional: each direction ends by itself and half-closes the other side; the end of
\* the sessions' context cuts both.
ProxyCutBy(c, cut) ==
    /\ sentinelConn[c] \in {"proxied", "half"}
    /\ \E next \in {IF sentinelConn[c] = "proxied" THEN "half" ELSE "closed"}
                  \union (IF cut THEN {"closed"} ELSE {}) : SentinelBecomes(c, next)
    /\ UNCHANGED <<wakerVars, upstream, sentinelProc>>
ProxyBidirectional(c) == ProxyCutBy(c, SessionsCancelled)
\* Cancelled, a proxied session ends; otherwise nothing makes it end.
CutSession(c) == ProxyBidirectional(c) /\ SessionsCancelled

\* The operator answers a stamp by bringing the game up; the game may go again.
GameMoves ==
    /\ \/ ~upstream /\ stamped /\ upstream' = TRUE /\ stamped' = FALSE
       \/ upstream /\ upstream' = FALSE /\ UNCHANGED stamped
    /\ UNCHANGED <<sentinelConn, waker, sentinelProc>>

Session(c) ==
    Classify(c) \/ SentinelRequestWake(c) \/ PatchEnds(c) \/ HandThrough(c) \/ BounceJoin(c)
SentinelNext ==
    \/ \E c \in Conns : \/ ClientConnects(c) \/ Accept(c) \/ SentinelTakeSlot(c) \/ Session(c)
                        \/ ProxyBidirectional(c)
    \/ Terminate \/ ListenersEnd \/ SentinelDrainEnds \/ RunReturns \/ IntervalPasses \/ GameMoves

-----------------------------------------------------------------------------
(* Properties.                                                             *)

\* Sessions never exceed the semaphore, and one burst of joins has at most one patch in flight
\* (serveTCP, RequestWake).
BurstBounded ==
    /\ Cardinality(InSession) <= MaxConnections
    /\ Cardinality({c \in Conns : sentinelConn[c] = "patch"}) <= 1

\* Once run has returned, no client is left open and no patch is under way: no session can
\* begin after the drain has looked for them (listeners.Wait before sessions.drain).
ExitLeavesNothing ==
    sentinelProc \in {"exited", "crashed"} => /\ \A c \in Conns : sentinelConn[c] \in {"none", "closed"}
                                              /\ ~waker.inFlight

\* SIGTERM alone never cuts a player who was handed through: such a session ends direction by
\* direction unless the drain ran out or a listener failed (proxyBidirectional).
HandedThroughKept ==
    [][\A c \in Conns : sentinelConn[c] = "proxied" /\ sentinelConn'[c] = "closed" => SessionsCancelled]_sentinelVars

-----------------------------------------------------------------------------
(***************************************************************************)
(* The sentinel's join heuristic for UDP ports: Threshold packets of one   *)
(* source within a window are a player.  The map of sources is bounded;    *)
(* the least recently active one makes room, and a sweep drops the quiet   *)
(* ones.  The history of packets and wakes is kept beside the map.         *)
(***************************************************************************)
CONSTANTS UdpSources, Threshold, Window, MaxSources,
          UdpLastTime, MaxPackets   \* bounds on the clock and on the packets received

VARIABLES
    udpTime, tracked,   \* the clock; the sources map: packet times, last packet, last wake
    packets, wakes      \* history: the (source, time) of all packets, in order, and of the wakes
udpVars == <<udpTime, tracked, packets, wakes>>

UdpNever == UdpLastTime + Window
SourceState == [times: Seq(0..UdpLastTime), lastSeen: 0..UdpLastTime,
                wokenAt: 0..UdpLastTime \union {UdpNever}]
UdpTypeOK ==
    /\ udpTime \in 0..UdpLastTime
    /\ DOMAIN tracked \subseteq UdpSources /\ \A k \in DOMAIN tracked : tracked[k] \in SourceState
    /\ packets \in Seq(UdpSources \X (0..UdpLastTime)) /\ wakes \in Seq(UdpSources \X (0..UdpLastTime))

UdpInit == udpTime = 0 /\ tracked = <<>> /\ packets = <<>> /\ wakes = <<>>

\* The time of day moves on.
UdpTick == udpTime < UdpLastTime /\ udpTime' = udpTime + 1 /\ UNCHANGED <<tracked, packets, wakes>>

\* evictOldestLocked: one of the sources least recently active.
OldestSources(map) == {k \in DOMAIN map : \A j \in DOMAIN map : map[k].lastSeen <= map[j].lastSeen}
WithoutSource(map, k) == Restrict(map, DOMAIN map \ {k})
RoomFor(key) ==
    IF key \in DOMAIN tracked \/ Cardinality(DOMAIN tracked) < MaxSources THEN {tracked}
    ELSE {WithoutSource(tracked, k) : k \in OldestSources(tracked)}
RecentPackets(times) == SelectSeq(times, LAMBDA t : udpTime - t < Window)
CoolingDown(st) == st.wokenAt # UdpNever /\ udpTime - st.wokenAt < Window

\* shouldWake for one packet, in the map that has room for its source.
ShouldWake(key, map) ==
    LET old == IF key \in DOMAIN map THEN map[key]
               ELSE [times |-> <<>>, lastSeen |-> udpTime, wokenAt |-> UdpNever]
        times == Append(RecentPackets(old.times), udpTime)
        wake == ~CoolingDown(old) /\ Len(times) >= Threshold
        new == IF CoolingDown(old) THEN [old EXCEPT !.lastSeen = udpTime]
               ELSE IF wake THEN [times |-> <<>>, lastSeen |-> udpTime, wokenAt |-> udpTime]
               ELSE [old EXCEPT !.times = times, !.lastSeen = udpTime]
    IN  /\ tracked' = [k \in DOMAIN map \union {key} |-> IF k = key THEN new ELSE map[k]]
        /\ wakes' = IF wake THEN Append(wakes, <<key, udpTime>>) ELSE wakes
UdpPacket(key) ==
    /\ Len(packets) < MaxPackets /\ packets' = Append(packets, <<key, udpTime>>)
    /\ \E map \in RoomFor(key) : ShouldWake(key, map)
    /\ UNCHANGED udpTime
\* sweepOnce.
QuietSource(k) == udpTime - tracked[k].lastSeen > 2 * Window
SweepOnce ==
    /\ \E k \in DOMAIN tracked : QuietSource(k)
    /\ tracked' = Restrict(tracked, {k \in DOMAIN tracked : ~QuietSource(k)})
    /\ UNCHANGED <<udpTime, packets, wakes>>

UdpNext == UdpTick \/ (\E k \in UdpSources : UdpPacket(k)) \/ SweepOnce

-----------------------------------------------------------------------------
(* Properties.                                                             *)

\* A wake is never asked for a source that has not sent Threshold packets within one window,
\* whatever was evicted, swept or counted before (shouldWake).
WakeJustified ==
    \A i \in DOMAIN wakes :
        Cardinality({p \in DOMAIN packets : /\ packets[p][1] = wakes[i][1]
                                            /\ packets[p][2] <= wakes[i][2]
                                            /\ wakes[i][2] - packets[p][2] < Window}) >= Threshold

\* A source that is still in the map asks for at most one wake in a window: every packet during
\* the wake does not ask again.
OneWakePerWindow ==
    [][\A k \in UdpSources : wakes' # wakes /\ wakes'[Len(wakes')][1] = k /\ k \in DOMAIN tracked
         => \A i \in DOMAIN wakes : wakes[i][1] = k /\ tracked[k].wokenAt # UdpNever
              => udpTime - wakes[i][2] >= Window]_udpVars
=============================================================================
