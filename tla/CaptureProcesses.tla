--------------------------- MODULE CaptureProcesses ---------------------------
(*****************************************************************************)
(* The processes that capture packets. The parts share no state; each has    *)
(* its own initial states and steps.                                         *)
(*****************************************************************************)
EXTENDS Naturals, Sequences, FiniteSetsExt

(***************************************************************************)
(* The capture sidecar: one capture at a time, written to a file on a      *)
(* volume of limited size.  A capture is ended by its timer, by a limit or *)
(* failure of its packet loop, or by a stop; whichever comes first takes   *)
(* it off the current slot under the server's mutex and then, without the  *)
(* mutex, closes the file and publishes the end.                           *)
(***************************************************************************)
CONSTANTS
    SidecarSessions,   \* bound on the captures started
    CaptureIds,        \* the names captures have; a name may be used again
    Sizes,             \* the maxSizeBytes of requests
    MaxPacket,         \* the largest packet
    Budget,            \* budgetBytes
    MaxRetained        \* maxCompletedRetained

VARIABLES
    session,        \* the captureStates, in the order of their start
    current,        \* currentCapture; 0 is nil
    finishing,      \* finishingCapture
    completed,      \* the remembered ends: the captures in completedOrder
    sidecarFiles,   \* capture-<id>.pcapng: the session that wrote it, or 0
    bindings,       \* capture-<id>.identity.json: the session bound, or 0
    stopping        \* a stop request between lookup and finish: its session, or 0

sidecarVars == <<session, current, finishing, completed, sidecarFiles, bindings, stopping>>

SidecarStarted == DOMAIN session
SidecarTypeOK ==
    /\ session \in Seq([id: CaptureIds, max: Sizes, bytes: Nat, status: {"running", "ended"},
                        reason: {"", "duration", "limit", "stop"}, closed: BOOLEAN,
                        timer: {"armed", "fired", "off"}, asked: BOOLEAN])
    /\ {current, finishing, stopping} \subseteq 0..SidecarSessions
    /\ completed \in Seq(1..SidecarSessions)
    /\ sidecarFiles \in [CaptureIds -> 0..SidecarSessions] /\ bindings \in [CaptureIds -> 0..SidecarSessions]

SidecarInit ==
    /\ session = <<>> /\ current = 0 /\ finishing = 0 /\ completed = <<>> /\ stopping = 0
    /\ sidecarFiles = [id \in CaptureIds |-> 0] /\ bindings = sidecarFiles

-----------------------------------------------------------------------------
(* Start.                                                                  *)

\* retainedBytes: the sizes of the files there are.
SidecarRetained ==
    MapThenSumSet(LAMBDA id : session[sidecarFiles[id]].bytes, {id \in CaptureIds : sidecarFiles[id] # 0})
BudgetAllows(max) == SidecarRetained <= Budget /\ max <= Budget - SidecarRetained
SlotFree == current = 0 /\ finishing = 0
\* A name whose identity is still there, or whose file is, is not used again.
NameFree(id) == bindings[id] = 0 /\ sidecarFiles[id] = 0

HandleStart(id, max) ==
    LET n == Len(session) + 1 IN
    /\ n <= SidecarSessions /\ SlotFree /\ BudgetAllows(max) /\ NameFree(id)
    /\ session' = Append(session, [id |-> id, max |-> max, bytes |-> 0, status |-> "running",
                                   reason |-> "", closed |-> FALSE, timer |-> "armed",
                                   asked |-> FALSE])
    /\ current' = n /\ sidecarFiles' = [sidecarFiles EXCEPT ![id] = n]
    /\ bindings' = [bindings EXCEPT ![id] = n]
    /\ UNCHANGED <<finishing, completed, stopping>>

-----------------------------------------------------------------------------
(* The end.                                                                *)

\* rememberCompletedLocked: the latest end of a name, and only the last few.
Remember(n) ==
    LET others == SelectSeq(completed, LAMBDA m : session[m].id # session[n].id)
        all == Append(others, n)
    IN SubSeq(all, 1 + Max({0, Len(all) - MaxRetained}), Len(all))
SidecarLookup(id) ==
    LET known == {m \in Range(completed) \cup ({current} \ {0}) : session[m].id = id}
    IN IF known = {} THEN 0 ELSE Max(known)

\* finish, as far as it holds the mutex: nothing unless the capture meant is current.
SidecarFinish(n, reason) ==
    IF current = n
    THEN /\ current' = 0 /\ finishing' = n /\ completed' = Remember(n)
         /\ session' = [session EXCEPT ![n].reason = reason,
                                       ![n].timer = IF @ = "armed" THEN "off" ELSE @]
    ELSE UNCHANGED <<session, current, finishing, completed>>

\* The rest of finish: close, publish, leave the slot.
CloseWriter ==
    /\ finishing # 0 /\ ~session[finishing].closed
    /\ session' = [session EXCEPT ![finishing].closed = TRUE]
    /\ UNCHANGED <<current, finishing, completed, sidecarFiles, bindings, stopping>>
PublishEnd ==
    /\ finishing # 0 /\ session[finishing].closed /\ session[finishing].status = "running"
    /\ session' = [session EXCEPT ![finishing].status = "ended"]
    /\ UNCHANGED <<current, finishing, completed, sidecarFiles, bindings, stopping>>
LeaveSlot ==
    /\ finishing # 0 /\ session[finishing].status = "ended" /\ finishing' = 0
    /\ UNCHANGED <<session, current, completed, sidecarFiles, bindings, stopping>>

SidecarTimerFires(n) ==
    /\ n \in SidecarStarted /\ session[n].timer = "armed"
    /\ session' = [session EXCEPT ![n].timer = "fired"]
    /\ UNCHANGED <<current, finishing, completed, sidecarFiles, bindings, stopping>>
TimerEnds(n) ==
    /\ n \in SidecarStarted /\ session[n].timer = "fired" /\ SidecarFinish(n, "duration")
    /\ UNCHANGED <<sidecarFiles, bindings, stopping>>
\* WritePacket: the packet that reaches the limit is still written.
SidecarWritePacket(n, size) ==
    /\ n \in SidecarStarted /\ ~session[n].closed /\ session[n].bytes < session[n].max
    /\ session' = [session EXCEPT ![n].bytes = @ + size]
    /\ UNCHANGED <<current, finishing, completed, sidecarFiles, bindings, stopping>>
\* The packet loop ends at the limit or on an error.
LoopEnds(n) ==
    /\ n \in SidecarStarted /\ session[n].bytes >= session[n].max /\ SidecarFinish(n, "limit")
    /\ UNCHANGED <<sidecarFiles, bindings, stopping>>
\* HandleStop looks the capture up, lets go of the mutex and finishes what it found.
StopArrives(id) ==
    /\ stopping = 0 /\ SidecarLookup(id) # 0 /\ stopping' = SidecarLookup(id)
    /\ session' = [session EXCEPT ![SidecarLookup(id)].asked = TRUE]
    /\ UNCHANGED <<current, finishing, completed, sidecarFiles, bindings>>
HandleStop ==
    /\ stopping # 0 /\ SidecarFinish(stopping, "stop") /\ stopping' = 0
    /\ UNCHANGED <<sidecarFiles, bindings>>

-----------------------------------------------------------------------------
(* Files.                                                                  *)

CaptureBusy(id) ==
    \/ \E m \in {current, finishing} \ {0} : session[m].id = id
    \/ \E m \in Range(completed) : session[m].id = id /\ session[m].status = "running"
\* DELETE removes the file and its identity; the bound DELETE keeps the identity, so that a
\* repeated request is still known, and a start prunes it after seven days.
HandleDelete(id) ==
    /\ ~CaptureBusy(id) /\ bindings[id] # 0
    /\ sidecarFiles' = [sidecarFiles EXCEPT ![id] = 0]
    /\ bindings' \in {bindings, [bindings EXCEPT ![id] = 0]}
    /\ UNCHANGED <<session, current, finishing, completed, stopping>>

FinishStep == CloseWriter \/ PublishEnd \/ LeaveSlot
SidecarNext ==
    \/ FinishStep \/ HandleStop
    \/ \E id \in CaptureIds, max \in Sizes : HandleStart(id, max)
    \/ \E id \in CaptureIds : StopArrives(id) \/ HandleDelete(id)
    \/ \E n \in 1..SidecarSessions : SidecarTimerFires(n) \/ TimerEnds(n) \/ LoopEnds(n)
    \/ \E n \in 1..SidecarSessions, size \in 1..MaxPacket : SidecarWritePacket(n, size)

-----------------------------------------------------------------------------
(* Properties.                                                             *)

\* Whoever sees a capture ended finds its file closed.
EndedMeansClosed == \A n \in SidecarStarted : session[n].status = "ended" => session[n].closed

\* One file at a time is being written, and it is the file under the capture's name: it is
\* neither deleted nor taken over by a capture of the same name.
OneWriter ==
    /\ \A n, m \in SidecarStarted : ~session[n].closed /\ ~session[m].closed => n = m
    /\ \A n \in SidecarStarted : ~session[n].closed => sidecarFiles[session[n].id] = n

\* The files stay within the budget of the volume, up to one packet: what is retained and
\* what the running capture may still write together.
WithinBudget == SidecarRetained < Budget + MaxPacket

\* A capture ends for a reason of its own: a late timer or stop of an earlier capture does
\* not end a later one, also not one of the same name.
EndsForItself ==
    \A n \in SidecarStarted :
        /\ session[n].reason = "duration" => session[n].timer = "fired"
        /\ session[n].reason = "stop" => session[n].asked
        /\ session[n].reason = "limit" => session[n].bytes >= session[n].max

-----------------------------------------------------------------------------
(***************************************************************************)
(* The worker of a node capture: it finds the game container's process on  *)
(* the host, enters its network namespace, captures until a limit, a       *)
(* signal or a change of the target, and publishes a result.  Process      *)
(* numbers are reused and the container may end at any moment.  The Job    *)
(* has no retries, but a Job's pod can still be started a second time (a   *)
(* lost node); the second one finds the files the first one left.          *)
(***************************************************************************)
CONSTANTS WorkerPodStarts   \* bound: times the worker's pod is started

VARIABLES
    workerProcess,   \* who has the process number now: "target", "other" or "none"
    targetAlive,     \* the process found at first still runs
    workerAt,        \* where the worker is
    workerStart,     \* which start of the worker this is
    namespaceOf,     \* whose network namespace was opened
    socketIn,        \* whose namespace the packet socket is bound to
    noticed,         \* the watching goroutine saw the identity change
    identityFile,    \* the start that reserved the capture; 0: none
    pcap,            \* the capture file: its start, "none", "open" or "closed", and whether it holds
                     \* a packet read after the target had ended
    workerOutcome,   \* Result.Status in memory
    published        \* the result file: the start that wrote it and its status
targetVars == <<workerProcess, targetAlive>>
workerVars == <<targetVars, workerAt, workerStart, namespaceOf, socketIn, noticed, identityFile, pcap,
                workerOutcome, published>>

Outcomes == {"none", "completed", "failed"}
WorkerTypeOK ==
    /\ workerProcess \in {"target", "other", "none"} /\ targetAlive \in BOOLEAN
    /\ workerStart \in 1..WorkerPodStarts
    /\ workerAt \in {"find", "opened", "found", "enter", "entered", "reserve", "open", "run", "judge",
                     "close",
                     "publish", "ended"}
    /\ namespaceOf \in {"target", "other", "none"} /\ socketIn \in {"target", "other", "none"}
    /\ noticed \in BOOLEAN /\ identityFile \in 0..WorkerPodStarts
    /\ pcap \in [by : 0..WorkerPodStarts, is : {"none", "open", "closed"}, stray : BOOLEAN]
    /\ workerOutcome \in Outcomes /\ published \in [by : 0..WorkerPodStarts, as : Outcomes]

WorkerInit ==
    /\ workerProcess = "target" /\ targetAlive = TRUE /\ workerAt = "find" /\ workerStart = 1
    /\ namespaceOf = "none"
    /\ socketIn = "none" /\ noticed = FALSE /\ identityFile = 0 /\ workerOutcome = "none"
    /\ pcap = [by |-> 0, is |-> "none", stray |-> FALSE] /\ published = [by |-> 0, as |-> "none"]

\* The container ends; its process number may go to another process.
TargetEnds ==
    /\ targetAlive /\ targetAlive' = FALSE /\ workerProcess' \in {"other", "none"}
    /\ UNCHANGED <<workerAt, workerStart, namespaceOf, socketIn, noticed, identityFile, pcap, workerOutcome,
                   published>>

WorkerTo(step) == workerAt' = step /\ UNCHANGED <<targetVars, workerStart>>
WorkerGivesUp == WorkerTo("ended")

-----------------------------------------------------------------------------
(* findTarget and source: every check reads the directory opened at first, *)
(* which fails once that very process has ended.                           *)

Verify == targetAlive
Checked(next) == IF Verify THEN WorkerTo(next) ELSE WorkerGivesUp
OpenTarget ==
    /\ workerAt = "find" /\ (IF targetAlive THEN WorkerTo("opened") ELSE WorkerGivesUp)
    /\ UNCHANGED <<namespaceOf, socketIn, noticed, identityFile, pcap, workerOutcome, published>>
\* The namespace is opened by number: it may be that of whoever has the number now.
OpenNamespace ==
    /\ workerAt = "opened" /\ namespaceOf' = workerProcess
    /\ (IF workerProcess = "none" THEN WorkerGivesUp ELSE WorkerTo("found"))
    /\ UNCHANGED <<socketIn, noticed, identityFile, pcap, workerOutcome, published>>
VerifyFound ==
    /\ workerAt = "found" /\ Checked("enter")
    /\ UNCHANGED <<namespaceOf, socketIn, noticed, identityFile, pcap, workerOutcome, published>>
VerifyBeforeEntering ==
    /\ workerAt = "enter" /\ Checked("entered")
    /\ UNCHANGED <<namespaceOf, socketIn, noticed, identityFile, pcap, workerOutcome, published>>
\* Setns and opening the socket may fail.
EnterNamespace ==
    /\ workerAt = "entered"
    /\ UNCHANGED <<namespaceOf, noticed, identityFile, pcap, workerOutcome, published>>
    /\ \/ Verify /\ WorkerTo("reserve") /\ socketIn' = namespaceOf
       \/ WorkerGivesUp /\ UNCHANGED socketIn

-----------------------------------------------------------------------------
(* runCapture.                                                             *)

\* The identity file is created exclusively: the file of an earlier start refuses this one.
ReserveIdentity ==
    IF identityFile = 0 THEN WorkerTo("open") /\ identityFile' = workerStart ELSE WorkerGivesUp /\ UNCHANGED identityFile
Reserve ==
    /\ workerAt = "reserve" /\ ReserveIdentity
    /\ UNCHANGED <<namespaceOf, socketIn, noticed, pcap, workerOutcome, published>>
WorkerOpenFile ==
    /\ workerAt = "open"
    /\ UNCHANGED <<namespaceOf, socketIn, noticed, identityFile, workerOutcome, published>>
    /\ \/ WorkerTo("run") /\ pcap' = [by |-> workerStart, is |-> "open", stray |-> FALSE]
       \/ WorkerGivesUp /\ UNCHANGED pcap
\* The watching goroutine, four times a second; then it cancels the reading.
WatchIdentity ==
    /\ workerAt = "run" /\ ~Verify /\ noticed' = TRUE /\ UNCHANGED <<targetVars, workerAt, workerStart>>
    /\ UNCHANGED <<namespaceOf, socketIn, identityFile, pcap, workerOutcome, published>>
WorkerWritePacket ==
    /\ workerAt = "run" /\ pcap' = [pcap EXCEPT !.stray = @ \/ ~targetAlive]
    /\ UNCHANGED <<targetVars, workerAt, workerStart>>
    /\ UNCHANGED <<namespaceOf, socketIn, noticed, identityFile, workerOutcome, published>>
\* Time, size, a signal or the cancel end the loop well; a broken source or a failed write does not.
EndCapture ==
    /\ workerAt = "run" /\ WorkerTo("judge") /\ workerOutcome' \in {"completed", "failed"}
    /\ UNCHANGED <<namespaceOf, socketIn, noticed, identityFile, pcap, published>>
JudgeOutcome == IF noticed \/ ~Verify THEN "failed" ELSE workerOutcome
Judge ==
    /\ workerAt = "judge" /\ workerOutcome' = JudgeOutcome /\ WorkerTo("close")
    /\ UNCHANGED <<namespaceOf, socketIn, noticed, identityFile, pcap, published>>
CloseFile ==
    /\ workerAt = "close" /\ pcap' = [pcap EXCEPT !.is = "closed"]
    /\ workerOutcome' \in {workerOutcome, "failed"} /\ WorkerTo("publish")
    /\ UNCHANGED <<namespaceOf, socketIn, noticed, identityFile, published>>
\* Written beside and renamed, so a reader sees all of it or nothing; any of the calls may fail.
PublishResult ==
    /\ workerAt = "publish" /\ WorkerGivesUp
    /\ published' \in {published, [by |-> workerStart, as |-> workerOutcome]}
    /\ UNCHANGED <<namespaceOf, socketIn, noticed, identityFile, pcap, workerOutcome>>

-----------------------------------------------------------------------------
(* The cluster.                                                            *)

WorkerKilled ==
    /\ workerAt # "ended" /\ WorkerGivesUp
    /\ UNCHANGED <<namespaceOf, socketIn, noticed, identityFile, pcap, workerOutcome, published>>
StartedAgain ==
    /\ workerAt = "ended" /\ workerStart < WorkerPodStarts /\ workerStart' = workerStart + 1
    /\ workerAt' = "find"
    /\ namespaceOf' = "none" /\ socketIn' = "none" /\ noticed' = FALSE /\ workerOutcome' = "none"
    /\ UNCHANGED <<targetVars, identityFile, pcap, published>>

WorkerNext ==
    \/ TargetEnds \/ OpenTarget \/ OpenNamespace \/ VerifyFound \/ VerifyBeforeEntering \/ EnterNamespace
    \/ Reserve
    \/ WorkerOpenFile \/ WatchIdentity \/ WorkerWritePacket \/ EndCapture \/ Judge \/ CloseFile
    \/ PublishResult
    \/ WorkerKilled \/ StartedAgain

-----------------------------------------------------------------------------
(* Properties.                                                             *)

\* The packet socket is bound to the target's namespace and to no other, although the namespace is
\* opened by a process number that can change hands between any two steps.
CapturesOnlyTarget == socketIn \in {"none", "target"}

\* A capture published as completed holds no packet read after its target had ended: the last check
\* comes after the last packet.
CompletedIsTargets == published.as = "completed" => ~pcap.stray

\* A published result is about the file that lies beside it: closed, and written by the same start of
\* the worker, even when the worker was started a second time.
ResultDescribesFile == published.by # 0 => pcap.is = "closed" /\ pcap.by = published.by
=============================================================================
