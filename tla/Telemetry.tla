------------------------------ MODULE Telemetry -------------------------------
(*****************************************************************************)
(* Usage reports, from the panel that sends them to the service that counts  *)
(* them. The parts share no state; each has its own initial states and       *)
(* steps.                                                                    *)
(*****************************************************************************)
EXTENDS Naturals, FiniteSets

(***************************************************************************)
(* The usage reporter of the API server: the stored consent, the notice,   *)
(* the install ID and the schedule of one singleton row, changed by admins *)
(* in transactions and polled by every replica.  A tick reads the state    *)
(* and the consent separately, claims a due slot with a conditional        *)
(* update, builds and sends one report and records the result.             *)
(* A slot is identified: two slots are never taken for one another.        *)
(***************************************************************************)
CONSTANT Replicas   \* API server processes sharing the database

VARIABLES
    consent,        \* config key telemetry: [basic, extended]
    choice,         \* consent_source and notice_shown_at: "default", then "noticed" or "made" (admin, legacy)
    identified,     \* install_id is set
    due,            \* next_due_at: a slot (an interval ahead, or soon: first report, backoff), NoSlot for NULL
    notice,         \* an admitted POST of a notice action, its transaction still to run
    tick,           \* replica -> its current tick
    recent,         \* a report was sent in the running interval
    telemetryCalm   \* admins, the receiver and the replicas no longer cause trouble
telemetryVars == <<consent, choice, identified, due, notice, tick, recent, telemetryCalm>>

SlotIds == 1..4
TelemetrySlots == [id : SlotIds, kind : {"soon", "interval"}, ripe : BOOLEAN]
NoSlot == [id |-> 0, kind |-> "soon", ripe |-> FALSE]
Consents == [basic : BOOLEAN, extended : BOOLEAN]
NoticeActions == {"seen", "keep", "extended-off", "all-off"}
NoTick == [at |-> "idle", slot |-> 0, ripe |-> FALSE, named |-> FALSE, chosen |-> FALSE, extended |-> FALSE]

TelemetryTypeOK ==
    /\ consent \in Consents /\ choice \in {"default", "noticed", "made"}
    /\ identified \in BOOLEAN /\ due \in TelemetrySlots \cup {NoSlot}
    /\ notice \in NoticeActions \cup {"none"}
    /\ recent \in BOOLEAN /\ telemetryCalm \in BOOLEAN
    /\ \A r \in Replicas :
          /\ tick[r].at \in {"idle", "consent", "decide", "build", "collect", "send", "sent", "failed"}
          /\ tick[r].slot \in SlotIds \cup {0}

rowVars == <<consent, choice, identified, due>>
\* A slot nobody remembers: stamps do not repeat.
FreshSlot == CHOOSE s \in SlotIds : s # due.id /\ \A r \in Replicas : s # tick[r].slot
Attempting == {"build", "collect", "send", "sent", "failed"}
Scheduled(kind) == [id |-> FreshSlot, kind |-> kind, ripe |-> FALSE]
GateOpen(basic, chosen) == basic /\ chosen
TelemetryGate == GateOpen(consent.basic, choice # "default")

\* seedTelemetryState: a new install starts with both tiers on behind the notice, an upgraded one keeps
\* its basic choice with extended off.
SeedTelemetryState ==
    \/ consent = [basic |-> TRUE, extended |-> TRUE] /\ choice = "default"
    \/ consent \in [basic : BOOLEAN, extended : {FALSE}] /\ choice = "made"
TelemetryInit ==
    /\ SeedTelemetryState /\ identified = FALSE /\ due = NoSlot
    /\ notice = "none" /\ tick = [r \in Replicas |-> NoTick]
    /\ recent = FALSE /\ telemetryCalm = FALSE

-----------------------------------------------------------------------------
(* Admins: every change is one transaction over the row.                   *)

TelemetryClosed(slot) == recent' = (recent /\ slot # NoSlot)
UpdateTelemetryConsentTx(source, id, slot) ==
    choice' = source /\ identified' = id /\ due' = slot /\ TelemetryClosed(slot)
IdFor(extended) == extended
ApplyConsent(basic, extended) ==
    /\ consent' = [basic |-> basic, extended |-> basic /\ extended]
    /\ UpdateTelemetryConsentTx("made", IdFor(basic /\ extended),
           IF ~GateOpen(basic, TRUE) THEN NoSlot ELSE IF due = NoSlot THEN Scheduled("soon") ELSE due)
\* The notice was rendered; the gate may open with it.
MarkNoticeSeen ==
    /\ UNCHANGED consent
    /\ UpdateTelemetryConsentTx(IF choice = "default" THEN "noticed" ELSE choice,
                                identified \/ consent.extended,
           IF due = NoSlot /\ GateOpen(consent.basic, TRUE) THEN Scheduled("soon") ELSE due)

SaveTelemetry ==
    /\ ~telemetryCalm /\ \E c \in Consents : ApplyConsent(c.basic, c.extended)
    /\ UNCHANGED <<notice, tick, telemetryCalm>>
\* postNotice checks that the notice is pending before its transaction.
PostNotice ==
    /\ ~telemetryCalm /\ notice = "none" /\ choice # "made" /\ notice' \in NoticeActions
    /\ UNCHANGED <<rowVars, tick, recent, telemetryCalm>>
ApplyNotice ==
    /\ notice # "none" /\ notice' = "none" /\ UNCHANGED <<tick, telemetryCalm>>
    /\ \/ notice = "seen" /\ MarkNoticeSeen
       \/ notice = "keep" /\ UNCHANGED <<rowVars, recent>>
       \/ notice = "extended-off" /\ ApplyConsent(consent.basic, FALSE)
       \/ notice = "all-off" /\ ApplyConsent(FALSE, FALSE)

-----------------------------------------------------------------------------
(* The reporter of one replica.                                            *)

Ticks(r, changes) == tick' = [tick EXCEPT ![r] = changes]
TickEnds(r) == Ticks(r, NoTick) /\ UNCHANGED <<notice, telemetryCalm>>
\* An attempt goes on; what its later steps do not use is forgotten.
Continues(r, at) ==
    /\ Ticks(r, [NoTick EXCEPT !.at = at, !.slot = tick[r].slot, !.extended = tick[r].extended /\ at = "collect"])
    /\ UNCHANGED <<notice, telemetryCalm>>

ReadState(r) ==
    /\ tick[r].at = "idle"
    /\ Ticks(r, [NoTick EXCEPT !.at = "consent", !.slot = due.id, !.ripe = due.ripe, !.named = identified,
                               !.chosen = choice # "default"])
    /\ UNCHANGED <<rowVars, notice, recent, telemetryCalm>>
\* The extended part is withheld for a week from an endpoint that refused it.
ReadConsent(r) ==
    /\ tick[r].at = "consent"
    /\ \E withheld \in BOOLEAN :
          Ticks(r, [tick[r] EXCEPT !.at = "decide", !.chosen = GateOpen(consent.basic, tick[r].chosen),
                    !.extended = consent.extended /\ ~withheld])
    /\ UNCHANGED <<rowVars, notice, recent, telemetryCalm>>
CloseTelemetrySchedule == due' = NoSlot
OpenTelemetrySchedule == due' = IF due = NoSlot THEN Scheduled("soon") ELSE due
\* The slot is claimed for the next interval, only if it still is the one that was read.
Claims(r) ==
    /\ due' = Scheduled("interval")
    /\ Ticks(r, [NoTick EXCEPT !.at = "build", !.slot = FreshSlot, !.named = tick[r].named,
                 !.extended = tick[r].extended])
ClaimTelemetryDue(r) ==
    IF due.id = tick[r].slot
    THEN Claims(r)
    ELSE Ticks(r, NoTick) /\ UNCHANGED due
\* Tick: close a slot behind a closed gate, open one behind an open gate, or attempt the due one.
Decide(r) ==
    LET open == tick[r].chosen IN
    /\ tick[r].at = "decide"
    /\ \/ ~open /\ Ticks(r, NoTick) /\ (IF tick[r].slot = 0 THEN due' = due ELSE CloseTelemetrySchedule)
       \/ open /\ tick[r].slot = 0 /\ Ticks(r, NoTick) /\ OpenTelemetrySchedule
       \/ open /\ tick[r].slot # 0 /\ ~tick[r].ripe /\ Ticks(r, NoTick) /\ UNCHANGED due
       \/ open /\ tick[r].slot # 0 /\ tick[r].ripe /\ ClaimTelemetryDue(r)
    /\ TelemetryClosed(due')
    /\ UNCHANGED <<consent, choice, identified, notice, telemetryCalm>>
\* build: an extended report of an install without an ID creates one first.  collectExtended reads the ID
\* again and fails without one.
TelemetryBuild(r) ==
    /\ tick[r].at \in {"build", "collect"}
    /\ IF tick[r].at = "build" /\ tick[r].extended /\ ~tick[r].named
       THEN identified' = TRUE /\ Continues(r, "collect")
       ELSE Continues(r, IF tick[r].extended /\ ~identified THEN "failed" ELSE "send") /\ UNCHANGED identified
    /\ UNCHANGED <<consent, choice, due, recent>>
\* One POST, repeated once with a new challenge after a 428, is accepted or fails.
Posted == IF telemetryCalm THEN {"sent"} ELSE {"sent", "failed"}
\* One report with its single repetition: the basic part after a 400, a replaced ID after a 409.
Send(r) ==
    /\ tick[r].at = "send" /\ UNCHANGED rowVars
    /\ \E answer \in Posted :
          Continues(r, answer) /\ recent' = (recent \/ (answer = "sent" /\ due.id = tick[r].slot))
\* finish: the next slot replaces the claimed one only; a gate that closed meanwhile stays closed.
RecordTelemetryResult(r, slot) == due' = IF due.id = tick[r].slot THEN slot ELSE due
TelemetryFinish(r) ==
    /\ tick[r].at \in {"sent", "failed"} /\ TickEnds(r)
    /\ RecordTelemetryResult(r, Scheduled(IF tick[r].at = "sent" THEN "interval" ELSE "soon"))
    /\ UNCHANGED <<consent, choice, identified, recent>>
ReplicaStep(r) ==
    ReadState(r) \/ ReadConsent(r) \/ Decide(r) \/ TelemetryBuild(r) \/ Send(r) \/ TelemetryFinish(r)

\* A process dies in a tick; what it claimed stays claimed.
ReplicaDies(r) ==
    /\ ~telemetryCalm /\ tick[r].at # "idle" /\ TickEnds(r) /\ UNCHANGED <<rowVars, recent>>
\* Time passes; an attempt is far shorter than the interval it claimed.
SlotRipens ==
    /\ due # NoSlot /\ ~due.ripe /\ \A r \in Replicas : tick[r].at \in Attempting => tick[r].slot # due.id
    /\ due' = [due EXCEPT !.ripe = TRUE] /\ recent' = (recent /\ due.kind # "interval")
    /\ UNCHANGED <<consent, choice, identified, notice, tick, telemetryCalm>>
Calms ==
    /\ ~telemetryCalm /\ notice = "none" /\ telemetryCalm' = TRUE
    /\ UNCHANGED <<rowVars, notice, tick, recent>>

SomeReplicaStep == \E r \in Replicas : ReplicaStep(r)
SomeReplicaDies == \E r \in Replicas : ReplicaDies(r)
TelemetryNext ==
    \/ SaveTelemetry \/ PostNotice \/ ApplyNotice \/ SomeReplicaStep \/ SomeReplicaDies
    \/ SlotRipens \/ Calms

-----------------------------------------------------------------------------
(* Properties.                                                             *)

\* However many replicas poll, two reports sent within one open period of the schedule are at least an
\* interval apart: a claimed slot is sent by one replica, and a restart or a retry never sends early.
SpacedReports == [][\A r \in Replicas :
    tick[r].at # "sent" /\ tick'[r].at = "sent" /\ due.id = tick[r].slot => ~recent]_telemetryVars

\* A claim that wins does so while the gate is open: consent withdrawn between a tick's reads and its claim
\* stops the report.
ClaimedWithConsent ==
    [][\A r \in Replicas : tick[r].at = "decide" /\ tick'[r].at = "build" => TelemetryGate]_telemetryVars

-----------------------------------------------------------------------------
(***************************************************************************)
(* The telemetry receiver's extended reports: identity checks, the write   *)
(* transaction over the activity record and the day's aggregates, and the  *)
(* hourly lifecycle job.  Reports may be delivered again at any time.  A   *)
(* request reads the clock before its transaction, so midnight may pass    *)
(* in between.                                                             *)
(***************************************************************************)
CONSTANTS IngestReports,    \* signed reports: [key, sent]; a cloned installation shares its ID with the
                            \* original
          IngestLastTime,   \* bound: how far the clock runs, in units of half a day
          WindowPast,       \* extWindowPast in units
          ExpiryDays,       \* ACTIVITY_EXPIRY_DAYS
          RetainDays,       \* RETENTION_DAYS
          LapsedDays,       \* lapsedWindowDays
          InFlightReports   \* bound: requests served at a time

VARIABLES
    rxClock,     \* the receiver's clock
    activity,    \* the activity record of the install ID
    daily,       \* daily_ext of every day: [active, new, lapsed]
    rollover,    \* the day after meta.rollover_through; the run at start finalised what came before
    ingesting,   \* requests past their prechecks: [key, sent, day]
    tallied,     \* reports counted, once in the aggregates or as a duplicate of the day
    ingestJob    \* the lifecycle job: the clock it read, or NoJob
ingestVars == <<rxClock, activity, daily, rollover, ingesting, tallied, ingestJob>>

ReportDay(t) == t \div 2
ReportDays == 0..ReportDay(IngestLastTime)
NoRecord == [key |-> 0, seen |-> 0, sent |-> 0]
IngestNoRow == [active |-> 0, new |-> 0, lapsed |-> 0]
NoRun == IngestLastTime + 1

ReportOf(r) == [key |-> r.key, sent |-> r.sent]
IngestTypeOK ==
    /\ rxClock \in 0..IngestLastTime
    /\ activity \in [key : {r.key : r \in IngestReports}, seen : ReportDays,
                     sent : 0..IngestLastTime] \cup {NoRecord}
    /\ daily \in [ReportDays -> [active : Nat, new : Nat, lapsed : 0..1]]
    /\ rollover \in ReportDays
    /\ \A r \in ingesting : ReportOf(r) \in IngestReports /\ r.day \in ReportDays
    /\ Cardinality(ingesting) <= InFlightReports
    /\ tallied \subseteq IngestReports
    /\ ingestJob \in 0..NoRun

IngestInit ==
    /\ rxClock = 0 /\ activity = NoRecord /\ daily = [d \in ReportDays |-> IngestNoRow]
    /\ rollover = 0 /\ ingesting = {} /\ tallied = {} /\ ingestJob = NoRun

\* Time passes; a request is answered within a day, a run of the job within half a day.
RxTick ==
    /\ rxClock < IngestLastTime /\ rxClock' = rxClock + 1 /\ ingestJob = NoRun
    /\ \A r \in ingesting : ReportDay(rxClock') <= r.day + 1
    /\ UNCHANGED <<activity, daily, rollover, ingesting, tallied, ingestJob>>

-----------------------------------------------------------------------------
(* ingestExtended.                                                         *)

\* ingest has read and decoded the whole body; whatever it refuses changes nothing.
IngestDelivered(report) == report.sent <= rxClock
FreshEnough(report) == report.sent + WindowPast >= rxClock
\* checkClaim: the record belongs to the same key and the send time is later than the last accepted one.
CheckClaim(report) == activity.key = report.key /\ report.sent > activity.sent
\* verifyExtSignature, precheckClaim and the clock read for the day.
Precheck ==
    /\ Cardinality(ingesting) < InFlightReports
    /\ \E report \in IngestReports :
          /\ IngestDelivered(report) /\ FreshEnough(report) /\ (activity # NoRecord => CheckClaim(report))
          /\ ingesting' = ingesting \cup {[key |-> report.key, sent |-> report.sent,
                                           day |-> ReportDay(rxClock)]}
    /\ UNCHANGED <<rxClock, activity, daily, rollover, tallied, ingestJob>>

IngestAnswers(r) == ingesting' = ingesting \ {r} /\ UNCHANGED <<rxClock, rollover, ingestJob>>
Tallies(r) == tallied' = tallied \cup {ReportOf(r)}
IngestRefuse(r) == IngestAnswers(r) /\ UNCHANGED <<activity, daily, tallied>>
WriteExtendedAggregates(r, fresh) ==
    daily' = [daily EXCEPT ![r.day].active = @ + 1, ![r.day].new = @ + fresh]
InsertActivity(r) ==
    /\ activity' = [key |-> r.key, seen |-> r.day, sent |-> r.sent]
    /\ WriteExtendedAggregates(r, 1) /\ Tallies(r)
AlreadySeen(r) == activity.seen >= r.day
\* Variant: a repetition leaves the latest accepted send time alone.
DuplicateKeepsTime(r) == UNCHANGED <<activity, daily>> /\ Tallies(r)
\* A repetition within the day changes no aggregate, but its send time becomes the latest accepted one.
CountDuplicate(r) ==
    activity' = [activity EXCEPT !.sent = r.sent] /\ UNCHANGED daily /\ Tallies(r)
UpdateActivity(r) ==
    /\ activity' = [activity EXCEPT !.seen = r.day, !.sent = r.sent]
    /\ WriteExtendedAggregates(r, 0) /\ Tallies(r)
\* recordExtended repeats the claim check inside its transaction. The per-source limit or a failed
\* transaction stores nothing.
RecordExtended ==
    \E r \in ingesting, fails \in BOOLEAN :
       IF fails THEN IngestRefuse(r)
       ELSE IF activity = NoRecord THEN InsertActivity(r) /\ IngestAnswers(r)
       ELSE IF ~CheckClaim(r) THEN IngestRefuse(r)
       ELSE IF AlreadySeen(r) THEN CountDuplicate(r) /\ IngestAnswers(r)
       ELSE UpdateActivity(r) /\ IngestAnswers(r)

-----------------------------------------------------------------------------
(* The lifecycle job.                                                      *)

\* The completed days after rollover_through.
PendingDays(now) == {d \in ReportDays : d < ReportDay(now) /\ d >= rollover}
RecordLapsed(days) ==
    [d \in ReportDays |->
        IF d \in days /\ activity # NoRecord /\ activity.seen + LapsedDays = d
        THEN [daily[d] EXCEPT !.lapsed = 1] ELSE daily[d]]
ExpireActivity(now) ==
    IF activity # NoRecord /\ activity.seen + ExpiryDays < ReportDay(now) THEN NoRecord ELSE activity
RetentionSweep(rows, now) ==
    [d \in ReportDays |-> IF d + RetainDays < ReportDay(now) THEN IngestNoRow ELSE rows[d]]
StartLifecycle ==
    /\ ingestJob = NoRun /\ ingestJob' = rxClock
    /\ UNCHANGED <<rxClock, activity, daily, rollover, ingesting, tallied>>
\* One transaction: the marker, the lapsed installs, the expiry and the sweep; or it fails and changes
\* nothing.
LifecycleOnce ==
    /\ ingestJob # NoRun /\ ingestJob' = NoRun
    /\ \/ LET days == PendingDays(ingestJob) IN
          /\ rollover' = IF days = {} THEN rollover ELSE ReportDay(ingestJob)
          /\ activity' = ExpireActivity(ingestJob)
          /\ daily' = RetentionSweep(RecordLapsed(days), ingestJob)
       \/ UNCHANGED <<activity, daily, rollover>>
    /\ UNCHANGED <<rxClock, ingesting, tallied>>

IngestNext == RxTick \/ Precheck \/ RecordExtended \/ StartLifecycle \/ LifecycleOnce

-----------------------------------------------------------------------------
(* Properties.                                                             *)

\* A report is counted once, however often and however late it is delivered: after it was counted, after it
\* was a duplicate of its day, and after the record it was checked against expired.
TalliedOnce ==
    [][(\E r \in ingesting \ ingesting' : ReportOf(r) \in tallied) => UNCHANGED <<daily, activity>>]_ingestVars

\* A day counts the install once, although requests that read the clock on both sides of midnight overlap.
ActiveOncePerDay == \A d \in ReportDays : daily[d].active <= 1

\* An install that fell silent is counted as lapsed on the day its window ended before its record expires,
\* although runs of the job fail or days pass without one: no completed day is skipped.
LapseRecorded ==
    [][activity # NoRecord /\ activity' = NoRecord => daily'[activity.seen + LapsedDays].lapsed = 1]_ingestVars
=============================================================================
