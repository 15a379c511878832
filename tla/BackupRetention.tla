--------------------------- MODULE BackupRetention ----------------------------
(*****************************************************************************)
(* Backup schedules and what becomes of old backups. The parts share no      *)
(* state; each has its own initial states and steps.                         *)
(*****************************************************************************)
EXTENDS Naturals, FiniteSets, FiniteSetsExt

(***************************************************************************)
(* One BackupSchedule: its reconciler, the Backups it fires and trims, and *)
(* the informer cache it reads them through.  A pass is a sequence of API  *)
(* calls; the operator may crash between any two of them, and the write of *)
(* the status that ends it is refused when the schedule changed meanwhile. *)
(*                                                                         *)
(* Time is a clock of whole seconds.  A Backup is named after the second   *)
(* of the pass that fires it, so the Backups are indexed by times.         *)
(***************************************************************************)
CONSTANTS
    ScheduleMaxTime,   \* bound on the clock
    CronTimes,         \* the occurrences of spec.schedule
    Policies,          \* values of spec.concurrencyPolicy
    Deadline,          \* spec.startingDeadlineSeconds
    KeepLast,          \* spec.retention.keepLast
    KeepDaily,         \* spec.retention.keepDaily
    DayLength          \* seconds in a retention bucket

ASSUME ScheduleAssumption ==
    /\ ScheduleMaxTime \in Nat /\ CronTimes \subseteq 1..ScheduleMaxTime
    /\ Deadline \in Nat /\ KeepLast \in Nat /\ KeepDaily \in Nat /\ DayLength \in Nat \ {0}

VARIABLES
    clock,            \* time.Now
    sched,            \* the BackupSchedule
    backups,          \* its Backups, by name
    scheduleListed,   \* the Backups in the informer cache
    scheduleSeen,     \* the schedule in the cache
    pass              \* the reconcile in progress

scheduleVars == <<clock, sched, backups, scheduleListed, scheduleSeen, pass>>

Time == 0..ScheduleMaxTime
ScheduleName == 1..ScheduleMaxTime
NoBackup == [phase |-> "none", deleting |-> FALSE, done |-> 0]
BackupObject ==
    [phase: {"none", "InFlight", "Succeeded", "Failed"}, deleting: BOOLEAN, done: Time]
ScheduleNoPass == [pc |-> "idle", fresh |-> FALSE, last |-> 0, ok |-> 0, todo |-> {}]
Pc == {"idle", "replace", "create", "trim", "trimming", "persist"}

ScheduleTypeOK ==
    /\ clock \in Time
    /\ sched \in [policy: Policies, suspend: BOOLEAN, last: Time, ok: Time]
    /\ backups \in [ScheduleName -> BackupObject] /\ scheduleListed \in [ScheduleName -> BackupObject]
    /\ scheduleSeen \in [policy: Policies, suspend: BOOLEAN, last: Time, ok: Time]
    /\ pass \in [pc: Pc, fresh: BOOLEAN, last: Time, ok: Time, todo: SUBSET ScheduleName]

\* A schedule that never fired counts from its creation, at time 0.
ScheduleInit ==
    /\ clock = 0
    /\ sched \in [policy: Policies, suspend: {FALSE}, last: {0}, ok: {0}]
    /\ backups = [t \in ScheduleName |-> NoBackup]
    /\ scheduleListed = backups
    /\ scheduleSeen = sched
    /\ pass = ScheduleNoPass

-----------------------------------------------------------------------------
(* The environment.                                                        *)

\* The cache catches up within the second, and a pass that read the time uses it
\* within the second: the two assumptions under which a taken name stops a retry.
Tick ==
    /\ clock < ScheduleMaxTime
    /\ scheduleListed = backups /\ scheduleSeen = sched
    /\ pass.pc \notin {"replace", "create"}
    /\ clock' = clock + 1
    /\ UNCHANGED <<sched, backups, scheduleListed, scheduleSeen, pass>>

CacheSync ==
    /\ scheduleListed # backups \/ scheduleSeen # sched
    /\ scheduleListed' = backups /\ scheduleSeen' = sched
    /\ UNCHANGED <<clock, sched, backups, pass>>

\* The Backup controller ends a Backup, and releases one that is being deleted; a
\* user deletes one.  To the schedule's reconciler a change its cache does not show
\* yet has not happened, so these reach the cache at once: what lags is the view of
\* the reconciler's own writes.
BackupChanges(t, object) ==
    /\ scheduleListed = backups
    /\ backups' = [backups EXCEPT ![t] = object]
    /\ scheduleListed' = backups'
    /\ UNCHANGED <<clock, sched, scheduleSeen, pass>>

Complete(t) ==
    /\ backups[t].phase = "InFlight"
    /\ \E p \in {"Succeeded", "Failed"} :
          BackupChanges(t, [backups[t] EXCEPT !.phase = p, !.done = clock])

Vanish(t) ==
    /\ backups[t].deleting
    /\ BackupChanges(t, NoBackup)

UserDeletes(t) ==
    /\ backups[t].phase # "none" /\ ~backups[t].deleting
    /\ BackupChanges(t, [backups[t] EXCEPT !.deleting = TRUE])

\* A user edits the schedule: a pass that read it before loses its status write.
Suspend ==
    /\ scheduleSeen = sched
    /\ sched' = [sched EXCEPT !.suspend = ~@]
    /\ pass' = [pass EXCEPT !.fresh = FALSE]
    /\ UNCHANGED <<clock, backups, scheduleListed, scheduleSeen>>

-----------------------------------------------------------------------------
(* Reading and deciding.                                                   *)

Active(B) == {t \in ScheduleName : B[t].phase = "InFlight"}

\* The next occurrence after t is not in the future.
Due(t) == \E c \in CronTimes : t < c /\ c <= clock
NextTime(t) == Min({c \in CronTimes : t < c})
PastDeadline(t) == clock - NextTime(t) > Deadline

NewestSuccess ==
    Max({0} \cup {scheduleListed[t].done : t \in {u \in ScheduleName : scheduleListed[u].phase = "Succeeded"}})

LastSuccessful == Max({scheduleSeen.ok, NewestSuccess})

\* A pass that records the next tick as the last one.
GoAhead(pc, last, todo) ==
    pass' = [pc |-> pc, fresh |-> (scheduleSeen = sched), last |-> last + 1, ok |-> LastSuccessful, todo |-> todo]
Go(pc, last, todo) ==
    pass' = [pc |-> pc, fresh |-> (scheduleSeen = sched), last |-> last, ok |-> LastSuccessful,
             todo |-> todo]

\* An occurrence that is due is answered for, fired or not.
ShouldFire ==
    \/ /\ PastDeadline(scheduleSeen.last)
       /\ Go("trim", clock, {})
    \/ /\ ~PastDeadline(scheduleSeen.last)
       /\ \/ scheduleSeen.policy = "Allow" /\ Go("create", clock, {})
          \/ scheduleSeen.policy = "Replace" /\ Go("replace", clock, Active(scheduleListed))
          \/ scheduleSeen.policy = "Forbid" /\ Active(scheduleListed) # {} /\ Go("trim", clock, {})
          \/ scheduleSeen.policy = "Forbid" /\ Active(scheduleListed) = {} /\ Go("create", clock, {})

StartSchedule ==
    /\ pass.pc = "idle"
    /\ \/ scheduleSeen.suspend /\ Go("persist", scheduleSeen.last, {})
       \/ ~scheduleSeen.suspend /\ ~Due(scheduleSeen.last) /\ Go("trim", scheduleSeen.last, {})
       \/ ~scheduleSeen.suspend /\ Due(scheduleSeen.last) /\ ShouldFire
    /\ UNCHANGED <<clock, sched, backups, scheduleListed, scheduleSeen>>

\* Replace deletes what is in flight before it fires.
ReplaceInFlight ==
    /\ pass.pc = "replace"
    /\ \/ \E t \in pass.todo :
            /\ backups' = [backups EXCEPT ![t].deleting = (backups[t].phase # "none")]
            /\ pass' = [pass EXCEPT !.todo = @ \ {t}]
       \/ /\ pass.todo = {}
          /\ pass' = [pass EXCEPT !.pc = "create"]
          /\ UNCHANGED backups
    /\ UNCHANGED <<clock, sched, scheduleListed, scheduleSeen>>

\* A name that is taken fails the pass.
Fire ==
    /\ pass.pc = "create"
    /\ IF backups[pass.last].phase = "none"
       THEN /\ backups' = [backups EXCEPT ![pass.last] = [NoBackup EXCEPT !.phase = "InFlight"]]
            /\ pass' = [pass EXCEPT !.pc = "trim"]
       ELSE pass' = ScheduleNoPass /\ UNCHANGED backups
    /\ UNCHANGED <<clock, sched, scheduleListed, scheduleSeen>>

-----------------------------------------------------------------------------
(* Retention.                                                              *)

Bucket(t) == scheduleListed[t].done \div DayLength

\* Newest first; equal completion times are ordered by name here.
ScheduleNewer(t, u) ==
    scheduleListed[t].done > scheduleListed[u].done \/ (scheduleListed[t].done = scheduleListed[u].done /\ t > u)
NewerThan(t, S) == {u \in S : ScheduleNewer(u, t)}

Trimmable == {t \in ScheduleName : scheduleListed[t].phase = "Succeeded" /\ ~scheduleListed[t].deleting}

\* The loop of keepByBucket: the newest of a bucket opens it, until enough are open.
KeepByBucket(S, n) ==
    LET Opens(t) == \A u \in NewerThan(t, S) : Bucket(u) # Bucket(t)
        Seen(t) == {Bucket(u) : u \in NewerThan(t, S)}
    IN  {t \in S : Opens(t) /\ Cardinality(Seen(t)) < n}
SelectKept(S) ==
    {t \in S : Cardinality(NewerThan(t, S)) < KeepLast} \cup KeepByBucket(S, KeepDaily)

\* The Restores in flight may pin any of the Backups.
StartTrim ==
    /\ pass.pc = "trim"
    /\ \E pinned \in SUBSET Trimmable :
          pass' = [pass EXCEPT !.pc = "trimming",
                               !.todo = IF KeepLast = 0 /\ KeepDaily = 0 THEN {}
                                        ELSE Trimmable \ (SelectKept(Trimmable) \cup pinned)]
    /\ UNCHANGED <<clock, sched, backups, scheduleListed, scheduleSeen>>

\* A Backup that is gone already ends the trim with an error, which is recorded in
\* a condition only.
TrimBackups ==
    /\ pass.pc = "trimming"
    /\ \/ \E t \in pass.todo :
            IF backups[t].phase = "none"
            THEN /\ pass' = [pass EXCEPT !.pc = "persist", !.todo = {}]
                 /\ UNCHANGED backups
            ELSE /\ backups' = [backups EXCEPT ![t].deleting = TRUE]
                 /\ pass' = [pass EXCEPT !.todo = @ \ {t}]
       \/ /\ pass.todo = {}
          /\ pass' = [pass EXCEPT !.pc = "persist"]
          /\ UNCHANGED backups
    /\ UNCHANGED <<clock, sched, scheduleListed, scheduleSeen>>

-----------------------------------------------------------------------------
(* The end of a pass.                                                      *)

PersistStatus ==
    /\ pass.pc = "persist"
    /\ pass' = ScheduleNoPass
    /\ sched' = IF pass.fresh THEN [sched EXCEPT !.last = pass.last, !.ok = pass.ok] ELSE sched
    /\ UNCHANGED <<clock, backups, scheduleListed, scheduleSeen>>

\* A call fails or the operator crashes: nothing of the pass is recorded.
ScheduleAborts ==
    /\ pass.pc # "idle"
    /\ pass' = ScheduleNoPass
    /\ UNCHANGED <<clock, sched, backups, scheduleListed, scheduleSeen>>

SchedulePass ==
    \/ StartSchedule \/ ReplaceInFlight \/ Fire \/ StartTrim \/ TrimBackups
    \/ PersistStatus \/ ScheduleAborts

ScheduleNext ==
    \/ SchedulePass
    \/ Tick \/ CacheSync \/ Suspend
    \/ \E t \in ScheduleName : Complete(t) \/ Vanish(t) \/ UserDeletes(t)

-----------------------------------------------------------------------------
(* Properties.                                                             *)

\* A schedule that does not allow overlap has at most one Backup in flight that it
\* has not asked to go: a pass whose status was lost, after a crash or a conflict,
\* finds the Backup it fired in the cache, or finds its name taken (shouldFire).
OneInFlight ==
    sched.policy # "Allow" =>
        Cardinality({t \in Active(backups) : ~backups[t].deleting}) <= 1

\* Retention deletes a Backup only when it succeeded and every keep rule is
\* satisfied by newer ones: enough newer Backups for keepLast, and a newer one in
\* its bucket or enough newer buckets (trimBackups, selectKept).
TrimOnlySurplus ==
    [][pass.pc = "trim" /\ pass'.pc = "trimming" =>
         \A t \in pass'.todo :
            LET kept == {u \in ScheduleName \ {t} :
                           /\ scheduleListed[u].phase = "Succeeded" /\ ~scheduleListed[u].deleting
                           /\ scheduleListed[u].done >= scheduleListed[t].done}
                days == {scheduleListed[u].done \div DayLength : u \in kept}
            IN  /\ backups[t].phase \in {"Succeeded", "none"}
                /\ Cardinality(kept) >= KeepLast
                /\ scheduleListed[t].done \div DayLength \in days \/ Cardinality(days) >= KeepDaily
      ]_scheduleVars

\* status.lastSuccessfulTime "only ever moves forward", although the Backup it was
\* taken from may be trimmed or deleted (updateLastSuccessfulTime).
LastSuccessNeverRewinds == [][sched'.ok >= sched.ok]_scheduleVars

-----------------------------------------------------------------------------
(***************************************************************************)
(* What becomes of a restic snapshot: one Backup, the Job that writes its  *)
(* snapshot, the deletion of the Backup with the Job that forgets the      *)
(* snapshot, and the Restores that read it.  The admission and the quiesce *)
(* of the copy are BackupController's; here the copy is a Job that starts. *)
(***************************************************************************)
CONSTANT Restores

VARIABLES
    fb,          \* the Backup
    copyJob,     \* its restic Job
    repo,        \* its snapshot in the repository
    forgetJob,   \* the Job that forgets the snapshot
    secret,      \* the repository Secret has its keys
    restores,    \* the Restores that name the Backup
    cached,      \* the Restores in the operator's informer cache
    pinnedIn     \* the Restores in the cache when the forget Job was created

forgetVars == <<fb, copyJob, repo, forgetJob, secret, restores, cached, pinnedIn>>
jobsAndRepo == <<copyJob, repo, forgetJob>>
environment == <<secret, restores, cached>>

Job == {"none", "running", "succeeded", "failed", "deleting"}
BackupState ==
    [phase: {"Pending", "Running", "Succeeded", "Failed"},
     legacy: BOOLEAN,              \* started before the preparation protocol
     unavailable: BOOLEAN,         \* status.message = snapshotUnavailableMsg
     id: BOOLEAN,                  \* status.snapshotID
     held: BOOLEAN,                \* was given BackupSnapshotFinalizer
     deleting: BOOLEAN, gone: BOOLEAN,
     since: {"none", "recent", "expired"},   \* forget-started-at
     warned: BOOLEAN]              \* a Warning event names the snapshot
InFlight == {"Pending", "Pinned", "Reading"}

ForgetTypeOK ==
    /\ fb \in BackupState
    /\ copyJob \in Job /\ forgetJob \in Job
    /\ repo \in {"empty", "stored", "forgotten"}
    /\ secret \in BOOLEAN
    /\ restores \in [Restores -> {"none", "Succeeded", "Failed"} \cup InFlight]
    /\ cached \subseteq Restores /\ pinnedIn \subseteq Restores

ForgetInit ==
    /\ \E legacy \in BOOLEAN :
          /\ fb = [phase |-> IF legacy THEN "Running" ELSE "Pending", legacy |-> legacy,
                   unavailable |-> FALSE, id |-> FALSE, held |-> FALSE, deleting |-> FALSE,
                   gone |-> FALSE, since |-> "none", warned |-> FALSE]
          /\ copyJob = IF legacy THEN "running" ELSE "none"
    /\ repo = "empty" /\ forgetJob = "none" /\ secret = TRUE
    /\ restores = [r \in Restores |-> "none"] /\ cached = {} /\ pinnedIn = {}

-----------------------------------------------------------------------------
(* Jobs, users and the cache.                                              *)

\* restic writes the snapshot before its pod ends; a pod may fail after that.
SnapshotWritten ==
    /\ copyJob \in {"running", "deleting"} /\ repo = "empty"
    /\ repo' = "stored"
    /\ UNCHANGED <<fb, copyJob, forgetJob, environment, pinnedIn>>

CopyJobEnds ==
    /\ \/ copyJob = "running" /\ repo = "stored" /\ copyJob' = "succeeded"
       \/ copyJob = "running" /\ copyJob' = "failed"
       \/ copyJob = "deleting" /\ copyJob' = "none"
    /\ UNCHANGED <<fb, repo, forgetJob, environment, pinnedIn>>

\* restic forget, of a snapshot that is there or not.
ForgetJobEnds ==
    /\ forgetJob = "running"
    /\ \/ forgetJob' = "succeeded" /\ repo' = IF repo = "stored" THEN "forgotten" ELSE repo
       \/ forgetJob' = "failed" /\ UNCHANGED repo
    /\ UNCHANGED <<fb, copyJob, environment, pinnedIn>>

\* The Jobs of a Backup that is gone are collected.
Collect ==
    /\ fb.gone /\ {copyJob, forgetJob} # {"none"}
    /\ copyJob' = "none" /\ forgetJob' = "none"
    /\ UNCHANGED <<fb, repo, environment, pinnedIn>>

SecretDeleted ==
    /\ secret /\ secret' = FALSE
    /\ UNCHANGED <<fb, jobsAndRepo, restores, cached, pinnedIn>>

DeleteBackup ==
    /\ ~fb.deleting
    /\ fb' = [fb EXCEPT !.deleting = TRUE, !.gone = ~fb.held]
    /\ UNCHANGED <<jobsAndRepo, environment, pinnedIn>>

CreateRestore(r) ==
    /\ restores[r] = "none"
    /\ restores' = [restores EXCEPT ![r] = "Pending"]
    /\ UNCHANGED <<fb, jobsAndRepo, secret, cached, pinnedIn>>

ForgetCacheSync(r) ==
    /\ restores[r] # "none" /\ r \notin cached
    /\ cached' = cached \cup {r}
    /\ UNCHANGED <<fb, jobsAndRepo, secret, restores, pinnedIn>>

\* The bound of forty-five minutes runs out.
ForgetWaitElapses ==
    /\ fb.since = "recent"
    /\ fb' = [fb EXCEPT !.since = "expired"]
    /\ UNCHANGED <<jobsAndRepo, environment, pinnedIn>>

-----------------------------------------------------------------------------
(* The Restore controller, as far as its source is concerned.              *)

\* A source that is being deleted is not refused.
RestoreObserves(r) ==
    /\ restores[r] = "Pending"
    /\ \/ /\ fb.gone \/ fb.phase = "Failed"
          /\ restores' = [restores EXCEPT ![r] = "Failed"]
       \/ /\ ~fb.gone /\ fb.phase = "Succeeded" /\ fb.id
          /\ restores' = [restores EXCEPT ![r] = "Pinned"]
    /\ UNCHANGED <<fb, jobsAndRepo, secret, cached, pinnedIn>>

RestoreJobRuns(r) ==
    /\ \/ restores[r] = "Pinned" /\ restores' = [restores EXCEPT ![r] = "Reading"]
       \/ restores[r] = "Reading" /\ repo = "stored" /\ restores' = [restores EXCEPT ![r] = "Succeeded"]
       \/ restores[r] = "Reading" /\ restores' = [restores EXCEPT ![r] = "Failed"]
    /\ UNCHANGED <<fb, jobsAndRepo, secret, cached, pinnedIn>>

-----------------------------------------------------------------------------
(* The Backup controller.                                                  *)

\* The passes before deletion: the finalizer, the copy, its outcome.
WantsSnapshotFinalizer == fb.phase # "Failed"

StartCopy ==
    /\ ~fb.deleting /\ fb.phase = "Pending" /\ copyJob = "none"
    /\ \/ /\ secret
          /\ copyJob' = "running"
          /\ fb' = [fb EXCEPT !.held = TRUE, !.phase = "Running"]
       \/ /\ ~secret
          /\ UNCHANGED copyJob
          /\ fb' = [fb EXCEPT !.held = TRUE, !.phase = "Failed"]
    /\ UNCHANGED <<repo, forgetJob, environment, pinnedIn>>

\* The id is read from the logs, now, on a later pass, or never.
MirrorJobStatus ==
    /\ ~fb.deleting /\ fb.phase \in {"Running", "Succeeded"} /\ ~fb.id
    /\ LET b == [fb EXCEPT !.held = @ \/ WantsSnapshotFinalizer]
       IN  \/ copyJob = "succeeded" /\ fb' = [b EXCEPT !.phase = "Succeeded", !.id = TRUE]
           \/ copyJob = "succeeded" /\ fb' = [b EXCEPT !.phase = "Succeeded"]
           \/ copyJob = "succeeded" /\ fb' = [b EXCEPT !.phase = "Failed", !.unavailable = TRUE]
           \/ copyJob = "failed" /\ fb' = [b EXCEPT !.phase = "Failed"]
           \/ copyJob = "running" /\ fb' = b
    /\ UNCHANGED <<jobsAndRepo, environment, pinnedIn>>

\* Stage 1 of finalizeDelete: the copy of a prepared Backup is invalidated and its
\* worker cancelled; the next stage waits until it is gone.
AbortResticCopy ==
    /\ fb.deleting /\ ~fb.gone /\ ~fb.legacy /\ fb.phase # "Succeeded"
    /\ \/ fb.phase # "Failed" \/ copyJob = "running"
    /\ fb' = [fb EXCEPT !.phase = "Failed", !.id = FALSE, !.unavailable = FALSE]
    /\ copyJob' = IF copyJob = "running" THEN "deleting" ELSE copyJob
    /\ UNCHANGED <<repo, forgetJob, environment, pinnedIn>>

CopyAborted ==
    fb.legacy \/ fb.phase = "Succeeded" \/ (fb.phase = "Failed" /\ copyJob \notin {"running", "deleting"})

\* Stage 2 is reached, its bound not passed.
Finalizing ==
    /\ fb.deleting /\ ~fb.gone /\ CopyAborted
    /\ fb.since # "expired"

Release(b) == fb' = [b EXCEPT !.gone = TRUE]
ForgetStarted == [fb EXCEPT !.since = "recent"]

SnapshotForgetExpired ==
    /\ fb.deleting /\ ~fb.gone /\ CopyAborted /\ fb.since = "expired"
    /\ Release([fb EXCEPT !.warned = TRUE])
    /\ UNCHANGED <<jobsAndRepo, environment, pinnedIn>>

\* clearBackupJob: only a legacy Backup reaches stage 2 with a Job that runs.
CopyCleared ==
    fb.phase \in {"Succeeded", "Failed"} \/ copyJob \in {"none", "succeeded", "failed"}

ClearBackupJob ==
    /\ Finalizing /\ ~CopyCleared
    /\ fb' = ForgetStarted
    /\ copyJob' = "deleting"
    /\ UNCHANGED <<repo, forgetJob, environment, pinnedIn>>

MayHaveWrittenSnapshot ==
    fb.phase \in {"Running", "Succeeded"} \/ (fb.phase = "Failed" /\ fb.unavailable)

NothingToForget ==
    /\ Finalizing /\ CopyCleared /\ ~fb.id
    /\ Release([fb EXCEPT !.warned = @ \/ MayHaveWrittenSnapshot])
    /\ UNCHANGED <<jobsAndRepo, environment, pinnedIn>>

PinnedByRestore == \E r \in cached : restores[r] \in InFlight

WaitForRestore ==
    /\ Finalizing /\ CopyCleared /\ fb.id /\ PinnedByRestore
    /\ fb' = ForgetStarted
    /\ UNCHANGED <<jobsAndRepo, environment, pinnedIn>>

AbandonForget ==
    /\ Finalizing /\ CopyCleared /\ fb.id /\ ~PinnedByRestore
    /\ ~secret \/ forgetJob = "failed"
    /\ Release([fb EXCEPT !.warned = TRUE])
    /\ UNCHANGED <<jobsAndRepo, environment, pinnedIn>>

RunForgetJob ==
    /\ Finalizing /\ CopyCleared /\ fb.id /\ ~PinnedByRestore /\ secret
    /\ \/ /\ forgetJob = "none"
          /\ forgetJob' = "running" /\ pinnedIn' = cached /\ fb' = ForgetStarted
       \/ /\ forgetJob = "succeeded"
          /\ Release(fb) /\ UNCHANGED <<forgetJob, pinnedIn>>
    /\ UNCHANGED <<copyJob, repo, environment>>

FinalizeDelete ==
    \/ AbortResticCopy \/ SnapshotForgetExpired \/ ClearBackupJob \/ NothingToForget
    \/ WaitForRestore \/ AbandonForget \/ RunForgetJob

ForgetNext ==
    \/ SnapshotWritten \/ CopyJobEnds \/ ForgetJobEnds \/ Collect
    \/ SecretDeleted \/ DeleteBackup \/ ForgetWaitElapses
    \/ \E r \in Restores :
          CreateRestore(r) \/ ForgetCacheSync(r) \/ RestoreObserves(r) \/ RestoreJobRuns(r)
    \/ StartCopy \/ MirrorJobStatus \/ FinalizeDelete

-----------------------------------------------------------------------------
(* Properties.                                                             *)

\* A Restore the operator knew of when it started to forget a snapshot never loses
\* that snapshot while it is in flight, whether it had recorded the snapshot's id
\* yet or only named the Backup (pinnedByRestore).
KnownRestoreKeepsSnapshot ==
    \A r \in pinnedIn : restores[r] \in InFlight => repo # "forgotten"

\* When a Backup that had its finalizer is gone and its snapshot is still in the
\* repository, a Warning event said so, unless the Backup ended Failed with no hint that restic had
\* written (finalizeSnapshot, mayHaveWrittenSnapshot).
OrphanAnnounced ==
    /\ fb.gone /\ fb.held /\ repo = "stored" /\ forgetJob = "none"
    /\ ~(fb.phase = "Failed" /\ ~fb.unavailable)
    => fb.warned
=============================================================================
