-------------------------- MODULE ControllerProofs --------------------------
(****************************************************************************)
(* Proofs about two controllers of the operator, network captures on a node *)
(* and backup schedules, each from its own initial states and steps, for    *)
(* every value of its constants.                                            *)
(****************************************************************************)
EXTENDS NetworkCapture, BackupRetention, FiniteSetTheorems, TLAPS

-----------------------------------------------------------------------------
(* Backup schedules.                                                       *)

\* The Backups in flight that nobody has asked to go.
Firm == {t \in Active(backups) : ~backups[t].deleting}
\* What the cache does not show was fired in this second, and has its name.
FiredSeen == \A t \in Firm : t = clock \/ scheduleListed[t].phase = "InFlight"
\* A pass about to fire has found, or is deleting, what is in flight.
PassFires ==
    pass.pc \in {"replace", "create"} =>
        /\ pass.last = clock
        /\ sched.policy # "Allow" =>
              Firm \subseteq {clock} \cup (IF pass.pc = "replace" THEN pass.todo ELSE {})
AtMostOneFirm == sched.policy # "Allow" => \A t, u \in Firm : t = u
FlightInv ==
    /\ ScheduleTypeOK /\ scheduleSeen.policy = sched.policy
    /\ FiredSeen /\ PassFires /\ AtMostOneFirm
\* A pass that may still write its status knows a success at least as late as the recorded one.
SuccessKnown == pass.fresh => pass.ok >= sched.ok

\* Times are bounded, so that a set of them has a latest.
LEMMA LatestTime ==
    ASSUME NEW S \in SUBSET Time, S # {}
    PROVE  Max(S) \in S /\ \A t \in S : Max(S) >= t
<1> DEFINE D == {ScheduleMaxTime - t : t \in S}
<1>1. D \subseteq Nat /\ D # {}
  <2>1. \A t \in Time : ScheduleMaxTime - t \in Nat
    BY ScheduleAssumption DEF Time
  <2> QED BY <2>1
<1>2. PICK d \in D : \A e \in D : d <= e
  <2> HIDE DEF D
  <2> DEFINE Less == {p \in Nat \X Nat : p[1] < p[2]}
  <2>1. IsWellFoundedOn(Less, Nat)
    BY NatLessThanWellFounded, Zenon DEF OpToRel
  <2> HIDE DEF Less
  <2>2. PICK d \in D : \A e \in D : ~(<<e, d>> \in Less)
    BY <1>1, <2>1, WFMin, Zenon
  <2>3. \A e \in D : d <= e
    <3>1. \A e \in Nat, f \in Nat : e < f => <<e, f>> \in Less
      BY Z3 DEF Less
    <3>2. \A e \in D : ~(e < d)
      BY <1>1, <2>2, <3>1, Zenon
    <3> QED BY <1>1, <3>2
  <2> QED BY <2>3
<1>3. PICK m \in S : d = ScheduleMaxTime - m
  OBVIOUS
<1>4. \A t \in S : m >= t
  <2> SUFFICES ASSUME NEW t \in S PROVE m >= t
    OBVIOUS
  <2>1. d <= ScheduleMaxTime - t
    BY <1>2
  <2> QED BY <1>3, <2>1, ScheduleAssumption DEF Time
<1> QED BY <1>4 DEF Max

\* What a pass knows of successes is a time, and no earlier than what the schedule it read records.
LEMMA LastSuccessLater ==
    ASSUME ScheduleTypeOK PROVE LastSuccessful \in Time /\ LastSuccessful >= scheduleSeen.ok
<1> DEFINE S == {0} \cup {scheduleListed[t].done : t \in {u \in ScheduleName : scheduleListed[u].phase = "Succeeded"}}
<1>1. S \in SUBSET Time /\ S # {}
  BY ScheduleAssumption DEF ScheduleTypeOK, BackupObject, Time
<1>2. NewestSuccess \in Time
  BY <1>1, LatestTime DEF NewestSuccess
<1>3. scheduleSeen.ok \in Time
  BY DEF ScheduleTypeOK
<1>4. {scheduleSeen.ok, NewestSuccess} \in SUBSET Time
  BY <1>2, <1>3
<1> QED BY <1>4, LatestTime DEF LastSuccessful

\* A schedule starts well formed.
LEMMA ScheduleStartTyped == ScheduleInit => ScheduleTypeOK
<1>1. NoBackup \in BackupObject /\ 0 \in Time
  BY ScheduleAssumption DEF NoBackup, BackupObject, Time
<1>2. ScheduleNoPass \in [pc: Pc, fresh: BOOLEAN, last: Time, ok: Time, todo: SUBSET ScheduleName]
  BY <1>1 DEF ScheduleNoPass, Pc
<1> QED BY <1>1, <1>2, Zenon DEF ScheduleInit, ScheduleTypeOK

\* Every step keeps the types of the schedule, its Backups and the pass.
LEMMA ScheduleStepTyped ==
    ASSUME ScheduleTypeOK, ScheduleNext PROVE ScheduleTypeOK'
<1>0. NoBackup \in BackupObject /\ ScheduleNoPass \in [pc: Pc, fresh: BOOLEAN, last: Time, ok: Time, todo: SUBSET ScheduleName]
  BY ScheduleAssumption DEF NoBackup, BackupObject, ScheduleNoPass, Pc, Time
<1>00. /\ \A b \in BackupObject, d \in BOOLEAN : [b EXCEPT !.deleting = d] \in BackupObject
       /\ \A b \in BackupObject, p \in {"Succeeded", "Failed"}, t \in Time :
             [b EXCEPT !.phase = p, !.done = t] \in BackupObject
       /\ [NoBackup EXCEPT !.phase = "InFlight"] \in BackupObject
  BY <1>0, Zenon DEF BackupObject
<1> USE DEF ScheduleTypeOK
<1>1. CASE StartSchedule
  <2>1. ASSUME NEW p \in Pc, NEW last \in Time, NEW todo \in SUBSET ScheduleName, Go(p, last, todo)
        PROVE  pass' \in [pc: Pc, fresh: BOOLEAN, last: Time, ok: Time, todo: SUBSET ScheduleName]
    BY <2>1, LastSuccessLater DEF Go
  <2>2. Active(scheduleListed) \in SUBSET ScheduleName /\ {"persist", "trim", "create", "replace"} \subseteq Pc
    BY DEF Active, Pc
  <2>3. pass' \in [pc: Pc, fresh: BOOLEAN, last: Time, ok: Time, todo: SUBSET ScheduleName]
    BY <1>1, <2>1, <2>2 DEF StartSchedule, ShouldFire
  <2> QED BY <1>1, <2>3 DEF StartSchedule
<1>2. CASE ReplaceInFlight
  <2>1. backups' \in [ScheduleName -> BackupObject]
    <3>1. \A t \in ScheduleName : [backups EXCEPT ![t].deleting = (backups[t].phase # "none")]
                                      \in [ScheduleName -> BackupObject]
      BY <1>00, Zenon
    <3> QED BY <1>2, <3>1 DEF ReplaceInFlight
  <2>2. pass' \in [pc: Pc, fresh: BOOLEAN, last: Time, ok: Time, todo: SUBSET ScheduleName]
    BY <1>2 DEF ReplaceInFlight, Pc
  <2> QED BY <1>2, <2>1, <2>2 DEF ReplaceInFlight
<1>3. CASE Fire
  <2>1. backups' \in [ScheduleName -> BackupObject]
    BY <1>3, <1>00, Zenon DEF Fire
  <2>2. pass' \in [pc: Pc, fresh: BOOLEAN, last: Time, ok: Time, todo: SUBSET ScheduleName]
    BY <1>0, <1>3 DEF Fire, Pc
  <2> QED BY <1>3, <2>1, <2>2 DEF Fire
<1>4. CASE StartTrim
  <2>1. Trimmable \subseteq ScheduleName
    BY DEF Trimmable
  <2>2. PICK S \in SUBSET ScheduleName : pass' = [pass EXCEPT !.pc = "trimming", !.todo = S]
    BY <1>4, <2>1, Zenon DEF StartTrim
  <2> QED BY <1>4, <2>2, Zenon DEF StartTrim, Pc
<1>5. CASE TrimBackups
  <2>1. backups' \in [ScheduleName -> BackupObject]
    <3>1. \A t \in ScheduleName : [backups EXCEPT ![t].deleting = TRUE] \in [ScheduleName -> BackupObject]
      BY <1>00, Zenon
    <3> QED BY <1>5, <3>1 DEF TrimBackups
  <2>2. pass' \in [pc: Pc, fresh: BOOLEAN, last: Time, ok: Time, todo: SUBSET ScheduleName]
    <3>1. /\ "persist" \in Pc /\ \A t \in ScheduleName : pass.todo \ {t} \in SUBSET ScheduleName
          /\ {} \in SUBSET ScheduleName
      BY DEF Pc
    <3>2. \/ \E t \in ScheduleName : pass' = [pass EXCEPT !.todo = @ \ {t}]
          \/ pass' = [pass EXCEPT !.pc = "persist", !.todo = {}]
          \/ pass' = [pass EXCEPT !.pc = "persist"]
      BY <1>5 DEF TrimBackups
    <3> QED BY <3>1, <3>2, Zenon
  <2> QED BY <1>5, <2>1, <2>2 DEF TrimBackups
<1>6. CASE PersistStatus
  BY <1>0, <1>6, Zenon DEF PersistStatus
<1>7. CASE ScheduleAborts
  BY <1>0, <1>7 DEF ScheduleAborts
<1>8. CASE Tick
  BY <1>8, ScheduleAssumption DEF Tick, Time
<1>9. CASE CacheSync
  BY <1>9 DEF CacheSync
<1>10. CASE Suspend
  BY <1>10, Zenon DEF Suspend
<1>11. ASSUME NEW t \in ScheduleName, Complete(t) PROVE ScheduleTypeOK'
  <2>1. PICK p \in {"Succeeded", "Failed"} : BackupChanges(t, [backups[t] EXCEPT !.phase = p, !.done = clock])
    BY <1>11, Zenon DEF Complete
  <2>2. [backups[t] EXCEPT !.phase = p, !.done = clock] \in BackupObject
    BY <1>00, Zenon
  <2> QED BY <2>1, <2>2 DEF BackupChanges
<1>12. ASSUME NEW t \in ScheduleName, Vanish(t) PROVE ScheduleTypeOK'
  BY <1>0, <1>12 DEF Vanish, BackupChanges
<1>13. ASSUME NEW t \in ScheduleName, UserDeletes(t) PROVE ScheduleTypeOK'
  BY <1>13, <1>00, Zenon DEF UserDeletes, BackupChanges
<1> QED BY <1>1, <1>2, <1>3, <1>4, <1>5, <1>6, <1>7, <1>8, <1>9, <1>10, <1>11, <1>12, <1>13
        DEF ScheduleNext, SchedulePass

\* What is in flight besides the Backup of this second is in the cache, and a pass fires on an empty field.
LEMMA FlightStepKeeps ==
    ASSUME FlightInv, ScheduleNext
    PROVE  scheduleSeen'.policy = sched'.policy /\ FiredSeen' /\ PassFires' /\ AtMostOneFirm'
<1> USE DEF FlightInv, ScheduleTypeOK, FiredSeen, PassFires, AtMostOneFirm, Firm, Active
<1>1. CASE StartSchedule
  BY <1>1, SMTT(30) DEF StartSchedule, ShouldFire, Go
<1>2. CASE ReplaceInFlight
  <2>1. UNCHANGED <<clock, sched, scheduleListed, scheduleSeen>> /\ pass.pc = "replace"
    BY <1>2 DEF ReplaceInFlight
  <2>2. ASSUME NEW t \in pass.todo, backups' = [backups EXCEPT ![t].deleting = (backups[t].phase # "none")],
               pass' = [pass EXCEPT !.todo = @ \ {t}]
        PROVE  scheduleSeen'.policy = sched'.policy /\ FiredSeen' /\ PassFires' /\ AtMostOneFirm'
    <3>1. Firm' \subseteq Firm \ {t}
      BY <2>2, ZenonT(30) DEF BackupObject
    <3>2. pass'.pc = "replace" /\ pass'.last = pass.last /\ pass'.todo = pass.todo \ {t}
      BY <2>1, <2>2
    <3> HIDE DEF Firm
    <3> QED BY <2>1, <3>1, <3>2
  <2>3. CASE pass.todo = {} /\ pass' = [pass EXCEPT !.pc = "create"] /\ UNCHANGED backups
    BY <2>1, <2>3
  <2> QED BY <1>2, <2>2, <2>3 DEF ReplaceInFlight
<1>3. CASE Fire
  <2>1. /\ UNCHANGED <<clock, sched, scheduleListed, scheduleSeen>> /\ pass.pc = "create"
        /\ pass'.pc \notin {"replace", "create"}
    BY <1>3 DEF Fire, ScheduleNoPass
  <2>2. Firm' \subseteq Firm \cup {clock}
    BY <1>3 DEF Fire, BackupObject
  <2> HIDE DEF Firm
  <2> QED BY <2>1, <2>2
<1>4. CASE StartTrim
  BY <1>4 DEF StartTrim
<1>5. CASE TrimBackups
  <2>1. /\ UNCHANGED <<clock, sched, scheduleListed, scheduleSeen>> /\ pass'.pc \in {"trimming", "persist"}
    BY <1>5, Zenon DEF TrimBackups
  <2>2. Firm' \subseteq Firm
    BY <1>5 DEF TrimBackups, BackupObject
  <2> HIDE DEF Firm
  <2> QED BY <2>1, <2>2
<1>6. CASE PersistStatus
  BY <1>6 DEF PersistStatus, ScheduleNoPass
<1>7. CASE ScheduleAborts
  BY <1>7 DEF ScheduleAborts, ScheduleNoPass
<1>8. CASE Tick
  BY <1>8 DEF Tick
<1>9. CASE CacheSync
  BY <1>9 DEF CacheSync
<1>10. CASE Suspend
  BY <1>10 DEF Suspend
<1>11. ASSUME NEW t \in ScheduleName, Complete(t) \/ Vanish(t) \/ UserDeletes(t)
       PROVE  scheduleSeen'.policy = sched'.policy /\ FiredSeen' /\ PassFires' /\ AtMostOneFirm'
  <2>1. UNCHANGED <<clock, sched, scheduleSeen, pass>> /\ scheduleListed' = backups'
    BY <1>11 DEF Complete, Vanish, UserDeletes, BackupChanges
  <2>2. Firm' \subseteq Firm
    <3>1. ASSUME NEW b, BackupChanges(t, b), b.phase = "InFlight" => b.deleting PROVE Firm' \subseteq Firm
      BY <3>1 DEF BackupChanges
    <3>2. CASE Complete(t)
      <4>1. PICK p \in {"Succeeded", "Failed"} : BackupChanges(t, [backups[t] EXCEPT !.phase = p, !.done = clock])
        BY <3>2, Zenon DEF Complete
      <4>2. [backups[t] EXCEPT !.phase = p, !.done = clock].phase # "InFlight"
        BY DEF BackupObject
      <4> QED BY <3>1, <4>1, <4>2, Zenon
    <3>3. CASE Vanish(t)
      BY <3>1, <3>3 DEF Vanish, NoBackup
    <3>4. CASE UserDeletes(t)
      BY <3>1, <3>4 DEF UserDeletes, BackupObject
    <3> QED BY <1>11, <3>2, <3>3, <3>4
  <2>3. FiredSeen'
    BY <2>1
  <2> HIDE DEF Firm
  <2> QED BY <2>1, <2>2, <2>3
<1> QED BY <1>1, <1>2, <1>3, <1>4, <1>5, <1>6, <1>7, <1>8, <1>9, <1>10, <1>11, ZenonT(30) DEF ScheduleNext, SchedulePass

\* A schedule that does not allow overlap never has two Backups in flight that it has not asked to go, for any
\* occurrences, deadline and retention, through stale caches, lost status writes and crashes of a pass.
THEOREM SchedulesDoNotOverlap ==
    ScheduleInit /\ [][ScheduleNext]_scheduleVars => []OneInFlight
<1>1. ScheduleInit => FlightInv
  BY ScheduleStartTyped DEF ScheduleInit, FlightInv, FiredSeen, PassFires, AtMostOneFirm, Firm, Active, NoBackup,
                            ScheduleNoPass
<1>2. FlightInv /\ [ScheduleNext]_scheduleVars => FlightInv'
  <2>1. ASSUME FlightInv, ScheduleNext PROVE FlightInv'
    BY <2>1, ScheduleStepTyped, FlightStepKeeps DEF FlightInv
  <2>2. ASSUME FlightInv, UNCHANGED scheduleVars PROVE FlightInv'
    BY <2>2 DEF scheduleVars, FlightInv, ScheduleTypeOK, FiredSeen, PassFires, AtMostOneFirm, Firm, Active
  <2> QED BY <2>1, <2>2
<1>3. FlightInv => OneInFlight
  <2> SUFFICES ASSUME FlightInv, sched.policy # "Allow" PROVE Cardinality(Firm) <= 1
    BY DEF OneInFlight, Firm
  <2>1. CASE Firm = {}
    BY <2>1, FS_EmptySet
  <2>2. ASSUME NEW t \in Firm PROVE Cardinality(Firm) <= 1
    <3>1. Firm = {t}
      BY <2>2 DEF FlightInv, AtMostOneFirm
    <3> QED BY <3>1, FS_Singleton
  <2> QED BY <2>1, <2>2
<1> QED BY <1>1, <1>2, <1>3, PTL

\* The recorded time of the last success never goes back, although the Backup it was taken from may be trimmed or
\* deleted, and whichever pass writes the status.
THEOREM LastSuccessMovesForward ==
    ScheduleInit /\ [][ScheduleNext]_scheduleVars => LastSuccessNeverRewinds
<1> DEFINE I == ScheduleTypeOK /\ SuccessKnown
<1>1. ScheduleInit => I
  BY ScheduleStartTyped DEF ScheduleInit, SuccessKnown, ScheduleNoPass
<1>2. I /\ [ScheduleNext]_scheduleVars => I' /\ sched'.ok >= sched.ok
  <2>1. ASSUME I, ScheduleNext PROVE I' /\ sched'.ok >= sched.ok
    <3>1. ScheduleTypeOK'
      BY <2>1, ScheduleStepTyped
    <3> USE <2>1 DEF ScheduleTypeOK, SuccessKnown, Time
    <3>2. CASE StartSchedule
      <4>1. UNCHANGED sched
        BY <3>2 DEF StartSchedule
      <4>2. pass'.ok = LastSuccessful /\ (pass'.fresh => scheduleSeen = sched)
        <5>1. ASSUME NEW p, NEW last, NEW todo, Go(p, last, todo)
              PROVE  pass'.ok = LastSuccessful /\ (pass'.fresh => scheduleSeen = sched)
          BY <5>1, Zenon DEF Go
        <5> QED BY <3>2, <5>1 DEF StartSchedule, ShouldFire
      <4> QED BY <3>1, <4>1, <4>2, LastSuccessLater
    <3>3. CASE PersistStatus
      BY <3>1, <3>3 DEF PersistStatus, ScheduleNoPass
    <3>4. CASE Suspend
      BY <3>1, <3>4 DEF Suspend
    <3>5. CASE Fire \/ ScheduleAborts
      BY <3>1, <3>5 DEF Fire, ScheduleAborts, ScheduleNoPass
    <3>6. CASE ReplaceInFlight \/ StartTrim \/ TrimBackups
      <4>1. UNCHANGED sched
        BY <3>6, Zenon DEF ReplaceInFlight, StartTrim, TrimBackups
      <4>2. pass'.fresh = pass.fresh /\ pass'.ok = pass.ok
        BY <3>6, Zenon DEF ReplaceInFlight, StartTrim, TrimBackups
      <4> QED BY <3>1, <4>1, <4>2
    <3>7. CASE Tick \/ CacheSync
      BY <3>1, <3>7 DEF Tick, CacheSync
    <3>8. ASSUME NEW t \in ScheduleName, Complete(t) \/ Vanish(t) \/ UserDeletes(t)
          PROVE  I' /\ sched'.ok >= sched.ok
      BY <3>1, <3>8 DEF Complete, Vanish, UserDeletes, BackupChanges
    <3> QED BY <2>1, <3>2, <3>3, <3>4, <3>5, <3>6, <3>7, <3>8 DEF ScheduleNext, SchedulePass
  <2>2. ASSUME I, UNCHANGED scheduleVars PROVE I' /\ sched'.ok >= sched.ok
    BY <2>2 DEF scheduleVars, ScheduleTypeOK, SuccessKnown, Time
  <2> QED BY <2>1, <2>2
<1> QED BY <1>1, <1>2, PTL DEF LastSuccessNeverRewinds

-----------------------------------------------------------------------------
(* Captures on a node.                                                      *)

NodePhase == {"absent", "Pending", "Running", "gone"} \cup Ended
NodeRecord == [phase: NodePhase, bound: BOOLEAN, ends: BOOLEAN, deleting: BOOLEAN]
Unfinished == {"Pending", "Running"}
NodeShape ==
    /\ ncap \in [NodeCap -> NodeRecord] /\ ncapSeen \in [NodeCap -> NodeRecord]
    /\ anchor \in [NodeCap -> {"none", "present", "deleting"}]
    /\ nodeJob \in [NodeCap -> {"none", "active", "succeeded", "failed", "deleting"}]
    /\ nodeWorker \in [NodeCap -> {"none", "running", "stopped"}]
    /\ pointer \in 0..NodeCaptures
    /\ nodePass \in [c: 0..NodeCaptures, at: {"idle", "begin", "bound", "created"}, copy: NodeRecord]
    /\ nodePass.at # "idle" => nodePass.c \in NodeCap /\ nodePass.copy.phase \notin {"absent", "gone"}
\* Captures are taken in the order of their creation.
BoundInOrder ==
    \A c, d \in NodeCap : d < c /\ ncap[c].phase # "absent" =>
        /\ ncap[d].phase # "absent"
        /\ ncap[c].bound /\ ncap[c].phase \in Unfinished => ncap[d].phase \notin Unfinished
\* What a capture has made it has made bound, and its worker is drained before it ends.
BoundFirst ==
    \A c \in NodeCap :
        /\ ncap[c].deleting => ncap[c].bound
        /\ ncap[c].bound => ncap[c].phase \notin {"absent", "gone"}
        /\ ~DrainedWorker(c) => ncap[c].bound /\ ncap[c].phase \in Unfinished
        /\ anchor[c] # "none" \/ pointer = c => ncap[c].bound
\* The cache may be behind, but a capture is gone only after it showed the deletion.
GoesIfDeleted(r) == r.deleting \/ r.phase = "gone"
SeenFollows ==
    \A c \in NodeCap :
        /\ ncapSeen[c].bound => ncapSeen[c].phase \notin {"absent", "gone"}
        /\ ncapSeen[c].deleting => GoesIfDeleted(ncap[c])
        /\ ncapSeen[c].bound /\ ~ncapSeen[c].deleting => ncap[c].bound
PassFollows ==
    nodePass.at # "idle" =>
        /\ nodePass.copy.deleting => GoesIfDeleted(ncap[me]) /\ GoesIfDeleted(ncapSeen[me])
        /\ nodePass.copy.bound /\ ~nodePass.copy.deleting /\ nodePass.copy.phase \notin Ended =>
              ncap[me].bound /\ ncap[me].phase \in Unfinished
        /\ nodePass.at # "begin" =>
              nodePass.copy.bound /\ ~nodePass.copy.deleting /\ nodePass.copy.phase \notin Ended
NodeInv == NodeShape /\ BoundInOrder /\ BoundFirst /\ SeenFollows /\ PassFollows

\* Every step leaves the captures, the objects of their workers and the pass well formed.
LEMMA NodeStepTyped ==
    ASSUME NodeShape, NodeNext PROVE NodeShape'
<1> USE DEF NodeShape, NodeCap
<1>0. /\ [NoNodeCapture EXCEPT !.phase = "gone"] \in NodeRecord
      /\ 0 \in 0..NodeCaptures
      /\ NoNodePass \in [c: 0..NodeCaptures, at: {"idle", "begin", "bound", "created"}, copy: NodeRecord]
      /\ NoNodePass.at = "idle"
  <2>1. NoNodeCapture \in NodeRecord /\ [NoNodeCapture EXCEPT !.phase = "gone"] \in NodeRecord
    BY Zenon DEF NoNodeCapture, NodeRecord, NodePhase
  <2>2. 0 \in 0..NodeCaptures
    BY NodeAssumption
  <2> QED BY <2>1, <2>2 DEF NoNodePass
<1>1. ASSUME NEW r \in NodeRecord, Store(r) PROVE ncap' \in [NodeCap -> NodeRecord]
  BY <1>1, Zenon DEF Store
<1>2. \A r \in NodeRecord :
        /\ \A p \in NodePhase : [r EXCEPT !.phase = p] \in NodeRecord
        /\ [r EXCEPT !.bound = TRUE] \in NodeRecord /\ [r EXCEPT !.ends = TRUE] \in NodeRecord
        /\ [r EXCEPT !.deleting = TRUE] \in NodeRecord
        /\ [r EXCEPT !.bound = TRUE].phase = r.phase
  BY Zenon DEF NodeRecord
<1>3. {"Pending", "Running", "gone"} \cup Ended \subseteq NodePhase /\ Ended \subseteq NodePhase
  BY DEF NodePhase
<1>4. CASE MustDrain
  BY <1>0, <1>1, <1>2, <1>3, <1>4 DEF MustDrain, DeleteNodeWorkers, Quiet, me
<1>5. CASE NodeFail
  <2>1. ncap' \in [NodeCap -> NodeRecord]
    BY <1>1, <1>2, <1>3, <1>5, Zenon DEF NodeFail, Ended
  <2>2. pointer' \in 0..NodeCaptures
    BY <1>0, <1>5 DEF NodeFail
  <2> QED BY <2>1, <2>2, <1>0, <1>5 DEF NodeFail, Quiet
<1>6. CASE FinishNodeCapture
  BY <1>0, <1>1, <1>2, <1>3, <1>6, Zenon DEF FinishNodeCapture, NodeLive, ReleaseNodeCaptureLock, Quiet, me
<1>7. CASE BindTarget
  <2>1. nodePass.at = "begin" /\ me \in NodeCap
    BY <1>7 DEF BindTarget, Proceeds, NodeLive, me
  <2>2. ncap' \in [NodeCap -> NodeRecord]
    <3>1. ncap' = ncap \/ ncap' = [ncap EXCEPT ![me].bound = TRUE]
      BY <1>7 DEF BindTarget
    <3>2. ncap[me] \in NodeRecord /\ [ncap[me] EXCEPT !.bound = TRUE] \in NodeRecord
      BY <2>1, <1>2, Zenon
    <3> QED BY <2>1, <3>1, <3>2, Zenon
  <2>3. /\ nodePass' \in [c: 0..NodeCaptures, at: {"idle", "begin", "bound", "created"}, copy: NodeRecord]
        /\ nodePass'.c = nodePass.c /\ nodePass'.copy.phase = nodePass.copy.phase
    BY <1>2, <1>7, Zenon DEF BindTarget
  <2> QED BY <2>1, <2>2, <2>3, <1>7 DEF BindTarget
<1>8. CASE EnsureNodeArtifacts
  BY <1>0, <1>1, <1>2, <1>3, <1>8 DEF EnsureNodeArtifacts, Quiet, me
<1>9. CASE MarkNodeRunning
  BY <1>0, <1>1, <1>2, <1>3, <1>9, Zenon DEF MarkNodeRunning, Quiet, me
<1>10. CASE WorkerSucceeded
  BY <1>0, <1>1, <1>2, <1>3, <1>10, Zenon DEF WorkerSucceeded, Quiet, me
<1>11. CASE CleanupNodeCapture
  BY <1>0, <1>1, <1>2, <1>3, <1>11 DEF CleanupNodeCapture, Quiet, me
<1>12. CASE RemoveFinalizer
  BY <1>0, <1>1, <1>2, <1>3, <1>12 DEF RemoveFinalizer, ReleaseNodeCaptureLock, Quiet, me
<1>13. CASE NodePassFails
  BY <1>0, <1>1, <1>2, <1>3, <1>13 DEF NodePassFails, Quiet, me
<1>14. CASE NodeCapturesSynced
  BY <1>0, <1>1, <1>2, <1>3, <1>14 DEF NodeCapturesSynced, Quiet, me
<1>15. ASSUME NEW c \in NodeCap, WorkerGone(c) PROVE NodeShape'
  BY <1>0, <1>1, <1>2, <1>3, <1>15 DEF WorkerGone
<1>16. ASSUME NEW c \in NodeCap, JobGone(c) PROVE NodeShape'
  BY <1>0, <1>1, <1>2, <1>3, <1>16 DEF JobGone
<1>17. ASSUME NEW c \in NodeCap, AnchorGone(c) PROVE NodeShape'
  BY <1>0, <1>1, <1>2, <1>3, <1>17 DEF AnchorGone
<1>18. ASSUME NEW c \in NodeCap, BeginNodePass(c) PROVE NodeShape'
  BY <1>0, <1>1, <1>2, <1>3, <1>18 DEF BeginNodePass
<1>19. ASSUME NEW c \in NodeCap, CreateNodeCapture(c) PROVE NodeShape'
  BY <1>0, <1>1, <1>2, <1>3, <1>19, Zenon DEF CreateNodeCapture
<1>20. ASSUME NEW c \in NodeCap, RequestNodeStop(c) PROVE NodeShape'
  BY <1>0, <1>1, <1>2, <1>3, <1>20, Zenon DEF RequestNodeStop
<1>21. ASSUME NEW c \in NodeCap, DeleteNodeCapture(c) PROVE NodeShape'
  BY <1>0, <1>1, <1>2, <1>3, <1>21, Zenon DEF DeleteNodeCapture
<1>22. ASSUME NEW c \in NodeCap, NodeWorkerStarts(c) PROVE NodeShape'
  BY <1>0, <1>1, <1>2, <1>3, <1>22 DEF NodeWorkerStarts
<1>23. ASSUME NEW c \in NodeCap, WorkerEnds(c) PROVE NodeShape'
  BY <1>0, <1>1, <1>2, <1>3, <1>23 DEF WorkerEnds
<1>24. ASSUME NEW c \in NodeCap, JobOrphaned(c) PROVE NodeShape'
  BY <1>0, <1>1, <1>2, <1>3, <1>24 DEF JobOrphaned
<1> QED BY <1>4, <1>5, <1>6, <1>7, <1>8, <1>9, <1>10, <1>11, <1>12, <1>13, <1>14, <1>15, <1>16, <1>17, <1>18,
           <1>19, <1>20, <1>21, <1>22, <1>23, <1>24, Zenon DEF NodeNext, NodePassStep, ClusterStep

\* A step that leaves the captures, the cache and the pointer alone, and makes neither a worker nor an anchor
\* where there was none, keeps the invariant; the pass goes on as it was or is over.
LEMMA CapturesLeftAlone ==
    ASSUME NodeInv, UNCHANGED <<ncap, ncapSeen, pointer>>, nodePass' = nodePass \/ nodePass'.at = "idle",
           \A c \in NodeCap : DrainedWorker(c) => DrainedWorker(c)',
           \A c \in NodeCap : anchor[c] = "none" => anchor'[c] = "none"
    PROVE  BoundInOrder' /\ BoundFirst' /\ SeenFollows' /\ PassFollows'
<1> USE DEF NodeInv
<1>1. BoundInOrder'
  BY Zenon DEF BoundInOrder
<1>2. BoundFirst'
  <2> SUFFICES ASSUME NEW c \in NodeCap
               PROVE  /\ ncap[c].deleting => ncap[c].bound
                      /\ ncap[c].bound => ncap[c].phase \notin {"absent", "gone"}
                      /\ ~DrainedWorker(c)' => ncap[c].bound /\ ncap[c].phase \in Unfinished
                      /\ anchor'[c] # "none" \/ pointer = c => ncap[c].bound
    BY Zenon DEF BoundFirst
  <2> QED BY Zenon DEF BoundFirst
<1>3. SeenFollows'
  BY Zenon DEF SeenFollows, GoesIfDeleted
<1>4. PassFollows'
  BY ZenonT(30) DEF PassFollows, GoesIfDeleted, me
<1> QED BY <1>1, <1>2, <1>3, <1>4, Zenon

\* Every step of the captures' passes, of their workers and of the cluster keeps the order of the bindings, the
\* drained workers of what has ended, and what the cache may show of them.
LEMMA NodeStepKeeps ==
    ASSUME ~StaleAfterEnd, NodeInv, NodeNext PROVE BoundInOrder' /\ BoundFirst' /\ SeenFollows' /\ PassFollows'
<1>1. CASE MustDrain
  <2>1. \A d \in NodeCap : DrainedWorker(d) => DrainedWorker(d)'
    BY <1>1 DEF NodeInv, NodeShape, DrainedWorker, MustDrain, DeleteNodeWorkers
  <2>2. \A d \in NodeCap : anchor[d] = "none" => anchor'[d] = "none"
    BY <1>1 DEF NodeInv, NodeShape, MustDrain, DeleteNodeWorkers
  <2>3. UNCHANGED <<ncap, ncapSeen, pointer>> /\ (nodePass' = nodePass \/ nodePass'.at = "idle")
    BY <1>1 DEF MustDrain, DeleteNodeWorkers, Quiet, NoNodePass
  <2> QED BY <2>1, <2>2, <2>3, CapturesLeftAlone, Zenon
<1>2. CASE NodeFail
  BY <1>2 DEF NodeInv, NodeShape, BoundInOrder, BoundFirst, SeenFollows, PassFollows, GoesIfDeleted,
     DrainedWorker, Unfinished, Ended, NodeRecord, NodePhase, me, Quiet, NoNodePass, NoNodeCapture, NodeCap,
     NodeFail, Store, NodeUnchanged, NodeLive
<1>3. CASE FinishNodeCapture
  BY <1>3 DEF NodeInv, NodeShape, BoundInOrder, BoundFirst, SeenFollows, PassFollows, GoesIfDeleted,
     DrainedWorker, Unfinished, Ended, NodeRecord, NodePhase, me, Quiet, NoNodePass, NoNodeCapture, NodeCap,
     FinishNodeCapture, Store, NodeUnchanged, NodeLive, ReleaseNodeCaptureLock
<1>4. CASE BindTarget
  <2>1. /\ nodePass.at = "begin" /\ me \in NodeCap /\ me' = me
        /\ ~nodePass.copy.deleting /\ nodePass.copy.phase \in Unfinished
    BY <1>4 DEF NodeInv, NodeShape, BindTarget, Proceeds, NodeLive, me, NodeRecord, NodePhase, Unfinished, Ended
  <2>2. /\ nodePass'.at = "bound" /\ nodePass'.copy.bound /\ ~nodePass'.copy.deleting
        /\ nodePass'.copy.phase = nodePass.copy.phase
    BY <2>1, <1>4 DEF NodeInv, NodeShape, NodeRecord, BindTarget
  <2>3. CASE nodePass.copy.bound
    <3>1. UNCHANGED ncap
      BY <2>3, <1>4 DEF BindTarget
    <3> QED BY <2>1, <2>2, <2>3, <3>1, <1>4 DEF NodeInv, BindTarget, BoundInOrder, BoundFirst, SeenFollows,
               PassFollows, GoesIfDeleted, DrainedWorker, Unfinished, Ended, me, NodeCap
  <2>4. CASE ~nodePass.copy.bound
    <3>1. /\ ~EarlierUnfinished(me) /\ ncap[me] = nodePass.copy
          /\ ncap' = [ncap EXCEPT ![me].bound = TRUE]
      BY <2>4, <1>4 DEF BindTarget, NodeUnchanged
    <3>2. \A c \in NodeCap :
            /\ ncap'[c].phase = ncap[c].phase /\ ncap'[c].deleting = ncap[c].deleting
            /\ IF c = me THEN ncap'[c].bound ELSE ncap'[c] = ncap[c]
      BY <2>1, <3>1 DEF NodeInv, NodeShape, NodeRecord
    <3> USE DEF BoundInOrder, BoundFirst, SeenFollows, PassFollows, GoesIfDeleted, DrainedWorker, Unfinished, Ended, me, NodeCap
    <3>3. BoundInOrder'
      BY <2>1, <3>1, <3>2 DEF NodeInv, EarlierUnfinished
    <3>4. BoundFirst'
      BY <2>1, <3>1, <3>2, <1>4 DEF NodeInv, BindTarget
    <3>5. SeenFollows'
      BY <2>1, <3>1, <3>2, <1>4 DEF NodeInv, BindTarget
    <3>6. PassFollows'
      BY <2>1, <2>2, <3>1, <3>2, <1>4 DEF NodeInv, BindTarget
    <3> QED BY <3>3, <3>4, <3>5, <3>6
  <2> QED BY <2>3, <2>4
<1>5. CASE EnsureNodeArtifacts
  BY <1>5 DEF NodeInv, NodeShape, BoundInOrder, BoundFirst, SeenFollows, PassFollows, GoesIfDeleted,
     DrainedWorker, Unfinished, Ended, NodeRecord, NodePhase, me, Quiet, NoNodePass, NoNodeCapture, NodeCap,
     EnsureNodeArtifacts, MissingJob
<1>6. CASE MarkNodeRunning
  BY <1>6 DEF NodeInv, NodeShape, BoundInOrder, BoundFirst, SeenFollows, PassFollows, GoesIfDeleted,
     DrainedWorker, Unfinished, Ended, NodeRecord, NodePhase, me, Quiet, NoNodePass, NoNodeCapture, NodeCap,
     MarkNodeRunning, Store, NodeUnchanged
<1>7. CASE WorkerSucceeded
  BY <1>7 DEF NodeInv, NodeShape, BoundInOrder, BoundFirst, SeenFollows, PassFollows, GoesIfDeleted,
     DrainedWorker, Unfinished, Ended, NodeRecord, NodePhase, me, Quiet, NoNodePass, NoNodeCapture, NodeCap,
     WorkerSucceeded, Store, NodeUnchanged
<1>8. CASE CleanupNodeCapture
  <2>1. \A d \in NodeCap : DrainedWorker(d) => DrainedWorker(d)'
    BY <1>8 DEF NodeInv, NodeShape, DrainedWorker, CleanupNodeCapture
  <2>2. \A d \in NodeCap : anchor[d] = "none" => anchor'[d] = "none"
    BY <1>8 DEF NodeInv, NodeShape, CleanupNodeCapture
  <2>3. UNCHANGED <<ncap, ncapSeen, pointer>> /\ (nodePass' = nodePass \/ nodePass'.at = "idle")
    BY <1>8 DEF CleanupNodeCapture, Quiet, NoNodePass
  <2> QED BY <2>1, <2>2, <2>3, CapturesLeftAlone, Zenon
<1>9. CASE RemoveFinalizer
  BY <1>9 DEF NodeInv, NodeShape, BoundInOrder, BoundFirst, SeenFollows, PassFollows, GoesIfDeleted,
     DrainedWorker, Unfinished, Ended, NodeRecord, NodePhase, me, Quiet, NoNodePass, NoNodeCapture, NodeCap,
     RemoveFinalizer, ReleaseNodeCaptureLock, Store, NodeUnchanged
<1>10. CASE NodePassFails
  <2>1. \A d \in NodeCap : DrainedWorker(d) => DrainedWorker(d)'
    BY <1>10 DEF NodeInv, NodeShape, DrainedWorker, NodePassFails
  <2>2. \A d \in NodeCap : anchor[d] = "none" => anchor'[d] = "none"
    BY <1>10 DEF NodeInv, NodeShape, NodePassFails
  <2>3. UNCHANGED <<ncap, ncapSeen, pointer>> /\ (nodePass' = nodePass \/ nodePass'.at = "idle")
    BY <1>10 DEF NodePassFails, Quiet, NoNodePass
  <2> QED BY <2>1, <2>2, <2>3, CapturesLeftAlone, Zenon
<1>11. CASE NodeCapturesSynced
  BY <1>11, ZenonT(30) DEF NodeInv, NodeShape, BoundInOrder, BoundFirst, SeenFollows, PassFollows, GoesIfDeleted,
     DrainedWorker, Unfinished, Ended, NodeRecord, NodePhase, me, Quiet, NoNodePass, NoNodeCapture, NodeCap,
     NodeCapturesSynced
<1>12. ASSUME NEW c \in NodeCap, WorkerGone(c) PROVE BoundInOrder' /\ BoundFirst' /\ SeenFollows' /\ PassFollows'
  <2>1. \A d \in NodeCap : DrainedWorker(d) => DrainedWorker(d)'
    BY <1>12 DEF NodeInv, NodeShape, DrainedWorker, WorkerGone
  <2>2. \A d \in NodeCap : anchor[d] = "none" => anchor'[d] = "none"
    BY <1>12 DEF NodeInv, NodeShape, WorkerGone
  <2>3. UNCHANGED <<ncap, ncapSeen, pointer>> /\ (nodePass' = nodePass \/ nodePass'.at = "idle")
    BY <1>12 DEF WorkerGone
  <2> QED BY <2>1, <2>2, <2>3, CapturesLeftAlone, Zenon
<1>13. ASSUME NEW c \in NodeCap, JobGone(c) PROVE BoundInOrder' /\ BoundFirst' /\ SeenFollows' /\ PassFollows'
  <2>1. \A d \in NodeCap : DrainedWorker(d) => DrainedWorker(d)'
    BY <1>13 DEF NodeInv, NodeShape, DrainedWorker, JobGone
  <2>2. \A d \in NodeCap : anchor[d] = "none" => anchor'[d] = "none"
    BY <1>13 DEF NodeInv, NodeShape, JobGone
  <2>3. UNCHANGED <<ncap, ncapSeen, pointer>> /\ (nodePass' = nodePass \/ nodePass'.at = "idle")
    BY <1>13 DEF JobGone
  <2> QED BY <2>1, <2>2, <2>3, CapturesLeftAlone, Zenon
<1>14. ASSUME NEW c \in NodeCap, AnchorGone(c) PROVE BoundInOrder' /\ BoundFirst' /\ SeenFollows' /\ PassFollows'
  <2>1. \A d \in NodeCap : DrainedWorker(d) => DrainedWorker(d)'
    BY <1>14 DEF NodeInv, NodeShape, DrainedWorker, AnchorGone
  <2>2. \A d \in NodeCap : anchor[d] = "none" => anchor'[d] = "none"
    BY <1>14 DEF NodeInv, NodeShape, AnchorGone
  <2>3. UNCHANGED <<ncap, ncapSeen, pointer>> /\ (nodePass' = nodePass \/ nodePass'.at = "idle")
    BY <1>14 DEF AnchorGone
  <2> QED BY <2>1, <2>2, <2>3, CapturesLeftAlone, Zenon
<1>15. ASSUME NEW c \in NodeCap, BeginNodePass(c) PROVE BoundInOrder' /\ BoundFirst' /\ SeenFollows' /\ PassFollows'
  <2>1. /\ UNCHANGED <<ncap, ncapSeen, anchor, nodeJob, nodeWorker, pointer>>
        /\ nodePass'.at = "begin" /\ nodePass'.c = c /\ nodePass'.copy = ncapSeen[c]
        /\ ncapSeen[c].phase \notin {"absent", "gone"}
        /\ ncap[c].phase \in Ended => ncapSeen[c].phase \in Ended
    BY <1>15 DEF BeginNodePass
  <2>2. BoundInOrder' /\ BoundFirst' /\ SeenFollows'
    BY <2>1, Zenon DEF NodeInv, BoundInOrder, BoundFirst, SeenFollows, GoesIfDeleted, DrainedWorker
  <2>3. /\ ncapSeen[c].deleting => GoesIfDeleted(ncap[c])
        /\ ncapSeen[c].bound /\ ~ncapSeen[c].deleting => ncap[c].bound
    BY DEF NodeInv, SeenFollows
  <2>4. ncap[c].bound => ncap[c].phase \in Unfinished \cup Ended
    BY DEF NodeInv, NodeShape, NodeRecord, NodePhase, BoundFirst, Unfinished
  <2>5. PassFollows'
    BY <2>1, <2>3, <2>4 DEF PassFollows, GoesIfDeleted, me
  <2> QED BY <2>2, <2>5
<1>16. ASSUME NEW c \in NodeCap, CreateNodeCapture(c)
       PROVE  BoundInOrder' /\ BoundFirst' /\ SeenFollows' /\ PassFollows'
  <2>1. BoundInOrder'
    <3>1. \A d \in NodeCap : d < c => d = c - 1 \/ d < c - 1
      BY DEF NodeCap
    <3>2. \A d \in NodeCap : d < c => ncap[d].phase # "absent"
      <4> SUFFICES ASSUME NEW d \in NodeCap, d < c PROVE ncap[d].phase # "absent"
        OBVIOUS
      <4>1. c > 1 /\ c - 1 \in NodeCap
        BY NodeAssumption DEF NodeCap
      <4>2. ncap[c - 1].phase # "absent"
        BY <1>16, <4>1 DEF CreateNodeCapture
      <4> QED BY <3>1, <4>1, <4>2 DEF NodeInv, BoundInOrder
    <3>3. ~ncap[c].bound
      BY <1>16 DEF NodeInv, BoundFirst, CreateNodeCapture
    <3>4. /\ ncap'[c].phase = "Pending" /\ ncap'[c].bound = ncap[c].bound
          /\ \A d \in NodeCap : d # c => ncap'[d] = ncap[d]
      BY <1>16 DEF NodeInv, NodeShape, NodeRecord, CreateNodeCapture
    <3> QED BY <3>2, <3>3, <3>4, <1>16 DEF NodeInv, BoundInOrder, CreateNodeCapture, Unfinished
  <2>2. BoundFirst'
    BY <1>16 DEF NodeInv, NodeShape, BoundInOrder, BoundFirst, SeenFollows, PassFollows, GoesIfDeleted,
       DrainedWorker, Unfinished, Ended, NodeRecord, NodePhase, me, Quiet, NoNodePass, NoNodeCapture, NodeCap,
       CreateNodeCapture
  <2>3. SeenFollows'
    BY <1>16 DEF NodeInv, NodeShape, BoundInOrder, BoundFirst, SeenFollows, PassFollows, GoesIfDeleted,
       DrainedWorker, Unfinished, Ended, NodeRecord, NodePhase, me, Quiet, NoNodePass, NoNodeCapture, NodeCap,
       CreateNodeCapture
  <2>4. PassFollows'
    BY <1>16 DEF NodeInv, NodeShape, BoundInOrder, BoundFirst, SeenFollows, PassFollows, GoesIfDeleted,
       DrainedWorker, Unfinished, Ended, NodeRecord, NodePhase, me, Quiet, NoNodePass, NoNodeCapture, NodeCap,
       CreateNodeCapture
  <2> QED BY <2>1, <2>2, <2>3, <2>4
<1>17. ASSUME NEW c \in NodeCap, RequestNodeStop(c) PROVE BoundInOrder' /\ BoundFirst' /\ SeenFollows' /\ PassFollows'
  BY <1>17 DEF NodeInv, NodeShape, BoundInOrder, BoundFirst, SeenFollows, PassFollows, GoesIfDeleted,
     DrainedWorker, Unfinished, Ended, NodeRecord, NodePhase, me, Quiet, NoNodePass, NoNodeCapture, NodeCap,
     RequestNodeStop
<1>18. ASSUME NEW c \in NodeCap, DeleteNodeCapture(c)
       PROVE  BoundInOrder' /\ BoundFirst' /\ SeenFollows' /\ PassFollows'
  BY <1>18 DEF NodeInv, NodeShape, BoundInOrder, BoundFirst, SeenFollows, PassFollows, GoesIfDeleted,
     DrainedWorker, Unfinished, Ended, NodeRecord, NodePhase, me, Quiet, NoNodePass, NoNodeCapture, NodeCap,
     DeleteNodeCapture
<1>19. ASSUME NEW c \in NodeCap, NodeWorkerStarts(c)
       PROVE  BoundInOrder' /\ BoundFirst' /\ SeenFollows' /\ PassFollows'
  <2>1. \A d \in NodeCap : DrainedWorker(d) => DrainedWorker(d)'
    BY <1>19 DEF NodeInv, NodeShape, DrainedWorker, NodeWorkerStarts
  <2>2. \A d \in NodeCap : anchor[d] = "none" => anchor'[d] = "none"
    BY <1>19 DEF NodeInv, NodeShape, NodeWorkerStarts
  <2>3. UNCHANGED <<ncap, ncapSeen, pointer>> /\ (nodePass' = nodePass \/ nodePass'.at = "idle")
    BY <1>19 DEF NodeWorkerStarts
  <2> QED BY <2>1, <2>2, <2>3, CapturesLeftAlone, Zenon
<1>20. ASSUME NEW c \in NodeCap, WorkerEnds(c) PROVE BoundInOrder' /\ BoundFirst' /\ SeenFollows' /\ PassFollows'
  <2>1. \A d \in NodeCap : DrainedWorker(d) => DrainedWorker(d)'
    BY <1>20 DEF NodeInv, NodeShape, DrainedWorker, WorkerEnds
  <2>2. \A d \in NodeCap : anchor[d] = "none" => anchor'[d] = "none"
    BY <1>20 DEF NodeInv, NodeShape, WorkerEnds
  <2>3. UNCHANGED <<ncap, ncapSeen, pointer>> /\ (nodePass' = nodePass \/ nodePass'.at = "idle")
    BY <1>20 DEF WorkerEnds
  <2> QED BY <2>1, <2>2, <2>3, CapturesLeftAlone, Zenon
<1>21. ASSUME NEW c \in NodeCap, JobOrphaned(c) PROVE BoundInOrder' /\ BoundFirst' /\ SeenFollows' /\ PassFollows'
  <2>1. \A d \in NodeCap : DrainedWorker(d) => DrainedWorker(d)'
    BY <1>21 DEF NodeInv, NodeShape, DrainedWorker, JobOrphaned
  <2>2. \A d \in NodeCap : anchor[d] = "none" => anchor'[d] = "none"
    BY <1>21 DEF NodeInv, NodeShape, JobOrphaned
  <2>3. UNCHANGED <<ncap, ncapSeen, pointer>> /\ (nodePass' = nodePass \/ nodePass'.at = "idle")
    BY <1>21 DEF JobOrphaned
  <2> QED BY <2>1, <2>2, <2>3, CapturesLeftAlone, Zenon
<1> QED BY <1>1, <1>2, <1>3, <1>4, <1>5, <1>6, <1>7, <1>8, <1>9, <1>10, <1>11, <1>12, <1>13, <1>14, <1>15,
           <1>16, <1>17, <1>18, <1>19, <1>20, <1>21, ZenonT(30) DEF NodeNext, NodePassStep, ClusterStep

\* No worker of a capture that has ended or is gone, no two captures with a worker, and nothing left of
\* a capture that is gone, when a pass begins with the end that an earlier pass wrote in the cache.
THEOREM NodeWorkersHoldLock ==
    ASSUME ~StaleAfterEnd
    PROVE  NodeInit /\ [][NodeNext]_nodeVars => [](WorkersHoldLock /\ GoneLeavesNothing)
<1>1. NodeInit => NodeInv
  <2> SUFFICES ASSUME NodeInit PROVE NodeInv
    OBVIOUS
  <2>1. NodeShape
    <3>1. NoNodeCapture \in NodeRecord /\ 0 \in 0..NodeCaptures
      BY NodeAssumption DEF NoNodeCapture, NodeRecord, NodePhase
    <3> QED BY <3>1 DEF NodeInit, NodeShape, NoNodePass
  <2> QED BY <2>1 DEF NodeInit, NodeInv, BoundInOrder, BoundFirst, SeenFollows, PassFollows, NoNodePass,
                      NoNodeCapture, DrainedWorker, NodeCap
<1>2. NodeInv /\ [NodeNext]_nodeVars => NodeInv'
  <2>1. ASSUME NodeInv, NodeNext PROVE NodeInv'
    BY <2>1, NodeStepTyped, NodeStepKeeps, SMTT(20), ZenonT(20) DEF NodeInv
  <2>2. ASSUME NodeInv, UNCHANGED nodeVars PROVE NodeInv'
    BY <2>2 DEF nodeVars, NodeInv, NodeShape, BoundInOrder, BoundFirst, SeenFollows, PassFollows,
                GoesIfDeleted, DrainedWorker, me
  <2> QED BY <2>1, <2>2
<1>3. NodeInv => WorkersHoldLock /\ GoneLeavesNothing
  <2> SUFFICES ASSUME NodeInv PROVE WorkersHoldLock /\ GoneLeavesNothing
    OBVIOUS
  <2>1. \A c \in NodeCap : nodeWorker[c] # "none" => ncap[c].bound /\ ncap[c].phase \in Unfinished
    BY DEF NodeInv, BoundFirst, DrainedWorker
  <2>2. ASSUME NEW c \in NodeCap, NEW d \in NodeCap, nodeWorker[c] # "none", nodeWorker[d] # "none", d < c
        PROVE  FALSE
    BY <2>1, <2>2 DEF NodeInv, BoundInOrder, Unfinished
  <2>3. \A c, d \in NodeCap : c = d \/ c < d \/ d < c
    BY DEF NodeCap
  <2> QED BY <2>1, <2>2, <2>3 DEF NodeInv, BoundFirst, WorkersHoldLock, GoneLeavesNothing, DrainedWorker, Unfinished
<1> QED BY <1>1, <1>2, <1>3, PTL
=============================================================================
