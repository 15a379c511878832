--------------------------- MODULE VolumeSnapshots ----------------------------
(*****************************************************************************)
(* Backups taken as CSI volume snapshots, and restores from them. The parts  *)
(* share no state; each has its own initial states and steps.                *)
(*****************************************************************************)
EXTENDS Naturals, FiniteSets

(***************************************************************************)
(* A Backup with strategy volume-snapshot: quiesce the game, have the CSI  *)
(* layer cut a snapshot of the data volume, record it, turn saving back    *)
(* on; or abort durably, turn saving back on and reclaim what was created. *)
(* A pass may stop after any of its writes; the snapshot may be deleted or *)
(* replaced under its name, and another controller recovering the server   *)
(* may invalidate the capture while a pass is under way.                   *)
(***************************************************************************)
CONSTANT Born   \* bound: VolumeSnapshots ever created under the Backup's name

VARIABLES
    bk,          \* the Backup: annotations and status
    late,        \* whether the capture deadline has passed
    csiFrozen,   \* whether the game's saving is off
    vs,          \* the VolumeSnapshot of the Backup's name
    born,        \* the number of VolumeSnapshots created so far
    content,     \* the snapshot uid a VolumeSnapshotContent refers to, 0 when there is none
    retain,      \* the content's deletion policy is Retain
    troubled,    \* whether crashes, agent failures and strangers may still occur
    csiPass      \* the pass under way: its next step, the snapshot in hand, what it is about to report,
                 \* and whether its copy of the Backup is current
csiVars == <<bk, late, csiFrozen, vs, born, content, retain, troubled, csiPass>>

NoSnapshot == [uid |-> 0, own |-> FALSE, state |-> "pending", cut |-> "no"]
NoCsiPass == [at |-> "idle", hand |-> 0, report |-> "", fresh |-> TRUE]
CsiSteps == {"idle", "start", "prepare", "quiesce", "ask", "confirm", "manifest", "create", "remember",
             "observe",
             "abort", "failing", "thaw", "thawed", "reclaim", "delete", "report"}
CsiTypeOK ==
    /\ bk \in [abort : BOOLEAN, admitted : BOOLEAN, deadline : BOOLEAN,
               quiesced : {"", "pending", "true", "unsupported"},
               unquiesced : BOOLEAN, identity : 0..Born, phase : {"", "Running", "Succeeded",
                                                                  "Failed"}, snapshot : 0..Born,
               cut : {"no", "frozen", "thawed"}, manifest : {"", "confirmed", "unsupported", "LegacyUnknown"},
               cleaned : {"", "Pending", "Retained", "Unverified", "Complete"}]
    /\ late \in BOOLEAN /\ csiFrozen \in BOOLEAN /\ born \in 0..Born /\ content \in 0..Born
    /\ retain \in BOOLEAN /\ troubled \in BOOLEAN
    /\ vs \in [uid : 0..Born, own : BOOLEAN, state : {"pending", "ready", "error"},
               cut : {"no", "frozen", "thawed"}]
    /\ csiPass \in [at : CsiSteps, hand : 0..Born,
                    report : {"", "Pending", "Retained", "Unverified", "Complete"}, fresh : BOOLEAN]

CsiInit ==
    /\ bk = [abort |-> FALSE, admitted |-> FALSE, deadline |-> FALSE, quiesced |-> "", unquiesced |-> FALSE,
             identity |-> 0,
             phase |-> "", snapshot |-> 0, cut |-> "no", manifest |-> "", cleaned |-> ""]
    /\ late = FALSE /\ csiFrozen = FALSE /\ vs = NoSnapshot /\ born = 0 /\ content = 0 /\ retain \in BOOLEAN
    /\ troubled = TRUE /\ csiPass = NoCsiPass

worldUnchanged == UNCHANGED <<late, csiFrozen, vs, born, content, retain, troubled>>
Proceed(to) == csiPass' = [csiPass EXCEPT !.at = to]
StopPass == csiPass' = NoCsiPass
\* An update of the Backup carries the resourceVersion the pass read.  A pass whose copy is outdated
\* may still call the agent or create the snapshot, but writes nothing.
WriteBackup(b) == csiPass.fresh /\ bk' = b
OwesUnquiesce == bk.quiesced \in {"pending", "true"} /\ ~bk.unquiesced

-----------------------------------------------------------------------------
(* The CSI layer, the deadline, and everyone else.                         *)

\* The storage system cuts the snapshot some time after the object was created.
SnapshotCut ==
    /\ vs.uid # 0 /\ vs.own /\ vs.cut = "no"
    /\ vs' = [vs EXCEPT !.cut = IF csiFrozen THEN "frozen" ELSE "thawed"] /\ content' = vs.uid
    /\ UNCHANGED <<bk, late, csiFrozen, born, retain, troubled, csiPass>>
SnapshotSettles ==
    /\ vs.uid # 0 /\ vs.own /\ vs.state = "pending"
    /\ vs' \in {[vs EXCEPT !.state = "error"]} \cup IF vs.cut # "no" THEN {[vs EXCEPT !.state = "ready"]} ELSE {}
    /\ UNCHANGED <<bk, late, csiFrozen, born, content, retain, troubled, csiPass>>
\* Somebody deletes the VolumeSnapshot; its content goes with it unless the policy is Retain.
SnapshotVanishes ==
    /\ troubled /\ vs.uid # 0 /\ vs' = NoSnapshot /\ content' = IF retain THEN content ELSE 0
    /\ UNCHANGED <<bk, late, csiFrozen, born, retain, troubled, csiPass>>
ForeignSnapshot ==
    /\ troubled /\ vs.uid = 0 /\ born < Born /\ born' = born + 1 /\ vs' = [NoSnapshot EXCEPT !.uid = born + 1]
    /\ UNCHANGED <<bk, late, csiFrozen, content, retain, troubled, csiPass>>
CsiDeadlinePasses == bk.deadline /\ ~late /\ late' = TRUE /\ UNCHANGED <<bk, csiFrozen, vs, born, content,
                                                                         retain, troubled, csiPass>>
TroubleEnds == troubled /\ troubled' = FALSE /\ UNCHANGED <<bk, late, csiFrozen, vs, born, content, retain,
                                                            csiPass>>

\* backupSnapshotCopyLive with cancel: an operation that recovers the server invalidates the capture.
CancelCapture ==
    /\ bk.admitted /\ vs.own /\ bk.phase # "Succeeded" /\ ~bk.abort
    /\ bk' = [bk EXCEPT !.abort = TRUE, !.phase = "Failed", !.snapshot = 0]
    /\ csiPass' = [csiPass EXCEPT !.fresh = csiPass.at = "idle"]
    /\ worldUnchanged

-----------------------------------------------------------------------------
(* The pass.                                                               *)

BeginCsiPass ==
    csiPass.at = "idle" /\ csiPass' = [NoCsiPass EXCEPT !.at = "start"] /\ UNCHANGED bk /\ worldUnchanged
\* A crash, a conflict or an error ends the pass where it is.
CsiPassEnds ==
    csiPass.at # "idle" /\ (troubled \/ ~csiPass.fresh) /\ StopPass /\ UNCHANGED bk /\ worldUnchanged
\* A pass with an outdated copy does end: its next write is refused.
OutdatedPassEnds == ~csiPass.fresh /\ CsiPassEnds

\* backupSnapshotIdentity: the first owned snapshot is remembered, any other one refused.
IdentityChanged == vs.uid # 0 /\ vs.own /\ bk.identity \notin {0, vs.uid}
Invalidated == bk.abort \/ bk.phase = "Failed" \/ (bk.deadline /\ late)
DecideCapture ==
    /\ csiPass.at = "start" /\ csiPass.fresh
    /\ \/ Invalidated /\ Proceed("abort") /\ UNCHANGED bk
       \/ ~Invalidated /\ bk.phase = "Succeeded" /\ Proceed("thaw") /\ UNCHANGED bk
       \/ /\ ~Invalidated /\ bk.phase # "Succeeded" /\ vs.uid # 0 /\ ~vs.own
          /\ Proceed(IF bk.admitted THEN "abort" ELSE "idle") /\ UNCHANGED bk
       \/ ~Invalidated /\ bk.phase # "Succeeded" /\ (vs.own => IdentityChanged) /\ (vs.uid # 0 => vs.own)
          /\ (IF IdentityChanged THEN Proceed("abort") ELSE Proceed("prepare")) /\ UNCHANGED bk
       \/ ~Invalidated /\ bk.phase # "Succeeded" /\ vs.own /\ ~IdentityChanged
          /\ WriteBackup([bk EXCEPT !.identity = vs.uid]) /\ Proceed("prepare")
    /\ worldUnchanged
\* The snapshot API cannot be read, or the server, the source or the metadata fail a check.
CaptureRefused ==
    /\ csiPass.at \in {"prepare", "manifest"} /\ WriteBackup([bk EXCEPT !.phase = "Failed"]) /\ StopPass
    /\ worldUnchanged

\* prepareBackupWorkload, then backupDeadline: claimed and fenced, or wait.  The budget starts before saving
\* is paused.
PrepareCapture ==
    /\ csiPass.at = "prepare" /\ WriteBackup([bk EXCEPT !.admitted = TRUE, !.deadline = TRUE])
    /\ Proceed(IF late THEN "abort" ELSE "quiesce") /\ worldUnchanged

\* maybeQuiesce: the attempt is recorded before the agent is asked, the answer after.
RecordAttempt ==
    /\ csiPass.at = "quiesce"
    /\ IF bk.quiesced \in {"true", "unsupported"} THEN UNCHANGED bk /\ Proceed("manifest")
       ELSE WriteBackup([bk EXCEPT !.quiesced = "pending"]) /\ Proceed("ask")
    /\ worldUnchanged
AskQuiesce ==
    /\ csiPass.at = "ask"
    /\ \/ csiFrozen' = TRUE /\ Proceed("confirm") /\ UNCHANGED bk
       \/ /\ bk.quiesced = "pending" /\ ~csiFrozen /\ WriteBackup([bk EXCEPT !.quiesced = "unsupported"])
          /\ Proceed("manifest") /\ UNCHANGED csiFrozen
    /\ UNCHANGED <<late, vs, born, content, retain, troubled>>
QuiesceFails ==
    /\ csiPass.at = "ask" /\ troubled /\ csiFrozen' \in {csiFrozen, TRUE} /\ StopPass
    /\ UNCHANGED <<bk, late, vs, born, content, retain, troubled>>
ConfirmQuiesce ==
    /\ csiPass.at = "confirm" /\ WriteBackup([bk EXCEPT !.quiesced = "true"]) /\ Proceed("manifest")
    /\ worldUnchanged

\* recordBackupManifest: once, before the capture; a worker that is already there has unknown coverage.
BackupQuiesceOutcome == IF bk.quiesced = "true" THEN "confirmed" ELSE "unsupported"
RecordBackupManifest ==
    /\ csiPass.at = "manifest"
    /\ IF bk.manifest # "" THEN UNCHANGED bk
       ELSE WriteBackup([bk EXCEPT !.manifest = IF vs.own THEN "LegacyUnknown" ELSE BackupQuiesceOutcome])
    /\ Proceed("create") /\ worldUnchanged

\* CreateOrUpdate; a creation whose answer is lost aborts the capture all the same.
CreateSnapshot ==
    /\ csiPass.at = "create" /\ UNCHANGED <<bk, late, csiFrozen, content, retain, troubled>>
    /\ \/ late /\ Proceed("abort") /\ UNCHANGED <<vs, born>>
       \/ ~late /\ vs.uid # 0
          /\ csiPass' = [csiPass EXCEPT !.at = IF vs.own THEN "remember" ELSE "abort", !.hand = vs.uid]
          /\ UNCHANGED <<vs, born>>
       \/ ~late /\ vs.uid = 0 /\ born < Born /\ born' = born + 1
          /\ vs' = [NoSnapshot EXCEPT !.uid = born + 1, !.own = TRUE]
          /\ csiPass' \in {[csiPass EXCEPT !.at = to, !.hand = born + 1] : to \in {"remember", "abort"}}
RememberBackupSnapshot ==
    /\ csiPass.at = "remember"
    /\ CASE bk.identity = csiPass.hand -> UNCHANGED bk /\ Proceed("observe")
         [] bk.identity = 0 -> WriteBackup([bk EXCEPT !.identity = csiPass.hand]) /\ Proceed("observe")
         [] OTHER -> UNCHANGED bk /\ Proceed("abort")
    /\ worldUnchanged

\* What the pass sees of the snapshot in hand.
HandState == IF vs.uid = csiPass.hand THEN vs.state ELSE "pending"
CompleteVolumeSnapshot ==
    WriteBackup([bk EXCEPT !.phase = "Succeeded", !.snapshot = csiPass.hand,
                 !.cut = vs.cut]) /\ Proceed("thaw")
ObserveVolumeSnapshot ==
    /\ csiPass.at = "observe" /\ csiPass.fresh
    /\ CASE bk.abort \/ late \/ HandState = "error" -> UNCHANGED bk /\ Proceed("abort")
         [] ~bk.abort /\ ~late /\ HandState = "ready" -> CompleteVolumeSnapshot
         [] OTHER -> WriteBackup([bk EXCEPT !.phase = "Running"]) /\ StopPass
    /\ worldUnchanged

\* Variant: saving is resumed before the abort is durable.
RecordSnapshotAbortLater ==
    /\ csiPass.at = "abort" /\ csiPass.fresh
    /\ IF bk.abort \/ OwesUnquiesce THEN UNCHANGED bk ELSE WriteBackup([bk EXCEPT !.abort = TRUE])
    /\ Proceed(IF bk.abort THEN "failing" ELSE "thaw") /\ worldUnchanged
\* abortVolumeSnapshot: the decision is durable before saving is resumed.
RecordSnapshotAbort ==
    /\ csiPass.at = "abort" /\ csiPass.fresh
    /\ IF bk.abort THEN UNCHANGED bk ELSE WriteBackup([bk EXCEPT !.abort = TRUE])
    /\ Proceed("failing") /\ worldUnchanged
InvalidateCapture ==
    /\ csiPass.at = "failing" /\ WriteBackup([bk EXCEPT !.phase = "Failed", !.snapshot = 0])
    /\ Proceed("thaw") /\ worldUnchanged

\* runUnquiesce: retried until confirmed; cleaning up does not wait for it.
AfterThaw == IF bk.abort THEN "reclaim" ELSE "idle"
CsiRunUnquiesce ==
    /\ csiPass.at = "thaw" /\ UNCHANGED <<bk, late, vs, born, content, retain, troubled>>
    /\ \/ OwesUnquiesce /\ csiFrozen' = FALSE /\ Proceed("thawed")
       \/ ~OwesUnquiesce /\ Proceed(AfterThaw) /\ UNCHANGED csiFrozen
UnquiesceFails ==
    /\ csiPass.at = "thaw" /\ OwesUnquiesce /\ troubled /\ csiFrozen' \in {csiFrozen, FALSE}
    /\ Proceed(AfterThaw)
    /\ UNCHANGED <<bk, late, vs, born, content, retain, troubled>>
ConfirmUnquiesce ==
    /\ csiPass.at = "thawed" /\ WriteBackup([bk EXCEPT !.unquiesced = TRUE]) /\ Proceed(AfterThaw)
    /\ worldUnchanged

\* reclaimAbortedSnapshot: verify and remember whose resources these are ...
ReclaimVerified ==
    /\ csiPass.at = "reclaim"
    /\ IF vs.uid # 0 /\ (~vs.own \/ IdentityChanged)
       THEN UNCHANGED bk /\ csiPass' = [csiPass EXCEPT !.at = "report", !.report = "Unverified"]
       ELSE /\ WriteBackup([bk EXCEPT !.identity = IF vs.uid # 0 THEN vs.uid ELSE @])
            /\ csiPass' = [csiPass EXCEPT !.at = "delete", !.hand = vs.uid]
    /\ worldUnchanged
\* ... then delete them, by uid; a content to be retained is reported instead.
OwnedContent == content # 0 /\ content = bk.identity
ReclaimDelete ==
    /\ csiPass.at = "delete" /\ UNCHANGED <<bk, late, csiFrozen, born, retain, troubled>>
    /\ LET gone == vs.uid # 0 /\ vs.uid = csiPass.hand
       IN  /\ vs' = IF gone THEN NoSnapshot ELSE vs
           /\ content' = IF OwnedContent /\ ~retain THEN 0 ELSE content
           /\ csiPass' = [csiPass EXCEPT !.at = "report", !.report = CASE OwnedContent /\ retain -> "Retained"
                                                                       [] csiPass.hand # 0 \/ OwnedContent -> "Pending"
                                                                       [] OTHER -> "Complete"]
SnapshotCleanupCondition ==
    /\ csiPass.at = "report" /\ WriteBackup([bk EXCEPT !.cleaned = csiPass.report]) /\ StopPass
    /\ worldUnchanged

CsiStep ==
    \/ DecideCapture \/ PrepareCapture \/ RecordAttempt \/ AskQuiesce \/ QuiesceFails \/ ConfirmQuiesce
    \/ RecordBackupManifest
    \/ CreateSnapshot \/ RememberBackupSnapshot \/ ObserveVolumeSnapshot \/ RecordSnapshotAbort
    \/ InvalidateCapture \/ CsiRunUnquiesce \/ UnquiesceFails \/ ConfirmUnquiesce \/ ReclaimVerified
    \/ ReclaimDelete \/ SnapshotCleanupCondition
CsiNext ==
    \/ SnapshotCut \/ SnapshotSettles \/ SnapshotVanishes \/ ForeignSnapshot \/ CsiDeadlinePasses
    \/ TroubleEnds \/ CancelCapture
    \/ BeginCsiPass \/ CsiPassEnds \/ CaptureRefused \/ CsiStep

-----------------------------------------------------------------------------
\* A Backup that reports a confirmed quiesce and success holds a snapshot cut while saving was off: not
\* one that became ready after the capture had been given up and saving resumed, whatever pass stopped where.
ConsistentCapture == bk.phase = "Succeeded" /\ bk.manifest = "confirmed" => bk.cut = "frozen"

\* The snapshot a Backup offers for restore is the one whose identity it pinned.
OffersPinnedSnapshot == bk.snapshot # 0 => bk.snapshot = bk.identity

\* Reclaiming an aborted capture touches no snapshot of somebody else that took the Backup's name.
ReclaimsOnlyOwn == [][csiPass.at = "delete" /\ vs' # vs /\ csiPass' # csiPass => vs.own]_csiVars

\* Cleanup is reported complete only when neither a snapshot of this Backup nor a content of
\* the pinned one is left behind, a content the driver made while the reclaim was under way included.
CompleteMeansReclaimed == bk.cleaned = "Complete" => ~vs.own /\ (bk.identity # 0 => content # bk.identity)

-----------------------------------------------------------------------------
(***************************************************************************)
(* The Restore of a volume-snapshot Backup: a new GameServer is created    *)
(* from the spec of the original one, with copies of the Secrets and       *)
(* ConfigMaps that spec refers to.  Every write may be the last one before *)
(* a crash; the sources, the copies and the original server may change, be *)
(* replaced or vanish under the restore, and the cache lags the copies.    *)
(***************************************************************************)
CONSTANT Refs   \* the references of the original server's spec

VARIABLES
    vr,        \* the Restore
    orig,      \* the original server exists
    source,    \* what each reference names
    target,    \* the server named by the Restore
    copies,    \* the object under each copy's name
    copySeen   \* the same in the cache

vrVars == <<vr, orig, source, target, copies, copySeen>>

NoTarget == [by |-> "nobody", bound |-> FALSE, template |-> FALSE, claimed |-> FALSE,
             phase |-> "Pending"]
\* A copy that belongs to the restored server holds the data of an owned source, or
\* of an object the original server did not own.
VolumeRestoreCopy == {"none", "ours", "leaked", "foreign"}

VolumeRestoreTypeOK ==
    /\ vr \in [phase: {"Running", "Succeeded", "Failed"}, start: {"none", "recent", "expired"},
               plan: BOOLEAN, held: BOOLEAN, pass: {"idle", "planned", "created"}]
    /\ orig \in BOOLEAN
    /\ source \in [Refs -> {"owned", "foreign", "missing"}]
    /\ target \in [by: {"nobody", "restore", "other"}, bound: BOOLEAN, template: BOOLEAN,
                   claimed: BOOLEAN, phase: {"Pending", "Running", "Failed"}]
    /\ copies \in [Refs -> VolumeRestoreCopy] /\ copySeen \in [Refs -> VolumeRestoreCopy]

VolumeRestoreInit ==
    /\ vr = [phase |-> "Running", start |-> "none", plan |-> FALSE, held |-> FALSE, pass |-> "idle"]
    /\ orig = TRUE
    /\ source \in [Refs -> {"owned", "missing"}]
    /\ target \in {NoTarget, [NoTarget EXCEPT !.by = "other"]}
    /\ copies = [r \in Refs |-> "none"]
    /\ copySeen = copies

-----------------------------------------------------------------------------
(* The surroundings.                                                       *)

SourceChanges(r) ==
    /\ \E s \in {"owned", "foreign", "missing"} : source' = [source EXCEPT ![r] = s]
    /\ UNCHANGED <<vr, orig, target, copies, copySeen>>

OriginalDeleted ==
    /\ orig /\ orig' = FALSE
    /\ source' = [r \in Refs |-> "missing"]
    /\ UNCHANGED <<vr, target, copies, copySeen>>

CopyDisturbed(r) ==
    /\ copies[r] # "none" /\ vr.phase = "Running"
    /\ \E c \in {"none", "foreign"} : copies' = [copies EXCEPT ![r] = c]
    /\ UNCHANGED <<vr, orig, source, target, copySeen>>

CopyCacheSync ==
    /\ copySeen # copies /\ copySeen' = copies
    /\ UNCHANGED <<vr, orig, source, target, copies>>

ServerStarts ==
    /\ target.by = "restore" /\ target.claimed /\ target.phase = "Pending"
    /\ \E p \in {"Running", "Failed"} : target' = [target EXCEPT !.phase = p]
    /\ UNCHANGED <<vr, orig, source, copies, copySeen>>

\* VolumeSnapshotRestoreDeadline passes.
VolumeRestoreDeadlinePasses ==
    /\ vr.start = "recent" /\ vr' = [vr EXCEPT !.start = "expired"]
    /\ UNCHANGED <<orig, source, target, copies, copySeen>>

RestorePassEnds ==
    /\ vr.pass # "idle" /\ vr' = [vr EXCEPT !.pass = "idle"]
    /\ UNCHANGED <<orig, source, target, copies, copySeen>>

-----------------------------------------------------------------------------
(* Until the server exists.                                                *)

Fail == vr' = [vr EXCEPT !.phase = "Failed", !.pass = "idle"]
FailOrRequeue == vr.start = "expired" /\ Fail

Planning == vr.phase = "Running" /\ target.by = "nobody" /\ vr.pass = "idle"

\* A name that is taken, or no server to take the spec from.
Refused ==
    /\ vr.phase = "Running" /\ vr.pass = "idle"
    /\ target.by = "other" \/ (target.by = "nobody" /\ ~orig)
    /\ Fail
    /\ UNCHANGED <<orig, source, target, copies, copySeen>>

RecordStart ==
    /\ Planning /\ orig /\ vr.start = "none"
    /\ vr' = [vr EXCEPT !.start = "recent"]
    /\ UNCHANGED <<orig, source, target, copies, copySeen>>

PlanOwnedRefCopies ==
    /\ Planning /\ orig /\ vr.start # "none"
    /\ \/ (\E r \in Refs : source[r] = "foreign") /\ Fail
       \/ (\E r \in Refs : source[r] = "missing") /\ FailOrRequeue
       \/ /\ \A r \in Refs : source[r] = "owned"
          /\ vr' = [vr EXCEPT !.plan = TRUE, !.pass = "planned"]
    /\ UNCHANGED <<orig, source, target, copies, copySeen>>

\* The finalizer is on before the server is there to be cleaned up.
CreateRestored ==
    /\ vr.phase = "Running" /\ vr.pass = "planned"
    /\ vr' = [vr EXCEPT !.held = TRUE, !.pass = "created"]
    /\ target' = [NoTarget EXCEPT !.by = "restore"]
    /\ UNCHANGED <<orig, source, copies, copySeen>>

BindRestoreTarget ==
    /\ vr.phase = "Running" /\ target.by = "restore" /\ ~target.bound
    /\ target' = [target EXCEPT !.bound = TRUE]
    /\ UNCHANGED <<vr, orig, source, copies, copySeen>>

-----------------------------------------------------------------------------
(* The copies.                                                             *)

CopySource(r) ==
    /\ source[r] = "owned"
    /\ copies' = [copies EXCEPT ![r] = "ours"]

\* The object there is not the restored server's, by the live read.
RefNotOwned(r) == copySeen[r] # "none" /\ copies[r] \notin {"none", "ours", "leaked"}

\* One copy is created: the cache shows none, the source is read and checked again.
EnsureOwnedRefCopies(r) ==
    /\ vr.phase = "Running" /\ target.by = "restore" /\ target.bound /\ orig /\ vr.plan
    /\ vr.pass = "created" \/ target.claimed
    /\ copySeen[r] = "none" /\ copies[r] = "none"
    /\ CopySource(r)
    /\ UNCHANGED <<vr, orig, source, target, copySeen>>

CopyRefused ==
    /\ vr.phase = "Running" /\ target.by = "restore" /\ target.bound /\ orig
    /\ vr.pass = "created" \/ target.claimed
    /\ \E r \in Refs :
          \/ RefNotOwned(r)
          \/ copySeen[r] = "none" /\ copies[r] = "none" /\ source[r] = "foreign"
    /\ Fail
    /\ UNCHANGED <<orig, source, target, copies, copySeen>>

\* The template copy, then the lifecycle owner with initialStartup.
PrepareTarget ==
    /\ vr.phase = "Running" /\ vr.pass = "idle" /\ target.by = "restore" /\ target.bound
    /\ \/ ~target.template /\ target' = [target EXCEPT !.template = TRUE]
       \/ target.template /\ ~target.claimed /\ target' = [target EXCEPT !.claimed = TRUE]
    /\ UNCHANGED <<vr, orig, source, copies, copySeen>>

-----------------------------------------------------------------------------
(* Waiting for the restored server.                                        *)

Awaiting == vr.phase = "Running" /\ vr.pass = "idle" /\ target.by = "restore" /\ target.claimed

IsServerOwned(r) == copies[r] \in {"ours", "leaked"}

\* The references as the cache-backed pass over the plan finds them (while the
\* original server exists), or as they are.
RefsEnsured ==
    \A r \in Refs : IF orig THEN copySeen[r] # "none" /\ IsServerOwned(r) ELSE IsServerOwned(r)

\* A missing copy is made again in the pass that looks at it.
Recopied(r) == orig /\ copySeen[r] = "none" /\ copies[r] = "none" /\ source[r] = "owned"

AwaitRunning ==
    /\ Awaiting /\ target.phase = "Running" /\ RefsEnsured
    /\ \A r \in Refs : IsServerOwned(r)
    /\ vr' = [vr EXCEPT !.phase = "Succeeded"]
    /\ UNCHANGED <<orig, source, target, copies, copySeen>>

\* A reference that is not the server's, or is missing once the server runs, is
\* terminal; so is a server that failed or did not start in time.
AwaitFails ==
    /\ Awaiting
    /\ \/ ~orig /\ \E r \in Refs : copies[r] = "foreign"
       \/ target.phase = "Running" /\ \E r \in Refs : ~IsServerOwned(r) /\ ~Recopied(r)
       \/ target.phase = "Failed"
       \/ target.phase = "Pending" /\ vr.start = "expired"
    /\ Fail
    /\ UNCHANGED <<orig, source, target, copies, copySeen>>

VolumeRestorePass ==
    \/ Refused \/ RecordStart \/ PlanOwnedRefCopies \/ CreateRestored \/ BindRestoreTarget
    \/ CopyRefused \/ PrepareTarget \/ AwaitRunning \/ AwaitFails
    \/ \E r \in Refs : EnsureOwnedRefCopies(r)

VolumeRestoreNext ==
    \/ VolumeRestorePass \/ OriginalDeleted \/ CopyCacheSync \/ ServerStarts
    \/ VolumeRestoreDeadlinePasses \/ RestorePassEnds
    \/ \E r \in Refs : SourceChanges(r) \/ CopyDisturbed(r)

-----------------------------------------------------------------------------
(* Properties.                                                             *)

\* No copy ever holds the data of an object the original server did not own, even
\* if a source is replaced after the copies were planned ("Re-verify ownership at
\* copy time", ensureOwnedRefCopies).
NoForeignData == \A r \in Refs : copies[r] # "leaked"

\* A Restore succeeds only when the server it created runs and every object its
\* spec refers to is that server's own (awaitRestoredServer).
SuccessMeansOwnRefs ==
    [][vr.phase = "Running" /\ vr'.phase = "Succeeded" =>
          /\ target.by = "restore" /\ target.phase = "Running"
          /\ \A r \in Refs : copies[r] = "ours"]_vrVars
=============================================================================
