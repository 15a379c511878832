------------------------- MODULE LifecycleLiveness -------------------------
(***************************************************************************)
(* What must eventually happen to a GameServer, and the scheduling this    *)
(* rests on: every controller keeps reconciling, Kubernetes keeps running  *)
(* pods and Jobs, and from some time on the calls of the operator succeed. *)
(***************************************************************************)
EXTENDS GameServerLifecycle

Other(A) == A /\ UNCHANGED passVars /\ Observe
OfJob(A) ==
    Other(A /\ UNCHANGED <<gsVars, ssVars, podVars, phase, deleting, bound, pc, userVars>>)

-----------------------------------------------------------------------------
(* Faults: what may happen any number of times, but not for ever.          *)

\* A checked write whose object changed since it was read is refused.
PassLost ==
    \/ at = "write" /\ ~ssFresh
    \/ at \in {"decide", "release"} /\ ~PassFresh

CommitLost(c) == pc[c] \in {"resume", "keep", "release"} /\ c \notin gsFresh

\* A call fails or the operator crashes; the cache lags behind; a Job is deleted by
\* hand; the authorization of a worker cannot be confirmed.
Fault ==
    \/ PassAborts /\ ~PassLost /\ ~PatchStatus
    \/ WorkloadUnchanged /\ next # ss
    \/ (StartPass \/ WipeWaits) /\ ENABLED RecoverWipe
    \/ DesiredReplicas /\ DecideStopping /\ snap.restart /\ game = "none"
    \/ \E r \in Restore : RestoreAborts(r) /\ ~CommitLost(r)
    \/ \E b \in Backup : (BackupAborts(b) /\ ~CommitLost(b)) \/ WithdrawStart(b)
    \/ \E o \in Op : Exists(o) /\ job[o] # "deleting" /\ JobCollected(o)

FaultsCease == <>[][~Fault]_vars

-----------------------------------------------------------------------------
(* Fairness.                                                               *)

\* controller-runtime requeues a reconcile that failed or that has to wait, the
\* periodic resync and the watches start the others.
PassRuns == WF_vars((Workload \/ Wipe) /\ Observe)
RestoreRuns == \A r \in Restore :
    WF_vars(Other(RestoreWork(r) \/ RestoreCleanup(r) \/ RestoreAborts(r)))
BackupRuns == \A b \in Backup :
    WF_vars(Other(BackupWork(b) \/ BackupCleanup(b) \/ BackupAborts(b)))

\* Every stage of a copy has a deadline that restarts do not extend.
DeadlinesExpire == \A b \in Backup : SF_vars(Other(FailBackup(b)))

\* Jobs have a backoff limit and a deadline, and a pod that was told to go, goes.
PodsRun ==
    /\ WF_vars(Other(StatefulSetController))
    /\ \A o \in Op : /\ WF_vars(OfJob(JobSucceed(o) \/ JobFail(o)))
                      /\ WF_vars(OfJob(PodExit(o) \/ JobDeleted(o)))

Fairness == PassRuns /\ RestoreRuns /\ BackupRuns /\ DeadlinesExpire /\ PodsRun

FairSpec == Spec /\ Fairness /\ FaultsCease

\* The same without an agent: no save-on call need ever succeed, but the retry of a
\* deletion ends.
BackupRunsAlone == \A b \in Backup :
    WF_vars(Other(\/ BackupWork(b) \/ BackupAborts(b) \/ AbandonSaving(b)
                  \/ BackupCleanup(b) /\ UNCHANGED process))

UnreachableSpec ==
    Spec /\ PassRuns /\ BackupRunsAlone /\ DeadlinesExpire /\ PodsRun /\ FaultsCease

-----------------------------------------------------------------------------
\* A requested wipe is acknowledged or withdrawn, unless its Job failed for good
\* (reconcileWipe keeps a failed Job for inspection): it is never starved by a
\* Restore, which waits for it in turn (claimRestoreTarget), and a crash between
\* recordWipeSuccess and ackWipe does not strand it.
WipeSettles ==
    PendingWipe ~> (~PendingWipe \/ job[gs.wipeReq] = "failed")

\* A game that was told to stop saving is told to save again, or its pod is gone
\* (maybeUnquiesce, recoverLifecycleOperation).  The exception is a Backup that is
\* gone: finalizeUnquiesce then leaves the owner behind for the next operation.
SavingRestored ==
    process.quiesced ~> (~process.quiesced \/ \E b \in gs.debt : ~Exists(b))

\* No Backup or Restore keeps the server for ever, whatever failed on the way:
\* releaseBackupTarget and the three writes of cleanupRestore are retried until
\* clearLifecycleOperation and the last write have gone through.
ServerReleased == \A c \in CR : gs.owner = c ~> gs.owner # c \/ ~Exists(c)

\* The deletion of a Backup or Restore completes: finalizeDelete and cleanupRestore
\* give the finalizer back from every stage of the operation.
DeletionCompletes == \A c \in CR : c \in deleting ~> phase[c] = "gone"

\* Once the requests stop, a server that no operation holds runs exactly if it is
\* not suspended: a power request that met a Restore, or a restart that was
\* coalesced or interrupted, is not lost (desiredReplicas, restartPhase, ackRestart).
Converges ==
    <>[](gs.owner = None => (game = "up" <=> ~gs.suspend))
=============================================================================
