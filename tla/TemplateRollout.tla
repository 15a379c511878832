--------------------------- MODULE TemplateRollout ---------------------------
(***************************************************************************)
(* A GameServer adopts a new revision of its GameTemplate.  The server     *)
(* carries a pin, whose content is kept in an immutable snapshot; a new    *)
(* revision is admitted by claiming the lifecycle owner, the workload is   *)
(* drained, the pin moves, the workload is rendered from it and the owner  *)
(* is released.  A pass works on a cached GameServer: it reads it and      *)
(* reports the status, decides, and renders the workload; users, the       *)
(* catalog and other operations act in between, and any step may be the    *)
(* last one before a restart.                                              *)
(***************************************************************************)
EXTENDS Integers, FiniteSets

CONSTANTS
    LastRevision,   \* revisions are 1..LastRevision; 0 is "no revision"
    EditLimit       \* bound on what users, the catalog and other operations do

VARIABLES
    rolloutInstalled,   \* the revision in the catalog
    gs,                 \* the GameServer
    gsCached,           \* the controller's copy of it
    snapshots,          \* the snapshot ConfigMaps of this server
    sts,                \* its StatefulSet
    rolloutPod,         \* the revision of the game pod
    round,              \* the controller's pass
    rolloutEdits

rolloutVars == <<rolloutInstalled, gs, gsCached, snapshots, sts, rolloutPod, round, rolloutEdits>>

Revision == 1..LastRevision
RevisionOrNone == 0..LastRevision
RolloutNoPod == -1
Idle == [at |-> "idle"]

RolloutServer == [pin: RevisionOrNone, owner: {"none", "Rollout", "startup", "other"}, token: RevisionOrNone,
                  baseline: BOOLEAN, admitted: Nat, cancel: RevisionOrNone,
                  automatic: BOOLEAN, requested: RevisionOrNone, fromRestore: RevisionOrNone,
                  suspend: BOOLEAN, stopping: BOOLEAN, unrenderable: RevisionOrNone,
                  generation: Nat, inputs: Nat, baselinePin: RevisionOrNone, baselineInputs: Nat,
                  reported: RevisionOrNone \X RevisionOrNone \X STRING]

RolloutTypeOK ==
    /\ rolloutInstalled \in RevisionOrNone /\ gs \in RolloutServer /\ gsCached \in RolloutServer
    /\ snapshots \subseteq Revision
    /\ sts \in [exists: BOOLEAN, revision: RevisionOrNone, replicas: {0, 1}, fence: BOOLEAN]
    /\ rolloutPod \in -1..LastRevision /\ rolloutEdits \in 0..EditLimit
    /\ round = Idle \/ (round.at \in {"decide", "render"} /\ round.gs \in RolloutServer)

\* A server from before revisions were recorded, with its workload; a new server; or the
\* target of a volume restore whose source ran revision 1.
RolloutInit ==
    /\ rolloutInstalled = 1
    /\ \E kind \in {"old", "new", "restored"} :
          /\ gs = [pin |-> 0, owner |-> IF kind = "restored" THEN "startup" ELSE "none",
                   token |-> 0, baseline |-> FALSE, admitted |-> 0, cancel |-> 0,
                   automatic |-> TRUE, requested |-> 0,
                   fromRestore |-> IF kind = "restored" THEN 1 ELSE 0,
                   suspend |-> FALSE, stopping |-> FALSE, unrenderable |-> 0, generation |-> 0,
                   inputs |-> 0, baselinePin |-> 0, baselineInputs |-> 0, reported |-> <<0, 0, "none">>]
          /\ sts = [exists |-> kind = "old", revision |-> 0, fence |-> FALSE,
                    replicas |-> IF kind = "old" THEN 1 ELSE 0]
          /\ rolloutPod = IF kind = "old" THEN 0 ELSE RolloutNoPod
    /\ gsCached = gs /\ snapshots = {} /\ round = Idle /\ rolloutEdits = 0

-----------------------------------------------------------------------------
(* The surroundings.                                                       *)

Edit == rolloutEdits < EditLimit /\ rolloutEdits' = rolloutEdits + 1
Edited(server) ==
    /\ server # gs /\ gs' = server /\ Edit
    /\ UNCHANGED <<rolloutInstalled, gsCached, snapshots, sts, rolloutPod, round>>

RolloutCatalog ==
    /\ \E r \in RevisionOrNone \ {rolloutInstalled} : rolloutInstalled' = r
    /\ Edit /\ UNCHANGED <<gs, gsCached, snapshots, sts, rolloutPod, round>>
CancelRequest == \E r \in {0, gs.token, rolloutInstalled} : Edited([gs EXCEPT !.cancel = r])
\* What a pod is rendered from changes, or the rollout policy.
RolloutEditSpec ==
    \E server \in {[gs EXCEPT !.unrenderable = r, !.inputs = @ + 1] : r \in RevisionOrNone}
             \cup {[gs EXCEPT !.automatic = FALSE, !.requested = r] : r \in Revision} :
       server # gs /\ Edited([server EXCEPT !.generation = @ + 1])
\* A Backup takes the owner and gives it back; so does a Restore that ends.
OtherClaims == gs.owner = "none" /\ ~gs.stopping /\ Edited([gs EXCEPT !.owner = "other"])
OtherReleases ==
    /\ gs.owner = "other" \/ (gs.owner = "startup" /\ (gs.fromRestore # 0 => gs.pin # 0))
    /\ gs' = [gs EXCEPT !.owner = "none"] /\ sts' = [sts EXCEPT !.fence = FALSE]
    /\ UNCHANGED <<rolloutInstalled, gsCached, snapshots, rolloutPod, round, rolloutEdits>>

CacheCatchesUp ==
    /\ gsCached # gs /\ gsCached' = gs
    /\ UNCHANGED <<rolloutInstalled, gs, snapshots, sts, rolloutPod, round, rolloutEdits>>
RolloutPodStarts ==
    /\ sts.exists /\ sts.replicas = 1 /\ rolloutPod = RolloutNoPod /\ rolloutPod' = sts.revision
    /\ UNCHANGED <<rolloutInstalled, gs, gsCached, snapshots, sts, round, rolloutEdits>>
PodStops ==
    /\ rolloutPod # RolloutNoPod /\ (sts.replicas = 0 \/ rolloutPod # sts.revision)
    /\ rolloutPod' = RolloutNoPod
    /\ UNCHANGED <<rolloutInstalled, gs, gsCached, snapshots, sts, round, rolloutEdits>>

\* The restored server gets the snapshot planned from its source, or the Restore fails.
CopyRestoredTemplate ==
    /\ gs.owner = "startup" /\ gs.fromRestore # 0 /\ gs.pin = 0
    /\ \/ gs' = [gs EXCEPT !.pin = gs.fromRestore] /\ snapshots' = snapshots \cup {gs.fromRestore}
       \/ gs' = [gs EXCEPT !.fromRestore = 0, !.suspend = TRUE, !.generation = @ + 1] /\ UNCHANGED snapshots
    /\ UNCHANGED <<rolloutInstalled, gsCached, sts, rolloutPod, round, rolloutEdits>>

-----------------------------------------------------------------------------
(* The beginning of a pass.                                                *)

HoldsRollout(g) == g.owner = "Rollout"
ClearFence == sts' = [sts EXCEPT !.fence = FALSE]

Reason(g, desired) ==
    CASE HoldsRollout(g) -> "AdoptingRevision"
      [] g.cancel = desired /\ desired # 0 -> "RolloutCanceled"
      [] desired = 0 -> "TemplateUnavailable"
      [] desired = g.pin -> "RevisionCurrent"
      [] g.owner # "none" -> "OperationInProgress"
      [] OTHER -> "RevisionAvailable"

EffectiveLoads(g) ==
    CASE g.pin # 0 -> g.pin \in snapshots
      [] HoldsRollout(g) -> g.token \in snapshots
      [] OTHER -> rolloutInstalled # 0

CancelRollout ==
    /\ round = Idle /\ HoldsRollout(gsCached) /\ gsCached.cancel = gsCached.token
    /\ ClearFence
    /\ IF gsCached = gs
       THEN gs' = [gs EXCEPT !.owner = "none", !.token = 0, !.baseline = FALSE,
                             !.automatic = FALSE, !.requested = 0, !.generation = @ + 1]
       ELSE UNCHANGED gs
    /\ UNCHANGED <<rolloutInstalled, gsCached, snapshots, rolloutPod, round, rolloutEdits>>

\* The status patch carries the resourceVersion of the copy.
Report(g, status) ==
    /\ g = gs \/ g.reported = status
    /\ gs' = IF g = gs THEN [g EXCEPT !.reported = status] ELSE gs
    /\ round' = [at |-> "decide", gs |-> [g EXCEPT !.reported = status], desired |-> rolloutInstalled]

BeginPass ==
    /\ round = Idle /\ ~(HoldsRollout(gsCached) /\ gsCached.cancel = gsCached.token)
    /\ EffectiveLoads(gsCached)
    /\ Report(gsCached, <<rolloutInstalled, gsCached.pin, Reason(gsCached, rolloutInstalled)>>)
    /\ UNCHANGED <<rolloutInstalled, gsCached, snapshots, sts, rolloutPod, rolloutEdits>>

-----------------------------------------------------------------------------
(* What the pass decides.                                                  *)

Settle(g, desired) ==
    g.pin = 0 /\ ((desired # 0 /\ g.cancel = desired) \/ g.fromRestore # 0)
Deciding == round.at = "decide" /\ ~Settle(round.gs, round.desired)
EndPass == round' = Idle
ThenRender == round' = [at |-> "render", gs |-> round.gs, desired |-> round.desired]

\* Variant: scaling down is requested, but the pod is not awaited.
DrainedByReplicas == sts.exists /\ sts.fence /\ sts.replicas = 0
Drained == sts.exists /\ sts.fence /\ sts.replicas = 0 /\ rolloutPod = RolloutNoPod
Adopted(g) ==
    /\ sts.exists /\ sts.revision = g.pin
    /\ IF sts.replicas = 0 THEN Drained ELSE rolloutPod = g.pin

PruneTemplateSnapshots(g) == snapshots' = snapshots \cap {g.pin}

\* The first pin is written with the resourceVersion of the copy.
InitializeTemplateBaseline ==
    /\ Deciding /\ HoldsRollout(round.gs) /\ round.gs.baseline /\ round.gs.token \in snapshots
    /\ round.gs = gs
    /\ LET recorded == sts.exists /\ gs.generation = gs.admitted
       IN  gs' = [gs EXCEPT !.pin = gs.token, !.owner = "none", !.token = 0, !.baseline = FALSE,
                    !.baselinePin = IF recorded THEN gs.token ELSE @,
                    !.baselineInputs = IF recorded THEN gs.inputs ELSE @]
    /\ ClearFence /\ EndPass
    /\ UNCHANGED <<rolloutInstalled, gsCached, snapshots, rolloutPod, rolloutEdits>>

\* The admitted revision becomes the pin once the old workload is gone, and its content
\* can be loaded.
AdoptPin ==
    /\ Deciding /\ HoldsRollout(round.gs) /\ ~round.gs.baseline /\ round.gs.token # round.gs.pin
    /\ round.gs.token \in snapshots /\ round.gs.token # round.gs.unrenderable
    /\ IF Drained
       THEN /\ round.gs = gs /\ EndPass
            /\ gs' = [gs EXCEPT !.pin = gs.token, !.stopping = FALSE]
       ELSE ThenRender /\ UNCHANGED gs
    /\ UNCHANGED <<rolloutInstalled, gsCached, snapshots, sts, rolloutPod, rolloutEdits>>

ReleaseRollout ==
    /\ Deciding /\ HoldsRollout(round.gs) /\ ~round.gs.baseline /\ round.gs.token = round.gs.pin
    /\ IF Adopted(round.gs)
       THEN /\ PruneTemplateSnapshots(round.gs) /\ EndPass /\ ClearFence
            /\ gs' = IF round.gs = gs
                     THEN [gs EXCEPT !.owner = "none", !.token = 0] ELSE gs
       ELSE ThenRender /\ UNCHANGED <<gs, snapshots, sts>>
    /\ UNCHANGED <<rolloutInstalled, gsCached, rolloutPod, rolloutEdits>>

KeepWhileHeld ==
    /\ Deciding /\ round.gs.owner \in {"startup", "other"} /\ ThenRender
    /\ UNCHANGED <<rolloutInstalled, gs, gsCached, snapshots, sts, rolloutPod, rolloutEdits>>

\* Whether the policy lets the installed revision in; a canceled one stays out.
RolloutAdmits(g, desired) ==
    /\ desired \notin {0, g.pin}
    /\ g.pin = 0 \/ g.automatic \/ g.requested = desired
    /\ g.cancel # desired
StopPending(g) == g.stopping /\ ~(sts.replicas = 0 /\ rolloutPod = RolloutNoPod)

\* The content is saved first; the claim is refused if the spec has changed, another
\* operation holds the server or a stop is under way.
AdmitRevision ==
    /\ Deciding /\ round.gs.owner = "none" /\ RolloutAdmits(round.gs, round.desired)
    /\ round.desired # round.gs.unrenderable
    /\ IF StopPending(round.gs)
       THEN ThenRender /\ UNCHANGED <<gs, snapshots>>
       ELSE /\ snapshots' = snapshots \cup {round.desired} /\ EndPass
            /\ gs' = IF gs.owner = "none" /\ gs.generation = round.gs.generation /\ ~StopPending(gs)
                     THEN [gs EXCEPT !.owner = "Rollout", !.token = round.desired,
                                     !.baseline = (round.gs.pin = 0),
                                     !.admitted = round.gs.generation]
                     ELSE gs
    /\ UNCHANGED <<rolloutInstalled, gsCached, sts, rolloutPod, rolloutEdits>>

KeepPin ==
    /\ Deciding /\ round.gs.owner = "none" /\ ~RolloutAdmits(round.gs, round.desired)
    /\ PruneTemplateSnapshots(round.gs) /\ ThenRender
    /\ UNCHANGED <<rolloutInstalled, gs, gsCached, sts, rolloutPod, rolloutEdits>>

-----------------------------------------------------------------------------
(* The workload is rendered from the copy, under the live owner.           *)

\* A workload from before the first pin is left as it is while its inputs are the same
\* and it is not drained.
PreserveBaseline ==
    /\ gs.pin # 0 /\ gs.baselinePin = gs.pin /\ gs.baselineInputs = gs.inputs
    /\ sts.revision = 0 /\ ~(sts.replicas = 0 /\ rolloutPod = RolloutNoPod)

\* The spec has to be valid for the effective template, a stop included.
Renders(g, desired) ==
    g.unrenderable # (IF g.pin # 0 THEN g.pin ELSE IF HoldsRollout(g) THEN g.token ELSE desired)
    \/ g.unrenderable = 0
Rendering == round.at = "render" /\ round.gs.pin = gs.pin /\ Renders(round.gs, round.desired)

InitialStartup == gs.owner = "startup"
WantsStop ==
    \/ HoldsRollout(gs) /\ ~gs.baseline /\ gs.token # gs.pin
    \/ (gs.owner = "none" \/ InitialStartup \/ (HoldsRollout(gs) /\ ~gs.baseline)) /\ gs.suspend
KeepsReplicas == gs.owner = "other" \/ gs.baseline

\* A stop is announced on the GameServer before the replicas go.
SoftStop ==
    /\ Rendering /\ WantsStop
    /\ sts.exists /\ sts.replicas = 1 /\ ~gs.stopping
    /\ round.gs = gs /\ gs' = [gs EXCEPT !.stopping = TRUE]
    /\ EndPass /\ UNCHANGED <<rolloutInstalled, gsCached, snapshots, sts, rolloutPod, rolloutEdits>>

RolloutReconcileStatefulSet ==
    /\ Rendering
    /\ WantsStop => (~sts.exists \/ sts.replicas = 0 \/ gs.stopping)
    /\ LET replicas == IF WantsStop THEN 0 ELSE IF KeepsReplicas THEN sts.replicas ELSE 1
           rerender == ~sts.exists \/ (/\ gs.owner = "none" \/ (HoldsRollout(gs) /\ gs.token = gs.pin)
                                       /\ ~PreserveBaseline)
       IN  sts' = [exists |-> TRUE, replicas |-> replicas, fence |-> gs.owner # "none",
                   revision |-> IF rerender THEN gs.pin ELSE sts.revision]
    /\ gs' = IF round.gs = gs /\ ~WantsStop /\ ~KeepsReplicas THEN [gs EXCEPT !.stopping = FALSE] ELSE gs
    /\ EndPass /\ UNCHANGED <<rolloutInstalled, gsCached, snapshots, rolloutPod, rolloutEdits>>

\* A pass ends early: with an error, a conflict, the wait for a restore, or a restart.
PassFails ==
    /\ round # Idle /\ EndPass
    /\ \/ round.gs # gs /\ UNCHANGED rolloutEdits
       \/ /\ round.at = "decide" /\ UNCHANGED rolloutEdits
          /\ \/ Settle(round.gs, round.desired)
             \/ /\ HoldsRollout(round.gs) /\ ~round.gs.baseline /\ round.gs.token # round.gs.pin
                /\ round.gs.token = round.gs.unrenderable \/ round.gs.token \notin snapshots
             \/ /\ round.gs.owner = "none" /\ RolloutAdmits(round.gs, round.desired)
                /\ round.desired = round.gs.unrenderable
       \/ round.at = "render" /\ UNCHANGED rolloutEdits /\ ~Renders(round.gs, round.desired)
       \/ Edit
    /\ UNCHANGED <<rolloutInstalled, gs, gsCached, snapshots, sts, rolloutPod>>

RolloutPass ==
    \/ CancelRollout \/ BeginPass \/ InitializeTemplateBaseline \/ AdoptPin \/ ReleaseRollout
    \/ KeepWhileHeld \/ AdmitRevision \/ KeepPin \/ SoftStop \/ RolloutReconcileStatefulSet \/ PassFails
RolloutNext ==
    \/ RolloutPass \/ RolloutCatalog \/ CancelRequest \/ RolloutEditSpec \/ OtherClaims \/ OtherReleases
    \/ CacheCatchesUp \/ RolloutPodStarts \/ PodStops \/ CopyRestoredTemplate

-----------------------------------------------------------------------------
(* Properties.                                                             *)

\* The snapshot of the pin is there, although passes prune snapshots by what a cached
\* GameServer says (pruneTemplateSnapshots): a server whose pin cannot be loaded is stuck,
\* and no cancellation gets it out.
PinnedContentKept == gs.pin # 0 => gs.pin \in snapshots

\* A game pod that carries a revision carries the pin: the pin moves only when the old
\* workload is gone (templateWorkloadDrained), and nothing of another revision starts.
PodRunsPinned == rolloutPod \in {RolloutNoPod, 0, gs.pin}

\* A revision the user has canceled is not admitted while the cancellation stands, even if
\* it arrives during the pass that admits it or the catalog moves away and back.
CanceledNotPinned ==
    [][(gs'.pin # gs.pin /\ HoldsRollout(gs)) => gs.cancel # gs'.pin]_rolloutVars

\* The first workload of a restored server is rendered from the revision its source ran,
\* never from the newest one of the catalog (planRestoredTemplate, copyRestoredTemplate).
RestoredStartsOnSource ==
    (InitialStartup /\ gs.fromRestore # 0 /\ sts.exists) => sts.revision = gs.fromRestore

\* What keeps a rollout from ending: a spec that cannot be rendered with the admitted
\* revision, or no longer with the pin the server has to stop under; a cancellation of the
\* installed revision that stands before the first pin; content that was lost.
Obstructed ==
    \/ gs.unrenderable # 0 /\ gs.unrenderable \in {gs.token, gs.pin}
    \/ gs.pin = 0 /\ gs.cancel # 0 /\ gs.cancel = rolloutInstalled
    \/ gs.token \notin snapshots

=============================================================================
