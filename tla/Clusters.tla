------------------------------- MODULE Clusters -------------------------------
(*****************************************************************************)
(* Remote clusters: their registration, their clients and their health. The  *)
(* parts share no state; each has its own initial states and steps.          *)
(*****************************************************************************)
EXTENDS Naturals, FiniteSets

(***************************************************************************)
(* Registering, re-keying and removing one remote cluster                  *)
(* (api/internal/handlers/clusters*.go) and the registry of clients the    *)
(* API dispatches through (api/internal/kube).  The registration points to *)
(* its credentials by name; credentials are published before the pointer   *)
(* moves and retired after it moved, by requests that overlap.             *)
(*                                                                         *)
(* On Kubernetes a secret and a registration are two writes; a standalone  *)
(* panel commits them together.  Names: 0 is the fixed name a POST uses, n *)
(* the name ending in the n-th nonce.  A credential's identity is its uid. *)
(***************************************************************************)
CONSTANTS ClusterMaxUid,        \* bound on registrations
          MaxId,                \* bound on credentials
          ClusterConcurrency,   \* requests in flight
          AdoptsRetiring,       \* may a POST adopt a credential that is being retired?
          DeletesOverlap        \* may a DELETE begin while another is under way?

VARIABLES
    standalone,      \* which management backend
    cluster,         \* the registration: uid (0 = none) and its two pointers
    secrets,         \* the stored credentials
    uidsUsed,        \* registrations made so far
    idsUsed,         \* credentials made so far
    requests,        \* requests in flight
    untidy,          \* did an answer get lost or a cleanup fail?
    clusterClient,   \* the registry's client: registration uid and credential name
    loading,         \* the credential load that holds the name's sequence
    forgotten,       \* uids whose DELETE has dropped the client
    departed         \* uids whose deletion the cluster watch has yet to see

storeVars == <<cluster, secrets, uidsUsed, idsUsed>>
clusterRegistryVars == <<clusterClient, loading, forgotten, departed>>
clusterVars == <<standalone, storeVars, requests, untidy, clusterRegistryVars>>

Slots == {"kubeconfig", "gateway"}
Names == 0..MaxId
ClusterKinds == {"create", "delete", "kubeconfig", "gateway", "removeGateway"}

NoCluster == [uid |-> 0, kubeconfig |-> {}, gateway |-> {}]
ClusterNoClient == [uid |-> 0, name |-> 0]
NoLoad == [at |-> "idle", uid |-> 0, name |-> 0, valid |-> FALSE]

ClusterTypeOK ==
    /\ standalone \in BOOLEAN /\ untidy \in BOOLEAN
    /\ cluster.uid \in 0..ClusterMaxUid
    /\ \A s \in Slots : cluster[s] \subseteq Names /\ Cardinality(cluster[s]) < 2
    /\ secrets \subseteq [slot: Slots, name: Names, id: 1..MaxId]
    /\ uidsUsed \in 0..ClusterMaxUid /\ idsUsed \in 0..MaxId
    /\ requests \subseteq [kind: ClusterKinds,
                           at: {"published", "failed", "discard", "pointed", "read", "deleted",
                                "dropped", "gatewayDone", "retire"},
                           uid: 0..ClusterMaxUid, old: SUBSET Names, new: 0..MaxId,
                           pinned: SUBSET [slot: Slots, name: Names, id: 1..MaxId]]
    /\ clusterClient \in [uid: 0..ClusterMaxUid, name: Names]
    /\ loading \in [at: {"idle", "listed", "loading", "loaded", "missing", "checked",
                         "unusable", "evicting"},
                    uid: 0..ClusterMaxUid, name: Names, valid: BOOLEAN]
    /\ forgotten \subseteq 1..ClusterMaxUid /\ departed \subseteq 1..ClusterMaxUid

ClusterInit ==
    /\ standalone \in BOOLEAN
    /\ cluster = NoCluster /\ secrets = {} /\ uidsUsed = 0 /\ idsUsed = 0
    /\ requests = {} /\ untidy = FALSE
    /\ clusterClient = ClusterNoClient /\ loading = NoLoad /\ forgotten = {} /\ departed = {}

-----------------------------------------------------------------------------
(* The stores. *)

Room == Cardinality(requests) < ClusterConcurrency
ClusterStored(slot, names) == {s \in secrets : s.slot = slot /\ s.name \in names}
Begins(r) == requests' = requests \cup {r}
ClusterTurns(r, at) == requests' = (requests \ {r}) \cup {[r EXCEPT !.at = at]}
Finishes(r) == requests' = requests \ {r}
ClusterRequest(kind, at) == [kind |-> kind, at |-> at, uid |-> cluster.uid, old |-> {}, pinned |-> {},
                             new |-> 0]

\* A new credential; its name is the fixed one or a nonce.
Publishes(slot, fixed) ==
    /\ idsUsed < MaxId /\ idsUsed' = idsUsed + 1
    /\ secrets' = secrets \cup {[slot |-> slot, name |-> IF fixed THEN 0 ELSE idsUsed + 1,
                                 id |-> idsUsed + 1]}

Registers == /\ uidsUsed < ClusterMaxUid /\ uidsUsed' = uidsUsed + 1
             /\ cluster' = [uid |-> uidsUsed + 1, kubeconfig |-> {0}, gateway |-> {}]

\* Deleting with the identity as a precondition: a replacement survives.
Retires(set, ok) == secrets' = IF ok THEN secrets \ set ELSE secrets

-----------------------------------------------------------------------------
(* The registry's map of clients.  Dropping one invalidates the load in    *)
(* progress unless the entry belongs to a newer registration.              *)
DropClient(uid) ==
    IF clusterClient = ClusterNoClient \/ clusterClient.uid = uid
    THEN /\ clusterClient' = ClusterNoClient
         /\ loading' = IF loading.at \in {"idle", "listed"} THEN loading
                       ELSE [loading EXCEPT !.valid = FALSE]
    ELSE UNCHANGED <<clusterClient, loading>>

RemoveIfUID(uid) == DropClient(uid)

-----------------------------------------------------------------------------
(* POST /clusters. *)

\* Identities some request has pinned and will delete.
Retiring == UNION {r.pinned : r \in requests}

\* The standalone registrar: one transaction; the exact leftover of an earlier
\* POST is adopted as it is.
RegisterCluster ==
    /\ standalone /\ cluster = NoCluster
    /\ LET left == ClusterStored("kubeconfig", {0}) IN
         IF left = {} THEN Publishes("kubeconfig", TRUE)
         ELSE /\ AdoptsRetiring \/ left \cap Retiring = {}
              /\ UNCHANGED <<secrets, idsUsed>>
    /\ Registers
    /\ UNCHANGED <<standalone, requests, untidy, clusterRegistryVars>>

CreateSecretFirst ==
    /\ ~standalone /\ Room /\ ClusterStored("kubeconfig", {0}) = {}
    /\ Publishes("kubeconfig", TRUE)
    /\ Begins([ClusterRequest("create", "published") EXCEPT
                 !.new = idsUsed + 1,
                 !.pinned = {[slot |-> "kubeconfig", name |-> 0, id |-> idsUsed + 1]}])
    /\ UNCHANGED <<standalone, cluster, uidsUsed, untidy, clusterRegistryVars>>

\* The registration is written, its answer possibly lost; or the write is refused.
CreateRegistration(r) ==
    /\ r.kind = "create" /\ r.at = "published"
    /\ \/ /\ cluster = NoCluster /\ Registers
          /\ \/ Finishes(r) /\ UNCHANGED untidy
             \/ ClusterTurns(r, "failed") /\ untidy' = TRUE
       \/ ClusterTurns(r, "failed") /\ UNCHANGED <<cluster, uidsUsed, untidy>>
    /\ UNCHANGED <<standalone, secrets, idsUsed, clusterRegistryVars>>

-----------------------------------------------------------------------------
(* PUT kubeconfig, PUT gateway, DELETE gateway. *)

Slot(r) == IF r.kind \in {"kubeconfig", "create"} THEN "kubeconfig" ELSE "gateway"
Wanted(r) == IF r.kind = "create" THEN {0} ELSE {r.new}

\* The old credential's identity is captured before the new one is published.
ReplaceKubeconfig ==
    /\ Room /\ cluster # NoCluster /\ Publishes("kubeconfig", FALSE)
    /\ Begins([ClusterRequest("kubeconfig", "published") EXCEPT
                 !.new = idsUsed + 1, !.old = cluster.kubeconfig,
                 !.pinned = ClusterStored("kubeconfig", cluster.kubeconfig)])
    /\ UNCHANGED <<standalone, cluster, uidsUsed, untidy, clusterRegistryVars>>

ConfigureGateway ==
    /\ Room /\ cluster # NoCluster /\ Publishes("gateway", FALSE)
    /\ Begins([ClusterRequest("gateway", "published") EXCEPT
                 !.new = idsUsed + 1, !.old = cluster.gateway])
    /\ UNCHANGED <<standalone, cluster, uidsUsed, untidy, clusterRegistryVars>>

RemoveGateway ==
    /\ Room /\ cluster.gateway # {}
    /\ Begins([ClusterRequest("removeGateway", "published") EXCEPT !.old = cluster.gateway])
    /\ UNCHANGED <<standalone, storeVars, untidy, clusterRegistryVars>>

\* The pointer moves only on the registration, and from the value, that was read.
PointerAsRead(r) == cluster.uid = r.uid /\ cluster[Slot(r)] = r.old

\* A pointer that gains a name instead of moving to it.
UpdatedBeside(r, names) ==
    /\ cluster' = [cluster EXCEPT ![Slot(r)] = @ \cup names]
    /\ ClusterTurns(r, "pointed") /\ UNCHANGED untidy
Updated(r, names) ==
    /\ cluster' = [cluster EXCEPT ![Slot(r)] = names]
    /\ \/ ClusterTurns(r, "pointed") /\ UNCHANGED untidy
       \/ ClusterTurns(r, "failed") /\ untidy' = TRUE

UpdateKubeconfigRegistration(r) ==
    /\ r.kind = "kubeconfig" /\ r.at = "published"
    /\ IF PointerAsRead(r) THEN Updated(r, {r.new})
       ELSE ClusterTurns(r, "failed") /\ UNCHANGED <<cluster, untidy>>
    /\ UNCHANGED <<standalone, secrets, uidsUsed, idsUsed, clusterRegistryVars>>

UpdateGatewayRegistration(r) ==
    /\ r.kind \in {"gateway", "removeGateway"} /\ r.at = "published"
    /\ IF PointerAsRead(r) THEN Updated(r, IF r.kind = "gateway" THEN {r.new} ELSE {})
       ELSE ClusterTurns(r, "failed") /\ UNCHANGED <<cluster, untidy>>
    /\ UNCHANGED <<standalone, secrets, uidsUsed, idsUsed, clusterRegistryVars>>

\* Variant: a failed request discards what it published without looking at the live pointer.
DiscardAlways(r) ==
    /\ r.at = "failed"
    /\ ClusterTurns(r, "discard")
    /\ UNCHANGED <<standalone, storeVars, untidy, clusterRegistryVars>>

\* A failed request re-reads the pointer: what may be live is kept, and the old
\* client is dropped.  The read itself may fail.
InspectFailure(r) ==
    /\ r.at = "failed"
    /\ \/ /\ r.kind # "removeGateway"
          /\ cluster = NoCluster \/ cluster[Slot(r)] # Wanted(r)
          /\ ClusterTurns(r, "discard") /\ UNCHANGED <<untidy, clusterClient, loading>>
       \/ /\ r.kind # "removeGateway" => cluster[Slot(r)] = Wanted(r)
          /\ Finishes(r) /\ UNCHANGED untidy
          /\ IF r.kind = "kubeconfig" THEN RemoveIfUID(r.uid) ELSE UNCHANGED <<clusterClient, loading>>
       \/ /\ r.kind # "removeGateway" /\ untidy' = TRUE /\ Finishes(r)
          /\ IF r.kind = "kubeconfig" THEN RemoveIfUID(r.uid) ELSE UNCHANGED <<clusterClient, loading>>
    /\ UNCHANGED <<standalone, storeVars, forgotten, departed>>

DiscardPublished(r) ==
    /\ r.at = "discard"
    /\ \E ok \in BOOLEAN :
         /\ Retires(IF r.kind = "create" THEN r.pinned ELSE ClusterStored(Slot(r), {r.new}), ok)
         /\ untidy' = (untidy \/ ~ok)
    /\ Finishes(r)
    /\ UNCHANGED <<standalone, cluster, uidsUsed, idsUsed, clusterRegistryVars>>

\* Once the pointer moved the old client is dropped, and then the old credential.
DropReplaced(r) ==
    /\ r.at = "pointed"
    /\ IF r.kind = "kubeconfig" THEN RemoveIfUID(r.uid) ELSE UNCHANGED <<clusterClient, loading>>
    /\ ClusterTurns(r, "retire")
    /\ UNCHANGED <<standalone, storeVars, untidy, forgotten, departed>>

RetireReplaced(r) ==
    /\ r.at = "retire"
    /\ \E ok \in BOOLEAN :
         /\ Retires(IF r.kind = "kubeconfig" THEN r.pinned ELSE ClusterStored("gateway", r.old), ok)
         /\ untidy' = (untidy \/ ~ok)
    /\ Finishes(r)
    /\ UNCHANGED <<standalone, cluster, uidsUsed, idsUsed, clusterRegistryVars>>

-----------------------------------------------------------------------------
(* DELETE /clusters/{name}. *)

ReadForDeletion ==
    /\ Room /\ cluster # NoCluster
    /\ DeletesOverlap \/ \A r \in requests : r.kind # "delete"
    /\ Begins(ClusterRequest("delete", "read"))
    /\ UNCHANGED <<standalone, storeVars, untidy, clusterRegistryVars>>

\* Credential and registration are pinned by one conditional delete.
DeleteRegistration(r) ==
    /\ r.kind = "delete" /\ r.at = "read"
    /\ IF cluster.uid = r.uid
       THEN /\ requests' = (requests \ {r}) \cup
                   {[r EXCEPT !.at = "deleted", !.old = cluster.gateway,
                              !.pinned = ClusterStored("kubeconfig", cluster.kubeconfig)]}
            /\ cluster' = NoCluster
            /\ departed' = IF standalone THEN departed ELSE departed \cup {r.uid}
       ELSE Finishes(r) /\ UNCHANGED <<cluster, departed>>
    /\ UNCHANGED <<standalone, secrets, uidsUsed, idsUsed, untidy, clusterClient, loading, forgotten>>

DropDeleted(r) ==
    /\ r.at = "deleted"
    /\ RemoveIfUID(r.uid)
    /\ forgotten' = forgotten \cup {r.uid}
    /\ ClusterTurns(r, "dropped")
    /\ UNCHANGED <<standalone, storeVars, untidy, departed>>

\* The two credentials of a deleted registration, each with a budget of its own.
CleanupDeleted(r) ==
    /\ r.kind = "delete"
    /\ \/ r.at = "dropped" /\ ClusterTurns(r, "gatewayDone")
       \/ r.at = "gatewayDone" /\ Finishes(r)
    /\ \E ok \in BOOLEAN :
         /\ Retires(IF r.at = "dropped" THEN ClusterStored("gateway", r.old) ELSE r.pinned, ok)
         /\ untidy' = (untidy \/ ~ok)
    /\ UNCHANGED <<standalone, cluster, uidsUsed, idsUsed, clusterRegistryVars>>

-----------------------------------------------------------------------------
(* Loading the client: one load at a time per name.  On Kubernetes the     *)
(* watch (or a refresh) takes the sequence first; the standalone poll lists *)
(* the registrations first and takes it afterwards.                        *)

ClusterName(c) == CHOOSE n \in c.kubeconfig : TRUE
ClusterIdentity == IF cluster = NoCluster THEN ClusterNoClient ELSE [uid |-> cluster.uid,
                                                                     name |-> ClusterName(cluster)]
LoadIdentity == [uid |-> loading.uid, name |-> loading.name]
EpochHolds == loading.valid
LoadTurns(at) == loading' = [loading EXCEPT !.at = at]

BeginLoad ==
    /\ loading = NoLoad /\ cluster # NoCluster
    /\ loading' = [at |-> IF standalone THEN "listed" ELSE "loading", uid |-> cluster.uid,
                   name |-> ClusterName(cluster), valid |-> ~standalone]
    /\ UNCHANGED <<standalone, storeVars, requests, untidy, clusterClient, forgotten, departed>>

BeginOperation ==
    /\ loading.at = "listed"
    /\ loading' = [loading EXCEPT !.at = "loading", !.valid = TRUE]
    /\ UNCHANGED <<standalone, storeVars, requests, untidy, clusterClient, forgotten, departed>>

\* Variant: a load that fails keeps its sequence.
ClientOrHold ==
    /\ loading.at = "loading"
    /\ \/ ClusterStored("kubeconfig", {loading.name}) # {} /\ LoadTurns("loaded")
       \/ ClusterStored("kubeconfig", {loading.name}) = {} /\ standalone /\ LoadTurns("missing")
    /\ UNCHANGED <<standalone, storeVars, requests, untidy, clusterClient, forgotten, departed>>

\* A missing credential ends a watch's load; the poll goes on without a client.
ClientFromSecret ==
    /\ loading.at = "loading"
    /\ \/ ClusterStored("kubeconfig", {loading.name}) # {} /\ LoadTurns("loaded")
       \/ /\ ClusterStored("kubeconfig", {loading.name}) = {}
          /\ IF standalone THEN LoadTurns("missing") ELSE loading' = NoLoad
    /\ UNCHANGED <<standalone, storeVars, requests, untidy, clusterClient, forgotten, departed>>

RecheckRegistration ==
    /\ loading.at \in {"loaded", "missing"}
    /\ IF ClusterIdentity = LoadIdentity
       THEN LoadTurns(IF loading.at = "loaded" THEN "checked" ELSE "unusable")
       ELSE loading' = NoLoad
    /\ UNCHANGED <<standalone, storeVars, requests, untidy, clusterClient, forgotten, departed>>

PublishClient ==
    /\ loading.at \in {"checked", "unusable", "evicting"}
    /\ clusterClient' = IF ~EpochHolds THEN clusterClient
                        ELSE IF loading.at = "checked" THEN LoadIdentity ELSE ClusterNoClient
    /\ loading' = NoLoad
    /\ UNCHANGED <<standalone, storeVars, requests, untidy, forgotten, departed>>

\* After a poll, names that are no longer registered are evicted.
BeginEviction ==
    /\ standalone /\ loading = NoLoad /\ clusterClient # ClusterNoClient /\ cluster = NoCluster
    /\ loading' = [NoLoad EXCEPT !.at = "evicting", !.valid = TRUE]
    /\ UNCHANGED <<standalone, storeVars, requests, untidy, clusterClient, forgotten, departed>>

\* The watch delivers a deletion between two loads.
WatchSeesDeletion ==
    /\ loading = NoLoad
    /\ \E uid \in departed : RemoveIfUID(uid) /\ departed' = departed \ {uid}
    /\ UNCHANGED <<standalone, storeVars, requests, untidy, forgotten>>

RequestStep ==
    \E r \in requests : \/ CreateRegistration(r)
                        \/ UpdateKubeconfigRegistration(r) \/ UpdateGatewayRegistration(r)
                        \/ InspectFailure(r) \/ DiscardPublished(r)
                        \/ DropReplaced(r) \/ RetireReplaced(r)
                        \/ DeleteRegistration(r) \/ DropDeleted(r) \/ CleanupDeleted(r)
LoadStep == \/ BeginLoad \/ BeginOperation \/ ClientFromSecret \/ RecheckRegistration
            \/ PublishClient \/ BeginEviction

ClusterNext ==
    \/ RegisterCluster \/ CreateSecretFirst
    \/ ReplaceKubeconfig \/ ConfigureGateway \/ RemoveGateway \/ ReadForDeletion
    \/ RequestStep \/ LoadStep \/ WatchSeesDeletion

-----------------------------------------------------------------------------
(* clusters_kubeconfig.go, clusters_gateway.go: whatever requests overlap, *)
(* fail or lose their answers, a credential the registration points to is  *)
(* stored.                                                                 *)
PointedCredentialExists ==
    \A s \in Slots, n \in Names : n \in cluster[s] => ClusterStored(s, {n}) # {}

(* registerKubernetesCluster, replaceKubeconfig, configureGateway: once    *)
(* all requests are answered, unless an answer was lost or a cleanup       *)
(* failed, no credential is left that nothing points to.                   *)
NoStrandedCredential ==
    requests = {} /\ ~untidy => \A s \in secrets : s.name \in cluster[s.slot]

(* registry.go: no load that was under way when DELETE dropped the client  *)
(* puts it back.                                                           *)
ForgottenStaysForgotten == clusterClient.uid \notin forgotten

-----------------------------------------------------------------------------
(***************************************************************************)
(* The operator's health check of a registered cluster: read the Cluster,  *)
(* read the kubeconfig Secret it points to, ask the remote API server for  *)
(* its version, write the verdict.  The Secret is not watched and status   *)
(* writes bring no pass, so a two-minute timer is all that notices a       *)
(* repaired credential or a remote server that went away.                  *)
(***************************************************************************)
CONSTANTS Generations   \* bound: generations of the Cluster's spec, each with its own Secret

VARIABLES
    generation,             \* the Cluster's generation
    generationSeen,         \* the operator's cached Cluster
    credentialOf,           \* generation -> its Secret: "missing", "unlabelled", "keyless", "garbled" or
                            \* "good"
    remoteUp,               \* the remote API server answers
    clusterHealthVerdict,   \* status: phase and observedGeneration
    probing,                \* the pass: the generation it read (0: none), and how the check went so far
    checkDue,               \* a watch event, the timer or a retry asks for a pass
    checkedAs,              \* generation whose credential the written verdict really judged (history)
    healthSettled           \* nothing changes from outside any more
clusterHealthVars == <<generation, generationSeen, credentialOf, remoteUp, clusterHealthVerdict, probing,
                       checkDue, checkedAs, healthSettled>>

Credentials == {"missing", "unlabelled", "keyless", "garbled", "good"}
Verdict == [phase : {"none", "healthy", "unhealthy"}, observed : 0..Generations]
NoProbe == [of |-> 0, result |-> "none"]
ClusterHealthTypeOK ==
    /\ generation \in 1..Generations /\ generationSeen \in 1..Generations
    /\ credentialOf \in [1..Generations -> Credentials] /\ remoteUp \in BOOLEAN
    /\ clusterHealthVerdict \in Verdict
    /\ probing \in [of : 0..Generations, result : {"none", "dial", "healthy", "unhealthy"}]
    /\ checkDue \in BOOLEAN /\ checkedAs \in 0..Generations /\ healthSettled \in BOOLEAN

ClusterHealthInit ==
    /\ generation = 1 /\ generationSeen = 1 /\ credentialOf \in [1..Generations -> {"missing", "good"}]
    /\ remoteUp = TRUE /\ clusterHealthVerdict = [phase |-> "none", observed |-> 0] /\ probing = NoProbe
    /\ checkDue = TRUE /\ checkedAs = 0 /\ healthSettled = FALSE

-----------------------------------------------------------------------------
(* Administrators, the remote cluster, the watch and the timer.            *)

ClusterChanges ==
    /\ ~healthSettled /\ UNCHANGED <<generationSeen, clusterHealthVerdict, probing, checkDue, checkedAs>>
    /\ \/ generation < Generations /\ generation' = generation + 1
          /\ UNCHANGED <<credentialOf, remoteUp, healthSettled>>
       \/ /\ \E c \in Credentials \ {credentialOf[generation]} : credentialOf' = [credentialOf EXCEPT ![generation] = c]
          /\ UNCHANGED <<generation, remoteUp, healthSettled>>
       \/ remoteUp' = ~remoteUp /\ UNCHANGED <<generation, credentialOf, healthSettled>>
       \/ healthSettled' = TRUE /\ UNCHANGED <<generation, credentialOf, remoteUp>>
ClusterSynced ==
    /\ generationSeen # generation /\ generationSeen' = generation /\ checkDue' = TRUE
    /\ UNCHANGED <<generation, credentialOf, remoteUp, clusterHealthVerdict, probing, checkedAs,
                   healthSettled>>
RecheckTimer == probing = NoProbe
ClusterHealthTimerFires ==
    /\ RecheckTimer /\ ~checkDue /\ checkDue' = TRUE
    /\ UNCHANGED <<generation, generationSeen, credentialOf, remoteUp, clusterHealthVerdict, probing,
                   checkedAs, healthSettled>>

-----------------------------------------------------------------------------
(* One check.                                                              *)

ClusterHealthWorld == <<generation, generationSeen, credentialOf, remoteUp, healthSettled>>
\* A Secret that is missing, unlabelled, without the key or unparsable is a verdict; a good one is dialled.
ReadCredential ==
    /\ checkDue /\ probing = NoProbe /\ checkDue' = FALSE
    /\ probing' = [of |-> generationSeen,
                   result |-> IF credentialOf[generationSeen] = "good" THEN "dial" ELSE "unhealthy"]
    /\ UNCHANGED <<ClusterHealthWorld, clusterHealthVerdict, checkedAs>>
AskVersion ==
    /\ probing.result = "dial"
    /\ probing' = [probing EXCEPT !.result = IF remoteUp THEN "healthy" ELSE "unhealthy"]
    /\ UNCHANGED <<ClusterHealthWorld, clusterHealthVerdict, checkDue, checkedAs>>
\* markHealthy and markUnhealthy: the whole status, refused when the Cluster has changed; a refusal is
\* retried.
WriteChecked ==
    IF probing.of = generation
    THEN /\ clusterHealthVerdict' = [phase |-> probing.result, observed |-> probing.of] /\ checkedAs' = probing.of
         /\ UNCHANGED checkDue
    ELSE checkDue' = TRUE /\ UNCHANGED <<clusterHealthVerdict, checkedAs>>
WriteVerdict ==
    /\ probing.result \in {"healthy", "unhealthy"} /\ probing' = NoProbe /\ WriteChecked
    /\ UNCHANGED ClusterHealthWorld

CheckStep == ReadCredential \/ AskVersion \/ WriteVerdict
ClusterHealthNext == ClusterChanges \/ ClusterSynced \/ ClusterHealthTimerFires \/ CheckStep

-----------------------------------------------------------------------------
(* Properties.                                                             *)

\* A verdict that names a generation judged that generation's credential, not the one a slow check
\* had read before the registration was edited.
VerdictIsAboutObserved == clusterHealthVerdict.observed = checkedAs

\* The status comes to say whether the cluster can be reached with its current credential, although
\* neither the Secret nor the remote server announces a change.
Reachable == credentialOf[generation] = "good" /\ remoteUp
=============================================================================
