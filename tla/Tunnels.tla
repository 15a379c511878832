------------------------------- MODULE Tunnels --------------------------------
(*****************************************************************************)
(* Tunnels: the relay of a server and the credentials it reads. The parts    *)
(* share no state; each has its own initial states and steps.                *)
(*****************************************************************************)
EXTENDS Naturals, Sequences

(***************************************************************************)
(* The tunnel of a game server as the operator runs it: RBAC for playit,   *)
(* the relay Deployment with its credential, the egress policy and the     *)
(* TunnelReady condition with the endpoints advertised.  The deployment    *)
(* controller and the relay pod are the environment.                       *)
(***************************************************************************)
CONSTANTS TunnelKinds,   \* providers the spec may name; "tags" is tailscale with invalid tags
          TunnelEdits    \* bound: edits of the spec and of the Secret's owner

VARIABLES
    tunnelWanted,       \* spec.networking.tunnel: the provider, "none" when disabled
    tunnelCredential,   \* the credential Secret: "owned" by the server, "foreign" or "missing"
    tunnelEdits,
    identity,           \* the playit ServiceAccount, Role and RoleBinding exist
    policy,             \* the tunnel-egress NetworkPolicy exists
    deployment,         \* the relay Deployment: pod template and replicas
    rollout,            \* its status: observed the current template, pods updated, ready pod's provider
    relay,              \* the relay pod: its template, and whether it is ready
    assigned,           \* status.tunnelEndpoints, reported by playit: "none", "valid" or "invalid"
    tunnelReady,        \* reason of the TunnelReady condition
    endpoints,          \* status.endpoints: providers of tunnel endpoints, then "service"
    serviceSeen,        \* the game Service is in the operator's cache
    tunnelPass          \* the pass under way: the provider it read and its next step
environ == <<tunnelWanted, tunnelCredential, tunnelEdits>>
tunnelVars == <<environ, identity, policy, deployment, rollout, relay, assigned, tunnelReady, endpoints,
                serviceSeen, tunnelPass>>

RelayTemplate == [provider: {"frp", "tailscale", "playit"}, mounts: BOOLEAN, account: BOOLEAN]
NoDeployment == [provider |-> "none", mounts |-> FALSE, account |-> FALSE, replicas |-> 0]
NoRollout == [current |-> FALSE, updated |-> FALSE, ready |-> "none"]
NoRelay == [provider |-> "none", mounts |-> FALSE, account |-> FALSE, ready |-> FALSE]
NoTunnelPass == [at |-> "none", provider |-> "none"]
TemplateOf(d) == [provider |-> d.provider, mounts |-> d.mounts, account |-> d.account]

TunnelTypeOK ==
    /\ tunnelWanted \in TunnelKinds \union {"none"} /\ tunnelCredential \in {"owned", "foreign", "missing"}
    /\ deployment # NoDeployment => TemplateOf(deployment) \in RelayTemplate /\ deployment.replicas \in 0..1
    /\ relay # NoRelay => TemplateOf(relay) \in RelayTemplate
    /\ tunnelReady \in {"none", "Ready", "TunnelCredentialRefused", "InvalidTailscaleTags",
                        "DeploymentNotReady",
                        "RelayConnectionUnknown", "AwaitingAddress"}
    /\ endpoints \in UNION {[1..n -> {"frp", "tailscale", "playit", "service"}] : n \in 0..3}
    /\ tunnelPass.at \in {"none", "relay", "report"}

TunnelInit ==
    /\ tunnelWanted = "none" /\ tunnelCredential = "owned" /\ tunnelEdits = 0 /\ identity = FALSE
    /\ policy = FALSE
    /\ deployment = NoDeployment /\ rollout = NoRollout /\ relay = NoRelay /\ assigned = "none"
    /\ tunnelReady = "none" /\ endpoints = <<>> /\ serviceSeen = FALSE /\ tunnelPass = NoTunnelPass

-----------------------------------------------------------------------------
(* Users, the deployment controller, the relay pod.                        *)

EditTunnel ==
    /\ tunnelEdits < TunnelEdits /\ tunnelEdits' = tunnelEdits + 1
    /\ \/ tunnelWanted' \in (TunnelKinds \union {"none"}) \ {tunnelWanted} /\ UNCHANGED tunnelCredential
       \/ /\ tunnelWanted # "none"
          /\ tunnelCredential' \in {"owned", "foreign", "missing"} \ {tunnelCredential}
          /\ UNCHANGED tunnelWanted
    /\ UNCHANGED <<identity, policy, deployment, rollout, relay, assigned, tunnelReady, endpoints,
                   serviceSeen, tunnelPass>>
RolloutObserved ==
    /\ deployment # NoDeployment
    /\ rollout' = [current |-> TRUE,
                   updated |-> relay # NoRelay /\ TemplateOf(relay) = TemplateOf(deployment),
                   ready |-> IF relay.ready THEN relay.provider ELSE "none"]
    /\ rollout' # rollout
    /\ UNCHANGED <<environ, identity, policy, deployment, relay, assigned, tunnelReady, endpoints,
                   serviceSeen, tunnelPass>>
\* Recreate strategy: the old pod goes before the new one comes.
RelayStops ==
    /\ relay # NoRelay /\ (deployment.replicas = 0 \/ TemplateOf(relay) # TemplateOf(deployment))
    /\ relay' = NoRelay
    /\ UNCHANGED <<environ, identity, policy, deployment, rollout, assigned, tunnelReady, endpoints,
                   serviceSeen, tunnelPass>>
\* A pod that names a ServiceAccount is only admitted while that account exists.
RelayStarts ==
    /\ relay = NoRelay /\ deployment.replicas = 1 /\ (deployment.account => identity)
    /\ relay' = [provider |-> deployment.provider, mounts |-> deployment.mounts,
                 account |-> deployment.account,
                 ready |-> FALSE]
    /\ UNCHANGED <<environ, identity, policy, deployment, rollout, assigned, tunnelReady, endpoints,
                   serviceSeen, tunnelPass>>
\* The relay reaches its provider, with the egress policy in place, or loses the connection.
RelayReadiness ==
    /\ relay # NoRelay /\ (~relay.ready => policy) /\ relay' = [relay EXCEPT !.ready = ~@]
    /\ UNCHANGED <<environ, identity, policy, deployment, rollout, assigned, tunnelReady, endpoints,
                   serviceSeen, tunnelPass>>
\* runPlayitReporter: the address, or its removal, is patched into the status.
PatchTunnelEndpoints ==
    /\ relay.provider = "playit" /\ relay.ready /\ identity
    /\ assigned' \in {"none", "valid", "invalid"} \ {assigned}
    /\ UNCHANGED <<environ, identity, policy, deployment, rollout, relay, tunnelReady, endpoints, serviceSeen,
                   tunnelPass>>
ServiceSynced ==
    /\ ~serviceSeen /\ serviceSeen' = TRUE
    /\ UNCHANGED <<environ, identity, policy, deployment, rollout, relay, assigned, tunnelReady, endpoints,
                   tunnelPass>>

-----------------------------------------------------------------------------
(* The pass.                                                               *)

\* reconcileTunnelRBAC.
ReconcileTunnelRBAC ==
    /\ tunnelPass.at = "none" /\ tunnelPass' = [at |-> "relay", provider |-> tunnelWanted]
    /\ identity' = (tunnelWanted = "playit")
    /\ UNCHANGED <<environ, policy, deployment, rollout, relay, assigned, tunnelReady, endpoints,
                   serviceSeen>>

\* clearTunnelCredentialRefused and setTunnelCredentialRefused, whose patch may fail.
RefusalCleared == tunnelReady' = IF tunnelReady = "TunnelCredentialRefused" THEN "none" ELSE tunnelReady
RefusalReported == tunnelReady' \in {"TunnelCredentialRefused", tunnelReady}
\* The provider's template.  The account is only ever written for playit; a credential is mounted
\* when it is the server's own, and scales the relay to zero when it is someone else's.
Credentialed(d) == [d EXCEPT !.mounts = (tunnelCredential = "owned"),
                    !.replicas = IF tunnelCredential = "foreign" THEN 0 ELSE 1]
RelayDeployment(p) ==
    Credentialed([deployment EXCEPT !.provider = p, !.account = @ \/ p = "playit"])
WriteDeployment(p) ==
    /\ deployment' = RelayDeployment(p)
    /\ rollout' = IF deployment' = deployment THEN rollout ELSE [rollout EXCEPT !.current = FALSE]
DeleteTunnel == deployment' = NoDeployment /\ rollout' = NoRollout
ReconcileTunnelNetworkPolicy(p) == policy' = (p # "none")
\* reconcileTunnel and the egress policy after it.  A refusal ends the pass once the relay without
\* the credential is written.
Relayed(p) == p \notin {"none", "tags"}
Refuses(p) ==
    /\ Relayed(p) /\ tunnelCredential = "foreign" /\ WriteDeployment(p) /\ RefusalReported
    /\ tunnelPass' = NoTunnelPass /\ UNCHANGED policy
ReconcileTunnel ==
    /\ tunnelPass.at = "relay"
    /\ LET p == tunnelPass.provider IN
         \/ Refuses(p)
         \/ /\ \/ ~Relayed(p) /\ DeleteTunnel
               \/ Relayed(p) /\ tunnelCredential # "foreign" /\ WriteDeployment(p)
            /\ ReconcileTunnelNetworkPolicy(p) /\ RefusalCleared
            /\ tunnelPass' = [tunnelPass EXCEPT !.at = "report"]
    /\ UNCHANGED <<environ, identity, relay, assigned, endpoints, serviceSeen>>

\* computeTunnelConditions.
UpToDate == rollout.current /\ rollout.updated
RelayCondition(p) ==
    IF p \in {"frp", "playit"} /\ ~UpToDate THEN "RelayConnectionUnknown"
    ELSE IF p = "playit" THEN IF assigned = "none" THEN "AwaitingAddress" ELSE "RelayConnectionUnknown"
    ELSE IF rollout.ready = "none" \/ ~UpToDate THEN "DeploymentNotReady"
    ELSE "Ready"
TunnelCondition(p) ==
    IF p = "none" THEN "none"
    ELSE IF p = "tags" THEN "InvalidTailscaleTags"
    ELSE IF deployment = NoDeployment THEN "DeploymentNotReady"
    ELSE RelayCondition(p)
\* validatePlayitEndpoints keeps what playit reported only if it is valid.
ValidPlayitEndpoints == IF assigned = "valid" THEN <<"playit">> ELSE <<>>
\* planTunnel.
PlanTunnel(p) ==
    IF p = "none" THEN <<>> ELSE IF p = "tags" THEN <<"tailscale">>
    ELSE IF p = "playit" THEN ValidPlayitEndpoints ELSE <<p>>
\* Without a Service, earlier endpoints other than tailscale's are kept; tailscale's own are
\* advertised only when ready.
TunnelRetained == IF serviceSeen THEN <<"service">> ELSE SelectSeq(endpoints, LAMBDA e : e # "tailscale")
EndpointsFor(p, condition) ==
    (IF p \in {"tailscale", "tags"} /\ condition # "Ready" THEN <<>> ELSE PlanTunnel(p)) \o TunnelRetained
\* reconcileStatus.  (Without a Service the list grows with each pass; the bound stops the model.)
ReportTunnel ==
    /\ tunnelPass.at = "report" /\ tunnelPass' = NoTunnelPass
    /\ LET c == TunnelCondition(tunnelPass.provider)
       IN  /\ tunnelReady' = c /\ endpoints' = EndpointsFor(tunnelPass.provider, c)
           /\ Len(endpoints') <= 3
    /\ UNCHANGED <<environ, identity, policy, deployment, rollout, relay, assigned, serviceSeen>>
TunnelPassFails ==
    /\ tunnelPass.at # "none" /\ tunnelPass' = NoTunnelPass
    /\ UNCHANGED <<environ, identity, policy, deployment, rollout, relay, assigned, tunnelReady, endpoints,
                   serviceSeen>>

TunnelNext ==
    \/ EditTunnel \/ RolloutObserved \/ RelayStops \/ RelayStarts \/ RelayReadiness \/ PatchTunnelEndpoints
    \/ ServiceSynced \/ ReconcileTunnelRBAC \/ ReconcileTunnel \/ ReportTunnel \/ TunnelPassFails

-----------------------------------------------------------------------------
(* Properties.                                                             *)

\* A tunnel is reported ready only on account of a pod of the provider in force: pods of an earlier
\* configuration that still count in the Deployment's status do not make it ready.
ReadyCountsCurrentRelay ==
    [][tunnelReady' = "Ready" /\ tunnelReady # "Ready" =>
         rollout.ready = tunnelPass.provider /\ deployment.provider = tunnelPass.provider]_tunnelVars

\* A tailnet address is advertised only with a tunnel that the same report calls ready; only a
\* refusal, which ends the pass, may leave it behind.
TailnetOnlyWhenReady ==
    (\E i \in DOMAIN endpoints : endpoints[i] = "tailscale")
        => tunnelReady \in {"Ready", "TunnelCredentialRefused", "none"}

-----------------------------------------------------------------------------
(***************************************************************************)
(* The credentials of a server's tunnel.  One Secret holds the keys of the *)
(* providers; the GameServer names the active provider and refers to the   *)
(* Secret.  Storing a credential, removing it and switching the provider   *)
(* are separate requests of several writes each, all conditioned on the    *)
(* objects they read.                                                      *)
(***************************************************************************)
CONSTANTS Providers,       \* tunnelProviderOrder
          CredRequests,    \* bound: requests running at once
          SwitchOverlaps   \* a provider switch may land while a credential request is under way

VARIABLES
    tunnel,     \* the GameServer's spec: [provider, enabled, ref]
    keys,       \* the Secret: set of providers whose key it holds
    stored,     \* the Secret exists
    credAsked   \* requests under way (see CredRequest)
credVars == <<tunnel, keys, stored, credAsked>>

\* active: the provider read from the spec; gsFresh, secFresh: GameServer and Secret have not changed since
\* they were read.
CredRequest == [id : 1..CredRequests, kind : {"put", "delete", "switch"}, provider : Providers,
                active : Providers,
                stage : {"create", "readSecret", "patchSecret", "patchServer", "deleteSecret", "prune"},
                gsFresh : BOOLEAN, secFresh : BOOLEAN, found : BOOLEAN]
CredTypeOK ==
    /\ tunnel \in [provider : Providers, enabled : BOOLEAN, ref : BOOLEAN]
    /\ keys \subseteq Providers /\ stored \in BOOLEAN /\ (~stored => keys = {})
    /\ credAsked \subseteq CredRequest /\ \A q, r \in credAsked : q.id = r.id => q = r

CredInit ==
    /\ \E p \in Providers : tunnel = [provider |-> p, enabled |-> FALSE, ref |-> FALSE]
    /\ keys = {} /\ stored = FALSE /\ credAsked = {}

GsChanges(rs) == {[r EXCEPT !.gsFresh = FALSE] : r \in rs}
SecretChanges(rs) == {[r EXCEPT !.secFresh = FALSE] : r \in rs}
Drop(r) == credAsked' = credAsked \ {r}
Follows(r, q) == credAsked' = (credAsked \ {r}) \cup {q}
Unused == (1..CredRequests) \ {r.id : r \in credAsked}
Arrives(kind, provider, stage) ==
    /\ Unused # {}
    /\ credAsked' = credAsked \cup {[id |-> CHOOSE i \in Unused : \A j \in Unused : i <= j, kind |-> kind,
                                     provider |-> provider,
                                     active |-> tunnel.provider, stage |-> stage, gsFresh |-> TRUE,
                                      secFresh |-> TRUE, found |-> tunnel.ref]}

-----------------------------------------------------------------------------
(* PUT: the Secret first, then the reference.                              *)

BeginPut(p) == Arrives("put", p, "create") /\ UNCHANGED <<tunnel, keys, stored>>
CredCreateSecret(r) ==
    /\ r.kind = "put" /\ r.stage = "create" /\ UNCHANGED tunnel
    /\ IF stored THEN Follows(r, [r EXCEPT !.stage = "patchSecret", !.secFresh = TRUE]) /\ UNCHANGED <<keys, stored>>
       ELSE /\ stored' = TRUE /\ keys' = {r.provider}
            /\ credAsked' = SecretChanges(credAsked \ {r}) \cup {[r EXCEPT !.stage = "patchServer"]}
\* The keys of every provider that is neither the one set nor the active one are removed.
TunnelCredentialPatch(provider, active) == keys \cap {provider, active}
PatchSecret(r) ==
    /\ r.kind = "put" /\ r.stage = "patchSecret" /\ UNCHANGED <<tunnel, stored>>
    /\ IF stored /\ r.secFresh
       THEN /\ keys' = TunnelCredentialPatch(r.provider, r.active) \cup {r.provider}
            /\ credAsked' = SecretChanges(credAsked \ {r}) \cup {[r EXCEPT !.stage = "patchServer"]}
       ELSE Drop(r) /\ UNCHANGED keys
\* patchAuthorizedServer: a conflict ends the request, whose Secret write stays.
PatchAuthorizedServer(r) ==
    /\ r.kind = "put" /\ r.stage = "patchServer" /\ UNCHANGED <<keys, stored>>
    /\ IF r.gsFresh THEN tunnel' = [tunnel EXCEPT !.ref = TRUE] /\ credAsked' = GsChanges(credAsked \ {r})
       ELSE Drop(r) /\ UNCHANGED tunnel

-----------------------------------------------------------------------------
(* DELETE: refused while the tunnel is enabled; the reference first.       *)

CredBeginDelete == ~tunnel.enabled /\ Arrives("delete", tunnel.provider,
                                              "readSecret") /\ UNCHANGED <<tunnel, keys, stored>>
\* found: the server as read referred to a Secret, and it exists.
ReadReferenced(r) ==
    /\ r.stage = "readSecret" /\ UNCHANGED <<tunnel, keys, stored>>
    /\ Follows(r, [r EXCEPT !.stage = "patchServer", !.secFresh = TRUE, !.found = @ /\ stored])
ClearReference(r) ==
    /\ r.kind = "delete" /\ r.stage = "patchServer" /\ UNCHANGED <<keys, stored>>
    /\ IF r.gsFresh
       THEN /\ tunnel' = [tunnel EXCEPT !.ref = FALSE]
            /\ credAsked' = GsChanges(credAsked \ {r})
                            \cup (IF r.found THEN {[r EXCEPT !.stage = "deleteSecret"]} ELSE {})
       ELSE Drop(r) /\ UNCHANGED tunnel
\* Variant: whatever Secret has the name is deleted.
AnySecret(r) == stored
\* Only the Secret that was checked is deleted, and only if nothing was written to it since.
CheckedSecret(r) == stored /\ r.secFresh
DeleteSecret(r) ==
    /\ r.stage = "deleteSecret" /\ UNCHANGED tunnel
    /\ IF CheckedSecret(r) THEN stored' = FALSE /\ keys' = {} /\ credAsked' = SecretChanges(credAsked \ {r})
       ELSE Drop(r) /\ UNCHANGED <<keys, stored>>

-----------------------------------------------------------------------------
(* Spec updates: the switch of provider, with its prune, and enabling.     *)

MaySwitch == SwitchOverlaps \/ credAsked = {}
\* The update has landed; the keys of all other providers are pruned afterwards.
SwitchProvider(p) ==
    /\ MaySwitch /\ p # tunnel.provider /\ Unused # {}
    /\ tunnel' = [tunnel EXCEPT !.provider = p]
    /\ credAsked' = GsChanges(credAsked) \cup {[id |-> CHOOSE i \in Unused : \A j \in Unused : i <= j,
                                                kind |-> "switch", provider |-> p,
                       active |-> p, stage |-> "prune", gsFresh |-> TRUE, secFresh |-> TRUE, found |-> FALSE]}
    /\ UNCHANGED <<keys, stored>>
\* found: the prune has read the Secret.  Failures are only logged.
PruneRead(r) ==
    /\ r.stage = "prune" /\ ~r.found /\ UNCHANGED <<tunnel, keys, stored>>
    /\ IF stored THEN Follows(r, [r EXCEPT !.found = TRUE, !.secFresh = TRUE]) ELSE Drop(r)
PruneStaleTunnelProviderKeys(r) ==
    /\ r.stage = "prune" /\ r.found /\ UNCHANGED <<tunnel, stored>>
    /\ IF stored /\ r.secFresh THEN keys' = keys \cap {r.provider} /\ credAsked' = SecretChanges(credAsked \ {r})
       ELSE Drop(r) /\ UNCHANGED keys
\* The CRD admits an enabled tunnel only with a reference.
ToggleTunnel ==
    /\ tunnel.enabled \/ tunnel.ref
    /\ tunnel' = [tunnel EXCEPT !.enabled = ~@] /\ credAsked' = GsChanges(credAsked)
    /\ UNCHANGED <<keys, stored>>

CredStep(r) ==
    \/ CredCreateSecret(r) \/ PatchSecret(r) \/ PatchAuthorizedServer(r) \/ ReadReferenced(r)
    \/ ClearReference(r) \/ DeleteSecret(r)
    \/ PruneRead(r) \/ PruneStaleTunnelProviderKeys(r)
CredNext ==
    \/ \E p \in Providers : BeginPut(p) \/ SwitchProvider(p)
    \/ CredBeginDelete \/ ToggleTunnel
    \/ \E r \in credAsked : CredStep(r)

-----------------------------------------------------------------------------
(* Properties.                                                             *)

\* A server that refers to its credential Secret finds it: whatever PUT and DELETE requests overlap, the
\* Secret is not deleted under a reference, so an enabled tunnel never starts without it.
ReferencedSecretExists == tunnel.ref => stored

\* The key of the provider the spec names is not removed from the Secret except by deleting the Secret: its
\* pods keep reading it while another provider's key is stored.
ActiveKeyKept ==
    [][tunnel.provider \in keys /\ stored' => tunnel.provider \in keys' \/ tunnel'.provider # tunnel.provider]_credVars
=============================================================================
