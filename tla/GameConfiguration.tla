-------------------------- MODULE GameConfiguration ---------------------------
(*****************************************************************************)
(* From a configuration somebody accepted to the process the game runs in.   *)
(* The parts share no state; each has its own initial states and steps.      *)
(*****************************************************************************)
EXTENDS Sequences, SequencesExt, Integers

(***************************************************************************)
(* From a GameServer's configuration to what its game runs with: the       *)
(* operator validates spec.config and spec.version, then writes the mod    *)
(* volume's claim, the config, files and RCON Secrets and, last, the       *)
(* StatefulSet.  The pod resolves its Secrets when it starts, so a pass    *)
(* that stops half-way, or a container that restarts meanwhile, mixes two  *)
(* configurations; the hash on the pod template is what ends the mixture.  *)
(***************************************************************************)
CONSTANTS ConfigCatalog,   \* the template's versions, in order: records of id, loader and default
          ModLoaders,      \* loaders that capabilities.mods declares
          ClaimOf,         \* version id -> name of its mod volume's claim (dnsSafe, truncateDNS)
          Edits            \* bound: edits of the GameServer

VARIABLES
    configWanted,                            \* spec: required option, password (0: none), file value (0:
                                             \* none), version
    plan,                                    \* what the pass in progress resolved
    configAt,                                \* where the pass is
    configFailed,                            \* status: the spec was refused
    configSecret, filesSecret, rconSecret,   \* the Secrets' content, 0 when absent
    claims,                                  \* the mod volumes' claims made so far -> versions whose mods
                                             \* lie in them
    configWorkload,                          \* the StatefulSet's pod template
    configPod,                               \* the pod: its template, and the values its containers started
                                             \* with
    configInstalled,                         \* versions under which a mod was installed (history)
    configEdits, quiet                       \* edits so far; nothing changes from outside any more
configVars == <<configWanted, plan, configAt, configFailed, configSecret, filesSecret, rconSecret, claims,
                configWorkload, configPod,
                configInstalled, configEdits, quiet>>
clusterState == <<configSecret, filesSecret, rconSecret, claims, configWorkload>>
userState == <<configWanted, configEdits, quiet, configInstalled>>

Ids == {ConfigCatalog[i].id : i \in DOMAIN ConfigCatalog}
ConfigEntry(id) == CHOOSE e \in ToSet(ConfigCatalog) : e.id = id
NoVersion == "unset"
Template == [option : {1}, password : BOOLEAN, files : BOOLEAN, version : Ids, hash : Seq(Nat)]
NoWorkload == [option |-> 0, password |-> FALSE, files |-> FALSE, version |-> NoVersion, hash |-> <<>>]
NoPlan == [option |-> 0, password |-> 0, file |-> 0, version |-> NoVersion]
ConfigNoPod == [template |-> NoWorkload, password |-> 0, file |-> 0, rcon |-> 0]

ConfigTypeOK ==
    /\ configWanted \in [option : 0..1, password : 0..2, file : 0..2,
                         version : Ids \cup {NoVersion, "unknown"}]
    /\ configAt \in {"idle", "claim", "config", "files", "rcon", "workload"} /\ configFailed \in BOOLEAN
    /\ configSecret \in 0..2 /\ filesSecret \in 0..2 /\ rconSecret \in 0..3
    /\ \A c \in DOMAIN claims : claims[c] \subseteq Ids
    /\ configWorkload # NoWorkload => configWorkload \in Template
    /\ configPod # ConfigNoPod =>
          configPod.template \in Template /\ configPod.password \in 0..2 /\ configPod.file \in 0..2 /\ configPod.rcon \in 1..3
    /\ configInstalled \subseteq Ids /\ configEdits \in 0..Edits /\ quiet \in BOOLEAN

ConfigInit ==
    /\ configWanted = [option |-> 1, password |-> 1, file |-> 1, version |-> NoVersion]
    /\ plan = NoPlan /\ configAt = "idle" /\ configFailed = FALSE
    /\ configSecret = 0 /\ filesSecret = 0 /\ rconSecret = 0
    /\ claims = <<>> /\ configWorkload = NoWorkload /\ configPod = ConfigNoPod /\ configInstalled = {}
    /\ configEdits = 0 /\ quiet = FALSE

-----------------------------------------------------------------------------
(* Users, the kubelet and the StatefulSet controller.                      *)

EditServer ==
    /\ ~quiet /\ configEdits < Edits /\ configEdits' = configEdits + 1
    /\ \/ configWanted' = [configWanted EXCEPT !.option = 1 - @]
       \/ \E v \in (0..2) \ {configWanted.password} : configWanted' = [configWanted EXCEPT !.password = v]
       \/ \E v \in (0..2) \ {configWanted.file} : configWanted' = [configWanted EXCEPT !.file = v]
       \/ \E v \in (Ids \cup {NoVersion, "unknown"}) \ {configWanted.version} :
             configWanted' = [configWanted EXCEPT !.version = v]
    /\ UNCHANGED <<clusterState, plan, configAt, configFailed, configPod, configInstalled, quiet>>
GrowQuiet == ~quiet /\ quiet' = TRUE
             /\ UNCHANGED <<clusterState, configWanted, configEdits, plan, configAt, configFailed, configPod,
                            configInstalled>>

\* A container starts only when every Secret its template names exists.
SecretsPresent(t) == (t.password => configSecret # 0) /\ (t.files => filesSecret # 0) /\ rconSecret # 0
PasswordOf(t) == IF t.password THEN configSecret ELSE 0
\* The init container copies the files once per pod.
ConfigPodStarts ==
    /\ configWorkload # NoWorkload /\ (configPod = ConfigNoPod \/ configPod.template # configWorkload)
    /\ SecretsPresent(configWorkload)
    /\ configPod' = [template |-> configWorkload, password |-> PasswordOf(configWorkload),
                     rcon |-> rconSecret,
                     file |-> IF configWorkload.files THEN filesSecret ELSE 0]
    /\ UNCHANGED <<clusterState, userState, plan, configAt, configFailed>>
ContainerRestarts ==
    /\ ~quiet /\ configPod # ConfigNoPod /\ SecretsPresent(configPod.template)
    /\ configPod' = [configPod EXCEPT !.password = PasswordOf(configPod.template), !.rcon = rconSecret]
    /\ UNCHANGED <<clusterState, userState, plan, configAt, configFailed>>

-----------------------------------------------------------------------------
(* One pass of the operator.                                               *)

\* An explicit id must exist; otherwise the default entry, otherwise the first.
ResolveVersion(v) ==
    IF v # NoVersion THEN v
    ELSE IF \E e \in ToSet(ConfigCatalog) : e.default THEN (CHOOSE e \in ToSet(ConfigCatalog) : e.default).id
    ELSE ConfigCatalog[1].id
ConfigKnown(v) == v \in Ids \cup {NoVersion}
\* A missing required value, or an unknown version, refuses the server before any child is touched.
MaterializeConfig ==
    /\ configAt = "idle"
    /\ IF configWanted.option = 0 \/ ~ConfigKnown(configWanted.version)
       THEN configFailed' = TRUE /\ UNCHANGED <<configAt, plan>>
       ELSE /\ configFailed' = FALSE /\ configAt' = "claim"
            /\ plan' = [configWanted EXCEPT !.version = ResolveVersion(@)]
    /\ UNCHANGED <<clusterState, userState, configPod>>

\* Only a version whose loader is declared has a mod volume, named after the version.
Moddable(id) == ConfigEntry(id).loader \in ModLoaders
ModVolumeKey(id) == ClaimOf[id]
PassTo(step) ==
    /\ configAt' = step /\ plan' = (IF step = "idle" THEN NoPlan ELSE plan)
    /\ UNCHANGED <<userState, configFailed, configPod>>
ReconcileModPVC ==
    /\ configAt = "claim" /\ PassTo("config")
    /\ claims' = IF Moddable(plan.version) THEN claims @@ (ModVolumeKey(plan.version) :> {}) ELSE claims
    /\ UNCHANGED <<configSecret, filesSecret, rconSecret, configWorkload>>
\* Deleted when nothing is to be kept in it.
ReconcileConfigSecret ==
    /\ configAt = "config" /\ configSecret' = plan.password /\ PassTo("files")
    /\ UNCHANGED <<filesSecret, rconSecret, claims, configWorkload>>
ReconcileFilesSecret ==
    /\ configAt = "files" /\ filesSecret' = plan.file /\ PassTo("rcon")
    /\ UNCHANGED <<configSecret, rconSecret, claims, configWorkload>>
\* Generated once, then kept.
GeneratedPassword == IF rconSecret = 0 THEN 1 ELSE rconSecret
ReconcileRCONSecret ==
    /\ configAt = "rcon" /\ rconSecret' = GeneratedPassword /\ PassTo("workload")
    /\ UNCHANGED <<configSecret, filesSecret, claims, configWorkload>>
\* Variant: only the values that the pod template shows count.
VisibleValues(p) == <<p.option, p.file>>
\* Every resolved value counts, those the pod template only refers to included.
ConfigHash(p) == <<p.option, p.password, p.file>>
ConfigReconcileStatefulSet ==
    /\ configAt = "workload" /\ PassTo("idle")
    /\ configWorkload' = [option |-> plan.option, password |-> plan.password # 0, files |-> plan.file # 0,
                          version |-> plan.version, hash |-> ConfigHash(plan)]
    /\ UNCHANGED <<configSecret, filesSecret, rconSecret, claims>>
\* A failing write, or the operator's restart, ends the pass where it is.
PassBreaksOff == ~quiet /\ configAt # "idle" /\ PassTo("idle") /\ UNCHANGED clusterState

\* A mod is installed into the volume the running pod mounts.
InstallMod ==
    /\ configPod # ConfigNoPod /\ Moddable(configPod.template.version)
    /\ configPod.template.version \notin configInstalled
    /\ configInstalled' = configInstalled \cup {configPod.template.version}
    /\ claims' = [claims EXCEPT ![ModVolumeKey(configPod.template.version)] = @ \cup {configPod.template.version}]
    /\ UNCHANGED <<configWanted, configEdits, quiet, plan, configAt, configFailed, configSecret, filesSecret,
                   rconSecret,
                   configWorkload, configPod>>

ConfigPass == MaterializeConfig \/ ReconcileModPVC \/ ReconcileConfigSecret \/ ReconcileFilesSecret
              \/ ReconcileRCONSecret \/ ConfigReconcileStatefulSet
ConfigNext ==
    \/ EditServer \/ GrowQuiet \/ ConfigPodStarts \/ ContainerRestarts \/ ConfigPass \/ PassBreaksOff
    \/ InstallMod

-----------------------------------------------------------------------------
(* Properties.                                                             *)

\* The game was started with the RCON password the agent reads from the mounted Secret, however many
\* passes have run since.
GameAndAgentAgree == configPod # ConfigNoPod => configPod.rcon = rconSecret

\* Switching versions keeps every version's mods, and no version sees another's.
ModSetsKept ==
    \A v \in Ids : Moddable(v) /\ ModVolumeKey(v) \in DOMAIN claims => claims[ModVolumeKey(v)] = configInstalled \cap {v}

\* The game runs with this configuration: no value of another one is left.
RunsWith(w) ==
    /\ configPod # ConfigNoPod /\ configPod.template.version = ResolveVersion(w.version)
    /\ configPod.template.option = w.option
    /\ configPod.password = w.password /\ configPod.file = w.file

-----------------------------------------------------------------------------
(***************************************************************************)
(* buildGameContainer's environment: which of the entries that share one   *)
(* variable's name the game sees.  The operator concatenates the layers;   *)
(* the kubelet lets the last entry of a name win.  The list of mod ids is  *)
(* merged into an entry that is already there when it can be.              *)
(***************************************************************************)
CONSTANTS ShadowedPlain   \* a plain entry may precede a secret-backed one of the same name

VARIABLES
    given,      \* how each layer sets the variable: "none", "plain" or "ref" (valueFrom)
    ids,        \* how the template projects the server's mod ids: "none", "append" or "replace"
    injected,   \* the operator injects the RCON password under this very name
    env,        \* the entries built so far
    layerAt     \* the layer whose turn it is
environmentVars == <<given, ids, injected, env, layerAt>>

Layers == <<"template", "version", "config", "mods", "server", "rcon", "done">>
EnvironmentSources == {"template", "version", "config", "server"}
\* The value of an entry: the layer it comes from ("mods" when the ids replaced it) and whether ids follow.
EnvEntry == [from : EnvironmentSources \cup {"mods", "rcon"}, ref : BOOLEAN, withIds : BOOLEAN]
Plain(layer) == [from |-> layer, ref |-> FALSE, withIds |-> FALSE]
Ref(layer) == [from |-> layer, ref |-> TRUE, withIds |-> FALSE]

EnvironmentTypeOK ==
    /\ given \in [EnvironmentSources -> {"none", "plain", "ref"}] /\ ids \in {"none", "append", "replace"}
    /\ injected \in BOOLEAN /\ env \in Seq(EnvEntry) /\ Len(env) <= 6 /\ layerAt \in 1..7

Lower(layer) == IF layer = "config" THEN {"template",
                                          "version"} ELSE IF layer = "version" THEN {"template"} ELSE {}
EnvironmentInit ==
    /\ given \in [EnvironmentSources -> {"none", "plain", "ref"}]
    /\ ~ShadowedPlain => \A l \in {"version",
                                   "config"} : given[l] = "ref" => \A k \in Lower(l) : given[k] # "plain"
    /\ ids \in {"none", "append", "replace"} /\ injected \in BOOLEAN /\ env = <<>> /\ layerAt = 1

Advance == layerAt' = layerAt + 1 /\ UNCHANGED <<given, ids, injected>>
AppendLayer ==
    /\ Layers[layerAt] \in EnvironmentSources /\ Advance
    /\ LET layer == Layers[layerAt] IN
       env' = CASE given[layer] = "none" -> env
                [] given[layer] = "plain" -> Append(env, Plain(layer))
                [] given[layer] = "ref" -> Append(env, Ref(layer))

\* Appending extends the value; replacing leaves only the ids.
WithIds(entry) == IF ids = "append" THEN [entry EXCEPT !.withIds = TRUE]
                  ELSE [from |-> "mods", ref |-> FALSE, withIds |-> TRUE]
PlainEntries == {i \in DOMAIN env : ~env[i].ref}
\* The search runs from the end and skips entries whose value is not visible here.
MergeTarget == Max(PlainEntries)
ModIDListEnv ==
    /\ Layers[layerAt] = "mods" /\ Advance
    /\ env' = IF ids = "none" THEN env
              ELSE IF PlainEntries # {} THEN [env EXCEPT ![MergeTarget] = WithIds(@)]
              ELSE Append(env, [from |-> "mods", ref |-> FALSE, withIds |-> TRUE])
RconGameEnv ==
    /\ Layers[layerAt] = "rcon" /\ Advance
    /\ env' = IF injected THEN Append(env, Ref("rcon")) ELSE env

EnvironmentNext == AppendLayer \/ ModIDListEnv \/ RconGameEnv

-----------------------------------------------------------------------------
(* Properties.                                                             *)

\* What modIDListEnv's comment promises: template < version < config < mod ids < spec.env < RCON.
Set(layer) == given[layer] # "none"
Beneath == IF Set("config") THEN "config" ELSE IF Set("version") THEN "version" ELSE "template"
Documented ==
    IF injected THEN Ref("rcon")
    ELSE IF Set("server") THEN IF given["server"] = "ref" THEN Ref("server") ELSE Plain("server")
    ELSE IF ids = "none" THEN IF given[Beneath] = "ref" THEN Ref(Beneath) ELSE Plain(Beneath)
    ELSE IF ids = "append" /\ given[Beneath] = "plain" THEN [from |-> Beneath, ref |-> FALSE,
                                                             withIds |-> TRUE]
    ELSE [from |-> "mods", ref |-> FALSE, withIds |-> TRUE]
Anything == injected \/ ids # "none" \/ \E l \in EnvironmentSources : Set(l)

\* The value the game sees is the one the documented precedence gives, whatever the layers set and
\* however the mod ids were merged; without any setting there is no entry.
PrecedenceHolds ==
    Layers[layerAt] = "done" => IF Anything THEN env # <<>> /\ env[Len(env)] = Documented ELSE env = <<>>
=============================================================================
