------------------------------- MODULE Modules --------------------------------
(*****************************************************************************)
(* Game modules: installing a bundle and serving its translations. The       *)
(* parts share no state; each has its own initial states and steps.          *)
(*****************************************************************************)
EXTENDS Naturals, Sequences, FiniteSets, SequencesExt

(***************************************************************************)
(* Installing a module: a ModuleSource's catalog is indexed from its       *)
(* store, a Module resolves a version in the catalog, pulls the bundle,    *)
(* checks its signature, its digest pin and its minimum operator version,  *)
(* and turns it into a GameTemplate it owns and a ConfigMap of             *)
(* translations.  A pass works on a cached copy of the Module; deleting    *)
(* the Module waits until no GameServer uses the template.                 *)
(***************************************************************************)
CONSTANTS ModuleVersions,          \* module versions, numbers
          SpecEdits, StoreEdits,   \* bounds on the edits
          Verifies                 \* the source declares a signature policy

VARIABLES
    store,        \* the content published for each version: none, signed or forged
    catalog,      \* ModuleSource.status.modules: the store as last indexed
    mod,          \* the Module
    modSeen,      \* the Module in the controller's cache
    tmpl,         \* the GameTemplate of that name
    locales,      \* the translations ConfigMap: the content it was built from
    inUse,        \* a GameServer refers to the template
    modPass,      \* the pass
    moduleEdits   \* bounds: spec edits and publications so far
moduleVars == <<store, catalog, mod, modSeen, tmpl, locales, inUse, modPass, moduleEdits>>

NoBundle == <<0, "none">>
Bundles == ModuleVersions \X {"signed", "forged"} \union {NoBundle}
Modules == [version: ModuleVersions \union {0}, pin: Bundles, gen: 0..SpecEdits,
            life: {"live", "deleting", "gone"},
            phase: {"Pending", "Pulling", "Failed", "Ready"}, observed: 0..SpecEdits,
            applied: Bundles]
NoModPass == [at |-> "none", version |-> 0, bundle |-> NoBundle, copy |-> {}]
ModuleTypeOK ==
    /\ store \in [ModuleVersions -> {"none", "signed", "forged"}]
    /\ catalog \in [ModuleVersions -> {"none", "signed", "forged"}]
    /\ {mod, modSeen} \subseteq Modules /\ modPass.copy \subseteq Modules
    /\ tmpl \in [owner: {"none", "module", "manual"}, content: Bundles]
    /\ locales \in Bundles /\ inUse \in BOOLEAN
    /\ modPass \in [at: {"none", "pull", "locales", "status", "release"},
                    version: ModuleVersions \union {0}, bundle: Bundles, copy: {modPass.copy}]

ModuleInit ==
    /\ store = [v \in ModuleVersions |-> IF v = 1 THEN "signed" ELSE "none"]
    /\ catalog = [v \in ModuleVersions |-> "none"]
    /\ mod = [version |-> 0, pin |-> NoBundle, gen |-> 0, life |-> "live", phase |-> "Pending",
              observed |-> 0, applied |-> NoBundle]
    /\ modSeen = mod /\ locales = NoBundle /\ inUse = FALSE /\ modPass = NoModPass
    /\ \E owner \in {"none", "manual"} : tmpl = [owner |-> owner, content |-> NoBundle]
    /\ moduleEdits = [spec |-> 0, store |-> 0]

-----------------------------------------------------------------------------
(* The world: publications, spec edits, GameServers, the cache.            *)

Publish ==
    /\ moduleEdits.store < StoreEdits /\ mod.life = "live"
    /\ moduleEdits' = [moduleEdits EXCEPT !.store = @ + 1]
    /\ \E v \in ModuleVersions, s \in {"signed", "forged"} : store' = [store EXCEPT ![v] = s]
    /\ UNCHANGED <<catalog, mod, modSeen, tmpl, locales, inUse, modPass>>
ModuleEditSpec ==
    /\ mod.gen < SpecEdits /\ mod.life = "live"
    /\ \E v \in {0, 1}, p \in {NoBundle, <<1, "signed">>} :
         mod' = [mod EXCEPT !.version = v, !.pin = p, !.gen = @ + 1]
    /\ UNCHANGED <<store, catalog, modSeen, tmpl, locales, inUse, modPass, moduleEdits>>
DeleteModule ==
    /\ mod.life = "live" /\ mod' = [mod EXCEPT !.life = "deleting"]
    /\ inUse' \in {FALSE, tmpl.owner # "none"}
    /\ UNCHANGED <<store, catalog, modSeen, tmpl, locales, modPass, moduleEdits>>
ServersChange ==        \* looked at only by a Module that is being deleted
    /\ mod.life = "deleting" /\ inUse' = ~inUse /\ (inUse' => tmpl.owner # "none")
    /\ UNCHANGED <<store, catalog, mod, modSeen, tmpl, locales, modPass, moduleEdits>>
\* Somebody deletes the managed template, or makes one of that name by hand.
TemplateMeddled ==
    /\ moduleEdits.store < StoreEdits /\ mod.life = "live"
    /\ moduleEdits' = [moduleEdits EXCEPT !.store = @ + 1]
    /\ \E owner \in {"none", "manual"} \ {tmpl.owner} : tmpl' = [owner |-> owner, content |-> NoBundle]
    /\ locales' = IF tmpl'.owner = "none" THEN NoBundle ELSE locales     \* owned by the template
    /\ UNCHANGED <<store, catalog, mod, modSeen, inUse, modPass>>
ModuleSynced ==
    /\ modSeen # mod /\ modSeen' = mod
    /\ UNCHANGED <<store, catalog, mod, tmpl, locales, inUse, modPass, moduleEdits>>

\* ModuleSource: a successful index replaces the catalog, a failed one keeps the last good one.
IndexSource ==
    /\ mod.life = "live" /\ catalog' = store
    /\ UNCHANGED <<store, mod, modSeen, tmpl, locales, inUse, modPass, moduleEdits>>

-----------------------------------------------------------------------------
(* A pass over the Module.                                                 *)

Indexed == {v \in ModuleVersions : catalog[v] # "none"}
ModuleLatest == CHOOSE v \in Indexed : \A w \in Indexed : w <= v
Desired == IF modSeen.version # 0 THEN modSeen.version ELSE ModuleLatest
\* A write succeeds only on the Module as it was read.
Save(copy, new) == IF mod = copy THEN mod' = new ELSE UNCHANGED mod
InHand == CHOOSE m \in modPass.copy : TRUE
NotApplied(phase) == [mod EXCEPT !.phase = phase, !.observed = mod.gen]

Converged ==
    /\ modSeen.phase = "Ready" /\ modSeen.observed = modSeen.gen
    /\ modSeen.applied[1] = Desired
    /\ Desired = ModuleLatest => modSeen.applied[2] = catalog[Desired]
    /\ modSeen.pin # NoBundle => modSeen.applied = modSeen.pin
    /\ tmpl.owner # "none"
Idling == modPass.at = "none" /\ modSeen.life = "live"

\* No entry, or no such version.
Unresolved ==
    /\ Idling /\ (Indexed # {} => Desired \notin Indexed)
    /\ Save(modSeen, NotApplied(IF Indexed = {} THEN "Pending" ELSE "Failed"))
    /\ UNCHANGED <<store, catalog, modSeen, tmpl, locales, inUse, modPass, moduleEdits>>
\* markPullingTransition: no write while already Pulling, or Failed at this generation.
BeginPull ==
    /\ Idling /\ Indexed # {} /\ Desired \in Indexed /\ ~Converged
    /\ LET quiet == \/ modSeen.phase = "Pulling"
                    \/ modSeen.phase = "Failed" /\ modSeen.observed = modSeen.gen
           new == IF quiet THEN modSeen ELSE [modSeen EXCEPT !.phase = "Pulling"]
       IN  /\ quiet \/ mod = modSeen
           /\ mod' = IF quiet THEN mod ELSE new
           /\ modPass' = [NoModPass EXCEPT !.at = "pull", !.version = Desired, !.copy = {new}]
    /\ UNCHANGED <<store, catalog, modSeen, tmpl, locales, inUse, moduleEdits>>

ModuleFetched == <<modPass.version, store[modPass.version]>>
Admissible ==
    /\ Verifies => ModuleFetched[2] = "signed"
    /\ InHand.pin \in {NoBundle, ModuleFetched}
\* A pull, check or apply that fails; a template of somebody else is not touched.
InstallFails ==
    /\ modPass.at = "pull" /\ modPass' = NoModPass /\ Save(InHand, NotApplied("Failed"))
    /\ UNCHANGED <<store, catalog, modSeen, tmpl, locales, inUse, moduleEdits>>
Installable == store[modPass.version] # "none" /\ Admissible /\ tmpl.owner # "manual"
RefuseBundle == InstallFails /\ ~Installable
ApplyTemplate ==
    /\ modPass.at = "pull" /\ Installable
    /\ tmpl' = [owner |-> "module", content |-> ModuleFetched]
    /\ modPass' = [modPass EXCEPT !.at = "locales", !.bundle = ModuleFetched]
    /\ UNCHANGED <<store, catalog, mod, modSeen, locales, inUse, moduleEdits>>
\* A failed write of the translations never fails the install.
ModuleApplyLocales ==
    /\ modPass.at = "locales" /\ modPass' = [modPass EXCEPT !.at = "status"]
    /\ locales' \in {locales, modPass.bundle}
    /\ UNCHANGED <<store, catalog, mod, modSeen, tmpl, inUse, moduleEdits>>
RecordReady ==
    /\ modPass.at = "status" /\ modPass' = NoModPass
    /\ Save(InHand, [mod EXCEPT !.phase = "Ready", !.observed = mod.gen, !.applied = modPass.bundle])
    /\ UNCHANGED <<store, catalog, modSeen, tmpl, locales, inUse, moduleEdits>>
ModPassFails ==
    /\ modPass.at # "none" /\ modPass' = NoModPass
    /\ UNCHANGED <<store, catalog, mod, modSeen, tmpl, locales, inUse, moduleEdits>>

\* finalize: refused while a GameServer refers to the template; then the owned template goes,
\* and the finalizer.
FinalizeBlocked ==
    /\ modPass.at = "none" /\ modSeen.life = "deleting" /\ inUse
    /\ Save(modSeen, [mod EXCEPT !.phase = "Failed"])
    /\ UNCHANGED <<store, catalog, modSeen, tmpl, locales, inUse, modPass, moduleEdits>>
FinalizeDeletes ==
    /\ modPass.at = "none" /\ modSeen.life = "deleting" /\ ~inUse
    /\ modPass' = [modPass EXCEPT !.at = "release", !.copy = {modSeen}]
    /\ IF tmpl.owner = "module"
       THEN tmpl' = [owner |-> "none", content |-> NoBundle] /\ locales' = NoBundle
       ELSE UNCHANGED <<tmpl, locales>>
    /\ UNCHANGED <<store, catalog, mod, modSeen, inUse, moduleEdits>>
ReleaseFinalizer ==
    /\ modPass.at = "release" /\ modPass' = NoModPass
    /\ Save(InHand, [mod EXCEPT !.life = "gone"])
    /\ UNCHANGED <<store, catalog, modSeen, tmpl, locales, inUse, moduleEdits>>

ModuleNext ==
    \/ Publish \/ ModuleEditSpec \/ DeleteModule \/ ServersChange \/ TemplateMeddled \/ ModuleSynced
    \/ IndexSource \/ Unresolved \/ BeginPull \/ InstallFails \/ ApplyTemplate \/ ModuleApplyLocales
    \/ RecordReady \/ ModPassFails \/ FinalizeBlocked \/ FinalizeDeletes \/ ReleaseFinalizer

-----------------------------------------------------------------------------
(* Properties.                                                             *)

\* A bundle without a valid signature never reaches the GameTemplate of a source that declares a
\* policy, and a Module never claims a verification of such content (Verify before applyTemplate).
OnlySignedContent ==
    Verifies => tmpl.content[2] # "forged" /\ mod.applied[2] # "forged"

\* A Ready Module with a digest pin runs exactly the pinned content, whatever moved tags, edits of
\* the pin and stale copies came before.
PinHeld ==
    mod.phase = "Ready" /\ mod.observed = mod.gen /\ mod.pin # NoBundle /\ tmpl.owner = "module"
        => tmpl.content = mod.pin

\* A template made by hand is never changed or deleted by the Module of the same name.
ManualTemplateKept ==
    [][tmpl.owner = "manual" /\ tmpl' # tmpl => moduleEdits' # moduleEdits]_moduleVars

-----------------------------------------------------------------------------
(***************************************************************************)
(* A module's translations: the files of a bundle are read under a size    *)
(* budget, validated and bounded, published in a ConfigMap, and problems   *)
(* are reported by a condition, a fingerprint annotation and events.  Each *)
(* write may fail, and the operator may stop between two of them.          *)
(***************************************************************************)
CONSTANTS Langs,                          \* language tags in order, 1..n
          LayerSize, TotalSize, MapSize   \* MaxLocaleLayerSize, MaxLocaleTotalSize, localesMaxBytes

VARIABLES
    localesFiles,   \* the locale files of the bundle being applied: size and state by language
    served,         \* the languages in the ConfigMap, with the file they come from
    condition,      \* LocalesValid on the GameTemplate
    reported,       \* the problems annotation: a fingerprint of the problem list
    localePass      \* the application under way
localesVars == <<localesFiles, served, condition, reported, localePass>>

LocaleFile ==     \* a file over the layer size is never opened
    [size: 1..LayerSize, state: {"clean", "partial", "broken"}]
        \union [size: {LayerSize + 1}, state: {"clean"}]
LocalesOrder == [i \in 1..Cardinality(Langs) |-> i]

\* readLocaleFiles: a file over the layer size, or that does not fit the budget, is not read.
ReadOne(acc, l) ==
    IF l \notin DOMAIN localesFiles THEN acc
    ELSE IF localesFiles[l].size > LayerSize \/ acc.used + localesFiles[l].size > TotalSize
    THEN [acc EXCEPT !.oversized = @ \union {l}]
    ELSE [acc EXCEPT !.used = @ + localesFiles[l].size, !.read = @ \union {l}]
ReadLocaleFiles == FoldLeft(ReadOne, [used |-> 0, read |-> {}, oversized |-> {}], LocalesOrder)

\* buildLocales: a broken file is rejected, invalid entries are dropped, languages are added until
\* the first that does not fit; that one and every later one are left out.
BuildOne(acc, l) ==
    IF l \notin ReadLocaleFiles.read THEN acc
    ELSE IF localesFiles[l].state = "broken" THEN [acc EXCEPT !.rejected = @ \union {l}]
    ELSE LET noted == IF localesFiles[l].state = "partial" THEN [acc EXCEPT !.partial = @ \union {l}] ELSE acc
         IN  IF acc.full \/ acc.used + localesFiles[l].size > MapSize
             THEN [noted EXCEPT !.full = TRUE, !.dropped = @ \union {l}]
             ELSE [noted EXCEPT !.used = @ + localesFiles[l].size, !.data = @ \union {l}]
LocalesBuild ==
    FoldLeft(BuildOne, [used |-> 0, full |-> FALSE, data |-> {}, dropped |-> {}, rejected |-> {},
                        partial |-> {}], LocalesOrder)

\* problemsFingerprint and localesCondition.
Problems(writeFailed) ==
    {<<"rejected", l>> : l \in LocalesBuild.rejected} \union {<<"partial", l>> : l \in LocalesBuild.partial}
        \union {<<"dropped", l>> : l \in LocalesBuild.dropped}
        \union {<<"oversized", l>> : l \in ReadLocaleFiles.oversized}
        \union (IF writeFailed THEN {<<"write", 0>>} ELSE {})
LocalesCondition(writeFailed) ==
    IF DOMAIN localesFiles = {} /\ ~writeFailed THEN "none"
    ELSE IF writeFailed THEN "WriteFailed"
    ELSE IF LocalesBuild.dropped \union ReadLocaleFiles.oversized # {} THEN "LocalesTooLarge"
    ELSE IF LocalesBuild.rejected \union LocalesBuild.partial # {} THEN "InvalidEntries" ELSE "Valid"

NoLocalePass == [at |-> "none", writeFailed |-> FALSE]
LocalesTypeOK ==
    /\ DOMAIN localesFiles \subseteq Langs /\ \A l \in DOMAIN localesFiles : localesFiles[l] \in LocaleFile
    /\ served \subseteq Langs \X LocaleFile
    /\ condition \in {"none", "Valid", "InvalidEntries", "LocalesTooLarge", "WriteFailed"}
    /\ localePass \in [at: {"none", "condition", "fingerprint", "events"}, writeFailed: BOOLEAN]

LocalesInit ==
    /\ localesFiles = <<>> /\ served = {} /\ condition = "none" /\ reported = {}
    /\ localePass = NoLocalePass

\* applyLocales for a bundle: write or delete the ConfigMap, or fail to.
LocalesApplyLocales ==
    /\ localePass.at = "none"
    /\ \E ls \in SUBSET Langs : localesFiles' \in [ls -> LocaleFile]
    /\ \E failed \in BOOLEAN :
         /\ localePass' = [at |-> "condition", writeFailed |-> failed]
         /\ served' = IF failed THEN served ELSE {<<l, localesFiles'[l]>> : l \in LocalesBuild'.data}
    /\ UNCHANGED <<condition, reported>>
LocalePassEnds == localePass' = NoLocalePass /\ localesFiles' = <<>>
\* reportLocales: the condition, then the fingerprint; a failed patch is only logged.
SetLocalesCondition ==
    /\ localePass.at = "condition" /\ localePass' = [localePass EXCEPT !.at = "fingerprint"]
    /\ condition' \in {condition, LocalesCondition(localePass.writeFailed)}
    /\ UNCHANGED <<localesFiles, served, reported>>
SetLocalesFingerprint ==
    /\ localePass.at = "fingerprint"
    /\ LET list == Problems(localePass.writeFailed)
           due == list # reported /\ list # {}      \* events for a list that is new
       IN  \/ /\ reported' = list
              /\ IF due THEN localePass' = [localePass EXCEPT !.at = "events"] /\ UNCHANGED localesFiles
                 ELSE LocalePassEnds
           \/ list # reported /\ UNCHANGED reported /\ LocalePassEnds     \* the patch failed
    /\ UNCHANGED <<served, condition>>
\* The Warning event is sent and forgotten.
RecordLocaleEvents ==
    localePass.at = "events" /\ LocalePassEnds /\ UNCHANGED <<served, condition, reported>>
LocalePassStops ==
    localePass.at # "none" /\ LocalePassEnds /\ UNCHANGED <<served, condition, reported>>

LocalesNext ==
    \/ LocalesApplyLocales \/ SetLocalesCondition \/ SetLocalesFingerprint \/ RecordLocaleEvents
    \/ LocalePassStops

-----------------------------------------------------------------------------
(* Properties.                                                             *)

\* The ConfigMap never exceeds its bound and holds no file that was rejected or too large to read,
\* whatever sizes a bundle ships.
ServedWithinBound ==
    /\ FoldLeft(LAMBDA n, l : n + (IF \E f \in served : f[1] = l
                                   THEN (CHOOSE f \in served : f[1] = l)[2].size ELSE 0), 0, LocalesOrder) <= MapSize
    /\ \A f \in served : f[2].state # "broken" /\ f[2].size <= LayerSize

\* No language is lost silently: each one a bundle ships is served or named in the problems
\* (dropped, oversized or rejected).
NoLanguageLost ==
    \A l \in DOMAIN localesFiles :
        \/ l \in LocalesBuild.data
        \/ \E kind \in {"rejected", "dropped", "oversized"} : <<kind, l>> \in Problems(FALSE)
=============================================================================
