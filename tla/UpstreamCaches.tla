---------------------------- MODULE UpstreamCaches ----------------------------
(*****************************************************************************)
(* Caches in front of slow upstreams: mod registries, Steam and the game     *)
(* itself. The parts share no state; each has its own initial states and     *)
(* steps.                                                                    *)
(*****************************************************************************)
EXTENDS Naturals, FiniteSets, TLC, Sequences, SequencesExt

(***************************************************************************)
(* The update check of a server's mods: one lookup per project, at most a  *)
(* few at a time, answered from a bounded cache while it is fresh.  Some   *)
(* providers need an API key that an administrator may rotate: concurrent  *)
(* lookups share one read of it, and the engine built for a key is kept.   *)
(***************************************************************************)
CONSTANTS Projects,      \* projects of the installed mods
          ProviderOf,    \* project -> provider: "modrinth", "steam" or "curseforge"
          Lookers,       \* lookups that run at the same time
          UpdateSlots,   \* capacity of sem
          UpdateTtl,     \* ticks an answer stays fresh
          UpdateCap,     \* modUpdateCacheCap
          Rotations      \* bound: API keys an administrator sets

VARIABLES
    release,        \* the projects' newest release, as the registries have it (they release together)
    changedAgo,     \* ticks since that release appeared
    apiKey,         \* the key of the keyed providers; 0: none
    updateLatest,   \* the cache: project -> release and its age
    engineKey,      \* the key the cached engine was built with
    keyFlight,      \* the shared read of the key: its members, whether it was read, and what
    looker          \* the lookups
updateVars == <<release, changedAgo, apiKey, updateLatest, engineKey, keyFlight, looker>>

Stages == {"idle", "cache", "slot", "key", "shared", "engine", "ask", "store", "done"}
UpdateAnswers == {"none", "unconfigured", "noregistry", "error", "r1", "r2"}
NoLook == [at |-> "idle", project |-> "none", key |-> 0, used |-> 0, answer |-> "none"]
NoFlight == [members |-> {}, read |-> FALSE, key |-> 0]
UpdateTypeOK ==
    /\ release \in {"r1", "r2"} /\ changedAgo \in 0..UpdateTtl + 1 /\ apiKey \in 0..Rotations
    /\ DOMAIN updateLatest \subseteq Projects
    /\ \A p \in DOMAIN updateLatest : updateLatest[p].release \in {"r1", "r2"} /\ updateLatest[p].age \in 0..UpdateTtl
    /\ engineKey \in 0..Rotations
    /\ keyFlight \in [members : SUBSET Lookers, read : BOOLEAN, key : 0..Rotations]
    /\ looker \in [Lookers -> [at : Stages, project : Projects \cup {"none"}, key : 0..Rotations,
                               used : 0..Rotations,
                               answer : UpdateAnswers]]

UpdateInit ==
    /\ release = "r1" /\ changedAgo = UpdateTtl + 1 /\ apiKey = 1
    /\ updateLatest = <<>> /\ engineKey = 0 /\ keyFlight = NoFlight /\ looker = [l \in Lookers |-> NoLook]

-----------------------------------------------------------------------------
(* The registries, the administrator and time.                             *)

UpdateResting(l) == looker[l].at \in {"idle", "cache"}
RegistryReleases ==
    /\ changedAgo = UpdateTtl + 1 /\ changedAgo' = 0 /\ release' = (IF release = "r1" THEN "r2" ELSE "r1")
    /\ UNCHANGED <<apiKey, updateLatest, engineKey, keyFlight, looker>>
UpdateRotateKey ==
    /\ \E k \in 0..Rotations : (k > apiKey \/ k = 0) /\ k # apiKey /\ apiKey # 0 /\ apiKey' = k
    /\ UNCHANGED <<release, changedAgo, updateLatest, engineKey, keyFlight, looker>>
\* A lookup that asks a registry takes no time; expired answers are as good as absent.
UpdateTick ==
    /\ \A l \in Lookers : UpdateResting(l)
    /\ changedAgo' = (IF changedAgo <= UpdateTtl THEN changedAgo + 1 ELSE changedAgo)
    /\ updateLatest' = [p \in DOMAIN updateLatest |->
                          [updateLatest[p] EXCEPT !.age = IF @ < UpdateTtl THEN @ + 1 ELSE @]]
    /\ UNCHANGED <<release, apiKey, engineKey, keyFlight, looker>>

-----------------------------------------------------------------------------
(* updates and latestFor.                                                  *)

UpdateGoes(l, f) == looker' = [looker EXCEPT ![l] = f]
UpdateWorld == <<release, changedAgo, apiKey>>
BeginLook(l) ==
    /\ looker[l].at = "idle"
    /\ \E p \in Projects : UpdateGoes(l, [NoLook EXCEPT !.at = "cache", !.project = p])
    /\ UNCHANGED <<UpdateWorld, updateLatest, engineKey, keyFlight>>
StillFresh(p) == p \in DOMAIN updateLatest /\ updateLatest[p].age < UpdateTtl
ReadCache(l) ==
    /\ looker[l].at = "cache"
    /\ LET p == looker[l].project IN
       UpdateGoes(l, IF StillFresh(p) THEN [looker[l] EXCEPT !.at = "done", !.answer = updateLatest[p].release]
                     ELSE [looker[l] EXCEPT !.at = "slot"])
    /\ UNCHANGED <<UpdateWorld, updateLatest, engineKey, keyFlight>>
HoldsSlot(l) == looker[l].at \in Stages \ {"idle", "cache", "slot", "done"}
\* What For demands of a provider, and what the lookup's key carries of the template's registry.
Demands(provider) ==
    CASE provider = "modrinth" -> {} [] provider = "steam" -> {"appId"} [] provider = "curseforge" -> {"gameId"}
KeyCarries == {"community", "appId", "githubOwner", "githubRepo"}
UpdateTakeSlot(l) ==
    /\ looker[l].at = "slot" /\ Cardinality({k \in Lookers : HoldsSlot(k)}) < UpdateSlots
    /\ LET provider == ProviderOf[looker[l].project] IN
       UpdateGoes(l, IF ~(Demands(provider) \subseteq KeyCarries)
                     THEN [looker[l] EXCEPT !.at = "done", !.answer = "noregistry"]
                     ELSE [looker[l] EXCEPT !.at = IF provider = "modrinth" THEN "ask" ELSE "key"])
    /\ UNCHANGED <<UpdateWorld, updateLatest, engineKey, keyFlight>>
\* resolveKey: lookups that overlap share one read.
JoinKeyRead(l) ==
    /\ looker[l].at = "key" /\ keyFlight' = [keyFlight EXCEPT !.members = @ \cup {l}]
    /\ UpdateGoes(l, [looker[l] EXCEPT !.at = "shared"]) /\ UNCHANGED <<UpdateWorld, updateLatest, engineKey>>
ReadKey ==
    /\ keyFlight.members # {} /\ ~keyFlight.read
    /\ keyFlight' = [keyFlight EXCEPT !.read = TRUE, !.key = apiKey]
    /\ UNCHANGED <<UpdateWorld, updateLatest, engineKey, looker>>
HandOutKey ==
    /\ keyFlight.read /\ keyFlight' = NoFlight
    /\ looker' = [l \in Lookers |->
                    IF l \notin keyFlight.members THEN looker[l]
                    ELSE IF keyFlight.key = 0 THEN [looker[l] EXCEPT !.at = "done", !.answer = "unconfigured"]
                    ELSE [looker[l] EXCEPT !.at = "engine", !.key = keyFlight.key]]
    /\ UNCHANGED <<UpdateWorld, updateLatest, engineKey>>
\* keyedLazy: the engine is reused only for the very key it was built with.
SameKey(key) == engineKey = key
KeyedLazy(l) ==
    /\ looker[l].at = "engine"
    /\ LET used == IF SameKey(looker[l].key) THEN engineKey ELSE looker[l].key IN
       engineKey' = used /\ UpdateGoes(l, [looker[l] EXCEPT !.at = "ask", !.used = used])
    /\ UNCHANGED <<UpdateWorld, updateLatest, keyFlight>>
AskRegistry(l) ==
    /\ looker[l].at = "ask"
    /\ \/ UpdateGoes(l, [looker[l] EXCEPT !.at = "done", !.answer = "error"])
       \/ UpdateGoes(l, [looker[l] EXCEPT !.at = "store", !.answer = release])
    /\ UNCHANGED <<UpdateWorld, updateLatest, engineKey, keyFlight>>
\* On overflow the expired answers go, and all of them when that frees nothing.
UpdatePruned ==
    IF Cardinality(DOMAIN updateLatest) < UpdateCap THEN updateLatest
    ELSE Restrict(updateLatest, {p \in DOMAIN updateLatest : updateLatest[p].age < UpdateTtl})
RoomInCache == IF Cardinality(DOMAIN UpdatePruned) < UpdateCap THEN UpdatePruned ELSE <<>>
StoreLatest(l) ==
    /\ looker[l].at = "store"
    /\ updateLatest' = (looker[l].project :> [release |-> looker[l].answer, age |-> 0]) @@ RoomInCache
    /\ UpdateGoes(l, [looker[l] EXCEPT !.at = "done"]) /\ UNCHANGED <<UpdateWorld, engineKey, keyFlight>>
AnswerLook(l) ==
    looker[l].at = "done" /\ UpdateGoes(l, NoLook) /\ UNCHANGED <<UpdateWorld, updateLatest, engineKey,
                                                                  keyFlight>>

LookStep(l) ==
    \/ ReadCache(l) \/ UpdateTakeSlot(l) \/ JoinKeyRead(l) \/ KeyedLazy(l) \/ AskRegistry(l)
    \/ StoreLatest(l) \/ AnswerLook(l)
KeyStep == ReadKey \/ HandOutKey
UpdateNext ==
    \/ RegistryReleases \/ UpdateRotateKey \/ UpdateTick \/ KeyStep \/ \E l \in Lookers : BeginLook(l) \/ LookStep(l)

-----------------------------------------------------------------------------
(* Properties.                                                             *)

\* An answer that is no longer the newest release is at most the cache's lifetime behind.
AnswerWithinTtl ==
    \A l \in Lookers : looker[l].at = "done" /\ looker[l].answer \in {"r1", "r2"}
        => looker[l].answer = release \/ changedAgo <= UpdateTtl

-----------------------------------------------------------------------------
(***************************************************************************)
(* Display names of Steam ids: a bounded least-recently-used cache with a  *)
(* long life for names and a short one for ids without a name, in front of *)
(* a Web API that may fail; concurrent lookups of the same ids share a     *)
(* call.                                                                   *)
(***************************************************************************)
CONSTANTS SteamIds,       \* ids of players; sorted as integers
          SteamCallers,   \* lookups that run at the same time
          MaxEntries,     \* the cache's limit
          NameTtl, NegativeTtl

VARIABLES
    named,      \* id -> Steam gives a name for it (its profile is public)
    namedAgo,   \* id -> ticks since that changed, up to the longest life
    lru,        \* the cache, most recently used first: id, whether a name was found, ticks left
    flights,    \* calls in progress: their ids and the callers that wait
    caller      \* id sets the callers ask for; {} when a caller is idle
steamVars == <<named, namedAgo, lru, flights, caller>>

Longest == IF NameTtl > NegativeTtl THEN NameTtl ELSE NegativeTtl
SteamTypeOK ==
    /\ named \in [SteamIds -> BOOLEAN] /\ namedAgo \in [SteamIds -> 0..Longest + 1]
    /\ lru \in Seq([id : SteamIds, found : BOOLEAN, left : 0..Longest])
    /\ \A f \in flights : f.ids \subseteq SteamIds /\ f.callers \subseteq SteamCallers /\ f.callers # {}
    /\ caller \in [SteamCallers -> SUBSET SteamIds]

SteamInit ==
    /\ named \in [SteamIds -> BOOLEAN] /\ namedAgo = [i \in SteamIds |-> Longest + 1]
    /\ lru = <<>> /\ flights = {} /\ caller = [c \in SteamCallers |-> {}]

ProfileChanges(i) ==
    /\ namedAgo[i] = Longest + 1 /\ named' = [named EXCEPT ![i] = ~@]
    /\ namedAgo' = [namedAgo EXCEPT ![i] = 0]
    /\ UNCHANGED <<lru, flights, caller>>
\* A call is bounded by its timeout, far below a tick; an entry without ticks left has expired.
SteamTick ==
    /\ flights = {}
    /\ namedAgo' = [i \in SteamIds |-> IF namedAgo[i] <= Longest THEN namedAgo[i] + 1 ELSE namedAgo[i]]
    /\ lru' = [k \in DOMAIN lru |-> [lru[k] EXCEPT !.left = IF @ > 0 THEN @ - 1 ELSE 0]]
    /\ UNCHANGED <<named, flights, caller>>

-----------------------------------------------------------------------------
(* The cache.                                                              *)

Without(cache, i) == SelectSeq(cache, LAMBDA e : e.id # i)
EntryOf(cache, i) == {e \in ToSet(cache) : e.id = i}
\* Get: an expired entry is dropped, a hit moves to the front.
CacheGet(cache, i) == SelectSeq(cache, LAMBDA e : e.id = i /\ e.left > 0) \o Without(cache, i)
CacheSet(cache, entry) ==
    <<entry>> \o Without(IF EntryOf(cache,
                                    entry.id) = {} /\ Len(cache) >= MaxEntries THEN Front(cache) ELSE cache,
                         entry.id)

-----------------------------------------------------------------------------
(* Resolve.                                                                *)

SteamOrder(ids) == SetToSortSeq(ids, <)
Looked(ids) == FoldLeft(CacheGet, lru, SteamOrder(ids))
JoinOrCall(c, ids) ==
    LET same == {f \in flights : f.ids = ids} IN
    (flights \ same) \cup {[ids |-> ids, callers |-> {c} \cup UNION {f.callers : f \in same}]}
ResolveIds(c) ==
    /\ caller[c] = {}
    /\ \E ids \in SUBSET SteamIds \ {{}} :
         LET cache == Looked(ids)
             uncached == {i \in ids : EntryOf(cache, i) = {}}
         IN /\ lru' = cache
            /\ IF uncached = {} THEN UNCHANGED <<flights, caller>>
               ELSE flights' = JoinOrCall(c, uncached) /\ caller' = [caller EXCEPT ![c] = uncached]
    /\ UNCHANGED <<named, namedAgo>>
\* resolveBatch: an answer is cached id by id; ids it omits are remembered as nameless, more briefly.
Life(found) == IF found THEN NameTtl ELSE NegativeTtl
SteamStored(ids) ==
    FoldLeft(LAMBDA cache, i : CacheSet(cache, [id |-> i, found |-> named[i], left |-> Life(named[i])]), lru,
             SteamOrder(ids))
\* A failed call says nothing about the ids.
UncachedOnFailure(ids) == lru
SteamAnswers(f) ==
    /\ f \in flights /\ flights' = flights \ {f}
    /\ caller' = [c \in SteamCallers |-> IF c \in f.callers THEN {} ELSE caller[c]]
    /\ lru' = SteamStored(f.ids) \/ lru' = UncachedOnFailure(f.ids)
    /\ UNCHANGED <<named, namedAgo>>

SteamNext ==
    \/ SteamTick \/ \E i \in SteamIds : ProfileChanges(i)
    \/ \E c \in SteamCallers : ResolveIds(c)
    \/ \E f \in flights : SteamAnswers(f)

-----------------------------------------------------------------------------
(* Properties.                                                             *)

\* An id is treated as nameless no longer than the short life after its profile became public, and a
\* failed call never makes it so.
NamelessOnlyBriefly ==
    \A e \in ToSet(lru) : ~e.found /\ named[e.id] /\ e.left > 0 => namedAgo[e.id] < NegativeTtl

-----------------------------------------------------------------------------
(***************************************************************************)
(* The agent's player list (agent/internal/players): a snapshot of the     *)
(* game's answer to the list command, served for cacheTTL, and moderation  *)
(* commands that throw it away.  The list command runs outside the mutex.  *)
(***************************************************************************)
CONSTANTS Ttl,            \* ticks of cacheTTL
          Rosters,        \* bound: versions of the game's roster
          Fetchers,       \* requests that may fetch at once
          FetchOverlaps   \* may a moderation command run while a fetch is under way?

VARIABLES
    roster,      \* version of the game's roster; every join, leave, kick or ban makes a new one
    answering,   \* how the game's RCON answers: "ok", "error", "disabled"
    commands,    \* whether the module's commander renders this moderation command
    cache,       \* lastResult (0: none yet), lastErr, and the ticks lastFetch stays fresh
    fetcher,     \* per request: idle, before the list command, or with its answer in hand
    moderator,   \* a moderation request: "idle", "sent"
    moderated    \* the roster the last successful moderation left
playerVars == <<roster, answering, commands, cache, fetcher, moderator, moderated>>

NoAnswer == [stage |-> "idle", got |-> 0]
PlayerTypeOK ==
    /\ roster \in 1..Rosters /\ answering \in {"ok", "error", "disabled"} /\ commands \in BOOLEAN
    /\ cache \in [list : 0..Rosters, err : {"none", "error", "disabled"}, left : 0..Ttl]
    /\ fetcher \in [Fetchers -> [stage : {"idle", "exec", "store"}, got : 0..Rosters]]
    /\ moderator \in {"idle", "sent"} /\ moderated \in 0..Rosters

PlayerInit ==
    /\ roster = 1 /\ answering \in {"ok", "disabled"} /\ commands \in BOOLEAN
    /\ cache = [list |-> 0, err |-> "none", left |-> 0] /\ fetcher = [f \in Fetchers |-> NoAnswer]
    /\ moderator = "idle" /\ moderated = 0

-----------------------------------------------------------------------------
(* The game and time.                                                      *)

RosterChanges ==
    /\ roster < Rosters /\ roster' = roster + 1
    /\ UNCHANGED <<answering, commands, cache, fetcher, moderator, moderated>>
\* A game without RCON never gets one.
PlayerGameAnswers ==
    /\ answering # "disabled" /\ answering' \in {"ok", "error"} \ {answering}
    /\ UNCHANGED <<roster, commands, cache, fetcher, moderator, moderated>>
CacheAges ==
    /\ cache.left > 0 /\ cache' = [cache EXCEPT !.left = @ - 1]
    /\ UNCHANGED <<roster, answering, commands, fetcher, moderator, moderated>>

-----------------------------------------------------------------------------
(* GET /players.                                                           *)

\* A fresh list or a fresh error is answered from the cache, which changes nothing.
Serve(f) ==
    /\ fetcher[f].stage = "idle" /\ cache.left = 0 /\ (moderator = "sent" => FetchOverlaps)
    /\ fetcher' = [fetcher EXCEPT ![f].stage = "exec"]
    /\ UNCHANGED <<roster, answering, commands, cache, moderator, moderated>>
ExecList(f) ==
    /\ fetcher[f].stage = "exec"
    /\ fetcher' = [fetcher EXCEPT ![f] = [stage |-> "store", got |-> IF answering = "ok" THEN roster ELSE 0]]
    /\ UNCHANGED <<roster, answering, commands, cache, moderator, moderated>>
\* The answer becomes the cache, whatever the cache has become meanwhile; an error leaves the last list in it.
PlayerStored(got) ==
    IF got # 0 THEN [list |-> got, err |-> "none", left |-> Ttl]
    ELSE [cache EXCEPT !.err = IF answering = "disabled" THEN "disabled" ELSE "error", !.left = Ttl]
StoreFetched(f) ==
    /\ fetcher[f].stage = "store" /\ cache' = PlayerStored(fetcher[f].got)
    /\ fetcher' = [fetcher EXCEPT ![f] = NoAnswer]
    /\ UNCHANGED <<roster, answering, commands, moderator, moderated>>

-----------------------------------------------------------------------------
(* Kick, ban, unban, whitelist.                                            *)

\* A command the module does not declare, or a game without RCON, is refused; a failed command leaves the
\* cache.
SendModeration ==
    /\ moderator = "idle" /\ commands /\ answering = "ok" /\ roster < Rosters
    /\ (~FetchOverlaps => \A f \in Fetchers : fetcher[f].stage = "idle")
    /\ roster' = roster + 1 /\ moderator' = "sent"
    /\ UNCHANGED <<answering, commands, cache, fetcher, moderated>>
\* Variant: a moderation leaves the cached list alone.
KeepCache == UNCHANGED cache
BustCache == cache' = [cache EXCEPT !.left = 0]
\* moderated is what a list cached from now on must include.
AnswerModeration ==
    /\ moderator = "sent" /\ BustCache /\ moderator' = "idle" /\ moderated' = roster
    /\ UNCHANGED <<roster, answering, commands, fetcher>>

Fetching(f) == Serve(f) \/ ExecList(f) \/ StoreFetched(f)
PlayerNext ==
    \/ RosterChanges \/ PlayerGameAnswers \/ CacheAges \/ (\E f \in Fetchers : Fetching(f))
    \/ SendModeration \/ AnswerModeration

-----------------------------------------------------------------------------
(* Properties.                                                             *)

\* The list served from the cache is not from before the last moderation command that was answered.
CachedAfterModeration == cache.left > 0 /\ cache.err = "none" => cache.list >= moderated
=============================================================================
