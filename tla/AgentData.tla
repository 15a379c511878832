------------------------------ MODULE AgentData -------------------------------
(*****************************************************************************)
(* The agent and the game's data: its files, its mods, and pausing its saves *)
(* for a backup. The parts share no state; each has its own initial states   *)
(* and steps.                                                                *)
(*****************************************************************************)
EXTENDS Naturals, Sequences


(***************************************************************************)
(* The agent's file manager (agent/internal/files): writes, creations and  *)
(* uploads go through a temporary file and a rename, deletions walk the    *)
(* tree, and the game, which shares the volume, changes the same name at   *)
(* any moment.                                                             *)
(***************************************************************************)
CONSTANTS Modes,         \* access rights (mode, group, ACL) a file may have
          FileRequests   \* bound: requests running at once

VARIABLES
    fileEntry,   \* what the name is (see Entry)
    kids,        \* what the directory of that name holds: "plain" and "dot" entries
    jobs         \* requests under way (see FileJob)
fileVars == <<fileEntry, kids, jobs>>

DefaultMode == CHOOSE m \in Modes : TRUE
FileEntry == [type : {"none", "link", "dir"}] \cup [type : {"file"}, mode : Modes, whole : BOOLEAN]
File(mode) == [type |-> "file", mode |-> mode, whole |-> TRUE]
\* mode: the access read from the destination, or the default; fresh: nothing has touched the name since.
FileJob == [id : 1..FileRequests, kind : {"write", "create", "remove", "tree"},
            stage : {"probe", "fill", "apply", "commit", "rename", "scan", "list", "unlink", "rmdir"},
            exists : BOOLEAN, mode : Modes, fresh : BOOLEAN, listed : SUBSET {"plain", "dot"}]
FileTypeOK ==
    /\ fileEntry \in FileEntry /\ kids \subseteq {"plain", "dot"} /\ (kids # {} => fileEntry.type = "dir")
    /\ jobs \subseteq FileJob /\ (\A a, b \in jobs : a.id = b.id => a = b)

FileInit == fileEntry \in {[type |-> "none"], File(DefaultMode)} /\ kids = {} /\ jobs = {}

-----------------------------------------------------------------------------
(* Changes of the name.                                                    *)

\* The name changes: every other request's view of it is out of date.
FileBecomes(e, left) == fileEntry' = e /\ jobs' = {[j EXCEPT !.fresh = FALSE] : j \in left}
GameChangesEntry ==
    /\ kids = {}
    /\ \E e \in {[type |-> t] : t \in {"none", "link", "dir"}} \cup {File(m) : m \in Modes} :
          e # fileEntry /\ FileBecomes(e, jobs)
    /\ UNCHANGED kids
GameFillsDirectory ==
    /\ fileEntry.type = "dir" /\ kids' \in SUBSET {"plain", "dot"} /\ kids # kids'
    /\ UNCHANGED <<fileEntry, jobs>>

-----------------------------------------------------------------------------
(* Storing a file.                                                         *)

FreeJobs == (1..FileRequests) \ {j.id : j \in jobs}
BeginRequest(kind) ==
    /\ FreeJobs # {} /\ UNCHANGED <<fileEntry, kids>>
    /\ jobs' = jobs \cup {[id |-> CHOOSE i \in FreeJobs : \A k \in FreeJobs : i <= k, kind |-> kind,
                           stage |-> CASE kind = "tree" -> "scan" [] kind = "remove" -> "unlink" [] OTHER -> "probe",
                           exists |-> FALSE, mode |-> DefaultMode, fresh |-> TRUE, listed |-> {}]}
Others(j) == jobs \ {j}
FileStepOf(j, k) == jobs' = Others(j) \cup {k} /\ UNCHANGED <<fileEntry, kids>>
Abort(j) == jobs' = Others(j) /\ UNCHANGED <<fileEntry, kids>>
\* The probe of a creation: an existing name is refused before its body is copied.
ProbeAbsent(j) ==
    /\ j.kind = "create" /\ j.stage = "probe"
    /\ IF fileEntry.type # "none" THEN Abort(j) ELSE FileStepOf(j,
                                                                [j EXCEPT !.stage = "fill", !.fresh = TRUE])
\* destAccess: links and anything but a regular file are refused, the access of a file is remembered.
DestAccess(j) ==
    /\ j.kind = "write" /\ j.stage = "probe"
    /\ CASE fileEntry.type \in {"link", "dir"} -> Abort(j)
         [] fileEntry.type = "none" -> FileStepOf(j, [j EXCEPT !.stage = "fill", !.fresh = TRUE])
         [] OTHER -> FileStepOf(j, [j EXCEPT !.stage = "fill", !.exists = TRUE, !.mode = fileEntry.mode,
                                    !.fresh = TRUE])
\* The body is copied into the temporary file; an early end, a full disk or a killed agent ends it there.
Fill(j) == j.stage = "fill" /\ (Abort(j) \/ FileStepOf(j, [j EXCEPT !.stage = "apply"]))
ApplyAccess(j) == j.stage = "apply" /\ (Abort(j) \/ FileStepOf(j, [j EXCEPT !.stage = "commit"]))
Commits(j) == FileBecomes(File(j.mode), Others(j)) /\ kids' = {}
\* RENAME_NOREPLACE.
CommitCreate(j) ==
    /\ j.kind = "create" /\ j.stage = "commit"
    /\ IF fileEntry.type = "none" THEN Commits(j) ELSE Abort(j)
\* Still absent, still the same untouched file, or a link, which the rename replaces.
FileUnchanged(j) ==
    CASE fileEntry.type = "none" -> ~j.exists
      [] fileEntry.type = "link" -> TRUE
      [] OTHER -> j.exists /\ j.fresh
CheckUnchanged(j) ==
    /\ j.kind = "write" /\ j.stage = "commit"
    /\ IF FileUnchanged(j) THEN FileStepOf(j, [j EXCEPT !.stage = "rename", !.fresh = TRUE]) ELSE Abort(j)
CommitReplace(j) == j.stage = "rename" /\ IF fileEntry.type = "dir" THEN Abort(j) ELSE Commits(j)

-----------------------------------------------------------------------------
(* Deleting.                                                               *)

\* A removal that takes any directory for an empty one.
RemoveEntryUnlisted(j) ==
    /\ j.stage = "unlink"
    /\ IF fileEntry.type = "none" THEN Abort(j) ELSE FileBecomes([type |-> "none"], Others(j)) /\ UNCHANGED kids
\* unlink, or rmdir of an empty directory.
RemoveEntry(j) ==
    /\ j.stage = "unlink"
    /\ IF fileEntry.type = "none" \/ kids # {} THEN Abort(j)
       ELSE FileBecomes([type |-> "none"], Others(j)) /\ UNCHANGED kids
\* checkNoDotAt: a tree with dot entries is refused as a whole.
CheckNoDot(j) ==
    /\ j.stage = "scan"
    /\ IF fileEntry.type = "dir" /\ "dot" \in kids THEN Abort(j) ELSE FileStepOf(j, [j EXCEPT !.stage = "list"])
RemoveTree(j) ==
    /\ j.stage = "list"
    /\ CASE fileEntry.type = "none" -> Abort(j)
         [] fileEntry.type = "dir" -> FileStepOf(j, [j EXCEPT !.stage = "rmdir", !.listed = kids,
                                                     !.fresh = TRUE])
         [] OTHER -> FileBecomes([type |-> "none"], Others(j)) /\ UNCHANGED kids
\* Through the descriptor of the directory that was listed, which need no longer be the one of that name.
RemoveListed(j) ==
    /\ kids' = IF j.fresh THEN kids \ j.listed ELSE kids
    /\ jobs' = Others(j) \cup {[j EXCEPT !.listed = {}]} /\ UNCHANGED fileEntry
\* The listed children go; a dot entry that came after the scan stops the removal.
RemoveChildren(j) ==
    IF "dot" \in j.listed THEN Abort(j) ELSE RemoveListed(j)
\* The directory itself goes only when it is empty.
RemoveDirectory(j) ==
    /\ j.stage = "rmdir"
    /\ IF j.listed # {} THEN RemoveChildren(j)
       ELSE IF fileEntry.type = "dir" /\ kids = {} THEN FileBecomes([type |-> "none"],
                                                                    Others(j)) /\ UNCHANGED kids
       ELSE Abort(j)

FileStep(j) ==
    \/ ProbeAbsent(j) \/ DestAccess(j) \/ Fill(j) \/ ApplyAccess(j) \/ CommitCreate(j) \/ CheckUnchanged(j)
    \/ CommitReplace(j)
    \/ RemoveEntry(j) \/ CheckNoDot(j) \/ RemoveTree(j) \/ RemoveDirectory(j)
FileNext ==
    \/ GameChangesEntry \/ GameFillsDirectory
    \/ \E kind \in {"write", "create", "remove", "tree"} : BeginRequest(kind)
    \/ \E j \in jobs : FileStep(j)

-----------------------------------------------------------------------------
(* Properties.                                                             *)

Over(j) == \A k \in jobs' : k.id # j.id
\* A creation never replaces what came under its name while its body was copied.
CreateNeverReplaces ==
    [][\A j \in jobs : j.kind = "create" /\ j.stage = "commit" /\ Over(j) /\ fileEntry' # fileEntry
         => fileEntry.type = "none"]_fileVars

\* The agent never leaves a half-written file under the name: a copy cut short leaves the previous file.
NeverTorn == fileEntry.type = "file" => fileEntry.whole

\* A write keeps the access rights the file has when it is replaced, also those the game gave it while the
\* body was copied.  Only a change between the last check and the rename, two system calls, goes unseen.
WriteKeepsAccess ==
    [][\A j \in jobs : j.stage = "rename" /\ j.fresh /\ Over(j) /\ fileEntry.type = "file" /\ fileEntry'.type = "file"
          => fileEntry'.mode = fileEntry.mode]_fileVars

-----------------------------------------------------------------------------
(***************************************************************************)
(* The agent's mod endpoints: install from a URL, upload and remove, on    *)
(* the mods directory of the game's volume, and the ledger that records    *)
(* where each mod came from.  Requests run concurrently; only the ledger's *)
(* read-modify-write is under a lock, and the agent may be killed at any   *)
(* point.                                                                  *)
(***************************************************************************)
CONSTANTS ModNames,     \* file names; folder names when archives are extracted
          Extracting,   \* values of the template's extract flag
          Releases,     \* contents a mod may have
          PlainUrl,     \* those installed without a registry identity
          ModRequests   \* bound: requests running at once

VARIABLES
    extract,   \* spec.capabilities.mods.extract
    dir,       \* mod -> the release its file or folder holds, 0 when there is none
    ledger,    \* .gameplane-mods.json: mod -> the release it is recorded as, 0 when there is no entry
    work,      \* requests under way (see Work)
    litter,    \* a request has ended and left a temporary file or folder
    torn       \* mods on which requests overlapped, or a killed agent was working, and no request completed alone since
modVars == <<extract, dir, ledger, work, litter, torn>>

\* replaces: the mod an upgrade swaps out, or the mod itself; temps: its dot-named temporaries in the
\* directory; alone: no other request about these mods ran meanwhile.
Work == [id : 1..ModRequests, kind : {"install", "upload", "remove"}, mod : ModNames, replaces : ModNames,
         release : Releases \cup {0},
         temps : SUBSET {"file", "folder"}, alone : BOOLEAN, stage : {"fetch", "unzip", "clear", "place",
                                                                      "cleanup", "ledger", "remove"}]
ModTypeOK ==
    /\ extract \in BOOLEAN /\ dir \in [ModNames -> Releases \cup {0}]
    /\ ledger \in [ModNames -> Releases \cup {0}]
    /\ litter \in BOOLEAN /\ torn \subseteq ModNames
    /\ work \subseteq Work /\ \A q, r \in work : q.id = r.id => q = r

ModInit ==
    /\ extract \in Extracting /\ dir = [n \in ModNames |-> 0] /\ ledger = [n \in ModNames |-> 0]
    /\ work = {} /\ litter = FALSE /\ torn = {}

-----------------------------------------------------------------------------
(* Requests.                                                               *)

Touches(r) == {r.mod, r.replaces}
Busy(n) == \E r \in work : n \in Touches(r)
FreeWork == (1..ModRequests) \ {r.id : r \in work}
StartWork(kind, n, old, v, stage) ==
    LET clashing == {r \in work : Touches(r) \cap {n, old} # {}} IN
    /\ FreeWork # {} /\ torn' = torn \cup {m \in {n, old} : Busy(m)}
    /\ work' = (work \ clashing) \cup {[r EXCEPT !.alone = FALSE] : r \in clashing}
                 \cup {[id |-> CHOOSE i \in FreeWork : \A j \in FreeWork : i <= j, kind |-> kind, mod |-> n,
                        replaces |-> old,
                        release |-> v, temps |-> {}, alone |-> clashing = {}, stage |-> stage]}
    /\ UNCHANGED <<extract, dir, ledger, litter>>
BeginInstall(n, old, v) == StartWork("install", n, old, v, "fetch")
BeginUpload(n, v) == v \notin PlainUrl /\ StartWork("upload", n, n, v, "fetch")
BeginRemove(n) == StartWork("remove", n, n, 0, "remove")

ModTo(r, stage, temps) == work' = (work \ {r}) \cup {[r EXCEPT !.stage = stage, !.temps = temps]}
ModEnds(r, temps) == work' = work \ {r} /\ litter' = (litter \/ temps # {})
\* Every failure removes what the request has put beside the mods.
ModFails(r) == ModEnds(r, {}) /\ UNCHANGED <<extract, dir, ledger, torn>>

\* Into a temporary file; too large, broken off or refused fails.
ModFetched(r) == ModTo(r, IF extract THEN "unzip" ELSE "place",
                       {"file"}) /\ UNCHANGED <<extract, dir, ledger, litter, torn>>
DownloadTemp(r) == r.kind = "install" /\ r.stage = "fetch" /\ (ModFails(r) \/ ModFetched(r))
CopyUpload(r) == r.kind = "upload" /\ r.stage = "fetch" /\ (ModFails(r) \/ ModFetched(r))
\* unzipInto a staging folder; a bad archive or a bad path in it fails.
UnzipInto(r) ==
    /\ r.stage = "unzip"
    /\ (ModFails(r) \/ (ModTo(r, "clear",
                              {"file", "folder"}) /\ UNCHANGED <<extract, dir, ledger, litter, torn>>))
\* swapInArchive removes the folder of that name, then renames the staging folder to it.
ClearFolder(r) ==
    /\ r.stage = "clear" /\ dir' = [dir EXCEPT ![r.mod] = 0] /\ ModTo(r, "place", r.temps)
    /\ UNCHANGED <<extract, ledger, litter, torn>>
Placed(r) ==
    dir' = [dir EXCEPT ![r.mod] = r.release] /\ ModTo(r, "cleanup",
                                                      {}) /\ UNCHANGED <<extract, ledger, litter, torn>>
\* A rename replaces a file but not a folder with something in it.
SwapInArchive(r) == r.stage = "place" /\ extract /\ IF dir[r.mod] # 0 THEN ModFails(r) ELSE Placed(r)
Download(r) == r.stage = "place" /\ ~extract /\ (ModFails(r) \/ Placed(r))
\* removeEntry of the replaced mod: only now that the new one is in place; failures are only logged.
RemoveReplaced(r) ==
    /\ r.stage = "cleanup" /\ ModTo(r, "ledger", {}) /\ UNCHANGED <<extract, ledger, litter, torn>>
    /\ dir' \in {dir, IF r.replaces = r.mod THEN dir ELSE [dir EXCEPT ![r.replaces] = 0]}
\* DELETE: a missing mod is an error.
RemoveModEntry(r) ==
    /\ r.stage = "remove"
    /\ IF dir[r.mod] = 0 THEN ModFails(r)
       ELSE dir' = [dir EXCEPT ![r.mod] = 0] /\ ModTo(r, "ledger",
                                                      {}) /\ UNCHANGED <<extract, ledger, litter, torn>>

\* updateManifest, under the lock: the change of the request, then entries without a file are pruned.
ModPruned(m) == [n \in ModNames |-> IF dir[n] = 0 THEN 0 ELSE m[n]]
ModIdentity(r) == IF r.release \in PlainUrl THEN 0 ELSE r.release
\* Variant: a mod of unknown identity leaves the ledger as it is.
KeepsUnrecorded(r) == IF ModIdentity(r) = 0 THEN ledger ELSE [ledger EXCEPT ![r.replaces] = 0,
                                                              ![r.mod] = r.release]
Entered(r) == [ledger EXCEPT ![r.replaces] = 0, ![r.mod] = ModIdentity(r)]
UpdateManifest(r) ==
    /\ r.stage = "ledger" /\ ModEnds(r, {})
    /\ ledger' = ModPruned(Entered(r))
    /\ torn' = IF r.alone THEN torn \ {r.mod} ELSE torn
    /\ UNCHANGED <<extract, dir>>

\* The container is killed: the requests are gone, their temporaries stay.
AgentKilled ==
    /\ work # {} /\ work' = {} /\ torn' = torn \cup UNION {Touches(r) : r \in work}
    /\ UNCHANGED <<extract, dir, ledger, litter>>

ModStep(r) ==
    \/ DownloadTemp(r) \/ CopyUpload(r) \/ UnzipInto(r) \/ ClearFolder(r) \/ SwapInArchive(r) \/ Download(r)
    \/ RemoveReplaced(r) \/ RemoveModEntry(r) \/ UpdateManifest(r)
ModNext ==
    \/ \E n \in ModNames : \/ BeginRemove(n)
                           \/ \E v \in Releases : \/ BeginUpload(n, v)
                                                  \/ \E old \in ModNames : BeginInstall(n, old, v)
    \/ \E r \in work : ModStep(r)
    \/ AgentKilled

-----------------------------------------------------------------------------
(* Properties.                                                             *)

\* Requests leave no temporaries behind, however they end; only a killed agent does.
NoLeftovers == ~litter

\* The ledger does not claim for a mod a release it does not hold, unless requests about it overlapped or
\* were cut off.
LedgerHonest == \A n \in ModNames \ torn : Busy(n) \/ ledger[n] \in {0, dir[n]}

\* A mod disappears only when it was asked to be removed, when its replacement is in place, or for a moment
\* while its own folder is swapped (another request about the replacement may have removed it again).
UpgradeKeepsOne ==
    [][\A n \in ModNames : dir[n] # 0 /\ dir'[n] = 0 =>
          \E r \in work : \/ r.kind = "remove" /\ r.mod = n
                          \/ r.replaces = n /\ r.mod # n /\ (r.alone => dir[r.mod] # 0)
                          \/ r.mod = n /\ r.stage = "clear"]_modVars

-----------------------------------------------------------------------------
(***************************************************************************)
(* Pausing a game's saves for a backup: the operator's agent client with   *)
(* its timeout, the agent's /quiesce and /unquiesce handlers, which run on *)
(* when the client has given up, and the declared command sequences they   *)
(* send over a shared RCON connection, one command at a time.              *)
(***************************************************************************)

CONSTANTS QuiesceCommands,   \* spec.capabilities.quiesce.quiesce: "pause" and "flush" commands
          Calls,             \* bound: requests the operator sends for one backup
          QuiesceGivesUp     \* the client's timeout may elapse while the handler still waits for RCON
ASSUME QuiesceAssumption == QuiesceCommands \in Seq({"pause", "flush"}) /\ QuiesceCommands # <<>>
Rollback == <<"resume">>    \* spec.capabilities.quiesce.unquiesce

VARIABLES
    quiesceFrozen,    \* the game does not save
    owed,             \* the backup's unquiesce intent is recorded
    operator,         \* "start", "quiescing", "running" (copy or failure), "unquiescing", "settled"
    quiesceRequest,   \* the number of the request the operator waits for, 0 when it waits for none
    handlers          \* the agent's handlers: commands left, whether an error was seen, and the state
quiesceVars == <<quiesceFrozen, owed, operator, quiesceRequest, handlers>>

QuiesceHandler == [left: Seq({"pause", "flush", "resume"}), error: BOOLEAN, pausing: BOOLEAN,
                   at: {"runs", "ok", "failed"}]
Running == {h \in DOMAIN handlers : handlers[h].at = "runs"}

QuiesceTypeOK ==
    /\ quiesceFrozen \in BOOLEAN /\ owed \in BOOLEAN /\ handlers \in Seq(QuiesceHandler)
    /\ operator \in {"start", "quiescing", "running", "unquiescing", "settled"}
    /\ quiesceRequest \in 0..Len(handlers)

QuiesceInit ==
    /\ quiesceFrozen = FALSE /\ owed = FALSE /\ operator = "start" /\ quiesceRequest = 0 /\ handlers = <<>>

-----------------------------------------------------------------------------
(* The operator's side.                                                    *)

QuiescePost(commands, pausing) ==
           /\ Len(handlers) < Calls /\ quiesceRequest' = Len(handlers) + 1
           /\ handlers' = Append(handlers,
                                 [left |-> commands, error |-> FALSE, pausing |-> pausing, at |-> "runs"])
\* maybeQuiesce: the intent to resume is recorded before the agent is called.
MaybeQuiesce ==
    /\ operator = "start" /\ operator' = "quiescing" /\ QuiescePost(QuiesceCommands, TRUE)
    /\ owed' = TRUE /\ UNCHANGED quiesceFrozen
\* Client.callQuiesce answers with the handler's result, or an error: the response is lost or the
\* timeout elapses.  After /quiesce the backup goes on or fails, and owes the unquiesce either way.
QuiesceReplied(result) ==
    /\ quiesceRequest # 0 /\ quiesceRequest' = 0
    /\ result = "error" => handlers[quiesceRequest].at # "runs" \/ QuiesceGivesUp
    /\ result \in {"ok", "failed"} => handlers[quiesceRequest].at = result
    /\ UNCHANGED <<quiesceFrozen, handlers>>
QuiesceAnswered ==
    /\ operator = "quiescing" /\ operator' = "running"
    /\ \E r \in {"ok", "failed", "error"} : QuiesceReplied(r)
    /\ UNCHANGED owed
\* runUnquiesce: at the end of the backup, and again until it succeeds.
QuiesceRunUnquiesce ==
    /\ operator = "running" /\ owed /\ operator' = "unquiescing" /\ QuiescePost(Rollback, FALSE)
    /\ UNCHANGED <<quiesceFrozen, owed>>
UnquiesceAnswered ==
    /\ operator = "unquiescing"
    /\ \E r \in {"ok", "failed", "error"} :
         /\ QuiesceReplied(r) /\ owed' = (r # "ok") /\ operator' = IF r = "ok" THEN "settled" ELSE "running"

-----------------------------------------------------------------------------
(* The agent's side.                                                       *)

\* One command over RCON, serialized with the other handlers': it may fail before or after it took
\* effect, or answer with the declared failure pattern.
Effect(command) ==
    quiesceFrozen' = IF command = "pause" THEN TRUE ELSE IF command = "resume" THEN FALSE ELSE quiesceFrozen
ExecCommand(h, fails) ==
    /\ handlers[h].at = "runs" /\ handlers[h].left # <<>>
    /\ \/ Effect(Head(handlers[h].left))
       \/ fails /\ UNCHANGED quiesceFrozen
\* declaredQuiescer.Quiesce: a failure after the first command rolls back; declaredQuiescer.Unquiesce
\* sends every command and reports the first failure.
RollbackFor(h) == IF Len(handlers[h].left) < Len(QuiesceCommands) THEN Rollback ELSE <<>>
QuiesceStep(h) ==
    /\ handlers[h].pausing /\ ~handlers[h].error
    /\ \E fails \in BOOLEAN :
         /\ ExecCommand(h, fails)
         /\ handlers' = [handlers EXCEPT ![h] =
                IF fails THEN [handlers[h] EXCEPT !.error = TRUE, !.left = RollbackFor(h)]
                ELSE [handlers[h] EXCEPT !.left = Tail(@)]]
    /\ UNCHANGED <<owed, operator, quiesceRequest>>
UnquiesceStep(h) ==
    /\ ~handlers[h].pausing \/ handlers[h].error
    /\ \E fails \in BOOLEAN :
         /\ ExecCommand(h, fails)
         /\ handlers' = [handlers EXCEPT ![h] = [handlers[h] EXCEPT !.error = @ \/ fails, !.left = Tail(@)]]
    /\ UNCHANGED <<owed, operator, quiesceRequest>>
HandlerEnds(h) ==
    /\ handlers[h].at = "runs" /\ handlers[h].left = <<>>
    /\ handlers' = [handlers EXCEPT ![h].at = IF handlers[h].error THEN "failed" ELSE "ok"]
    /\ UNCHANGED <<quiesceFrozen, owed, operator, quiesceRequest>>

QuiesceNext ==
    \/ MaybeQuiesce \/ QuiesceAnswered \/ QuiesceRunUnquiesce \/ UnquiesceAnswered
    \/ \E h \in DOMAIN handlers : QuiesceStep(h) \/ UnquiesceStep(h) \/ HandlerEnds(h)

-----------------------------------------------------------------------------
(* Properties.                                                             *)

\* Whatever fails, and whatever effect a failed command had, a game left unable to save is one whose
\* unquiesce the backup still owes, once no handler is at work.  With QuiesceGivesUp the code violates it: a
\* /quiesce handler the client no longer waits for pauses the game after the unquiesce succeeded.
FrozenIsOwed == quiesceFrozen /\ Running = {} => owed
=============================================================================
