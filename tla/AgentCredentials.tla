--------------------------- MODULE AgentCredentials ---------------------------
(*****************************************************************************)
(* The management key and the agents' certificates. The parts share no       *)
(* state; each has its own initial states and steps.                         *)
(*****************************************************************************)
EXTENDS Naturals, FiniteSets

(***************************************************************************)
(* The key and the credential rows of a standalone panel                   *)
(* (api/internal/controlplane).  An API process loads or generates the key *)
(* in its key file under a publication lock, validates the whole database  *)
(* with it and then serves; the rotation command re-encrypts every row     *)
(* under a second file's key in one transaction.  Processes may die at any *)
(* step, the machine may lose directory entries that were not synced, and  *)
(* the result of the rotation's commit may be lost.                        *)
(*                                                                         *)
(* A ciphertext is the identity of the key that sealed it.  `alias' is the *)
(* temporary name the key file was linked from: "removed" is a removal the *)
(* directory has not persisted yet.  One credential stands for the table.  *)
(***************************************************************************)
CONSTANTS Apis,        \* the API processes
          Writers,     \* concurrent requests of one API process
          Keys,        \* how many keys may be generated
          KeyMaxUid,   \* bound on credential identities
          MaxVersion   \* bound on the version of one credential

VARIABLES
    provided,     \* is file "b" provisioned by the operator, read-only?
    keyFiles,     \* the two key files
    keyState,     \* row of management_key_state: active and previous key, 0 = none
    keyRow,       \* the credential's row
    keyProc,      \* the processes: the API's and the rotation command
    generated,    \* keys generated so far
    uids,         \* identities given out so far
    keyVerdict,   \* what the last finished rotation command reported
    faulty        \* may processes and the machine still crash?

keyVars == <<provided, keyFiles, keyState, keyRow, keyProc, generated, uids, keyVerdict, faulty>>

KeyIds == 0..(Keys + 1)
Files == {"a", "b"}
Procs == Apis \cup {"rotate"}

Success == {"ok", "already"}   \* committed, or found committed by an earlier try
Absent == [key |-> 0, entry |-> "none", alias |-> "none"]
KeyNoRow == [uid |-> 0, version |-> 0, key |-> 0, by |-> 0]
NoWrite == [op |-> "none", uid |-> 0, version |-> 0]
Off == [at |-> "off", file |-> "a", role |-> "none", required |-> FALSE,
        key |-> 0, old |-> 0, write |-> [w \in Writers |-> NoWrite]]

KeyTypeOK ==
    /\ provided \in BOOLEAN /\ faulty \in BOOLEAN
    /\ keyFiles \in [Files -> [key: KeyIds, entry: {"none", "volatile", "durable"},
                               alias: {"none", "there", "removed"}]]
    /\ keyState \in [active: KeyIds, previous: KeyIds]
    /\ keyRow \in [uid: 0..KeyMaxUid, version: 0..MaxVersion, key: KeyIds, by: Writers \cup {0}]
    /\ keyProc \in [Procs -> [at: {"off", "counted", "found", "linked", "unlinked", "loaded",
                                   "serving", "source"},
                              file: Files, role: {"none", "api", "confirm", "publish"},
                              required: BOOLEAN, key: KeyIds, old: KeyIds,
                              write: [Writers -> [op: {"none", "update", "delete"}, uid: 0..KeyMaxUid,
                                                  version: 0..MaxVersion]]]]
    /\ generated \in 0..Keys /\ uids \in 0..KeyMaxUid
    /\ keyVerdict \in {"none", "ok", "already", "error"}

\* A fresh installation, or one from before key identities were recorded: a
\* sealed credential, its key file, and no key state.
KeyInit ==
    /\ provided \in BOOLEAN
    /\ \E legacy \in BOOLEAN :
         /\ generated = IF legacy THEN 1 ELSE 0
         /\ uids = generated
         /\ keyRow = IF legacy THEN [uid |-> 1, version |-> 1, key |-> 1, by |-> 0] ELSE KeyNoRow
         /\ keyFiles = [f \in Files |->
               CASE f = "a" /\ legacy -> [key |-> 1, entry |-> "durable", alias |-> "none"]
                 [] f = "b" /\ provided -> [key |-> Keys + 1, entry |-> "durable", alias |-> "none"]
                 [] OTHER -> Absent]
    /\ keyState = [active |-> 0, previous |-> 0]
    /\ keyProc = [p \in Procs |-> Off]
    /\ keyVerdict = "none" /\ faulty = TRUE

world == <<provided, faulty>>
database == <<keyState, keyRow, uids>>

KeyGoes(p, at) == keyProc' = [keyProc EXCEPT ![p].at = at]
KeyEnds(p) == keyProc' = [keyProc EXCEPT ![p] = Off]

\* The rotation command ends, reporting v; an API process that fails to start exits.
KeyReports(p, v) == KeyEnds(p) /\ keyVerdict' = IF p = "rotate" THEN v ELSE keyVerdict

-----------------------------------------------------------------------------
(* Starting: the rows are counted before the key file is touched. *)

StartApi(p, f) ==
    /\ keyProc[p].at = "off"
    /\ keyProc' = [keyProc EXCEPT ![p] = [Off EXCEPT !.at = "counted", !.file = f, !.role = "api",
                                                    !.required = keyState.active # 0 \/ keyRow # KeyNoRow]]
    /\ UNCHANGED <<world, keyFiles, database, generated, keyVerdict>>

(* The publication lock is held from finding or linking the key to the sync. *)
KeyLockFree == \A q \in Procs : keyProc[q].at \notin {"found", "linked", "unlinked"}

KeyExists(f) == keyFiles[f].entry # "none"
Recovered(f) == IF keyFiles[f].alias = "there" THEN [keyFiles[f] EXCEPT !.alias = "removed"] ELSE keyFiles[f]
Readable(f) == KeyExists(f) /\ keyFiles[f].alias # "there"

\* loadKeyWithSync up to the published name: an existing key is never replaced.
LoadKey(p) ==
    /\ keyProc[p].at = "counted" /\ KeyLockFree
    /\ LET f == keyProc[p].file IN
         /\ ~(provided /\ f = "b")
         /\ \/ /\ KeyExists(f)
               /\ keyFiles' = [keyFiles EXCEPT ![f] = Recovered(f)]
               /\ keyProc' = [keyProc EXCEPT ![p].at = "found", ![p].key = keyFiles[f].key]
               /\ UNCHANGED <<generated, keyVerdict>>
            \/ /\ ~KeyExists(f) /\ ~keyProc[p].required /\ generated < Keys
               /\ generated' = generated + 1
               /\ keyFiles' = [keyFiles EXCEPT ![f] =
                                 [key |-> generated + 1, entry |-> "volatile", alias |-> "there"]]
               /\ keyProc' = [keyProc EXCEPT ![p].at = "linked", ![p].key = generated + 1]
               /\ UNCHANGED keyVerdict
            \/ /\ ~KeyExists(f) /\ keyProc[p].required
               /\ KeyReports(p, "error") /\ UNCHANGED <<keyFiles, generated>>
    /\ UNCHANGED <<world, database>>

\* A provisioned key is only ever read.
ReadProvisioned(p) ==
    /\ keyProc[p].at = "counted" /\ provided /\ keyProc[p].file = "b"
    /\ keyProc' = [keyProc EXCEPT ![p].at = "loaded", ![p].key = keyFiles["b"].key]
    /\ UNCHANGED <<world, keyFiles, database, generated, keyVerdict>>

RemoveAlias(p) ==
    /\ keyProc[p].at = "linked"
    /\ keyFiles' = [keyFiles EXCEPT ![keyProc[p].file].alias = "removed"]
    /\ KeyGoes(p, "unlinked")
    /\ UNCHANGED <<world, database, generated, keyVerdict>>

\* Also persists what an interrupted publisher left; a failing sync ends the process.
SyncKeyDirectory(p) ==
    /\ keyProc[p].at \in {"found", "unlinked"}
    /\ keyFiles' = [keyFiles EXCEPT ![keyProc[p].file].entry = "durable", ![keyProc[p].file].alias = "none"]
    /\ KeyGoes(p, "loaded")
    /\ UNCHANGED <<world, database, generated, keyVerdict>>

SyncFails(p) ==
    /\ faulty /\ keyProc[p].at \in {"found", "unlinked"}
    /\ KeyReports(p, "error")
    /\ UNCHANGED <<world, keyFiles, database, generated>>

Decodes(key) == keyRow = KeyNoRow \/ keyRow.key = key

\* One transaction: record the key if none is, lock its state, validate every row.
ValidateAndInitialize(p) ==
    /\ keyProc[p].at = "loaded" /\ keyProc[p].role = "api"
    /\ IF keyState.active \in {0, keyProc[p].key} /\ Decodes(keyProc[p].key)
       THEN keyState' = [keyState EXCEPT !.active = keyProc[p].key] /\ KeyGoes(p, "serving")
       ELSE KeyEnds(p) /\ UNCHANGED keyState
    /\ UNCHANGED <<world, keyFiles, keyRow, uids, generated, keyVerdict>>

-----------------------------------------------------------------------------
(* The credential row. *)

LockKeyState(key) == keyState.active = key
KeyCreateSecret(p, w) ==
    /\ keyProc[p].at = "serving" /\ keyRow = KeyNoRow /\ uids < KeyMaxUid
    /\ LockKeyState(keyProc[p].key)
    /\ uids' = uids + 1
    /\ keyRow' = [uid |-> uids + 1, version |-> 1, key |-> keyProc[p].key, by |-> w]
    /\ UNCHANGED <<world, keyFiles, keyState, keyProc, generated, keyVerdict>>

\* Reading decodes the row with the process's own key.
GetSecret(p, w, op) ==
    /\ keyProc[p].at = "serving" /\ keyProc[p].write[w] = NoWrite
    /\ keyRow # KeyNoRow /\ keyRow.key = keyProc[p].key /\ keyRow.version < MaxVersion
    /\ keyProc' = [keyProc EXCEPT ![p].write[w] = [op |-> op, uid |-> keyRow.uid, version |-> keyRow.version]]
    /\ UNCHANGED <<world, keyFiles, database, generated, keyVerdict>>

SecretRequest(p, w) == KeyCreateSecret(p, w) \/ \E op \in {"update", "delete"} : GetSecret(p, w, op)

Matches(write) == keyRow.uid = write.uid /\ keyRow.version = write.version
WriteSecret(p, w) ==
    LET write == keyProc[p].write[w] IN
    /\ keyProc[p].at = "serving" /\ write # NoWrite
    /\ IF LockKeyState(keyProc[p].key) /\ Matches(write)
       THEN keyRow' = IF write.op = "delete" THEN KeyNoRow
                      ELSE [keyRow EXCEPT !.version = write.version + 1, !.key = keyProc[p].key, !.by = w]
       ELSE UNCHANGED keyRow
    /\ keyProc' = [keyProc EXCEPT ![p].write[w] = NoWrite]
    /\ UNCHANGED <<world, keyFiles, keyState, uids, generated, keyVerdict>>

-----------------------------------------------------------------------------
(* The rotation command, from file "a" to file "b". *)

\* The old key is read as it is: no lock, no recovery, no sync.
KeyRotateKey ==
    /\ keyProc["rotate"].at = "off" /\ keyVerdict \notin Success
    /\ IF Readable("a")
       THEN /\ keyProc' = [keyProc EXCEPT !["rotate"] =
                             [Off EXCEPT !.at = "source", !.file = "b", !.old = keyFiles["a"].key]]
            /\ keyVerdict' = "none"
       ELSE keyVerdict' = "error" /\ UNCHANGED keyProc
    /\ UNCHANGED <<world, keyFiles, database, generated>>

Established == keyState.active # 0 \/ keyRow # KeyNoRow

\* Variant: any differing active key is refused, a retry included.
ValidateActiveSource ==
    LET old == keyProc["rotate"].old IN
    /\ keyProc["rotate"].at = "source"
    /\ IF Established /\ keyState.active \in {0, old} /\ Decodes(old)
       THEN /\ keyState' = [keyState EXCEPT !.active = old]
            /\ keyProc' = [keyProc EXCEPT !["rotate"].at = "counted", !["rotate"].role = "publish"]
            /\ UNCHANGED keyVerdict
       ELSE KeyReports("rotate", "error") /\ UNCHANGED keyState
    /\ UNCHANGED <<world, keyFiles, keyRow, uids, generated>>

ValidateRotationSource ==
    LET old == keyProc["rotate"].old
        Next(role, required) == keyProc' = [keyProc EXCEPT !["rotate"].at = "counted",
                           !["rotate"].role = role, !["rotate"].required = required] IN
    /\ keyProc["rotate"].at = "source"
    /\ \/ /\ Established /\ keyState.active \in {0, old} /\ Decodes(old)
          /\ keyState' = [keyState EXCEPT !.active = old]
          /\ Next("publish", FALSE) /\ UNCHANGED keyVerdict
       \/ /\ Established /\ keyState.active \notin {0, old}
          /\ Next("confirm", TRUE) /\ UNCHANGED <<keyState, keyVerdict>>
       \/ /\ ~Established \/ (keyState.active \in {0, old} /\ ~Decodes(old))
          /\ KeyReports("rotate", "error") /\ UNCHANGED keyState
    /\ UNCHANGED <<world, keyFiles, keyRow, uids, generated>>

\* The same request as the rotation that already committed.
Completed == /\ keyState.active = keyProc["rotate"].key
             /\ keyState.previous = keyProc["rotate"].old
ConfirmCompleted ==
    /\ keyProc["rotate"].at = "loaded" /\ keyProc["rotate"].role = "confirm"
    /\ KeyReports("rotate", IF Completed /\ Decodes(keyProc["rotate"].key) THEN "already" ELSE "error")
    /\ UNCHANGED <<world, keyFiles, database, generated>>

\* Every row and the key state change in one transaction; its answer may be lost.
CommitRotation ==
    LET new == keyProc["rotate"].key
        old == keyProc["rotate"].old IN
    /\ keyProc["rotate"].at = "loaded" /\ keyProc["rotate"].role = "publish"
    /\ IF new # old /\ LockKeyState(old) /\ Decodes(old)
       THEN /\ keyRow' = IF keyRow = KeyNoRow THEN keyRow ELSE [keyRow EXCEPT !.key = new]
            /\ keyState' = [active |-> new, previous |-> old]
            /\ \E v \in {"ok"} \cup (IF faulty THEN {"error"} ELSE {}) : KeyReports("rotate", v)
       ELSE UNCHANGED <<keyRow, keyState>> /\ KeyReports("rotate", "error")
    /\ UNCHANGED <<world, keyFiles, uids, generated>>

-----------------------------------------------------------------------------
ProcessDies(p) ==
    /\ faulty /\ keyProc[p].at # "off"
    /\ KeyReports(p, "error")
    /\ UNCHANGED <<world, keyFiles, database, generated>>

\* What was not synced may be there afterwards, or not.
Survives(f) ==
    IF keyFiles[f].entry = "none" THEN {keyFiles[f]}
    ELSE (IF keyFiles[f].entry = "volatile" THEN {Absent} ELSE {})
         \cup {[key |-> keyFiles[f].key, entry |-> "durable", alias |-> al] :
                 al \in IF keyFiles[f].alias = "none" THEN {"none"} ELSE {"none", "there"}}

MachineCrashes ==
    /\ faulty
    /\ \E fa \in Survives("a"), fb \in Survives("b") :
         keyFiles' = [f \in Files |-> IF f = "a" THEN fa ELSE fb]
    /\ keyProc' = [p \in Procs |-> Off]
    /\ keyVerdict' = IF keyProc["rotate"].at = "off" THEN keyVerdict ELSE "error"
    /\ UNCHANGED <<world, database, generated>>

CrashesEnd == faulty /\ faulty' = FALSE
              /\ UNCHANGED <<provided, keyFiles, database, keyProc, generated, keyVerdict>>

\* A process that holds the publication lock goes on, and so does the command.
PublicationStep == \E p \in Procs : RemoveAlias(p) \/ SyncKeyDirectory(p)
RotationStep == \/ ReadProvisioned("rotate") \/ KeyRotateKey \/ ValidateRotationSource
                \/ ConfirmCompleted \/ CommitRotation

KeyNext ==
    \/ \E p \in Apis, f \in Files : StartApi(p, f)
    \/ \E p \in Apis, w \in Writers : SecretRequest(p, w)
    \/ \E p \in Procs : LoadKey(p)
    \/ \E p \in Procs : ReadProvisioned(p)
    \/ \E p \in Procs : RemoveAlias(p)
    \/ \E p \in Procs : SyncKeyDirectory(p)
    \/ \E p \in Procs : SyncFails(p)
    \/ \E p \in Apis : ValidateAndInitialize(p)
    \/ \E p \in Apis, w \in Writers : WriteSecret(p, w)
    \/ KeyRotateKey \/ ValidateRotationSource \/ ConfirmCompleted \/ CommitRotation
    \/ \E p \in Procs : ProcessDies(p)
    \/ MachineCrashes \/ CrashesEnd

-----------------------------------------------------------------------------
(* store.go NewWithOptions, key_rotation.go: whichever processes were      *)
(* serving while the key was rotated, every stored credential is sealed    *)
(* with the active key.  It fails if a writer does not lock the key state. *)
CredentialsReadable == keyState.active # 0 => Decodes(keyState.active)

(* store.go "Do not allow encrypted DB writes until the final name         *)
(* survives a crash": the active key is in a key file whose name has been  *)
(* persisted and which has no second link that a reader would refuse.      *)
ActiveKeySurvives ==
    keyState.active # 0 =>
        \E f \in Files : keyFiles[f] = [key |-> keyState.active, entry |-> "durable", alias |-> "none"]

(* key_rotation.go: a rotation is reported as done only when the new       *)
(* file's key is active and the old file's key is the one it replaced.     *)
DoneMeansRotated ==
    [][keyVerdict' \in Success /\ keyVerdict \notin Success =>
         /\ keyState'.active = keyFiles["b"].key
         /\ keyState'.previous = keyFiles["a"].key]_keyVars

-----------------------------------------------------------------------------
(***************************************************************************)
(* The agent's certificate from the cluster's CA to a handshake: the       *)
(* operator signs a server certificate into a Secret of the GameServer,    *)
(* kubelet projects the Secret into the pod one generation at a time, and  *)
(* the agent loads one generation for every handshake.                     *)
(***************************************************************************)
CONSTANTS Cas,         \* bound: CAs that are the agent CA one after the other
          CertLife,    \* ticks a certificate is valid
          RenewBelow   \* agentCertRenewalThreshold in ticks

VARIABLES
    ca, caSeen,     \* the CA Secret, and the operator's cached copy of it
    wantNames,      \* the DNS names the operator's release asks for
    tls, tlsSeen,   \* <gs>-agent-tls, and the operator's cached copy of it
    volume,         \* the generation ..data points to in the agent's pod
    certPass,       \* a reconcile pass: idle, or with the CA it has read
    checked,        \* a pass has looked at the current Secret since the last tick
    hello,          \* a handshake in the agent (see Hello)
    caSettled       \* the CA is not replaced again and the operator not upgraded
certVars == <<ca, caSeen, wantNames, tls, tlsSeen, volume, certPass, checked, hello, caSettled>>

NoCert == [signer |-> 0, names |-> 1, life |-> 0]
Cert == [signer : 0..Cas, names : {1, 2}, life : 0..CertLife]
\* What the agent has read: the pair, the client CA (0: not read yet); gone: kubelet removed that generation.
Hello == [stage : {"pair", "bundle"}, pair : Cert, gone : BOOLEAN]
NoHello == [stage |-> "none", served |-> NoCert, trusts |-> 0]
CertTypeOK ==
    /\ ca \in 1..Cas /\ caSeen \in 1..Cas /\ wantNames \in {1, 2} /\ tls \in Cert /\ tlsSeen \in Cert
    /\ volume \in Cert
    /\ certPass \in 0..Cas /\ checked \in BOOLEAN /\ caSettled \in BOOLEAN
    /\ hello \in Hello \cup [stage : {"none", "done"}, served : Cert, trusts : 0..Cas]

CertInit ==
    /\ ca = 1 /\ caSeen = 1 /\ wantNames = 1 /\ tls = NoCert /\ tlsSeen = NoCert /\ volume = NoCert
    /\ certPass = 0 /\ checked = FALSE /\ hello = NoHello /\ caSettled = FALSE

-----------------------------------------------------------------------------
(* The world.                                                              *)

CaReplaced ==
    /\ ~caSettled /\ ca < Cas /\ ca' = ca + 1
    /\ UNCHANGED <<caSeen, wantNames, tls, tlsSeen, volume, certPass, checked, hello, caSettled>>
OperatorUpgraded ==
    /\ ~caSettled /\ wantNames = 1 /\ certPass = 0 /\ wantNames' = 2
    /\ UNCHANGED <<ca, caSeen, tls, tlsSeen, volume, certPass, checked, hello, caSettled>>
WorldSettles ==
    /\ ~caSettled /\ caSettled' = TRUE
    /\ UNCHANGED <<ca, caSeen, wantNames, tls, tlsSeen, volume, certPass, checked, hello>>
CachesSync ==
    /\ <<caSeen, tlsSeen>> # <<ca, tls>> /\ caSeen' = ca /\ tlsSeen' = tls
    /\ UNCHANGED <<ca, wantNames, tls, volume, certPass, checked, hello, caSettled>>
\* A new generation is written beside the old one, ..data switched to it, the old one removed.
VolumeSync ==
    /\ volume # tls /\ volume' = tls
    /\ hello' = IF hello.stage \in {"pair", "bundle"} THEN [hello EXCEPT !.gone = TRUE] ELSE hello
    /\ UNCHANGED <<ca, caSeen, wantNames, tls, tlsSeen, certPass, checked, caSettled>>
\* Passes and kubelet are far quicker than a tick of a certificate's life.
Aged(c) == [c EXCEPT !.life = IF @ > 0 THEN @ - 1 ELSE 0]
TimePasses ==
    /\ checked /\ volume = tls /\ certPass = 0 /\ tls.life > 0 /\ hello.stage \in {"none", "done"}
    /\ tls' = Aged(tls) /\ tlsSeen' = Aged(tlsSeen) /\ volume' = Aged(volume) /\ checked' = FALSE
    /\ hello' = NoHello
    /\ UNCHANGED <<ca, caSeen, wantNames, certPass, caSettled>>

-----------------------------------------------------------------------------
(* The operator.                                                           *)

CertValidFor(c) == c.signer # 0 /\ c.life >= RenewBelow /\ c.names >= wantNames
\* The annotation names the CA that signed.
FingerprintMatches(c) == c.signer = caSeen
BeginCertPass ==
    /\ certPass = 0
    /\ IF CertValidFor(tlsSeen) /\ FingerprintMatches(tlsSeen)
       THEN checked' = (checked \/ tlsSeen = tls) /\ ~(checked /\ checked') /\ UNCHANGED certPass
       ELSE certPass' = caSeen /\ UNCHANGED checked
    /\ UNCHANGED <<ca, caSeen, wantNames, tls, tlsSeen, volume, hello, caSettled>>
SignAgentServerCert(by) == [signer |-> by, names |-> wantNames, life |-> CertLife]
\* CreateOrUpdate: refused when the cached copy it starts from is not the Secret's version.
WriteAgentTls ==
    /\ certPass # 0 /\ certPass' = 0
    /\ IF tlsSeen = tls
       THEN tls' = SignAgentServerCert(certPass) /\ checked' = TRUE ELSE UNCHANGED <<tls, checked>>
    /\ UNCHANGED <<ca, caSeen, wantNames, tlsSeen, volume, hello, caSettled>>

-----------------------------------------------------------------------------
(* The agent: GetConfigForClient.                                          *)

\* One generation is pinned before the first file is read.
PinGeneration ==
    /\ hello.stage \in {"none", "done"} /\ volume.signer # 0
    /\ hello' = [stage |-> "pair", pair |-> volume, gone |-> FALSE]
    /\ UNCHANGED <<ca, caSeen, wantNames, tls, tlsSeen, volume, certPass, checked, caSettled>>
\* A generation that is gone fails the handshake.
ReadPinned == hello' = IF hello.gone THEN NoHello ELSE [hello EXCEPT !.stage = "bundle"]
ReadPair ==
    /\ hello.stage = "pair" /\ ReadPinned
    /\ UNCHANGED <<ca, caSeen, wantNames, tls, tlsSeen, volume, certPass, checked, caSettled>>
PinnedBundle ==
    hello' = IF hello.gone THEN NoHello ELSE [stage |-> "done", served |-> hello.pair,
                                              trusts |-> hello.pair.signer]
ReadBundle ==
    /\ hello.stage = "bundle" /\ PinnedBundle
    /\ UNCHANGED <<ca, caSeen, wantNames, tls, tlsSeen, volume, certPass, checked, caSettled>>

CertOperatorStep == BeginCertPass \/ WriteAgentTls
CertNext ==
    \/ CaReplaced \/ OperatorUpgraded \/ WorldSettles \/ CachesSync \/ VolumeSync \/ TimePasses
    \/ CertOperatorStep \/ PinGeneration \/ ReadPair \/ ReadBundle

-----------------------------------------------------------------------------
(* Properties.                                                             *)

\* A handshake never pairs a certificate of one CA with trust in another.
OneGeneration == hello.stage = "done" => hello.served.signer = hello.trusts

\* The certificate in the pod never runs out: it is signed anew in time.
CertNeverExpires == volume.signer # 0 => volume.life > 0
=============================================================================
