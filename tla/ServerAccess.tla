----------------------------- MODULE ServerAccess -----------------------------
(*****************************************************************************)
(* Who may act on a server, and which server a request reaches. The parts    *)
(* share no state; each has its own initial states and steps.                *)
(*****************************************************************************)
EXTENDS Naturals

(***************************************************************************)
(* Who may act on a GameServer: the API's create, update and delete        *)
(* handlers, ownership transfer and collaborators, and the share links     *)
(* through which anyone may look at a server and wake it.  Requests run    *)
(* concurrently; between a request's reads and its write the server may    *)
(* change hands, or be deleted and created again under the same name.      *)
(***************************************************************************)
CONSTANTS SharingOwners,   \* users who create servers and receive them
          Admins,          \* users with the wildcard permission
          LastUid,         \* bound: servers created under the one name modelled; the last is not deleted
          OpenRequests,    \* bound: requests running at once
          PatchAttempts    \* ownerOnlyPatchAttempts

VARIABLES
    live,          \* the GameServer: [uid (0: none), owner, collab, deleting, woken]
    sharingMade,   \* servers created so far
    links,         \* servers whose share link is neither revoked nor expired
    sharingOpen    \* requests under way (see Ask)
sharingVars == <<live, sharingMade, links, sharingOpen>>

SharingCallers == SharingOwners \cup Admins
NoServer == [uid |-> 0, owner |-> 0, collab |-> {}, deleting |-> FALSE, woken |-> FALSE]
SharingServer == [uid : 0..LastUid, owner : {0} \cup SharingOwners, collab : SUBSET SharingOwners,
                  deleting : BOOLEAN, woken : BOOLEAN]
OwnerOnly == {"transfer", "collaborators", "delete"}
NoCopy == [owner |-> 0, collab |-> {}]
SharingCopy == [owner : {0} \cup SharingOwners, collab : SUBSET SharingOwners]
\* uid: the server the request is about; copy: the ownership it read; fresh: nothing was written since.
SharingAsk == [id : 1..OpenRequests, kind : OwnerOnly \cup {"update", "share", "wake"},
               caller : {0} \cup SharingCallers, arg : {0} \cup SharingOwners,
               uid : 0..LastUid, stage : {"admitted", "checked", "revoking"},
               copy : SharingCopy, fresh : BOOLEAN, attempt : 1..PatchAttempts]
SharingTypeOK ==
    /\ live \in SharingServer /\ sharingMade \in 0..LastUid /\ links \subseteq 1..LastUid
    /\ sharingOpen \subseteq SharingAsk /\ \A q, r \in sharingOpen : q.id = r.id => q = r

SharingInit == live = NoServer /\ sharingMade = 0 /\ links = {} /\ sharingOpen = {}

\* Every write gives the server a new resourceVersion, so the copies others read before it are stale.
Stale(rs) ==
    {CASE r.kind = "update" -> [r EXCEPT !.fresh = FALSE, !.copy = NoCopy]     \* will be refused
       [] r.kind # "update" /\ r.stage = "checked" -> [r EXCEPT !.fresh = FALSE]
       [] OTHER -> r : r \in rs}
Writes(s, rs) == live' = s /\ sharingOpen' = Stale(rs)
SharingEnds(r) == sharingOpen' = sharingOpen \ {r}
SharingTurns(r, next) == sharingOpen' = (sharingOpen \ {r}) \cup {next}

-----------------------------------------------------------------------------
(* The world outside the requests.                                         *)

\* The creating caller is stamped as owner; collaborators the client sent are dropped.
StampOwner(s, u) == [s EXCEPT !.owner = u, !.collab = {}]
CreateServer(u) ==
    /\ live.uid = 0 /\ sharingMade < LastUid /\ sharingMade' = sharingMade + 1
    /\ live' = StampOwner([NoServer EXCEPT !.uid = sharingMade'], u) /\ UNCHANGED <<links, sharingOpen>>
\* The operator's finalizers are done.
ServerGone == live.deleting /\ Writes(NoServer, sharingOpen) /\ UNCHANGED <<sharingMade, links>>
\* A link expires, or an owner revokes it: the row is found by id and server name, whichever server of that
\* name the link was made for.
RevokedRow(l) == links \ {l}
RevokeShareLink(l) == l \in links /\ links' = RevokedRow(l) /\ UNCHANGED <<live, sharingMade, sharingOpen>>

-----------------------------------------------------------------------------
(* Admission by the RBAC middleware, and what the handler reads first.     *)

FreeId == 1..OpenRequests \ {r.id : r \in sharingOpen}
Receive(r) ==
    FreeId # {} /\ sharingOpen' = sharingOpen \cup {[r EXCEPT !.id = CHOOSE i \in FreeId : \A j \in FreeId : i <= j]}
SharingAdmits(u) == u \in Admins \/ u = live.owner \/ u \in live.collab
Admit(kind, u, arg) ==
    /\ live.uid # 0 /\ SharingAdmits(u) /\ (kind \in OwnerOnly => u \in Admins \cup {live.owner})
    /\ Receive([id |-> 0, kind |-> kind, caller |-> u, arg |-> arg, uid |-> live.uid, stage |-> "admitted",
                copy |-> NoCopy, fresh |-> TRUE, attempt |-> 1])
    /\ UNCHANGED <<live, sharingMade, links>>
BeginTransfer(u, to) == Admit("transfer", u, to)
BeginCollaborators(u) == Admit("collaborators", u, 0)
SharingBeginDelete(u) == live.uid < LastUid /\ Admit("delete", u, 0)
BeginUpdate(u) == Admit("update", u, 0)
BeginShare(u) == u = live.owner /\ Admit("share", u, 0)
\* A visitor presents a link's token: only the link, neither revoked nor expired, is looked at.
LookupShareLink(l) ==
    /\ l \in links
    /\ Receive([id |-> 0, kind |-> "wake", caller |-> 0, arg |-> 0, uid |-> l, stage |-> "admitted",
                copy |-> NoCopy, fresh |-> TRUE, attempt |-> 1])
    /\ UNCHANGED <<live, sharingMade, links>>

IsServerOwner(u) == live.owner = u
RequireOwnerOrAdmin(r) == r.caller \in Admins \/ IsServerOwner(r.caller)
\* A link bound to a UID is valid only while the live server's UID equals it.
ServerReplacedSinceLink(r) == live.uid # r.uid
AuthorizedServer(r) ==
    /\ live.uid # 0
    /\ CASE r.kind \in OwnerOnly -> live.uid = r.uid /\ RequireOwnerOrAdmin(r)
         [] r.kind = "update" -> TRUE
         [] r.kind = "share" -> IsServerOwner(r.caller)
         [] r.kind = "wake" -> ~ServerReplacedSinceLink(r)
Read(kind) == IF kind \in {"collaborators", "update"} THEN [owner |-> live.owner,
                                                            collab |-> live.collab] ELSE NoCopy
\* The PUT carries the resourceVersion its client read; every other request is bound to what it reads here.
ReadServer(r) ==
    /\ r.stage = "admitted"
    /\ IF ~AuthorizedServer(r) THEN SharingEnds(r)
       ELSE SharingTurns(r, [r EXCEPT !.stage = "checked", !.copy = Read(r.kind),
                             !.uid = IF r.kind = "share" THEN live.uid ELSE @])
    /\ UNCHANGED <<live, sharingMade, links>>

-----------------------------------------------------------------------------
(* The writes.                                                             *)

\* collaboratorAnnotations drops the owner of the server the check was made against.
CollaboratorAnnotations(s) == SharingOwners \ {s.owner}
\* protectServerAnnotations puts back the ownership annotations of the server the handler read.
ProtectServerAnnotations(s) == [live EXCEPT !.owner = s.owner, !.collab = s.collab]
Patched(r) ==
    CASE r.kind = "transfer" -> [live EXCEPT !.owner = r.arg]
      [] r.kind = "collaborators" -> [live EXCEPT !.collab = CollaboratorAnnotations(r.copy)]
      [] r.kind = "update" -> ProtectServerAnnotations(r.copy)
      [] r.kind = "wake" -> [live EXCEPT !.woken = TRUE]
\* conditionObjectPatch: UID and resourceVersion of the object that was checked.
Preconditions(r) == r.fresh
\* After a conflict the server is read again and the caller checked again, up to the last attempt.
Recheck(r) == live.uid # 0 /\ RequireOwnerOrAdmin(r) /\ live.uid = r.uid
Rebuilt(r) == Read(r.kind)
PatchServerAsOwner(r) ==
    /\ r.stage = "checked" /\ r.kind \in {"transfer", "collaborators"} /\ UNCHANGED <<sharingMade, links>>
    /\ IF Preconditions(r) THEN Writes(Patched(r), sharingOpen \ {r})
       ELSE IF live.uid # 0 /\ r.attempt < PatchAttempts /\ Recheck(r)
            THEN SharingTurns(r, [r EXCEPT !.copy = Rebuilt(r), !.fresh = TRUE,
                                  !.attempt = @ + 1]) /\ UNCHANGED live
       ELSE SharingEnds(r) /\ UNCHANGED live
\* A PUT and a visitor's wake give up on a conflict.
WriteOnce(r) == IF Preconditions(r) THEN Writes(Patched(r),
                                                sharingOpen \ {r}) ELSE SharingEnds(r) /\ UNCHANGED live
UpdateServer(r) ==
    r.stage = "checked" /\ r.kind = "update" /\ WriteOnce(r) /\ UNCHANGED <<sharingMade, links>>
StartShare(r) == r.stage = "checked" /\ r.kind = "wake" /\ WriteOnce(r) /\ UNCHANGED <<sharingMade, links>>
SharingDeleteServer(r) ==
    /\ r.stage = "checked" /\ r.kind = "delete" /\ UNCHANGED <<sharingMade, links>>
    /\ IF Preconditions(r) THEN Writes([live EXCEPT !.deleting = TRUE],
                                       (sharingOpen \ {r}) \cup {[r EXCEPT !.stage = "revoking"]})
       ELSE SharingEnds(r) /\ UNCHANGED live
\* The delete handler then revokes the links of that name; a failure is only logged.
RevokeShareLinksForServer(r) ==
    /\ r.stage = "revoking" /\ SharingEnds(r) /\ UNCHANGED <<live, sharingMade>>
    /\ links' \in {{}, links}
CreateShareLinkForServer(r) ==
    /\ r.stage = "checked" /\ r.kind = "share" /\ SharingEnds(r)
    /\ links' = links \cup {r.uid} /\ UNCHANGED <<live, sharingMade>>
SharingRequest(r) ==
    \/ ReadServer(r) \/ PatchServerAsOwner(r) \/ UpdateServer(r) \/ StartShare(r) \/ SharingDeleteServer(r)
    \/ RevokeShareLinksForServer(r) \/ CreateShareLinkForServer(r)
SharingNext ==
    \/ \E u \in SharingOwners : CreateServer(u)
    \/ ServerGone
    \/ \E l \in 1..LastUid : RevokeShareLink(l) \/ LookupShareLink(l)
    \/ \E u \in SharingCallers : \/ \E to \in SharingOwners \ {live.owner} : BeginTransfer(u, to)
                                 \/ BeginCollaborators(u) \/ SharingBeginDelete(u) \/ BeginUpdate(u)
                                 \/ BeginShare(u)
    \/ \E r \in sharingOpen : SharingRequest(r)

-----------------------------------------------------------------------------
(* Properties.                                                             *)

\* The requests a step completes while it changes the server.
Acting == {r \in sharingOpen : \A q \in sharingOpen' : <<q.id, q.stage>> # <<r.id, r.stage>>}

\* A server changes hands, collaborators or is deleted only for a caller who owns it, or is an admin, at
\* the moment of the write: the rights checked before a concurrent transfer do not outlive it.
OwnerActs ==
    [][live.uid # 0 /\ live'.uid = live.uid /\ <<live'.owner, live'.collab,
                                                 live'.deleting>> # <<live.owner, live.collab, live.deleting>>
       => \E r \in Acting : r.caller \in Admins \cup {live.owner}]_sharingVars

\* No request has an effect on another server than the one it was admitted for: a server created again
\* under the name is not woken by the old server's link, nor transferred, edited or deleted by a request
\* about the old one.
NoEffectOnReplacement ==
    [][live.uid # 0 /\ live'.uid = live.uid /\ live' # live => \E r \in Acting : r.uid = live.uid]_sharingVars

\* Collaborators are stored without the owner the server has at that moment, also when a transfer overtakes
\* the edit.
CollaboratorsWithoutOwner ==
    [][live'.uid = live.uid /\ live'.collab # live.collab => live'.owner \notin live'.collab]_sharingVars

-----------------------------------------------------------------------------
(***************************************************************************)
(* The way of a request from the API to a server's agent or stdin          *)
(* (api/internal/ws, api/internal/gateway, agent/internal/target): the     *)
(* ownership check binds it to a server's uid, the route resolves the      *)
(* server again, at home or behind a cluster's gateway, and the far end    *)
(* compares uids.  Meanwhile the server may be deleted and another created *)
(* under the same name, with the old StatefulSet, Service and pod going    *)
(* away in their own time.                                                 *)
(***************************************************************************)
CONSTANTS LastServer,        \* bound: servers of that name, one after the other
          LastCredential,    \* bound: credentials of the cluster's gateway
          ReplacedAtAttach   \* may the pod be replaced between the check of its owners and pods/attach?

VARIABLES
    gsUid,         \* the GameServer of that name, 0 when there is none
    terminating,   \* it has a deletion timestamp
    routeMade,     \* servers created so far
    setOf,         \* the server whose StatefulSet has that name, 0 when there is none
    podOf,         \* the server whose pod <name>-0 is; its agent knows that uid
    serviceOf,     \* the server whose <name>-agent Service is
    gatewayCred,   \* the credential in the cluster's registration
    op             \* the request (see Op)
routeVars == <<gsUid, terminating, routeMade, setOf, podOf, serviceOf, gatewayCred, op>>
routeWorldVars == <<gsUid, terminating, routeMade, setOf, podOf, serviceOf, gatewayCred>>

Uids == 0..LastServer
RouteKinds == {"agent", "rcon", "stdin", "console"}
\* bound: the server that granted the request, 0 for a grant on the namespace; uid: the server it was
\* resolved to; cred: the gateway credential it carries; since: the one registered when it began; hit: the
\* server it reached.
Op == [kind : RouteKinds, remote : BOOLEAN, bound : Uids, uid : Uids, cred : 0..LastCredential,
       since : 0..LastCredential,
       hit : Uids, stage : {"resolve", "load", "dial", "agent", "owners", "attach", "done"}]
NoOp == [stage |-> "none"]
RouteTypeOK ==
    /\ {gsUid, setOf, podOf, serviceOf} \subseteq Uids /\ terminating \in BOOLEAN
    /\ routeMade \in 1..LastServer
    /\ gatewayCred \in 1..LastCredential /\ op \in Op \cup {NoOp}

RouteInit ==
    /\ gsUid = 1 /\ routeMade = 1 /\ terminating = FALSE /\ setOf = 1 /\ podOf = 1 /\ serviceOf = 1
    /\ gatewayCred = 1 /\ op = NoOp

-----------------------------------------------------------------------------
(* The cluster.                                                            *)

AttachPending == op.stage = "attach"
ServerDeleted ==
    /\ gsUid # 0
    /\ IF terminating THEN gsUid' = 0 /\ terminating' = FALSE ELSE terminating' = TRUE /\ UNCHANGED gsUid
    /\ UNCHANGED <<routeMade, setOf, podOf, serviceOf, gatewayCred, op>>
ServerCreated ==
    /\ gsUid = 0 /\ routeMade < LastServer /\ routeMade' = routeMade + 1 /\ gsUid' = routeMade + 1
    /\ UNCHANGED <<terminating, setOf, podOf, serviceOf, gatewayCred, op>>
\* What a deleted server leaves is collected in any order; the operator and the StatefulSet controller make
\* what is missing.
Collected(owner) == owner # 0 /\ owner # gsUid
ChildrenMove ==
    /\ \/ Collected(setOf) /\ setOf' = 0 /\ UNCHANGED <<podOf, serviceOf>>
       \/ Collected(serviceOf) /\ serviceOf' = 0 /\ UNCHANGED <<setOf, podOf>>
       \/ Collected(podOf) /\ podOf # setOf /\ podOf' = 0 /\ UNCHANGED <<setOf, serviceOf>>
       \/ setOf = 0 /\ gsUid # 0 /\ ~terminating /\ setOf' = gsUid /\ UNCHANGED <<podOf, serviceOf>>
       \/ serviceOf = 0 /\ gsUid # 0 /\ ~terminating /\ serviceOf' = gsUid /\ UNCHANGED <<setOf, podOf>>
       \/ /\ podOf = 0 /\ setOf # 0 /\ (AttachPending => ReplacedAtAttach)
          /\ podOf' = setOf /\ UNCHANGED <<setOf, serviceOf>>
    /\ UNCHANGED <<gsUid, terminating, routeMade, gatewayCred, op>>
CredentialRotated ==
    /\ gatewayCred < LastCredential /\ gatewayCred' = gatewayCred + 1
    /\ UNCHANGED <<gsUid, terminating, routeMade, setOf, podOf, serviceOf, op>>

-----------------------------------------------------------------------------
(* The request.                                                            *)

RouteGoes(stage) == op' = [op EXCEPT !.stage = stage]
NotFound == RouteGoes("done")
Rests == op.stage \in {"none", "done"}
\* rbac.Middleware: owners and collaborators are bound to the server read there, a namespace permission is
\* not.
Authorize(kind, remote, owner) ==
    /\ Rests /\ (owner => gsUid # 0) /\ UNCHANGED routeWorldVars
    /\ op' = [kind |-> kind, remote |-> remote, bound |-> IF owner THEN gsUid ELSE 0, uid |-> 0, cred |-> 0,
              since |-> IF remote THEN gatewayCred ELSE 0, hit |-> 0,
              stage |-> IF kind = "console" THEN "owners" ELSE "resolve"]

ValidateServerIdentity(uid) == uid # 0 /\ op.bound \in {0, uid}
Resolved(cred) ==
    op' = [op EXCEPT !.uid = gsUid, !.cred = cred, !.stage = IF op.kind = "agent" THEN "dial" ELSE "load"]
LocalAgentTarget ==
    /\ op.stage = "resolve" /\ ~op.remote /\ UNCHANGED routeWorldVars
    /\ IF ValidateServerIdentity(gsUid) THEN Resolved(0) ELSE NotFound
RegisteredCredential == gatewayCred
ResolveGateway ==
    /\ op.stage = "resolve" /\ op.remote /\ UNCHANGED routeWorldVars
    /\ IF ValidateServerIdentity(gsUid) THEN Resolved(RegisteredCredential) ELSE NotFound
\* runAction reads the server once more with its template, then proxies or writes stdin.
RunAction ==
    /\ op.stage = "load" /\ UNCHANGED routeWorldVars
    /\ IF gsUid = op.uid THEN RouteGoes(IF op.kind = "rcon" THEN "dial" ELSE "owners") ELSE NotFound
\* The gateway checks the server and its Service before it proxies; at home the request goes straight to the
\* Service.
VerifyTarget == gsUid = op.uid /\ ~terminating /\ serviceOf = op.uid
DialGateway ==
    /\ op.stage = "dial" /\ op.remote /\ UNCHANGED routeWorldVars
    /\ IF VerifyTarget THEN RouteGoes("agent") ELSE NotFound
DialHome == op.stage = "dial" /\ ~op.remote /\ RouteGoes("agent") /\ UNCHANGED routeWorldVars
\* The agent behind the Service answers only for its own server.
Guard == podOf = op.uid
AgentServes ==
    /\ op.stage = "agent" /\ UNCHANGED routeWorldVars
    /\ IF podOf # 0 /\ Guard THEN op' = [op EXCEPT !.hit = podOf, !.stage = "done"] ELSE NotFound
\* serverPodForUID: the server, its StatefulSet and its pod form the chain of owners.
RouteOwners == gsUid # 0 /\ setOf = gsUid /\ podOf = setOf
ServerPodForUID ==
    /\ op.stage = "owners" /\ UNCHANGED routeWorldVars
    /\ IF RouteOwners /\ ValidateServerIdentity(gsUid) /\ op.uid \in {0, gsUid}
       THEN op' = [op EXCEPT !.uid = gsUid, !.stage = "attach"] ELSE NotFound
\* pods/attach takes the pod's name.
AttachByName ==
    /\ op.stage = "attach" /\ UNCHANGED routeWorldVars
    /\ op' = [op EXCEPT !.hit = podOf, !.stage = "done"]

RouteNext ==
    \/ ServerDeleted \/ ServerCreated \/ ChildrenMove \/ CredentialRotated
    \/ \E kind \in RouteKinds, remote, owner \in BOOLEAN : Authorize(kind, remote, owner)
    \/ LocalAgentTarget \/ ResolveGateway \/ RunAction \/ DialGateway \/ DialHome
    \/ AgentServes \/ ServerPodForUID \/ AttachByName

-----------------------------------------------------------------------------
(* Properties.                                                             *)

Reached == op.stage = "done" /\ op.hit # 0
\* A request reaches the server it was resolved to, never one that took its name or one that left its pod
\* behind.
ReachesResolvedServer == Reached => op.hit = op.uid

\* A request granted because of who owns a server reaches that server and no other of that name.
ReachesGrantedServer == Reached /\ op.bound # 0 => op.hit = op.bound
=============================================================================
