--------------------------- MODULE AccountsAndLogin ---------------------------
(*****************************************************************************)
(* Accounts, roles and single sign-on. The parts share no state; each has    *)
(* its own initial states and steps.                                         *)
(*****************************************************************************)
EXTENDS Naturals, FiniteSets

(***************************************************************************)
(* User accounts, roles and role bindings of the API: the users and roles  *)
(* handlers and the role a single-sign-on login assigns.  Requests run     *)
(* concurrently against one database; a process-wide mutex                 *)
(* (LockUserManagement) covers only some of them, and only from the point  *)
(* where they take it.  Namespace bindings grant no control-plane          *)
(* permission and are left out, and so are sessions: every request reads   *)
(* its caller's permissions anew.                                          *)
(***************************************************************************)
CONSTANTS FirstUsers,           \* accounts that exist at the start; 1 is the bootstrapped administrator
          LaterUsers,           \* identities an account may be created for
          NewRoles,             \* roles an administrator gives a new account
          AccountConcurrency,   \* bound: requests in flight at once
          RemoteUsers,          \* bound: accounts whose remote-cluster bindings are edited
          Hasty,                \* whether an account may be edited before its creation is answered
          PostFails             \* whether the second write of a creation may fail

Users == FirstUsers \cup LaterUsers
ASSUME AccountAssumption == IsFiniteSet(Users) /\ 1 \in FirstUsers /\ RemoteUsers \subseteq Users
Roles == {"admin", "viewer", "custom"}
\* What a role's permissions amount to: nothing, namespaced and inventory permissions only, or the
\* management of users.
Contents == {"empty", "remote", "manage"}

VARIABLES
    roles,     \* the rows of roles
    grants,    \* the rows of role_permissions, per role name
    account,   \* per user: the users row (its primary role) and the bindings
    inFlight   \* the requests past their first checks; one at "passed" holds LockUserManagement
accountVars == <<roles, grants, account, inFlight>>

NoAccount == [id |-> "new", row |-> FALSE, role |-> "viewer", primary |-> {}, remoteWide |-> {}]
AccountRequest == [op : {"create", "update", "delete", "sync", "roleUpdate", "roleDelete", "bindRemote"},
                   at : {"asked", "passed", "bind"},
                    own : Roles \cup {"other"}, user : Users \cup {0}, role : Roles, perms : Contents]

AccountTypeOK ==
    /\ roles \subseteq Roles /\ grants \in [Roles -> Contents] /\ inFlight \subseteq AccountRequest
    /\ account \in [Users -> [id : {"new", "used"}, row : BOOLEAN, role : Roles, primary : SUBSET Roles,
                              remoteWide : SUBSET Roles]]

AccountInit ==
    /\ roles = Roles /\ grants = [r \in Roles |-> IF r = "admin" THEN "manage" ELSE "remote"]
    /\ account = [u \in Users |-> IF u \notin FirstUsers THEN NoAccount
                                  ELSE LET r == IF u = 1 THEN "admin" ELSE "viewer"
                                       IN [NoAccount EXCEPT !.id = "used", !.row = TRUE, !.role = r,
                                           !.primary = {r}, !.remoteWide = {"custom"}]]
    /\ inFlight = {}

-----------------------------------------------------------------------------
(* What the handlers ask the database.                                     *)

\* LoadPerms joins the bindings with the permissions on every request.
CanManage(u) == \E r \in account[u].primary : grants[r] = "manage"
\* RoleGrantsUserManagement, UserManagesUsers and UserManagerCount read the primary role instead.
RoleGrantsUserManagement(r) == grants[r] = "manage"
UserManagers == {u \in Users : account[u].row /\ grants[account[u].role] = "manage"}
UserManagersExcludingRole(r) == {u \in UserManagers : account[u].role # r}
RemoteWideAllowed(content) == content \in {"empty", "remote"}
InUse(r) == \E u \in Users : r \in account[u].primary \cup account[u].remoteWide
\* The transaction behind a change of the primary role; other bindings stay.
SetRole(u, r) == account' = [account EXCEPT ![u].role = r, ![u].primary = {r}]

\* Authenticate and the RBAC middleware: the caller may manage users now.  `own` is the caller's role as
\* the session lookup read it, kept where a later check is about the caller.
AccountAsk(op, user, role, perms, own) ==
           /\ Cardinality(inFlight) < AccountConcurrency
           /\ inFlight' = inFlight \cup {[op |-> op, at |-> "asked", own |-> own, user |-> user,
                                          role |-> role, perms |-> perms]}
AccountCallers == {u \in Users : account[u].row /\ CanManage(u)}
Moves(q, at) == inFlight' = (inFlight \ {q}) \cup {[q EXCEPT !.at = at]}
Answer(q) == inFlight' = inFlight \ {q}
\* Variant: the checks and the commit are not under one lock.
Unlocked == TRUE
\* LockUserManagement is held from the checks to the commit.
AccountLockFree == \A q \in inFlight : q.at # "passed"
Check(q, op, guard) ==
    /\ q.op = op /\ q.at = "asked" /\ AccountLockFree
    /\ IF guard THEN Moves(q, "passed") ELSE Answer(q)
    /\ UNCHANGED <<roles, grants, account>>
Commit(q, op) == q.op = op /\ q.at = "passed" /\ Answer(q)
AccountKnown(u) == account[u].row /\ (Hasty \/ \A q \in inFlight : ~(q.op = "create" /\ q.user = u))

-----------------------------------------------------------------------------
(* Accounts.                                                               *)

\* Ids are AUTOINCREMENT: a deleted account's is not given again. POST /users checks the role, inserts the
\* account and then, in a separate write, its binding.
CreateAsk ==
    /\ AccountCallers # {}
    /\ \E u \in LaterUsers, role \in NewRoles \cap roles :
          account[u].id = "new" /\ AccountAsk("create", u, role, "empty", "other")
    /\ UNCHANGED <<roles, grants, account>>
CreateInsert(q) ==
    /\ q.op = "create" /\ q.at = "asked"
    /\ IF account[q.user].id # "new" THEN Answer(q) /\ UNCHANGED account      \* the username is taken
       ELSE Moves(q, "bind") /\ account' = [account EXCEPT ![q.user] = [NoAccount EXCEPT !.id = "used",
                                                                        !.row = TRUE, !.role = q.role]]
    /\ UNCHANGED <<roles, grants>>
CreateBind(q) ==
    /\ q.op = "create" /\ q.at = "bind" /\ Answer(q)
    /\ account' \in {[account EXCEPT ![q.user].primary = {q.role}]} \cup (IF PostFails THEN {account} ELSE {})
    /\ UNCHANGED <<roles, grants>>

\* PATCH /users/{id} with a role.  The role's existence is checked before the mutex is taken.
UpdateAsk ==
    /\ \E by \in AccountCallers, u \in Users, role \in roles :
        AccountKnown(u) /\ AccountAsk("update", u, role, "empty",
                                      IF by = u THEN account[by].role ELSE "other")
    /\ UNCHANGED <<roles, grants, account>>
LastManager(u) == u \in UserManagers /\ Cardinality(UserManagers) <= 1
OwnRoleChanges(q) == q.own # "other" /\ q.role # q.own
UpdateCheck(q) ==
    Check(q, "update", RoleGrantsUserManagement(q.role) \/ (~OwnRoleChanges(q) /\ ~LastManager(q.user)))
\* An account gone meanwhile answers 404.
UpdateCommit(q) ==
    /\ Commit(q, "update")
    /\ IF account[q.user].row THEN SetRole(q.user, q.role) ELSE UNCHANGED account
    /\ UNCHANGED <<roles, grants>>

\* DELETE /users/{id}: never oneself, never the last who manages users.
DeleteAsk ==
    /\ \E by \in AccountCallers, u \in Users :
          u # by /\ AccountKnown(u) /\ AccountAsk("delete", u, "viewer", "empty", "other")
    /\ UNCHANGED <<roles, grants, account>>
DeleteCheck(q) == Check(q, "delete", ~LastManager(q.user))
DeleteCommit(q) ==
    /\ Commit(q, "delete") /\ account' = [account EXCEPT ![q.user] = [NoAccount EXCEPT !.id = "used"]]
    /\ UNCHANGED <<roles, grants>>

\* The callback of a linked account whose groups map to a role; a first login creates account, link and
\* binding in one transaction.
SyncAsk ==
    /\ \E u \in LaterUsers, role \in {"admin", "viewer"} :
        IF account[u].row
        THEN AccountKnown(u) /\ AccountAsk("sync", u, role, "empty", "other") /\ UNCHANGED account
        ELSE /\ account[u].id = "new"
             /\ account' = [account EXCEPT
                              ![u] = [NoAccount EXCEPT !.id = "used", !.row = TRUE, !.role = role, !.primary = {role}]]
             /\ UNCHANGED inFlight
    /\ UNCHANGED <<roles, grants>>
\* syncUserRole: the identity provider decides the role, except that the last manager keeps theirs.
SyncCheck(q) ==
    Check(q, "sync", /\ account[q.user].row /\ q.role # account[q.user].role
                     /\ RoleGrantsUserManagement(q.role) \/ ~LastManager(q.user))
SyncCommit(q) ==
    /\ Commit(q, "sync") /\ SetRole(q.user, q.role) /\ UNCHANGED <<roles, grants>>

-----------------------------------------------------------------------------
(* Roles and supplemental bindings.                                        *)

\* POST /roles: one transaction; permission rows left under the name add to the new ones.
RoleCreate ==
    /\ "custom" \notin roles /\ AccountCallers # {} /\ roles' = roles \cup {"custom"}
    /\ \E c \in Contents : grants' = [grants EXCEPT !["custom"] = IF c = "empty" \/ @ = "manage" THEN @ ELSE c]
    /\ UNCHANGED <<account, inFlight>>
\* PATCH /roles/{name}: the administrator role is fixed; existence is checked before the mutex.
RoleUpdateAsk ==
    /\ \E by \in AccountCallers, role \in roles \ {"admin"}, c \in {"remote", "manage"} :
        c # grants[role] /\ AccountAsk("roleUpdate", 0, role, c,
                                       IF account[by].role = role THEN role ELSE "other")
    /\ UNCHANGED <<roles, grants, account>>
\* userManagementGuard: not one's own role, and someone outside the role must still manage users.
UserManagementGuard(q) ==
    q.perms # "manage" /\ RoleGrantsUserManagement(q.role)
        => q.own # q.role /\ (UserManagers # {} => UserManagersExcludingRole(q.role) # {})
RoleUpdateCheck(q) ==
    Check(q, "roleUpdate", /\ RemoteWideAllowed(q.perms) \/ \A u \in Users : q.role \notin account[u].remoteWide
                           /\ UserManagementGuard(q))
RoleUpdateCommit(q) ==
    /\ Commit(q, "roleUpdate") /\ grants' = [grants EXCEPT ![q.role] = q.perms]
    /\ UNCHANGED <<roles, account>>
\* DELETE /roles/{name}: built-in roles and roles in use stay.
RoleDeleteAsk ==
    /\ "custom" \in roles /\ AccountCallers # {} /\ AccountAsk("roleDelete", 0, "custom", "empty", "other")
    /\ UNCHANGED <<roles, grants, account>>
RoleDeleteCheck(q) == Check(q, "roleDelete", q.role \in roles /\ ~InUse(q.role))
RoleDeleteCommit(q) ==
    /\ Commit(q, "roleDelete") /\ roles' = roles \ {q.role} /\ grants' = [grants EXCEPT ![q.role] = "empty"]
    /\ UNCHANGED account

\* POST /users/{id}/bindings for a whole remote cluster: everything under the mutex.
BindRemoteAsk ==
    /\ AccountCallers # {} /\ "custom" \in roles
    /\ \E u \in RemoteUsers : AccountAsk("bindRemote", u, "custom", "empty", "other")
    /\ UNCHANGED <<roles, grants, account>>
BindRemoteCheck(q) ==
    Check(q, "bindRemote", /\ q.role \in roles /\ RemoteWideAllowed(grants[q.role])
                           /\ account[q.user].row /\ q.role \notin account[q.user].remoteWide)
BindRemoteCommit(q) ==
    /\ Commit(q, "bindRemote") /\ account' = [account EXCEPT ![q.user].remoteWide = @ \cup {q.role}]
    /\ UNCHANGED <<roles, grants>>
\* DELETE /users/{id}/bindings/..., for a role that may be granted so.
Unbind ==
    /\ AccountCallers # {} /\ AccountLockFree
    /\ \E u \in Users : \E role \in account[u].remoteWide :
        RemoteWideAllowed(grants[role]) /\ account' = [account EXCEPT ![u].remoteWide = @ \ {role}]
    /\ UNCHANGED <<roles, grants, inFlight>>

AccountNext ==
    \/ CreateAsk \/ UpdateAsk \/ DeleteAsk \/ SyncAsk \/ RoleCreate \/ RoleUpdateAsk \/ RoleDeleteAsk
    \/ BindRemoteAsk \/ Unbind
    \/ \E q \in inFlight :
        \/ CreateInsert(q) \/ CreateBind(q) \/ UpdateCheck(q) \/ UpdateCommit(q) \/ DeleteCheck(q)
        \/ DeleteCommit(q)
        \/ SyncCheck(q) \/ SyncCommit(q) \/ RoleUpdateCheck(q) \/ RoleUpdateCommit(q)
        \/ RoleDeleteCheck(q) \/ RoleDeleteCommit(q) \/ BindRemoteCheck(q) \/ BindRemoteCommit(q)

-----------------------------------------------------------------------------
(* Properties.                                                             *)

\* However demotions, deletions, role edits and single-sign-on logins interleave, some account can still
\* manage users: its bindings grant it, not just the role its row names.  An account half created counts
\* by the binding its creation is about to write.
SomeoneManages ==
    \E u \in Users : account[u].row /\ \/ CanManage(u)
                                       \/ \E q \in inFlight :
                                              q.op = "create" /\ q.at = "bind" /\ q.user = u /\ grants[q.role] = "manage"

\* A binding over a whole remote cluster never carries a control-plane permission, neither when it is
\* made nor when its role is edited later.
RemoteWideLimited == \A u \in Users : \A r \in account[u].remoteWide : RemoteWideAllowed(grants[r])

-----------------------------------------------------------------------------
(***************************************************************************)
(* The registry of identity providers (api/internal/auth/registry.go): the *)
(* auth row of the configuration is read on every resolve, while a built   *)
(* OIDC client, or the error of a failed build, is cached against the      *)
(* row's hash for a while.  One provider, several requests at once.        *)
(***************************************************************************)
CONSTANTS RegistryVersions,   \* bound: versions of the auth row and of the client secret
          RebuildTtl,         \* ticks of rebuildTTL
          BackoffTtl,         \* ticks of errorBackoffTTL
          Resolvers           \* requests resolving the provider at once

VARIABLES
    registryRow,    \* the auth row: version and what it says of the provider
    clientSecret,   \* the provider's Secret: version; 0 when absent, unlabelled or without the key
    externalUrl,    \* is the External URL set?
    issuerUp,       \* does discovery answer?
    built,          \* the cache entry: result, the row it was built for, ticks since builtAt
    resolver,       \* per request: what it has read (see Resolver)
    rotated,        \* ticks since the Secret last changed
    answer,         \* the last client handed out (see Answer)
    idpSettled      \* configuration complete, issuer up, no more changes
registryVars == <<registryRow, clientSecret, externalUrl, issuerUp, built, resolver, rotated, answer,
                  idpSettled>>
configVarsOfIdp == <<registryRow, clientSecret, externalUrl, issuerUp, idpSettled>>

Uses == {"enabled", "disabled", "malformed"}
NoEntry == [client |-> 0, row |-> 0, age |-> 0, ok |-> FALSE]
RegistryEntry == [client : 0..RegistryVersions, row : 0..RegistryVersions, age : 0..RebuildTtl, ok : BOOLEAN]
RegistryResting == [stage |-> "idle", row |-> 0, secret |-> 0]
Resolver == [stage : {"idle", "lookup", "build", "publish"}, row : 0..RegistryVersions,
             secret : 0..RegistryVersions]
\* for: the row the request read; from: the row the client was built for; late: for how long the Secret in
\* the client has been replaced.
RegistryNoClient == [for |-> 0, from |-> 0, late |-> 0]
Client(for, from, secret) == [for |-> for, from |-> from,
                              late |-> IF secret = clientSecret THEN 0 ELSE rotated]
RegistryTypeOK ==
    /\ registryRow \in [version : 1..RegistryVersions, says : Uses] /\ clientSecret \in 0..RegistryVersions
    /\ externalUrl \in BOOLEAN
    /\ issuerUp \in BOOLEAN /\ built \in RegistryEntry /\ resolver \in [Resolvers -> Resolver]
    /\ rotated \in 0..RebuildTtl /\ idpSettled \in BOOLEAN
    /\ answer \in [for : 0..RegistryVersions, from : 0..RegistryVersions, late : 0..RebuildTtl]

RegistryInit ==
    /\ registryRow = [version |-> 1, says |-> "enabled"] /\ clientSecret = 1 /\ externalUrl \in BOOLEAN
    /\ issuerUp = TRUE
    /\ built = NoEntry /\ resolver = [q \in Resolvers |-> RegistryResting] /\ rotated = 0
    /\ answer = RegistryNoClient /\ idpSettled = FALSE

-----------------------------------------------------------------------------
(* The administrator, the Secret, the issuer and time.                     *)

SaveAuthRow ==
    /\ ~idpSettled /\ registryRow.version < RegistryVersions
    /\ \E says \in Uses : registryRow' = [version |-> registryRow.version + 1, says |-> says]
    /\ UNCHANGED <<clientSecret, externalUrl, issuerUp, built, resolver, rotated, answer, idpSettled>>
RotateSecret ==
    /\ ~idpSettled /\ clientSecret < RegistryVersions /\ clientSecret' = clientSecret + 1 /\ rotated' = 0
    /\ UNCHANGED <<registryRow, externalUrl, issuerUp, built, resolver, answer, idpSettled>>
IssuerOrUrlChanges ==
    /\ ~idpSettled /\ \/ issuerUp' = ~issuerUp /\ UNCHANGED externalUrl
                      \/ ~externalUrl /\ externalUrl' = TRUE /\ UNCHANGED issuerUp
    /\ UNCHANGED <<registryRow, clientSecret, built, resolver, rotated, answer, idpSettled>>
IdpSettles ==
    /\ ~idpSettled /\ registryRow.says = "enabled" /\ externalUrl /\ issuerUp /\ idpSettled' = TRUE
    /\ UNCHANGED <<registryRow, clientSecret, externalUrl, issuerUp, built, resolver, rotated, answer>>
\* A build takes less than a tick.
ClockTicks ==
    /\ \A q \in Resolvers : resolver[q].stage \in {"idle", "lookup"}
    /\ <<built.age, rotated>> # <<RebuildTtl, RebuildTtl>>
    /\ built' = [built EXCEPT !.age = IF @ < RebuildTtl THEN @ + 1 ELSE @]
    /\ rotated' = IF rotated < RebuildTtl THEN rotated + 1 ELSE rotated
    /\ UNCHANGED <<configVarsOfIdp, resolver, answer>>

-----------------------------------------------------------------------------
(* OIDCFor.                                                                *)

RegistryTo(q, r) == resolver' = [resolver EXCEPT ![q] = r]
\* snapshot: a missing or malformed row means local login only; a disabled provider is unknown.
Snapshot(q) ==
    /\ resolver[q].stage = "idle" /\ registryRow.says = "enabled"
    /\ RegistryTo(q, [stage |-> "lookup", row |-> registryRow.version, secret |-> 0])
    /\ UNCHANGED <<configVarsOfIdp, built, rotated, answer>>
SameRow(r) == built.row = r.row
FailureFresh(age) == age < BackoffTtl
RegistryFresh == IF built.ok THEN built.age < RebuildTtl ELSE FailureFresh(built.age)
\* A fresh client is handed out, a fresh error answered; anything else is built anew.
RegistryLookup(q) ==
    LET r == resolver[q] IN
    /\ r.stage = "lookup"
    /\ IF SameRow(r) /\ RegistryFresh
       THEN /\ RegistryTo(q, RegistryResting)
            /\ answer' = IF built.ok THEN Client(r.row, built.row, built.client) ELSE RegistryNoClient
       ELSE RegistryTo(q, [r EXCEPT !.stage = "build"]) /\ UNCHANGED answer
    /\ UNCHANGED <<configVarsOfIdp, built, rotated>>
\* The Secret is read first; then the External URL, then the issuer is asked.
ReadClientSecret(q) ==
    /\ resolver[q].stage = "build"
    /\ RegistryTo(q, [resolver[q] EXCEPT !.stage = "publish", !.secret = clientSecret])
    /\ UNCHANGED <<configVarsOfIdp, built, rotated, answer>>
Built(r) == [client |-> r.secret, row |-> r.row, age |-> 0, ok |-> r.secret # 0 /\ externalUrl /\ issuerUp]
\* The result replaces the entry, also that of a request which read a newer row.
PublishBuilt(q) ==
    LET r == resolver[q] IN
    /\ r.stage = "publish" /\ built' = Built(r) /\ RegistryTo(q, RegistryResting)
    /\ answer' = IF built'.ok THEN Client(r.row, r.row, r.secret) ELSE RegistryNoClient
    /\ UNCHANGED <<configVarsOfIdp, rotated>>

ResolverStep(q) == Snapshot(q) \/ RegistryLookup(q) \/ ReadClientSecret(q) \/ PublishBuilt(q)
RegistryNext ==
    \/ SaveAuthRow \/ RotateSecret \/ IssuerOrUrlChanges \/ IdpSettles \/ ClockTicks
    \/ \E q \in Resolvers : ResolverStep(q)

-----------------------------------------------------------------------------
(* Properties.                                                             *)

\* A login uses a client built for the row it has read, though an older build may land in the cache later.
ClientMatchesRow == answer.for = answer.from

\* A rotated Secret is out of use once rebuildTTL has passed, whatever raced when it was rotated.
StaleSecretBounded == answer.late < RebuildTtl
=============================================================================
