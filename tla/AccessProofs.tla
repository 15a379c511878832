---------------------------- MODULE AccessProofs ----------------------------
(****************************************************************************)
(* Proofs about the accounts of the control plane and about the agent's pause*)
(* of a game, each from its own initial states and steps, for every value of*)
(* its constants.                                                           *)
(****************************************************************************)
EXTENDS AccountsAndLogin, AgentData, FiniteSetTheorems, TLAPS

-----------------------------------------------------------------------------
(* Pausing a game's saves.                                                 *)

\* The handler of an /unquiesce has yet to send the resume, or has sent it and knows whether it failed.
Resumes(h, frozen) ==
    /\ ~h.pausing
    /\ \/ h.left = <<"resume">> /\ h.at = "runs"
       \/ h.left = <<>> /\ (h.error \/ ~frozen) /\ (h.at = "ok" => ~h.error)
QuiesceInv ==
    /\ QuiesceTypeOK
    /\ quiesceRequest # 0 <=> operator \in {"quiescing", "unquiescing"}
    /\ \A h \in DOMAIN handlers : handlers[h].at = "runs" => h = quiesceRequest
    /\ operator \in {"quiescing", "running", "unquiescing"} => owed
    /\ operator \in {"start", "settled"} => ~quiesceFrozen
    /\ operator = "unquiescing" => Resumes(handlers[quiesceRequest], quiesceFrozen)

\* Requests and commands are well formed.
LEMMA QuiesceStepTyped ==
    ASSUME QuiesceTypeOK, QuiesceNext PROVE QuiesceTypeOK'
<1>0. /\ Len(handlers) \in Nat /\ DOMAIN handlers = 1..Len(handlers)
      /\ \A h \in DOMAIN handlers : handlers[h] \in QuiesceHandler
  BY DEF QuiesceTypeOK
<1> USE DEF QuiesceTypeOK
<1>1. ASSUME NEW c \in Seq({"pause", "flush", "resume"}), NEW p \in BOOLEAN, QuiescePost(c, p)
      PROVE  handlers' \in Seq(QuiesceHandler) /\ quiesceRequest' \in 0..Len(handlers')
  <2>1. [left |-> c, error |-> FALSE, pausing |-> p, at |-> "runs"] \in QuiesceHandler
    BY DEF QuiesceHandler
  <2> QED BY <1>1, <2>1 DEF QuiescePost
<1>2. QuiesceCommands \in Seq({"pause", "flush", "resume"}) /\ Rollback \in Seq({"pause", "flush", "resume"})
  BY QuiesceAssumption DEF Rollback
<1>3. CASE MaybeQuiesce
  BY <1>1, <1>2, <1>3, Zenon DEF MaybeQuiesce
<1>4. CASE QuiesceRunUnquiesce
  BY <1>1, <1>2, <1>4, Zenon DEF QuiesceRunUnquiesce
<1>5. CASE QuiesceAnswered \/ UnquiesceAnswered
  <2>1. quiesceRequest' = 0 /\ UNCHANGED <<quiesceFrozen, handlers>>
    BY <1>5 DEF QuiesceAnswered, UnquiesceAnswered, QuiesceReplied
  <2>2. owed' \in BOOLEAN
    BY <1>5, Zenon DEF QuiesceAnswered, UnquiesceAnswered
  <2>3. operator' \in {"running", "settled"}
    BY <1>5 DEF QuiesceAnswered, UnquiesceAnswered
  <2> QED BY <1>0, <2>1, <2>2, <2>3
<1>6. ASSUME NEW h \in DOMAIN handlers, NEW r \in QuiesceHandler, handlers' = [handlers EXCEPT ![h] = r]
      PROVE  handlers' \in Seq(QuiesceHandler) /\ Len(handlers') = Len(handlers)
  BY <1>6
<1>7. ASSUME NEW h \in DOMAIN handlers, QuiesceStep(h) PROVE QuiesceTypeOK'
  <2>1. PICK fails \in BOOLEAN :
          /\ ExecCommand(h, fails)
          /\ handlers' = [handlers EXCEPT ![h] =
                 IF fails THEN [handlers[h] EXCEPT !.error = TRUE, !.left = RollbackFor(h)]
                 ELSE [handlers[h] EXCEPT !.left = Tail(@)]]
    BY <1>7, Zenon DEF QuiesceStep
  <2>2. handlers[h] \in QuiesceHandler /\ handlers[h].left \in Seq({"pause", "flush", "resume"})
    BY <1>0 DEF QuiesceHandler
  <2>3. handlers[h].left # <<>> /\ quiesceFrozen' \in BOOLEAN
    BY <2>1, Zenon DEF ExecCommand, Effect
  <2>4. RollbackFor(h) \in Seq({"pause", "flush", "resume"}) /\ Tail(handlers[h].left) \in Seq({"pause", "flush", "resume"})
    BY <1>2, <2>2, <2>3 DEF RollbackFor
  <2>5. [handlers[h] EXCEPT !.error = TRUE, !.left = RollbackFor(h)] \in QuiesceHandler
    BY <2>2, <2>4, Zenon DEF QuiesceHandler
  <2>6. [handlers[h] EXCEPT !.left = Tail(@)] \in QuiesceHandler
    BY <2>2, <2>4, Zenon DEF QuiesceHandler
  <2>7. \E r \in QuiesceHandler : handlers' = [handlers EXCEPT ![h] = r]
    <3>1. CASE fails
      BY <2>1, <2>5, <3>1, Zenon
    <3>2. CASE ~fails
      BY <2>1, <2>6, <3>2, Zenon
    <3> QED BY <3>1, <3>2
  <2>8. handlers' \in Seq(QuiesceHandler) /\ Len(handlers') = Len(handlers)
    BY <1>6, <2>7
  <2> QED BY <1>7, <2>3, <2>8 DEF QuiesceStep
<1>8. ASSUME NEW h \in DOMAIN handlers, UnquiesceStep(h) PROVE QuiesceTypeOK'
  <2>1. PICK fails \in BOOLEAN :
          /\ ExecCommand(h, fails)
          /\ handlers' = [handlers EXCEPT ![h] = [handlers[h] EXCEPT !.error = @ \/ fails, !.left = Tail(@)]]
    BY <1>8, Zenon DEF UnquiesceStep
  <2>2. handlers[h] \in QuiesceHandler /\ handlers[h].left \in Seq({"pause", "flush", "resume"})
    BY <1>0 DEF QuiesceHandler
  <2>3. handlers[h].left # <<>> /\ quiesceFrozen' \in BOOLEAN
    BY <2>1, Zenon DEF ExecCommand, Effect
  <2>4. Tail(handlers[h].left) \in Seq({"pause", "flush", "resume"})
    BY <2>2, <2>3
  <2>5. [handlers[h] EXCEPT !.error = @ \/ fails, !.left = Tail(@)] \in QuiesceHandler
    BY <2>2, <2>4, Zenon DEF QuiesceHandler
  <2>6. handlers' \in Seq(QuiesceHandler) /\ Len(handlers') = Len(handlers)
    BY <1>6, <2>1, <2>5
  <2> QED BY <1>8, <2>3, <2>6 DEF UnquiesceStep
<1>9. ASSUME NEW h \in DOMAIN handlers, HandlerEnds(h) PROVE QuiesceTypeOK'
  <2>1. [handlers[h] EXCEPT !.at = IF handlers[h].error THEN "failed" ELSE "ok"] \in QuiesceHandler
    BY <1>0, Zenon DEF QuiesceHandler
  <2> QED BY <1>6, <1>9, <2>1 DEF HandlerEnds
<1> QED BY <1>3, <1>4, <1>5, <1>7, <1>8, <1>9 DEF QuiesceNext

\* One handler runs at a time, the one the operator waits for, and an unquiesce that answers ok has resumed the game.
LEMMA QuiesceStepKeeps ==
    ASSUME ~QuiesceGivesUp, QuiesceInv, QuiesceNext PROVE QuiesceInv'
<1>0. QuiesceTypeOK'
  BY QuiesceStepTyped DEF QuiesceInv
<1>00. \A h \in DOMAIN handlers : handlers[h] \in QuiesceHandler
  BY DEF QuiesceInv, QuiesceTypeOK
<1> USE <1>0 DEF QuiesceInv
<1>1. ASSUME NEW c, NEW p \in BOOLEAN, QuiescePost(c, p), quiesceRequest = 0
      PROVE  /\ quiesceRequest' # 0 /\ \A h \in DOMAIN handlers' : handlers'[h].at = "runs" => h = quiesceRequest'
             /\ handlers'[quiesceRequest'] = [left |-> c, error |-> FALSE, pausing |-> p, at |-> "runs"]
  BY <1>1 DEF QuiescePost, QuiesceTypeOK
<1>2. CASE MaybeQuiesce
  BY <1>1, <1>2, Zenon DEF MaybeQuiesce, QuiesceTypeOK
<1>3. CASE QuiesceRunUnquiesce
  <2>1. quiesceRequest = 0 /\ QuiescePost(Rollback, FALSE)
    BY <1>3, Zenon DEF QuiesceRunUnquiesce
  <2>2. handlers'[quiesceRequest'] = [left |-> Rollback, error |-> FALSE, pausing |-> FALSE, at |-> "runs"]
    BY <1>1, <2>1, Zenon
  <2>3. Resumes(handlers'[quiesceRequest'], quiesceFrozen')
    BY <2>2 DEF Resumes, Rollback
  <2> QED BY <1>1, <1>3, <2>1, <2>3, Zenon DEF QuiesceRunUnquiesce
<1>4. CASE QuiesceAnswered
  BY <1>4 DEF QuiesceAnswered, QuiesceReplied, QuiesceTypeOK
<1>5. CASE UnquiesceAnswered
  <2>1. PICK r \in {"ok", "failed", "error"} :
          QuiesceReplied(r) /\ owed' = (r # "ok") /\ operator' = IF r = "ok" THEN "settled" ELSE "running"
    BY <1>5 DEF UnquiesceAnswered
  <2>2. r = "ok" => ~quiesceFrozen
    BY <1>5, <2>1 DEF UnquiesceAnswered, QuiesceReplied, Resumes
  <2> QED BY <1>5, <2>1, <2>2, Zenon DEF UnquiesceAnswered, QuiesceReplied, QuiesceTypeOK
<1>6. ASSUME NEW h \in DOMAIN handlers, UNCHANGED <<owed, operator, quiesceRequest>>, handlers[h].at = "runs",
             NEW r, handlers' = [handlers EXCEPT ![h] = r], operator = "unquiescing" => Resumes(r, quiesceFrozen')
      PROVE  QuiesceInv'
  <2>1. h = quiesceRequest /\ operator \in {"quiescing", "unquiescing"}
    BY <1>6 DEF QuiesceTypeOK
  <2>2. DOMAIN handlers' = DOMAIN handlers /\ handlers'[h] = r /\ \A g \in DOMAIN handlers : g # h => handlers'[g] = handlers[g]
    BY <1>6 DEF QuiesceTypeOK
  <2> QED BY <1>6, <2>1, <2>2
<1>7. ASSUME NEW h \in DOMAIN handlers, QuiesceStep(h) PROVE QuiesceInv'
  <2>1. operator # "unquiescing" /\ handlers[h].at = "runs"
    BY <1>7 DEF QuiesceStep, ExecCommand, Resumes
  <2> QED BY <1>6, <1>7, <2>1, Zenon DEF QuiesceStep
<1>8. ASSUME NEW h \in DOMAIN handlers, UnquiesceStep(h) PROVE QuiesceInv'
  <2>1. PICK fails \in BOOLEAN :
          /\ ExecCommand(h, fails)
          /\ handlers' = [handlers EXCEPT ![h] = [handlers[h] EXCEPT !.error = @ \/ fails, !.left = Tail(@)]]
    BY <1>8, Zenon DEF UnquiesceStep
  <2> DEFINE r == [handlers[h] EXCEPT !.error = @ \/ fails, !.left = Tail(@)]
  <2>2. handlers[h].at = "runs" /\ handlers[h].left # <<>> /\ handlers[h] \in QuiesceHandler
    BY <2>1, <1>00 DEF ExecCommand
  <2>3. /\ r.pausing = handlers[h].pausing /\ r.at = "runs" /\ r.error = (handlers[h].error \/ fails)
        /\ r.left = Tail(handlers[h].left)
    BY <2>2 DEF QuiesceHandler
  <2>4. ASSUME operator = "unquiescing" PROVE Resumes(r, quiesceFrozen')
    <3>1. ~handlers[h].pausing /\ handlers[h].left = <<"resume">>
      BY <2>2, <2>4 DEF Resumes
    <3>2. Tail(handlers[h].left) = <<>> /\ Head(handlers[h].left) = "resume"
      BY <3>1
    <3>3. fails \/ ~quiesceFrozen'
      BY <2>1, <3>2, Zenon DEF ExecCommand, Effect
    <3> QED BY <2>3, <3>1, <3>2, <3>3 DEF Resumes
  <2> HIDE DEF r
  <2>5. handlers' = [handlers EXCEPT ![h] = r]
    BY <2>1 DEF r
  <2> QED BY <1>6, <1>8, <2>2, <2>4, <2>5, Zenon DEF UnquiesceStep
<1>9. ASSUME NEW h \in DOMAIN handlers, HandlerEnds(h) PROVE QuiesceInv'
  <2> DEFINE r == [handlers[h] EXCEPT !.at = IF handlers[h].error THEN "failed" ELSE "ok"]
  <2>1. handlers' = [handlers EXCEPT ![h] = r] /\ UNCHANGED quiesceFrozen
    BY <1>9 DEF HandlerEnds
  <2>2. operator = "unquiescing" => Resumes(r, quiesceFrozen')
    <3>1. /\ r.pausing = handlers[h].pausing /\ r.error = handlers[h].error /\ r.left = handlers[h].left
          /\ r.at = "ok" => ~handlers[h].error
      BY <1>00 DEF QuiesceHandler
    <3>2. handlers[h].at = "runs" /\ handlers[h].left = <<>> /\ h = quiesceRequest
      BY <1>9 DEF HandlerEnds
    <3>3. Rollback # <<>>
      BY DEF Rollback
    <3> HIDE DEF r
    <3> QED BY <2>1, <3>1, <3>2, <3>3, Zenon DEF Resumes, Rollback
  <2> HIDE DEF r
  <2> QED BY <1>6, <1>9, <2>1, <2>2 DEF HandlerEnds
<1> QED BY <1>2, <1>3, <1>4, <1>5, <1>7, <1>8, <1>9 DEF QuiesceNext

\* A game left unable to save, whatever command failed with whatever effect, is one whose unquiesce is owed: for any
\* declared commands and any number of requests, if the client waits for the handler's end.
THEOREM PausedGameIsOwed ==
    ASSUME ~QuiesceGivesUp
    PROVE  QuiesceInit /\ [][QuiesceNext]_quiesceVars => []FrozenIsOwed
<1>1. QuiesceInit => QuiesceInv
  <2>1. ASSUME handlers = <<>> PROVE handlers \in Seq(QuiesceHandler) /\ Len(handlers) = 0 /\ DOMAIN handlers = {}
    BY <2>1
  <2>2. ASSUME QuiesceInit PROVE QuiesceTypeOK
    <3>1. /\ quiesceFrozen \in BOOLEAN /\ owed \in BOOLEAN
          /\ operator \in {"start", "quiescing", "running", "unquiescing", "settled"}
      BY <2>2, Zenon DEF QuiesceInit
    <3>2. quiesceRequest \in 0..Len(handlers) /\ handlers \in Seq(QuiesceHandler)
      BY <2>1, <2>2 DEF QuiesceInit
    <3> QED BY <3>1, <3>2 DEF QuiesceTypeOK
  <2> QED BY <2>1, <2>2, Zenon DEF QuiesceInit, QuiesceInv
<1>2. QuiesceInv /\ [QuiesceNext]_quiesceVars => QuiesceInv'
  <2>1. ASSUME QuiesceInv, UNCHANGED quiesceVars PROVE QuiesceInv'
    BY <2>1 DEF quiesceVars, QuiesceInv, QuiesceTypeOK, Resumes
  <2> QED BY <2>1, QuiesceStepKeeps
<1>3. QuiesceInv => FrozenIsOwed
  BY DEF QuiesceInv, QuiesceTypeOK, FrozenIsOwed
<1> QED BY <1>1, <1>2, <1>3, PTL

-----------------------------------------------------------------------------
(* Accounts and roles.                                                      *)

\* How a request enters, and what its handler has checked by then.
Asked(q) == q.at = "asked" /\ inFlight' = inFlight \cup {q} /\ UNCHANGED <<roles, grants, account>>
OnAccount == {"update", "delete", "sync"}
AskShape(q) ==
    /\ q.op = "create" => q.user \in LaterUsers /\ q.role \in NewRoles
    /\ q.op \in OnAccount => q.user \in Users /\ AccountKnown(q.user)
    /\ q.op = "roleDelete" => q.role = "custom"
\* A first login makes account and binding at once.
FirstLogin(u, role) ==
    /\ account[u].id = "new" /\ UNCHANGED <<roles, grants, inFlight>>
    /\ account' = [account EXCEPT ![u] = [NoAccount EXCEPT !.id = "used", !.row = TRUE, !.role = role, !.primary = {role}]]
\* How a request takes the lock, and what its checks have found then.
Passed(q, r) ==
    /\ r.at = "passed" /\ r.op = q.op /\ r.user = q.user /\ r.role = q.role /\ r.perms = q.perms
    /\ inFlight' = (inFlight \ {q}) \cup {r}
CheckFound(q) ==
    /\ q.op = "update" => RoleGrantsUserManagement(q.role) \/ ~LastManager(q.user)
    /\ q.op = "delete" => ~LastManager(q.user)
    /\ q.op = "sync" => account[q.user].row /\ (RoleGrantsUserManagement(q.role) \/ ~LastManager(q.user))
    /\ q.op = "roleUpdate" =>
          /\ RemoteWideAllowed(q.perms) \/ \A u \in Users : q.role \notin account[u].remoteWide
          /\ UserManagementGuard(q)
    /\ q.op = "roleDelete" => ~InUse(q.role)
    /\ q.op = "bindRemote" => q.role \in roles /\ RemoteWideAllowed(grants[q.role])
AccountChecks(q) ==
    UpdateCheck(q) \/ DeleteCheck(q) \/ SyncCheck(q) \/ RoleUpdateCheck(q) \/ RoleDeleteCheck(q) \/ BindRemoteCheck(q)
AccountCommits(q) ==
    UpdateCommit(q) \/ DeleteCommit(q) \/ SyncCommit(q) \/ RoleUpdateCommit(q) \/ RoleDeleteCommit(q) \/ BindRemoteCommit(q)

\* Every handler that only asks adds its request and changes nothing else.
LEMMA AskSteps ==
    ASSUME AccountTypeOK,
           CreateAsk \/ UpdateAsk \/ DeleteAsk \/ SyncAsk \/ RoleUpdateAsk \/ RoleDeleteAsk \/ BindRemoteAsk
    PROVE  \/ \E q \in AccountRequest : Asked(q) /\ AskShape(q)
           \/ \E u \in LaterUsers, role \in {"admin", "viewer"} : FirstLogin(u, role)
<1>1. ASSUME NEW op \in {"create", "update", "delete", "sync", "roleUpdate", "roleDelete", "bindRemote"},
             NEW u \in Users \cup {0}, NEW role \in Roles, NEW perms \in Contents, NEW own \in Roles \cup {"other"},
             AccountAsk(op, u, role, perms, own), UNCHANGED <<roles, grants, account>>
      PROVE  \E q \in AccountRequest : Asked(q) /\ q.op = op /\ q.user = u /\ q.role = role
  <2> DEFINE q == [op |-> op, at |-> "asked", own |-> own, user |-> u, role |-> role, perms |-> perms]
  <2>1. q \in AccountRequest
    BY DEF AccountRequest
  <2>2. Asked(q) /\ q.op = op /\ q.user = u /\ q.role = role
    BY <1>1 DEF AccountAsk, Asked
  <2> QED BY <2>1, <2>2
<1> USE DEF AskShape, OnAccount
<1>2. CASE CreateAsk
  <2>1. PICK u \in LaterUsers, role \in NewRoles \cap roles : AccountAsk("create", u, role, "empty", "other")
    BY <1>2 DEF CreateAsk
  <2>2. u \in Users \cup {0} /\ role \in Roles /\ "empty" \in Contents /\ "other" \in Roles \cup {"other"}
    BY DEF Users, AccountTypeOK, Contents
  <2> QED BY <1>1, <1>2, <2>1, <2>2 DEF CreateAsk
<1>3. CASE UpdateAsk
  <2>1. PICK by \in AccountCallers, u \in Users, role \in roles :
          AccountKnown(u) /\ AccountAsk("update", u, role, "empty", IF by = u THEN account[by].role ELSE "other")
    BY <1>3 DEF UpdateAsk
  <2>2. /\ u \in Users \cup {0} /\ role \in Roles /\ "empty" \in Contents
        /\ (IF by = u THEN account[by].role ELSE "other") \in Roles \cup {"other"}
    BY DEF AccountTypeOK, Contents
  <2> QED BY <1>1, <1>3, <2>1, <2>2 DEF UpdateAsk
<1>4. CASE DeleteAsk
  <2>1. PICK u \in Users : AccountKnown(u) /\ AccountAsk("delete", u, "viewer", "empty", "other")
    BY <1>4 DEF DeleteAsk
  <2>2. u \in Users \cup {0} /\ "viewer" \in Roles /\ "empty" \in Contents /\ "other" \in Roles \cup {"other"}
    BY DEF Roles, Contents
  <2> QED BY <1>1, <1>4, <2>1, <2>2 DEF DeleteAsk
<1>5. CASE SyncAsk
  <2>1. PICK u \in LaterUsers, role \in {"admin", "viewer"} :
          \/ AccountKnown(u) /\ AccountAsk("sync", u, role, "empty", "other") /\ UNCHANGED account
          \/ FirstLogin(u, role)
    BY <1>5, Zenon DEF SyncAsk, FirstLogin
  <2>2. u \in Users /\ role \in Roles /\ "empty" \in Contents /\ "other" \in Roles \cup {"other"}
    BY DEF Users, Roles, Contents
  <2> QED BY <1>1, <1>5, <2>1, <2>2 DEF SyncAsk
<1>6. CASE RoleUpdateAsk
  <2>1. PICK by \in AccountCallers, role \in roles \ {"admin"}, c \in {"remote", "manage"} :
          AccountAsk("roleUpdate", 0, role, c, IF account[by].role = role THEN role ELSE "other")
    BY <1>6 DEF RoleUpdateAsk
  <2>2. /\ role \in Roles /\ c \in Contents
        /\ (IF account[by].role = role THEN role ELSE "other") \in Roles \cup {"other"}
    BY DEF AccountTypeOK, Contents
  <2> QED BY <1>1, <1>6, <2>1, <2>2 DEF RoleUpdateAsk
<1>7. CASE RoleDeleteAsk
  <2>1. "custom" \in Roles /\ "empty" \in Contents /\ "other" \in Roles \cup {"other"}
    BY DEF Roles, Contents
  <2> QED BY <1>1, <1>7, <2>1 DEF RoleDeleteAsk
<1>8. CASE BindRemoteAsk
  <2>1. PICK u \in RemoteUsers : AccountAsk("bindRemote", u, "custom", "empty", "other")
    BY <1>8 DEF BindRemoteAsk
  <2>2. u \in Users /\ "custom" \in Roles /\ "empty" \in Contents /\ "other" \in Roles \cup {"other"}
    BY AccountAssumption DEF Roles, Contents
  <2> QED BY <1>1, <1>8, <2>1, <2>2 DEF BindRemoteAsk
<1> QED BY <1>2, <1>3, <1>4, <1>5, <1>6, <1>7, <1>8

\* A check finds the lock free and either answers or takes it.
LEMMA CheckSteps ==
    ASSUME AccountTypeOK, NEW q \in inFlight, AccountChecks(q)
    PROVE  /\ q.at = "asked" /\ AccountLockFree /\ UNCHANGED <<roles, grants, account>>
           /\ \/ inFlight' = inFlight \ {q}
              \/ CheckFound(q) /\ \E r \in AccountRequest : Passed(q, r)
<1>1. q \in AccountRequest
  BY DEF AccountTypeOK
<1>2. ASSUME Moves(q, "passed") PROVE \E r \in AccountRequest : Passed(q, r)
  <2>1. [q EXCEPT !.at = "passed"] \in AccountRequest /\ Passed(q, [q EXCEPT !.at = "passed"])
    BY <1>1, <1>2 DEF AccountRequest, Moves, Passed
  <2> QED BY <2>1
<1>3. CASE UpdateCheck(q)
  BY <1>2, <1>3 DEF UpdateCheck, Check, Answer, CheckFound
<1>4. CASE DeleteCheck(q)
  BY <1>2, <1>4 DEF DeleteCheck, Check, Answer, CheckFound
<1>5. CASE SyncCheck(q)
  BY <1>2, <1>5 DEF SyncCheck, Check, Answer, CheckFound
<1>6. CASE RoleUpdateCheck(q)
  BY <1>2, <1>6 DEF RoleUpdateCheck, Check, Answer, CheckFound
<1>7. CASE RoleDeleteCheck(q)
  BY <1>2, <1>7 DEF RoleDeleteCheck, Check, Answer, CheckFound
<1>8. CASE BindRemoteCheck(q)
  BY <1>2, <1>8 DEF BindRemoteCheck, Check, Answer, CheckFound
<1> QED BY <1>3, <1>4, <1>5, <1>6, <1>7, <1>8 DEF AccountChecks

\* The types of accounts and requests are kept.
LEMMA AccountStepTyped ==
    ASSUME AccountTypeOK, AccountNext PROVE AccountTypeOK'
<1> DEFINE Record == [id : {"new", "used"}, row : BOOLEAN, role : Roles, primary : SUBSET Roles, remoteWide : SUBSET Roles]
<1>1. /\ account \in [Users -> Record] /\ \A q \in inFlight : q \in AccountRequest /\ q.role \in Roles /\ q.perms \in Contents
      /\ "custom" \in Roles /\ NoAccount \in Record
  BY DEF AccountTypeOK, AccountRequest, Roles, NoAccount
<1>2. ASSUME NEW a \in Record, NEW role \in Roles
      PROVE  /\ [a EXCEPT !.role = role, !.primary = {role}] \in Record /\ [a EXCEPT !.primary = {role}] \in Record
             /\ [a EXCEPT !.remoteWide = @ \cup {role}] \in Record /\ [a EXCEPT !.remoteWide = @ \ {role}] \in Record
             /\ [a EXCEPT !.id = "used"] \in Record /\ [a EXCEPT !.id = "used", !.row = TRUE, !.role = role] \in Record
             /\ [a EXCEPT !.id = "used", !.row = TRUE, !.role = role, !.primary = {role}] \in Record
  BY Zenon
<1> HIDE DEF Record
<1>3. ASSUME NEW u, NEW r \in Record, account' = [account EXCEPT ![u] = r] PROVE account' \in [Users -> Record]
  BY <1>1, <1>3, Zenon
<1>4. ASSUME inFlight' \subseteq AccountRequest, UNCHANGED <<roles, grants>>, account' \in [Users -> Record]
      PROVE  AccountTypeOK'
  BY <1>4 DEF AccountTypeOK, Record
<1>5. CASE CreateAsk \/ UpdateAsk \/ DeleteAsk \/ SyncAsk \/ RoleUpdateAsk \/ RoleDeleteAsk \/ BindRemoteAsk
  <2>1. CASE \E q \in AccountRequest : Asked(q) /\ AskShape(q)
    BY <2>1 DEF Asked, AccountTypeOK
  <2>2. ASSUME NEW u \in LaterUsers, NEW role \in {"admin", "viewer"}, FirstLogin(u, role) PROVE AccountTypeOK'
    <3>1. role \in Roles
      BY DEF Roles
    <3>2. account' \in [Users -> Record]
      BY <1>1, <1>2, <1>3, <2>2, <3>1, Zenon DEF FirstLogin
    <3> QED BY <1>4, <2>2, <3>2 DEF FirstLogin, AccountTypeOK
  <2> QED BY <1>5, <2>1, <2>2, AskSteps
<1>6. CASE RoleCreate
  BY <1>1, <1>6 DEF RoleCreate, AccountTypeOK, Contents
<1>7. CASE Unbind
  <2>0. PICK u \in Users : \E role \in account[u].remoteWide : account' = [account EXCEPT ![u].remoteWide = @ \ {role}]
    BY <1>7, Zenon DEF Unbind
  <2>1. PICK role \in account[u].remoteWide : account' = [account EXCEPT ![u].remoteWide = @ \ {role}]
    BY <2>0, Zenon
  <2>2. account[u] \in Record /\ role \in Roles
    BY <1>1 DEF Record
  <2>3. account' = [account EXCEPT ![u] = [account[u] EXCEPT !.remoteWide = @ \ {role}]]
    BY <2>1
  <2> QED BY <1>2, <1>3, <1>4, <1>7, <2>2, <2>3, Zenon DEF Unbind, AccountTypeOK
<1>8. ASSUME NEW q \in inFlight, CreateInsert(q) PROVE AccountTypeOK'
  <2>1. [q EXCEPT !.at = "bind"] \in AccountRequest
    BY <1>1 DEF AccountRequest
  <2>2. inFlight' \subseteq AccountRequest
    BY <1>1, <1>8, <2>1 DEF CreateInsert, Answer, Moves
  <2>3. [NoAccount EXCEPT !.id = "used", !.row = TRUE, !.role = q.role] \in Record
    BY <1>1, <1>2, Zenon
  <2>4. account' \in [Users -> Record]
    BY <1>1, <1>3, <1>8, <2>3 DEF CreateInsert
  <2> QED BY <1>4, <1>8, <2>2, <2>4 DEF CreateInsert
<1>9. ASSUME NEW q \in inFlight, CreateBind(q) PROVE AccountTypeOK'
  <2>1. UNCHANGED account \/ account' = [account EXCEPT ![q.user] = [account[q.user] EXCEPT !.primary = {q.role}]]
    BY <1>9 DEF CreateBind
  <2>2. q.user \in Users => [account[q.user] EXCEPT !.primary = {q.role}] \in Record
    BY <1>1, <1>2, Zenon
  <2>3. account' \in [Users -> Record]
    BY <1>1, <2>1, <2>2
  <2> QED BY <1>4, <1>9, <2>3 DEF CreateBind, Answer, AccountTypeOK
<1>10. ASSUME NEW q \in inFlight, AccountChecks(q) PROVE AccountTypeOK'
  BY <1>10, CheckSteps DEF Passed, AccountTypeOK
<1>11. ASSUME NEW q \in inFlight, AccountCommits(q) PROVE AccountTypeOK'
  <2>1. inFlight' \subseteq AccountRequest
    BY <1>11 DEF AccountCommits, UpdateCommit, DeleteCommit, SyncCommit, RoleUpdateCommit, RoleDeleteCommit,
       BindRemoteCommit,
                 Commit, Answer, AccountTypeOK
  <2>2. CASE RoleUpdateCommit(q) \/ RoleDeleteCommit(q)
    BY <1>1, <2>1, <2>2 DEF RoleUpdateCommit, RoleDeleteCommit, AccountTypeOK, Contents
  <2>3. CASE UpdateCommit(q) \/ SyncCommit(q)
    <3>1. \/ UNCHANGED account
          \/ account' = [account EXCEPT ![q.user] = [account[q.user] EXCEPT !.role = q.role, !.primary = {q.role}]]
      BY <2>3, Zenon DEF UpdateCommit, SyncCommit, SetRole
    <3>2. q.user \in Users => [account[q.user] EXCEPT !.role = q.role, !.primary = {q.role}] \in Record
      BY <1>1, <1>2, Zenon
    <3>3. account' \in [Users -> Record]
      BY <1>1, <3>1, <3>2
    <3> QED BY <1>4, <2>1, <2>3, <3>3 DEF UpdateCommit, SyncCommit
  <2>4. CASE DeleteCommit(q)
    <3>1. [NoAccount EXCEPT !.id = "used"] \in Record
      BY <1>1, <1>2, Zenon
    <3> QED BY <1>3, <1>4, <2>1, <2>4, <3>1, Zenon DEF DeleteCommit
  <2>5. CASE BindRemoteCommit(q)
    <3>1. account' = [account EXCEPT ![q.user] = [account[q.user] EXCEPT !.remoteWide = @ \cup {q.role}]]
      BY <2>5 DEF BindRemoteCommit
    <3>2. q.user \in Users => [account[q.user] EXCEPT !.remoteWide = @ \cup {q.role}] \in Record
      BY <1>1, <1>2, Zenon
    <3>3. account' \in [Users -> Record]
      BY <1>1, <3>1, <3>2, Zenon
    <3> QED BY <1>4, <2>1, <2>5, <3>3 DEF BindRemoteCommit
  <2> QED BY <1>11, <2>2, <2>3, <2>4, <2>5 DEF AccountCommits
<1> QED BY <1>5, <1>6, <1>7, <1>8, <1>9, <1>10, <1>11 DEF AccountNext, AccountChecks, AccountCommits

\* LockUserManagement: between its checks and its commit a request is the only one there, so what
\* the checks found still holds at the commit, whatever the unlocked requests do meanwhile.
OneHolder == \A p, q \in inFlight : p.at = "passed" /\ q.at = "passed" => p = q
BoundRolesExist == \A u \in Users : account[u].remoteWide \subseteq roles
HolderChecked ==
    \A q \in inFlight : q.at = "passed" =>
        /\ q.op = "roleUpdate" =>
              RemoteWideAllowed(q.perms) \/ \A u \in Users : q.role \notin account[u].remoteWide
        /\ q.op = "roleDelete" => \A u \in Users : q.role \notin account[u].remoteWide
        /\ q.op = "bindRemote" => q.role \in roles /\ RemoteWideAllowed(grants[q.role])
WideKept == OneHolder /\ BoundRolesExist /\ RemoteWideLimited /\ HolderChecked
WideInv == AccountTypeOK /\ WideKept
NobodyHolds == \A p \in inFlight : p.at # "passed"

\* A commit frees the lock, which nobody else held.
LEMMA CommitFrees ==
    ASSUME OneHolder, NEW q \in inFlight, AccountCommits(q)
    PROVE  q.at = "passed" /\ inFlight' = inFlight \ {q} /\ NobodyHolds'
<1>1. q.at = "passed" /\ inFlight' = inFlight \ {q}
  BY DEF AccountCommits, UpdateCommit, DeleteCommit, SyncCommit, RoleUpdateCommit, RoleDeleteCommit, BindRemoteCommit,
         Commit, Answer
<1> QED BY <1>1 DEF OneHolder, NobodyHolds

\* The lock is held by one request, and what it found when it took the lock stays true until it commits.
LEMMA WideStepKeeps ==
    ASSUME WideInv, AccountNext PROVE WideKept'
<1> USE DEF WideInv, WideKept
<1>1. ASSUME \A p \in inFlight' : p.at = "passed" => p \in inFlight, UNCHANGED <<roles, grants>>,
             \A u \in Users : account'[u].remoteWide \subseteq account[u].remoteWide
      PROVE  WideKept'
  BY <1>1 DEF OneHolder, BoundRolesExist, RemoteWideLimited, HolderChecked
<1>2. CASE CreateAsk \/ UpdateAsk \/ DeleteAsk \/ SyncAsk \/ RoleUpdateAsk \/ RoleDeleteAsk \/ BindRemoteAsk
  <2>1. CASE \E q \in AccountRequest : Asked(q) /\ AskShape(q)
    BY <1>1, <2>1 DEF Asked
  <2>2. ASSUME NEW u \in LaterUsers, NEW role \in {"admin", "viewer"}, FirstLogin(u, role) PROVE WideKept'
    <3>1. \A v \in Users : account'[v].remoteWide \subseteq account[v].remoteWide
      BY <2>2 DEF FirstLogin, NoAccount, AccountTypeOK
    <3> QED BY <1>1, <2>2, <3>1 DEF FirstLogin
  <2> QED BY <1>2, <2>1, <2>2, AskSteps
<1>3. CASE RoleCreate
  <2>1. roles \subseteq roles' /\ \A r \in roles : grants'[r] = grants[r]
    BY <1>3 DEF RoleCreate, AccountTypeOK
  <2> QED BY <1>3, <2>1 DEF RoleCreate, OneHolder, BoundRolesExist, RemoteWideLimited, HolderChecked
<1>4. CASE Unbind
  <2>1. \A u \in Users : account'[u].remoteWide \subseteq account[u].remoteWide
    BY <1>4 DEF Unbind, AccountTypeOK
  <2> QED BY <1>1, <1>4, <2>1 DEF Unbind
<1>5. ASSUME NEW q \in inFlight, CreateInsert(q) PROVE WideKept'
  <2>1. \A u \in Users : account'[u].remoteWide \subseteq account[u].remoteWide
    <3>1. [NoAccount EXCEPT !.id = "used", !.row = TRUE, !.role = q.role].remoteWide = {}
      BY DEF NoAccount
    <3> QED BY <1>5, <3>1, Zenon DEF CreateInsert, AccountTypeOK
  <2>2. \A p \in inFlight' : p.at = "passed" => p \in inFlight
    BY <1>5 DEF CreateInsert, Answer, Moves, AccountTypeOK, AccountRequest
  <2> QED BY <1>1, <1>5, <2>1, <2>2 DEF CreateInsert
<1>6. ASSUME NEW q \in inFlight, CreateBind(q) PROVE WideKept'
  <2>1. \A u \in Users : account'[u].remoteWide = account[u].remoteWide
    BY <1>6 DEF CreateBind, AccountTypeOK
  <2> QED BY <1>1, <1>6, <2>1 DEF CreateBind, Answer
<1>7. ASSUME NEW q \in inFlight, AccountChecks(q) PROVE WideKept'
  <2>1. CASE inFlight' = inFlight \ {q}
    BY <1>1, <1>7, <2>1, CheckSteps
  <2>2. ASSUME NEW r \in AccountRequest, Passed(q, r), CheckFound(q) PROVE WideKept'
    <3>1. /\ \A p \in inFlight' : p.at = "passed" => p = r
          /\ UNCHANGED <<roles, grants, account>>
      BY <1>7, <2>2, CheckSteps DEF Passed, AccountLockFree
    <3>2. HolderChecked'
      BY <2>2, <3>1 DEF Passed, CheckFound, HolderChecked, InUse
    <3> QED BY <3>1, <3>2 DEF OneHolder, BoundRolesExist, RemoteWideLimited
  <2> QED BY <1>7, <2>1, <2>2, CheckSteps
<1>8. ASSUME NEW q \in inFlight, AccountCommits(q) PROVE WideKept'
  <2>1. OneHolder' /\ HolderChecked'
    BY <1>8, CommitFrees DEF NobodyHolds, OneHolder, HolderChecked
  <2>2. q.at = "passed"
    BY <1>8, CommitFrees
  <2>3. CASE UpdateCommit(q) \/ DeleteCommit(q) \/ SyncCommit(q)
    <3>1. \A u \in Users : account'[u].remoteWide \subseteq account[u].remoteWide
      BY <2>3 DEF UpdateCommit, DeleteCommit, SyncCommit, SetRole, NoAccount, AccountTypeOK
    <3> QED BY <2>1, <2>3, <3>1 DEF UpdateCommit, DeleteCommit, SyncCommit, BoundRolesExist, RemoteWideLimited
  <2>4. CASE RoleUpdateCommit(q)
    BY <2>1, <2>2, <2>4
       DEF RoleUpdateCommit, Commit, HolderChecked, BoundRolesExist, RemoteWideLimited, AccountTypeOK
  <2>5. CASE RoleDeleteCommit(q)
    BY <2>1, <2>2, <2>5
       DEF RoleDeleteCommit, Commit, HolderChecked, BoundRolesExist, RemoteWideLimited, AccountTypeOK
  <2>6. CASE BindRemoteCommit(q)
    <3>1. \A u \in Users : account'[u].remoteWide \subseteq account[u].remoteWide \cup {q.role}
      BY <2>6 DEF BindRemoteCommit, AccountTypeOK
    <3>2. q.role \in roles /\ RemoteWideAllowed(grants[q.role]) /\ UNCHANGED <<roles, grants>>
      BY <2>2, <2>6 DEF BindRemoteCommit, Commit, HolderChecked
    <3> QED BY <2>1, <3>1, <3>2 DEF BoundRolesExist, RemoteWideLimited
  <2> QED BY <1>8, <2>3, <2>4, <2>5, <2>6 DEF AccountCommits
<1> QED BY <1>2, <1>3, <1>4, <1>5, <1>6, <1>7, <1>8 DEF AccountNext, AccountChecks, AccountCommits

\* A role bound over a whole remote cluster carries no control-plane permission, however the edits of roles,
\* the bindings and the deletions of any number of accounts overlap.
THEOREM WideBindingsLimited ==
    AccountInit /\ [][AccountNext]_accountVars => []RemoteWideLimited
<1>1. AccountInit => WideInv
  <2> SUFFICES ASSUME AccountInit PROVE WideInv
    OBVIOUS
  <2>1. AccountTypeOK
    BY Zenon DEF AccountInit, AccountTypeOK, NoAccount, Roles, Contents
  <2>2. \A u \in Users : account[u].remoteWide \subseteq {"custom"}
    BY Zenon DEF AccountInit, NoAccount
  <2> QED BY <2>1, <2>2, Zenon DEF AccountInit, WideInv, WideKept, OneHolder, BoundRolesExist, RemoteWideLimited,
                            HolderChecked, RemoteWideAllowed, Roles
<1>2. WideInv /\ [AccountNext]_accountVars => WideInv'
  <2>1. ASSUME WideInv, AccountNext PROVE WideInv'
    BY <2>1, AccountStepTyped, WideStepKeeps DEF WideInv
  <2>2. ASSUME WideInv, UNCHANGED accountVars PROVE WideInv'
    BY <2>2 DEF accountVars, WideInv, WideKept, AccountTypeOK, OneHolder, BoundRolesExist, RemoteWideLimited,
                HolderChecked
  <2> QED BY <2>1, <2>2
<1>3. WideInv => RemoteWideLimited
  BY DEF WideInv, WideKept
<1> QED BY <1>1, <1>2, <1>3, PTL

RequestShape ==
    \A q \in inFlight :
        /\ q.op = "create" => q.user \in Users /\ q.role # "custom" /\ q.at # "passed"
        /\ q.op \in OnAccount => q.user \in Users /\ account[q.user].id = "used"
        /\ q.op = "roleDelete" => q.role = "custom"
        /\ q.at = "bind" => q.op = "create"
HalfCreated(u) ==
    \E q \in inFlight : q.op = "create" /\ q.at = "bind" /\ q.user = u /\ q.role = account[u].role
\* An account has the binding of its role, unless its creation is about to write it; nothing else is asked of
\* such an account.
BindingsFollow ==
    /\ \A u \in Users :
          /\ account[u].row => account[u].id = "used"
          /\ account[u].row => account[u].primary = {account[u].role} \/ HalfCreated(u)
    /\ \A q \in inFlight : q.op = "create" /\ q.at = "bind" =>
          /\ account[q.user].row /\ account[q.user].role = q.role
          /\ \A p \in inFlight : p.op \in OnAccount => p.user # q.user
OtherManager(u) == \E v \in UserManagers : v # u
HolderSparesOne ==
    \A q \in inFlight : q.at = "passed" =>
        /\ q.op \in {"update", "sync"} => grants[q.role] = "manage" \/ OtherManager(q.user)
        /\ q.op = "sync" => account[q.user].row
        /\ q.op = "delete" => OtherManager(q.user)
        /\ q.op = "roleUpdate" => q.perms = "manage" \/ UserManagersExcludingRole(q.role) # {}
        /\ q.op = "roleDelete" => \A u \in Users : account[u].row => account[u].role # q.role
ManageKept == OneHolder /\ RequestShape /\ BindingsFollow /\ UserManagers # {} /\ HolderSparesOne
ManageInv == AccountTypeOK /\ ManageKept

\* An account that is not the last to manage users leaves another one that does.
LEMMA SpareManager ==
    ASSUME UserManagers # {}, NEW u, ~LastManager(u) PROVE OtherManager(u)
<1>1. UserManagers # {u}
  <2>1. Cardinality({u}) = 1
    BY FS_Singleton
  <2> QED BY <2>1 DEF LastManager
<1> QED BY <1>1 DEF OtherManager

\* The bindings still follow the roles after a step that gives an account the binding of its role or leaves
\* role, binding and half-done creation as they were, and takes up no request on an account that a creation is
\* about to bind.
LEMMA BindingsCarry ==
    ASSUME RequestShape, BindingsFollow,
           \A p \in inFlight' : p \in inFlight \/ p.at # "bind",
           \A p, q \in inFlight' : q \in inFlight /\ q.at = "bind" /\ p \notin inFlight /\ p.op \in OnAccount => p.user # q.user,
           \A u \in Users : account'[u].row =>
               /\ account'[u].id = "used"
               /\ \/ account'[u].primary = {account'[u].role}
                  \/ /\ account[u].row /\ account'[u].role = account[u].role /\ account'[u].primary = account[u].primary
                     /\ \A q \in inFlight : q.at = "bind" /\ q.user = u => q \in inFlight',
           \A q \in inFlight' : q \in inFlight /\ q.at = "bind" =>
               account'[q.user].row = account[q.user].row /\ account'[q.user].role = account[q.user].role
    PROVE  BindingsFollow'
<1>1. ASSUME NEW u \in Users, account'[u].row
      PROVE  account'[u].id = "used" /\ (account'[u].primary = {account'[u].role} \/ HalfCreated(u)')
  <2>1. CASE account'[u].primary = {account'[u].role}
    BY <1>1, <2>1, Zenon
  <2>2. CASE account'[u].primary # {account'[u].role}
    <3>1. /\ account[u].row /\ account'[u].role = account[u].role /\ account'[u].primary = account[u].primary
          /\ \A q \in inFlight : q.at = "bind" /\ q.user = u => q \in inFlight'
      BY <1>1, <2>2, Zenon
    <3>2. HalfCreated(u)
      <4>1. account[u].primary # {account[u].role}
        BY <2>2, <3>1, Zenon
      <4> QED BY <3>1, <4>1, Zenon DEF BindingsFollow
    <3>3. PICK q \in inFlight : q.op = "create" /\ q.at = "bind" /\ q.user = u /\ q.role = account[u].role
      BY <3>2, Zenon DEF HalfCreated
    <3>4. q \in inFlight' /\ q.role = account'[u].role
      BY <3>1, <3>3, Zenon
    <3>5. HalfCreated(u)'
      BY <3>3, <3>4, Zenon DEF HalfCreated
    <3> QED BY <1>1, <3>5, Zenon
  <2> QED BY <2>1, <2>2, Zenon
<1>2. ASSUME NEW q \in inFlight', q.op = "create", q.at = "bind"
      PROVE  /\ account'[q.user].row /\ account'[q.user].role = q.role
             /\ \A p \in inFlight' : p.op \in OnAccount => p.user # q.user
  <2>1. q \in inFlight
    BY <1>2, Zenon
  <2>2. /\ account[q.user].row /\ account[q.user].role = q.role
        /\ \A p \in inFlight : p.op \in OnAccount => p.user # q.user
    BY <1>2, <2>1, Zenon DEF BindingsFollow
  <2>3. account'[q.user].row /\ account'[q.user].role = q.role
    BY <1>2, <2>1, <2>2, Zenon
  <2>4. ASSUME NEW p \in inFlight', p.op \in OnAccount PROVE p.user # q.user
    BY <1>2, <2>1, <2>2, <2>4, Zenon
  <2> QED BY <2>3, <2>4, Zenon
<1> QED BY <1>1, <1>2, Zenon DEF BindingsFollow

\* While rows, roles and what roles grant stay, what the request in the lock has found true stays true.
LEMMA SparesCarry ==
    ASSUME RequestShape, HolderSparesOne, UNCHANGED grants,
           \A u \in Users : account'[u].row = account[u].row /\ account'[u].role = account[u].role,
           \A q \in inFlight' : q.at = "passed" => q \in inFlight
    PROVE  UserManagers' = UserManagers /\ HolderSparesOne'
<1>1. UserManagers' = UserManagers
  BY DEF UserManagers
<1>2. \A r : UserManagersExcludingRole(r)' = UserManagersExcludingRole(r)
  <2>1. UserManagers \subseteq Users
    BY DEF UserManagers
  <2> QED BY <1>1, <2>1 DEF UserManagersExcludingRole
<1>3. ASSUME NEW q \in inFlight', q.at = "passed"
      PROVE  /\ q.op \in {"update", "sync"} => grants'[q.role] = "manage" \/ OtherManager(q.user)'
             /\ q.op = "sync" => account'[q.user].row
             /\ q.op = "delete" => OtherManager(q.user)'
             /\ q.op = "roleUpdate" => q.perms = "manage" \/ UserManagersExcludingRole(q.role)' # {}
             /\ q.op = "roleDelete" => \A u \in Users : account'[u].row => account'[u].role # q.role
  <2>1. q \in inFlight
    BY <1>3, Zenon
  <2>2. OtherManager(q.user)' <=> OtherManager(q.user)
    BY <1>1, Zenon DEF OtherManager
  <2>3. /\ q.op \in {"update", "sync"} => grants'[q.role] = "manage" \/ OtherManager(q.user)'
        /\ q.op = "delete" => OtherManager(q.user)'
    BY <1>3, <2>1, <2>2, Zenon DEF HolderSparesOne
  <2>4. q.op = "sync" => account'[q.user].row
    <3>1. q.op = "sync" => q.user \in Users
      BY <2>1 DEF RequestShape, OnAccount
    <3> QED BY <1>3, <2>1, <3>1, Zenon DEF HolderSparesOne
  <2>5. q.op = "roleUpdate" => q.perms = "manage" \/ UserManagersExcludingRole(q.role)' # {}
    <3>1. UserManagersExcludingRole(q.role)' = UserManagersExcludingRole(q.role)
      BY <1>2, Zenon
    <3> QED BY <1>3, <2>1, <3>1, Zenon DEF HolderSparesOne
  <2>6. q.op = "roleDelete" => \A u \in Users : account'[u].row => account'[u].role # q.role
    BY <1>3, <2>1, Zenon DEF HolderSparesOne
  <2> QED BY <2>3, <2>4, <2>5, <2>6, Zenon
<1> QED BY <1>1, <1>3, Zenon DEF HolderSparesOne

\* Asking leaves who manages users alone.
LEMMA AskKeepsManagers ==
    ASSUME ~Hasty, "custom" \notin NewRoles, ManageInv, NEW q \in AccountRequest, Asked(q), AskShape(q)
    PROVE  ManageKept'
<1> USE DEF ManageInv, ManageKept, Asked
<1>1. /\ q.op = "create" => q.user \in Users /\ q.role # "custom"
      /\ q.op \in OnAccount => q.user \in Users /\ account[q.user].row
      /\ \A p \in inFlight : p.op = "create" /\ q.op \in OnAccount => p.user # q.user
  BY DEF AskShape, AccountKnown, Users
<1>2. RequestShape'
  BY <1>1 DEF AskShape, RequestShape, BindingsFollow
<1>3. BindingsFollow'
  <2>1. \A u \in Users : account[u].row => account[u].id = "used"
    BY Zenon DEF BindingsFollow
  <2>2. \A p \in inFlight : p.at = "bind" => p.op = "create"
    BY Zenon DEF RequestShape
  <2>3. inFlight' = inFlight \cup {q} /\ q.at # "bind" /\ UNCHANGED account
    OBVIOUS
  <2>4. \A p \in inFlight' : p \in inFlight \/ p.at # "bind"
    BY <2>3
  <2>5. \A p, s \in inFlight' : s \in inFlight /\ s.at = "bind" /\ p \notin inFlight /\ p.op \in OnAccount => p.user # s.user
    BY <1>1, <2>2, <2>3
  <2> QED BY <2>1, <2>3, <2>4, <2>5, BindingsCarry
<1>4. UserManagers' = UserManagers /\ HolderSparesOne'
  BY SparesCarry
<1>5. OneHolder'
  BY DEF OneHolder
<1> QED BY <1>2, <1>3, <1>4, <1>5

\* An account that appears whole, or half with its creation at hand, takes nothing from anyone.
LEMMA NewAccountKeepsManagers ==
    ASSUME ManageInv, NEW u \in Users, account[u].id = "new", account'[u].id = "used", account'[u].row,
           account'[u].role # "custom", \A v \in Users : v # u => account'[v] = account[v], UNCHANGED grants,
           \A p \in inFlight' : p.at = "passed" => p \in inFlight
    PROVE  UserManagers' # {} /\ OneHolder' /\ HolderSparesOne'
<1> USE DEF ManageInv, ManageKept
<1>1. ~account[u].row
  BY DEF BindingsFollow
<1>2. UserManagers \subseteq UserManagers'
  BY <1>1 DEF UserManagers
<1>3. \A r \in Roles : UserManagersExcludingRole(r) \subseteq UserManagersExcludingRole(r)'
  BY <1>1, <1>2 DEF UserManagersExcludingRole, UserManagers
<1>4. ASSUME NEW q \in inFlight, NEW v \in UserManagers, v # q.user
      PROVE  OtherManager(q.user)'
  BY <1>2, <1>4, SMTT(20), ZenonT(20) DEF OtherManager
<1>5. ASSUME NEW q \in inFlight', q.at = "passed"
      PROVE  /\ q.op \in {"update", "sync"} => grants'[q.role] = "manage" \/ OtherManager(q.user)'
             /\ q.op = "sync" => account'[q.user].row
             /\ q.op = "delete" => OtherManager(q.user)'
             /\ q.op = "roleUpdate" => q.perms = "manage" \/ UserManagersExcludingRole(q.role)' # {}
             /\ q.op = "roleDelete" => \A w \in Users : account'[w].row => account'[w].role # q.role
  <2>1. q \in inFlight /\ q.role \in Roles
    BY <1>5 DEF AccountTypeOK, AccountRequest
  <2>2. OtherManager(q.user) => OtherManager(q.user)'
    BY <1>2, SMTT(20), ZenonT(20) DEF OtherManager
  <2>3. q.op = "sync" => q.user # u
    BY <1>1, <1>5, <2>1 DEF HolderSparesOne
  <2>4. q.op = "roleUpdate" => q.perms = "manage" \/ UserManagersExcludingRole(q.role)' # {}
    BY <1>3, <1>5, <2>1 DEF HolderSparesOne
  <2>5. q.op = "roleDelete" => q.role = "custom"
    BY <2>1 DEF RequestShape
  <2>6. q.op \in {"update", "sync", "delete"} => q.user \in Users
    BY <2>1 DEF RequestShape, OnAccount
  <2>7. q.op = "sync" => account'[q.user].row
    BY <1>5, <2>1, <2>3, <2>6 DEF HolderSparesOne
  <2>8. q.op = "roleDelete" => \A w \in Users : account'[w].row => account'[w].role # q.role
    BY <1>5, <2>1, <2>5 DEF HolderSparesOne
  <2>9. /\ q.op \in {"update", "sync"} => grants'[q.role] = "manage" \/ OtherManager(q.user)'
        /\ q.op = "delete" => OtherManager(q.user)'
    BY <1>5, <2>1, <2>2 DEF HolderSparesOne
  <2> QED BY <2>4, <2>7, <2>8, <2>9
<1>6. HolderSparesOne'
  BY <1>5 DEF HolderSparesOne
<1> QED BY <1>2, <1>6 DEF OneHolder

\* Every request, at its check and at its commit, leaves an account that manages users, and leaves what the
\* request in the lock has found true.
LEMMA ManageStepKeeps ==
    ASSUME ~Hasty, ~PostFails, "custom" \notin NewRoles, ManageInv, AccountNext PROVE ManageKept'
<1> USE DEF ManageInv, ManageKept
\* The steps that touch neither the roles of accounts nor what roles grant.
<1>1. ASSUME \A u \in Users : /\ account'[u].id = account[u].id /\ account'[u].row = account[u].row
                              /\ account'[u].role = account[u].role /\ account'[u].primary = account[u].primary,
             UNCHANGED grants, inFlight' \subseteq inFlight,
             \A q \in inFlight : q.at = "bind" => q \in inFlight'
      PROVE  ManageKept'
  <2>1. UserManagers' = UserManagers /\ HolderSparesOne'
    BY <1>1, SparesCarry, SMTT(20), ZenonT(20)
  <2>2. RequestShape' /\ OneHolder'
    BY <1>1 DEF RequestShape, OneHolder
  <2>3. \A u \in Users : account[u].row => account[u].id = "used"
    BY Zenon DEF BindingsFollow
  <2>4. \A q \in inFlight : q.at = "bind" => q.user \in Users
    BY Zenon DEF RequestShape
  <2>5. BindingsFollow'
    BY <1>1, <2>3, <2>4, BindingsCarry
  <2> QED BY <2>1, <2>2, <2>5
<1>2. CASE CreateAsk \/ UpdateAsk \/ DeleteAsk \/ SyncAsk \/ RoleUpdateAsk \/ RoleDeleteAsk \/ BindRemoteAsk
  <2>1. ASSUME NEW u \in LaterUsers, NEW role \in {"admin", "viewer"}, FirstLogin(u, role) PROVE ManageKept'
    <3>1. /\ u \in Users /\ account[u].id = "new" /\ UNCHANGED <<grants, inFlight>>
          /\ account'[u].id = "used" /\ account'[u].row /\ account'[u].role = role /\ account'[u].primary = {role}
          /\ \A v \in Users : v # u => account'[v] = account[v]
      BY <2>1 DEF FirstLogin, Users, NoAccount, AccountTypeOK
    <3>2. UserManagers' # {} /\ OneHolder' /\ HolderSparesOne'
      BY <3>1, NewAccountKeepsManagers
    <3>3. RequestShape'
      BY <3>1 DEF RequestShape
    <3>4. BindingsFollow'
      BY <3>1 DEF BindingsFollow, HalfCreated, RequestShape
    <3> QED BY <3>2, <3>3, <3>4
  <2> QED BY <1>2, <2>1, AskSteps, AskKeepsManagers
<1>3. CASE RoleCreate
  <2>1. UNCHANGED <<account, inFlight>> /\ \A r \in Roles : grants[r] = "manage" => grants'[r] = "manage"
    BY <1>3 DEF RoleCreate, AccountTypeOK
  <2>2. \A u \in UserManagers : u \in UserManagers'
    BY <2>1 DEF UserManagers, AccountTypeOK
  <2>3. \A r \in Roles : UserManagersExcludingRole(r) \subseteq UserManagersExcludingRole(r)'
    BY <2>1, <2>2 DEF UserManagersExcludingRole
  <2>4. RequestShape' /\ BindingsFollow' /\ OneHolder'
    <3>1. RequestShape' /\ OneHolder'
      BY <2>1, Zenon DEF RequestShape, OneHolder
    <3>2. \A u \in Users : account[u].row => account[u].id = "used"
      BY Zenon DEF BindingsFollow
    <3>3. BindingsFollow'
      BY <2>1, <3>2, BindingsCarry
    <3> QED BY <3>1, <3>3
  <2>5. HolderSparesOne'
    BY <2>1, <2>2, <2>3 DEF HolderSparesOne, OtherManager, AccountTypeOK, AccountRequest
  <2> QED BY <2>2, <2>4, <2>5
<1>4. CASE Unbind
  <2>1. \A u \in Users : /\ account'[u].id = account[u].id /\ account'[u].row = account[u].row
                         /\ account'[u].role = account[u].role /\ account'[u].primary = account[u].primary
    BY <1>4 DEF Unbind, AccountTypeOK
  <2> QED BY <1>1, <1>4, <2>1 DEF Unbind
<1>5. ASSUME NEW q \in inFlight, CreateInsert(q) PROVE ManageKept'
  <2>1. q \in AccountRequest /\ q.op = "create" /\ q.at = "asked" /\ q.user \in Users /\ q.role # "custom"
    BY <1>5 DEF CreateInsert, RequestShape, AccountTypeOK
  <2>2. CASE account[q.user].id # "new"
    BY <1>1, <1>5, <2>1, <2>2 DEF CreateInsert, Answer
  <2>3. CASE account[q.user].id = "new"
    <3> DEFINE r == [q EXCEPT !.at = "bind"]
    <3>1. /\ inFlight' = (inFlight \ {q}) \cup {r} /\ r.op = "create" /\ r.at = "bind"
          /\ r.user = q.user /\ r.role = q.role
      BY <1>5, <2>1, <2>3 DEF CreateInsert, Moves, AccountRequest
    <3> HIDE DEF r
    <3>2. /\ account'[q.user].id = "used" /\ account'[q.user].row /\ account'[q.user].role = q.role
          /\ \A v \in Users : v # q.user => account'[v] = account[v]
      <4> DEFINE new == [NoAccount EXCEPT !.id = "used", !.row = TRUE, !.role = q.role]
      <4>1. account' = [account EXCEPT ![q.user] = new]
        BY <1>5, <2>3 DEF CreateInsert
      <4>2. new.id = "used" /\ new.row /\ new.role = q.role
        BY DEF NoAccount
      <4> HIDE DEF new
      <4> QED BY <2>1, <4>1, <4>2 DEF AccountTypeOK
    <3>3. UserManagers' # {} /\ OneHolder' /\ HolderSparesOne'
      BY <1>5, <2>1, <2>3, <3>1, <3>2, NewAccountKeepsManagers DEF CreateInsert
    <3>4. RequestShape'
      BY <2>1, <3>1, <3>2 DEF RequestShape, OnAccount
    <3>5. \A p \in inFlight : p.op \in OnAccount => p.user # q.user
      BY <2>3 DEF RequestShape
    <3>6. \A p \in inFlight : p.op = "create" /\ p.at = "bind" => p.user # q.user /\ p \in inFlight'
      BY <2>1, <2>3, <3>1 DEF BindingsFollow, RequestShape
    <3>7. ASSUME NEW u \in Users, account'[u].row
          PROVE  account'[u].id = "used" /\ (account'[u].primary = {account'[u].role} \/ HalfCreated(u)')
      <4>1. CASE u = q.user
        <5>1. r \in inFlight'
          BY <3>1
        <5>2. HalfCreated(u)'
          BY <3>1, <3>2, <4>1, <5>1, Zenon DEF HalfCreated
        <5> QED BY <3>2, <4>1, <5>2
      <4>2. CASE u # q.user
        <5>1. account'[u] = account[u]
          BY <3>2, <4>2
        <5>2. account[u].id = "used" /\ (account[u].primary = {account[u].role} \/ HalfCreated(u))
          BY <3>7, <5>1, Zenon DEF BindingsFollow
        <5>3. HalfCreated(u) => HalfCreated(u)'
          BY <3>6, <5>1, Zenon DEF HalfCreated
        <5> QED BY <5>1, <5>2, <5>3
      <4> QED BY <4>1, <4>2
    <3>8. ASSUME NEW p \in inFlight', p.op = "create", p.at = "bind"
          PROVE  /\ account'[p.user].row /\ account'[p.user].role = p.role
                 /\ \A s \in inFlight' : s.op \in OnAccount => s.user # p.user
      <4>1. \A s \in inFlight' : s.op \in OnAccount => s \in inFlight
        BY <3>1 DEF OnAccount
      <4>2. CASE p = r
        BY <3>1, <3>2, <3>5, <4>1, <4>2, Zenon
      <4>3. CASE p # r
        <5>1. p \in inFlight /\ p.user \in Users
          BY <3>1, <3>8, <4>3 DEF RequestShape
        <5>2. account'[p.user] = account[p.user]
          BY <3>2, <3>6, <3>8, <5>1, ZenonT(30)
        <5> QED BY <3>8, <4>1, <5>1, <5>2, Zenon DEF BindingsFollow
      <4> QED BY <4>2, <4>3
    <3>9. BindingsFollow'
      BY <3>7, <3>8 DEF BindingsFollow
    <3> QED BY <3>3, <3>4, <3>9
  <2> QED BY <2>2, <2>3
<1>6. ASSUME NEW q \in inFlight, CreateBind(q) PROVE ManageKept'
  <2>1. /\ q.op = "create" /\ q.at = "bind" /\ q.user \in Users /\ inFlight' = inFlight \ {q}
        /\ account[q.user].role = q.role /\ UNCHANGED grants
    BY <1>6 DEF CreateBind, Answer, RequestShape, BindingsFollow
  <2>2. /\ account'[q.user].primary = {q.role}
        /\ \A v \in Users : /\ account'[v].id = account[v].id /\ account'[v].row = account[v].row
                            /\ account'[v].role = account[v].role
                            /\ v # q.user => account'[v] = account[v]
    BY <1>6, <2>1, SMTT(20), ZenonT(20) DEF CreateBind, AccountTypeOK
  <2>3. OneHolder' /\ RequestShape'
    BY <2>1, <2>2, SMTT(20), ZenonT(20) DEF OneHolder, RequestShape
  <2>4. BindingsFollow'
    <3>1. \A u \in Users : account[u].row => account[u].id = "used"
      BY Zenon DEF BindingsFollow
    <3>2. \A p \in inFlight : p.at = "bind" => p.user \in Users
      BY Zenon DEF RequestShape
    <3>3. \A p \in inFlight' : p \in inFlight
      BY <2>1
    <3>4. ASSUME NEW u \in Users, account'[u].row
          PROVE  /\ account'[u].id = "used"
                 /\ \/ account'[u].primary = {account'[u].role}
                    \/ /\ account[u].row /\ account'[u].role = account[u].role
                       /\ account'[u].primary = account[u].primary
                       /\ \A p \in inFlight : p.at = "bind" /\ p.user = u => p \in inFlight'
      <4>1. account'[u].id = account[u].id /\ account'[u].row = account[u].row /\ account'[u].role = account[u].role
        BY <2>2, Zenon
      <4>2. account'[u].id = "used"
        BY <3>1, <3>4, <4>1, Zenon
      <4>3. CASE u = q.user
        <5>1. account'[u].primary = {account'[u].role}
          BY <2>1, <2>2, <4>1, <4>3, Zenon
        <5> QED BY <4>2, <5>1, Zenon
      <4>4. CASE u # q.user
        <5>1. account'[u] = account[u]
          BY <2>2, <4>4, Zenon
        <5>2. \A p \in inFlight : p.at = "bind" /\ p.user = u => p \in inFlight'
          BY <2>1, <4>4
        <5> QED BY <3>4, <4>2, <5>1, <5>2, Zenon
      <4> QED BY <4>3, <4>4, Zenon
    <3>5. \A p \in inFlight' : p \in inFlight /\ p.at = "bind" =>
            account'[p.user].row = account[p.user].row /\ account'[p.user].role = account[p.user].role
      BY <2>2, <3>2, Zenon
    <3> QED BY <3>3, <3>4, <3>5, BindingsCarry, ZenonT(30)
  <2>5. UserManagers' = UserManagers /\ HolderSparesOne'
    BY <2>1, <2>2, SparesCarry
  <2> QED BY <2>3, <2>4, <2>5
<1>7. ASSUME NEW q \in inFlight, AccountChecks(q) PROVE ManageKept'
  <2>1. CASE inFlight' = inFlight \ {q}
    BY <1>1, <1>7, <2>1, CheckSteps
  <2>2. ASSUME NEW r \in AccountRequest, Passed(q, r), CheckFound(q) PROVE ManageKept'
    <3>1. /\ q.at = "asked" /\ UNCHANGED <<grants, account>>
          /\ \A p \in inFlight' : p.at = "passed" => p = r
      BY <1>7, <2>2, CheckSteps DEF Passed, AccountLockFree
    <3>2. UserManagers' = UserManagers /\ \A x : UserManagersExcludingRole(x)' = UserManagersExcludingRole(x)
      BY <3>1, ZenonT(30) DEF UserManagers, UserManagersExcludingRole
    <3>3. r.op # "create"
      BY <1>7, <2>2, ZenonT(30) DEF AccountChecks, UpdateCheck, DeleteCheck, SyncCheck, RoleUpdateCheck, RoleDeleteCheck,
         BindRemoteCheck,
                        Check, Passed
    <3>4. OneHolder' /\ RequestShape'
      BY <2>2, <3>1, <3>3, SMTT(20), ZenonT(20) DEF OneHolder, RequestShape, Passed
    <3>5. BindingsFollow'
      <4>1. \A u \in Users : account[u].row => account[u].id = "used"
        BY Zenon DEF BindingsFollow
      <4>2. inFlight' = (inFlight \ {q}) \cup {r} /\ r.at # "bind" /\ q.at # "bind"
        BY <2>2, <3>1 DEF Passed
      <4>3. \A p \in inFlight' : p \in inFlight \/ p.at # "bind"
        BY <4>2
      <4>4. \A p \in inFlight : p.at = "bind" => p \in inFlight'
        BY <4>2
      <4>5. r.op \in OnAccount => \A p \in inFlight : p.at = "bind" => r.user # p.user
        <5>1. r.op = q.op /\ r.user = q.user
          BY <2>2 DEF Passed
        <5> QED BY <5>1, Zenon DEF BindingsFollow, RequestShape
      <4>6. \A p, s \in inFlight' :
              s \in inFlight /\ s.at = "bind" /\ p \notin inFlight /\ p.op \in OnAccount => p.user # s.user
        BY <4>2, <4>5, SMTT(20), ZenonT(20)
      <4> QED BY <3>1, <4>1, <4>3, <4>4, <4>6, BindingsCarry
    <3>6. HolderSparesOne'
      <4>1. /\ r.op \in {"update", "sync"} => grants[r.role] = "manage" \/ OtherManager(r.user)
            /\ r.op = "sync" => account[r.user].row
            /\ r.op = "delete" => OtherManager(r.user)
        BY <2>2, SpareManager, ZenonT(30) DEF Passed, CheckFound, RoleGrantsUserManagement
      <4>2. r.op = "roleUpdate" => r.perms = "manage" \/ UserManagersExcludingRole(r.role) # {}
        <5>1. CASE grants[r.role] = "manage"
          BY <2>2, <5>1 DEF Passed, CheckFound, UserManagementGuard, RoleGrantsUserManagement
        <5>2. CASE grants[r.role] # "manage"
          BY <5>2 DEF UserManagersExcludingRole, UserManagers
        <5> QED BY <5>1, <5>2, SMTT(20), ZenonT(20)
      <4>3. r.op = "roleDelete" => \A u \in Users : account[u].row => account[u].role # r.role
        <5>1. \A u \in Users : account[u].row => account[u].role \in account[u].primary \/ account[u].role # "custom"
          BY DEF BindingsFollow, HalfCreated, RequestShape
        <5>2. r.op = "roleDelete" => r.role = "custom" /\ ~InUse(r.role)
          BY <2>2, Zenon DEF Passed, CheckFound, RequestShape
        <5> QED BY <5>1, <5>2 DEF InUse
      <4> QED BY <3>1, <3>2, <4>1, <4>2, <4>3, ZenonT(30) DEF HolderSparesOne, OtherManager
    <3> QED BY <3>2, <3>4, <3>5, <3>6
  <2> QED BY <1>7, <2>1, <2>2, CheckSteps
<1>8. ASSUME NEW q \in inFlight, AccountCommits(q) PROVE ManageKept'
  <2>1. /\ q.at = "passed" /\ inFlight' = inFlight \ {q} /\ NobodyHolds'
        /\ \A p \in inFlight : p.at = "bind" => p \in inFlight'
    BY <1>8, CommitFrees
  <2>2. OneHolder' /\ HolderSparesOne'
    <3>1. \A p \in inFlight' : p.at # "passed"
      BY <2>1, ZenonT(30) DEF NobodyHolds
    <3> QED BY <3>1, Zenon DEF OneHolder, HolderSparesOne
  <2>3. CASE UpdateCommit(q) \/ SyncCommit(q)
    <3>1. /\ q.op \in OnAccount /\ q.user \in Users /\ UNCHANGED grants /\ account[q.user].id = "used"
          /\ grants[q.role] = "manage" \/ OtherManager(q.user)
      BY <2>1, <2>3, ZenonT(30) DEF UpdateCommit, SyncCommit, Commit, OnAccount, RequestShape, HolderSparesOne
    <3>2. CASE UNCHANGED account
      BY <1>1, <2>1, <3>1, <3>2
    <3>3. CASE account[q.user].row /\ SetRole(q.user, q.role)
      <4>1. /\ account'[q.user].role = q.role /\ account'[q.user].primary = {q.role}
            /\ \A v \in Users : /\ account'[v].id = account[v].id /\ account'[v].row = account[v].row
                                /\ v # q.user => account'[v] = account[v]
        BY <3>1, <3>3, SMTT(20), ZenonT(20) DEF SetRole, AccountTypeOK
      <4>2. RequestShape'
        BY <2>1, <3>1, <4>1, ZenonT(30) DEF RequestShape
      <4>3. BindingsFollow'
        <5>1. \A u \in Users : account[u].row => account[u].id = "used"
          BY Zenon DEF BindingsFollow
        <5>2. \A p \in inFlight : p.at = "bind" => p.user \in Users /\ p.user # q.user
          BY <3>1, ZenonT(30) DEF RequestShape, BindingsFollow
        <5>3. \A u \in Users : account'[u].primary = {account'[u].role} \/ account'[u] = account[u]
          BY <4>1
        <5>4. \A p \in inFlight : p.at = "bind" => account'[p.user] = account[p.user]
          BY <4>1, <5>2
        <5>5. \A p \in inFlight' : p \in inFlight
          BY <2>1
        <5> QED BY <2>1, <4>1, <5>1, <5>3, <5>4, <5>5, BindingsCarry
      <4>4. UserManagers' # {}
        <5>1. CASE grants[q.role] = "manage"
          <6>1. q.user \in UserManagers'
            BY <3>1, <3>3, <4>1, <5>1, SMTT(20), ZenonT(20) DEF UserManagers
          <6> QED BY <6>1, SMTT(20), ZenonT(20)
        <5>2. ASSUME NEW v \in UserManagers, v # q.user PROVE v \in UserManagers'
          BY <3>1, <4>1, <5>2 DEF UserManagers
        <5> QED BY <3>1, <5>1, <5>2 DEF OtherManager
      <4> QED BY <2>2, <4>2, <4>3, <4>4
    <3> QED BY <2>1, <2>3, <3>2, <3>3, ZenonT(30) DEF UpdateCommit, SyncCommit, Commit, HolderSparesOne
  <2>4. CASE DeleteCommit(q)
    <3>1. /\ q.op \in OnAccount /\ q.user \in Users /\ UNCHANGED grants /\ OtherManager(q.user)
      BY <2>1, <2>4 DEF DeleteCommit, Commit, OnAccount, RequestShape, HolderSparesOne
    <3>2. /\ account'[q.user].id = "used" /\ ~account'[q.user].row
          /\ \A v \in Users : v # q.user => account'[v] = account[v]
      BY <2>4, <3>1, SMTT(20), ZenonT(20) DEF DeleteCommit, NoAccount, AccountTypeOK
    <3>3. RequestShape'
      BY <2>1, <3>1, <3>2, SMTT(20), ZenonT(20) DEF RequestShape
    <3>4. BindingsFollow'
      <4>1. \A u \in Users : account[u].row => account[u].id = "used"
        BY Zenon DEF BindingsFollow
      <4>2. \A u \in Users : account'[u].row => account'[u] = account[u]
        BY <3>2
      <4>3. \A p \in inFlight : p.at = "bind" => p.user \in Users /\ p.user # q.user
        BY <3>1, Zenon DEF RequestShape, BindingsFollow
      <4>4. \A p \in inFlight' : p \in inFlight
        BY <2>1
      <4>5. \A p \in inFlight : p.at = "bind" => account'[p.user] = account[p.user]
        BY <3>2, <4>3, SMTT(20), ZenonT(20)
      <4> QED BY <2>1, <4>1, <4>2, <4>4, <4>5, BindingsCarry
    <3>5. UserManagers' # {}
      BY <3>1, <3>2 DEF UserManagers, OtherManager
    <3> QED BY <2>2, <3>3, <3>4, <3>5
  <2>5. CASE RoleUpdateCommit(q) \/ RoleDeleteCommit(q)
    <3>1. UNCHANGED account /\ q.role \in Roles
      BY <2>5 DEF RoleUpdateCommit, RoleDeleteCommit, AccountTypeOK, AccountRequest
    <3>2. \A r \in Roles : r # q.role => grants'[r] = grants[r]
      BY <2>5 DEF RoleUpdateCommit, RoleDeleteCommit, AccountTypeOK
    <3>3. RequestShape' /\ BindingsFollow'
      <4>1. RequestShape'
        BY <2>1, <3>1 DEF RequestShape
      <4>2. \A u \in Users : account[u].row => account[u].id = "used"
        BY Zenon DEF BindingsFollow
      <4>3. BindingsFollow'
        BY <2>1, <3>1, <4>2, BindingsCarry, SMTT(20), ZenonT(20)
      <4> QED BY <4>1, <4>3
    <3>4. \/ grants'[q.role] = "manage" \/ UserManagersExcludingRole(q.role) # {}
      <4>1. CASE RoleUpdateCommit(q)
        BY <2>1, <3>1, <4>1, SMTT(20), ZenonT(20) DEF RoleUpdateCommit, Commit, HolderSparesOne, AccountTypeOK
      <4>2. CASE RoleDeleteCommit(q)
        BY <2>1, <4>2 DEF RoleDeleteCommit, Commit, HolderSparesOne, UserManagersExcludingRole, UserManagers
      <4> QED BY <2>5, <4>1, <4>2
    <3>5. \A u \in Users : account[u].role \in Roles
      BY DEF AccountTypeOK
    <3>6. UserManagers' # {}
      BY <3>1, <3>2, <3>4, <3>5 DEF UserManagers, UserManagersExcludingRole
    <3> QED BY <2>2, <3>3, <3>6
  <2>6. CASE BindRemoteCommit(q)
    <3>1. \A u \in Users : /\ account'[u].id = account[u].id /\ account'[u].row = account[u].row
                           /\ account'[u].role = account[u].role /\ account'[u].primary = account[u].primary
      BY <2>6 DEF BindRemoteCommit, AccountTypeOK
    <3> QED BY <1>1, <2>1, <2>6, <3>1 DEF BindRemoteCommit
  <2> QED BY <1>8, <2>3, <2>4, <2>5, <2>6 DEF AccountCommits
<1> QED BY <1>2, <1>3, <1>4, <1>5, <1>6, <1>7, <1>8 DEF AccountNext, AccountChecks, AccountCommits

\* However demotions, deletions, edits of roles, single-sign-on logins and creations of any number of accounts
\* overlap, some account can manage users: if no account is edited before its creation is answered, the second
\* write of a creation does not fail, and new accounts get a built-in role, one that cannot be deleted.
THEOREM SomeoneAlwaysManages ==
    ASSUME ~Hasty, ~PostFails, "custom" \notin NewRoles
    PROVE  AccountInit /\ [][AccountNext]_accountVars => []SomeoneManages
<1>1. AccountInit => ManageInv
  <2> SUFFICES ASSUME AccountInit PROVE ManageInv
    OBVIOUS
  <2>1. AccountTypeOK
    BY Zenon DEF AccountInit, AccountTypeOK, NoAccount, Roles, Contents
  <2>2. \A u \in Users : /\ account[u].row => account[u].id = "used" /\ account[u].primary = {account[u].role}
                         /\ u = 1 => account[u].row /\ account[u].role = "admin"
    BY AccountAssumption, Zenon DEF AccountInit, NoAccount
  <2>3. 1 \in Users /\ grants["admin"] = "manage"
    BY AccountAssumption, Zenon DEF AccountInit, Users, Roles
  <2>4. inFlight = {}
    BY Zenon DEF AccountInit
  <2>5. OneHolder /\ RequestShape /\ HolderSparesOne
    BY <2>4 DEF OneHolder, RequestShape, HolderSparesOne
  <2>6. BindingsFollow
    BY <2>2, <2>4 DEF BindingsFollow
  <2>7. 1 \in UserManagers
    BY <2>2, <2>3 DEF UserManagers
  <2> QED BY <2>1, <2>5, <2>6, <2>7 DEF ManageInv, ManageKept
<1>2. ManageInv /\ [AccountNext]_accountVars => ManageInv'
  <2>1. ASSUME ManageInv, AccountNext PROVE ManageInv'
    BY <2>1, AccountStepTyped, ManageStepKeeps DEF ManageInv
  <2>2. ASSUME ManageInv, UNCHANGED accountVars PROVE ManageInv'
    <3>1. account' = account /\ grants' = grants /\ inFlight' = inFlight /\ roles' = roles
      BY <2>2 DEF accountVars
    <3>2. UserManagers' = UserManagers /\ \A x : UserManagersExcludingRole(x)' = UserManagersExcludingRole(x)
      BY <3>1 DEF UserManagers, UserManagersExcludingRole
    <3>3. AccountTypeOK' /\ OneHolder' /\ RequestShape'
      BY <2>2, <3>1 DEF ManageInv, ManageKept, AccountTypeOK, OneHolder, RequestShape
    <3>4. BindingsFollow'
      BY <2>2, <3>1 DEF ManageInv, ManageKept, BindingsFollow, HalfCreated
    <3>5. HolderSparesOne'
      BY <2>2, <3>1, <3>2, SMTT(20), ZenonT(20) DEF ManageInv, ManageKept, HolderSparesOne, OtherManager
    <3> QED BY <2>2, <3>2, <3>3, <3>4, <3>5 DEF ManageInv, ManageKept
  <2> QED BY <2>1, <2>2
<1>3. ManageInv => SomeoneManages
  <2> SUFFICES ASSUME ManageInv PROVE SomeoneManages
    OBVIOUS
  <2>1. PICK u \in UserManagers : TRUE
    BY DEF ManageInv, ManageKept
  <2>2. u \in Users /\ account[u].row /\ grants[account[u].role] = "manage"
    BY DEF UserManagers
  <2>3. CASE account[u].primary = {account[u].role}
    BY <2>2, <2>3 DEF SomeoneManages, CanManage
  <2>4. CASE HalfCreated(u)
    BY <2>2, <2>4 DEF HalfCreated, SomeoneManages
  <2> QED BY <2>2, <2>3, <2>4 DEF ManageInv, ManageKept, BindingsFollow
<1> QED BY <1>1, <1>2, <1>3, PTL
=============================================================================
