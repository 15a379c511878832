--------------------------- MODULE AddressAssignment --------------------------
(***************************************************************************)
(* The load-balancer address of game servers: the operator translates a    *)
(* request for a pool or for one address into metadata of the game         *)
(* Service, an address manager (MetalLB or Cilium) answers by publishing   *)
(* the address or by an event or condition, and the operator reports the   *)
(* outcome, including conflicts between servers that contend for the one   *)
(* address of the model.  A pass reads the server and the list of servers  *)
(* from caches, which lag behind the API server.                           *)
(***************************************************************************)
EXTENDS Naturals, FiniteSets, FiniteSetsExt

CONSTANTS Servers,           \* 1..n in creation order
          AddressRequests,   \* for each server, the requests its spec may make, as subsets of {"lb", "addr",
                             \* "pool"}
          Managers,          \* --address-manager flavours the operator may be started with
          PoolAnswers,       \* what a GET of the IPAddressPool may answer: "found", "missing" or "unknown"
          LastGen,           \* bound: spec edits
          Editable           \* servers whose networking may be edited

VARIABLES
    manager,      \* the flavour of the running operator
    spec,         \* generation and networking request of each server, and whether it is being deleted
    status,       \* AddressAssignment condition and endpoint host of each server
    statusSeen,   \* the informer cache of the status
    service,      \* game Service: type, metadata keys, and the keys recorded as managed
    ingress,      \* servers whose Service has the address published
    signal,       \* servers with an allocation failure on record (MetalLB event, Cilium condition)
    poolFound,    \* what a GET of the IPAddressPool answers
    addrPass      \* the server whose pass is under way, 0 when none is
addressVars == <<manager, spec, status, statusSeen, service, ingress, signal, poolFound, addrPass>>

Latched == {"PoolNotFound", "AllocationFailed"}
TerminalReasons == Latched \union {"IgnoredForExposureMode", "NoAddressManagerConfigured", "AddressInUse"}
AddressReasons == TerminalReasons \union {"none", "ServiceNotReady", "AssignmentPending", "Assigned"}
Networking(s) == [gen: 1..LastGen, wants: AddressRequests[s], deleting: BOOLEAN]
NoReport == [reason |-> "none", gen |-> 0, host |-> "none"]
NoService == [lb |-> FALSE, exists |-> FALSE, keys |-> {}, managed |-> {}]

AddressTypeOK ==
    /\ manager \in Managers /\ poolFound \in PoolAnswers
    /\ ingress \subseteq Servers /\ signal \subseteq Servers
    /\ \A s \in Servers :
         /\ spec[s] \in Networking(s)
         /\ \A r \in {status[s], statusSeen[s]} :
              r.reason \in AddressReasons /\ r.gen \in 0..LastGen /\ r.host \in {"none", "cluster", "a"}
         /\ service[s].keys \subseteq {"foreign", "mpool", "maddr", "caddr", "cpool"}
    /\ addrPass \in Servers \union {0}

\* planAddressPreference.
Requested(n) == n.wants \intersect {"addr", "pool"} # {}
PlanOutcome(n) ==
    IF ~Requested(n) THEN "NotRequested"
    ELSE IF "lb" \notin n.wants THEN "IgnoredForExposureMode"
    ELSE IF manager \in {"metallb", "cilium"} THEN "Translated" ELSE "NoAddressManagerConfigured"
\* serviceAnnotations and serviceLabels: MetalLB reads annotations, Cilium takes the pool from a label.
DesiredKeys(n) ==
    IF PlanOutcome(n) # "Translated" THEN {}
    ELSE IF manager = "metallb"
         THEN (IF "pool" \in n.wants THEN {"mpool"} ELSE {}) \union (IF "addr" \in n.wants THEN {"maddr"} ELSE {})
         ELSE (IF "pool" \in n.wants THEN {"cpool"} ELSE {}) \union (IF "addr" \in n.wants THEN {"caddr"} ELSE {})

AddressInit ==
    /\ manager \in Managers /\ poolFound = "found" /\ ingress = {} /\ signal = {} /\ addrPass = 0
    /\ spec \in [Servers -> UNION {[gen: {1}, wants: AddressRequests[s], deleting: {FALSE}] : s \in Servers}]
    /\ \A s \in Servers : spec[s].wants \in AddressRequests[s]
    /\ status = [s \in Servers |-> NoReport] /\ statusSeen = status
    /\ service = [s \in Servers |-> NoService]

-----------------------------------------------------------------------------
(* Users, the address manager and the caches.                              *)

\* An edit counts from when the operator's cache has it: the spec a pass works on does not move.
EditNetworking(s) ==
    /\ s \in Editable /\ addrPass # s /\ spec[s].gen < LastGen /\ ~spec[s].deleting
    /\ \E w \in AddressRequests[s] \ {spec[s].wants} : spec' = [spec EXCEPT ![s] = [@ EXCEPT !.gen = @ + 1, !.wants = w]]
    /\ UNCHANGED <<manager, status, statusSeen, service, ingress, signal, poolFound, addrPass>>
AddressDeleteServer(s) ==
    /\ s \notin Editable /\ addrPass # s /\ ~spec[s].deleting /\ spec' = [spec EXCEPT ![s].deleting = TRUE]
    /\ UNCHANGED <<manager, status, statusSeen, service, ingress, signal, poolFound, addrPass>>
AsksForAddress(s) == service[s].lb /\ service[s].keys \ {"foreign"} # {}
\* The manager publishes the address and annotates the Service with it, records that it cannot, or takes back
\* an address not asked for.
ManagerAssigns(s) ==
    /\ AsksForAddress(s) /\ ingress = {}
    /\ (service[s].keys \intersect {"mpool", "cpool"} # {} => poolFound # "missing")
    /\ ingress' = {s} /\ service' = [service EXCEPT ![s].keys = @ \union {"foreign"}]
    /\ signal' = IF manager = "cilium" THEN signal \ {s} ELSE signal
    /\ UNCHANGED <<manager, spec, status, statusSeen, poolFound, addrPass>>
ManagerFails(s) ==
    /\ AsksForAddress(s) /\ s \notin ingress /\ ingress # {} /\ s \notin signal
    /\ signal' = signal \union {s}
    /\ UNCHANGED <<manager, spec, status, statusSeen, service, ingress, poolFound, addrPass>>
ManagerFrees(s) ==
    /\ s \in ingress /\ (~AsksForAddress(s) \/ spec[s].deleting) /\ ingress' = ingress \ {s}
    /\ service' = IF spec[s].deleting THEN [service EXCEPT ![s] = NoService] ELSE service
    /\ UNCHANGED <<manager, spec, status, statusSeen, signal, poolFound, addrPass>>
EventExpires(s) ==
    /\ manager = "metallb" /\ s \in signal /\ signal' = signal \ {s}
    /\ UNCHANGED <<manager, spec, status, statusSeen, service, ingress, poolFound, addrPass>>
PoolChanges ==
    /\ manager = "metallb" /\ poolFound' \in PoolAnswers \ {poolFound}
    /\ UNCHANGED <<manager, spec, status, statusSeen, service, ingress, signal, addrPass>>
\* A pass works on what it read, so the cache of its own server may as well move after it.
ServersSynced(s) ==
    /\ addrPass # s /\ statusSeen[s] # status[s]
    /\ statusSeen' = [statusSeen EXCEPT ![s] = status[s]]
    /\ UNCHANGED <<manager, spec, status, service, ingress, signal, poolFound, addrPass>>

-----------------------------------------------------------------------------
(* The pass.                                                               *)

\* reconcileService: the type follows the spec; the keys recorded last time and no longer wanted are
\* pruned, the wanted ones applied and recorded; other controllers' keys stay.
ReconcileGameService(s) ==
    /\ addrPass = 0 /\ ~spec[s].deleting
    /\ addrPass' = s
    /\ service' = [service EXCEPT ![s] = [exists |-> TRUE, lb |-> "lb" \in spec[s].wants,
                                          keys |-> (@.keys \ @.managed) \union DesiredKeys(spec[s]),
                                          managed |-> DesiredKeys(spec[s])]]
    /\ UNCHANGED <<manager, spec, status, statusSeen, ingress, signal, poolFound>>

\* findAddressConflict: holders before requesters, then by age; gs conflicts with the first of them.
Holds(n, r) == "lb" \in n.wants /\ r.host = "a"
AddressConflictLess(a, aHolds, b, bHolds) == IF aHolds # bHolds THEN aHolds ELSE a < b
ConflictOf(s, n, r, view, reports) ==
    IF "addr" \notin n.wants THEN 0
    ELSE LET others == {o \in Servers \ {s} : /\ ~view[o].deleting
                                              /\ "addr" \in view[o].wants \/ Holds(view[o], reports[o])}
             held(o) == Holds(view[o], reports[o])
         IN  IF others = {} THEN 0
             ELSE LET winner == CHOOSE o \in others : \A p \in others \ {o} : AddressConflictLess(o, held(o), p, held(p))
                  IN  IF AddressConflictLess(winner, held(winner), s, Holds(n, r)) THEN winner ELSE 0

\* listServiceEvents: nothing is read once the condition is terminal; Cilium's condition is always read.
ReadsEvents(r) == ~(r.reason \in TerminalReasons \/ (r.reason = "Assigned" /\ r.host # "none"))
\* reconcileStatus: the failure found in this pass, and whether the pool is known to exist.
Failure(s, n, r) ==
    LET event == manager # "cilium" /\ ReadsEvents(r) /\ s \in signal
    IN  IF PlanOutcome(n) = "Translated" /\ manager = "cilium"
        THEN IF s \in signal THEN "AllocationFailed" ELSE ""
        ELSE IF PlanOutcome(n) = "Translated" /\ "pool" \in n.wants /\ poolFound = "missing" THEN "PoolNotFound"
        ELSE IF event THEN "AllocationFailed" ELSE ""
ConfirmedClear(n) ==
    PlanOutcome(n) = "Translated" /\ manager = "metallb" /\ "pool" \in n.wants /\ poolFound = "found"

\* addressAssignmentCondition.
KeepsLatch(n, r) == r.gen = n.gen /\ r.reason \in Latched /\ (~ConfirmedClear(n) \/ r.reason # "PoolNotFound")
AssignmentReason(s, n, r, conflict) ==
    LET assigned == service[s].lb /\ s \in ingress
    IN  IF PlanOutcome(n) \in {"IgnoredForExposureMode", "NoAddressManagerConfigured"} THEN PlanOutcome(n)
        ELSE IF conflict # 0 THEN "AddressInUse"
        ELSE IF Failure(s, n, r) # "" THEN Failure(s, n, r)
        ELSE IF ~assigned /\ KeepsLatch(n, r) THEN r.reason
        ELSE IF ~service[s].lb THEN "ServiceNotReady"
        ELSE IF ~assigned THEN "AssignmentPending" ELSE "Assigned"
\* endpointsFromService: the published address, else the cluster IP.
EndpointHost(s) == IF service[s].lb /\ s \in ingress THEN "a" ELSE "cluster"

\* The status is a merge patch of what differs from the copy the pass read; the conditions are one
\* list, written whole when any of them differs.
ReportAddress(s) ==
    /\ addrPass = s
    /\ LET n == spec[s]
           r == statusSeen[s]
           conflict == ConflictOf(s, n, r, spec, statusSeen)
           new == IF ~Requested(n) THEN [NoReport EXCEPT !.host = EndpointHost(s)]
                  ELSE [reason |-> AssignmentReason(s, n, r, conflict), gen |-> n.gen,
                        host |-> EndpointHost(s)]
       IN  \E others \in BOOLEAN :
             status' = [status EXCEPT ![s] =
                 [reason |-> IF others \/ <<new.reason, new.gen>> # <<r.reason,
                                                                      r.gen>> THEN new.reason ELSE @.reason,
                  gen |-> IF others \/ <<new.reason, new.gen>> # <<r.reason, r.gen>> THEN new.gen ELSE @.gen,
                  host |-> IF new.host # r.host THEN new.host ELSE @.host]]
    /\ addrPass' = 0
    /\ UNCHANGED <<manager, spec, statusSeen, service, ingress, signal, poolFound>>
AddrPassFails ==
    /\ addrPass # 0 /\ addrPass' = 0
    /\ UNCHANGED <<manager, spec, status, statusSeen, service, ingress, signal, poolFound>>

AddressNext ==
    \/ \E s \in Servers : \/ EditNetworking(s) \/ AddressDeleteServer(s) \/ ManagerAssigns(s) \/ ManagerFails(s)
                          \/ ManagerFrees(s) \/ EventExpires(s) \/ ServersSynced(s)
                          \/ ReconcileGameService(s) \/ ReportAddress(s)
    \/ PoolChanges \/ AddrPassFails

-----------------------------------------------------------------------------
(* Properties.                                                             *)

AddressLive(s) == ~spec[s].deleting
\* Contenders never all lose: on the state as it is, at least one live server that requests or holds
\* the address is told it has no conflict, and no two are told of each other.
SomeoneUncontested ==
    LET contenders == {s \in Servers : AddressLive(s) /\ ("addr" \in spec[s].wants \/ Holds(spec[s], status[s]))}
        conflict(s) == ConflictOf(s, spec[s], status[s], spec, status)
    IN  /\ contenders # {} => \E s \in contenders : conflict(s) = 0
        /\ \A s, t \in contenders : ~(s # t /\ conflict(s) = t /\ conflict(t) = s)

\* Every key the operator put on a game Service is recorded, so that it goes away with the request,
\* and the key the address manager wrote stays as long as the address does.
NoOrphanedKey ==
    \A s \in Servers : /\ service[s].keys \ {"foreign"} = service[s].managed
                       /\ s \in ingress => "foreign" \in service[s].keys

\* A diagnosed allocation failure is not forgotten: while the request is the same and no address is
\* published, the report does not fall back to pending although the event has expired.
FailureNotForgotten ==
    [][\A s \in Servers :
         /\ status[s].reason = "AllocationFailed" /\ statusSeen[s] = status[s]
         /\ status'[s].gen = status[s].gen
         /\ status'[s].reason # status[s].reason /\ s \notin ingress
         => status'[s].reason # "AssignmentPending"]_addressVars

=============================================================================
