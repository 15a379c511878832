-------------------------------- MODULE Audit ---------------------------------
(*****************************************************************************)
(* The audit trail and its mirrors. The parts share no state; each has its   *)
(* own initial states and steps.                                             *)
(*****************************************************************************)
EXTENDS Integers, SequencesExt, FiniteSets

(***************************************************************************)
(* The audit trail of the API: the hash chain of audit_events, the         *)
(* retention sweep that cuts it and the verification that walks it.        *)
(* Requests are recorded by the middleware after the handler, or by the    *)
(* handler itself (WriteSync); the time of an event is read before the     *)
(* chain lock is taken.  Only the program writes the table here, so every  *)
(* verification ought to find the chain intact.  computeHash is injective: *)
(* a row's hash is its id, the hash of the genesis and of a row older than *)
(* the chain is 0.                                                         *)
(***************************************************************************)
CONSTANTS Recorded,       \* bound: the audited requests
          SyncRequests,   \* those whose handler writes its own row (capture operations)
          Downloads,      \* those of SyncRequests the middleware never logs (GET)
          TrailMaxTime,   \* bound: seconds
          Retention,      \* age in seconds at which a sweep deletes a row
          Overtaking,     \* whether a request may reach the chain lock before one stamped earlier
          SweepsOverlap   \* whether a sweep may run while a verification is under way

VARIABLES
    now,          \* the clock
    trail,        \* audit_events: id -> ts, prev_hash, hash
    lastRow,      \* the id sequence
    checkpoint,   \* config key audit.checkpoint
    head,         \* config key audit.head
    trailEntry,   \* per request: its progress, stamp, rows written and events mirrored
    verifier      \* a call of Verify under way, or its verdict
trailVars == <<now, trail, lastRow, checkpoint, head, trailEntry, verifier>>

Anchor == [id : Nat, hash : Nat]
TrailEntry == [at : {"handler", "stamped", "answered", "logging", "done"}, ts : 0..TrailMaxTime,
               recorded : BOOLEAN, rows : 0..2, mirrored : 0..2, failed : BOOLEAN]
NoVerifier == [at |-> "idle", after |-> 0, prev |-> 0, ok |-> TRUE]

TrailTypeOK ==
    /\ now \in 1..TrailMaxTime /\ lastRow \in Nat
    /\ DOMAIN trail \subseteq 1..lastRow
    /\ \A i \in DOMAIN trail : trail[i] \in [ts : 0..TrailMaxTime, prev : 0..lastRow, hash : {0, i}]
    /\ checkpoint \in Anchor /\ head \in Anchor /\ trailEntry \in [Recorded -> TrailEntry]
    /\ verifier \in [at : {"idle", "anchored", "walked", "reported"}, after : Nat, prev : Nat, ok : BOOLEAN]

\* A database that may hold a row from before the chain was introduced.
TrailInit ==
    /\ now = 1 /\ checkpoint = [id |-> 0, hash |-> 0] /\ head = [id |-> 0, hash |-> 0]
    /\ \E old \in {{}, {1}} : trail = [i \in old |-> [ts |-> 0, prev |-> 0,
                                                      hash |-> 0]] /\ lastRow = (IF old = {} THEN 0 ELSE 1)
    /\ trailEntry = [r \in Recorded |-> [at |-> "handler", ts |-> 0, recorded |-> FALSE, rows |-> 0,
                                         mirrored |-> 0, failed |-> FALSE]]
    /\ verifier = NoVerifier

TrailLatest(ids) == Max(ids \cup {0})
Second == now < TrailMaxTime /\ now' = now + 1 /\ UNCHANGED <<trail, lastRow, checkpoint, head, trailEntry,
                                                              verifier>>

-----------------------------------------------------------------------------
(* The chain.                                                              *)

\* Variant: an empty table starts the chain anew.
PreviousHashTableOnly == IF DOMAIN trail # {} THEN trail[TrailLatest(DOMAIN trail)].hash ELSE 0
\* previousHash: the latest row's hash, or the checkpoint's when the table is empty.
PreviousHash == IF DOMAIN trail # {} THEN trail[TrailLatest(DOMAIN trail)].hash ELSE checkpoint.hash

\* The transaction of insertChained: the row and audit.head.
InsertChained(ts) ==
    LET id == lastRow + 1
    IN  /\ lastRow' = id
        /\ trail' = [i \in DOMAIN trail \cup {id} |-> IF i = id THEN [ts |-> ts, prev |-> PreviousHash,
                                                                      hash |-> id] ELSE trail[i]]
        /\ head' = [id |-> id, hash |-> id]

\* Requests reach the chain lock in any order.
Turn(r) ==
    Overtaking \/ \A s \in Recorded : trailEntry[s].at \in {"stamped",
                                                            "logging"} => trailEntry[s].ts >= trailEntry[r].ts

\* WriteSync, and the middleware once the handler has returned, stamp the event before they insert.
StampSync(r) ==
    /\ r \in SyncRequests /\ trailEntry[r].at = "handler"
    /\ trailEntry' = [trailEntry EXCEPT ![r].at = "stamped", ![r].ts = now]
    /\ UNCHANGED <<now, trail, lastRow, checkpoint, head, verifier>>

\* WriteSync: a failed insert is reported and mirrors nothing; auditWriteOrFail calls MarkRecorded
\* only after a success.
LeaveUnmarked(r) == trailEntry' = [trailEntry EXCEPT ![r].at = "answered", ![r].ts = 0, ![r].failed = TRUE]
WriteSync(r) ==
    /\ trailEntry[r].at = "stamped" /\ Turn(r)
    /\ \/ /\ InsertChained(trailEntry[r].ts)
          /\ trailEntry' = [trailEntry EXCEPT ![r].at = "answered", ![r].ts = 0, ![r].recorded = TRUE,
                            ![r].rows = @ + 1, ![r].mirrored = @ + 1]
       \/ LeaveUnmarked(r) /\ UNCHANGED <<trail, lastRow, head>>
    /\ UNCHANGED <<now, checkpoint, verifier>>

\* Middleware after next.ServeHTTP: shouldLog, the recorded flag, and the stamp.
ShouldLog(r) == r \notin Downloads
SkipsMiddleware(r) == ~ShouldLog(r) \/ trailEntry[r].recorded
AfterHandler(r) ==
    /\ trailEntry[r].at = IF r \in SyncRequests THEN "answered" ELSE "handler"
    /\ trailEntry' = [trailEntry EXCEPT ![r].at = IF SkipsMiddleware(r) THEN "done" ELSE "logging",
                                        ![r].ts = IF SkipsMiddleware(r) THEN @ ELSE now]
    /\ UNCHANGED <<now, trail, lastRow, checkpoint, head, verifier>>

\* Middleware mirrors the event whether the insert failed or not.
MiddlewareWrites(r) ==
    /\ trailEntry[r].at = "logging" /\ Turn(r)
    /\ \E ok \in BOOLEAN :
          /\ trailEntry' = [trailEntry EXCEPT ![r].at = "done", ![r].ts = 0, ![r].mirrored = @ + 1,
                            ![r].rows = IF ok THEN @ + 1 ELSE @, ![r].failed = ~ok]
          /\ IF ok THEN InsertChained(trailEntry[r].ts) ELSE UNCHANGED <<trail, lastRow, head>>
    /\ UNCHANGED <<now, checkpoint, verifier>>

-----------------------------------------------------------------------------
(* Retention.                                                              *)

\* The sweep deletes by time and checkpoints the highest id it deletes, in one transaction under the
\* chain lock; a row from before the chain leaves the checkpoint alone.
Outdated == {i \in DOMAIN trail : trail[i].ts < now - Retention}
Checkpointed(i) == IF trail[i].hash # 0 THEN [id |-> i, hash |-> trail[i].hash] ELSE checkpoint
Prune ==
    /\ Outdated # {} /\ (SweepsOverlap \/ verifier.at \notin {"anchored", "walked"})
    /\ checkpoint' = Checkpointed(Max(Outdated))
    /\ trail' = [i \in DOMAIN trail \ Outdated |-> trail[i]]
    /\ UNCHANGED <<now, lastRow, head, trailEntry, verifier>>

-----------------------------------------------------------------------------
(* Verification: three queries of their own, outside the chain lock.       *)

VerifyAnchor ==
    /\ verifier.at \in {"idle", "reported"} /\ verifier.ok
    /\ verifier' = [at |-> "anchored", after |-> checkpoint.id, prev |-> checkpoint.hash, ok |-> TRUE]
    /\ UNCHANGED <<now, trail, lastRow, checkpoint, head, trailEntry>>

\* Each chained row after the checkpoint links to the one before it, the first to the checkpoint.
Chained(after) == {i \in DOMAIN trail : i > after /\ trail[i].hash # 0}
Before(i, after) == TrailLatest({j \in Chained(after) : j < i})
WalkIntact(after, prev) ==
    \A i \in Chained(after) : trail[i].prev = IF Before(i,
                                                        after) = 0 THEN prev ELSE trail[Before(i, after)].hash
VerifyWalk ==
    /\ verifier.at = "anchored"
    /\ verifier' = IF WalkIntact(verifier.after, verifier.prev) THEN [verifier EXCEPT !.at = "walked"]
                   ELSE [NoVerifier EXCEPT !.at = "reported", !.ok = FALSE]
    /\ UNCHANGED <<now, trail, lastRow, checkpoint, head, trailEntry>>

\* verifyHead: a head the checkpoint covers is no break, any other must name a surviving row.
HeadIntact(after) == head.id <= after \/ (head.id \in DOMAIN trail /\ trail[head.id].hash = head.hash)
VerifyHead ==
    /\ verifier.at = "walked"
    /\ verifier' = [NoVerifier EXCEPT !.at = "reported", !.ok = HeadIntact(verifier.after)]
    /\ UNCHANGED <<now, trail, lastRow, checkpoint, head, trailEntry>>

TrailNext ==
    \/ Second \/ Prune \/ VerifyAnchor \/ VerifyWalk \/ VerifyHead
    \/ \E r \in Recorded : StampSync(r) \/ WriteSync(r) \/ AfterHandler(r) \/ MiddlewareWrites(r)

-----------------------------------------------------------------------------
\* Verify never reports a break in a table only the program has written: neither a sweep that removes
\* rows, the row the head names included, nor rows from before the chain break the links it walks.
IntactChainVerifies == verifier.ok

\* A request that has been answered is in the trail exactly once unless its last insert failed, and
\* was mirrored exactly once: MarkRecorded keeps the middleware from adding a second row, and a failed
\* WriteSync leaves the record to the middleware.  A download the middleware never logs may miss.
RecordedOnce ==
    \A r \in Recorded : trailEntry[r].at = "done" =>
        \/ r \in Downloads /\ trailEntry[r].failed /\ trailEntry[r].rows = 0
        \/ trailEntry[r].mirrored = 1 /\ trailEntry[r].rows = (IF trailEntry[r].failed THEN 0 ELSE 1)

-----------------------------------------------------------------------------
(***************************************************************************)
(* The external mirrors of the audit trail: a webhook that receives one    *)
(* event per POST and an object store that receives batches, each fed by a *)
(* bounded channel and one worker, and the shutdown of the API process     *)
(* around them.  The two sinks share nothing, so a behaviour has one.  An  *)
(* event is its position in the trail; a PUT that is answered with an      *)
(* error may still have been stored.                                       *)
(***************************************************************************)
CONSTANTS Audited,       \* bound: events the process audits
          ChannelSize,   \* webhookBuffer, s3Buffer
          FlushCount,    \* s3FlushCountSize
          Attempts,      \* uploads tried per batch
          Stragglers,    \* whether requests still end while the server shuts down
          Impatient      \* whether the drain and exit deadlines may pass

VARIABLES
    sink,          \* the configured sink
    sinkProcess,   \* the API process: running, stopping (context cancelled), served (server shut down), exited
    audited,       \* events handed to Enqueue so far
    sinkCh,        \* the worker's channel
    sinkWorker,    \* the worker goroutine
    hand,          \* the event being posted, or the batch being collected or uploaded
    tries,         \* uploads of the batch tried so far
    key,           \* seqCounter: the object key of the batch being uploaded
    objects,       \* what the other side has stored: key and events
    counted        \* the events each counter stands for
sinkVars == <<sink, sinkProcess, audited, sinkCh, sinkWorker, hand, tries, key, objects, counted>>

SinkTypeOK ==
    /\ sink \in {"webhook", "s3"} /\ sinkProcess \in {"running", "stopping", "served", "exited"}
    /\ audited \in 0..Audited /\ Len(sinkCh) <= ChannelSize /\ tries \in 0..Attempts /\ key \in Nat
    /\ sinkWorker \in {"running", "delivering", "draining", "drainDelivering", "gone"}
    /\ ToSet(sinkCh) \cup ToSet(hand) \subseteq 1..Audited
    /\ \A o \in objects : o.key \in Nat /\ ToSet(o.events) \subseteq 1..Audited
    /\ counted \in [{"sent", "failed", "dropped"} -> SUBSET (1..Audited)]

SinkInit ==
    /\ sink \in {"webhook", "s3"} /\ sinkProcess = "running" /\ audited = 0 /\ sinkCh = <<>>
    /\ sinkWorker = "running"
    /\ hand = <<>> /\ tries = 0 /\ key = 0 /\ objects = {}
    /\ counted = [c \in {"sent", "failed", "dropped"} |-> {}]

-----------------------------------------------------------------------------
(* The request path.                                                       *)

\* Enqueue never blocks: a full channel drops the event and counts it.
SinkEnqueue ==
    /\ audited < Audited /\ (sinkProcess = "running" \/ (Stragglers /\ sinkProcess = "stopping"))
    /\ audited' = audited + 1
    /\ IF Len(sinkCh) < ChannelSize
       THEN sinkCh' = Append(sinkCh, audited') /\ UNCHANGED counted
       ELSE counted' = [counted EXCEPT !["dropped"] = @ \cup {audited'}] /\ UNCHANGED sinkCh
    /\ UNCHANGED <<sink, sinkProcess, sinkWorker, hand, tries, key, objects>>

-----------------------------------------------------------------------------
(* The workers.                                                            *)

Draining == sinkWorker \in {"draining", "drainDelivering"}
Ship(batch) ==
    /\ hand' = batch /\ sinkWorker' = IF Draining THEN "drainDelivering" ELSE "delivering"
    /\ tries' = 0 /\ key' = key + 1
Tally(result, events) == counted' = [counted EXCEPT ![result] = @ \cup ToSet(events)]
SinkDelivered == hand' = <<>> /\ tries' = 0 /\ sinkWorker' = IF Draining THEN "draining" ELSE "running"

\* The webhook worker, running or draining, takes one event and posts it.
WebhookTakes ==
    /\ sink = "webhook" /\ sinkWorker \in {"running", "draining"} /\ sinkCh # <<>>
    /\ Ship(<<Head(sinkCh)>>) /\ sinkCh' = Tail(sinkCh)
    /\ UNCHANGED <<sink, sinkProcess, audited, objects, counted>>

\* post: one attempt.
SinkPost ==
        /\ sink = "webhook" /\ sinkWorker \in {"delivering", "drainDelivering"}
        /\ \/ objects' = objects \cup {[key |-> key, events |-> hand]} /\ Tally("sent", hand)
           \/ objects' \in {objects, objects \cup {[key |-> key, events |-> hand]}} /\ Tally("failed", hand)
        /\ SinkDelivered
        /\ UNCHANGED <<sink, sinkProcess, audited, sinkCh, key>>

\* The object-store worker collects a batch and uploads it when it is long enough or, while running,
\* large enough.
S3Takes ==
    /\ sink = "s3" /\ sinkWorker \in {"running", "draining"} /\ sinkCh # <<>>
    /\ sinkCh' = Tail(sinkCh)
    /\ LET batch == Append(hand, Head(sinkCh))
       IN \E large \in BOOLEAN :
             IF Len(batch) >= FlushCount \/ (large /\ sinkWorker = "running") THEN Ship(batch)
             ELSE hand' = batch /\ UNCHANGED <<sinkWorker, tries, key>>
    /\ UNCHANGED <<sink, sinkProcess, audited, objects, counted>>

\* Variant: the ticker uploads full batches only.
FlushFullTick ==
    /\ sink = "s3" /\ sinkWorker = "running" /\ Len(hand) >= FlushCount
    /\ Ship(hand)
    /\ UNCHANGED <<sink, sinkProcess, audited, sinkCh, objects, counted>>
\* The ticker uploads what has been collected.
FlushTick ==
    /\ sink = "s3" /\ sinkWorker = "running" /\ hand # <<>>
    /\ Ship(hand)
    /\ UNCHANGED <<sink, sinkProcess, audited, sinkCh, objects, counted>>

\* pushBatch: up to Attempts uploads under one key; a transient error may leave the object stored.
KeyOf(attempt) == key
PushBatch ==
    /\ sink = "s3" /\ sinkWorker \in {"delivering", "drainDelivering"}
    /\ LET object == [key |-> KeyOf(tries), events |-> hand]
           stored == {o \in objects : o.key # object.key} \cup {object}
       IN  \/ objects' = stored /\ Tally("sent", hand) /\ SinkDelivered
           \/ objects' = objects /\ Tally("failed", hand) /\ SinkDelivered
           \/ /\ objects' \in {objects, stored}
              /\ IF tries + 1 < Attempts THEN tries' = tries + 1 /\ UNCHANGED <<sinkWorker, hand, counted>>
                 ELSE Tally("failed", hand) /\ SinkDelivered
    /\ UNCHANGED <<sink, sinkProcess, audited, sinkCh, key>>

\* Start sees the cancelled context at its select.
StartDraining ==
    /\ sinkProcess # "running" /\ sinkWorker = "running"
    /\ sinkWorker' = "draining"
    /\ UNCHANGED <<sink, sinkProcess, audited, sinkCh, hand, tries, key, objects, counted>>

\* drain: an empty channel ends it, after the last batch has been uploaded; the deadline ends it too.
DrainDone == hand = <<>> /\ (sinkCh = <<>> \/ Impatient)
SinkDrainEnds ==
    /\ sinkWorker = "draining"
    /\ \/ DrainDone /\ sinkWorker' = "gone" /\ UNCHANGED <<hand, tries, key>>
       \/ ~DrainDone /\ hand # <<>> /\ (sinkCh = <<>> \/ Impatient) /\ Ship(hand)
    /\ UNCHANGED <<sink, sinkProcess, audited, sinkCh, objects, counted>>

-----------------------------------------------------------------------------
(* The process.                                                            *)

Cancel ==
    /\ sinkProcess = "running" /\ sinkProcess' = "stopping"
    /\ UNCHANGED <<sink, audited, sinkCh, sinkWorker, hand, tries, key, objects, counted>>

\* srv.Shutdown returns when the requests in flight have ended.
ServerShutDown ==
    /\ sinkProcess = "stopping" /\ sinkProcess' = "served"
    /\ UNCHANGED <<sink, audited, sinkCh, sinkWorker, hand, tries, key, objects, counted>>

\* main waits for the worker, for three seconds at most.
WorkerAwaited == sinkWorker = "gone" \/ Impatient
Exit ==
    /\ sinkProcess = "served" /\ WorkerAwaited /\ sinkProcess' = "exited"
    /\ UNCHANGED <<sink, audited, sinkCh, sinkWorker, hand, tries, key, objects, counted>>

SinkWorkerStep ==
    \/ WebhookTakes \/ SinkPost \/ S3Takes \/ PushBatch \/ FlushTick \/ StartDraining \/ SinkDrainEnds
SinkNext == (sinkProcess # "exited" /\ (SinkEnqueue \/ SinkWorkerStep)) \/ Cancel \/ ServerShutDown \/ Exit

-----------------------------------------------------------------------------
\* When the process has exited, every event it audited was sent, or is counted as failed or dropped:
\* the shutdown waits for the drain, and the drain for the last batch.
GapsAreCounted ==
    sinkProcess = "exited" => counted["sent"] \cup counted["failed"] \cup counted["dropped"] = 1..audited

\* An event is in at most one stored object, and the objects are in the order of the trail, although
\* an upload is retried after an error that may have stored it: the retries of pushBatch share a key.
StoredOnceInOrder ==
    \A o, p \in objects : o # p =>
        /\ ToSet(o.events) \cap ToSet(p.events) = {}
        /\ o.key < p.key => \A e \in ToSet(o.events), f \in ToSet(p.events) : e < f

-----------------------------------------------------------------------------
(***************************************************************************)
(* The audit-syslog-bridge: HTTP POSTs, each answered by one send to a     *)
(* syslog collector over a lazily dialled, reused connection guarded by a  *)
(* mutex.  A stream carries octet-counted frames, so a collector reads a   *)
(* connection correctly only up to the first incomplete frame.  A write    *)
(* that fails or times out may have put a part of the frame on the wire,   *)
(* one after the collector closed may succeed locally and be lost.         *)
(***************************************************************************)
CONSTANTS Posts,     \* bound: POSTs the bridge serves
          Dials,     \* bound: connections it opens
          Networks   \* the values of SYSLOG_NETWORK

VARIABLES
    network,    \* the configured network
    post,       \* per POST: where its handler is
    fwd,        \* forwarder.conn: 0 or a connection
    dialled,    \* connections opened so far
    stream,     \* per connection: the pieces of frames written to it
    peer,       \* per connection: open, closing (FIN on its way), closed (FIN received)
    collector   \* whether the collector accepts connections
bridgeVars == <<network, post, fwd, dialled, stream, peer, collector>>

At == {"arrived", "dial", "write", "redial", "rewrite", "accepted", "failed", "refused"}
BridgeTypeOK ==
    /\ network \in Networks /\ post \in [Posts -> At] /\ fwd \in 0..dialled /\ dialled \in 0..Dials
    /\ \A c \in 1..Dials : \A i \in DOMAIN stream[c] : stream[c][i] \in Posts \X {"whole", "part"}
    /\ peer \in [1..Dials -> {"open", "closing", "closed"}] /\ collector \in BOOLEAN

BridgeInit ==
    /\ network \in Networks /\ post = [p \in Posts |-> "arrived"] /\ fwd = 0 /\ dialled = 0
    /\ stream = [c \in 1..Dials |-> <<>>] /\ peer = [c \in 1..Dials |-> "open"] /\ collector = TRUE

Goto(p, at) == post' = [post EXCEPT ![p] = at]
\* The POST whose handler holds the forwarder's mutex.
Sending == {p \in Posts : post[p] \in {"dial", "write", "redial", "rewrite"}}

-----------------------------------------------------------------------------
(* The collector and the network.                                          *)

CollectorMoves == collector' = ~collector /\ UNCHANGED <<network, post, fwd, dialled, stream, peer>>
PeerCloses(c) ==
    /\ c \in 1..dialled /\ network = "tcp" /\ peer[c] # "closed"
    /\ peer' = [peer EXCEPT ![c] = IF @ = "open" THEN "closing" ELSE "closed"]
    /\ UNCHANGED <<network, post, fwd, dialled, stream, collector>>

-----------------------------------------------------------------------------
(* The handler.                                                            *)

\* handle: the checks that end in an error before anything is sent.
BridgeRefuse(p) == post[p] = "arrived" /\ Goto(p, "refused") /\ UNCHANGED <<network, fwd, dialled, stream,
                                                                            peer, collector>>

\* send takes the mutex, drops a connection alive() finds closed, and dials if it has none.
Peek(c) == IF peer[c] = "closed" THEN "closed" ELSE "empty"
Alive(c) == network # "tcp" \/ Peek(c) # "closed"
MutexFree == Sending = {}
BeginSend(p) ==
    /\ post[p] = "arrived" /\ MutexFree
    /\ fwd' = IF fwd # 0 /\ Alive(fwd) THEN fwd ELSE 0
    /\ Goto(p, IF fwd' = 0 THEN "dial" ELSE "write")
    /\ UNCHANGED <<network, dialled, stream, peer, collector>>

Dial(p) ==
    /\ post[p] \in {"dial", "redial"}
    /\ \/ /\ (network = "udp" \/ collector) /\ dialled < Dials
          /\ dialled' = dialled + 1 /\ fwd' = dialled'
          /\ Goto(p, IF post[p] = "dial" THEN "write" ELSE "rewrite")
       \/ Goto(p, "failed") /\ UNCHANGED <<fwd, dialled>>
    /\ UNCHANGED <<network, stream, peer, collector>>

\* write puts the frame on the connection, or fails after none or a part of it; what is written to a
\* connection the collector has closed is lost.
OnWire(c, piece) == IF peer[c] = "open" THEN [stream EXCEPT ![c] = Append(@, piece)] ELSE stream
DropConnection == fwd' = 0
Write(p) ==
    /\ post[p] \in {"write", "rewrite"}
    /\ \/ stream' = OnWire(fwd, <<p, "whole">>) /\ Goto(p, "accepted") /\ UNCHANGED fwd
       \/ /\ stream' \in {stream} \cup (IF network = "tcp" THEN {OnWire(fwd, <<p, "part">>)} ELSE {})
          /\ DropConnection /\ Goto(p, IF post[p] = "write" THEN "redial" ELSE "failed")
    /\ UNCHANGED <<network, dialled, peer, collector>>

Handles(p) == BeginSend(p) \/ Dial(p) \/ Write(p)
BridgeNext ==
    \/ CollectorMoves \/ \E c \in 1..Dials : PeerCloses(c)
    \/ \E p \in Posts : BridgeRefuse(p) \/ Handles(p)

-----------------------------------------------------------------------------
\* Nothing follows an incomplete frame on a connection: after a failed write the forwarder reconnects,
\* so the octet counts a stream collector reads stay in step.
FramesStayInStep ==
    \A c \in 1..Dials : \A i \in DOMAIN stream[c] : stream[c][i][2] = "part" => i = Len(stream[c])
=============================================================================
