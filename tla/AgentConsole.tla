---------------------------- MODULE AgentConsole ----------------------------
(***************************************************************************)
(* The game's console: the agent's remote-console clients, one per family  *)
(* of protocols, and the streams a browser follows, the console, the pod   *)
(* logs and the game log. The parts share no state; each has its own       *)
(* initial states and steps.                                               *)
(***************************************************************************)
EXTENDS Naturals, Sequences, SequencesExt, FiniteSets

(***************************************************************************)
(* The agent's RCON clients over one lazily dialed, reused connection:     *)
(* Source, telnet, Rust's WebSocket protocol and Nuclear Option's framed   *)
(* TCP.  One call runs at a time (the client's mutex).  The connection is  *)
(* a first-in first-out stream that the game may break; a late reply stays *)
(* on it for the next call unless the client drops the connection.         *)
(***************************************************************************)
CONSTANTS RconProtocols,   \* the clients modelled: "source", "telnet", "websocket", "nuclear"
          RequestIds,      \* the identifiers a request may take
          Cooldown,        \* ticks of authFailureCooldown
          WireLimit        \* bound: frames unread on the connection

VARIABLES
    protocol,    \* the GameTemplate's RCON protocol
    passFile,    \* the password file: "right", "wrong" or "unreadable"
    gameUp,      \* the game accepts connections
    rconConn,    \* c.conn, with authConfirmed, whether the game broke it, and the old deadline's expiry
    rconAsked,   \* requests the game has read from this connection and may still answer
    wire,        \* frames the game has sent: a request's id, 0 for unsolicited output
    cooling,     \* what is left of the cooldown after lastAuthFailure
    call,        \* the call in progress: its id and the ids of the frames collected
    last,        \* how the last call ended: its result, id and collected frames
    calm         \* the game, its password and the network no longer fail
rconVars == <<protocol, passFile, gameUp, rconConn, rconAsked, wire, cooling, call, last, calm>>
envVars == <<protocol, passFile, gameUp, calm>>

NoConn == [up |-> FALSE, confirmed |-> FALSE, broken |-> FALSE, expired |-> FALSE]
NoCall == [id |-> 0, got |-> {}]
RconFresh == [result |-> "none", id |-> 0, got |-> {}]

RconTypeOK ==
    /\ protocol \in RconProtocols /\ passFile \in {"right", "wrong", "unreadable"}
    /\ gameUp \in BOOLEAN /\ calm \in BOOLEAN
    /\ rconConn \in [up: BOOLEAN, confirmed: BOOLEAN, broken: BOOLEAN, expired: BOOLEAN]
    /\ rconAsked \subseteq RequestIds /\ wire \in Seq(RequestIds \union {0}) /\ Len(wire) <= WireLimit
    /\ cooling \in 0..Cooldown
    /\ call \in [id: RequestIds \union {0}, got: SUBSET (RequestIds \union {0})]
    /\ last \in [result: {"none", "ok", "auth", "error"}, id: RequestIds \union {0},
                 got: SUBSET (RequestIds \union {0})]

RconInit ==
    /\ protocol \in RconProtocols /\ passFile = "right" /\ gameUp = FALSE /\ rconConn = NoConn
    /\ rconAsked = {} /\ wire = <<>> /\ cooling = 0 /\ call = NoCall /\ last = RconFresh /\ calm = FALSE

-----------------------------------------------------------------------------
(* The game and the pod around the client.                                 *)

GameMovesUp ==
    /\ ~calm /\ gameUp' = ~gameUp
    /\ rconConn' = IF gameUp THEN [rconConn EXCEPT !.broken = rconConn.up] ELSE rconConn
    /\ rconAsked' = {} /\ UNCHANGED <<protocol, passFile, calm, wire, cooling, call, last>>
PasswordFileChanges ==
    /\ ~calm /\ passFile' \in {"right", "wrong", "unreadable"} \ {passFile}
    /\ UNCHANGED <<protocol, gameUp, calm, rconConn, rconAsked, wire, cooling, call, last>>
GrowsCalm ==
    /\ ~calm /\ gameUp /\ passFile = "right" /\ calm' = TRUE
    /\ UNCHANGED <<protocol, passFile, gameUp, rconConn, rconAsked, wire, cooling, call, last>>
RconGameAnswers ==
    /\ rconConn.up /\ ~rconConn.broken /\ Len(wire) < WireLimit
    /\ \E id \in rconAsked, more \in BOOLEAN :
         /\ more => protocol = "source" /\ ~calm /\ rconAsked = {id}
         /\ wire' = Append(wire, id) /\ rconAsked' = IF more THEN rconAsked ELSE rconAsked \ {id}
    /\ UNCHANGED <<envVars, rconConn, cooling, call, last>>
GameVolunteers ==
    /\ ~calm /\ protocol \in {"telnet", "websocket"} /\ rconConn.up /\ ~rconConn.broken
    /\ Len(wire) < WireLimit
    /\ wire' = Append(wire, 0) /\ UNCHANGED <<envVars, rconConn, rconAsked, cooling, call, last>>
CooldownTicks ==
    /\ cooling > 0 /\ cooling' = cooling - 1 /\ UNCHANGED <<envVars, rconConn, rconAsked, wire, call, last>>
\* Only the Nuclear Option client leaves the deadline of its last read armed on the idle connection.
OldDeadlinePasses ==
    /\ protocol = "nuclear" /\ rconConn.up /\ ~rconConn.expired /\ call = NoCall
    /\ rconConn' = [rconConn EXCEPT !.expired = TRUE]
    /\ UNCHANGED <<envVars, rconAsked, wire, cooling, call, last>>

-----------------------------------------------------------------------------
(* Exec.                                                                   *)

Returns(result) == call' = NoCall /\ last' = [result |-> result, id |-> call.id, got |-> call.got]
DropLocked == rconConn' = NoConn /\ wire' = <<>> /\ rconAsked' = {}
Rejected == cooling' = Cooldown

\* Exec writes the request under a fresh deadline, on the connection as it is.
WriteFails == rconConn.up /\ (rconConn.broken \/ (protocol = "nuclear" /\ rconConn.expired))
SendRequest(link, sent, unread) ==
    \E id \in (IF protocol = "telnet" THEN {1} ELSE RequestIds \ (sent \union ToSet(unread))) :
        /\ call' = [id |-> id, got |-> {}] /\ last' = RconFresh /\ rconAsked' = sent \union {id}
        /\ rconConn' = [link EXCEPT !.expired = FALSE] /\ wire' = unread /\ UNCHANGED cooling
AnswerCached ==
    /\ last' = [RconFresh EXCEPT !.result = "auth"] /\ UNCHANGED <<rconConn, rconAsked, wire, cooling, call>>
\* A dial that fails, or a password that cannot be read, is an error and no verdict on the password.
DialFails ==
    /\ ~gameUp \/ (passFile = "unreadable" /\ protocol # "nuclear")
    /\ last' = [RconFresh EXCEPT !.result = "error"] /\ UNCHANGED <<rconConn, rconAsked, wire, cooling, call>>
\* Source and telnet see the rejection at login; the telnet client also takes a hangup for one.
LoginRejected ==
    /\ gameUp /\ protocol \in {"source", "telnet"}
    /\ passFile = "wrong" \/ (protocol = "telnet" /\ ~calm)
    /\ last' = [RconFresh EXCEPT !.result = "auth"] /\ Rejected
    /\ UNCHANGED <<rconConn, rconAsked, wire, call>>
DialSucceeds ==
    /\ gameUp /\ (passFile # "unreadable" \/ protocol = "nuclear")
    /\ protocol \in {"source", "telnet"} => passFile = "right"
    /\ SendRequest([NoConn EXCEPT !.up = TRUE, !.broken = (protocol = "websocket" /\ passFile = "wrong")], {},
                   <<>>)
BeginExec ==
    /\ call = NoCall
    /\ IF rconConn.up /\ WriteFails THEN
          /\ DropLocked /\ UNCHANGED call
          /\ \E auth \in BOOLEAN :
               /\ auth => protocol = "websocket" /\ ~rconConn.confirmed
               /\ last' = [RconFresh EXCEPT !.result = IF auth THEN "auth" ELSE "error"]
               /\ IF auth THEN Rejected ELSE UNCHANGED cooling
       ELSE IF rconConn.up THEN SendRequest(rconConn, rconAsked, wire)
       ELSE IF cooling > 0 /\ protocol # "nuclear" THEN AnswerCached
       ELSE DialFails \/ LoginRejected \/ DialSucceeds
    /\ UNCHANGED envVars

\* A frame of another request, or unsolicited output, is skipped where the protocol has identifiers.
RconCounts(frame) == protocol \in {"source", "websocket"} => frame = call.id
ReadFrame ==
    /\ call # NoCall /\ wire # <<>> /\ wire' = Tail(wire)
    /\ LET got == IF RconCounts(Head(wire)) THEN call.got \union {Head(wire)} ELSE call.got
           done == protocol \in {"websocket", "nuclear"} /\ RconCounts(Head(wire)) IN
       IF done THEN call' = NoCall /\ last' = [result |-> "ok", id |-> call.id, got |-> got]
       ELSE call' = [call EXCEPT !.got = got] /\ UNCHANGED last
    /\ rconConn' = [rconConn EXCEPT !.confirmed = (protocol = "websocket")]
    /\ UNCHANGED <<envVars, rconAsked, cooling>>
\* Variant: the connection is kept after every timeout.
KeepAlways == TRUE
\* The deadline: the grace or quiet window after a frame, or the bound of the whole exchange.
KeepOnTimeout == protocol = "telnet" \/ (protocol = "source" /\ call.got # {})
ReadTimesOut ==
    /\ call # NoCall /\ wire = <<>> /\ (calm => KeepOnTimeout /\ call.got # {})
    /\ IF protocol = "telnet" \/ (protocol = "source" /\ call.got # {}) THEN Returns("ok") ELSE Returns("error")
    /\ IF KeepOnTimeout THEN UNCHANGED <<rconConn, wire, rconAsked>> ELSE DropLocked
    /\ UNCHANGED <<envVars, cooling>>
\* classifyExecErrLocked reads authConfirmed before dropLocked resets it.
ConfirmedBeforeDrop == rconConn.confirmed
ConnectionEnds ==
    /\ call # NoCall /\ wire = <<>> /\ rconConn.broken /\ DropLocked
    /\ IF protocol = "websocket" /\ ~ConfirmedBeforeDrop THEN Returns("auth") /\ Rejected
       ELSE Returns(IF protocol = "source" /\ call.got # {} THEN "ok" ELSE "error") /\ UNCHANGED cooling
    /\ UNCHANGED envVars
\* Client.Close, between calls.
CloseClient ==
    /\ ~calm /\ call = NoCall /\ rconConn.up /\ DropLocked /\ UNCHANGED <<envVars, cooling, call, last>>

RconNext ==
    \/ GameMovesUp \/ PasswordFileChanges \/ GrowsCalm \/ RconGameAnswers \/ GameVolunteers \/ CooldownTicks
    \/ OldDeadlinePasses \/ BeginExec \/ ReadFrame \/ ReadTimesOut \/ ConnectionEnds \/ CloseClient

-----------------------------------------------------------------------------
(* Properties.                                                             *)

\* A call returns what the game sent for it and nothing a late reply to an earlier call left on the
\* connection: by identifiers for Source and WebSocket, by dropping the connection after every
\* incomplete exchange for Nuclear Option.  The telnet protocol has neither and promises less.
AnswersOwnCommand == last.result = "ok" /\ protocol # "telnet" => last.got \subseteq {last.id}

\* A connection that has delivered a frame was accepted: when the game restarts in mid-session, its
\* closing is never taken for a rejected password, which would hold every caller off for the cooldown.
RestartIsNoRejection == [][cooling' > cooling => ~rconConn.confirmed]_rconVars

-----------------------------------------------------------------------------
(***************************************************************************)
(* The agent's RCON clients over HTTP: Satisfactory's with a cached bearer *)
(* token and one re-login, Palworld's and the generic REST client with the *)
(* password on every request.  One call at a time; a rejected credential   *)
(* arms a cooldown during which the game must not be asked again.          *)
(***************************************************************************)
CONSTANTS HttpClients,    \* "satisfactory", "palworld", "rest"
          HttpCooldown,   \* ticks of authFailureCooldown
          Boots           \* bound: starts of the game; each forgets the tokens it issued

VARIABLES
    httpClient,       \* the client of the GameTemplate's protocol
    httpCredential,   \* the password file: "right", "wrong" or "unreadable"
    boot,             \* the game's current start
    answers,          \* what the game's API does: "serves" or "errs" (unreachable, 5xx)
    token,            \* Satisfactory's cached token: the start that issued it, 0 for none
    cool,             \* what is left of the cooldown after lastAuthFailure
    httpCall,         \* where Exec is: "idle", "run", "relogin", "rerun"
    httpLast,         \* how the last call ended
    steady            \* game, password and API no longer change
httpVars == <<httpClient, httpCredential, boot, answers, token, cool, httpCall, httpLast, steady>>
httpWorldVars == <<httpClient, httpCredential, boot, answers, steady>>

HttpTypeOK ==
    /\ httpClient \in HttpClients /\ httpCredential \in {"right", "wrong", "unreadable"} /\ boot \in 1..Boots
    /\ answers \in {"serves", "errs"} /\ token \in 0..Boots /\ cool \in 0..HttpCooldown
    /\ httpCall \in {"idle", "login", "run", "relogin", "rerun"}
    /\ httpLast \in {"none", "ok", "auth", "error"}
    /\ steady \in BOOLEAN

HttpInit ==
    /\ httpClient \in HttpClients /\ httpCredential = "right" /\ boot = 1 /\ answers = "serves" /\ token = 0
    /\ cool = 0 /\ httpCall = "idle" /\ httpLast = "none" /\ steady = FALSE

WorldChanges ==
    /\ ~steady /\ UNCHANGED <<httpClient, token, cool, httpCall, httpLast>>
    /\ \/ httpCredential' \in {"right", "wrong", "unreadable"} \ {httpCredential} /\ UNCHANGED <<boot, answers, steady>>
       \/ boot < Boots /\ boot' = boot + 1 /\ UNCHANGED <<httpCredential, answers, steady>>
       \/ answers' \in {"serves", "errs"} \ {answers} /\ UNCHANGED <<httpCredential, boot, steady>>
       \/ /\ httpCredential = "right" /\ answers = "serves" /\ steady' = TRUE
          /\ UNCHANGED <<httpCredential, boot, answers>>
CoolsDown == cool > 0 /\ cool' = cool - 1 /\ UNCHANGED <<httpWorldVars, token, httpCall, httpLast>>

-----------------------------------------------------------------------------
(* Exec.                                                                   *)

HttpEnds(result) == httpCall' = "idle" /\ httpLast' = result
HttpGoes(step) == httpCall' = step /\ UNCHANGED httpLast
RefusedCredential == HttpEnds("auth") /\ cool' = HttpCooldown
\* Satisfactory's cached token skips the login; everything else starts at the cooldown's gate.
BeginCall ==
    /\ httpCall = "idle" /\ httpLast' = "none"
    /\ httpCall' = IF httpClient = "satisfactory" /\ token # 0 THEN "run" ELSE "login"
    /\ UNCHANGED <<httpWorldVars, token, cool>>
\* Variant: the remembered rejection is renewed by every call it answers.
GateRenewed == RefusedCredential
\* The gate: the remembered rejection answers, without a request.
HttpGate == HttpEnds("auth") /\ UNCHANGED cool
\* A password that cannot be read is an error; an unreachable game or a 5xx is no verdict on the password.
LoginLocked ==
    /\ httpClient = "satisfactory" /\ httpCall \in {"login", "relogin"}
    /\ IF cool > 0 THEN HttpGate /\ UNCHANGED token
       ELSE IF httpCredential = "unreadable" \/ answers = "errs" THEN HttpEnds("error") /\ UNCHANGED <<token, cool>>
       ELSE IF httpCredential = "wrong" THEN RefusedCredential /\ UNCHANGED token
       ELSE token' = boot /\ cool' = 0 /\ HttpGoes(IF httpCall = "login" THEN "run" ELSE "rerun")
    /\ UNCHANGED httpWorldVars
\* Palworld and REST: the one request carries the password.
RequestWithPassword ==
    /\ httpClient # "satisfactory" /\ httpCall = "login"
    /\ IF cool > 0 THEN HttpGate
       ELSE IF httpCredential = "unreadable" \/ answers = "errs" THEN HttpEnds("error") /\ UNCHANGED cool
       ELSE IF httpCredential = "wrong" THEN RefusedCredential
       ELSE HttpEnds("ok") /\ cool' = 0
    /\ UNCHANGED <<httpWorldVars, token>>
\* runCommandLocked: a rejected token is dropped and one new login tried, then the command repeated.
RejectedTwice == RefusedCredential /\ token' = 0
RunStep ==
    /\ httpCall \in {"run", "rerun"}
    /\ \/ answers = "errs" /\ HttpEnds("error") /\ UNCHANGED <<token, cool>>
       \/ answers = "serves" /\ token = boot /\ HttpEnds("ok") /\ UNCHANGED <<token, cool>>
       \/ /\ answers = "serves" /\ (token # boot \/ ~steady)
          /\ IF httpCall = "run" THEN token' = 0 /\ HttpGoes("relogin") /\ UNCHANGED cool ELSE RejectedTwice
    /\ UNCHANGED httpWorldVars

HttpNext == WorldChanges \/ CoolsDown \/ BeginCall \/ LoginLocked \/ RequestWithPassword \/ RunStep

-----------------------------------------------------------------------------
(* Properties.                                                             *)

\* During the cooldown after a rejected credential no request reaches the game: no cached token lets a
\* call past the gate.
CooldownIsAirtight == cool > 0 => httpCall \notin {"run", "rerun"}

-----------------------------------------------------------------------------
(***************************************************************************)
(* The agent's BattlEye RCON client: commands over UDP with a one-byte     *)
(* sequence number, one retransmission, replies split into pages that may  *)
(* be lost, duplicated and reordered, and the two goroutines (reader and   *)
(* keepalive) that share the sequence numbers and the waiting call with    *)
(* Exec under a lock of their own.                                         *)
(***************************************************************************)
CONSTANTS SeqCycle,     \* sequence numbers before they repeat (256 in the protocol)
          PageTotals,   \* pages a reply may have; 1 is a reply without fragmentation header
          WireSize      \* bound: datagrams from the game in flight

VARIABLES
    socket,      \* "none", "login" or "up"
    reading,     \* readLoop has not ended
    keepalive,   \* keepaliveLoop runs
    seq,         \* the next sequence number
    beExec,      \* the call that holds the client's mutex: where it is and its sequence number
    waiting,     \* the sequence numbers with a registered waiter
    partial,     \* the pages accumulated per sequence number
    channel,     \* what the waiting call's channel holds
    sentOn,      \* requests the game may still answer: sequence number and attempt
    pages,       \* datagrams in flight towards the agent
    beOutcome,   \* what the last call returned
    refused      \* a login was rejected less than the cooldown ago
beVars == <<socket, reading, keepalive, seq, beExec, waiting, partial, channel, sentOn, pages, beOutcome,
            refused>>

Seqs == 0..(SeqCycle - 1)
Page == [seq: Seqs, total: PageTotals, idx: 0..2]
Nothing == [kind |-> "none", pages |-> {}]
Reply == [kind: {"none", "body", "failed", "refused"}, pages: SUBSET Page]
Reset == [s \in Seqs |-> {}]

BeTypeOK ==
    /\ socket \in {"none", "login", "up"} /\ reading \in BOOLEAN /\ keepalive \in BOOLEAN
    /\ seq \in Seqs /\ beExec \in [at: {"idle", "start", "ready", "sent", "resent"}, seq: Seqs]
    /\ waiting \subseteq Seqs /\ partial \in [Seqs -> SUBSET Page] /\ channel \in Reply
    /\ sentOn \subseteq Seqs \X (1..2) /\ pages \subseteq Page /\ beOutcome \in Reply /\ refused \in BOOLEAN

BeInit ==
    /\ socket = "none" /\ reading = FALSE /\ keepalive = FALSE /\ seq = 0
    /\ beExec = [at |-> "idle", seq |-> 0]
    /\ waiting = {} /\ partial = Reset /\ channel = Nothing /\ sentOn = {} /\ pages = {}
    /\ beOutcome = Nothing
    /\ refused = FALSE

-----------------------------------------------------------------------------
(* The network and the game: any datagram may be lost (never taken) or     *)
(* arrive late and more than once, but not after a whole cycle of numbers. *)

Forgets(s) == sentOn' = {r \in sentOn : r[1] # s} /\ pages' = {p \in pages : p.seq # s}
GameReplies ==
    /\ socket = "up"
    /\ \E r \in sentOn, t \in PageTotals :
         /\ sentOn' = sentOn \ {r} /\ Cardinality(pages) + t <= WireSize
         /\ pages' = pages \union [seq: {r[1]}, total: {t}, idx: 0..(t - 1)]
    /\ UNCHANGED <<socket, reading, keepalive, seq, beExec, waiting, partial, channel, beOutcome, refused>>

-----------------------------------------------------------------------------
(* The reader goroutine.                                                   *)

BeDeliver(reply) == channel' = IF channel.kind = "none" THEN reply ELSE channel
\* deliverFragment: only for a waiter, and starting over when the page count disagrees.
Accumulated(p) == {q \in partial[p.seq] : q.total = p.total /\ q.idx # p.idx} \union {p}
HasWaiter(s) == s \in waiting
Fragment(p) ==
    IF Cardinality(Accumulated(p)) >= p.total /\ \A i \in 0..(p.total - 1) : \E q \in Accumulated(p) : q.idx = i
    THEN partial' = [partial EXCEPT ![p.seq] = {}] /\ BeDeliver([kind |-> "body", pages |-> Accumulated(p)])
    ELSE partial' = [partial EXCEPT ![p.seq] = Accumulated(p)] /\ UNCHANGED channel
\* A datagram stays in flight: it may arrive again, and one that never arrives was lost.
HandleCommandReply ==
    /\ reading /\ socket = "up"
    /\ \E p \in pages :
         IF ~HasWaiter(p.seq) THEN UNCHANGED <<partial, channel>>
         ELSE IF p.total = 1 THEN BeDeliver([kind |-> "body", pages |-> {p}]) /\ UNCHANGED partial
         ELSE Fragment(p)
    /\ UNCHANGED <<socket, keepalive, reading, seq, beExec, waiting, sentOn, pages, beOutcome, refused>>
\* failAll: the read fails, every waiter is told and the reader ends.
FailAll ==
    /\ partial' = Reset /\ waiting' = {}
    /\ IF waiting # {} THEN BeDeliver([kind |-> "failed", pages |-> {}]) ELSE UNCHANGED channel
BeReadFails ==
    /\ socket = "up" /\ reading /\ reading' = FALSE /\ FailAll
    /\ UNCHANGED <<socket, keepalive, seq, beExec, sentOn, pages, beOutcome, refused>>

\* keepaliveLoop takes its numbers from the same counter as Exec; a call is over long before they repeat.
Keepalive ==
    /\ keepalive /\ socket = "up" /\ seq \notin waiting /\ seq' = (seq + 1) % SeqCycle /\ Forgets(seq)
    /\ UNCHANGED <<socket, reading, keepalive, beExec, waiting, partial, channel, beOutcome, refused>>

-----------------------------------------------------------------------------
(* Exec, one at a time.                                                    *)

\* dropLocked joins keepaliveLoop and readLoop before the connection is forgotten.
DropSocket ==
    /\ socket' = "none" /\ reading' = FALSE /\ keepalive' = FALSE /\ waiting' = {} /\ partial' = Reset
    /\ sentOn' = {} /\ pages' = {}
ReturnsWith(reply) ==
    /\ beOutcome' = reply /\ beExec' = [beExec EXCEPT !.at = "idle"] /\ channel' = Nothing
ExecFails == DropSocket /\ ReturnsWith([kind |-> "failed", pages |-> {}]) /\ UNCHANGED seq

\* ensureLocked: a socket whose reader has ended is torn down and dialed again.
EnsureLocked ==
    /\ beExec.at = "idle"
    /\ IF socket = "up" /\ reading
       THEN /\ beExec' = [beExec EXCEPT !.at = "ready"] /\ beOutcome' = Nothing
            /\ UNCHANGED <<socket, reading, keepalive, seq, waiting, partial, sentOn, pages>>
       ELSE IF refused THEN DropSocket /\ beOutcome' = [Nothing EXCEPT !.kind = "refused"] /\ UNCHANGED <<seq, beExec>>
       ELSE /\ beExec' = [beExec EXCEPT !.at = "start"] /\ socket' = "login" /\ reading' = TRUE /\ keepalive' = FALSE
            /\ seq' = 0 /\ waiting' = {} /\ partial' = Reset /\ sentOn' = {} /\ pages' = {}
            /\ beOutcome' = Nothing
    /\ UNCHANGED <<channel, refused>>
CooldownEnds ==
    /\ refused /\ refused' = FALSE
    /\ UNCHANGED <<socket, reading, keepalive, seq, beExec, waiting, partial, channel, sentOn, pages,
                   beOutcome>>
LoginEnds ==
    /\ beExec.at = "start"
    /\ \/ /\ socket' = "up" /\ keepalive' = TRUE /\ beExec' = [beExec EXCEPT !.at = "ready"] /\ refused' = FALSE
          /\ UNCHANGED <<reading, seq, waiting, partial, channel, sentOn, pages, beOutcome>>
       \/ ExecFails /\ UNCHANGED refused
       \/ DropSocket /\ ReturnsWith([Nothing EXCEPT !.kind = "refused"]) /\ refused' = TRUE /\ UNCHANGED seq
\* The waiter is registered before the request is written.
SendCommand ==
    /\ beExec.at = "ready" /\ seq' = (seq + 1) % SeqCycle
    /\ waiting' = waiting \union {seq} /\ beExec' = [at |-> "sent", seq |-> seq]
    /\ sentOn' = {r \in sentOn : r[1] # seq} \union {<<seq, 1>>} /\ pages' = {p \in pages : p.seq # seq}
    /\ UNCHANGED <<socket, reading, keepalive, partial, channel, beOutcome, refused>>
Retransmit ==
    /\ beExec.at = "sent" /\ channel = Nothing /\ beExec' = [beExec EXCEPT !.at = "resent"]
    /\ sentOn' = sentOn \union {<<beExec.seq, 2>>}
    /\ UNCHANGED <<socket, reading, keepalive, seq, waiting, partial, channel, pages, beOutcome, refused>>
Cleanup == waiting' = waiting \ {beExec.seq} /\ partial' = [partial EXCEPT ![beExec.seq] = {}]
WaitBounded == beExec.at = "resent"
WaitEnds ==
    /\ beExec.at \in {"sent", "resent"} /\ (channel.kind # "none" \/ WaitBounded)
    /\ IF channel.kind # "body" THEN ExecFails
       ELSE ReturnsWith(channel) /\ Cleanup /\ UNCHANGED <<socket, reading, keepalive, seq, sentOn, pages>>
    /\ UNCHANGED refused

BeNext ==
    \/ GameReplies \/ HandleCommandReply \/ BeReadFails \/ Keepalive \/ EnsureLocked \/ CooldownEnds
    \/ LoginEnds \/ SendCommand
    \/ Retransmit \/ WaitEnds

-----------------------------------------------------------------------------
(* Properties.                                                             *)

\* A reply is whole and of one shape: every page from 0 to the total, all of them of the same total.
\* A page of the first attempt is never spliced into the differently paged reply to the retransmission.
NoSplicedReply ==
    beOutcome.kind = "body" => \E t \in PageTotals :
        /\ \A p \in beOutcome.pages : p.total = t
        /\ {p.idx : p \in beOutcome.pages} = 0..(t - 1)

-----------------------------------------------------------------------------
(***************************************************************************)
(* The PTY console (api/internal/ws/attach.go): a handler, two pumps and   *)
(* the executor of pods/attach, joined by two pipes, a context and a small *)
(* queue of terminal sizes; and the stdin writer of the quick actions      *)
(* (api/internal/kube/stdin.go), which ends its own attach.                *)
(***************************************************************************)
CONSTANTS SizeQueue,         \* capacity of termSizeQueue
          Resizes,           \* bound: resize envelopes the browser sends
          GameMayStall,      \* may the game stop reading its stdin for good?
          NegotiationHangs   \* may an attach hang before the first byte?

VARIABLES
    attachUse,      \* "console" or "action": what the attach is for
    browser,        \* the WebSocket: "open" or "gone"
    resized,        \* the size the browser asked for last
    sizes,          \* termSizeQueue.ch
    applied,        \* the size of the game's terminal
    pumpIn,         \* pumpBrowser: "read", "write" (in stdin.Write), "done"; an action's bytes: "read" until drained
    pumpOut,        \* pumpStdout: "read", "write" or "done"
    attachExec,     \* StreamWithContext: "negotiates", "streams", "returned"
    attachGame,     \* the game container: "reads", "stalled" (reads no stdin), "exited"
    ctxDone,        \* the context of the session is cancelled
    pipesClosed,    \* the handler has closed its ends of the pipes and the size queue
    attachHandler   \* "streaming", "closing", "returned"; an action's answer: "ok" or "failed"
attachVars ==
    <<attachUse, browser, resized, sizes, applied, pumpIn, pumpOut, attachExec, attachGame, ctxDone,
      pipesClosed, attachHandler>>

AttachTypeOK ==
    /\ attachUse \in {"console", "action"} /\ browser \in {"open", "gone"} /\ resized \in 0..Resizes
    /\ sizes \in Seq(1..Resizes) /\ Len(sizes) <= SizeQueue /\ applied \in 0..Resizes
    /\ pumpIn \in {"read", "write", "done"} /\ pumpOut \in {"read", "write", "done"}
    /\ attachExec \in {"negotiates", "streams", "returned"} /\ attachGame \in {"reads", "stalled", "exited"}
    /\ ctxDone \in BOOLEAN /\ pipesClosed \in BOOLEAN
    /\ attachHandler \in {"streaming", "closing", "returned", "ok", "failed"}

AttachInit ==
    /\ attachUse \in {"console", "action"} /\ browser = "open" /\ resized = 0 /\ sizes = <<>> /\ applied = 0
    /\ pumpIn = "read" /\ pumpOut = (IF attachUse = "console" THEN "read" ELSE "done")
    /\ attachExec = "negotiates" /\ attachGame = "reads"
    /\ ctxDone = FALSE /\ pipesClosed = FALSE /\ attachHandler = "streaming"

-----------------------------------------------------------------------------
(* The browser and the game.                                               *)

BrowserLeaves ==
    /\ attachUse = "console" /\ browser = "open" /\ browser' = "gone"
    /\ UNCHANGED <<attachUse, resized, sizes, applied, pumpIn, pumpOut, attachExec, attachGame, ctxDone,
                   pipesClosed, attachHandler>>
GameChanges ==
    /\ attachGame' \in ({"exited"} \cup (IF GameMayStall THEN {"stalled"} ELSE {})) \ {attachGame}
    /\ attachGame # "exited"
    /\ UNCHANGED <<attachUse, browser, resized, sizes, applied, pumpIn, pumpOut, attachExec, ctxDone,
                   pipesClosed, attachHandler>>

-----------------------------------------------------------------------------
(* The console's pumps.                                                    *)

Pushed(s) == IF Len(sizes) < SizeQueue THEN Append(sizes, s) ELSE sizes
PumpBrowserEnds == pumpIn' = "done" /\ ctxDone' = TRUE
\* stdin.Write returns when the executor has taken the bytes, or fails when the handler has closed the reader.
StdinWrite ==
    \/ attachExec = "streams" /\ attachGame = "reads" /\ pumpIn' = "read" /\ UNCHANGED ctxDone
    \/ pipesClosed /\ PumpBrowserEnds
\* The read loop: the end of the connection, an envelope with input or one with a size.
PumpBrowser ==
    /\ attachUse = "console" /\ pumpIn # "done"
    /\ \/ pumpIn = "read" /\ (browser = "gone" \/ ctxDone) /\ PumpBrowserEnds /\ UNCHANGED <<resized, sizes>>
       \/ /\ pumpIn = "read" /\ browser = "open" /\ ~ctxDone /\ pumpIn' = "write"
          /\ UNCHANGED <<resized, sizes, ctxDone>>
       \/ pumpIn = "write" /\ StdinWrite /\ UNCHANGED <<resized, sizes>>
       \/ /\ pumpIn = "read" /\ browser = "open" /\ ~ctxDone /\ resized < Resizes /\ resized' = resized + 1
          /\ sizes' = Pushed(resized + 1) /\ UNCHANGED <<pumpIn, ctxDone>>
    /\ UNCHANGED <<attachUse, browser, applied, pumpOut, attachExec, attachGame, pipesClosed, attachHandler>>
\* A chunk from the game, or the end of the pipe; then the frame to the browser.
PumpStdout ==
    /\ \/ pumpOut = "read" /\ attachExec = "streams" /\ attachGame # "exited" /\ pumpOut' = "write"
       \/ pumpOut = "read" /\ pipesClosed /\ pumpOut' = "done"
       \/ pumpOut = "write" /\ pumpOut' = IF browser = "open" /\ ~ctxDone THEN "read" ELSE "done"
    /\ UNCHANGED <<attachUse, browser, resized, sizes, applied, pumpIn, attachExec, attachGame, ctxDone,
                   pipesClosed, attachHandler>>

-----------------------------------------------------------------------------
(* The executor and the handler.                                           *)

Negotiated ==
    /\ attachExec = "negotiates" /\ attachGame # "exited" /\ ~ctxDone /\ attachExec' = "streams"
    /\ UNCHANGED <<attachUse, browser, resized, sizes, applied, pumpIn, pumpOut, attachGame, ctxDone,
                   pipesClosed, attachHandler>>
NextSize == sizes # <<>> /\ applied' = Head(sizes) /\ sizes' = Tail(sizes)
TakeSize ==
    /\ attachExec = "streams" /\ attachGame # "exited" /\ NextSize
    /\ UNCHANGED <<attachUse, browser, resized, pumpIn, pumpOut, attachExec, attachGame, ctxDone, pipesClosed,
                   attachHandler>>
\* The stream ends with the container, with the context, or when the attach is refused.
StreamReturns ==
    /\ attachExec # "returned" /\ attachExec' = "returned"
    /\ (attachGame = "exited" \/ ctxDone \/ attachExec = "negotiates")
    /\ \/ attachUse = "console" /\ attachHandler' = "closing"
       \/ attachUse = "action" /\ attachHandler' = IF ctxDone THEN "ok" ELSE "failed"
    /\ UNCHANGED <<attachUse, browser, resized, sizes, applied, pumpIn, pumpOut, attachGame, ctxDone,
                   pipesClosed>>
HandleReturns ==
    /\ attachHandler = "closing" /\ attachHandler' = "returned" /\ pipesClosed' = TRUE /\ ctxDone' = TRUE
    /\ browser' = "gone"
    /\ UNCHANGED <<attachUse, resized, sizes, applied, pumpIn, pumpOut, attachExec, attachGame>>

-----------------------------------------------------------------------------
(* WriteStdinLines.                                                        *)

\* The executor has read the last byte: notifyOnEOF.
ActionDrained ==
    /\ attachUse = "action" /\ pumpIn = "read" /\ attachExec = "streams" /\ pumpIn' = "done"
    /\ UNCHANGED <<attachUse, browser, resized, sizes, applied, pumpOut, attachExec, attachGame, ctxDone,
                   pipesClosed, attachHandler>>
\* Drained and the grace over: the session is cancelled.  The timeout is for a negotiation that hangs.
ActionCancels ==
    /\ attachUse = "action" /\ ~ctxDone /\ attachHandler = "streaming" /\ ctxDone' = TRUE
    /\ (NegotiationHangs \/ pumpIn = "done")
    /\ UNCHANGED <<attachUse, browser, resized, sizes, applied, pumpIn, pumpOut, attachExec, attachGame,
                   pipesClosed, attachHandler>>

AttachSteps == StreamReturns \/ HandleReturns
AttachNext ==
    \/ BrowserLeaves \/ GameChanges \/ PumpBrowser \/ PumpStdout
    \/ Negotiated \/ TakeSize \/ StreamReturns \/ HandleReturns \/ ActionDrained \/ ActionCancels

-----------------------------------------------------------------------------
(* Properties.                                                             *)

\* A quick action that is reported as sent has handed all its bytes to the game's stdin.
SentMeansDrained == attachHandler = "ok" => pumpIn = "done"

-----------------------------------------------------------------------------
(***************************************************************************)
(* The pod log stream (api/internal/ws/podlogs.go): one WebSocket stitches *)
(* the logs of a server's setup containers, in pod order, and of the game. *)
(* A failed setup container is restarted by the kubelet, and the pod may   *)
(* be replaced under the same name.                                        *)
(***************************************************************************)
CONSTANTS Setups,           \* number of init containers
          PodUids,          \* bound: pods of that name, one after the other
          ReplacedBetween   \* may the pod be replaced between readPod and GetLogs?

VARIABLES
    podNow,       \* uid of the pod that exists
    containers,   \* step -> "waiting", "running", "failed", "succeeded"; the last step is the game
    doomed,       \* the setup container that will never succeed, 0 for none
    viewer,       \* "open" or "gone"
    fromEnd,      \* ?from=end
    timeline      \* the handler: where it is, its podUID, its step and the uid of the pod it streams from
logVars == <<podNow, containers, doomed, viewer, fromEnd, timeline>>

LogsSteps == 1..(Setups + 1)
GameStep == Setups + 1
LogsTypeOK ==
    /\ podNow \in 1..PodUids /\ containers \in [LogsSteps -> {"waiting", "running", "failed", "succeeded"}]
    /\ doomed \in 0..Setups /\ viewer \in {"open", "gone"} /\ fromEnd \in BOOLEAN
    /\ timeline \in [at : {"bind", "wait", "read", "open", "stream", "check", "returned"},
                     pod : 0..PodUids, step : LogsSteps, source : 0..PodUids]

FreshPod == [s \in LogsSteps |-> "waiting"]
LogsInit ==
    /\ podNow = 1 /\ containers = FreshPod /\ doomed \in 0..Setups /\ viewer = "open" /\ fromEnd \in BOOLEAN
    /\ timeline = [at |-> "bind", pod |-> 0, step |-> 1, source |-> 0]

-----------------------------------------------------------------------------
(* Kubernetes and the browser.                                             *)

\* A container starts once the setup before it has succeeded; a failed one is restarted, after a wait or at
\* once.
ContainerMoves(s) ==
    /\ \A t \in 1..(s - 1) : containers[t] = "succeeded"
    /\ \/ containers[s] = "waiting" /\ containers' = [containers EXCEPT ![s] = "running"]
       \/ /\ containers[s] = "running" /\ s # GameStep
          /\ containers' = [containers EXCEPT ![s] = IF s = doomed THEN "failed" ELSE "succeeded"]
       \/ containers[s] = "failed" /\ containers' = [containers EXCEPT ![s] = "waiting"]
    /\ UNCHANGED <<podNow, doomed, viewer, fromEnd, timeline>>
LogsPodReplaced ==
    /\ podNow < PodUids /\ (timeline.at = "open" => ReplacedBetween)
    /\ podNow' = podNow + 1 /\ containers' = FreshPod
    /\ UNCHANGED <<doomed, viewer, fromEnd, timeline>>
ViewerLeaves == viewer = "open" /\ viewer' = "gone" /\ UNCHANGED <<podNow, containers, doomed, fromEnd,
                                                                   timeline>>

-----------------------------------------------------------------------------
(* The handler.                                                            *)

LogsHandler(at, step, source) == timeline' = [timeline EXCEPT !.at = at, !.step = step, !.source = source]
Returned == LogsHandler("returned", timeline.step, 0)
Unseen == UNCHANGED <<podNow, containers, doomed, viewer, fromEnd>>
\* The pod is there and still the one the timeline began with.
ReadPod == podNow = timeline.pod
\* containerLogState: logs exist once the container has run.
ContainerStarted(s) == containers[s] # "waiting"

\* serverPod pins the uid; without a pod the connection is closed for a retry.
BindPod ==
    /\ timeline.at = "bind" /\ Unseen
    /\ \/ Returned
       \/ timeline' = [timeline EXCEPT !.at = IF fromEnd THEN "read" ELSE "wait", !.pod = podNow,
                       !.step = IF fromEnd THEN GameStep ELSE 1]
WaitForStart ==
    /\ timeline.at = "wait" /\ Unseen
    /\ \/ (viewer = "gone" \/ ~ReadPod) /\ Returned
       \/ /\ viewer = "open" /\ ReadPod /\ ContainerStarted(timeline.step)
          /\ LogsHandler("read", timeline.step, 0)
\* streamContainer checks the pod once more, then opens the log by name.
ReadBeforeStream ==
    /\ timeline.at = "read" /\ Unseen
    /\ IF ReadPod THEN LogsHandler("open", timeline.step, 0) ELSE LogsHandler("check", timeline.step, 0)
OpenStream ==
    /\ timeline.at = "open" /\ Unseen
    /\ \/ LogsHandler("check", timeline.step, 0)
       \/ ContainerStarted(timeline.step) /\ LogsHandler("stream", timeline.step, podNow)
\* A line is written, or the log ends: the container ended, the pod is gone, the browser left or the stream
\* broke.
StreamContainer ==
    /\ timeline.at = "stream" /\ Unseen
    /\ \/ viewer = "gone" \/ podNow # timeline.source \/ containers[timeline.step] # "running"
    /\ LogsHandler("check", timeline.step, timeline.source)
NextContainer ==
    /\ timeline.at = "check" /\ Unseen
    /\ IF viewer = "gone" \/ timeline.step = GameStep \/ (ReadPod /\ containers[timeline.step] = "failed")
       THEN Returned ELSE LogsHandler("wait", timeline.step + 1, 0)

ContainersMove == \E s \in LogsSteps : ContainerMoves(s)
HandlerStep == BindPod \/ WaitForStart \/ ReadBeforeStream \/ OpenStream \/ StreamContainer \/ NextContainer
LogsNext == ContainersMove \/ LogsPodReplaced \/ ViewerLeaves \/ HandlerStep

-----------------------------------------------------------------------------
(* Properties.                                                             *)

\* One connection shows the logs of one pod, the one whose owners were verified, even when it is replaced.
OwnPodOnly == timeline.at = "stream" => timeline.source = timeline.pod

-----------------------------------------------------------------------------
(***************************************************************************)
(* Following the game's log file over a WebSocket (agent/internal/logs).   *)
(* The game appends to the file and rotates it by renaming; the agent      *)
(* replays the end of the file, follows what is appended, and reopens the  *)
(* path after a rotation.  Contents are counted in halves of a line, so    *)
(* that a line may be written in two pieces.                               *)
(***************************************************************************)
CONSTANTS LogFiles,   \* bound: files that are the log one after the other
          Halves,     \* bound: halves of a line in one file
          LateLines   \* may the game write to a file the agent has read to its end and then rotate at once?

VARIABLES
    size,          \* halves of a line in each file
    tailLatest,    \* the file the game writes to
    atPath,        \* is that file at the log's path already, or is the path empty?
    tailStart,     \* how the viewer begins: "end", "start" or "tail"
    tailer,        \* where streamFile is
    fd, pos,       \* the file it has open, or had open last, and the halves of it read
    followed,      \* has it followed a file to a rotation?
    missed,        \* some of a file was passed over after the first open
    split,         \* part of a line was sent as a frame
    rotationsEnd   \* the game writes and rotates no more
tailVars == <<size, tailLatest, atPath, tailStart, tailer, fd, pos, followed, missed, split, rotationsEnd>>
logVarsOfGame == <<size, tailLatest, atPath, rotationsEnd>>

TailTypeOK ==
    /\ size \in [1..LogFiles -> 0..Halves] /\ tailLatest \in 1..LogFiles /\ atPath \in BOOLEAN
    /\ tailStart \in {"end", "start", "tail"}
    /\ tailer \in {"open", "position", "read", "check", "sleep", "ended"}
    /\ fd \in 0..LogFiles /\ pos \in 0..Halves /\ (fd # 0 => pos <= size[fd])
    /\ followed \in BOOLEAN /\ missed \in BOOLEAN /\ split \in BOOLEAN /\ rotationsEnd \in BOOLEAN

TailInit ==
    /\ size \in {[k \in 1..LogFiles |-> IF k = 1 THEN n ELSE 0] : n \in 0..2} /\ tailLatest = 1
    /\ atPath \in BOOLEAN
    /\ tailStart \in {"end", "start", "tail"} /\ tailer = "open" /\ fd = 0 /\ pos = 0
    /\ followed = FALSE /\ missed = FALSE /\ split = FALSE /\ rotationsEnd = FALSE

-----------------------------------------------------------------------------
(* The game.                                                               *)

GameWrites ==
    /\ ~rotationsEnd /\ size[tailLatest] < Halves /\ size' = [size EXCEPT ![tailLatest] = @ + 1]
    /\ UNCHANGED <<tailLatest, atPath, tailStart, tailer, fd, pos, followed, missed, split, rotationsEnd>>
\* The file is renamed away at a line's end; the next one comes to the path a moment later.
GameRotates ==
    /\ ~rotationsEnd /\ atPath /\ tailLatest < LogFiles /\ size[tailLatest] % 2 = 0
    /\ (~LateLines /\ fd # 0 => fd = tailLatest /\ pos = size[tailLatest] /\ tailer \notin {"open", "position"})
    /\ tailLatest' = tailLatest + 1 /\ atPath' = FALSE
    /\ UNCHANGED <<size, tailStart, tailer, fd, pos, followed, missed, split, rotationsEnd>>
NewFileAtPath ==
    /\ ~atPath /\ atPath' = TRUE
    /\ UNCHANGED <<size, tailLatest, tailStart, tailer, fd, pos, followed, missed, split, rotationsEnd>>
GameSettles ==
    /\ ~rotationsEnd /\ rotationsEnd' = TRUE
    /\ UNCHANGED <<size, tailLatest, atPath, tailStart, tailer, fd, pos, followed, missed, split>>

-----------------------------------------------------------------------------
(* The agent.                                                              *)

\* No file at the path: try again in a second.
TailOpenFile ==
    /\ tailer = "open" /\ atPath /\ fd' = tailLatest /\ pos' = 0 /\ tailer' = "position"
    /\ missed' = (missed \/ \E k \in 1..LogFiles : followed /\ fd < k /\ k < tailLatest /\ size[k] > 0)
    /\ UNCHANGED <<logVarsOfGame, tailStart, followed, split>>
\* replayTail reads the file to its end and sends the last lines of it, an unfinished one included.
Position ==
    /\ tailer = "position" /\ tailer' = "read"
    /\ pos' = IF tailStart \in {"end", "tail"} THEN size[fd] ELSE 0
    /\ missed' = (missed \/ (followed /\ pos' > 0))
    /\ split' = (split \/ (tailStart = "tail" /\ size[fd] % 2 = 1))
    /\ UNCHANGED <<logVarsOfGame, tailStart, fd, followed>>
\* ReadString: to the line's end, or to the end of the file.
ReadLine ==
    /\ tailer = "read" /\ UNCHANGED <<logVarsOfGame, tailStart, fd, followed, missed>>
    /\ LET end == pos + 2 - (pos % 2) IN
       IF end <= size[fd] THEN pos' = end /\ UNCHANGED <<tailer, split>>
       ELSE pos' = size[fd] /\ tailer' = "check" /\ split' = (split \/ size[fd] > pos)
Rotated == ~atPath \/ fd # tailLatest
\* Variant: a new file is opened the way the first one was.
ReopenAsAsked == UNCHANGED tailStart
\* After a rotation neither the end nor a replay is asked for: the new file is read from its start.
Reopen == tailStart' = "start"
CheckRotation ==
    /\ tailer = "check"
    /\ IF Rotated THEN tailer' = "open" /\ followed' = TRUE /\ missed' = (missed \/ pos < size[fd]) /\ Reopen
       ELSE tailer' = "sleep" /\ UNCHANGED <<followed, missed, tailStart>>
    /\ UNCHANGED <<logVarsOfGame, fd, pos, split>>
Wakes == tailer = "sleep" /\ tailer' = "read" /\ UNCHANGED <<logVarsOfGame, tailStart, fd, pos, followed,
                                                             missed, split>>
\* The viewer's socket closes: the next write, wait or turn of the loop ends.
ViewerGone ==
    /\ tailer # "ended" /\ ~rotationsEnd /\ tailer' = "ended" /\ fd' = 0 /\ pos' = 0
    /\ UNCHANGED <<logVarsOfGame, tailStart, followed, missed, split>>

TailerStep == TailOpenFile \/ Position \/ ReadLine \/ CheckRotation \/ Wakes
TailNext == GameWrites \/ GameRotates \/ NewFileAtPath \/ GameSettles \/ TailerStep \/ ViewerGone

-----------------------------------------------------------------------------
(* Properties.                                                             *)

\* A viewer that has begun to follow loses nothing to a rotation the agent keeps up with.
RotationLosesNothing == ~missed
=============================================================================
