----------------------------- MODULE Connection -----------------------------
(***************************************************************************)
(* The life of a WebSocket connection: the permit taken in ws_handler      *)
(* (src/src/websocket/axum_integration.rs), the loop of handle_socket with *)
(* its timeouts (src/src/websocket/connection.rs), the hooks of the        *)
(* middlewares (src/src/middleware_chain.rs), and the outbound task that   *)
(* NostrConnection::on_connect spawns (src/src/nostr_handler.rs), which    *)
(* takes messages from the bounded channel, leads each through the         *)
(* middlewares outward from the one that sent it, and writes what is left  *)
(* to the socket.                                                          *)
(*                                                                         *)
(* A client may read slowly or not at all, and go at any time: no step     *)
(* that needs the client is fair.  What a message does on the way in is    *)
(* the subject of Session; here it makes some middleware send an answer.   *)
(***************************************************************************)
EXTENDS Integers, Sequences, SequencesExt, FiniteSets

CONSTANTS
    Conns,          \* connections, each made once
    MaxConnections, \* ConnectionConfig::max_connections
    Middlewares,    \* the chain from the inside: position p is Middlewares[p + 1]
    Faulty,         \* positions of middlewares whose hooks may fail
    Repliers,       \* positions of middlewares that answer messages
    Capacity,       \* channel_size
    BatchSize,      \* buffer_size of the outbound task (10)
    MaxDuration, IdleTimeout, \* ConnectionConfig, in ticks
    Payloads,       \* messages sent: [type, id, visible, expired]
    Rewrite,        \* what a custom middleware puts in the place of each message
    MaxSends        \* bound: messages sent on each connection

Types  == {m.type : m \in Payloads} \cup {"gone", "AUTH", "NOTICE"}
Ids    == {m.id : m \in Payloads} \cup {"none", "challenge", "bad"}
Payload == [type : Types, id : Ids, visible : BOOLEAN, expired : BOOLEAN]

ASSUME ConnectionAssumption ==
    /\ MaxConnections \in Nat \ {0} /\ Capacity \in Nat \ {0}
    /\ BatchSize \in Nat \ {0} /\ MaxSends \in [Conns -> Nat]
    /\ MaxDuration \in Nat \ {0} /\ IdleTimeout \in Nat \ {0}
    /\ Middlewares \in Seq(STRING) /\ Middlewares # <<>> /\ Middlewares[1] = "relay"
    /\ Faulty \cup Repliers \subseteq 0..(Len(Middlewares) - 1)
    /\ Payloads \subseteq Payload /\ Rewrite \in [Payload -> Payload]
    /\ IsFiniteSet(Conns)

VARIABLES
    conn,       \* [Conns -> [pc, hook, age, idle, cancelled]] handle_socket
    channel,    \* [Conns -> sequence of messages] outbound_tx
    task,       \* [Conns -> [pc, todo]] the outbound task
    permits,    \* permits left in the semaphore
    others,     \* permits held by connections that are not in Conns
    gauge,      \* active connections of MetricsHandler
    hooked,     \* history: middlewares connected and not disconnected
    failed,     \* history: connections one of whose hooks failed
    sent,       \* history: messages sent so far on a connection
    written     \* history: [Conns -> the message last written to the socket]

connVars == <<conn, channel, task, permits, others, gauge, hooked, failed, sent, written>>

Positions == 0..(Len(Middlewares) - 1)
Outermost == Len(Middlewares) - 1
Gone      == [type |-> "gone", id |-> "none", visible |-> FALSE, expired |-> FALSE]
NoJson    == Gone
Nothing   == [nr |-> 0, sender |-> 0, from |-> 0, msg |-> Gone, json |-> NoJson,
              orig |-> Gone, by |-> <<>>]

(* Where handle_socket stands: inside, it holds its permit.  Blocked is    *)
(* the send of on_message that waits for room.                             *)
Inside  == {"connecting", "waiting", "sending", "leaving", "joining"}
Blocked(c) == conn[c].pc = "sending" /\ Len(channel[c]) = Capacity

(* A message in the channel or behind it: its number, the position of its  *)
(* sender, the one its way out begins at, and the message whose JSON it    *)
(* carries; history: the message that was sent, the middlewares it met.    *)
Message == [nr : Nat, sender : Positions, from : Positions, msg : Payload,
            json : Payload, orig : Payload, by : Seq(Positions)]

(* Types; the outbound channel and the batches of the outbound task stay   *)
(* within their bounds, and so do permits and timers.                      *)
ConnTypeOK ==
    /\ conn \in [Conns -> [pc : Inside \cup {"new", "closed"}, hook : Positions,
                          age : 0..MaxDuration, idle : 0..IdleTimeout, cancelled : BOOLEAN]]
    /\ channel \in [Conns -> Seq(Message)]
    /\ task \in [Conns -> [pc : {"none", "select", "writing", "closing", "ended"},
                          todo : Seq(Message)]]
    /\ \A c \in Conns : Len(channel[c]) <= Capacity /\ Len(task[c].todo) <= BatchSize
    /\ permits \in 0..MaxConnections /\ others \in Nat /\ gauge \in Int
    /\ hooked \in [Conns -> SUBSET Positions] /\ failed \subseteq Conns
    /\ sent \in [Conns -> Nat] /\ written \in [Conns -> Message]

Init ==
    /\ conn = [c \in Conns |-> [pc |-> "new", hook |-> Outermost, age |-> 0, idle |-> 0,
                                cancelled |-> FALSE]]
    /\ channel = [c \in Conns |-> <<>>]
    /\ task = [c \in Conns |-> [pc |-> "none", todo |-> <<>>]]
    /\ permits = MaxConnections /\ others = 0 /\ gauge = 0
    /\ hooked = [c \in Conns |-> {}] /\ failed = {}
    /\ sent = [c \in Conns |-> 0] /\ written = [c \in Conns |-> Nothing]

-----------------------------------------------------------------------------
(* MessageSender.  A message is tagged with the position from which its    *)
(* way out begins; by is the history of the middlewares that had it.       *)
Tagged(c, m, from, json) ==
    [nr |-> sent[c] + 1, sender |-> from, from |-> from, msg |-> m, json |-> json,
     orig |-> m, by |-> <<>>]

send(c, p, m)           == Tagged(c, m, p, NoJson)
send_bypass(c, p, m)    == [Tagged(c, m, IF p > 0 THEN p - 1 ELSE 0, NoJson) EXCEPT !.sender = p]
send_with_json(c, p, m) == Tagged(c, m, p, m)

(* Mutant: the channel takes one more. *)
try_send_one_more(c, t) ==
    /\ channel' = [channel EXCEPT ![c] = IF Len(@) <= Capacity THEN Append(@, t) ELSE @]
    /\ sent' = [sent EXCEPT ![c] = @ + 1]

(* try_send: a message for which there is no room is lost. *)
try_send(c, t) ==
    /\ channel' = [channel EXCEPT ![c] = IF Len(@) < Capacity THEN Append(@, t) ELSE @]
    /\ sent' = [sent EXCEPT ![c] = @ + 1]

(* RelayMiddleware hides what the client may not see and                   *)
(* Nip40ExpirationMiddleware what has expired: None for the others.        *)
relay_outbound(m) == IF m.type = "EVENT" /\ ~m.visible THEN Gone ELSE m
nip40_outbound(m) == IF m.type = "EVENT" /\ m.expired THEN Gone ELSE m

(* A custom middleware may put anything in the place of the message it is  *)
(* given: another event, a message of another kind, or none.               *)
rewrite_outbound(m) == Rewrite[m]

process_outbound(name, m) ==
    CASE name = "relay"   -> relay_outbound(m)
      [] name = "nip40"   -> nip40_outbound(m)
      [] name = "rewrite" -> rewrite_outbound(m)
      [] OTHER -> m

(* Mutant: a middleware does not get its own messages. *)
RunsOnStrict(t, p) == t.from < p

(* ConnectedChain: only middlewares from the tagged position outward. *)
RunsOn(t, p) == t.from <= p

process_outbound_chain(t) ==
    LET after[i \in 0..Len(Middlewares)] ==
          IF i = 0 THEN t
          ELSE IF RunsOn(t, i - 1)
          THEN [after[i - 1] EXCEPT !.msg = process_outbound(Middlewares[i], @),
                                    !.by = Append(@, i - 1)]
          ELSE after[i - 1]
    IN  after[Len(Middlewares)]

(* The JSON written: the pre-serialized one, unless an event was sent and  *)
(* what is left is an event of another id.                                 *)
JsonOf(before, after) ==
    IF before.json = NoJson \/ (before.msg.type = "EVENT" /\ after.msg.type = "EVENT"
                                /\ before.msg.id # after.msg.id)
    THEN after.msg ELSE before.json

Outgoing(t) == LET u == process_outbound_chain(t) IN [u EXCEPT !.json = JsonOf(t, u)]

-----------------------------------------------------------------------------
(* on_connect starts the outbound task before the hooks. *)
spawn_outbound(c) == task' = [task EXCEPT ![c].pc = "select"]

(* ws_handler: a permit or nothing; the factory makes a handler. *)
Upgrade(c) ==
    /\ conn[c].pc = "new"
    /\ IF permits = 0
       THEN conn' = [conn EXCEPT ![c].pc = "closed"] /\ UNCHANGED <<permits, task>>
       ELSE /\ conn' = [conn EXCEPT ![c].pc = "connecting"]
            /\ permits' = permits - 1
            /\ spawn_outbound(c)
    /\ UNCHANGED <<others, channel, gauge, hooked, failed, sent, written>>

(* The rest of the relay's connections come and go. *)
OthersTake ==
    /\ permits > 0 /\ permits' = permits - 1 /\ others' = others + 1
    /\ UNCHANGED <<conn, channel, task, gauge, hooked, failed, sent, written>>

OthersReturn ==
    /\ others > 0 /\ permits' = permits + 1 /\ others' = others - 1
    /\ UNCHANGED <<conn, channel, task, gauge, hooked, failed, sent, written>>

(* Hooks of MetricsMiddleware. *)
increment_active_connections(p) ==
    gauge' = IF Middlewares[p + 1] = "metrics" THEN gauge + 1 ELSE gauge
decrement_active_connections(p) ==
    gauge' = IF Middlewares[p + 1] = "metrics" THEN gauge - 1 ELSE gauge

(* The hook of Nip42Middleware: the challenge must find room. *)
send_challenge(c, p) ==
    /\ Len(channel[c]) < Capacity
    /\ try_send(c, send(c, p, [Gone EXCEPT !.type = "AUTH", !.id = "challenge"]))

(* on_connect_chain, outermost first. *)
ConnectHook(c) ==
    LET p == conn[c].hook IN
    /\ conn[c].pc = "connecting"
    /\ hooked' = [hooked EXCEPT ![c] = @ \cup {p}] /\ increment_active_connections(p)
    /\ conn' = [conn EXCEPT ![c].pc = IF p = 0 THEN "waiting" ELSE @,
                            ![c].hook = IF p = 0 THEN 0 ELSE p - 1]
    /\ IF Middlewares[p + 1] = "auth" THEN send_challenge(c, p) ELSE UNCHANGED <<channel, sent>>
    /\ UNCHANGED <<others, task, permits, failed, written>>

(* Mutant: a failed hook returns without the permit. *)
ConnectFailsKeeping(c) ==
    /\ conn[c].pc = "connecting" /\ conn[c].hook \in Faulty
    /\ conn' = [conn EXCEPT ![c].pc = "closed"]
    /\ failed' = failed \cup {c}
    /\ UNCHANGED <<others, channel, task, permits, gauge, hooked, sent, written>>

(* A hook fails: handle_socket returns, and that is all.  No hook is       *)
(* undone and the outbound task, which holds a sender of its own channel,  *)
(* is never told to stop.                                                  *)
ConnectFails(c) ==
    /\ conn[c].pc = "connecting" /\ conn[c].hook \in Faulty
    /\ conn' = [conn EXCEPT ![c].pc = "closed"]
    /\ permits' = permits + 1
    /\ failed' = failed \cup {c}
    /\ UNCHANGED <<others, channel, task, gauge, hooked, sent, written>>

Expired(c) == conn[c].age >= MaxDuration \/ conn[c].idle >= IdleTimeout

(* on_message: some middleware answers, by send or send_bypass. *)
OnText(c) ==
    /\ conn[c].pc = "waiting" /\ sent[c] < MaxSends[c]
    /\ conn' = [conn EXCEPT ![c].idle = 0]
    /\ \E p \in Repliers, m \in Payloads :
          try_send(c, send(c, p, m)) \/ try_send(c, send_bypass(c, p, m))
    /\ UNCHANGED <<others, task, permits, gauge, hooked, failed, written>>

(* on_message, for what does not parse: a blocking send of the NOTICE. *)
OnBadText(c) ==
    /\ conn[c].pc = "waiting" /\ sent[c] < MaxSends[c]
    /\ conn' = [conn EXCEPT ![c].idle = 0, ![c].pc = "sending"]
    /\ UNCHANGED <<others, channel, task, permits, gauge, hooked, failed, sent, written>>

SendNotice(c) ==
    /\ conn[c].pc = "sending" /\ Len(channel[c]) < Capacity
    /\ conn' = [conn EXCEPT ![c].pc = "waiting"]
    /\ try_send(c, Tagged(c, [Gone EXCEPT !.type = "NOTICE", !.id = "bad"], 0, NoJson))
    /\ UNCHANGED <<others, task, permits, gauge, hooked, failed, written>>

(* Binary messages, ping and pong only reset the idle timer. *)
OnOther(c) ==
    /\ conn[c].pc = "waiting" /\ conn[c].idle > 0
    /\ conn' = [conn EXCEPT ![c].idle = 0]
    /\ UNCHANGED <<others, channel, task, permits, gauge, hooked, failed, sent, written>>

Leave(c) == conn' = [conn EXCEPT ![c].pc = "leaving", ![c].hook = 0]

(* A close frame, an error or the end of the stream. *)
OnClose(c) ==
    /\ conn[c].pc = "waiting" /\ Leave(c)
    /\ UNCHANGED <<others, channel, task, permits, gauge, hooked, failed, sent, written>>

(* Mutant: only the idle timeout is looked at. *)
TimeoutIdleOnly(c) ==
    /\ conn[c].pc = "waiting" /\ conn[c].idle >= IdleTimeout /\ Leave(c)
    /\ UNCHANGED <<others, channel, task, permits, gauge, hooked, failed, sent, written>>

(* At the top of the loop, or while waiting for a message. *)
Timeout(c) ==
    /\ conn[c].pc = "waiting" /\ Expired(c) /\ Leave(c)
    /\ UNCHANGED <<others, channel, task, permits, gauge, hooked, failed, sent, written>>

(* Mutant: the outermost middleware is left out. *)
AfterHookShort(p) == IF p >= Outermost - 1 THEN "joining" ELSE "leaving"

AfterHook(p) == IF p = Outermost THEN "joining" ELSE "leaving"

(* on_disconnect_chain, innermost first; then the outbound task is         *)
(* cancelled.                                                              *)
DisconnectHook(c) ==
    LET p == conn[c].hook IN
    /\ conn[c].pc = "leaving"
    /\ hooked' = [hooked EXCEPT ![c] = @ \ {p}] /\ decrement_active_connections(p)
    /\ conn' = [conn EXCEPT ![c].pc = AfterHook(p),
                            ![c].hook = IF p = Outermost THEN p ELSE p + 1,
                            ![c].cancelled = AfterHook(p) = "joining"]
    /\ UNCHANGED <<others, channel, task, permits, failed, sent, written>>

(* A hook that fails keeps the ones outside of it from running. *)
DisconnectFails(c) ==
    /\ conn[c].pc = "leaving" /\ conn[c].hook \in Faulty
    /\ conn' = [conn EXCEPT ![c].pc = "joining", ![c].cancelled = TRUE]
    /\ failed' = failed \cup {c}
    /\ UNCHANGED <<others, channel, task, permits, gauge, hooked, sent, written>>

(* The outbound task has stopped, or 5 seconds are over. *)
Join(c) ==
    /\ conn[c].pc = "joining"
    /\ conn' = [conn EXCEPT ![c].pc = "closed"]
    /\ permits' = permits + 1
    /\ UNCHANGED <<others, channel, task, gauge, hooked, failed, sent, written>>

(* Time passes for handle_socket. *)
Tick(c) ==
    /\ conn[c].pc \in {"waiting", "sending"} /\ ~Expired(c)
    /\ conn' = [conn EXCEPT ![c].age = @ + 1, ![c].idle = @ + 1]
    /\ UNCHANGED <<others, channel, task, permits, gauge, hooked, failed, sent, written>>

(* Another connection's event, through the sender registered for this one. *)
Distribute(c) ==
    /\ 0 \in hooked[c] /\ conn[c].pc \in {"waiting", "sending", "leaving"}
    /\ sent[c] < MaxSends[c]
    /\ \E m \in {q \in Payloads : q.type = "EVENT"} : try_send(c, send_with_json(c, 0, m))
    /\ UNCHANGED <<others, conn, task, permits, gauge, hooked, failed, written>>

-----------------------------------------------------------------------------
(* The outbound task *)

(* Mutant: the batch is taken from the other end. *)
BatchOfReversed(s) == Reverse(SubSeq(s, 1, IF Len(s) < BatchSize THEN Len(s) ELSE BatchSize))

BatchOf(s) == SubSeq(s, 1, IF Len(s) < BatchSize THEN Len(s) ELSE BatchSize)

(* The processed messages that are not gone. *)
Survivors(s) ==
    LET kept[i \in 0..Len(s)] ==
          IF i = 0 THEN <<>>
          ELSE IF s[i].msg = Gone THEN kept[i - 1] ELSE Append(kept[i - 1], s[i])
    IN  kept[Len(s)]

(* What is ready is taken, processed and, unless it is gone, written. *)
TakeBatch(c) ==
    LET batch == BatchOf(channel[c])
        outgoing == [i \in DOMAIN batch |-> Outgoing(batch[i])]
    IN
    /\ task[c].pc = "select" /\ channel[c] # <<>>
    /\ channel' = [channel EXCEPT ![c] = SubSeq(@, Len(batch) + 1, Len(@))]
    /\ task' = [task EXCEPT ![c] =
          [pc |-> "writing", todo |-> Survivors(outgoing)]]
    /\ UNCHANGED <<others, conn, permits, gauge, hooked, failed, sent, written>>

BatchWritten(c) ==
    /\ task[c].pc = "writing" /\ task[c].todo = <<>>
    /\ task' = [task EXCEPT ![c].pc = "select"]
    /\ UNCHANGED <<others, conn, channel, permits, gauge, hooked, failed, sent, written>>

(* The client takes a message off the socket. *)
Write(c) ==
    /\ task[c].pc = "writing" /\ task[c].todo # <<>>
    /\ written' = [written EXCEPT ![c] = Head(task[c].todo)]
    /\ task' = [task EXCEPT ![c].todo = Tail(@)]
    /\ UNCHANGED <<others, conn, channel, permits, gauge, hooked, failed, sent>>

(* The client is gone: the task closes the sink and returns. *)
WriteFails(c) ==
    /\ task[c].pc = "writing" /\ task[c].todo # <<>>
    /\ task' = [task EXCEPT ![c].pc = "closing", ![c].todo = <<>>]
    /\ UNCHANGED <<others, conn, channel, permits, gauge, hooked, failed, sent, written>>

(* Mutant: the token counts only while handle_socket waits for the task. *)
CancelledWhileJoining(c) ==
    /\ task[c].pc = "select" /\ conn[c].cancelled /\ conn[c].pc = "joining"
    /\ task' = [task EXCEPT ![c].pc = "closing"]
    /\ UNCHANGED <<others, conn, channel, permits, gauge, hooked, failed, sent, written>>

Cancelled(c) ==
    /\ task[c].pc = "select" /\ conn[c].cancelled
    /\ task' = [task EXCEPT ![c].pc = "closing"]
    /\ UNCHANGED <<others, conn, channel, permits, gauge, hooked, failed, sent, written>>

(* sink.close returns, well or not. *)
CloseSink(c) ==
    /\ task[c].pc = "closing"
    /\ task' = [task EXCEPT ![c].pc = "ended"]
    /\ UNCHANGED <<others, conn, channel, permits, gauge, hooked, failed, sent, written>>

Handler(c) ==
    \/ ConnectHook(c) \/ ConnectFails(c) \/ SendNotice(c)
    \/ Timeout(c) \/ DisconnectHook(c) \/ DisconnectFails(c) \/ Join(c)
Client(c)  == Upgrade(c) \/ OnText(c) \/ OnBadText(c) \/ OnOther(c) \/ OnClose(c) \/ Write(c) \/ WriteFails(c)
              \/ CloseSink(c)
Outbound(c) == TakeBatch(c) \/ BatchWritten(c) \/ Cancelled(c)

Next ==
    \/ \E c \in Conns : Handler(c) \/ Client(c) \/ Outbound(c) \/ Tick(c) \/ Distribute(c)
    \/ OthersTake \/ OthersReturn

(* Time passes, and tokio runs the tasks that can run; select! chooses at  *)
(* random, so neither branch is left out for ever.                         *)
Spec ==
    /\ Init /\ [][Next]_connVars
    /\ \A c \in Conns :
          /\ WF_connVars(Handler(c)) /\ WF_connVars(Tick(c))
          /\ WF_connVars(TakeBatch(c) \/ BatchWritten(c)) /\ SF_connVars(Cancelled(c))

-----------------------------------------------------------------------------
(* The semaphore has a permit for every connection that is not inside      *)
(* handle_socket: on no way out of it, refused, failed, timed out or left  *)
(* by its client, is a permit lost or returned twice.                      *)
PermitsExact ==
    permits + others + Cardinality({c \in Conns : conn[c].pc \in Inside}) = MaxConnections

(* What a client is sent comes in the order it was sent, each message at   *)
(* most once, over batches, losses and filtered messages.                  *)
WrittenInOrder ==
    [][\A c \in Conns : written'[c] # written[c] => written'[c].nr > written[c].nr]_connVars

(* A message is written only after every middleware outward from its       *)
(* sender's had it, from the inside out: of an event RelayMiddleware sends *)
(* and the client may not see nothing is written, unless a custom          *)
(* middleware puts something in the place of a message that is gone.  The  *)
(* JSON is that of the message they left, or the one the sent event came   *)
(* with, which is never written in the place of another event.             *)
WrittenAsProcessed ==
    \A c \in {d \in Conns : written[d] # Nothing} :
       LET w == written[c] IN
       /\ \A p \in w.sender..Outermost : \E k \in DOMAIN w.by : w.by[k] = p
       /\ \A k \in 1..(Len(w.by) - 1) : w.by[k] < w.by[k + 1]
       /\ Rewrite[Gone] = Gone /\ w.sender = 0 /\ w.orig.type = "EVENT" => w.orig.visible
       /\ \/ w.json = w.msg
          \/ /\ w.json = w.orig /\ w.orig.type = "EVENT"
             /\ w.msg.type = "EVENT" => w.msg.id = w.orig.id

(* "Middleware changed the event - invalidate pre-serialized JSON": what   *)
(* is written is always the JSON of the message the middlewares left.      *)
JsonIsCurrent == \A c \in Conns : written[c].json = written[c].msg

(* Every on_connect is followed by one on_disconnect, unless a hook fails: *)
(* with all connections gone the gauge of active connections is zero.      *)
HooksPaired ==
    /\ \A c \in Conns \ failed : conn[c].pc = "closed" => hooked[c] = {}
    /\ (failed = {} /\ \A c \in Conns : conn[c].pc \in {"new", "closed"}) => gauge = 0

(* Whatever its client does, a connection comes to its end by a timeout at *)
(* the latest and gives its permit back, unless handle_socket waits in a   *)
(* blocking send for room in the channel.                                  *)
TimesOut ==
    \A c \in Conns : (conn[c].pc = "waiting") ~> (conn[c].pc = "closed" \/ Blocked(c))

(* An outbound task that was cancelled ends, or waits for its client to    *)
(* take what is being written or the close frame.                          *)
OutboundEnds ==
    \A c \in Conns :
       conn[c].cancelled ~>
          (task[c].pc \in {"ended", "closing"} \/ (task[c].pc = "writing" /\ task[c].todo # <<>>))

(* handle_socket "Enforces connection timeouts (max duration and idle)".   *)
TimeoutsEnforced == \A c \in Conns : (conn[c].pc = "waiting") ~> (conn[c].pc = "closed")
=============================================================================
