# TLA+ models of relay_builder

relay_builder is a framework for Nostr relays: clients connect over WebSocket, publish
events, and subscribe to events with filters. These modules model the relay from the socket
to the database - a connection's life, what a message does on its way through the
middlewares, how an event is stored and finds its subscribers, how a request is answered -
and the decisions of the command line tools. TLC checks the models on small instances; TLAPS
proves the safety properties of the index, its deliveries, the registry, the store, requests, sessions and
connections for all instances. Source paths below are
relative to the repository (`src/` here is the repository's own `src/` directory).

## 1. The system

| Component | State | Operations | Hard behaviour |
|---|---|---|---|
| Subscription index, `src/subscription_index.rs` | five inverted tables, `all_filters`, `filter_groups`, seen-marks | add, remove, distribute | every call is a sequence of short critical sections; tables are locked one at a time and, for many authors, in chunks |
| Subscription registry, `src/subscription_registry.rs` | `connections`, per-connection subscriptions under an async lock, one index per scope, a metric | register, add, remove, cleanup, distribute, drop of the handle | three kinds of task clean up the same connection; an `Arc` cloned before an await outlives its map entry |
| Subscription coordinator, `src/subscription_coordinator.rs` | handle, limits | `handle_req`, `save_and_broadcast`, pagination | history first, subscription second; pages by timestamp; a bounded channel |
| Replaceable events buffer, same file | queue of 10 000, map by (pubkey, kind, scope) | insert, flush, cancel | timer recreated in a select loop, shutdown |
| Crypto helper, `src/crypto_helper.rs` | bounded channel, batches | sign, verify | a request that fails in a batch, a requester that waits |
| Database, `src/database.rs` | LMDB by scope | save, delete, query | replaces and rejects by itself; every call may fail |
| Connection, `src/websocket/`, `src/nostr_handler.rs` | permit, timeouts, bounded outbound channel, outbound task | upgrade, connect, read, disconnect | slow readers, failing hooks, cancellation with a 5 s limit |
| Middleware chain, `src/middleware_chain.rs`, `src/nostr_middleware.rs` | position of each middleware | inbound, outbound, connect, disconnect | a message sent from within enters at a position |
| Middlewares, `src/middlewares/` | token buckets, gauge | NIP-40, 42, 70, rate limit, errors, metrics | order of messages of one client; an error after a reply |
| Relay middleware, `src/relay_middleware.rs`, `src/event_processor.rs`, `src/event_ingester.rs` | none of its own | dispatch of EVENT, REQ, CLOSE, AUTH, COUNT, NEG-* | several commands per event, one of which fails |
| Connection state, `src/state.rs` | quota slots, challenge, authenticated key, negentropy sessions | reserve, release, authenticate | a slot reserved before the work that may fail |
| Builder and configuration, `src/relay_builder.rs`, `src/config.rs`, `src/subdomain.rs` | options | chain, scope of a connection, channel size | two pieces of code cut host names |
| Tools, `src/bin/` | files, databases | export, import, integrity check, dump, negentropy sync | names through file names, byte offsets, partial failure |

A message goes socket -> `handle_socket` -> `NostrConnection::on_message` -> middleware
chain -> `RelayMiddleware`. A REQ goes on to the coordinator, which reads the database, and
then to the registry and the index of the connection's scope. A published event goes to the
coordinator, the database, the registry, the index and the outbound channel of every
matching session; its outbound task takes it through the middlewares to the socket. Events that the
relay itself generates pass the signing processor and, if replaceable, the buffer first. A
connection is cleaned up by its own task in `on_disconnect`, by a task that
`ConnectionHandle::drop` spawns when it finds the connection still registered, or by a
publisher that could not send to it.

What makes each part correct:

- *index*: a filter that accepts an event is a candidate for it; nothing is lost or left behind by
  concurrent adds and removes; an event reaches everyone who was subscribed before its
  distribution began, and a distribution names nobody twice;
- *registry*: index, registry and metric agree; tenants (scopes) are isolated; no event
  vanishes for a connection that stays registered; every dead connection is eventually cleaned up
  and no operation blocks for ever;
- *store*: a client that was told OK can rely on it; the buffer loses only what it may;
  an event is announced after a save, once for each save, and not forgotten;
- *requests*: a REQ is answered with the newest events its limits allow, none twice, and the answer ends;
  what is published meanwhile is missed in one known gap only;
- *session*: a key is held only by an AUTH event made for this session, scope and relay; protected
  events come from their authors; quotas hold; every message is answered, by the error's own reply if it has one;
- *connection*: no permit is lost; hooks come in pairs; messages are written in order, after every
  middleware they have to pass; every connection ends;
- *tools*: export and import are inverse, repair removes what dangles and keeps every entry of an event that exists,
  synchronization converges whatever fails and changes in between.

## 2. Modules

| Module | Models |
|---|---|
| `EventFilter` | filters, events, the matcher (external: the nostr library), `choose_index_field`, the buckets a filter is filed under and those an event is looked up in |
| `SubscriptionIndex` | the index under concurrent calls, one action per critical section |
| `IndexInvariant` | its inductive invariants, for serialised and for overlapping calls |
| `IndexDelivery` | the index with history variables: who was owed an event, who got it |
| `SubscriptionRegistry` | registry, sessions, outbound tasks, publishers and reapers around the index |
| `Publication` | abstract: what subscribers are promised about saved events |
| `EventStore` | `handle_event` with `save_and_broadcast`, signing processor, replaceable buffer; implements `Publication` |
| `RequestFeed` | `handle_req` with its pages, beside publishers |
| `Scopes` | hosts, scopes, `validate_relay_url` |
| `Session` | every client message through the chain, with the connection's state |
| `Connection` | permit, `handle_socket`, hooks, outbound channel and task |
| `Transfer`, `Integrity`, `NegentropySync` | the tools |
| `RegistryInvariant` | the inductive invariants of the registry |
| `SubscriptionIndexProofs`, `IndexDeliveryProofs`, `RegistryProofs`, `EventStoreProofs`, `RequestFeedProofs`, `SessionProofs`, `ConnectionProofs` | theorems about the module of that name; `SubscriptionIndexProofs` also about `EventFilter`, `EventStoreProofs` about `Integrity`, `SessionProofs` about `Scopes` |
| `SequenceFacts` | lemmas about naturals and sequences that several of them cite |
| `MC*` | instances for TLC |

**EventFilter.** A filter is a record of sets; an absent and an empty `ids`, `authors` or
`kinds` behave alike in the code and are both the empty set. Tag constraints keep the difference. The
matcher looks at a tag's first value, the index at all of them, as the code does. The
tag names are numbers because `choose_index_field` takes the first in the order of a map.

**SubscriptionIndex.** `tracked`, `groupFilters` and the two seen-marks are heaps of the
objects behind the `Arc`s: a removed filter may still be held by a distribution.
`entries` is the union of the five tables as a relation from buckets to filters;
the map `filter_groups` is a function that gives `None` for an absent key. `pc` and the other
call variables are the locals of the call each task is in. `add_subscription` is
`AddStart` (group entry), then per filter `AddFilter`, `AddToGroup` and one or more
`AddToIndex` (`LockHold`: the loop over authors gives the lock up after 1001 authors and then
after every 1000); `remove_subscription` is `RemoveStart`, `RemoveSnapshot`,
then `RemoveFilter` and `RemoveFromIndex`; `distribute_event` is `DistStart`, one `Lookup` per
table, then per candidate `CheckFilter`, `MarkFilter`, `GetGroup`, `GroupSeen`, `GroupMark`.
One set of tables holds the filters of all scopes and a distribution sees those of its scope only. `stats`
reads and is left out. `Spec` assumes that calls for one subscription do not overlap (the registry makes
them under the connection's write lock); `SubscriptionRegistry` drops the assumption
and calls the same actions without it.

**SubscriptionRegistry.** Connection data is named by the session that created it, so an
`Arc` kept after unregistering is the session's name in `target`. `writeLock` is the
async lock of `ConnectionSubscriptions.subscriptions`, held across the calls into the
index. A REQ removes the subscription first and then adds it
(`SubscriptionCoordinator::add_subscription`). `cleanup_connection` is `ClGet`, `ClRead`,
`ClRemove`, `ClIndex` per subscription, `ClMetrics`. `DropHandle` happens when both the
session's task and its outbound task are over, since both hold the connection state. The
channel is a counter with a capacity; it disconnects when no receiver is left. A session in `Unwinding`
may end without `on_disconnect` (a failed `on_message`, a panic).

**EventStore.** An event has an author (a client or the relay), the key of the buffer
(pubkey, kind, scope - not the `d` tag), the coordinate under which the database replaces, and a time.
`HandleEvent` takes one of the command lists an event processor may return; signed commands are
executed before the others (`InOrder`), as `handle_event` does. `Save`, `SaveFlushed` and the signing
of an event may fail. The signing processor takes what is in its channel as one batch
(`CollectBatch`, `SignBatch`) and answers each requester. The buffer's task inserts (`Insert`), waits
for a second without events (`TimerElapses`, or `TimerWhenEmpty` with nothing to do), and flushes
event by event; `Cancel` is the shutdown. `Stored` is the database's own rule of replacement (external).
`saves` and `announces` are counters for the refinement `P == INSTANCE Publication WITH Announced <- Broadcast`:
a save is `Publication!Save`, a distribution `Publication!Announce`, everything else stutters.

**RequestFeed.** One connection, one subscription id. `Page` is one query: events in the window, newest first, at most as many as the
smallest limit of the request; what was sent already or may not be seen is left
out; the next window ends one second before the oldest event. `Send` puts into the channel what fits, since the
code ignores a failed `try_send`. After the last filter `Eose`, then `RemoveOld` and `AddNew`. A publisher saves
and, later, distributes. `before` (stored when the request came), `edges` (seconds in which a page ended), `cut`
(filters given up) and `missed` are history variables the properties use.

**Session.** The chain is the sequence that `build_with` makes of the options. A message is led inward through it
(`Process`): each middleware replies, fails, stops or hands on; `RelayMiddleware` does
the rest; the error of an inner middleware travels outward to `ErrorHandlingMiddleware`, which makes the reply
of it. All of this is one step (`OnMessage`), because a connection handles one message after the other;
what the event processor and the database answer is the nondeterministic outcome. `OnBadMessage`
is a message that does not parse or whose signature is wrong. `Distribute` is the part of
others: an event for a subscription of this session, and the cleanup when its channel is full.
AUTH events are made of key, kind, signature, time, challenge and host, right or wrong in each.
A `relay_url` in which localhost or 127.0.0.1 occurs is compared as a whole, so that scopes do not count there (`AuthHost`).
An event processor that refuses a message does so with any of `ProcessorErrors`, a kind of `Error` and the id in it;
`ErrorReply` is the reply `handle_inbound_error` makes of it.

**Scopes.** A host is a sequence of labels, a URL a host and the rest of its text. `validate_relay_url` looks for "localhost" and
"127.0.0.1" anywhere in a URL: in a part of a label, across the ends of labels (x127.0.0.10), in the path. Which labels and rests
have such a part is given by the sets `LocalLabels`, `EndIn127`, `BeginWith1` and `LocalRests`, so that `IsLocal` is that search.

**Connection.** `conn` is the task of `handle_socket`, `task` the outbound task; hooks run one at a time (`ConnectHook`,
`DisconnectHook`) and those of `Faulty` middlewares may fail. Both deadlines are looked at only in the
loop, so `Tick` lets time pass anywhere and `Timeout` is a step of the loop. A message carries the position
of its sender (`from`), the middlewares that have had it (`by`), the message its JSON was made of
(`json`, `NoJson` if it is still to be made) and the message that was sent (`orig`). A custom middleware (`rewrite_outbound`) is any function
`Rewrite` on messages: it may change an event, put a message of another kind in its place, or drop it. `SendNotice` is the blocking send of `on_message`; all other sends drop the message when the channel
is full. `others` stands for the permits of other connections. `Join` waits for the
outbound task or for the 5 s to pass; in the second case the task goes on by itself.

**Tools.** `Transfer` and `Integrity` define what a run of the tool computes, from file names and
lines or index entries; failures are arguments. `MCAlgorithms` builds every input up
to the bounds step by step and states what the result is compared with. In `Integrity` an index key is its fields, some padding and
the event id. The code of nostr-lmdb is not at hand: the widths of the fields are those the dump tool reads (`TimeEnd`: author, kind, tag and time end at
191, 223 and 193 in the keys with a tag), while both tools take the id from 194, 226 and 196. So the padding is an unknown, `pad`,
from 0 to the 3 bytes that the tools expect. A slice that does not meet the id is `OtherBytes`, the id of no event.

**NegentropySync.** The tool as a process: `Open`, then for each relay `StartSync`, which compares the two databases, `MoveDown` and `MoveUp` for each
event that is to be moved, and `SyncEnds`; `SyncFails` can come before, between and after the moves (`client.sync(...).await?`), and what has moved
stays. `RunEnds`, `OpenFails` and `Tick` are the loop of `run_periodic_sync` with its backoff. Meanwhile anyone may `Publish` or `Delete` anywhere.
A database rejects what was deleted from it and what it has a newer version of, and replaces older versions (`Save`); a relay may refuse events (`Refused`).

## 3. Runs

| Run | Checks | Expected |
|---|---|---|
| `algorithms` | `Complete`, `AuthUrlExact`, `TransferExact`, `RepairSound` | pass |
| `sync` | `SyncConverges`, `SyncTypeOK` | pass |
| `index` | `IndexInv`, `IndexExact`, `SettledFindable`, `AtLeastOnce`, `OncePerDistribution` | pass |
| `registry_delivery` | `ScopeIsolation`, `NoSilentLoss`, `MetricExactInTime`, `IndexMirrorsInTime` | pass |
| `registry_progress` | `EventuallyCleaned`, `OperationsFinish` | pass |
| `store` | `OkMeansStored`, `NothingLost`, `ImplementsPublication`, `HandleEventReturns`, `BufferFlushed`, `StoreTypeOK` | pass |
| `requests` | `StoredOnce`, `NewestSent`, `LostOnlyInGap`, `RequestEnds` | pass |
| `session` | `AuthBound`, `NoReplay`, `KeyFixed`, `ProtectedByAuthor`, `QuotaHolds`, `Answered` | pass |
| `connection` | `PermitsExact`, `HooksPaired`, `WrittenAsProcessed`, `WrittenInOrder`, `TimesOut`, `OutboundEnds`, `ConnTypeOK` | pass |
| `registry_reuse` | `ScopeIsolation` | violation |
| `connection_timeouts` | `TimeoutsEnforced` | violation |
| `json` | `JsonIsCurrent` | violation |

*Bounds.*

- `algorithms`: filters with up to two values per constraint and two tag names, events of up to two
  tags with zero to two values; relays on a host, a subdomain, localhost and three addresses, hosts and URLs of up to four labels,
  one of them "mylocalhost", two ports and a path with localhost in it; scope names of up to three tokens, two scopes,
  up to two unreadable lines, batches of two so that one is incomplete; two index entries, perhaps a byte short, with padding
  from 0 to 3, beside the event in up to three scopes.
- `sync`: a relay that may always fail before one that gets everything through at some time; two versions of a replaceable event
  and one more event, which the second relay refuses; three publications and deletions at any time and place; each mode, a one-time run,
  intervals below the first and above the greatest backoff, a filter for all events and one for some.
- `index`: one of two instances (`working`). Two writers, two subscriptions, three filters and groups ever,
  one author per lock hold and a filter of three authors, so that its writing is interrupted;
  filters indexed by author, kind, tag and none. That is enough for two calls to overlap at every pair of steps
  and for a key to be added again after its removal.
  Or one writer and two distributing tasks, two
  distributions of one event or of two, one subscription that is added, removed and replaced.
- registry runs: one session (two for the reuse of an
  address), one or two publishers, up to three requests and two published events; `Capacity`
  is 1 where the channel is to overflow, and larger than what is published where it is not. `registry_delivery` is one of two instances (`inTime`):
  a session with two subscriptions and three requests, one publisher and behaviours in which each channel is drained before it is full,
  that is, `NeverDead`, the hypothesis of `OrderlyMetric` and `OrderlyIndex`; or one subscription, two requests and two publishers with an event each.
  `RegistryBounds` makes sure that the allocation bounds never stop a call.
- `store`: two connections, two EVENT messages, three command lists with five events: a client's, one the
  relay stores silently, two versions of an addressable one, and one of the same key
  with another identifier. The queue holds one event, so that a connection has to wait for the
  buffer; the signing channel two, so that batches of both sizes occur.
- `requests`: six events, two of which the client may not see and two of one second, limits up to 2, a channel of
  seven messages, three attempts per filter, three requests with two overlapping filters each, one failing
  query and one publisher: pages repeat, end inside a second, and run out of attempts.
- `session`: two clients, one on a subdomain, all kinds of messages, right and wrong AUTH events, two subscription ids
  with room for one, rate limits of one and two, a channel that holds one message, two sessions in all and one second; a processor
  that refuses with four kinds of error, of which three have a reply of their own (the other kinds go by the message like "restricted").
- `connection`: one connection beside others with one permit, five middlewares, one with
  failing hooks, two that answer, a channel and batches of two, three messages, timeouts of one and two ticks. The custom middleware
  turns one event into another and that one into a NOTICE; a third event is hidden and expired.

Deadlock is not checked because the bounded systems stop when the bounds are used up; that no operation gets stuck is
said by `OperationsFinish`, `HandleEventReturns`, `RequestEnds` and `TimesOut`.

*Fairness.* Weak fairness of every task's own steps: tokio polls a task that is
ready. `RegFairness` (registry): none on clients (`ClientStep`), none on `Drain`, `OutboundFails` and
`OutboundStops`: a socket may accept nothing for ever. Waiting for an async lock is a step
that is enabled only while the lock is free; weak fairness suffices here because every
holder releases it for good after finitely many requests. `EventStore`: the signing
processor, the buffer's task and the connection tasks; none on `HandleEvent` and `Cancel`.
`RequestFeed`: the steps of `handle_req`, none on failing queries, publishers and the client (`Write`).
`Connection`: the handler's steps, the clock, the taking of batches; the branch that sees the cancellation
(`Cancelled`) is strongly fair, because `tokio::select!` polls its branches in random order and the other branch
may be ready again and again. Nothing that needs the client (`Write`, `WriteFails`, `CloseSink`, incoming
frames) is fair. `NegentropySync`: weak fairness of the tool's steps taken together, failures included, since nostr-sdk's timeouts end every wait;
strong fairness, that is, an assumption about the environment, of opening the database, of reaching a reliable relay and of each move of an event to or from it: it gets
through at some time if it is tried again and again, though no single sync need be complete. Nothing is assumed of the other relays. `Session` states no liveness: a message is one step there.

*What the passing runs show.* The index loses nothing, leaks nothing and delivers at least once under all
interleavings of its critical sections; when nobody is slow and every session ends orderly,
metric, registry and index agree; a full channel is answered by unregistering,
never by dropping a live event silently; all operations terminate, although the registry holds its
lock across calls into the index. An OK is kept although the buffer and other connections write and delete at the
same time; a shutdown flushes what the buffer holds and loses what its queue still holds; each save is followed by
exactly one announcement, except for what is stored silently. The answer to a request ends and is complete up to
three exceptions, which `NewestSent` and `LostOnlyInGap` name: events of the second in which a page ended, filters given up after
`MAX_ATTEMPTS` or a failed query, and events distributed between the query and the subscription. Keys are
bound to challenge, session, scope and host; an AUTH event is of no use a second time.
Permits are exact on every path out of `handle_socket`. JSON serialized before is never written in the place of another event, and of a hidden event
nothing is written. The synchronization tool brings the local database and a reliable relay together, up to what one of them rejects or refuses,
whichever other relays fail before its turn.

*What they do not show.* A plain name is assumed in `TransferExact` (names with a dot, a trailing number or the prefix "default_" change, see below).
`QuotaHolds` says that every subscription has a slot, not that every slot has a subscription: a failed REQ keeps its slot.
`BufferFlushed` speaks of a queue that falls quiet; under a steady stream the flush never comes. `HooksPaired` leaves out connections one of whose hooks
failed. `OkMeansStored` is checked with a client's event that is not replaceable; the race of a client's replaceable event with the buffer is in the reach of
the theorem `OkIsKept`, not of the run.

*What the violations show.*

- `registry_reuse`: connection ids are socket addresses. A new session of another scope that takes
  the address while the old session's cleanup has not reached the index receives an event of the
  old scope; the code's `debug_assert_eq` states the opposite. `ScopeIsolation` therefore passes only where addresses are not reused.
- `connection_timeouts`: `on_message` answers a message that does not parse with a blocking
  send. A client that sends such messages and reads nothing fills the channel, and `handle_socket` never gets
  back to the loop in which it looks at its deadlines. `TimesOut` is the weaker statement that holds.
- `json`: an event distributed with its JSON is turned into a NOTICE by a custom middleware; the code, which drops the JSON only for another
  *event*, writes the JSON of the event. `WrittenAsProcessed` is the weaker statement that holds.

Each property of a passing run has a mutant, an operator with the comment "Mutant" that changes one mapped definition
as a plausible bug would; under it TLC finds the property violated.

*Further observations*, made while reading the code for the models. The models behave in the same way where
the behaviour is in their reach:

- *Registry and index.* `cleanup_connection` ignores the result of
  `connections.remove`, so that a slow client that disconnects while a publisher gives up on it is subtracted from the
  metric twice (`NoDoubleDecrement` in `SubscriptionRegistry` states the opposite; `MetricExact` is checked where channels are drained in time only). A
  subscription added while a publisher unregisters the connection stays in the index (`CleanedOnDrop`). After a failed
  `on_message` the fallback cleanup waits for a send that fails (`FallbackCatches`). Two clients that publish
  the same event at once make a subscriber get it twice, since `has_seen_event` and `mark_event_seen` are two lock holds
  (`NoDuplicateDelivery` in `IndexDelivery`). None of these four is part of a run.
- *Store.* The buffer's key lacks the `d` tag: of two addressable events with different identifiers
  only the last survives a second. The result "rejected" of a save is ignored and answered by OK true. A steady stream of
  events postpones the flush for ever. Relay-generated events that are not replaceable are saved and never distributed.
- *Requests.* The smallest limit of a request applies to all of its filters. Events that find the channel full
  count as sent. Between the removal of the replaced subscription and the new one neither is there.
  `max_subscriptions = 0` means unlimited in the builder and makes a channel size of 0 in the configuration.
- *Messages.* The NIP-40 middleware's doc says that an expired event is dropped with OK false;
  the code deletes the stored copy and passes the event on, which stores it. A failed save and a failed
  AUTH are answered by OK false twice; a later command that fails makes OK false follow OK true; a list without a signed
  event gets no OK. The ingester empties the initial message of NEG-OPEN, so that it always ends in NEG-ERR. A COUNT that fails
  gets no reply. The global rate token is spent even when the connection's own limit refuses. `src/CONTEXT.md:261` and the comments on `EventProcessor`
  (`src/src/event_processor.rs:144`, `:172`) say that an `Err` becomes a NOTICE; only `Error::Notice` does, the others become an OK or
  a CLOSED, for the id in the error or for the message (`ErrorReply`). `Answered` says what holds: an answer names the message, or is the error's own.
- *Scopes.* `with_subdomains(n)` with an `n` other than the labels of the relay's URL makes AUTH impossible, and so does
  a subdomain that contains "localhost" (mylocalhost.relay.io): `AuthUrlExactFor` says so. `NostrHandlerFactory::create` ignores `ScopeConfig::Fixed`.
  The comment in `validate_relay_url` asks for an exact match "for localhost or IP addresses"; the code looks for the two texts only, so that
  on a relay at 10.0.0.9:8080 the URL 10.0.0.9:443 is accepted.
- *Chain.* `without_defaults` drops authentication too; `without_logger` and `without_error_handling` set
  flags nobody reads; `handle_upgrade_with_config` ignores `max_connections`. `send_bypass` enters one
  position inward, so that the sender's own processing still runs. A middleware that puts something in the place of a message that is gone gets the JSON of
  the event that was hidden written with it, which `WrittenAsProcessed` excludes by `Rewrite[Gone] = Gone`.
- *Connection.* A failing `on_connect` is followed by no `on_disconnect`, its outbound task stays, and the permit comes back although the
  socket is open; a failing `on_disconnect` skips the hooks further out; after 5 s the permit comes back while the outbound task
  still has the socket.
- *Tools.* The integrity tool says that it will only remove corrupted index entries (`src/src/bin/nostr-lmdb-integrity.rs:161`), but it takes every
  tombstone in `deleted-ids` for one, since it names an event that does not exist: a wet run removes it, and the event can be saved again. It misses a dangling entry if another scope has the
  event, and panics on an unknown scope hash. If nostr-lmdb writes less than 3 bytes between time and id, all keys with a tag are shorter than the tools
  expect: the integrity tool checks none of them and the dump shows them as incomplete. A scope "a.b" is imported as "a_b", "x_7" as "x" (without counts), names
  starting with "default_" as the default scope; names that collide overwrite each other. One failing save skips the rest of its import batch.
  An interval above 300 s makes the backoff of `negentropy_sync` shrink, and relays that cannot be reached cause none.

## 4. Proofs

All theorems are proved for every value of the constants that satisfies the module's named assumption; TLC evaluates
the assumptions in every run.

| Module | Theorems | What they state |
|---|---|---|
| `SubscriptionIndexProofs` | `IndexComplete`, `IndexInvariance`, `TypeCorrect`, `ExactWhenQuiet`, `FindableWhileSettled`, `NeverTwice` | the lookup has no false negative; `IndexInv`, `TypeOK`, `IndexExact`, `SettledFindable`, `OncePerDistribution` |
| `IndexDeliveryProofs` | `DeliveryInvariance`, `NeverMissed` | `DeliveryInv`, `AtLeastOnce` |
| `RegistryProofs` | `RegistryInvariance`, `RegistryTypes`, `SentWithinAddress`, `ScopesIsolated`, `LossInvariance`, `NothingLost`, `OrderInvariance`, `OrderlyMetric`, `OrderlyIndex` | `RegInv`, `RegTypeOK`, `AddressIsolation`, `ScopeIsolation`, `LossInv`, `NoSilentLoss`, `OrderInv`, `MetricExact`, `IndexMirrorsRegistry` |
| `EventStoreProofs` | `StoreInvariance`, `StoreTypes`, `OkIsKept`, `BufferLosesNothing`, `StoreRefinesPublication`, `RepairsAreSound` | `StoreInv`, `StoreTypeOK`, `OkMeansStored`, `NothingLost`; the safety part of `ImplementsPublication`; `RepairSoundFor` |
| `RequestFeedProofs` | `FeedInvariance`, `FeedTypes`, `NothingSentTwice`, `NewestAreSent`, `OnlyTheGapLoses` | `FeedInv`, `FeedTypeOK`, `StoredOnce`, `NewestSent`, `LostOnlyInGap` |
| `SessionProofs` | `AuthUrlsAreExact`, `SessionInvariance`, `SessionTypes`, `KeysAreBound`, `AuthsAreNotReplayed`, `KeysStay`, `ProtectedStayWithAuthor`, `QuotaIsKept`, `EveryRequestIsAnswered` | `AuthUrlExactFor`, `SessionInv`, `SessionTypeOK`, `AuthBound`, `NoReplay`, `KeyFixed`, `ProtectedByAuthor`, `QuotaHolds`, `Answered` |
| `ConnectionProofs` | `ConnectionInvariance`, `ConnectionTypes`, `PermitsAreExact`, `HooksArePaired`, `WrittenIsProcessed`, `WrittenKeepsOrder` | `ConnInv`, `ConnTypeOK`, `PermitsExact`, `HooksPaired`, `WrittenAsProcessed`, `WrittenInOrder` |

**Matching.** `IndexComplete`: for every filter and every event, if the
filter accepts the event then some bucket it is filed under is looked up. The argument is a
case split on `ChooseIndexField`; the tag case needs that a non-empty set of naturals has a least
element (`FirstTagExists`) and that the first value, the one the matcher uses, is among those looked up.

**Index.** `IndexExact` and `SettledFindable` are not inductive: they say nothing of a
filter some call is in the middle of. `IndexInv` says, for every call, how far it got: an adding
call's current filter is filed under exactly the buckets not in `left`; a removing call still
holds every filter its subscription has in `all_filters`; a live group contains its
subscription's filters except the one between `AddFilter` and `AddToGroup`; a filter no call works
on is filed under all its buckets or, once removed, under none. That two calls never
work on the same filter follows from `Serialised` (`CurDistinct`, `OtherCalls`). There is one lemma per action for
the types and one for the invariant; steps of a distribution change none of the structure and share `Frame`
and `ReaderStep`; `AddToIndex` and `RemoveFromIndex` share `EntryStep`.
`NeverTwice` rests on a second invariant, `OnceInv`: what a distribution has pushed is in its
`checked_groups`, and the key it is deciding on is in `checked_groups` but not yet pushed. The seen-marks play
no part in it; they cannot, since a group that is removed and added again has a fresh mark.

`SubscriptionIndexProofs` also carries the weaker invariant `OverlapInv`, which does without `Serialised`: calls may overlap in any way, also
for one subscription. Delivery and the registry need it, since sessions, reapers and publishers call the index concurrently.

**Delivery.** `AtLeastOnce` speaks of the end of a distribution only. `DeliveryInv` says of every
pair owed and not delivered that some distribution of the event still carries it (`Carried`): one with the
group in hand, or one that holds a matching filter as a candidate or will still find it in a table not yet read -
here `IndexComplete` and `IndexInv` come in. The seen-marks make one distribution skip what another one
has taken over, so every mark is traced to a delivery or to a distribution that is about to make it
(`FilterMarks`, `GroupMarks`). The history variables are never read (`HistoryOnly`), so `IndexInv` carries over. `DeliveryInv(owed, delivered)` is an operator of the two sets, because the registry keeps
the pairs of a session apart from those of others.

**Registry.** Four invariants, one on top of the other; TLC has checked each on instances of two sessions before it was proved.
`RegInv` says where each task can be, by what it is (a session, its reaper, a publisher), whose data it holds there, and that
the index keeps `OverlapInv` whatever its callers do.
`IsolationInv` says that a distribution holds only keys of sessions, of its own scope; so an event goes only to an address at which
some session has the event's scope (`SentWithinAddress`). `ScopesIsolated` assumes `OneScopePerAddress`, that two sessions of one address have one scope; the code does
not ensure it, and `registry_reuse` shows what happens without.
`LossInv` is the delivery invariant for the pairs owed to registered connections, where given means: the event was sent, the connection is
no longer registered, or a publisher still has the key in hand or is about to unregister the connection (`Pending`). `NothingLost`
assumes `OwnAddresses`: where an address is used again, the cleanup of the older session removes the subscriptions
of the newer one from the index, and then events are lost silently.
`OrderInv` says that a session is unregistered by one task, its own or the reaper when that is over, at which steps it is registered, which of its
subscriptions the index knows (`LiveOf`) and which the gauge counts (`CountedOf`): a request's effect on the index and the gauge comes after
its effect on the session's map. The gauge is the size of that set, which at rest is in bijection with the registered keys.
`OrderlyMetric` and `OrderlyIndex` hold on behaviours with `[]NeverDead`, in which no publisher meets a full or a closed channel: a publisher
that does starts a second cleanup, and two overlapping cleanups of one session subtract its subscriptions twice.
That channels never fill up is a property of the environment, which the code cannot ensure; the two theorems say what a full channel can spoil, and
`registry_delivery` has such an instance.

**Store.** `StoreInv` adds to the properties what each task holds: that the buffer's task has an event exactly
between the turns of its loop, that the queue is the end of what it has accepted (from which it follows that an event in the buffer
is replaced by a later one only), and, for the refinement, that every distribution, also one that is due, has
a save of its own (`Paid`). That an OK survives rests on the transitivity of the database's rule of replacement
(`BeatsTransitive`, `SaveStands`). `StoreRefinesPublication` maps `Init` to `Publication!Init` and every step to
`Save`, `Announce` or a stutter.

**Tools.** `RepairsAreSound` is about any environment in the form that nostr-lmdb writes, with any padding from 0 to 3: events are keyed by their id, an
index entry has the id behind its fields and the padding, unless the key is cut short. The two tools' tables of positions agree with each other, and with the
fields if the padding is theirs; if it is less, their position is behind the end of the key (`ToolsLayout`). So what the check extracts is
the entry's id or nothing, and it is the id whenever the dump shows one or the key is whole and padded as expected (`Extracted`).

**Requests.** The properties speak of requests that were answered; `FeedInv` of how far an answer has come. `Progress`: a filter
already read is *settled*, that is, ahead of every event it did not find there are as many matching events as its limit;
the filter being read has found everything after its window, and as many events as `sent` counts came after the window (`Paging`) -
except when the window ended at second 0, which is read twice because timestamps saturate. `PageMoves` and `PageSettles` are the two ways
a turn of the loop can end. The data part is that `NewestFirst` is a bijection: ranks are injective into an interval of the
set's size, hence onto it (`RankOnto`, `TopIs`). `Accounted` says where an event saved meanwhile is: with its publisher until the subscription is
in force, afterwards in the channel.

**Sessions.** A message goes through a chain of any length in one step, so the invariant has to be carried through the chain:
what holds before a middleware holds after it (`Good`, `SameInput`), and by the least middleware for which this failed it holds
for all. `Answered` needs that `RelayMiddleware` is innermost and only there: a message that nothing stopped reaches it, and what stops a message
earlier answers it or fails, which `ErrorHandlingMiddleware`, if the message passed it, answers;
`ProtectedByAuthor` that NIP-70 comes before the relay. `SessionInv` says that the challenge is the session's own or
spent, that a key means a spent challenge and a grant that matches, and that a challenge has at most one grant, because the
numbers of sessions are never used again. `SessionAssumption` requires that no IP address, except the relay's own
host, has the base name of the relay's host; `UrlIsAuthHost` then shows that `validate_relay_url` accepts exactly the
host that `AuthBound` names. `AuthUrlsAreExact` is about the URLs themselves: for a relay host that has a label, any host
that does not begin with an empty label and any URL, the search for local texts, the comparison of base names and the comparison of
subdomains with the scope accept exactly what the reference `AuthUrlExactFor` says, also for hosts such as mylocalhost.relay.io. `EveryRequestIsAnswered` follows the processor's error
from `RelayMiddleware` out to `ErrorHandlingMiddleware`: its reply names the message or is the error's own (`Replied`).

**Connections.** `ConnInv` counts the permits of those inside `handle_socket`; says how far the hooks of each connection have come
(`HooksSoFar`), of which `HooksPaired` is what remains at the end; counts the gauge; and follows the messages (`InTransit`): numbers grow from the
written one over the batch to the channel, what is in the channel is untouched, what is in the batch has been through the chain. That the chain
runs every middleware outward from the sender, in order, is proved for chains of any length and any custom middleware, again by the least counterexample; so is that a hidden event,
gone after `RelayMiddleware`, stays gone if nothing takes the place of what is gone (`Reached`).

**Assumptions.** `TagNamesAssumption`, `IndexAssumption`: tag names and bounds are naturals, at least one author per lock hold, `None` is not a value.
`StoreAssumption`: events have ids, times and flags; capacities are positive; the buffer is not one of the connection tasks, which are finite in number. `FeedAssumption`: event ids are unique,
events are finite in number, limits are positive, a REQ has a filter. `SessionAssumption`, `ConnectionAssumption`: options and messages are of
the form the configuration and the parser produce; capacities and timeouts are positive; `RelayMiddleware` is innermost.
`RegistryAssumption`: sessions and subscription ids are finite in number, the tasks of different kinds are distinct, `None` is neither a task nor a
connection nor a list of filters. `ScopesAssumption`: which labels and rests of URLs have a local text. `SyncAssumption`: versions of one event differ, the local database is no relay. `OneScopePerAddress`, `OwnAddresses`, `[]NeverDead` and `Environment` are hypotheses of single theorems, named
there, and not assumptions of the module.

**Induction.** The induction theorems of the library take operators as parameters, which the provers cannot instantiate. Where data of any
size has to be followed - a chain of middlewares, the greatest of a set of times - the proofs take a least counterexample instead (`LeastNat`).

**Only model-checked.** Every liveness property, the liveness part of `ImplementsPublication`, and all that uses ENABLED: out of TLAPS's reach.
The registry where an address is used again, beyond `AddressIsolation`. `TransferExact`,
which compares folds over data with a reference on all inputs up to a bound. `Complete`, `AuthUrlExact` and `RepairSound` are what
`IndexComplete`, `AuthUrlsAreExact` and `RepairsAreSound` prove, restricted to the bounded inputs of `MCAlgorithms`.

## 5. Plan

What is left: a run for a lingering outbound task of an old session whose drop handler cleans up the new session of the same
address (`src/subscription_registry.rs:104`), and one with both the registry and `handle_req` for the gap of a replaced
subscription.

## 6. Not modelled

- The nostr library (matching, signatures, encoding), LMDB, negentropy itself: external; modelled by what the code relies on.
- HTTP pages, diagnostics, CPU affinity, the relay binary, the setters of the builder: no state that the relay's behaviour depends on.
- Logging, latency metrics and the counting of events; the wording and serialisation of messages, which are abstracted to
  which message is sent to whom and of which message its JSON was made.
- The verification processor of the crypto helper: nothing in the relay calls it, the ingester verifies by itself.
- Output formats of the dump tool, progress output, and a relay that runs beside a tool on the same database.
- The memory order of `next_filter_id` does not matter: only its uniqueness is used.

`PROJECT.json` lists every component with its status,
every definition with the lines it models, and the hazards with the properties that cover them.
