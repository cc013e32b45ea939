----------------------------- MODULE RequestFeed -----------------------------
(***************************************************************************)
(* What a client receives for a REQ: SubscriptionCoordinator::handle_req   *)
(* and process_historical_events (src/src/subscription_coordinator.rs),    *)
(* on a database other connections write to at the same time.  The stored  *)
(* events are read filter by filter and page by page, each page in one     *)
(* query, sent through the connection's bounded channel and followed by    *)
(* EOSE; then the subscription replaces the one with the same id in the    *)
(* registry.  A publisher first saves its event and later distributes it   *)
(* to the subscriptions it finds.                                          *)
(*                                                                         *)
(* One connection and one subscription id; requests follow each other.     *)
(***************************************************************************)
EXTENDS Integers, Sequences, SequencesExt, FiniteSets, FiniteSetsExt

CONSTANTS
    Events,         \* records [id, at, kind, visible]
    Stored,         \* events in the database at first
    Publishers,     \* tasks publishing the other events
    FilterLists,    \* filters of a REQ: sequences of [kinds, limit]
    MaxLimit,       \* RelayConfig::max_limit
    MaxSubscriptions, \* RelayConfig::max_subscriptions
    MaxAttempts,    \* MAX_ATTEMPTS of process_historical_events (50)
    MaxRequests,    \* bound: requests handled
    MaxFaults,      \* bound: queries that fail
    NoLimit         \* a filter without limit

ASSUME FeedAssumption ==
    /\ Stored \subseteq Events /\ IsFiniteSet(Events) /\ Events # {}
    /\ MaxLimit \in Nat \ {0} /\ MaxSubscriptions \in Nat \ {0}
    /\ MaxAttempts \in Nat \ {0}
    /\ MaxRequests \in Nat /\ MaxFaults \in Nat
    /\ \A fs \in FilterLists :
          /\ fs \in Seq(ToSet(fs)) /\ fs # <<>>
          /\ \A i \in DOMAIN fs : fs[i].limit = NoLimit \/ fs[i].limit \in Nat \ {0}
    /\ \A e \in Events : e.at \in Nat /\ e.id \in Nat /\ e.visible \in BOOLEAN
    /\ \A e, f \in Events : e.id = f.id => e = f

VARIABLES
    db,        \* events stored
    out,       \* messages ever put into the channel: [src, event, nr, filter]
    unread,    \* how many of them are still in the channel
    req,       \* the request in progress: [pc, filters, i, until, sent, last, attempts]
    sentEvents,\* sent_events of the request
    live,      \* filters of the registered subscription, <<>> when there is none
    pub,       \* publishers: [pc, event]
    requests, faults,
    before,    \* history: the database when the request began
    missed,    \* history: events distributed before it was in force, or
               \* when there was no room
    edges,     \* history: per filter, timestamps at which a page ended
    cut        \* history: filters given up before the limit or the last event

feedVars == <<db, out, unread, req, sentEvents, live, pub, requests, faults,
              before, missed, edges, cut>>
history  == <<before, missed, edges, cut>>

(* RelayConfig::calculate_channel_size *)
ChannelSize == MaxSubscriptions * (MaxLimit + 5)

Never == -1     \* no timestamp (Option::None)
Now   == Max({e.at : e \in Events})
Idle  == [pc |-> "idle", filters |-> <<>>, i |-> 1, until |-> Now, sent |-> 0,
          last |-> Never, attempts |-> 0]

(* Types; the channel and the pages stay within their bounds. *)
FeedTypeOK ==
    /\ Stored \subseteq db /\ db \subseteq Events
    /\ \A n \in DOMAIN out : out[n].src \in {"stored", "eose", "live", "closed"}
    /\ unread \in 0..ChannelSize /\ unread <= Len(out)
    /\ req.pc \in {"idle", "query", "eose", "remove", "add"}
    /\ req.sent \in 0..MaxLimit /\ req.attempts \in 0..MaxAttempts
    /\ sentEvents \subseteq db /\ missed \subseteq db
    /\ live \in FilterLists \cup {<<>>}
    /\ requests \in 0..MaxRequests /\ faults \in 0..MaxFaults

Init ==
    /\ db = Stored /\ out = <<>> /\ unread = 0
    /\ req = Idle /\ sentEvents = {} /\ live = <<>>
    /\ pub = [p \in Publishers |-> [pc |-> "idle"]]
    /\ requests = 0 /\ faults = 0
    /\ before = {} /\ missed = {} /\ edges = <<>> /\ cut = {}

-----------------------------------------------------------------------------
Matches(f, e) == e.kind \in f.kinds
MatchesAny(fs, e) == \E i \in DOMAIN fs : Matches(fs[i], e)

Newer(a, b) == a.at > b.at \/ (a.at = b.at /\ a.id < b.id)
NewestFirst(S) ==
    [n \in 1..Cardinality(S) |->
       CHOOSE e \in S : Cardinality({f \in S : Newer(f, e)}) = n - 1]

OldestOf(times) == IF times = {} THEN Never ELSE Min(times)

Take(s, n) == SubSeq(s, 1, IF Len(s) < n THEN Len(s) ELSE n)

(* The database: the newest events that match, not after until, as many as *)
(* the limit allows.                                                       *)
query(f, until, limit) ==
    ToSet(Take(NewestFirst({e \in db : Matches(f, e) /\ e.at <= until}), limit))

(* MessageSender::send and send_bypass: try_send, nothing if there is no room. *)
Room == ChannelSize - unread

Send(msgs) == LET s == Take(msgs, Room) IN
              out' = out \o s /\ unread' = unread + Len(s)

Message(kind, e, i) == [src |-> kind, event |-> e, nr |-> requests, filter |-> i]

(* The smallest limit of all filters, and at most max_limit, holds for each. *)
Limit(fs) ==
    Min({MaxLimit} \cup ({fs[i].limit : i \in DOMAIN fs} \ {NoLimit}))

-----------------------------------------------------------------------------
HandleReq ==
    /\ req.pc = "idle" /\ requests < MaxRequests
    /\ requests' = requests + 1
    /\ \E fs \in FilterLists :
          /\ req' = [Idle EXCEPT !.pc = "query", !.filters = fs]
          /\ edges' = [i \in DOMAIN fs |-> {}]
    /\ sentEvents' = {} /\ before' = db /\ missed' = {} /\ cut' = {}
    /\ UNCHANGED <<db, out, unread, live, pub, faults>>

(* The next filter, or EOSE after the last one. *)
NextFilter ==
    IF req.i < Len(req.filters)
    THEN [Idle EXCEPT !.pc = "query", !.filters = req.filters, !.i = req.i + 1]
    ELSE [req EXCEPT !.pc = "eose"]

(* Mutant: the next window ends two seconds before the oldest event. *)
NextWindowTwo(ts) == Max({ts - 2, 0})

(* Timestamp subtraction saturates. *)
NextWindow(ts) == Max({ts - 1, 0})

(* Mutant: attempts are not counted. *)
AttemptForgotten(n) == n

Attempt(n) == n + 1

(* Mutant: an event another filter has selected is sent again. *)
FreshAll(page) == page

(* Events of the page that were not sent yet. *)
Fresh(page) == page \ sentEvents

(* One turn of the loop: query, skip what was sent, keep what the client   *)
(* may see, send up to the limit, and move the window.                     *)
Page ==
    LET i == req.i
        limit == Limit(req.filters)
    IN
    /\ req.pc = "query"
    /\ \E page \in {query(req.filters[i], req.until, limit)} :
       \E picks \in {Take(NewestFirst({e \in Fresh(page) : e.visible}), limit - req.sent)} :
       \E sent \in {req.sent + Len(picks)}, tries \in {Attempt(req.attempts)},
          last \in {OldestOf({e.at : e \in Fresh(page)} \cup ({req.last} \ {Never}))} :
          LET over == sent >= limit \/ last = Never \/ tries >= MaxAttempts IN
          /\ page # {}
          /\ sentEvents' = sentEvents \cup ToSet(picks)
          /\ Send([n \in DOMAIN picks |-> Message("stored", picks[n], i)])
          /\ req' = IF over THEN NextFilter
                    ELSE [req EXCEPT !.until = NextWindow(last), !.sent = sent,
                                     !.last = last, !.attempts = tries]
          /\ edges' = IF over THEN edges ELSE [edges EXCEPT ![i] = @ \cup {last}]
          /\ cut' = IF sent < limit /\ last # Never /\ over THEN cut \cup {i} ELSE cut
    /\ UNCHANGED <<db, live, pub, requests, faults, before, missed>>

(* No event is left; the filter is done. *)
LastPage ==
    /\ req.pc = "query"
    /\ query(req.filters[req.i], req.until, Limit(req.filters)) = {}
    /\ req' = NextFilter
    /\ UNCHANGED <<db, out, unread, sentEvents, live, pub, requests, faults, history>>

(* RelayDatabase::query: an index entry without an event ends the filter   *)
(* as if there were no events; any other error ends the request.           *)
QueryFails ==
    /\ req.pc = "query" /\ faults < MaxFaults
    /\ faults' = faults + 1
    /\ \/ req' = NextFilter
       \/ req' = Idle
    /\ cut' = cut \cup {req.i}
    /\ UNCHANGED <<db, out, unread, sentEvents, live, pub, requests, before,
                   missed, edges>>

(* Without room for EOSE the request ends and nothing is subscribed. *)
Eose ==
    /\ req.pc = "eose"
    /\ Send(<<Message("eose", Never, Never)>>)
    /\ req' = IF Room > 0 THEN [req EXCEPT !.pc = "remove"] ELSE Idle
    /\ UNCHANGED <<db, sentEvents, live, pub, requests, faults, history>>

(* add_subscription: the old subscription is removed, then the new added. *)
RemoveOld ==
    /\ req.pc = "remove"
    /\ live' = <<>>
    /\ req' = [req EXCEPT !.pc = "add"]
    /\ UNCHANGED <<db, out, unread, sentEvents, pub, requests, faults, history>>

(* Mutant: only the first filter is subscribed to. *)
AddNewFirst ==
    /\ req.pc = "add"
    /\ live' = <<Head(req.filters)>>
    /\ req' = [req EXCEPT !.pc = "idle"]
    /\ UNCHANGED <<db, out, unread, sentEvents, pub, requests, faults, history>>

AddNew ==
    /\ req.pc = "add"
    /\ live' = req.filters
    /\ req' = [req EXCEPT !.pc = "idle"]
    /\ UNCHANGED <<db, out, unread, sentEvents, pub, requests, faults, history>>

-----------------------------------------------------------------------------
(* The last request was answered and its subscription added. *)
InForce == req.pc = "idle" /\ req.filters # <<>>

SaveEvent(p) ==
    /\ pub[p].pc = "idle"
    /\ \E e \in Events \ db :
          /\ \A q \in Publishers : pub[q].pc = "saved" => pub[q].event # e
          /\ db' = db \cup {e}
          /\ pub' = [pub EXCEPT ![p] = [pc |-> "saved", event |-> e]]
    /\ UNCHANGED <<out, unread, req, sentEvents, live, requests, faults, history>>

(* Who is not subscribed now, or has no room in its channel, misses it.    *)
(* RelayMiddleware::process_outbound drops what the client may not see.    *)
Distribute(p) ==
    LET e == pub[p].event
    IN
    /\ pub[p].pc = "saved"
    /\ pub' = [pub EXCEPT ![p] = [pc |-> "idle"]]
    /\ IF MatchesAny(live, e) /\ e.visible THEN Send(<<Message("live", e, Never)>>)
                           ELSE UNCHANGED <<out, unread>>
    /\ missed' = IF InForce /\ Room > 0 THEN missed ELSE missed \cup {e}
    /\ UNCHANGED <<db, req, sentEvents, live, requests, faults, before, edges,
                   cut>>

(* The outbound task writes a message to the socket. *)
Write ==
    /\ unread > 0 /\ unread' = unread - 1
    /\ UNCHANGED <<db, out, req, sentEvents, live, pub, requests, faults, history>>

Next ==
    \/ HandleReq \/ Page \/ LastPage \/ QueryFails \/ Eose \/ RemoveOld \/ AddNew
    \/ Write
    \/ \E p \in Publishers : SaveEvent(p) \/ Distribute(p)

Spec ==
    /\ Init /\ [][Next]_feedVars
    /\ WF_feedVars(Page) /\ WF_feedVars(LastPage)
    /\ WF_feedVars(Eose) /\ WF_feedVars(RemoveOld) /\ WF_feedVars(AddNew)

-----------------------------------------------------------------------------
(* No stored event is sent twice in the answer to one request, although    *)
(* filters overlap, pages repeat and events are added meanwhile            *)
(* (sent_events of process_historical_events).                             *)
StoredOnce ==
    \A m, n \in DOMAIN out :
       (m # n /\ out[m].src = "stored" /\ out[n].src = "stored" /\ out[m].nr = out[n].nr)
          => out[m].event # out[n].event

(* A request in force has sent, or tried to send, every event stored       *)
(* before it that is among the newest its filter's limit allows and may be *)
(* seen; but for events of the very second a page ended in, and filters    *)
(* given up after MAX_ATTEMPTS or a failed query.                          *)
NewestSent ==
    InForce =>
       \A i \in DOMAIN req.filters \ cut :
          LET all    == NewestFirst({e \in db : Matches(req.filters[i], e) /\ e.visible})
              newest == ToSet(Take(all, Limit(req.filters)))
          IN  {e \in newest \cap before : e.at \notin edges[i]} \subseteq sentEvents

(* Of the events stored since the request came, only those distributed     *)
(* before its subscription was added, or without room in the channel, are  *)
(* lost; the others are sent or about to be distributed.                   *)
LostOnlyInGap ==
    InForce =>
       \A e \in db \ (before \cup missed) :
          (e.visible /\ MatchesAny(req.filters, e)) =>
             \/ \E m \in DOMAIN out : out[m].nr = requests /\ out[m].src # "eose" /\ out[m].event = e
             \/ e \in sentEvents
             \/ \E p \in Publishers : pub[p].pc = "saved" /\ pub[p].event = e

(* handle_req returns whatever is published meanwhile: a window that shows *)
(* only what was sent already is not read for ever.                        *)
RequestEnds == (req.pc # "idle") ~> (req.pc = "idle")
=============================================================================
