------------------------------- MODULE Session -------------------------------
(***************************************************************************)
(* What the relay does with each message of a client: EventIngester and    *)
(* NostrConnection::on_message, the middleware chain that RelayBuilder     *)
(* puts together, NIP-42, NIP-70, NIP-40 and rate limiting, the message    *)
(* handlers of RelayMiddleware with the quota, the authenticated key and   *)
(* the negentropy sessions of NostrConnectionState, and the reply that     *)
(* ErrorHandlingMiddleware makes of an error.                              *)
(*                                                                         *)
(* A connection handles one message after the other, so a message is one   *)
(* step here; what happens inside a REQ and inside the store is the        *)
(* subject of RequestFeed and EventStore.  What the event processor and    *)
(* the database answer is left open: it is the outcome a step is given.    *)
(***************************************************************************)
EXTENDS Naturals, Sequences, SequencesExt, FiniteSets, Scopes

CONSTANTS
    Conns,          \* client addresses
    Host,           \* [Conns -> host in the request's Host header]
    RelayUrl,       \* RelayConfig::relay_url
    ScopeConfig,    \* RelayConfig::scope_config
    EnableAuth,     \* RelayConfig::enable_auth
    EnableMetrics,  \* RelayBuilder::metrics was called
    WithoutDefaults,\* RelayBuilder::without_defaults was called
    Custom,         \* middlewares added by build_with, first to last
    MaxSubscriptions,
    Messages,       \* what clients send: records with a type
    ProcessorErrors,\* errors the event processor may return: [kind, id]
    Capacity,       \* messages the outbound channel holds
    Burst, GlobalBurst, \* rate limits, per connection and in total
    AuthAge,        \* age at which an AUTH event is refused (600 s)
    MaxClock,       \* bound: seconds that pass
    MaxConnects     \* bound: sessions opened

Nobody == "nobody"      \* no key, no message id

(* A URL as Scopes has it. *)
Url == [host : Seq(STRING), rest : STRING]

(* The variants of Error that are answered in different ways; EventError   *)
(* and SubscriptionError carry an id of their own.                         *)
ErrorKinds ==
    {"restricted", "auth", "duplicate", "notice", "event", "subscription", "other"}

(***************************************************************************)
(* An IP address is not a subdomain of the relay's host, and no client has *)
(* the key or the ids that stand for none.                                 *)
(***************************************************************************)
ASSUME SessionAssumption ==
    /\ MaxSubscriptions \in Nat \ {0} /\ Capacity \in Nat \ {0}
    /\ Burst \in Nat /\ GlobalBurst \in Nat /\ AuthAge \in Nat
    /\ MaxClock \in Nat /\ MaxConnects \in Nat
    /\ {EnableAuth, EnableMetrics, WithoutDefaults} \subseteq BOOLEAN
    /\ Custom \in Seq({"nip40", "nip70", "ratelimit"})
    /\ RelayUrl \in Url
    /\ \A a \in Addresses : SameBase(a, RelayUrl.host) => a = RelayUrl.host
    /\ ProcessorErrors # {} /\ \A e \in ProcessorErrors : e.kind \in ErrorKinds
    /\ \A m \in Messages :
          /\ "type" \in DOMAIN m
          /\ m.type = "EVENT" => m.event.id # Nobody
          /\ m.type = "AUTH" =>
                m.auth.id # Nobody /\ m.auth.key # Nobody /\ m.auth.url \in Url
          /\ m.type = "REQ" => m.sub # Nobody

VARIABLES
    session,    \* [Conns -> the state of the connection]
    db,         \* stored: [scope, event, by], by the key that stored it
    tokens, globalTokens,   \* rate limiters
    clock,
    connects,   \* sessions opened so far
    grants      \* history: AUTH events accepted: [nr, auth]

vars == <<session, db, tokens, globalTokens, clock, connects, grants>>

NoError == "none"
Never == 100            \* an event that does not expire

(* NostrConnectionState and ConnectionMetadata. *)
Closed == [open |-> FALSE, nr |-> 0, scope |-> Default, challenge |-> 0,
           authed |-> Nobody, ctx |-> Nobody, registered |-> FALSE,
           quota |-> {}, subs |-> {}, neg |-> {}, unread |-> 0]

(* RelayBuilder::build_with: the chain, outermost first. *)
Chain ==
    LET metrics  == <<IF EnableMetrics THEN "metrics" ELSE "identity">>
        defaults == IF WithoutDefaults THEN <<"identity", "identity", "identity">>
                    ELSE <<"logger", "errors", IF EnableAuth THEN "auth" ELSE "identity">>
    IN  defaults \o metrics \o Reverse(Custom) \o <<"relay">>

HasAuth == "auth" \in ToSet(Chain)

(* Types; nothing of a session outlives it. *)
SessionTypeOK ==
    /\ \A c \in Conns :
          LET s == session[c] IN
          /\ DOMAIN s = DOMAIN Closed
          /\ s.unread \in 0..Capacity
          /\ s.nr \in 0..connects /\ s.challenge \in 0..s.nr
          /\ ~s.open => s = Closed
    /\ tokens \in [Conns -> 0..Burst] /\ globalTokens \in 0..GlobalBurst
    /\ clock \in 0..MaxClock /\ connects \in 0..MaxConnects

Init ==
    /\ session = [c \in Conns |-> Closed]
    /\ db = {}
    /\ tokens = [c \in Conns |-> Burst] /\ globalTokens = GlobalBurst
    /\ clock = 0 /\ connects = 0 /\ grants = <<>>

-----------------------------------------------------------------------------
(* The work on one message.  Middlewares change the record w: the session  *)
(* s, the stored events, the tokens left, the replies said; err is the     *)
(* error returned, over that the chain is not followed further, and mid    *)
(* the message id that ErrorHandlingMiddleware keeps.                      *)

Ok(id, status)  == [type |-> "ok", id |-> id, status |-> status]
ClosedMsg(id)   == [type |-> "closed", id |-> id, status |-> FALSE]
Other(type, id) == [type |-> type, id |-> id, status |-> FALSE]

(* MessageSender::send: what does not fit into the channel is dropped. *)
HasRoom(w) == w.s.unread < Capacity

Reply(w, r) ==
    [w EXCEPT !.said = Append(@, r), !.s.unread = IF HasRoom(w) THEN @ + 1 ELSE @]

Fail(w, error) == [w EXCEPT !.err = error, !.over = TRUE]

(* ErrorHandlingMiddleware::process_inbound, before next. *)
MessageId(msg) ==
    CASE msg.type = "EVENT" -> msg.event.id
      [] msg.type = "AUTH"  -> msg.auth.id
      [] msg.type = "COUNT" -> Nobody
      [] OTHER -> msg.sub
AnswersOk(msg) == msg.type \in {"EVENT", "AUTH"}

errors(w) == [w EXCEPT !.mid = MessageId(w.msg), !.caught = TRUE]

(* A NOTICE, an OK or a CLOSED, by error and message.  The errors "event"  *)
(* and "subscription" are the processor's, with the id it gave them.       *)
ErrorReply(w) ==
    CASE w.err = "notice"       -> Other("notice", Nobody)
      [] w.err = "event"        -> Ok(w.error.id, FALSE)
      [] w.err = "subscription" -> ClosedMsg(w.error.id)
      [] OTHER -> IF AnswersOk(w.msg) THEN Ok(w.mid, FALSE) ELSE ClosedMsg(w.mid)

(* Mutant: errors without a prefix of their own are only logged. *)
handle_inbound_error_known(w) == IF w.err = "other" THEN w ELSE Reply(w, ErrorReply(w))

handle_inbound_error(w) == Reply(w, ErrorReply(w))

(* RateLimitMiddleware: the global limit is charged first. *)
ratelimit(w) ==
    IF w.global = 0 THEN Fail(w, "restricted")
    ELSE IF w.own = 0 THEN Fail([w EXCEPT !.global = @ - 1], "restricted")
    ELSE [w EXCEPT !.global = @ - 1, !.own = @ - 1]

(* Nip40ExpirationMiddleware: an expired event is deleted, and passed on. *)
nip40(w) ==
    IF w.msg.type = "EVENT" /\ w.msg.event.expires < clock /\ w.deletes
    THEN [w EXCEPT !.db = {x \in @ : x.scope # w.s.scope \/ x.event.id # w.msg.event.id}]
    ELSE w

(* Mutant: any authenticated client may publish a protected event. *)
nip70_authed(w) ==
    IF w.msg.type # "EVENT" \/ ~w.msg.event.protected THEN w
    ELSE IF w.s.authed = Nobody THEN Fail(w, "auth") ELSE w

(* Nip70Middleware: a protected event comes from its author or not at all. *)
nip70(w) ==
    IF w.msg.type # "EVENT" \/ ~w.msg.event.protected THEN w
    ELSE IF w.s.authed = Nobody THEN Fail(w, "auth")
    ELSE IF w.s.authed # w.msg.event.author
         THEN [Reply(w, Ok(w.msg.event.id, FALSE)) EXCEPT !.over = TRUE]
    ELSE w

-----------------------------------------------------------------------------
(* NIP-42 *)

(* Mutant: an AUTH event without a challenge tag passes. *)
ChallengeMatchesIfAny(s, a) == s.challenge # 0 /\ a.challenge \in {0, s.challenge}

(* A challenge is pending (0 is none) and it is the one in the event. *)
ChallengeMatches(s, a) == s.challenge # 0 /\ a.challenge = s.challenge

(* The relay tag is there and names this relay and scope. *)
RelayMatches(s, a) ==
    a.url.host # NoHost /\ validate_relay_url(a.url, RelayUrl, s.scope, TRUE)

AuthFresh(a) == a.at + AuthAge >= clock

AuthAccepted(s, a) ==
    /\ a.kind = "auth" /\ a.signed
    /\ ChallengeMatches(s, a) /\ RelayMatches(s, a) /\ AuthFresh(a)

(* Mutant: the challenge stays. *)
set_authenticated_keeps(s, key) == [s EXCEPT !.authed = key, !.ctx = key]

set_authenticated(s, key) ==
    [s EXCEPT !.authed = key, !.ctx = key, !.challenge = 0]

(* Nip42Middleware::process_inbound: a refusal is answered and is also an  *)
(* error, which ErrorHandlingMiddleware answers once more.                 *)
auth(w) ==
    IF w.msg.type # "AUTH" THEN w
    ELSE IF AuthAccepted(w.s, w.msg.auth)
    THEN [Reply([w EXCEPT !.s = set_authenticated(@, w.msg.auth.key)],
                Ok(w.msg.auth.id, TRUE)) EXCEPT !.over = TRUE]
    ELSE Fail(Reply(w, Ok(w.msg.auth.id, FALSE)), "auth")

-----------------------------------------------------------------------------
(* RelayMiddleware *)

(* handle_event: the event processor's verdict, whatever error it returns, *)
(* then the store's answer.                                                *)
(* The store replies itself, and its failure is an error besides.          *)
handle_event(w) ==
    LET e == w.msg.event IN
    CASE w.verdict = "reject" -> Fail(w, w.error.kind)
      [] w.verdict = "ignore" -> w
      [] w.verdict = "save" /\ w.stored ->
            Reply([w EXCEPT !.db = @ \cup {[scope |-> w.s.scope, event |-> e, by |-> w.s.authed]}],
                  Ok(e.id, TRUE))
      [] w.verdict = "save" /\ ~w.stored -> Fail(Reply(w, Ok(e.id, FALSE)), "other")

(* Mutant: the quota is compared after the slot is counted. *)
CanReserveOneMore(s, sub) ==
    sub \in s.quota \/ Cardinality(s.quota) <= MaxSubscriptions

CanReserve(s, sub) == sub \in s.quota \/ Cardinality(s.quota) < MaxSubscriptions

(* handle_subscription: filters, quota, stored events, EOSE, subscription. *)
(* The slot stays reserved when a later part fails.                        *)
handle_subscription(w) ==
    LET reserved == [w EXCEPT !.s.quota = @ \cup {w.msg.sub}]
        sent == Reply(reserved, Other("eose", w.msg.sub))
    IN
    CASE w.verdict = "reject" -> Fail(w, w.error.kind)
      [] w.verdict # "reject" /\ ~CanReserve(w.s, w.msg.sub) -> Fail(w, "restricted")
      [] OTHER ->
            IF ~w.stored THEN Fail(reserved, "notice")
            ELSE IF ~HasRoom(w) THEN Fail(reserved, "other")
            ELSE IF ~w.s.registered THEN Fail(sent, "other")
            ELSE [sent EXCEPT !.s.subs = @ \cup {w.msg.sub}]

release_quota_slot(s, sub) == [s EXCEPT !.quota = @ \ {sub}]

(* CLOSE: release_quota_slot, remove_subscription. *)
handle_close(w) ==
    LET released == release_quota_slot(w.s, w.msg.sub)
    IN  [w EXCEPT !.s = [released EXCEPT !.subs = @ \ {w.msg.sub}]]

(* Whatever goes wrong is answered with NEG-ERR.  The message of a         *)
(* NEG-OPEN is emptied by the ingester, and an empty one does not          *)
(* reconcile.                                                              *)
Reconciles(text) == text = "query"

handle_neg_open(w) ==
    IF w.stored /\ Reconciles(w.msg.text) /\ HasRoom(w)
    THEN Reply([w EXCEPT !.s.neg = @ \cup {w.msg.sub}], Other("neg-msg", w.msg.sub))
    ELSE Reply(w, Other("neg-err", w.msg.sub))

handle_neg_msg(w) ==
    IF w.msg.sub \in w.s.neg /\ Reconciles(w.msg.text) /\ HasRoom(w)
    THEN Reply(w, Other("neg-msg", w.msg.sub))
    ELSE Reply(w, Other("neg-err", w.msg.sub))

handle_neg_close(w) == [w EXCEPT !.s.neg = @ \ {w.msg.sub}]

(* AUTH passes when nobody asked for it, COUNT is refused. *)
unsupported(w) == IF w.msg.type = "AUTH" THEN w ELSE Fail(w, "notice")

(* RelayMiddleware::process_inbound *)
relay(w) ==
    CASE w.msg.type = "EVENT"     -> handle_event(w)
      [] w.msg.type = "REQ"       -> handle_subscription(w)
      [] w.msg.type = "CLOSE"     -> handle_close(w)
      [] w.msg.type = "NEG-OPEN"  -> handle_neg_open(w)
      [] w.msg.type = "NEG-MSG"   -> handle_neg_msg(w)
      [] w.msg.type = "NEG-CLOSE" -> handle_neg_close(w)
      [] OTHER -> unsupported(w)

-----------------------------------------------------------------------------
(* IdentityMiddleware, and what logger and metrics come to. *)
identity(w) == w

(* Through the chain, outermost first, until one does not call next. *)
Process(w, middleware) ==
    IF w.over THEN w
    ELSE CASE middleware = "errors"    -> errors(w)
           [] middleware = "auth"      -> auth(w)
           [] middleware = "nip40"     -> nip40(w)
           [] middleware = "nip70"     -> nip70(w)
           [] middleware = "ratelimit" -> ratelimit(w)
           [] middleware = "relay"     -> relay(w)
           [] OTHER -> identity(w)

process_inbound_chain(w) ==
    LET through[i \in 0..Len(Chain)] ==
          IF i = 0 THEN w ELSE Process(through[i - 1], Chain[i])
        done == through[Len(Chain)]
    IN  IF done.err # NoError /\ done.caught /\ done.mid # Nobody
        THEN handle_inbound_error(done) ELSE done

(* EventIngester: EVENT signatures are checked, NEG-OPEN loses its text. *)
Parses(msg) == msg.type # "garbage" /\ (msg.type = "EVENT" => msg.event.signed)
Ingested(msg) == IF msg.type = "NEG-OPEN" THEN [msg EXCEPT !.text = ""] ELSE msg

(* What the event processor decides, who is asked about an EVENT and the   *)
(* filters of a REQ, with the error if it refuses (any, if it does not),   *)
(* and whether the database succeeds, in storing or reading and in the     *)
(* deletion that Nip40ExpirationMiddleware asks for.                       *)
Outcomes(msg) ==
    {o \in [verdict : IF msg.type \in {"EVENT", "REQ"} THEN {"save", "reject", "ignore"} ELSE {"save"},
            error   : ProcessorErrors,
            stored  : IF msg.type \in {"EVENT", "REQ", "NEG-OPEN"} THEN BOOLEAN ELSE {TRUE},
            deletes : IF msg.type = "EVENT" /\ msg.event.expires # Never THEN BOOLEAN ELSE {TRUE}] :
       o.verdict # "reject" => o.error = CHOOSE e \in ProcessorErrors : TRUE}

(* A message that parses, through the chain. *)
Handled(c, msg, o) ==
    process_inbound_chain(
       [msg |-> Ingested(msg), verdict |-> o.verdict, error |-> o.error,
        stored |-> o.stored, deletes |-> o.deletes,
        s |-> session[c], db |-> db, own |-> tokens[c], global |-> globalTokens,
        err |-> NoError, over |-> FALSE, mid |-> Nobody, caught |-> FALSE,
        said |-> <<>>])

(* NostrConnection::on_message *)
OnMessage(c) ==
    /\ session[c].open
    /\ \E msg \in {m \in Messages : Parses(m)} : \E o \in Outcomes(msg) :
       \E w \in {Handled(c, msg, o)} :
          /\ session' = [session EXCEPT ![c] = w.s]
          /\ db' = w.db
          /\ tokens' = [tokens EXCEPT ![c] = w.own] /\ globalTokens' = w.global
          /\ grants' = IF w.s.authed # session[c].authed
                       THEN Append(grants, [nr |-> w.s.nr, auth |-> msg.auth]) ELSE grants
    /\ UNCHANGED <<clock, connects>>

(* What does not parse, or is not signed, is answered at once, with a      *)
(* NOTICE or an OK; the task waits until there is room in the channel.     *)
OnBadMessage(c) ==
    /\ session[c].open /\ session[c].unread < Capacity
    /\ \E msg \in Messages : ~Parses(msg)
    /\ session' = [session EXCEPT ![c].unread = @ + 1]
    /\ UNCHANGED <<db, tokens, globalTokens, clock, connects, grants>>

(* on_connect of the handler: state and metadata of a new session. *)
NewSession(c, nr) ==
    [Closed EXCEPT !.open = TRUE, !.nr = nr, !.scope = create_scope(ScopeConfig, Host[c])]

(* A challenge is a random number; here they differ. *)
get_challenge_event(s, random) ==
    [s EXCEPT !.challenge = IF @ # 0 THEN @ ELSE random]

(* Nip42Middleware::on_connect: the challenge is the first message sent. *)
nip42_on_connect(s, random) == [get_challenge_event(s, random) EXCEPT !.unread = @ + 1]

(* NostrConnectionState::setup_connection registers the connection. *)
setup_connection(s) == [s EXCEPT !.registered = TRUE]

(* on_connect through the chain: Nip42Middleware, and innermost            *)
(* RelayMiddleware.                                                        *)
Connect(c) ==
    /\ ~session[c].open /\ connects < MaxConnects
    /\ connects' = connects + 1
    /\ LET s == NewSession(c, connects + 1) IN
       session' = [session EXCEPT ![c] =
          setup_connection(IF HasAuth THEN nip42_on_connect(s, connects + 1) ELSE s)]
    /\ UNCHANGED <<db, tokens, globalTokens, clock, grants>>

(* on_disconnect: cleanup_connection; the state goes with the session. *)
Disconnect(c) ==
    /\ session[c].open
    /\ session' = [session EXCEPT ![c] = Closed]
    /\ UNCHANGED <<db, tokens, globalTokens, clock, connects, grants>>

(* The outbound task empties the channel. *)
Drain(c) ==
    /\ session[c].unread > 0
    /\ session' = [session EXCEPT ![c].unread = 0]
    /\ UNCHANGED <<db, tokens, globalTokens, clock, connects, grants>>

(* A publisher finds the channel full: distribute_event_indexed sends or   *)
(* unregisters.                                                            *)
Distribute(c) ==
    /\ session[c].registered /\ session[c].subs # {}
    /\ LET s == session[c] IN
       session' = [session EXCEPT ![c] =
          IF s.unread < Capacity THEN [s EXCEPT !.unread = @ + 1]
          ELSE [s EXCEPT !.registered = FALSE, !.subs = {}]]
    /\ UNCHANGED <<db, tokens, globalTokens, clock, connects, grants>>

(* Time passes; the limiters refill. *)
Tick ==
    /\ clock < MaxClock /\ clock' = clock + 1
    /\ tokens' = [c \in Conns |-> Burst] /\ globalTokens' = GlobalBurst
    /\ UNCHANGED <<session, db, connects, grants>>

Next ==
    \/ \E c \in Conns : Connect(c) \/ Disconnect(c) \/ Drain(c) \/ Distribute(c)
                        \/ OnMessage(c) \/ OnBadMessage(c)
    \/ Tick

Spec == Init /\ [][Next]_vars

-----------------------------------------------------------------------------
(* The host an AUTH event has to name; a local relay has no subdomains.    *)
AuthHost(scope) ==
    IF IsLocal(RelayUrl) THEN RelayUrl.host ELSE scope \o RelayUrl.host

(* A session holds a key only by an AUTH event signed with it, made for    *)
(* this session's challenge and for the relay's host in this session's     *)
(* scope; the key the event processor sees (event_context) is the same.    *)
AuthBound ==
    \A c \in Conns :
       LET s == session[c] IN
       /\ s.ctx = s.authed
       /\ s.authed # Nobody =>
             \E i \in DOMAIN grants :
                LET a == grants[i].auth IN
                /\ grants[i].nr = s.nr /\ a.key = s.authed /\ a.signed
                /\ a.challenge = s.nr /\ a.url.host = AuthHost(s.scope)

(* An AUTH event is accepted once, whoever repeats it and whenever: not    *)
(* again in its session, and not in a later one at the same address.       *)
NoReplay ==
    \A i, j \in DOMAIN grants : grants[i].auth = grants[j].auth => i = j

(* Once authenticated a session keeps its key until it ends.               *)
KeyFixed ==
    [][\A c \in Conns :
          (session[c].authed # Nobody /\ session'[c].nr = session[c].nr)
             => session'[c].authed = session[c].authed]_vars

(* With Nip70Middleware in the chain a protected event is stored for no    *)
(* one but its author, in whatever order AUTH and EVENT come.              *)
ProtectedByAuthor ==
    "nip70" \in ToSet(Custom) =>
       \A x \in db : x.event.protected => x.by = x.event.author

(* Every registered subscription has its quota slot and there are no more  *)
(* slots than allowed, through replacements, failed REQs, CLOSEs and the   *)
(* clean-up of a slow connection.                                          *)
QuotaHolds ==
    \A c \in Conns :
       /\ session[c].subs \subseteq session[c].quota
       /\ Cardinality(session[c].quota) <= MaxSubscriptions

(* An answer said to the client. *)
Says(w, types, id) == \E i \in DOMAIN w.said : w.said[i].type \in types /\ w.said[i].id = id

(* What an error of the event processor says that does not go by the       *)
(* message: a NOTICE, or an OK or CLOSED for the id in the error.          *)
OwnReply(w, e) ==
    \/ e.kind = "notice" /\ Says(w, {"notice"}, Nobody)
    \/ e.kind = "event" /\ Says(w, {"ok"}, e.id)
    \/ e.kind = "subscription" /\ Says(w, {"closed"}, e.id)

(* In every state, an EVENT, AUTH or REQ that reaches                      *)
(* ErrorHandlingMiddleware gets an answer that names it, whatever fails    *)
(* behind it, but in three cases: the event processor swallows the event;  *)
(* it refuses with an error that has a reply of its own, which is then     *)
(* said; the database fails a REQ, which is a NOTICE.  (An answer that     *)
(* finds the channel full is made and dropped.)                            *)
Answered ==
    \A c \in {d \in Conns : session[d].open},
       msg \in {m \in Messages : m.type \in {"EVENT", "AUTH", "REQ"} /\ Parses(m)} :
       \A o \in Outcomes(msg) :
          LET w == Handled(c, msg, o)
              refused == o.verdict = "reject" /\ OwnReply(w, o.error)
          IN
          w.caught =>
             CASE msg.type = "EVENT" ->
                     Says(w, {"ok"}, msg.event.id) \/ o.verdict = "ignore" \/ refused
               [] msg.type = "AUTH" -> Says(w, {"ok"}, msg.auth.id) \/ ~HasAuth
               [] msg.type = "REQ" ->
                     \/ Says(w, {"eose", "closed"}, msg.sub) \/ refused
                     \/ ~o.stored /\ Says(w, {"notice"}, Nobody)
=============================================================================
