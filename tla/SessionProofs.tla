---------------------------- MODULE SessionProofs ----------------------------
(***************************************************************************)
(* Theorems about Session, for every chain of middlewares that RelayBuilder *)
(* can put together and every message: the key a session holds, its quota, *)
(* protected events, and the answers.                                      *)
(***************************************************************************)
EXTENDS Session, SequenceFacts, FiniteSetTheorems

(* The records of the work on a message and of a session. *)
WorkFields == {"msg", "verdict", "error", "stored", "deletes", "s", "db", "own", "global", "err",
               "over", "mid", "caught", "said"}
SessionFields == {"open", "nr", "scope", "challenge", "authed", "ctx", "registered", "quota",
                  "subs", "neg", "unread"}

Verdicts == {"save", "reject", "ignore"}
Replies(msg) == [type : {"ok", "closed", "notice", "eose", "neg-msg", "neg-err"},
                 id : {Nobody, MessageId(msg)} \cup {e.id : e \in ProcessorErrors},
                 status : BOOLEAN]

(* QuotaHolds, of one session; and the room in its channel. *)
Slots(s) ==
    /\ s.subs \subseteq s.quota /\ IsFiniteSet(s.quota)
    /\ Cardinality(s.quota) <= MaxSubscriptions
    /\ s.unread \in 0..Capacity

(* The work on a message, at every point of the chain. *)
Good(w) ==
    /\ DOMAIN w = WorkFields /\ DOMAIN w.s = SessionFields
    /\ Slots(w.s)
    /\ w.own \in 0..Burst /\ w.global \in 0..GlobalBurst
    /\ w.verdict \in Verdicts /\ w.error \in ProcessorErrors /\ w.stored \in BOOLEAN
    /\ w.said \in Seq(Replies(w.msg))
    /\ w.over \in BOOLEAN /\ w.caught \in BOOLEAN

(* What no middleware changes. *)
SameInput(w, v) ==
    /\ v.msg = w.msg /\ v.verdict = w.verdict /\ v.error = w.error /\ v.stored = w.stored
    /\ v.s.open = w.s.open /\ v.s.nr = w.s.nr /\ v.s.scope = w.s.scope
    /\ v.s.registered = w.s.registered

SameKey(s, r) == r.authed = s.authed /\ r.ctx = s.ctx /\ r.challenge = s.challenge

(* What was said stays when more is said. *)
Longer(w, v) == \A i \in DOMAIN w.said : i \in DOMAIN v.said /\ v.said[i] = w.said[i]

(* The errors that are not answered by the message's id, and where they    *)
(* come from: a processor's refusal, the database under a REQ, or a        *)
(* message that no one answers by its id.                                  *)
OwnKinds == {"notice", "event", "subscription"}
Allowed(w, error) ==
    error \in OwnKinds =>
       \/ w.msg.type \in {"EVENT", "REQ"} /\ w.verdict = "reject" /\ error = w.error.kind
       \/ error = "notice" /\ w.msg.type = "REQ" /\ ~w.stored
       \/ error = "notice" /\ w.msg.type \notin {"EVENT", "AUTH", "REQ"}

(* Where the chain ends early there is an error, or an OK was said. *)
Reason(v) ==
    /\ v.over => \/ v.err # NoError
                 \/ v.msg.type = "EVENT" /\ Says(v, {"ok"}, v.msg.event.id)
                 \/ v.msg.type = "AUTH" /\ Says(v, {"ok"}, v.msg.auth.id)
    /\ ~v.over => v.err = NoError
    /\ Allowed(v, v.err)

(* What every middleware does with w that comes to it. *)
Turn(w, v) == Good(v) /\ SameInput(w, v) /\ Longer(w, v) /\ Reason(v)

SameMark(w, v) == v.mid = w.mid /\ v.caught = w.caught

-----------------------------------------------------------------------------
(* MessageSender::send adds one answer and changes nothing else. *)
LEMMA ReplyDoes ==
    ASSUME NEW w, Good(w), NEW r \in Replies(w.msg)
    PROVE  /\ Good(Reply(w, r)) /\ SameInput(w, Reply(w, r)) /\ Longer(w, Reply(w, r))
           /\ SameKey(w.s, Reply(w, r).s) /\ SameMark(w, Reply(w, r))
           /\ Reply(w, r).s.neg = w.s.neg /\ Reply(w, r).s.subs = w.s.subs
           /\ Reply(w, r).s.quota = w.s.quota
           /\ Reply(w, r).err = w.err /\ Reply(w, r).over = w.over /\ Reply(w, r).db = w.db
           /\ Says(Reply(w, r), {r.type}, r.id)
<1> DEFINE v == Reply(w, r)
<1>1. /\ DOMAIN v = WorkFields /\ DOMAIN v.s = SessionFields /\ SameInput(w, v)
      /\ SameKey(w.s, v.s) /\ SameMark(w, v)
      /\ v.s.neg = w.s.neg /\ v.s.subs = w.s.subs /\ v.s.quota = w.s.quota
      /\ v.err = w.err /\ v.over = w.over /\ v.db = w.db /\ v.own = w.own /\ v.global = w.global
      /\ v.said = Append(w.said, r)
      /\ v.s.unread = IF HasRoom(w) THEN w.s.unread + 1 ELSE w.s.unread
  BY DEF Good, Reply, WorkFields, SessionFields, SameInput, SameKey, SameMark
<1> HIDE DEF v
<1>2. v.s.unread \in 0..Capacity
  <2>1. Capacity \in Nat /\ w.s.unread \in 0..Capacity
    BY SessionAssumption DEF Good, Slots
  <2>2. CASE HasRoom(w)
    BY <1>1, <2>1, <2>2 DEF HasRoom
  <2>3. CASE ~HasRoom(w)
    BY <1>1, <2>1, <2>3
  <2> QED
    BY <2>2, <2>3
<1>3. /\ v.said \in Seq(Replies(v.msg)) /\ Len(w.said) \in Nat /\ DOMAIN w.said = 1..Len(w.said)
      /\ DOMAIN v.said = 1..(Len(w.said) + 1) /\ v.said[Len(w.said) + 1] = r
      /\ \A i \in 1..Len(w.said) : v.said[i] = w.said[i]
  BY <1>1 DEF Good, SameInput
<1>4. Longer(w, v)
  BY <1>3 DEF Longer
<1>5. Says(v, {r.type}, r.id)
  <2>1. Len(w.said) + 1 \in DOMAIN v.said
    BY <1>3
  <2> QED
    BY <1>3, <2>1 DEF Says
<1>6. Good(v)
  <2>1. Slots(v.s)
    BY <1>1, <1>2 DEF Good, Slots
  <2>2. /\ v.over \in BOOLEAN /\ v.caught \in BOOLEAN /\ v.verdict \in Verdicts /\ v.stored \in BOOLEAN
        /\ v.error \in ProcessorErrors
    BY <1>1 DEF Good, SameInput, SameMark
  <2> QED
    BY <1>1, <1>3, <2>1, <2>2 DEF Good
<1> QED
  BY <1>1, <1>4, <1>5, <1>6 DEF v

(* An error ends the chain. *)
LEMMA FailDoes ==
    ASSUME NEW w, Good(w), NEW error, error # NoError,
           error \notin OwnKinds \/ Allowed(w, error)
    PROVE  /\ Turn(w, Fail(w, error)) /\ Fail(w, error).over
           /\ SameKey(w.s, Fail(w, error).s) /\ SameMark(w, Fail(w, error))
           /\ Fail(w, error).db = w.db
  BY DEF Good, Fail, Turn, WorkFields, SessionFields, SameInput, SameKey, SameMark, Longer, Reason, Allowed, OwnKinds, Slots

(* More is said, and never less. *)
LEMMA SaysLonger ==
    ASSUME NEW w, NEW v, Longer(w, v), NEW types, NEW id, Says(w, types, id)
    PROVE  Says(v, types, id)
  BY DEF Longer, Says

LEMMA TurnTwice ==
    ASSUME NEW w, NEW u, NEW v, SameInput(w, u), Longer(w, u), Turn(u, v)
    PROVE  Turn(w, v)
  BY DEF Turn, SameInput, Longer

-----------------------------------------------------------------------------
(* The middlewares, one by one. *)
Fresh(w) == Good(w) /\ ~w.over /\ w.err = NoError

(* A middleware that passes everything on. *)
LEMMA IdentityTurn ==
    ASSUME NEW w, Fresh(w)
    PROVE  Turn(w, w)
  BY DEF Fresh, Turn, SameInput, Longer, Reason, Allowed, OwnKinds, NoError

LEMMA ErrorsTurn ==
    ASSUME NEW w, Fresh(w)
    PROVE  /\ Turn(w, errors(w)) /\ SameKey(w.s, errors(w).s) /\ errors(w).db = w.db
           /\ errors(w).caught /\ errors(w).mid = MessageId(w.msg)
<1> DEFINE v == errors(w)
<1>1. /\ DOMAIN v = WorkFields /\ v.s = w.s /\ v.msg = w.msg /\ v.verdict = w.verdict
      /\ v.error = w.error /\ v.stored = w.stored /\ v.own = w.own /\ v.global = w.global /\ v.said = w.said
      /\ v.db = w.db /\ v.err = w.err /\ v.over = w.over
      /\ v.caught = TRUE /\ v.mid = MessageId(w.msg)
  BY DEF Fresh, Good, errors, WorkFields
<1> HIDE DEF v
<1>2. Good(v)
  BY <1>1 DEF Fresh, Good
<1> QED
  BY <1>1, <1>2 DEF Fresh, Turn, SameInput, Longer, Reason, Allowed, OwnKinds, SameKey, NoError, v

LEMMA RateLimitTurn ==
    ASSUME NEW w, Fresh(w)
    PROVE  /\ Turn(w, ratelimit(w)) /\ SameKey(w.s, ratelimit(w).s) /\ ratelimit(w).db = w.db
           /\ SameMark(w, ratelimit(w))
<1>0. Burst \in Nat /\ GlobalBurst \in Nat /\ Good(w) /\ w.own \in 0..Burst /\ w.global \in 0..GlobalBurst
  BY SessionAssumption DEF Fresh, Good
<1>1. "restricted" # NoError /\ "restricted" \notin OwnKinds
  BY DEF NoError, OwnKinds
<1>2. CASE w.global = 0
  BY <1>0, <1>1, <1>2, FailDoes DEF ratelimit
<1>3. CASE w.global # 0
  <2> DEFINE u == [w EXCEPT !.global = @ - 1]
             v == [w EXCEPT !.global = @ - 1, !.own = @ - 1]
  <2>1. /\ DOMAIN u = WorkFields /\ u.s = w.s /\ u.msg = w.msg /\ u.verdict = w.verdict
        /\ u.error = w.error /\ u.stored = w.stored /\ u.own = w.own /\ u.global = w.global - 1 /\ u.said = w.said
        /\ u.db = w.db /\ u.err = w.err /\ u.over = w.over /\ u.caught = w.caught /\ u.mid = w.mid
    BY DEF Fresh, Good, WorkFields
  <2>2. /\ DOMAIN v = WorkFields /\ v.s = w.s /\ v.msg = w.msg /\ v.verdict = w.verdict
        /\ v.error = w.error /\ v.stored = w.stored /\ v.own = w.own - 1 /\ v.global = w.global - 1 /\ v.said = w.said
        /\ v.db = w.db /\ v.err = w.err /\ v.over = w.over /\ v.caught = w.caught /\ v.mid = w.mid
    BY DEF Fresh, Good, WorkFields
  <2>3. ratelimit(w) = IF w.own = 0 THEN Fail(u, "restricted") ELSE v
    BY <1>3 DEF ratelimit
  <2> HIDE DEF u, v
  <2>4. w.global - 1 \in 0..GlobalBurst
    BY <1>0, <1>3
  <2>5. CASE w.own = 0
    <3>1. Good(u) /\ SameInput(w, u) /\ Longer(w, u) /\ SameKey(w.s, u.s) /\ SameMark(w, u)
      BY <2>1, <2>4 DEF Fresh, Good, SameInput, Longer, SameKey, SameMark
    <3>2. /\ Turn(u, Fail(u, "restricted")) /\ SameKey(u.s, Fail(u, "restricted").s)
          /\ SameMark(u, Fail(u, "restricted")) /\ Fail(u, "restricted").db = u.db
      BY <1>1, <3>1, FailDoes
    <3> QED
      BY <2>1, <2>3, <2>5, <3>1, <3>2, TurnTwice DEF SameKey, SameMark
  <2>6. CASE w.own # 0
    <3>1. w.own - 1 \in 0..Burst
      BY <1>0, <2>6
    <3>2. Good(v)
      BY <2>2, <2>4, <3>1 DEF Fresh, Good
    <3> QED
      BY <2>2, <2>3, <2>6, <3>2 DEF Fresh, Turn, SameInput, Longer, Reason, Allowed, OwnKinds, SameKey, SameMark, NoError
  <2> QED
    BY <2>5, <2>6
<1> QED
  BY <1>2, <1>3

LEMMA Nip40Turn ==
    ASSUME NEW w, Fresh(w)
    PROVE  /\ Turn(w, nip40(w)) /\ SameKey(w.s, nip40(w).s) /\ nip40(w).db \subseteq w.db
           /\ SameMark(w, nip40(w))
<1> DEFINE v == [w EXCEPT !.db = {x \in @ : x.scope # w.s.scope \/ x.event.id # w.msg.event.id}]
<1>1. /\ DOMAIN v = WorkFields /\ v.s = w.s /\ v.msg = w.msg /\ v.verdict = w.verdict
      /\ v.error = w.error /\ v.stored = w.stored /\ v.own = w.own /\ v.global = w.global /\ v.said = w.said
      /\ v.db \subseteq w.db /\ v.err = w.err /\ v.over = w.over /\ v.caught = w.caught /\ v.mid = w.mid
  BY DEF Fresh, Good, WorkFields
<1>2. nip40(w) = v \/ nip40(w) = w
  BY DEF nip40
<1> HIDE DEF v
<1>3. Good(v)
  BY <1>1 DEF Fresh, Good
<1>4. Turn(w, v) /\ SameKey(w.s, v.s) /\ SameMark(w, v)
  BY <1>1, <1>3 DEF Fresh, Turn, SameInput, Longer, Reason, Allowed, OwnKinds, SameKey, SameMark, NoError
<1>5. Turn(w, w) /\ SameKey(w.s, w.s) /\ SameMark(w, w)
  BY IdentityTurn DEF SameKey, SameMark
<1> QED
  BY <1>1, <1>2, <1>4, <1>5

(* An OK to the event itself, after which the chain ends. *)
LEMMA RefuseDoes ==
    ASSUME NEW w, Good(w), NEW id, NEW status \in BOOLEAN,
           \/ w.msg.type = "EVENT" /\ id = w.msg.event.id
           \/ w.msg.type = "AUTH" /\ id = w.msg.auth.id,
           w.err = NoError
    PROVE  LET v == [Reply(w, Ok(id, status)) EXCEPT !.over = TRUE] IN
           /\ Turn(w, v) /\ SameKey(w.s, v.s) /\ SameMark(w, v) /\ v.db = w.db /\ v.over
<1> DEFINE r == Ok(id, status)
           u == Reply(w, r)
           v == [u EXCEPT !.over = TRUE]
<1>1. r \in Replies(w.msg) /\ r.type = "ok" /\ r.id = id
  BY DEF Ok, Replies, MessageId
<1>2. /\ Good(u) /\ SameInput(w, u) /\ Longer(w, u) /\ SameKey(w.s, u.s) /\ SameMark(w, u)
      /\ u.db = w.db /\ u.err = w.err /\ Says(u, {"ok"}, id)
  <2> HIDE DEF r
  <2> QED
    BY <1>1, ReplyDoes
<1> HIDE DEF u
<1>3. /\ DOMAIN v = WorkFields /\ v.s = u.s /\ v.msg = u.msg /\ v.verdict = u.verdict
      /\ v.error = u.error /\ v.stored = u.stored /\ v.own = u.own /\ v.global = u.global /\ v.said = u.said
      /\ v.db = u.db /\ v.err = u.err /\ v.over = TRUE /\ v.caught = u.caught /\ v.mid = u.mid
  BY <1>2 DEF Good, WorkFields
<1>4. Good(v)
  BY <1>2, <1>3 DEF Good
<1>5. Reason(v)
  BY <1>2, <1>3 DEF Reason, Allowed, OwnKinds, Says, SameInput, NoError
<1>6. SameInput(w, v) /\ Longer(w, v) /\ SameKey(w.s, v.s) /\ SameMark(w, v) /\ v.db = w.db
  BY <1>2, <1>3 DEF SameInput, Longer, SameKey, SameMark
<1> QED
  BY <1>3, <1>4, <1>5, <1>6 DEF Turn, u

(* What Nip70Middleware lets through. *)
Passed(msg, key) == msg.type = "EVENT" /\ msg.event.protected => key = msg.event.author

LEMMA Nip70Turn ==
    ASSUME NEW w, Fresh(w)
    PROVE  /\ Turn(w, nip70(w)) /\ SameKey(w.s, nip70(w).s) /\ nip70(w).db = w.db
           /\ SameMark(w, nip70(w)) /\ (~nip70(w).over => Passed(w.msg, w.s.authed))
<1>1. CASE w.msg.type # "EVENT" \/ ~w.msg.event.protected
  BY <1>1, IdentityTurn DEF nip70, SameKey, SameMark, Passed
<1>2. CASE w.msg.type = "EVENT" /\ w.msg.event.protected
  <2>1. CASE w.s.authed = Nobody
    <3>1. nip70(w) = Fail(w, "auth") /\ "auth" # NoError /\ "auth" \notin OwnKinds
      BY <1>2, <2>1 DEF nip70, NoError, OwnKinds
    <3> QED
      BY <3>1, FailDoes DEF Fresh
  <2>2. CASE w.s.authed # Nobody /\ w.s.authed # w.msg.event.author
    <3>1. nip70(w) = [Reply(w, Ok(w.msg.event.id, FALSE)) EXCEPT !.over = TRUE]
      BY <1>2, <2>2 DEF nip70
    <3> QED
      <4>1. \A status \in BOOLEAN :
               LET v == [Reply(w, Ok(w.msg.event.id, status)) EXCEPT !.over = TRUE] IN
               Turn(w, v) /\ SameKey(w.s, v.s) /\ SameMark(w, v) /\ v.db = w.db /\ v.over
        BY <1>2, RefuseDoes DEF Fresh
      <4> QED
        BY <3>1, <4>1
  <2>3. CASE w.s.authed # Nobody /\ w.s.authed = w.msg.event.author
    <3>1. nip70(w) = w
      BY <1>2, <2>3 DEF nip70
    <3> QED
      BY <2>3, <3>1, IdentityTurn DEF SameKey, SameMark, Passed
  <2> QED
    BY <2>1, <2>2, <2>3
<1> QED
  BY <1>1, <1>2

(* A session takes the key of an AUTH event. *)
Authenticated(s, r, a) ==
    AuthAccepted(s, a) /\ r.authed = a.key /\ r.ctx = a.key /\ r.challenge = 0

LEMMA AuthTurn ==
    ASSUME NEW w, Fresh(w)
    PROVE  /\ Turn(w, auth(w)) /\ auth(w).db = w.db /\ SameMark(w, auth(w))
           /\ \/ SameKey(w.s, auth(w).s)
              \/ w.msg.type = "AUTH" /\ auth(w).over /\ Authenticated(w.s, auth(w).s, w.msg.auth)
           /\ w.msg.type = "AUTH" => auth(w).over
<1>1. CASE w.msg.type # "AUTH"
  BY <1>1, IdentityTurn DEF auth, SameKey, SameMark
<1>2. CASE w.msg.type = "AUTH" /\ AuthAccepted(w.s, w.msg.auth)
  <2> DEFINE u == [w EXCEPT !.s = set_authenticated(@, w.msg.auth.key)]
  <2>1. /\ DOMAIN u = WorkFields /\ DOMAIN u.s = SessionFields
        /\ u.msg = w.msg /\ u.verdict = w.verdict
        /\ u.error = w.error /\ u.stored = w.stored /\ u.own = w.own /\ u.global = w.global /\ u.said = w.said
        /\ u.db = w.db /\ u.err = w.err /\ u.over = w.over /\ u.caught = w.caught /\ u.mid = w.mid
        /\ u.s.open = w.s.open /\ u.s.nr = w.s.nr /\ u.s.scope = w.s.scope
        /\ u.s.registered = w.s.registered /\ u.s.subs = w.s.subs /\ u.s.quota = w.s.quota
        /\ u.s.unread = w.s.unread
        /\ u.s.authed = w.msg.auth.key /\ u.s.ctx = w.msg.auth.key /\ u.s.challenge = 0
    BY DEF Fresh, Good, WorkFields, SessionFields, set_authenticated
  <2>2. auth(w) = [Reply(u, Ok(w.msg.auth.id, TRUE)) EXCEPT !.over = TRUE]
    BY <1>2 DEF auth
  <2> HIDE DEF u
  <2>3. Good(u) /\ SameInput(w, u) /\ Longer(w, u) /\ SameMark(w, u)
    BY <2>1 DEF Fresh, Good, Slots, SameInput, Longer, SameMark
  <2>4. /\ Turn(u, auth(w)) /\ SameKey(u.s, auth(w).s) /\ SameMark(u, auth(w))
        /\ auth(w).db = u.db /\ auth(w).over
    <3>1. Good(u) /\ u.msg.type = "AUTH" /\ u.err = NoError /\ w.msg.auth.id = u.msg.auth.id
      BY <1>2, <2>1, <2>3 DEF Fresh
    <3>2. \A status \in BOOLEAN :
             LET v == [Reply(u, Ok(w.msg.auth.id, status)) EXCEPT !.over = TRUE] IN
             Turn(u, v) /\ SameKey(u.s, v.s) /\ SameMark(u, v) /\ v.db = u.db /\ v.over
      BY <3>1, RefuseDoes
    <3> QED
      BY <2>2, <3>2
  <2> QED
    BY <1>2, <2>1, <2>3, <2>4, TurnTwice DEF SameKey, SameMark, Authenticated
<1>3. CASE w.msg.type = "AUTH" /\ ~AuthAccepted(w.s, w.msg.auth)
  <2> DEFINE r == Ok(w.msg.auth.id, FALSE)
             u == Reply(w, r)
  <2>1. r \in Replies(w.msg)
    BY <1>3 DEF Ok, Replies, MessageId
  <2>2. auth(w) = Fail(u, "auth")
    BY <1>3 DEF auth
  <2>3. /\ Good(u) /\ SameInput(w, u) /\ Longer(w, u) /\ SameKey(w.s, u.s) /\ SameMark(w, u)
        /\ u.db = w.db
    <3> HIDE DEF r
    <3> QED
      BY <2>1, ReplyDoes DEF Fresh
  <2> HIDE DEF u
  <2>4. "auth" # NoError /\ "auth" \notin OwnKinds
    BY DEF NoError, OwnKinds
  <2>5. /\ Turn(u, auth(w)) /\ SameKey(u.s, auth(w).s) /\ SameMark(u, auth(w))
        /\ auth(w).db = u.db /\ auth(w).over
    BY <2>2, <2>3, <2>4, FailDoes
  <2> QED
    BY <2>3, <2>5, TurnTwice DEF SameKey, SameMark
<1> QED
  BY <1>1, <1>2, <1>3

-----------------------------------------------------------------------------
(* RelayMiddleware.  What it stores is the event of the message, under the *)
(* key the session holds; what it passes it has answered.                  *)
Stores(w, v) ==
    \A x \in v.db \ w.db :
       w.msg.type = "EVENT" /\ x.event = w.msg.event /\ x.by = w.s.authed

RelayAnswers(v) ==
    /\ v.msg.type = "EVENT" => v.verdict = "ignore" \/ Says(v, {"ok"}, v.msg.event.id)
    /\ v.msg.type = "REQ" => Says(v, {"eose"}, v.msg.sub)

RelayTurn(w, v) ==
    /\ Turn(w, v) /\ SameKey(w.s, v.s) /\ SameMark(w, v) /\ Stores(w, v)
    /\ ~v.over => RelayAnswers(v)

(* Answers and an error after work that changed neither answers nor key.   *)
LEMMA FailTurn ==
    ASSUME NEW w, NEW u, Good(u), SameInput(w, u), Longer(w, u), SameKey(w.s, u.s),
           SameMark(w, u), Stores(w, u), NEW error, error # NoError,
           error \notin OwnKinds \/ Allowed(w, error)
    PROVE  RelayTurn(w, Fail(u, error))
<1>1. /\ Turn(u, Fail(u, error)) /\ Fail(u, error).over
      /\ SameKey(u.s, Fail(u, error).s) /\ SameMark(u, Fail(u, error))
      /\ Fail(u, error).db = u.db
  BY FailDoes DEF SameInput, Allowed
<1>2. Turn(w, Fail(u, error))
  BY <1>1, TurnTwice
<1> QED
  BY <1>1, <1>2 DEF RelayTurn, SameKey, SameMark, Stores

(* The event processor refuses. *)
LEMMA RefusalTurn ==
    ASSUME NEW w, Fresh(w), w.msg.type \in {"EVENT", "REQ"}, w.verdict = "reject"
    PROVE  RelayTurn(w, Fail(w, w.error.kind))
<1>1. /\ Good(w) /\ SameInput(w, w) /\ Longer(w, w) /\ SameKey(w.s, w.s) /\ SameMark(w, w)
      /\ Stores(w, w) /\ w.error \in ProcessorErrors
  BY DEF Fresh, Good, SameInput, Longer, SameKey, SameMark, Stores
<1>2. w.error.kind # NoError /\ Allowed(w, w.error.kind)
  BY <1>1, SessionAssumption DEF Allowed, NoError, ErrorKinds
<1> QED
  BY <1>1, <1>2, FailTurn

LEMMA HandleEventTurn ==
    ASSUME NEW w, Fresh(w), w.msg.type = "EVENT"
    PROVE  RelayTurn(w, handle_event(w))
<1>0. /\ Good(w) /\ ~w.over /\ w.err = NoError /\ SameInput(w, w) /\ Longer(w, w) /\ SameKey(w.s, w.s)
      /\ SameMark(w, w) /\ Stores(w, w) /\ w.verdict \in Verdicts /\ w.stored \in BOOLEAN
  BY DEF Fresh, Good, SameInput, Longer, SameKey, SameMark, Stores
<1>1. "other" # NoError /\ "other" \notin OwnKinds
  BY DEF NoError, OwnKinds
<1>2. CASE w.verdict = "reject"
  <2>1. handle_event(w) = Fail(w, w.error.kind)
    BY <1>2 DEF handle_event
  <2> QED
    BY <1>0, <1>2, <2>1, RefusalTurn
<1>3. CASE w.verdict = "ignore"
  <2>1. handle_event(w) = w
    BY <1>3 DEF handle_event
  <2> QED
    BY <1>0, <1>3, <2>1, IdentityTurn DEF RelayTurn, RelayAnswers
<1>4. CASE w.verdict = "save" /\ w.stored
  <2> DEFINE x == [scope |-> w.s.scope, event |-> w.msg.event, by |-> w.s.authed]
             u == [w EXCEPT !.db = @ \cup {x}]
             q == Ok(w.msg.event.id, TRUE)
             v == Reply(u, q)
  <2>1. handle_event(w) = v
    BY <1>4 DEF handle_event
  <2>2. /\ DOMAIN u = WorkFields /\ u.s = w.s /\ u.msg = w.msg /\ u.verdict = w.verdict
        /\ u.error = w.error /\ u.stored = w.stored /\ u.own = w.own /\ u.global = w.global /\ u.said = w.said
        /\ u.db = w.db \cup {x} /\ u.err = w.err /\ u.over = w.over /\ u.caught = w.caught
        /\ u.mid = w.mid
    BY <1>0 DEF Good, WorkFields
  <2>3. x.event = w.msg.event /\ x.by = w.s.authed
    OBVIOUS
  <2>4. q \in Replies(w.msg) /\ q.type = "ok" /\ q.id = w.msg.event.id
    BY DEF Ok, Replies, MessageId
  <2> HIDE DEF u, x, q
  <2>5. Good(u) /\ SameInput(w, u) /\ Longer(w, u) /\ SameKey(w.s, u.s) /\ SameMark(w, u)
    BY <1>0, <2>2 DEF Good, SameInput, Longer, SameKey, SameMark
  <2>6. /\ Good(v) /\ SameInput(u, v) /\ Longer(u, v) /\ SameKey(u.s, v.s) /\ SameMark(u, v)
        /\ v.err = u.err /\ v.over = u.over /\ v.db = u.db /\ Says(v, {"ok"}, w.msg.event.id)
    BY <2>2, <2>4, <2>5, ReplyDoes
  <2> HIDE DEF v
  <2>7. SameInput(w, v) /\ Longer(w, v) /\ SameKey(w.s, v.s) /\ SameMark(w, v)
    BY <2>5, <2>6 DEF SameInput, Longer, SameKey, SameMark
  <2>8. Reason(v) /\ ~v.over
    BY <1>0, <2>2, <2>6 DEF Reason, Allowed, OwnKinds, NoError
  <2>9. Stores(w, v)
    BY <2>2, <2>3, <2>6 DEF Stores
  <2>10. RelayAnswers(v)
    BY <2>6, <2>7 DEF RelayAnswers, SameInput
  <2> QED
    BY <2>1, <2>6, <2>7, <2>8, <2>9, <2>10 DEF RelayTurn, Turn
<1>5. CASE w.verdict = "save" /\ ~w.stored
  <2> DEFINE q == Ok(w.msg.event.id, FALSE)
             u == Reply(w, q)
  <2>1. handle_event(w) = Fail(u, "other")
    BY <1>5 DEF handle_event
  <2>2. q \in Replies(w.msg)
    BY DEF Ok, Replies, MessageId
  <2> HIDE DEF q
  <2>3. /\ Good(u) /\ SameInput(w, u) /\ Longer(w, u) /\ SameKey(w.s, u.s) /\ SameMark(w, u)
        /\ u.db = w.db
    BY <1>0, <2>2, ReplyDoes
  <2> HIDE DEF u
  <2>4. Stores(w, u)
    BY <2>3 DEF Stores
  <2> QED
    BY <1>1, <2>1, <2>3, <2>4, FailTurn
<1> QED
  BY <1>0, <1>2, <1>3, <1>4, <1>5 DEF Verdicts

(* A session record of which only subs, quota and neg differ. *)
LEMMA SessionWork ==
    ASSUME NEW w, Good(w), NEW u, DOMAIN u = WorkFields, DOMAIN u.s = SessionFields,
           u.msg = w.msg, u.verdict = w.verdict, u.error = w.error /\ u.stored = w.stored, u.own = w.own,
           u.global = w.global, u.said = w.said, u.db = w.db, u.err = w.err, u.over = w.over,
           u.caught = w.caught, u.mid = w.mid,
           u.s.open = w.s.open, u.s.nr = w.s.nr, u.s.scope = w.s.scope,
           u.s.registered = w.s.registered, u.s.authed = w.s.authed, u.s.ctx = w.s.ctx,
           u.s.challenge = w.s.challenge, u.s.unread = w.s.unread, Slots(u.s)
    PROVE  /\ Good(u) /\ SameInput(w, u) /\ Longer(w, u) /\ SameKey(w.s, u.s) /\ SameMark(w, u)
           /\ Stores(w, u)
<1>1. Good(u)
  BY DEF Good
<1>2. SameInput(w, u) /\ SameKey(w.s, u.s) /\ SameMark(w, u) /\ Stores(w, u)
  BY DEF SameInput, SameKey, SameMark, Stores
<1>3. Longer(w, u)
  BY DEF Longer
<1> QED
  BY <1>1, <1>2, <1>3

(* A slot more, where the quota allows one. *)
LEMMA ReserveSlots ==
    ASSUME NEW s, Slots(s), NEW sub, CanReserve(s, sub)
    PROVE  /\ IsFiniteSet(s.quota \cup {sub})
           /\ Cardinality(s.quota \cup {sub}) <= MaxSubscriptions
<1>1. /\ IsFiniteSet(s.quota) /\ Cardinality(s.quota) \in Nat /\ MaxSubscriptions \in Nat
      /\ Cardinality(s.quota) <= MaxSubscriptions
  BY FS_CardinalityType, SessionAssumption DEF Slots
<1>2. /\ IsFiniteSet(s.quota \cup {sub})
      /\ Cardinality(s.quota \cup {sub}) =
            IF sub \in s.quota THEN Cardinality(s.quota) ELSE Cardinality(s.quota) + 1
  BY <1>1, FS_AddElement
<1> QED
  BY <1>1, <1>2 DEF CanReserve

(* A slot less. *)
LEMMA ReleaseSlots ==
    ASSUME NEW s, Slots(s), NEW sub
    PROVE  /\ IsFiniteSet(s.quota \ {sub})
           /\ Cardinality(s.quota \ {sub}) <= MaxSubscriptions
<1>1. /\ IsFiniteSet(s.quota) /\ Cardinality(s.quota) \in Nat /\ MaxSubscriptions \in Nat
      /\ Cardinality(s.quota) <= MaxSubscriptions
  BY FS_CardinalityType, SessionAssumption DEF Slots
<1>2. /\ IsFiniteSet(s.quota \ {sub})
      /\ Cardinality(s.quota \ {sub}) =
            IF sub \in s.quota THEN Cardinality(s.quota) - 1 ELSE Cardinality(s.quota)
  BY <1>1, FS_RemoveElement
<1> QED
  BY <1>1, <1>2

LEMMA HandleSubscriptionTurn ==
    ASSUME NEW w, Fresh(w), w.msg.type = "REQ"
    PROVE  RelayTurn(w, handle_subscription(w))
<1>0. /\ Good(w) /\ ~w.over /\ w.err = NoError /\ SameInput(w, w) /\ Longer(w, w) /\ SameKey(w.s, w.s)
      /\ SameMark(w, w) /\ Stores(w, w)
  BY DEF Fresh, Good, SameInput, Longer, SameKey, SameMark, Stores
<1>1. /\ "restricted" # NoError /\ "restricted" \notin OwnKinds /\ "other" # NoError
      /\ "other" \notin OwnKinds /\ "notice" # NoError
  BY DEF NoError, OwnKinds
<1>2. CASE w.verdict = "reject" \/ ~CanReserve(w.s, w.msg.sub)
  <2>1. CASE w.verdict = "reject"
    <3>1. handle_subscription(w) = Fail(w, w.error.kind)
      BY <2>1 DEF handle_subscription
    <3> QED
      BY <1>0, <2>1, <3>1, RefusalTurn
  <2>2. CASE w.verdict # "reject"
    <3>1. handle_subscription(w) = Fail(w, "restricted")
      BY <1>2, <2>2 DEF handle_subscription
    <3> QED
      BY <1>0, <1>1, <3>1, FailTurn
  <2> QED
    BY <2>1, <2>2
<1>3. CASE w.verdict # "reject" /\ CanReserve(w.s, w.msg.sub)
  <2> DEFINE sub == w.msg.sub
             u == [w EXCEPT !.s.quota = @ \cup {sub}]
             q == Other("eose", sub)
             v == Reply(u, q)
             z == [v EXCEPT !.s.subs = @ \cup {sub}]
  <2>1. handle_subscription(w) =
           IF ~w.stored THEN Fail(u, "notice")
           ELSE IF ~HasRoom(w) THEN Fail(u, "other")
           ELSE IF ~w.s.registered THEN Fail(v, "other") ELSE z
    BY <1>3 DEF handle_subscription
  <2>2. /\ DOMAIN u = WorkFields /\ DOMAIN u.s = SessionFields
        /\ u.msg = w.msg /\ u.verdict = w.verdict /\ u.error = w.error /\ u.stored = w.stored /\ u.own = w.own
        /\ u.global = w.global /\ u.said = w.said /\ u.db = w.db /\ u.err = w.err
        /\ u.over = w.over /\ u.caught = w.caught /\ u.mid = w.mid
        /\ u.s.open = w.s.open /\ u.s.nr = w.s.nr /\ u.s.scope = w.s.scope
        /\ u.s.registered = w.s.registered /\ u.s.authed = w.s.authed /\ u.s.ctx = w.s.ctx
        /\ u.s.challenge = w.s.challenge /\ u.s.unread = w.s.unread
        /\ u.s.subs = w.s.subs /\ u.s.quota = w.s.quota \cup {sub}
    BY <1>0 DEF Good, WorkFields, SessionFields
  <2>3. q \in Replies(w.msg) /\ q.type = "eose" /\ q.id = sub
    BY DEF Other, Replies, MessageId
  <2> HIDE DEF u, q
  <2>4. Slots(u.s)
    <3>1. Slots(w.s)
      BY <1>0 DEF Good
    <3>2. IsFiniteSet(w.s.quota \cup {sub}) /\ Cardinality(w.s.quota \cup {sub}) <= MaxSubscriptions
      BY <1>3, <3>1, ReserveSlots
    <3> QED
      BY <2>2, <3>1, <3>2 DEF Slots
  <2>5. /\ Good(u) /\ SameInput(w, u) /\ Longer(w, u) /\ SameKey(w.s, u.s) /\ SameMark(w, u)
        /\ Stores(w, u)
    BY <1>0, <2>2, <2>4, SessionWork
  <2>6. /\ Good(v) /\ SameInput(u, v) /\ Longer(u, v) /\ SameKey(u.s, v.s) /\ SameMark(u, v)
        /\ v.err = u.err /\ v.over = u.over /\ v.db = u.db /\ Says(v, {"eose"}, sub)
        /\ v.s.subs = u.s.subs /\ v.s.quota = u.s.quota
    <3>1. q \in Replies(u.msg)
      BY <2>2, <2>3
    <3>2. /\ Good(v) /\ SameInput(u, v) /\ Longer(u, v) /\ SameKey(u.s, v.s) /\ SameMark(u, v)
          /\ v.err = u.err /\ v.over = u.over /\ v.db = u.db /\ Says(v, {q.type}, q.id)
          /\ v.s.subs = u.s.subs /\ v.s.quota = u.s.quota
      BY <2>5, <3>1, ReplyDoes
    <3> QED
      BY <2>3, <3>2
  <2>7. /\ DOMAIN z = WorkFields /\ DOMAIN z.s = SessionFields
        /\ z.msg = v.msg /\ z.verdict = v.verdict /\ z.error = v.error /\ z.stored = v.stored /\ z.own = v.own
        /\ z.global = v.global /\ z.said = v.said /\ z.db = v.db /\ z.err = v.err
        /\ z.over = v.over /\ z.caught = v.caught /\ z.mid = v.mid
        /\ z.s.open = v.s.open /\ z.s.nr = v.s.nr /\ z.s.scope = v.s.scope
        /\ z.s.registered = v.s.registered /\ z.s.authed = v.s.authed /\ z.s.ctx = v.s.ctx
        /\ z.s.challenge = v.s.challenge /\ z.s.unread = v.s.unread
        /\ z.s.subs = v.s.subs \cup {sub} /\ z.s.quota = v.s.quota
    BY <2>6 DEF Good, WorkFields, SessionFields
  <2> HIDE DEF v, z
  <2>8. /\ SameInput(w, v) /\ Longer(w, v) /\ SameKey(w.s, v.s) /\ SameMark(w, v) /\ Stores(w, v)
    BY <2>2, <2>5, <2>6 DEF SameInput, Longer, SameKey, SameMark, Stores
  <2>9. CASE ~w.stored
    <3>1. Allowed(w, "notice")
      BY <2>9 DEF Allowed
    <3> QED
      BY <1>1, <2>1, <2>5, <2>9, <3>1, FailTurn
  <2>10. CASE w.stored /\ ~HasRoom(w)
    BY <1>1, <2>1, <2>5, <2>10, FailTurn
  <2>11. CASE w.stored /\ HasRoom(w) /\ ~w.s.registered
    BY <1>1, <2>1, <2>6, <2>8, <2>11, FailTurn
  <2>12. CASE w.stored /\ HasRoom(w) /\ w.s.registered
    <3>1. Slots(z.s)
      BY <2>2, <2>6, <2>7 DEF Good, Slots
    <3>2. /\ Good(z) /\ SameInput(v, z) /\ Longer(v, z) /\ SameKey(v.s, z.s) /\ SameMark(v, z)
      BY <2>6, <2>7, <3>1, SessionWork
    <3>3. /\ SameInput(w, z) /\ Longer(w, z) /\ SameKey(w.s, z.s) /\ SameMark(w, z)
      BY <2>8, <3>2 DEF SameInput, Longer, SameKey, SameMark
    <3>4. Reason(z) /\ ~z.over
      BY <1>0, <2>2, <2>6, <2>7 DEF Reason, Allowed, OwnKinds, NoError
    <3>5. RelayAnswers(z)
      BY <2>2, <2>6, <2>7, <2>8 DEF RelayAnswers, Says, SameInput
    <3>6. Stores(w, z)
      BY <2>7, <2>8 DEF Stores
    <3> QED
      BY <2>1, <2>12, <3>2, <3>3, <3>4, <3>5, <3>6 DEF RelayTurn, Turn
  <2> QED
    BY <2>9, <2>10, <2>11, <2>12
<1> QED
  BY <1>2, <1>3

LEMMA HandleCloseTurn ==
    ASSUME NEW w, Fresh(w), w.msg.type = "CLOSE"
    PROVE  RelayTurn(w, handle_close(w))
<1> DEFINE u == handle_close(w)
<1>1. /\ DOMAIN u = WorkFields /\ DOMAIN u.s = SessionFields
      /\ u.msg = w.msg /\ u.verdict = w.verdict /\ u.error = w.error /\ u.stored = w.stored /\ u.own = w.own
      /\ u.global = w.global /\ u.said = w.said /\ u.db = w.db /\ u.err = w.err
      /\ u.over = w.over /\ u.caught = w.caught /\ u.mid = w.mid
      /\ u.s.open = w.s.open /\ u.s.nr = w.s.nr /\ u.s.scope = w.s.scope
      /\ u.s.registered = w.s.registered /\ u.s.authed = w.s.authed /\ u.s.ctx = w.s.ctx
      /\ u.s.challenge = w.s.challenge /\ u.s.unread = w.s.unread
      /\ u.s.subs = w.s.subs \ {w.msg.sub} /\ u.s.quota = w.s.quota \ {w.msg.sub}
  <2> DEFINE sub == w.msg.sub
             q == [w.s EXCEPT !.quota = @ \ {sub}]
             z == [q EXCEPT !.subs = @ \ {sub}]
  <2>1. u = [w EXCEPT !.s = z]
    BY DEF handle_close, release_quota_slot
  <2>2. /\ DOMAIN z = SessionFields
        /\ z.open = w.s.open /\ z.nr = w.s.nr /\ z.scope = w.s.scope
        /\ z.registered = w.s.registered /\ z.authed = w.s.authed /\ z.ctx = w.s.ctx
        /\ z.challenge = w.s.challenge /\ z.unread = w.s.unread
        /\ z.subs = w.s.subs \ {sub} /\ z.quota = w.s.quota \ {sub}
    BY DEF Fresh, Good, SessionFields
  <2> HIDE DEF z
  <2> QED
    BY <2>1, <2>2 DEF Fresh, Good, WorkFields
<1> HIDE DEF u
<1>2. Slots(u.s)
  <2>1. Slots(w.s)
    BY DEF Fresh, Good
  <2>2. IsFiniteSet(u.s.quota) /\ Cardinality(u.s.quota) <= MaxSubscriptions
    <3>1. /\ IsFiniteSet(w.s.quota \ {w.msg.sub})
          /\ Cardinality(w.s.quota \ {w.msg.sub}) <= MaxSubscriptions
      BY <2>1, ReleaseSlots
    <3> QED
      BY <1>1, <3>1
  <2> QED
    BY <1>1, <2>1, <2>2 DEF Slots
<1>3. /\ Good(u) /\ SameInput(w, u) /\ Longer(w, u) /\ SameKey(w.s, u.s) /\ SameMark(w, u)
      /\ Stores(w, u)
  BY <1>1, <1>2, SessionWork DEF Fresh
<1>4. Reason(u) /\ RelayAnswers(u)
  BY <1>1 DEF Fresh, Reason, Allowed, OwnKinds, RelayAnswers, NoError
<1> QED
  BY <1>3, <1>4 DEF RelayTurn, Turn, u

(* One answer and nothing else, to a message that asks for nothing. *)
LEMMA ReplyTurn ==
    ASSUME NEW w, Fresh(w), w.msg.type \notin {"EVENT", "REQ"}, NEW r \in Replies(w.msg)
    PROVE  RelayTurn(w, Reply(w, r))
<1> DEFINE v == Reply(w, r)
<1>1. /\ Good(v) /\ SameInput(w, v) /\ Longer(w, v) /\ SameKey(w.s, v.s) /\ SameMark(w, v)
      /\ v.err = w.err /\ v.over = w.over /\ v.db = w.db
  BY ReplyDoes DEF Fresh
<1> HIDE DEF v
<1>2. Reason(v)
  BY <1>1 DEF Fresh, Reason, Allowed, OwnKinds, NoError
<1>3. Stores(w, v) /\ RelayAnswers(v)
  BY <1>1 DEF Stores, RelayAnswers, SameInput
<1> QED
  BY <1>1, <1>2, <1>3 DEF RelayTurn, Turn, v

LEMMA NegentropyTurn ==
    ASSUME NEW w, Fresh(w)
    PROVE  /\ w.msg.type = "NEG-OPEN"  => RelayTurn(w, handle_neg_open(w))
           /\ w.msg.type = "NEG-MSG"   => RelayTurn(w, handle_neg_msg(w))
           /\ w.msg.type = "NEG-CLOSE" => RelayTurn(w, handle_neg_close(w))
<1> DEFINE yes == Other("neg-msg", w.msg.sub)
           no  == Other("neg-err", w.msg.sub)
<1>1. ASSUME w.msg.type \in {"NEG-OPEN", "NEG-MSG"}
      PROVE  yes \in Replies(w.msg) /\ no \in Replies(w.msg)
  BY <1>1 DEF Other, Replies, MessageId
<1> HIDE DEF yes, no
<1>2. ASSUME w.msg.type = "NEG-OPEN" PROVE RelayTurn(w, handle_neg_open(w))
  <2> DEFINE u == [w EXCEPT !.s.neg = @ \cup {w.msg.sub}]
  <2>1. handle_neg_open(w) = Reply(u, yes) \/ handle_neg_open(w) = Reply(w, no)
    BY DEF handle_neg_open, yes, no
  <2>2. /\ DOMAIN u = WorkFields /\ DOMAIN u.s = SessionFields
        /\ u.msg = w.msg /\ u.verdict = w.verdict /\ u.error = w.error /\ u.stored = w.stored /\ u.own = w.own
        /\ u.global = w.global /\ u.said = w.said /\ u.db = w.db /\ u.err = w.err
        /\ u.over = w.over /\ u.caught = w.caught /\ u.mid = w.mid
        /\ u.s.open = w.s.open /\ u.s.nr = w.s.nr /\ u.s.scope = w.s.scope
        /\ u.s.registered = w.s.registered /\ u.s.authed = w.s.authed /\ u.s.ctx = w.s.ctx
        /\ u.s.challenge = w.s.challenge /\ u.s.unread = w.s.unread
        /\ u.s.subs = w.s.subs /\ u.s.quota = w.s.quota
    BY DEF Fresh, Good, WorkFields, SessionFields
  <2> HIDE DEF u
  <2>3. Slots(u.s)
    BY <2>2 DEF Fresh, Good, Slots
  <2>4. /\ Good(u) /\ SameInput(w, u) /\ Longer(w, u) /\ SameKey(w.s, u.s) /\ SameMark(w, u)
        /\ Stores(w, u)
    BY <2>2, <2>3, SessionWork DEF Fresh
  <2>5. Fresh(u) /\ u.msg.type \notin {"EVENT", "REQ"} /\ yes \in Replies(u.msg)
    BY <1>1, <1>2, <2>2, <2>4 DEF Fresh
  <2>6. RelayTurn(u, Reply(u, yes))
    BY <2>5, ReplyTurn
  <2>7. RelayTurn(w, Reply(u, yes))
    <3> DEFINE v == Reply(u, yes)
    <3>1. RelayTurn(u, v)
      BY <2>6
    <3> HIDE DEF v
    <3>2. Turn(w, v)
      BY <2>4, <3>1, TurnTwice DEF RelayTurn
    <3>3. SameKey(w.s, v.s) /\ SameMark(w, v)
      BY <2>4, <3>1 DEF RelayTurn, SameKey, SameMark
    <3>4. Stores(w, v)
      BY <1>2, <2>2, <3>1 DEF RelayTurn, Stores
    <3> QED
      BY <3>1, <3>2, <3>3, <3>4 DEF RelayTurn, v
  <2>8. RelayTurn(w, Reply(w, no))
    BY <1>1, <1>2, ReplyTurn
  <2> QED
    BY <2>1, <2>7, <2>8
<1>3. ASSUME w.msg.type = "NEG-MSG" PROVE RelayTurn(w, handle_neg_msg(w))
  <2>1. handle_neg_msg(w) = Reply(w, yes) \/ handle_neg_msg(w) = Reply(w, no)
    BY DEF handle_neg_msg, yes, no
  <2>2. RelayTurn(w, Reply(w, yes)) /\ RelayTurn(w, Reply(w, no))
    BY <1>1, <1>3, ReplyTurn
  <2> QED
    BY <2>1, <2>2
<1>4. ASSUME w.msg.type = "NEG-CLOSE" PROVE RelayTurn(w, handle_neg_close(w))
  <2> DEFINE u == handle_neg_close(w)
  <2>1. /\ DOMAIN u = WorkFields /\ DOMAIN u.s = SessionFields
        /\ u.msg = w.msg /\ u.verdict = w.verdict /\ u.error = w.error /\ u.stored = w.stored /\ u.own = w.own
        /\ u.global = w.global /\ u.said = w.said /\ u.db = w.db /\ u.err = w.err
        /\ u.over = w.over /\ u.caught = w.caught /\ u.mid = w.mid
        /\ u.s.open = w.s.open /\ u.s.nr = w.s.nr /\ u.s.scope = w.s.scope
        /\ u.s.registered = w.s.registered /\ u.s.authed = w.s.authed /\ u.s.ctx = w.s.ctx
        /\ u.s.challenge = w.s.challenge /\ u.s.unread = w.s.unread
        /\ u.s.subs = w.s.subs /\ u.s.quota = w.s.quota
    BY DEF handle_neg_close, Fresh, Good, WorkFields, SessionFields
  <2> HIDE DEF u
  <2>2. Slots(u.s)
    BY <2>1 DEF Fresh, Good, Slots
  <2>3. /\ Good(u) /\ SameInput(w, u) /\ Longer(w, u) /\ SameKey(w.s, u.s) /\ SameMark(w, u)
        /\ Stores(w, u)
    BY <2>1, <2>2, SessionWork DEF Fresh
  <2>4. Reason(u) /\ RelayAnswers(u)
    BY <1>4, <2>1 DEF Fresh, Reason, Allowed, OwnKinds, RelayAnswers, NoError
  <2> QED
    BY <2>3, <2>4 DEF RelayTurn, Turn, u
<1> QED
  BY <1>2, <1>3, <1>4

(* RelayMiddleware, whatever the message. *)
LEMMA RelayDoes ==
    ASSUME NEW w, Fresh(w)
    PROVE  RelayTurn(w, relay(w))
<1> DEFINE t == w.msg.type
<1>1. CASE t = "EVENT"
  BY <1>1, HandleEventTurn DEF relay
<1>2. CASE t = "REQ"
  BY <1>2, HandleSubscriptionTurn DEF relay
<1>3. CASE t = "CLOSE"
  BY <1>3, HandleCloseTurn DEF relay
<1>4. CASE t \in {"NEG-OPEN", "NEG-MSG", "NEG-CLOSE"}
  BY <1>4, NegentropyTurn DEF relay
<1>5. CASE t \notin {"EVENT", "REQ", "CLOSE", "NEG-OPEN", "NEG-MSG", "NEG-CLOSE"}
  <2>1. relay(w) = unsupported(w)
    BY <1>5 DEF relay
  <2>2. /\ SameInput(w, w) /\ Longer(w, w) /\ SameKey(w.s, w.s) /\ SameMark(w, w) /\ Stores(w, w)
        /\ Good(w)
    BY DEF Fresh, SameInput, Longer, SameKey, SameMark, Stores
  <2>3. CASE t = "AUTH"
    <3>1. relay(w) = w
      BY <2>1, <2>3 DEF unsupported
    <3> QED
      BY <2>2, <2>3, <3>1, IdentityTurn DEF RelayTurn, RelayAnswers
  <2>4. CASE t # "AUTH"
    <3>1. relay(w) = Fail(w, "notice") /\ "notice" # NoError
      BY <2>1, <2>4 DEF unsupported, NoError
    <3>2. Allowed(w, "notice")
      BY <1>5, <2>4 DEF Allowed
    <3> QED
      BY <2>2, <3>1, <3>2, FailTurn
  <2> QED
    BY <2>3, <2>4
<1> QED
  BY <1>1, <1>2, <1>3, <1>4, <1>5

-----------------------------------------------------------------------------
(* The chain.  RelayMiddleware is innermost, and there only; the custom    *)
(* middlewares are all in it.                                              *)
Layers == {"identity", "logger", "errors", "auth", "metrics", "nip40", "nip70", "ratelimit"}

LEMMA ReverseDoes ==
    ASSUME NEW S, NEW s \in Seq(S)
    PROVE  /\ Reverse(s) \in Seq(S) /\ Len(Reverse(s)) = Len(s)
           /\ \A i \in 1..Len(s) : \E j \in 1..Len(s) : Reverse(s)[j] = s[i]
<1>0. Len(s) \in Nat /\ \A i \in 1..Len(s) : s[i] \in S
  OBVIOUS
<1>1. \A i \in 1..Len(s) : (Len(s) - i) + 1 \in 1..Len(s) /\ (Len(s) - ((Len(s) - i) + 1)) + 1 = i
  BY <1>0
<1>2. Reverse(s) \in [1..Len(s) -> S]
  BY <1>0, <1>1 DEF Reverse
<1>3. Reverse(s) \in Seq(S) /\ Len(Reverse(s)) = Len(s)
  BY <1>0, <1>2
<1>4. ASSUME NEW i \in 1..Len(s) PROVE \E j \in 1..Len(s) : Reverse(s)[j] = s[i]
  <2> DEFINE j == (Len(s) - i) + 1
  <2>1. j \in 1..Len(s) /\ (Len(s) - j) + 1 = i
    BY <1>1
  <2>2. Reverse(s)[j] = s[(Len(s) - j) + 1]
    BY <2>1 DEF Reverse
  <2> QED
    BY <2>1, <2>2
<1> QED
  BY <1>3, <1>4

LEMMA ChainShape ==
    /\ Chain \in Seq(Layers \cup {"relay"}) /\ Len(Chain) \in Nat /\ Len(Chain) > 0
    /\ \A i \in 1..Len(Chain) : Chain[i] = "relay" <=> i = Len(Chain)
    /\ "nip70" \in ToSet(Custom) => \E i \in 1..Len(Chain) : Chain[i] = "nip70"
<1> DEFINE d == IF WithoutDefaults THEN <<"identity", "identity", "identity">>
                ELSE <<"logger", "errors", IF EnableAuth THEN "auth" ELSE "identity">>
           m == <<IF EnableMetrics THEN "metrics" ELSE "identity">>
           s == Reverse(Custom)
           q == d \o m
           p == q \o s
<1>1. d \in Seq(Layers) /\ m \in Seq(Layers)
  <2>1. "identity" \in Layers /\ "logger" \in Layers /\ "errors" \in Layers /\ "auth" \in Layers
        /\ "metrics" \in Layers
    BY DEF Layers
  <2>2. m \in Seq(Layers)
    BY <2>1
  <2>3. <<"identity", "identity", "identity">> \in Seq(Layers)
    BY <2>1
  <2>4. \A x \in Layers : <<"logger", "errors", x>> \in Seq(Layers)
    BY <2>1
  <2>5. (IF EnableAuth THEN "auth" ELSE "identity") \in Layers
    BY <2>1
  <2> QED
    BY <2>2, <2>3, <2>4, <2>5
<1>2. /\ Custom \in Seq(Layers) /\ s \in Seq(Layers) /\ Len(s) = Len(Custom)
      /\ \A i \in 1..Len(Custom) : \E j \in 1..Len(s) : s[j] = Custom[i]
  <2>1. Custom \in Seq(Layers)
    BY SessionAssumption DEF Layers
  <2> QED
    BY <2>1, ReverseDoes
<1>3. Chain = (q \o s) \o <<"relay">>
  BY DEF Chain
<1> HIDE DEF d, m, s
<1>4. q \in Seq(Layers)
  BY <1>1
<1> HIDE DEF q
<1>5. /\ p \in Seq(Layers) /\ Len(p) \in Nat /\ Len(p) = Len(q) + Len(s) /\ Len(q) \in Nat /\ Len(s) \in Nat
      /\ \A j \in 1..Len(s) : p[Len(q) + j] = s[j]
  <2>1. Len(q) \in Nat /\ Len(s) \in Nat /\ q \in Seq(Layers) /\ s \in Seq(Layers)
    BY <1>2, <1>4
  <2>2. p \in Seq(Layers) /\ Len(p) = Len(q) + Len(s)
    BY <2>1
  <2>3. ASSUME NEW j \in 1..Len(s) PROVE p[Len(q) + j] = s[j]
    BY <2>1
  <2> QED
    BY <2>1, <2>2, <2>3
<1>6. Chain = p \o <<"relay">>
  BY <1>3
<1> HIDE DEF p
<1>7. /\ Chain \in Seq(Layers \cup {"relay"}) /\ Len(Chain) = Len(p) + 1
      /\ Chain[Len(p) + 1] = "relay"
      /\ \A i \in 1..Len(p) : Chain[i] = p[i] /\ p[i] \in Layers
  BY <1>5, <1>6
<1>8. ASSUME NEW i \in 1..Len(Chain) PROVE Chain[i] = "relay" <=> i = Len(Chain)
  <2>1. CASE i = Len(p) + 1
    BY <1>7, <2>1
  <2>2. CASE i # Len(p) + 1
    <3>1. i \in 1..Len(p)
      BY <1>5, <1>7, <2>2
    <3> QED
      BY <1>7, <2>2, <3>1 DEF Layers
  <2> QED
    BY <2>1, <2>2
<1>9. ASSUME "nip70" \in ToSet(Custom) PROVE \E i \in 1..Len(Chain) : Chain[i] = "nip70"
  <2>1. PICK i \in 1..Len(Custom) : Custom[i] = "nip70"
    BY <1>2, <1>9 DEF ToSet
  <2>2. PICK j \in 1..Len(s) : s[j] = "nip70"
    BY <1>2, <2>1
  <2>3. Len(q) + j \in 1..Len(p)
    BY <1>5
  <2>4. Chain[Len(q) + j] = "nip70"
    BY <1>5, <1>7, <2>2, <2>3
  <2> QED
    BY <1>5, <1>7, <2>3, <2>4
<1> QED
  BY <1>5, <1>7, <1>8, <1>9

PassesOn(w, n, f) == f = [i \in 0..n |-> IF i = 0 THEN w ELSE Process(f[i - 1], Chain[i])]

(* The recursive definition of process_inbound_chain has a solution. *)
LEMMA PassesExist ==
    ASSUME NEW w, NEW n \in Nat
    PROVE  \E f : PassesOn(w, n, f)
<1> DEFINE Bad == {m \in Nat : ~ \E f : PassesOn(w, m, f)}
<1> SUFFICES ASSUME Bad # {} PROVE FALSE
  OBVIOUS
<1>1. PICK b \in Bad : \A m \in Bad : b <= m
  BY LeastNat
<1>2. CASE b = 0
  <2>1. PassesOn(w, 0, [i \in 0..0 |-> w])
    BY DEF PassesOn
  <2> QED
    BY <1>2, <2>1
<1>3. CASE b # 0
  <2>1. PICK f : PassesOn(w, b - 1, f)
    BY <1>1, <1>3
  <2>2. PICK g : g = [i \in 0..b |-> IF i = b THEN Process(f[b - 1], Chain[b]) ELSE f[i]]
    OBVIOUS
  <2>3. ASSUME NEW i \in 0..b
        PROVE  g[i] = IF i = 0 THEN w ELSE Process(g[i - 1], Chain[i])
    <3>1. CASE i = b
      <4>1. b - 1 \in 0..b /\ b - 1 # b
        BY <1>3
      <4>2. g[b - 1] = f[b - 1] /\ g[b] = Process(f[b - 1], Chain[b])
        BY <2>2, <4>1
      <4> QED
        BY <1>3, <3>1, <4>2
    <3>2. CASE i # b
      <4>1. i \in 0..(b - 1) /\ (i # 0 => i - 1 \in 0..b /\ i - 1 # b)
        BY <3>2
      <4>2. f[i] = IF i = 0 THEN w ELSE Process(f[i - 1], Chain[i])
        BY <2>1, <4>1 DEF PassesOn
      <4> QED
        BY <2>2, <3>2, <4>1, <4>2
    <3> QED
      BY <3>1, <3>2
  <2>4. g = [i \in 0..b |-> g[i]]
    BY <2>2
  <2>5. PassesOn(w, b, g)
    BY <2>3, <2>4 DEF PassesOn
  <2> QED
    BY <2>5
<1> QED
  BY <1>2, <1>3

(* What is handed to ErrorHandlingMiddleware at the end of the chain. *)
Concluded(done) ==
    IF done.err # NoError /\ done.caught /\ done.mid # Nobody
    THEN handle_inbound_error(done) ELSE done

(* process_inbound_chain takes the middlewares' turns one after another. *)
LEMMA PassSteps ==
    ASSUME NEW w
    PROVE  \E f : /\ process_inbound_chain(w) = Concluded(f[Len(Chain)])
                  /\ f[0] = w
                  /\ \A i \in 1..Len(Chain) : f[i] = Process(f[i - 1], Chain[i])
<1>0. Len(Chain) \in Nat
  BY ChainShape
<1>1. PICK f : f = CHOOSE g : g = [i \in 0..Len(Chain) |->
                                     IF i = 0 THEN w ELSE Process(g[i - 1], Chain[i])]
  OBVIOUS
<1>2. PassesOn(w, Len(Chain), f)
  BY <1>0, <1>1, PassesExist DEF PassesOn
<1>3. process_inbound_chain(w) = Concluded(f[Len(Chain)])
  BY <1>1 DEF process_inbound_chain, Concluded
<1>4. f[0] = w /\ \A i \in 1..Len(Chain) : f[i] = Process(f[i - 1], Chain[i])
  BY <1>0, <1>2 DEF PassesOn
<1> QED
  BY <1>3, <1>4

-----------------------------------------------------------------------------
(* One middleware's turn. *)
LEMMA MiddlewareTurn ==
    ASSUME NEW u, Fresh(u), NEW m \in Layers \cup {"relay"}
    PROVE  LET v == Process(u, m) IN
           /\ Turn(u, v)
           /\ \/ SameKey(u.s, v.s)
              \/ u.msg.type = "AUTH" /\ v.over /\ Authenticated(u.s, v.s, u.msg.auth)
           /\ SameMark(u, v) \/ (v.caught /\ v.mid = MessageId(u.msg))
           /\ IF m = "relay" THEN Stores(u, v) ELSE v.db \subseteq u.db
           /\ ~v.over => /\ m = "nip70" => Passed(u.msg, u.s.authed)
                         /\ m = "auth"  => u.msg.type # "AUTH"
                         /\ m = "relay" => RelayAnswers(v)
<1>1. ~u.over
  BY DEF Fresh
<1>2. CASE m = "errors"
  <2>1. Process(u, m) = errors(u)
    BY <1>1, <1>2 DEF Process
  <2> QED
    BY <1>2, <2>1, ErrorsTurn
<1>3. CASE m = "auth"
  <2>1. Process(u, m) = auth(u)
    BY <1>1, <1>3 DEF Process
  <2> QED
    BY <1>3, <2>1, AuthTurn
<1>4. CASE m = "nip40"
  <2>1. Process(u, m) = nip40(u)
    BY <1>1, <1>4 DEF Process
  <2> QED
    BY <1>4, <2>1, Nip40Turn
<1>5. CASE m = "nip70"
  <2>1. Process(u, m) = nip70(u)
    BY <1>1, <1>5 DEF Process
  <2> QED
    BY <1>5, <2>1, Nip70Turn
<1>6. CASE m = "ratelimit"
  <2>1. Process(u, m) = ratelimit(u)
    BY <1>1, <1>6 DEF Process
  <2> QED
    BY <1>6, <2>1, RateLimitTurn
<1>7. CASE m = "relay"
  <2>1. Process(u, m) = relay(u)
    BY <1>1, <1>7 DEF Process
  <2> QED
    BY <1>7, <2>1, RelayDoes DEF RelayTurn
<1>8. CASE m \in {"identity", "logger", "metrics"}
  <2>1. Process(u, m) = u
    BY <1>1, <1>8 DEF Process, identity
  <2> QED
    BY <1>8, <2>1, IdentityTurn DEF SameKey, SameMark
<1> QED
  BY <1>2, <1>3, <1>4, <1>5, <1>6, <1>7, <1>8 DEF Layers

(* After i middlewares.  A session's key changed only if it took that of   *)
(* an AUTH event, which goes no further; what was stored had passed        *)
(* Nip70Middleware.                                                        *)
Path(w, u, i) ==
    /\ Turn(w, u)
    /\ \/ SameKey(w.s, u.s)
       \/ w.msg.type = "AUTH" /\ u.over /\ Authenticated(w.s, u.s, w.msg.auth)
    /\ u.caught => u.mid = MessageId(w.msg)
    /\ Stores(w, u)
    /\ ~(u.db \subseteq w.db) =>
          \A j \in 1..Len(Chain) : Chain[j] = "nip70" => Passed(w.msg, w.s.authed)
    /\ ~u.over =>
          \A j \in 1..i : /\ Chain[j] = "nip70" => Passed(w.msg, w.s.authed)
                          /\ Chain[j] = "auth"  => w.msg.type # "AUTH"
                          /\ Chain[j] = "relay" => RelayAnswers(u)

LEMMA PathStep ==
    ASSUME NEW w, NEW u, NEW i \in 1..Len(Chain), Fresh(w), Path(w, u, i - 1)
    PROVE  Path(w, Process(u, Chain[i]), i)
<1>0. /\ i \in Nat /\ Len(Chain) \in Nat /\ i <= Len(Chain) /\ Chain[i] \in Layers \cup {"relay"}
      /\ \A j \in 1..Len(Chain) : Chain[j] = "relay" <=> j = Len(Chain)
  BY ChainShape
<1>1. CASE u.over
  <2>1. Process(u, Chain[i]) = u
    BY <1>1 DEF Process
  <2> QED
    BY <1>1, <2>1 DEF Path
<1>2. CASE ~u.over
  <2>1. Fresh(u) /\ SameInput(w, u) /\ Longer(w, u) /\ SameKey(w.s, u.s)
    BY <1>2 DEF Path, Turn, Reason, Allowed, OwnKinds, Fresh
  <2>2. PICK v : v = Process(u, Chain[i])
    OBVIOUS
  <2>3. /\ Turn(u, v)
        /\ \/ SameKey(u.s, v.s)
           \/ u.msg.type = "AUTH" /\ v.over /\ Authenticated(u.s, v.s, u.msg.auth)
        /\ SameMark(u, v) \/ (v.caught /\ v.mid = MessageId(u.msg))
        /\ Chain[i] = "relay" => Stores(u, v)
        /\ Chain[i] # "relay" => v.db \subseteq u.db
        /\ ~v.over => /\ Chain[i] = "nip70" => Passed(u.msg, u.s.authed)
                      /\ Chain[i] = "auth"  => u.msg.type # "AUTH"
                      /\ Chain[i] = "relay" => RelayAnswers(v)
    BY <1>0, <2>1, <2>2, MiddlewareTurn
  <2>4. u.msg = w.msg /\ u.s.authed = w.s.authed
    BY <2>1 DEF SameInput, SameKey
  <2>5. Turn(w, v)
    BY <2>1, <2>3, TurnTwice
  <2>6. \/ SameKey(w.s, v.s)
        \/ w.msg.type = "AUTH" /\ v.over /\ Authenticated(w.s, v.s, w.msg.auth)
    <3>1. CASE SameKey(u.s, v.s)
      BY <2>1, <3>1 DEF SameKey
    <3>2. CASE u.msg.type = "AUTH" /\ v.over /\ Authenticated(u.s, v.s, u.msg.auth)
      <4>1. u.s.challenge = w.s.challenge /\ u.s.scope = w.s.scope
        BY <2>1 DEF SameInput, SameKey
      <4>2. Authenticated(w.s, v.s, w.msg.auth)
        BY <2>4, <3>2, <4>1 DEF Authenticated, AuthAccepted, ChallengeMatches, RelayMatches
      <4> QED
        BY <2>4, <3>2, <4>2
    <3> QED
      BY <2>3, <3>1, <3>2
  <2>7. v.caught => v.mid = MessageId(w.msg)
    BY <2>3, <2>4 DEF Path, SameMark
  <2>8. \A j \in 1..(i - 1) : /\ Chain[j] = "nip70" => Passed(w.msg, w.s.authed)
                              /\ Chain[j] = "auth"  => w.msg.type # "AUTH"
    BY <1>2 DEF Path
  <2>9. Stores(w, v)
    BY <2>3, <2>4 DEF Path, Stores
  <2>10. ASSUME ~(v.db \subseteq w.db), NEW j \in 1..Len(Chain), Chain[j] = "nip70"
         PROVE  Passed(w.msg, w.s.authed)
    <3>1. CASE u.db \subseteq w.db
      <4>1. Chain[i] = "relay"
        BY <2>3, <2>10, <3>1
      <4>2. i = Len(Chain) /\ j # Len(Chain)
        BY <1>0, <2>10, <4>1
      <4>3. j \in 1..(i - 1)
        BY <1>0, <4>2
      <4> QED
        BY <2>8, <2>10, <4>3
    <3>2. CASE ~(u.db \subseteq w.db)
      BY <2>10, <3>2 DEF Path
    <3> QED
      BY <3>1, <3>2
  <2>11. ASSUME ~v.over, NEW j \in 1..i
         PROVE  /\ Chain[j] = "nip70" => Passed(w.msg, w.s.authed)
                /\ Chain[j] = "auth"  => w.msg.type # "AUTH"
                /\ Chain[j] = "relay" => RelayAnswers(v)
    <3>1. CASE j = i
      BY <2>3, <2>4, <2>11, <3>1
    <3>2. CASE j # i
      <4>1. j \in 1..(i - 1) /\ j \in 1..Len(Chain) /\ j # Len(Chain)
        BY <1>0, <3>2
      <4> QED
        BY <1>0, <2>8, <4>1
    <3> QED
      BY <3>1, <3>2
  <2>12. Path(w, v, i)
    BY <2>5, <2>6, <2>7, <2>9, <2>10, <2>11 DEF Path
  <2> QED
    BY <2>2, <2>12
<1> QED
  BY <1>1, <1>2

LEMMA PathEnds ==
    ASSUME NEW w, Fresh(w), ~w.caught
    PROVE  \E done : Path(w, done, Len(Chain)) /\ process_inbound_chain(w) = Concluded(done)
<1> DEFINE N == Len(Chain)
<1>0. N \in Nat
  BY ChainShape
<1>1. PICK f : /\ process_inbound_chain(w) = Concluded(f[N]) /\ f[0] = w
               /\ \A i \in 1..N : f[i] = Process(f[i - 1], Chain[i])
  BY PassSteps
<1>2. PICK Bad : Bad = {i \in 0..N : ~Path(w, f[i], i)}
  OBVIOUS
<1>3. SUFFICES ASSUME Bad # {} PROVE FALSE
  <2>1. N \in 0..N
    BY <1>0
  <2> QED
    BY <1>1, <1>2, <2>1
<1>4. PICK b \in Bad : \A m \in Bad : b <= m
  <2>1. Bad \in SUBSET Nat
    BY <1>0, <1>2
  <2> QED
    BY <1>3, <2>1, LeastNat
<1>5. CASE b = 0
  <2>1. Turn(w, w) /\ SameKey(w.s, w.s) /\ Stores(w, w)
    BY IdentityTurn DEF SameKey, Stores
  <2>2. Path(w, w, 0)
    BY <2>1 DEF Path
  <2> QED
    BY <1>1, <1>2, <1>4, <1>5, <2>2
<1>6. CASE b # 0
  <2>1. b \in 1..N /\ b - 1 \in 0..N /\ b - 1 \notin Bad
    BY <1>0, <1>2, <1>4, <1>6
  <2>2. Path(w, f[b - 1], b - 1)
    BY <1>2, <2>1
  <2>3. Path(w, f[b], b)
    BY <1>1, <2>1, <2>2, PathStep
  <2> QED
    BY <1>2, <1>4, <2>3
<1> QED
  BY <1>5, <1>6

-----------------------------------------------------------------------------
(* The reply that ErrorHandlingMiddleware makes of an error. *)
Replied(w, err, v) ==
    /\ err = "notice" => Says(v, {"notice"}, Nobody)
    /\ err = "event" => Says(v, {"ok"}, w.error.id)
    /\ err = "subscription" => Says(v, {"closed"}, w.error.id)
    /\ err \notin OwnKinds => Says(v, {IF AnswersOk(w.msg) THEN "ok" ELSE "closed"}, MessageId(w.msg))

LEMMA ConcludedDoes ==
    ASSUME NEW w, NEW done, Path(w, done, Len(Chain)), NEW v, v = Concluded(done)
    PROVE  /\ Good(v) /\ SameInput(w, v) /\ Longer(done, v) /\ SameKey(done.s, v.s)
           /\ v.db = done.db /\ v.caught = done.caught
           /\ (done.err # NoError /\ done.caught /\ MessageId(w.msg) # Nobody) => Replied(w, done.err, v)
           /\ done.err = NoError => v = done
<1>1. Good(done) /\ SameInput(w, done) /\ done.msg = w.msg /\ done.error = w.error
  BY DEF Path, Turn, SameInput
<1>2. CASE done.err # NoError /\ done.caught /\ done.mid # Nobody
  <2> DEFINE r == ErrorReply(done)
  <2>1. done.mid = MessageId(done.msg) /\ done.error \in ProcessorErrors
    BY <1>1, <1>2 DEF Path, Good
  <2>2. r \in Replies(done.msg)
    <3>1. Other("notice", Nobody) \in Replies(done.msg)
      BY DEF Other, Replies
    <3>2. Ok(done.mid, FALSE) \in Replies(done.msg) /\ Ok(done.error.id, FALSE) \in Replies(done.msg)
      BY <2>1 DEF Ok, Replies
    <3>3. ClosedMsg(done.mid) \in Replies(done.msg) /\ ClosedMsg(done.error.id) \in Replies(done.msg)
      BY <2>1 DEF ClosedMsg, Replies
    <3> QED
      BY <3>1, <3>2, <3>3 DEF ErrorReply
  <2>3. v = Reply(done, r)
    BY <1>2 DEF Concluded, handle_inbound_error
  <2>4. /\ done.err = "notice" => r.type = "notice" /\ r.id = Nobody
        /\ done.err = "event" => r.type = "ok" /\ r.id = done.error.id
        /\ done.err = "subscription" => r.type = "closed" /\ r.id = done.error.id
        /\ done.err \notin OwnKinds =>
              r.type = (IF AnswersOk(done.msg) THEN "ok" ELSE "closed") /\ r.id = done.mid
    BY DEF ErrorReply, Other, Ok, ClosedMsg, OwnKinds
  <2> HIDE DEF r
  <2>5. /\ Good(v) /\ SameInput(done, v) /\ Longer(done, v) /\ SameKey(done.s, v.s)
        /\ SameMark(done, v) /\ v.db = done.db /\ Says(v, {r.type}, r.id)
    BY <1>1, <2>2, <2>3, ReplyDoes
  <2>6. SameInput(w, v) /\ v.caught = done.caught
    BY <1>1, <2>5 DEF SameInput, SameMark
  <2>7. Replied(w, done.err, v)
    BY <1>1, <2>1, <2>4, <2>5 DEF Replied
  <2> QED
    BY <1>2, <2>5, <2>6, <2>7
<1>3. CASE ~(done.err # NoError /\ done.caught /\ done.mid # Nobody)
  <2>1. v = done
    BY <1>3 DEF Concluded
  <2>2. Longer(done, done) /\ SameKey(done.s, done.s)
    BY DEF Longer, SameKey
  <2>3. ~(done.err # NoError /\ done.caught /\ MessageId(w.msg) # Nobody)
    BY <1>3 DEF Path
  <2> QED
    BY <1>1, <2>1, <2>2, <2>3
<1> QED
  BY <1>2, <1>3

(* The session and the stored events after a message. *)
LEMMA MessageDoes ==
    ASSUME NEW w, Fresh(w), ~w.caught, NEW v, v = process_inbound_chain(w)
    PROVE  /\ Good(v) /\ SameInput(w, v)
           /\ \/ SameKey(w.s, v.s)
              \/ w.msg.type = "AUTH" /\ Authenticated(w.s, v.s, w.msg.auth)
           /\ Stores(w, v)
           /\ "nip70" \in ToSet(Custom) /\ ~(v.db \subseteq w.db) => Passed(w.msg, w.s.authed)
<1>1. PICK done : Path(w, done, Len(Chain)) /\ v = Concluded(done)
  BY PathEnds
<1>2. Good(v) /\ SameInput(w, v) /\ SameKey(done.s, v.s) /\ v.db = done.db
  BY <1>1, ConcludedDoes
<1>3. \/ SameKey(w.s, v.s)
      \/ w.msg.type = "AUTH" /\ Authenticated(w.s, v.s, w.msg.auth)
  BY <1>1, <1>2 DEF Path, SameKey, Authenticated
<1>4. Stores(w, v)
  BY <1>1, <1>2 DEF Path, Stores
<1>5. ASSUME "nip70" \in ToSet(Custom), ~(v.db \subseteq w.db) PROVE Passed(w.msg, w.s.authed)
  BY <1>1, <1>2, <1>5, ChainShape DEF Path
<1> QED
  BY <1>2, <1>3, <1>4, <1>5

(* The answers to a message that ErrorHandlingMiddleware has seen. *)
Refused(w, v) == w.verdict = "reject" /\ OwnReply(v, w.error)

LEMMA MessageAnswered ==
    ASSUME NEW w, Fresh(w), ~w.caught, NEW v, v = process_inbound_chain(w), v.caught
    PROVE  /\ w.msg.type = "EVENT" /\ w.msg.event.id # Nobody =>
                 Says(v, {"ok"}, w.msg.event.id) \/ w.verdict = "ignore" \/ Refused(w, v)
           /\ w.msg.type = "AUTH" /\ w.msg.auth.id # Nobody =>
                 Says(v, {"ok"}, w.msg.auth.id) \/ ~HasAuth
           /\ w.msg.type = "REQ" /\ w.msg.sub # Nobody =>
                 \/ Says(v, {"eose", "closed"}, w.msg.sub) \/ Refused(w, v)
                 \/ ~w.stored /\ Says(v, {"notice"}, Nobody)
<1>0. Len(Chain) \in 1..Len(Chain) /\ Chain[Len(Chain)] = "relay"
  BY ChainShape
<1>1. PICK done : Path(w, done, Len(Chain)) /\ v = Concluded(done)
  BY PathEnds
<1>2. /\ done.caught /\ done.msg = w.msg /\ done.verdict = w.verdict /\ Reason(done)
      /\ done.error = w.error /\ done.stored = w.stored
  BY <1>1, ConcludedDoes DEF Path, Turn, SameInput
<1>3. ~done.over => RelayAnswers(done)
  BY <1>0, <1>1 DEF Path
<1>4. ASSUME HasAuth, w.msg.type = "AUTH" PROVE done.over
  <2>1. PICK j \in 1..Len(Chain) : Chain[j] = "auth"
    BY <1>4, ChainShape DEF HasAuth, ToSet
  <2> QED
    BY <1>1, <1>4, <2>1 DEF Path, Turn, Good
<1>5. ASSUME done.err # NoError, MessageId(w.msg) # Nobody, w.msg.type \in {"EVENT", "AUTH", "REQ"}
      PROVE  \/ w.msg.type \in {"EVENT", "REQ"} /\ Refused(w, v)
             \/ w.msg.type = "REQ" /\ ~w.stored /\ Says(v, {"notice"}, Nobody)
             \/ Says(v, {IF AnswersOk(w.msg) THEN "ok" ELSE "closed"}, MessageId(w.msg))
  <2>1. Replied(w, done.err, v)
    BY <1>1, <1>2, <1>5, ConcludedDoes
  <2>2. Allowed(done, done.err)
    BY <1>2 DEF Reason
  <2>3. CASE w.verdict = "reject" /\ w.msg.type \in {"EVENT", "REQ"} /\ done.err = w.error.kind
             /\ done.err \in OwnKinds
    BY <2>1, <2>3 DEF Replied, Refused, OwnReply, OwnKinds
  <2>4. CASE done.err = "notice" /\ w.msg.type = "REQ" /\ ~w.stored
    BY <2>1, <2>4 DEF Replied
  <2>5. CASE done.err \notin OwnKinds
    BY <2>1, <2>5 DEF Replied
  <2> QED
    BY <1>2, <1>5, <2>2, <2>3, <2>4, <2>5 DEF Allowed
<1>6. done.err = NoError => v = done
  BY <1>1, ConcludedDoes
<1>7. ASSUME w.msg.type = "EVENT", w.msg.event.id # Nobody
      PROVE  Says(v, {"ok"}, w.msg.event.id) \/ w.verdict = "ignore" \/ Refused(w, v)
  <2>1. MessageId(w.msg) = w.msg.event.id /\ AnswersOk(w.msg)
    BY <1>7 DEF MessageId, AnswersOk
  <2>2. CASE done.err # NoError
    BY <1>5, <1>7, <2>1, <2>2
  <2>3. CASE done.err = NoError
    BY <1>2, <1>3, <1>6, <1>7, <2>3 DEF Reason, RelayAnswers
  <2> QED
    BY <2>2, <2>3
<1>8. ASSUME w.msg.type = "AUTH", w.msg.auth.id # Nobody
      PROVE  Says(v, {"ok"}, w.msg.auth.id) \/ ~HasAuth
  <2>1. MessageId(w.msg) = w.msg.auth.id /\ AnswersOk(w.msg)
    BY <1>8 DEF MessageId, AnswersOk
  <2>2. CASE done.err # NoError
    BY <1>5, <1>8, <2>1, <2>2
  <2>3. CASE done.err = NoError
    BY <1>2, <1>4, <1>6, <1>8, <2>3 DEF Reason
  <2> QED
    BY <2>2, <2>3
<1>9. ASSUME w.msg.type = "REQ", w.msg.sub # Nobody
      PROVE  \/ Says(v, {"eose", "closed"}, w.msg.sub) \/ Refused(w, v)
             \/ ~w.stored /\ Says(v, {"notice"}, Nobody)
  <2>1. MessageId(w.msg) = w.msg.sub /\ ~AnswersOk(w.msg)
    BY <1>9 DEF MessageId, AnswersOk
  <2>2. CASE done.err # NoError
    <3>1. \/ Refused(w, v)
          \/ ~w.stored /\ Says(v, {"notice"}, Nobody)
          \/ Says(v, {"closed"}, w.msg.sub)
      BY <1>5, <1>9, <2>1, <2>2
    <3> QED
      BY <3>1 DEF Says
  <2>3. CASE done.err = NoError
    <3>1. Says(v, {"eose"}, w.msg.sub)
      BY <1>2, <1>3, <1>6, <1>9, <2>3 DEF Reason, RelayAnswers
    <3> QED
      BY <3>1 DEF Says
  <2> QED
    BY <2>2, <2>3
<1> QED
  BY <1>7, <1>8, <1>9

-----------------------------------------------------------------------------
(* A host with a base domain is its subdomain and the base. *)
LEMMA HostIsScoped ==
    ASSUME NEW host \in Seq(STRING), NEW R \in Seq(STRING), NEW scope, host # Localhost,
           SameBase(host, R), extract_subdomain(host, Len(R)) = scope,
           \A a \in Addresses : SameBase(a, R) => a = R
    PROVE  host = scope \o R
<1> DEFINE n == Len(R)
<1>0. n \in Nat /\ Len(host) \in Nat
  OBVIOUS
<1>1. Len(host) >= n /\ SubSeq(host, Len(host) - n + 1, Len(host)) = R
  BY DEF SameBase, LastLabels
<1>2. <<>> \o R = R
  OBVIOUS
<1>3. CASE host \in Addresses
  <2>1. host = R /\ scope = <<>>
    BY <1>3 DEF extract_subdomain, IsAddress, None
  <2> QED
    BY <1>2, <2>1
<1>4. CASE host \notin Addresses /\ Len(host) = n
  <2>1. scope = <<>>
    BY <1>4 DEF extract_subdomain, None
  <2>2. host = R
    <3>1. Len(host) - n + 1 = 1
      BY <1>0, <1>4
    <3>2. SubSeq(host, 1, Len(host)) = host
      BY <1>0
    <3> QED
      BY <1>1, <3>1, <3>2
  <2> QED
    BY <1>2, <2>1, <2>2
<1>5. CASE host \notin Addresses /\ Len(host) # n
  <2> DEFINE k == Len(host) - n
  <2>1. k \in Nat /\ k >= 1 /\ k <= Len(host) /\ ~(Len(host) <= n)
    BY <1>0, <1>1, <1>5
  <2>2. scope = SubSeq(host, 1, k)
    BY <1>5, <2>1 DEF extract_subdomain, FirstLabels, IsAddress
  <2>3. host = SubSeq(host, 1, k) \o SubSeq(host, k + 1, Len(host))
    BY <1>0, <2>1
  <2> QED
    BY <1>1, <2>2, <2>3
<1> QED
  BY <1>3, <1>4, <1>5

(* validate_relay_url accepts the relay's host in the scope and nothing    *)
(* else.                                                                   *)
LEMMA UrlIsAuthHost ==
    ASSUME NEW url \in Url, NEW scope, validate_relay_url(url, RelayUrl, scope, TRUE)
    PROVE  url.host = AuthHost(scope)
<1> DEFINE R == RelayUrl.host
           n == Len(R)
           host == url.host
<1>0. R \in Seq(STRING) /\ n \in Nat /\ host \in Seq(STRING) /\ Len(host) \in Nat
  BY SessionAssumption DEF Url
<1>1. CASE IsLocal(RelayUrl)
  BY <1>1 DEF validate_relay_url, AuthHost
<1>2. CASE ~IsLocal(RelayUrl)
  <2>1. CASE IsLocal(url)
    BY <1>2, <2>1 DEF validate_relay_url
  <2>2. CASE ~IsLocal(url)
    <3>1. SameBase(host, R) /\ extract_subdomain(host, n) = scope /\ AuthHost(scope) = scope \o R
      BY <1>2, <2>2 DEF validate_relay_url, AuthHost
    <3>2. host # Localhost
      BY <2>2, ScopesAssumption DEF IsLocal, Localhost
    <3> HIDE DEF host, R
    <3>3. \A a \in Addresses : SameBase(a, R) => a = R
      BY SessionAssumption DEF R
    <3>4. host = scope \o R
      BY <1>0, <3>1, <3>2, <3>3, HostIsScoped
    <3> QED
      BY <3>1, <3>4 DEF host
  <2> QED
    BY <2>1, <2>2
<1> QED
  BY <1>1, <1>2

(* The label that no host begins with; Scope::named has it stand for the   *)
(* default scope.                                                          *)
EmptyLabel == ""

LEMMA NamedKeeps == ASSUME NEW sub, sub # <<EmptyLabel>> PROVE named(sub) = sub
  BY Zenon DEF named, EmptyLabel

(***************************************************************************)
(* For every relay_url, every host of the relay and every URL in an AUTH   *)
(* event: what validate_relay_url accepts.  A local relay_url accepts      *)
(* itself alone.  Otherwise create (nostr_handler.rs) and                  *)
(* validate_relay_url split a host at the same label, and the URL is       *)
(* accepted exactly if its host is the one connected to and it does not    *)
(* pass for a local one.                                                   *)
(***************************************************************************)
THEOREM AuthUrlsAreExact ==
    ASSUME RelayUrl.host # NoHost, NEW host \in Seq(STRING), NEW url \in Url,
           host[1] # EmptyLabel
    PROVE  AuthUrlExactFor(RelayUrl, host, url)
<1> DEFINE R == RelayUrl.host
           n == Len(R)
           config == [kind |-> "subdomain", parts |-> with_subdomains_from_url(R)]
           scope == create_scope(config, host)
<1>0. R \in Seq(STRING) /\ n \in Nat \ {0} /\ Len(host) \in Nat /\ url.host \in Seq(STRING)
  BY SessionAssumption DEF NoHost, Url
<1> SUFFICES ASSUME host = R \/ (~IsAddress(R) /\ SameBase(host, R))
             PROVE  validate_relay_url(url, RelayUrl, scope, TRUE) <=>
                       IF IsLocal(RelayUrl) THEN url = RelayUrl ELSE url.host = host /\ ~IsLocal(url)
  BY DEF AuthUrlExactFor
<1> HIDE DEF config
<1>1. config.kind = "subdomain" /\ config.parts = IF IsAddress(R) THEN 2 ELSE n
  BY DEF config, with_subdomains_from_url
<1>2. CASE IsLocal(RelayUrl)
  BY <1>2 DEF validate_relay_url
<1>3. CASE ~IsLocal(RelayUrl) /\ IsLocal(url)
  BY <1>3 DEF validate_relay_url
<1>4. CASE ~IsLocal(RelayUrl) /\ ~IsLocal(url)
  <2>1. host # NoHost /\ SameBase(host, R)
    <3>1. SameBase(R, R)
      <4>1. n - n + 1 = 1 /\ SubSeq(R, 1, n) = R
        BY <1>0
      <4> QED
        BY <1>0, <4>1 DEF SameBase, LastLabels
    <3>2. SameBase(host, R)
      BY <3>1
    <3>3. Len(host) > 0
      BY <1>0, <3>2 DEF SameBase
    <3> QED
      BY <3>2, <3>3 DEF NoHost
  <2>2. scope = named(extract_subdomain(host, config.parts))
    BY <1>1, <2>1 DEF create_scope
  <2>3. url.host # Localhost /\ R # Localhost
    BY <1>4, ScopesAssumption DEF IsLocal, Localhost
  <2>4. \A h \in Addresses : SameBase(h, R) => h = R
    BY SessionAssumption
  <2>5. ASSUME host # Localhost PROVE scope = extract_subdomain(host, n)
    <3>1. CASE host = R
      <4>1. extract_subdomain(host, n) = <<>> /\ extract_subdomain(host, config.parts) = <<>>
        BY <1>0, <1>1, <3>1 DEF extract_subdomain, None
      <4>2. <<>> # <<EmptyLabel>>
        OBVIOUS
      <4> QED
        BY <2>2, <4>1, <4>2, NamedKeeps
    <3>2. CASE host # R
      <4>1. ~IsAddress(R) /\ ~IsAddress(host)
        BY <2>1, <2>4, <2>5, <3>2 DEF IsAddress
      <4>2. Len(host) > n
        BY <1>0, <2>1, <3>2 DEF SameBase, LastLabels
      <4> DEFINE first == SubSeq(host, 1, Len(host) - n)
      <4>3. extract_subdomain(host, n) = first
        BY <1>0, <4>1, <4>2 DEF extract_subdomain, FirstLabels
      <4>4. first # <<EmptyLabel>>
        <5>1. Len(host) - n \in 1..Len(host) /\ first[1] = host[1]
          BY <1>0, <4>2
        <5>2. <<EmptyLabel>>[1] = EmptyLabel
          OBVIOUS
        <5> QED
          BY <5>1, <5>2
      <4> QED
        BY <1>1, <2>2, <4>1, <4>3, <4>4, NamedKeeps
    <3> QED
      BY <3>1, <3>2
  <2>6. ASSUME host = Localhost PROVE FALSE
    <3>1. Len(host) = 1
      BY <2>6 DEF Localhost
    <3>2. Len(R) = 1 /\ SubSeq(host, Len(host) - Len(R) + 1, Len(host)) = R
      BY <1>0, <2>1, <3>1 DEF SameBase, LastLabels
    <3>3. SubSeq(host, 1, Len(host)) = host
      BY <1>0
    <3> QED
      BY <2>3, <2>6, <3>1, <3>2, <3>3
  <2>7. host = scope \o R
    BY <1>0, <2>1, <2>4, <2>5, <2>6, HostIsScoped
  <2>8. ASSUME validate_relay_url(url, RelayUrl, scope, TRUE) PROVE url.host = host
    BY <1>4, <2>7, <2>8, UrlIsAuthHost DEF AuthHost
  <2>9. ASSUME url.host = host PROVE validate_relay_url(url, RelayUrl, scope, TRUE)
    BY <1>0, <1>4, <2>1, <2>5, <2>6, <2>9 DEF validate_relay_url, NoHost
  <2> QED
    BY <1>4, <2>8, <2>9
<1> QED
  BY <1>2, <1>3, <1>4

-----------------------------------------------------------------------------
(* The inductive invariant of the session.                                 *)
GrantRecords == [nr : Nat, auth : {m.auth : m \in Messages}]

Counters ==
    /\ tokens \in [Conns -> 0..Burst] /\ globalTokens \in 0..GlobalBurst
    /\ clock \in 0..MaxClock /\ connects \in 0..MaxConnects
    /\ grants \in Seq(GrantRecords)

(* A challenge is that of the session; it is gone when there is a key.     *)
Sound(s) ==
    /\ DOMAIN s = SessionFields /\ Slots(s)
    /\ s.open => s.nr \in 1..connects
    /\ ~s.open => s = Closed
    /\ s.challenge \in {0, s.nr}
    /\ s.ctx = s.authed
    /\ s.authed # Nobody => s.challenge = 0

(* A key has been granted to the session that holds it. *)
Granted(s) ==
    s.authed # Nobody =>
       \E i \in 1..Len(grants) :
          LET a == grants[i].auth IN
          /\ grants[i].nr = s.nr /\ a.key = s.authed /\ a.signed
          /\ a.challenge = s.nr /\ a.url.host = AuthHost(s.scope)

Numbered ==
    \A c, d \in Conns : session[c].open /\ session[d].open /\ session[c].nr = session[d].nr => c = d

(* One grant for one challenge, and the challenge is spent. *)
Spent(i) ==
    /\ grants[i].nr <= connects /\ grants[i].auth.challenge = grants[i].nr
    /\ \A c \in Conns : session[c].open /\ session[c].nr = grants[i].nr => session[c].challenge = 0
    /\ \A j \in 1..Len(grants) : grants[j].nr = grants[i].nr => i = j

SessionInv ==
    /\ Counters /\ DOMAIN session = Conns
    /\ \A c \in Conns : Sound(session[c]) /\ Granted(session[c])
    /\ Numbered
    /\ \A i \in 1..Len(grants) : Spent(i)
    /\ ProtectedByAuthor

LEMMA ClosedSound == Closed.authed = Nobody /\ Closed.open = FALSE /\ Sound(Closed) /\ Granted(Closed)
<1>1. /\ DOMAIN Closed = SessionFields /\ Closed.open = FALSE /\ Closed.nr = 0
      /\ Closed.challenge = 0 /\ Closed.authed = Nobody /\ Closed.ctx = Nobody
      /\ Closed.quota = {} /\ Closed.subs = {} /\ Closed.unread = 0
  BY DEF Closed, SessionFields
<1>2. Slots(Closed)
  BY <1>1, FS_EmptySet, SessionAssumption DEF Slots
<1> QED
  BY <1>1, <1>2 DEF Sound, Granted

LEMMA SessionInit == Init => SessionInv
<1> SUFFICES ASSUME Init PROVE SessionInv
  OBVIOUS
<1>1. /\ DOMAIN session = Conns /\ \A c \in Conns : session[c] = Closed
      /\ db = {} /\ grants = <<>> /\ connects = 0 /\ clock = 0
      /\ tokens = [c \in Conns |-> Burst] /\ globalTokens = GlobalBurst
  BY DEF Init
<1>2. Counters
  BY <1>1, SessionAssumption DEF Counters
<1>3. Numbered
  BY <1>1, ClosedSound DEF Numbered
<1>4. Len(grants) = 0 /\ ProtectedByAuthor
  BY <1>1 DEF ProtectedByAuthor
<1> QED
  BY <1>1, <1>2, <1>3, <1>4, ClosedSound DEF SessionInv

(* Work in a session that leaves its key and its challenge alone. *)
LEMMA KeyStays ==
    ASSUME SessionInv, NEW c \in Conns, NEW s, session' = [session EXCEPT ![c] = s],
           session[c].open, s.open = session[c].open, s.nr = session[c].nr,
           s.scope = session[c].scope, SameKey(session[c], s),
           DOMAIN s = SessionFields, Slots(s), UNCHANGED <<connects, grants>>
    PROVE  /\ DOMAIN session' = Conns
           /\ \A d \in Conns : Sound(session[d])' /\ Granted(session[d])'
           /\ Numbered' /\ \A i \in 1..Len(grants') : Spent(i)'
<1>1. /\ DOMAIN session' = Conns /\ session'[c] = s
      /\ \A d \in Conns \ {c} : session'[d] = session[d]
  BY DEF SessionInv
<1>2. /\ Sound(session[c]) /\ Granted(session[c]) /\ connects' = connects /\ grants' = grants
      /\ s.open
  BY DEF SessionInv
<1>3. Sound(session[c])'
  BY <1>1, <1>2 DEF Sound, SameKey
<1>4. Granted(session[c])'
  BY <1>1, <1>2 DEF Granted, SameKey
<1>5. ASSUME NEW d \in Conns \ {c} PROVE Sound(session[d])' /\ Granted(session[d])'
  BY <1>1, <1>2 DEF SessionInv, Sound, Granted
<1>6. \A d \in Conns : session'[d].open = session[d].open /\ session'[d].nr = session[d].nr
                       /\ session'[d].challenge = session[d].challenge
  BY <1>1 DEF SameKey
<1>7. Numbered'
  BY <1>6 DEF SessionInv, Numbered
<1>8. \A i \in 1..Len(grants') : Spent(i)'
  BY <1>2, <1>6 DEF SessionInv, Spent
<1> QED
  BY <1>1, <1>3, <1>4, <1>5, <1>7, <1>8

(* The record of the work as a message comes in. *)
Incoming(c, msg, o) ==
    [msg |-> Ingested(msg), verdict |-> o.verdict, error |-> o.error,
     stored |-> o.stored, deletes |-> o.deletes,
     s |-> session[c], db |-> db, own |-> tokens[c], global |-> globalTokens,
     err |-> NoError, over |-> FALSE, mid |-> Nobody, caught |-> FALSE, said |-> <<>>]

LEMMA IncomingFresh ==
    ASSUME SessionInv, NEW c \in Conns, NEW msg \in Messages, NEW o \in Outcomes(msg), NEW w,
           w = Incoming(c, msg, o)
    PROVE  /\ Fresh(w) /\ ~w.caught /\ Handled(c, msg, o) = process_inbound_chain(w)
           /\ w.msg = Ingested(msg) /\ w.s = session[c] /\ w.db = db /\ w.verdict = o.verdict
           /\ w.error = o.error /\ w.stored = o.stored
<1>1. /\ DOMAIN w = WorkFields /\ w.msg = Ingested(msg) /\ w.verdict = o.verdict
      /\ w.error = o.error /\ w.stored = o.stored
      /\ w.s = session[c] /\ w.db = db /\ w.own = tokens[c]
      /\ w.global = globalTokens /\ w.err = NoError /\ w.over = FALSE /\ w.caught = FALSE
      /\ w.said = <<>>
  BY DEF Incoming, WorkFields
<1>2. o.verdict \in Verdicts /\ o.error \in ProcessorErrors /\ o.stored \in BOOLEAN
  <2>1. o.verdict \in (IF msg.type \in {"EVENT", "REQ"} THEN {"save", "reject", "ignore"} ELSE {"save"})
        /\ o.stored \in (IF msg.type \in {"EVENT", "REQ", "NEG-OPEN"} THEN BOOLEAN ELSE {TRUE})
        /\ o.error \in ProcessorErrors
    BY DEF Outcomes
  <2> QED
    BY <2>1 DEF Verdicts
<1>3. Sound(session[c]) /\ tokens[c] \in 0..Burst /\ globalTokens \in 0..GlobalBurst
  BY DEF SessionInv, Counters
<1>4. Good(w)
  <2>1. w.said \in Seq(Replies(w.msg))
    BY <1>1
  <2>2. w.over \in BOOLEAN /\ w.caught \in BOOLEAN
    BY <1>1
  <2>3. DOMAIN w.s = SessionFields /\ Slots(w.s)
    BY <1>1, <1>3 DEF Sound
  <2> QED
    BY <1>1, <1>2, <1>3, <2>1, <2>2, <2>3 DEF Good
<1>5. Handled(c, msg, o) = process_inbound_chain(w)
  BY DEF Handled, Incoming
<1> QED
  BY <1>1, <1>4, <1>5 DEF Fresh

(* What OnMessage can do to a session and to the stored events. *)
MessageStep(c, msg, v) ==
    /\ session' = [session EXCEPT ![c] = v.s] /\ db' = v.db
    /\ tokens' = [tokens EXCEPT ![c] = v.own] /\ globalTokens' = v.global
    /\ UNCHANGED <<clock, connects>>
    /\ grants' = IF v.s.authed # session[c].authed
                 THEN Append(grants, [nr |-> v.s.nr, auth |-> msg.auth]) ELSE grants
    /\ Good(v) /\ session[c].open
    /\ v.s.open = session[c].open /\ v.s.nr = session[c].nr
    /\ v.s.scope = session[c].scope
    /\ \/ SameKey(session[c], v.s)
       \/ msg.type = "AUTH" /\ Authenticated(session[c], v.s, msg.auth)
    /\ \A x \in v.db \ db :
          msg.type = "EVENT" /\ x.event = msg.event /\ x.by = session[c].authed
    /\ "nip70" \in ToSet(Custom) /\ ~(v.db \subseteq db) => Passed(msg, session[c].authed)

LEMMA OnMessageDoes ==
    ASSUME SessionInv, NEW c \in Conns, OnMessage(c)
    PROVE  \E msg \in Messages : \E v : MessageStep(c, msg, v)
<1>1. PICK msg \in {m \in Messages : Parses(m)} : \E o \in Outcomes(msg) :
         \E v \in {Handled(c, msg, o)} :
            /\ session' = [session EXCEPT ![c] = v.s] /\ db' = v.db
            /\ tokens' = [tokens EXCEPT ![c] = v.own] /\ globalTokens' = v.global
            /\ grants' = IF v.s.authed # session[c].authed
                         THEN Append(grants, [nr |-> v.s.nr, auth |-> msg.auth]) ELSE grants
  BY DEF OnMessage
<1>a. PICK o \in Outcomes(msg) : \E v \in {Handled(c, msg, o)} :
            /\ session' = [session EXCEPT ![c] = v.s] /\ db' = v.db
            /\ tokens' = [tokens EXCEPT ![c] = v.own] /\ globalTokens' = v.global
            /\ grants' = IF v.s.authed # session[c].authed
                         THEN Append(grants, [nr |-> v.s.nr, auth |-> msg.auth]) ELSE grants
  BY <1>1
<1>2. PICK v :
            /\ v = Handled(c, msg, o)
            /\ session' = [session EXCEPT ![c] = v.s] /\ db' = v.db
            /\ tokens' = [tokens EXCEPT ![c] = v.own] /\ globalTokens' = v.global
            /\ grants' = IF v.s.authed # session[c].authed
                         THEN Append(grants, [nr |-> v.s.nr, auth |-> msg.auth]) ELSE grants
  BY <1>a
<1>3. session[c].open /\ UNCHANGED <<clock, connects>>
  BY DEF OnMessage
<1>4. PICK w : w = Incoming(c, msg, o)
  OBVIOUS
<1>5. /\ Fresh(w) /\ ~w.caught /\ v = process_inbound_chain(w)
      /\ w.msg = Ingested(msg) /\ w.s = session[c] /\ w.db = db
  BY <1>2, <1>4, IncomingFresh
<1>6. /\ Good(v) /\ SameInput(w, v)
      /\ \/ SameKey(w.s, v.s)
         \/ w.msg.type = "AUTH" /\ Authenticated(w.s, v.s, w.msg.auth)
      /\ Stores(w, v)
      /\ "nip70" \in ToSet(Custom) /\ ~(v.db \subseteq w.db) => Passed(w.msg, w.s.authed)
  BY <1>5, MessageDoes
<1>7. w.msg.type \in {"AUTH", "EVENT"} => w.msg = msg
  <2>1. CASE msg.type = "NEG-OPEN"
    <3>1. w.msg = [msg EXCEPT !.text = ""]
      BY <1>5, <2>1 DEF Ingested
    <3>2. w.msg.type = msg.type
      BY <3>1, SessionAssumption
    <3> QED
      BY <2>1, <3>2
  <2>2. CASE msg.type # "NEG-OPEN"
    BY <1>5, <2>2 DEF Ingested
  <2> QED
    BY <2>1, <2>2
<1>8. \/ SameKey(session[c], v.s)
      \/ msg.type = "AUTH" /\ Authenticated(session[c], v.s, msg.auth)
  BY <1>5, <1>6, <1>7
<1>9. \A x \in v.db \ db : msg.type = "EVENT" /\ x.event = msg.event /\ x.by = session[c].authed
  BY <1>5, <1>6, <1>7 DEF Stores
<1>10. ASSUME "nip70" \in ToSet(Custom), ~(v.db \subseteq db)
       PROVE  Passed(msg, session[c].authed)
  <2>1. Passed(w.msg, session[c].authed)
    BY <1>5, <1>6, <1>10
  <2>2. PICK x \in v.db : x \notin db
    BY <1>10
  <2>3. w.msg = msg
    BY <1>5, <1>6, <1>7, <2>2 DEF Stores
  <2> QED
    BY <2>1, <2>3
<1>11. v.s.open = session[c].open /\ v.s.nr = session[c].nr /\ v.s.scope = session[c].scope
  BY <1>5, <1>6 DEF SameInput
<1> QED
  BY <1>2, <1>3, <1>6, <1>8, <1>9, <1>10, <1>11 DEF MessageStep

-----------------------------------------------------------------------------
(* Each step keeps the invariant. *)
LEMMA OnMessageKeeps ==
    ASSUME SessionInv, NEW c \in Conns, OnMessage(c)
    PROVE  SessionInv'
<1>a. PICK msg \in Messages : \E v : MessageStep(c, msg, v)
  BY OnMessageDoes
<1>b. PICK v : MessageStep(c, msg, v)
  BY <1>a
<1>1. /\ session' = [session EXCEPT ![c] = v.s] /\ db' = v.db
      /\ tokens' = [tokens EXCEPT ![c] = v.own] /\ globalTokens' = v.global
      /\ UNCHANGED <<clock, connects>>
      /\ grants' = IF v.s.authed # session[c].authed
                   THEN Append(grants, [nr |-> v.s.nr, auth |-> msg.auth]) ELSE grants
      /\ Good(v) /\ session[c].open
      /\ v.s.open = session[c].open /\ v.s.nr = session[c].nr
      /\ v.s.scope = session[c].scope
      /\ \/ SameKey(session[c], v.s)
         \/ msg.type = "AUTH" /\ Authenticated(session[c], v.s, msg.auth)
      /\ \A x \in v.db \ db : msg.type = "EVENT" /\ x.event = msg.event
                                /\ x.by = session[c].authed
      /\ "nip70" \in ToSet(Custom) /\ ~(v.db \subseteq db) => Passed(msg, session[c].authed)
  BY <1>b DEF MessageStep
<1>2. /\ Sound(session[c]) /\ Counters /\ DOMAIN session = Conns
      /\ connects \in Nat /\ MaxConnects \in Nat
  BY SessionAssumption DEF SessionInv, Counters
<1>3. /\ DOMAIN v.s = SessionFields /\ Slots(v.s)
      /\ v.own \in 0..Burst /\ v.global \in 0..GlobalBurst
  BY <1>1 DEF Good
<1>4. ProtectedByAuthor'
  <2> SUFFICES ASSUME "nip70" \in ToSet(Custom), NEW x \in db', x.event.protected
               PROVE  x.by = x.event.author
    BY DEF ProtectedByAuthor
  <2>1. CASE x \in db
    BY <2>1 DEF SessionInv, ProtectedByAuthor
  <2>2. CASE x \notin db
    <3>1. msg.type = "EVENT" /\ x.event = msg.event /\ x.by = session[c].authed
      BY <1>1, <2>2
    <3>2. Passed(msg, session[c].authed)
      BY <1>1, <2>2
    <3> QED
      BY <3>1, <3>2 DEF Passed
  <2> QED
    BY <2>1, <2>2
<1>5. ASSUME grants' \in Seq(GrantRecords) PROVE Counters'
  BY <1>1, <1>2, <1>3, <1>5 DEF Counters
<1>6. CASE SameKey(session[c], v.s)
  <2>1. grants' = grants /\ connects' = connects
    BY <1>1, <1>6 DEF SameKey
  <2>2. Counters'
    BY <1>2, <1>5, <2>1 DEF Counters
  <2>3. /\ DOMAIN session' = Conns
        /\ \A d \in Conns : Sound(session[d])' /\ Granted(session[d])'
        /\ Numbered' /\ \A i \in 1..Len(grants') : Spent(i)'
    BY <1>1, <1>3, <1>6, <2>1, KeyStays
  <2> QED
    BY <1>4, <2>2, <2>3 DEF SessionInv
<1>7. CASE msg.type = "AUTH" /\ Authenticated(session[c], v.s, msg.auth)
  <2> DEFINE a == msg.auth
             g == [nr |-> v.s.nr, auth |-> a]
             N == Len(grants)
  <2>1. /\ session[c].challenge = session[c].nr /\ session[c].challenge # 0
        /\ a.challenge = session[c].nr /\ a.signed
        /\ validate_relay_url(a.url, RelayUrl, session[c].scope, TRUE)
        /\ v.s.authed = a.key /\ v.s.ctx = a.key /\ v.s.challenge = 0
    BY <1>2, <1>7 DEF Authenticated, AuthAccepted, ChallengeMatches, RelayMatches, Sound
  <2>2. session[c].authed = Nobody /\ a.key # Nobody /\ a.url \in Url
    BY <1>2, <1>7, <2>1, SessionAssumption DEF Sound
  <2>3. a.url.host = AuthHost(session[c].scope)
    BY <2>1, <2>2, UrlIsAuthHost
  <2>4. session[c].nr \in 1..connects /\ session[c].nr \in Nat
    BY <1>1, <1>2 DEF Sound
  <2>5. g \in GrantRecords /\ g.nr = session[c].nr /\ g.auth = a
    BY <1>1, <2>4 DEF GrantRecords
  <2>6. grants' = Append(grants, g)
    BY <1>1, <2>1, <2>2
  <2> HIDE DEF g
  <2>7. /\ grants \in Seq(GrantRecords) /\ N \in Nat
        /\ grants' \in Seq(GrantRecords) /\ Len(grants') = N + 1 /\ grants'[N + 1] = g
        /\ \A i \in 1..N : grants'[i] = grants[i]
    BY <1>2, <2>5, <2>6 DEF Counters
  <2>8. Counters'
    BY <1>5, <2>7
  <2>9. /\ DOMAIN session' = Conns /\ session'[c] = v.s
        /\ \A d \in Conns \ {c} : session'[d] = session[d]
        /\ connects' = connects
    BY <1>1, <1>2
  <2>10. Sound(session[c])'
    BY <1>1, <1>3, <2>1, <2>4, <2>9 DEF Sound
  <2>11. Granted(session[c])'
    <3>1. N + 1 \in 1..Len(grants')
      BY <2>7
    <3>2. /\ grants'[N + 1].nr = v.s.nr /\ grants'[N + 1].auth.key = v.s.authed
          /\ grants'[N + 1].auth.signed /\ grants'[N + 1].auth.challenge = v.s.nr
          /\ grants'[N + 1].auth.url.host = AuthHost(v.s.scope)
      BY <1>1, <2>1, <2>3, <2>5, <2>7
    <3> QED
      BY <2>9, <3>1, <3>2 DEF Granted
  <2>12. ASSUME NEW d \in Conns \ {c} PROVE Sound(session[d])' /\ Granted(session[d])'
    <3>1. Sound(session[d]) /\ Granted(session[d]) /\ session'[d] = session[d]
      BY <2>9 DEF SessionInv
    <3>2. Sound(session[d])'
      BY <2>9, <3>1 DEF Sound
    <3>3. \A i \in 1..N : i \in 1..Len(grants')
      BY <2>7
    <3>4. Granted(session[d])'
      BY <2>7, <3>1, <3>3 DEF Granted
    <3> QED
      BY <3>2, <3>4
  <2>13. \A d \in Conns : session'[d].open = session[d].open /\ session'[d].nr = session[d].nr
    BY <1>1, <2>9
  <2>14. Numbered'
    BY <2>13 DEF SessionInv, Numbered
  <2>15. ASSUME NEW i \in 1..N PROVE grants[i].nr # session[c].nr
    <3>1. Spent(i)
      BY DEF SessionInv
    <3> QED
      BY <1>1, <2>1, <3>1 DEF Spent
  <2>16. ASSUME NEW i \in 1..Len(grants') PROVE Spent(i)'
    <3>1. CASE i \in 1..N
      <4>1. Spent(i) /\ grants'[i] = grants[i]
        BY <2>7, <3>1 DEF SessionInv
      <4>2. grants[i].nr <= connects /\ grants[i].auth.challenge = grants[i].nr
        BY <4>1 DEF Spent
      <4>3. ASSUME NEW d \in Conns, session'[d].open, session'[d].nr = grants[i].nr
            PROVE  session'[d].challenge = 0
        BY <2>1, <2>9, <2>13, <4>1, <4>3 DEF Spent
      <4>4. ASSUME NEW j \in 1..Len(grants'), grants'[j].nr = grants[i].nr PROVE i = j
        <5>1. CASE j = N + 1
          BY <2>5, <2>7, <2>15, <3>1, <4>4, <5>1
        <5>2. CASE j # N + 1
          <6>1. j \in 1..N
            BY <2>7, <5>2
          <6> QED
            BY <2>7, <4>1, <4>4, <6>1 DEF Spent
        <5> QED
          BY <5>1, <5>2
      <4> QED
        BY <2>9, <4>1, <4>2, <4>3, <4>4 DEF Spent
    <3>2. CASE i \notin 1..N
      <4>1. i = N + 1 /\ grants'[i] = g
        BY <2>7, <3>2
      <4>2. g.nr <= connects /\ g.auth.challenge = g.nr
        BY <2>1, <2>4, <2>5, <1>2
      <4>3. ASSUME NEW d \in Conns, session'[d].open, session'[d].nr = g.nr
            PROVE  session'[d].challenge = 0
        <5>1. d = c
          BY <1>1, <2>5, <2>13, <4>3 DEF SessionInv, Numbered
        <5> QED
          BY <2>1, <2>9, <5>1
      <4>4. ASSUME NEW j \in 1..Len(grants'), grants'[j].nr = g.nr PROVE i = j
        <5>1. CASE j \in 1..N
          BY <2>5, <2>7, <2>15, <4>4, <5>1
        <5>2. CASE j \notin 1..N
          BY <2>7, <4>1, <5>2
        <5> QED
          BY <5>1, <5>2
      <4> QED
        BY <2>9, <4>1, <4>2, <4>3, <4>4 DEF Spent
    <3> QED
      BY <3>1, <3>2
  <2> QED
    BY <1>4, <2>8, <2>9, <2>10, <2>11, <2>12, <2>14, <2>16 DEF SessionInv
<1> QED
  BY <1>1, <1>6, <1>7

(* What leaves the stored events, the grants and the counters alone. *)
LEMMA QuietKeeps ==
    ASSUME SessionInv, NEW c \in Conns, NEW s, session' = [session EXCEPT ![c] = s],
           session[c].open, s.open = session[c].open, s.nr = session[c].nr,
           s.scope = session[c].scope, SameKey(session[c], s),
           DOMAIN s = SessionFields, Slots(s),
           UNCHANGED <<db, tokens, globalTokens, clock, connects, grants>>
    PROVE  SessionInv'
<1>1. /\ DOMAIN session' = Conns
      /\ \A d \in Conns : Sound(session[d])' /\ Granted(session[d])'
      /\ Numbered' /\ \A i \in 1..Len(grants') : Spent(i)'
  BY KeyStays
<1>2. Counters' /\ ProtectedByAuthor'
  BY DEF SessionInv, Counters, ProtectedByAuthor
<1> QED
  BY <1>1, <1>2 DEF SessionInv

(* A closed session has nothing unread and is not registered. *)
LEMMA QuietSteps ==
    ASSUME SessionInv, NEW c \in Conns, OnBadMessage(c) \/ Drain(c) \/ Distribute(c)
    PROVE  SessionInv'
<1> DEFINE q == session[c]
<1>0. /\ Sound(q) /\ DOMAIN q = SessionFields /\ Slots(q) /\ Capacity \in Nat /\ q.unread \in 0..Capacity
  BY SessionAssumption DEF SessionInv, Sound, Slots
<1>1. PICK s : /\ session' = [session EXCEPT ![c] = s]
               /\ \/ s = [q EXCEPT !.unread = @ + 1] /\ q.unread < Capacity
                  \/ s = [q EXCEPT !.unread = 0]
                  \/ s = [q EXCEPT !.registered = FALSE, !.subs = {}]
  <2>1. CASE OnBadMessage(c)
    BY <2>1 DEF OnBadMessage
  <2>2. CASE Drain(c)
    BY <2>2 DEF Drain
  <2>3. CASE Distribute(c)
    BY <2>3 DEF Distribute
  <2> QED
    BY <2>1, <2>2, <2>3
<1>2. q.open
  <2>1. Closed.unread = 0 /\ Closed.registered = FALSE
    BY DEF Closed
  <2>2. CASE OnBadMessage(c)
    BY <2>2 DEF OnBadMessage
  <2>3. CASE Drain(c)
    BY <1>0, <2>1, <2>3 DEF Drain, Sound
  <2>4. CASE Distribute(c)
    BY <1>0, <2>1, <2>4 DEF Distribute, Sound
  <2> QED
    BY <2>2, <2>3, <2>4
<1>3. UNCHANGED <<db, tokens, globalTokens, clock, connects, grants>>
  BY DEF OnBadMessage, Drain, Distribute
<1> HIDE DEF q
<1>4. /\ DOMAIN s = SessionFields /\ s.open = q.open /\ s.nr = q.nr /\ s.scope = q.scope
      /\ s.authed = q.authed /\ s.ctx = q.ctx /\ s.challenge = q.challenge /\ s.quota = q.quota
      /\ s.subs \in {q.subs, {}}
      /\ \/ s.unread = q.unread + 1 /\ q.unread < Capacity
         \/ s.unread = 0
         \/ s.unread = q.unread
  <2>1. CASE s = [q EXCEPT !.unread = @ + 1] /\ q.unread < Capacity
    BY <1>0, <2>1 DEF SessionFields
  <2>2. CASE s = [q EXCEPT !.unread = 0]
    BY <1>0, <2>2 DEF SessionFields
  <2>3. CASE s = [q EXCEPT !.registered = FALSE, !.subs = {}]
    BY <1>0, <2>3 DEF SessionFields
  <2> QED
    BY <1>1, <2>1, <2>2, <2>3
<1>5. s.unread \in 0..Capacity
  BY <1>0, <1>4
<1>6. Slots(s)
  BY <1>0, <1>4, <1>5 DEF Slots
<1> QED
  BY <1>1, <1>2, <1>3, <1>4, <1>6, QuietKeeps DEF SameKey, q

LEMMA ConnectKeeps ==
    ASSUME SessionInv, NEW c \in Conns, Connect(c)
    PROVE  SessionInv'
<1>0. /\ Sound(session[c]) /\ ~session[c].open /\ connects \in Nat /\ MaxConnects \in Nat
      /\ connects < MaxConnects /\ Capacity \in Nat /\ Capacity >= 1 /\ MaxSubscriptions \in Nat
  BY SessionAssumption DEF SessionInv, Counters, Connect
<1>1. PICK s : /\ session' = [session EXCEPT ![c] = s]
               /\ s = setup_connection(IF HasAuth THEN nip42_on_connect(NewSession(c, connects + 1), connects + 1)
                                       ELSE NewSession(c, connects + 1))
  BY DEF Connect
<1>2. /\ connects' = connects + 1 /\ UNCHANGED <<db, tokens, globalTokens, clock, grants>>
  BY DEF Connect
<1>3. /\ DOMAIN s = SessionFields /\ s.open /\ s.nr = connects + 1 /\ s.challenge \in {0, connects + 1}
      /\ s.authed = Nobody /\ s.ctx = Nobody /\ s.quota = {} /\ s.subs = {} /\ s.unread \in {0, 1}
  <2> DEFINE n == NewSession(c, connects + 1)
             h == nip42_on_connect(n, connects + 1)
  <2>1. /\ DOMAIN n = SessionFields /\ n.open = TRUE /\ n.nr = connects + 1 /\ n.challenge = 0
        /\ n.authed = Nobody /\ n.ctx = Nobody /\ n.quota = {} /\ n.subs = {} /\ n.unread = 0
    BY DEF NewSession, Closed, SessionFields
  <2>2. s = setup_connection(IF HasAuth THEN h ELSE n)
    BY <1>1
  <2>3. /\ DOMAIN h = SessionFields /\ h.open = TRUE /\ h.nr = connects + 1 /\ h.challenge = connects + 1
        /\ h.authed = Nobody /\ h.ctx = Nobody /\ h.quota = {} /\ h.subs = {} /\ h.unread = 1
    <3> HIDE DEF n
    <3>1. PICK g : g = get_challenge_event(n, connects + 1)
      OBVIOUS
    <3>2. /\ DOMAIN g = SessionFields /\ g.open = TRUE /\ g.nr = connects + 1
          /\ g.challenge = connects + 1
          /\ g.authed = Nobody /\ g.ctx = Nobody /\ g.quota = {} /\ g.subs = {} /\ g.unread = 0
      BY <2>1, <3>1 DEF get_challenge_event, SessionFields
    <3>3. h = [g EXCEPT !.unread = @ + 1]
      BY <3>1 DEF nip42_on_connect
    <3> HIDE DEF h
    <3> QED
      BY <3>2, <3>3 DEF SessionFields
  <2> HIDE DEF n, h
  <2> QED
    BY <2>1, <2>2, <2>3 DEF setup_connection, SessionFields
<1>4. /\ DOMAIN session' = Conns /\ session'[c] = s
      /\ \A d \in Conns \ {c} : session'[d] = session[d]
  BY <1>1 DEF SessionInv
<1>5. Sound(session[c])' /\ Granted(session[c])'
  <2>1. Slots(s)
    BY <1>0, <1>3, FS_EmptySet DEF Slots
  <2>2. s.nr \in 1..connects'
    BY <1>0, <1>2, <1>3
  <2> QED
    BY <1>2, <1>3, <1>4, <2>1, <2>2 DEF Sound, Granted
<1>6. ASSUME NEW d \in Conns \ {c} PROVE Sound(session[d])' /\ Granted(session[d])'
  <2>1. Sound(session[d]) /\ Granted(session[d]) /\ session'[d] = session[d] /\ grants' = grants
    BY <1>2, <1>4 DEF SessionInv
  <2>2. session[d].open => session[d].nr \in 1..connects'
    BY <1>0, <1>2, <2>1 DEF Sound
  <2>3. Sound(session[d])'
    BY <2>1, <2>2 DEF Sound
  <2>4. Granted(session[d])'
    BY <2>1 DEF Granted
  <2> QED
    BY <2>3, <2>4
<1>7. Numbered'
  <2>1. ASSUME NEW d \in Conns \ {c}, session'[d].open PROVE session'[d].nr # s.nr
    <3>1. session[d].nr \in 1..connects
      BY <1>4, <2>1 DEF SessionInv, Sound
    <3> QED
      BY <1>0, <1>3, <1>4, <3>1
  <2> QED
    BY <1>4, <2>1 DEF SessionInv, Numbered
<1>8. ASSUME NEW i \in 1..Len(grants') PROVE Spent(i)'
  <2>1. Spent(i) /\ grants' = grants /\ grants[i].nr \in Nat
    <3>1. grants' = grants /\ grants \in Seq(GrantRecords)
      BY <1>2 DEF SessionInv, Counters
    <3>2. grants[i] \in GrantRecords
      BY <3>1
    <3> QED
      BY <3>1, <3>2 DEF SessionInv, GrantRecords
  <2>2. grants[i].nr <= connects' /\ grants[i].nr # s.nr
    BY <1>0, <1>2, <1>3, <2>1 DEF Spent
  <2>3. ASSUME NEW d \in Conns, session'[d].open, session'[d].nr = grants[i].nr
        PROVE  session'[d].challenge = 0
    BY <1>4, <2>1, <2>2, <2>3 DEF Spent
  <2> QED
    BY <2>1, <2>2, <2>3 DEF Spent
<1>9. Counters' /\ ProtectedByAuthor'
  <2>1. connects' \in 0..MaxConnects
    BY <1>0, <1>2
  <2> QED
    BY <1>2, <2>1 DEF SessionInv, Counters, ProtectedByAuthor
<1> QED
  BY <1>4, <1>5, <1>6, <1>7, <1>8, <1>9 DEF SessionInv

LEMMA DisconnectKeeps ==
    ASSUME SessionInv, NEW c \in Conns, Disconnect(c)
    PROVE  SessionInv'
<1>1. /\ session' = [session EXCEPT ![c] = Closed]
      /\ UNCHANGED <<db, tokens, globalTokens, clock, connects, grants>>
  BY DEF Disconnect
<1>2. /\ DOMAIN session' = Conns /\ session'[c] = Closed
      /\ \A d \in Conns \ {c} : session'[d] = session[d]
  BY <1>1 DEF SessionInv
<1>3. Closed.open = FALSE /\ Sound(Closed)' /\ Granted(Closed)'
  BY <1>1, ClosedSound DEF Sound, Granted
<1>4. Sound(session[c])' /\ Granted(session[c])'
  BY <1>2, <1>3 DEF Sound, Granted
<1>5. ASSUME NEW d \in Conns \ {c} PROVE Sound(session[d])' /\ Granted(session[d])'
  BY <1>1, <1>2 DEF SessionInv, Sound, Granted
<1>6. Numbered'
  BY <1>2, <1>3 DEF SessionInv, Numbered
<1>7. \A i \in 1..Len(grants') : Spent(i)'
  BY <1>1, <1>2, <1>3 DEF SessionInv, Spent
<1>8. Counters' /\ ProtectedByAuthor'
  BY <1>1 DEF SessionInv, Counters, ProtectedByAuthor
<1> QED
  BY <1>2, <1>4, <1>5, <1>6, <1>7, <1>8 DEF SessionInv

LEMMA SessionStep == SessionInv /\ [Next]_vars => SessionInv'
<1> SUFFICES ASSUME SessionInv, [Next]_vars PROVE SessionInv'
  OBVIOUS
<1>1. ASSUME NEW c \in Conns, Connect(c) PROVE SessionInv'
  BY <1>1, ConnectKeeps
<1>2. ASSUME NEW c \in Conns, Disconnect(c) PROVE SessionInv'
  BY <1>2, DisconnectKeeps
<1>3. ASSUME NEW c \in Conns, OnMessage(c) PROVE SessionInv'
  BY <1>3, OnMessageKeeps
<1>4. ASSUME NEW c \in Conns, OnBadMessage(c) \/ Drain(c) \/ Distribute(c) PROVE SessionInv'
  BY <1>4, QuietSteps
<1>5. ASSUME UNCHANGED <<session, db, connects, grants>>, Counters' PROVE SessionInv'
  <2>1. \A c \in Conns : Sound(session[c])' /\ Granted(session[c])'
    BY <1>5 DEF SessionInv, Sound, Granted
  <2>2. Numbered' /\ ProtectedByAuthor' /\ DOMAIN session' = Conns
    BY <1>5 DEF SessionInv, Numbered, ProtectedByAuthor
  <2>3. \A i \in 1..Len(grants') : Spent(i)'
    BY <1>5 DEF SessionInv, Spent
  <2> QED
    BY <1>5, <2>1, <2>2, <2>3 DEF SessionInv
<1>6. CASE Tick
  <2>1. Counters'
    BY <1>6, SessionAssumption DEF SessionInv, Counters, Tick
  <2> QED
    BY <1>5, <1>6, <2>1 DEF Tick
<1>7. CASE UNCHANGED vars
  <2>1. Counters'
    BY <1>7 DEF SessionInv, Counters, vars
  <2> QED
    BY <1>5, <1>7, <2>1 DEF vars
<1> QED
  BY <1>1, <1>2, <1>3, <1>4, <1>6, <1>7 DEF Next

-----------------------------------------------------------------------------
(***************************************************************************)
(* The invariant of the session holds in every reachable state, for any    *)
(* clients, chain of middlewares and messages.                             *)
(***************************************************************************)
THEOREM SessionInvariance == Spec => []SessionInv
  BY SessionInit, SessionStep, PTL DEF Spec

(***************************************************************************)
(* Type correctness; nothing of a session outlives it, and the outbound    *)
(* channel and the tokens of the rate limiters stay within their bounds.   *)
(***************************************************************************)
THEOREM SessionTypes == Spec => []SessionTypeOK
<1>1. SessionInv => SessionTypeOK
  <2> SUFFICES ASSUME SessionInv PROVE SessionTypeOK
    OBVIOUS
  <2>1. ASSUME NEW c \in Conns
        PROVE  LET s == session[c] IN
               /\ DOMAIN s = DOMAIN Closed
               /\ s.unread \in 0..Capacity
               /\ s.nr \in 0..connects /\ s.challenge \in 0..s.nr
               /\ ~s.open => s = Closed
    <3>1. Sound(session[c]) /\ connects \in Nat
      BY SessionAssumption DEF SessionInv, Counters
    <3>2. DOMAIN Closed = SessionFields /\ Closed.nr = 0
      BY DEF Closed, SessionFields
    <3>3. session[c].nr \in 0..connects /\ session[c].nr \in Nat
      BY <3>1, <3>2 DEF Sound
    <3>4. session[c].challenge \in 0..session[c].nr
      BY <3>1, <3>3 DEF Sound
    <3> QED
      BY <3>1, <3>2, <3>3, <3>4 DEF Sound, Slots
  <2> QED
    BY <2>1 DEF SessionInv, Counters, SessionTypeOK
<1> QED
  BY <1>1, SessionInvariance, PTL

(***************************************************************************)
(* NIP-42: a session holds a key only by an AUTH event signed with it, for *)
(* this session's challenge and for the relay's host in this session's     *)
(* scope, and the event processor is shown the same key.                   *)
(***************************************************************************)
THEOREM KeysAreBound == Spec => []AuthBound
<1>1. SessionInv => AuthBound
  <2> SUFFICES ASSUME SessionInv, NEW c \in Conns
               PROVE  LET s == session[c] IN
                      /\ s.ctx = s.authed
                      /\ s.authed # Nobody =>
                            \E i \in DOMAIN grants :
                               LET a == grants[i].auth IN
                               /\ grants[i].nr = s.nr /\ a.key = s.authed /\ a.signed
                               /\ a.challenge = s.nr /\ a.url.host = AuthHost(s.scope)
    BY DEF AuthBound
  <2>1. Sound(session[c]) /\ Granted(session[c]) /\ DOMAIN grants = 1..Len(grants)
    BY DEF SessionInv, Counters
  <2> QED
    BY <2>1 DEF Sound, Granted
<1> QED
  BY <1>1, SessionInvariance, PTL

(***************************************************************************)
(* An AUTH event is accepted at most once, by any session at any time.     *)
(***************************************************************************)
THEOREM AuthsAreNotReplayed == Spec => []NoReplay
<1>1. SessionInv => NoReplay
  <2> SUFFICES ASSUME SessionInv, NEW i \in DOMAIN grants, NEW j \in DOMAIN grants,
                      grants[i].auth = grants[j].auth
               PROVE  i = j
    BY DEF NoReplay
  <2>1. i \in 1..Len(grants) /\ j \in 1..Len(grants)
    BY DEF SessionInv, Counters
  <2>2. Spent(i) /\ Spent(j)
    BY <2>1 DEF SessionInv
  <2> QED
    BY <2>1, <2>2 DEF Spent
<1> QED
  BY <1>1, SessionInvariance, PTL

(***************************************************************************)
(* An authenticated session keeps its key until it ends.                   *)
(***************************************************************************)
THEOREM KeysStay == Spec => KeyFixed
<1>1. SessionInv /\ [Next]_vars =>
         [\A c \in Conns :
             (session[c].authed # Nobody /\ session'[c].nr = session[c].nr)
                => session'[c].authed = session[c].authed]_vars
  <2> SUFFICES ASSUME SessionInv, Next, NEW c \in Conns, session[c].authed # Nobody,
                      session'[c].nr = session[c].nr
               PROVE  session'[c].authed = session[c].authed
    BY DEF vars
  <2>1. /\ Sound(session[c]) /\ session[c].open /\ session[c].challenge = 0
        /\ DOMAIN session = Conns /\ session[c].nr # 0
    <3>1. Sound(session[c]) /\ DOMAIN session = Conns /\ connects \in Nat
      BY SessionAssumption DEF SessionInv, Counters
    <3> QED
      BY <3>1, ClosedSound DEF Sound
  <2>2. ASSUME NEW d \in Conns, NEW s, session' = [session EXCEPT ![d] = s], d # c
        PROVE  session'[c].authed = session[c].authed
    BY <2>1, <2>2
  <2>3. ASSUME NEW d \in Conns, OnMessage(d) PROVE session'[c].authed = session[c].authed
    <3>a. PICK msg \in Messages : \E v : MessageStep(d, msg, v)
      BY <2>3, OnMessageDoes
    <3>b. PICK v : MessageStep(d, msg, v)
      BY <3>a
    <3>1. /\ session' = [session EXCEPT ![d] = v.s]
          /\ \/ SameKey(session[d], v.s)
             \/ Authenticated(session[d], v.s, msg.auth)
      BY <3>b DEF MessageStep
    <3>2. CASE d = c
      BY <2>1, <3>1, <3>2 DEF SameKey, Authenticated, AuthAccepted, ChallengeMatches
    <3>3. CASE d # c
      BY <2>2, <3>1, <3>3
    <3> QED
      BY <3>2, <3>3
  <2>4. ASSUME NEW d \in Conns, Connect(d) PROVE session'[c].authed = session[c].authed
    BY <2>1, <2>2, <2>4 DEF Connect
  <2>5. ASSUME NEW d \in Conns, Disconnect(d) PROVE session'[c].authed = session[c].authed
    <3>1. session' = [session EXCEPT ![d] = Closed] /\ Closed.nr = 0
      BY <2>5 DEF Disconnect, Closed
    <3>2. d # c
      BY <2>1, <3>1
    <3> QED
      BY <2>2, <3>1, <3>2
  <2>6. ASSUME NEW d \in Conns, OnBadMessage(d) PROVE session'[c].authed = session[c].authed
    BY <2>1, <2>6 DEF OnBadMessage, Sound, SessionFields
  <2>7. ASSUME NEW d \in Conns, Drain(d) PROVE session'[c].authed = session[c].authed
    BY <2>1, <2>7 DEF Drain, Sound, SessionFields
  <2>8. ASSUME NEW d \in Conns, Distribute(d) PROVE session'[c].authed = session[c].authed
    BY <2>1, <2>8 DEF Distribute, Sound, SessionFields
  <2>9. CASE Tick
    BY <2>9 DEF Tick
  <2> QED
    BY <2>3, <2>4, <2>5, <2>6, <2>7, <2>8, <2>9 DEF Next
<1> QED
  BY <1>1, SessionInvariance, PTL DEF Spec, KeyFixed

(***************************************************************************)
(* NIP-70: wherever Nip70Middleware is among the custom middlewares, a     *)
(* protected event is stored for its author only.                          *)
(***************************************************************************)
THEOREM ProtectedStayWithAuthor == Spec => []ProtectedByAuthor
<1>1. SessionInv => ProtectedByAuthor
  BY DEF SessionInv
<1> QED
  BY <1>1, SessionInvariance, PTL

(***************************************************************************)
(* The quota: every subscription has its slot, and a session has no more   *)
(* slots than allowed.                                                     *)
(***************************************************************************)
THEOREM QuotaIsKept == Spec => []QuotaHolds
<1>1. SessionInv => QuotaHolds
  BY DEF SessionInv, Sound, Slots, QuotaHolds
<1> QED
  BY <1>1, SessionInvariance, PTL

(***************************************************************************)
(* Every EVENT, AUTH or REQ that ErrorHandlingMiddleware sees is answered, *)
(* whatever the middlewares behind it are, whichever of them fails and     *)
(* whatever error the event processor refuses it with: by an answer that   *)
(* names the message, or by the reply the processor's error has of its own.*)
(***************************************************************************)
THEOREM EveryRequestIsAnswered == Spec => []Answered
<1>1. SessionInv => Answered
  <2> SUFFICES ASSUME SessionInv, NEW c \in Conns, NEW msg \in Messages,
                      msg.type \in {"EVENT", "AUTH", "REQ"}, NEW o \in Outcomes(msg),
                      Handled(c, msg, o).caught
               PROVE  LET v == Handled(c, msg, o)
                          refused == o.verdict = "reject" /\ OwnReply(v, o.error)
                      IN  CASE msg.type = "EVENT" ->
                                 Says(v, {"ok"}, msg.event.id) \/ o.verdict = "ignore" \/ refused
                            [] msg.type = "AUTH" -> Says(v, {"ok"}, msg.auth.id) \/ ~HasAuth
                            [] msg.type = "REQ" ->
                                 \/ Says(v, {"eose", "closed"}, msg.sub) \/ refused
                                 \/ ~o.stored /\ Says(v, {"notice"}, Nobody)
    BY DEF Answered
  <2>1. PICK w : w = Incoming(c, msg, o)
    OBVIOUS
  <2>2. PICK v : v = Handled(c, msg, o)
    OBVIOUS
  <2>3. /\ Fresh(w) /\ ~w.caught /\ v = process_inbound_chain(w) /\ v.caught /\ w.msg = msg
        /\ w.verdict = o.verdict /\ w.error = o.error /\ w.stored = o.stored
    <3>1. /\ Fresh(w) /\ ~w.caught /\ v = process_inbound_chain(w) /\ w.msg = Ingested(msg)
          /\ w.verdict = o.verdict /\ w.error = o.error /\ w.stored = o.stored
      BY <2>1, <2>2, IncomingFresh
    <3> QED
      BY <2>2, <3>1 DEF Ingested
  <2>4. /\ msg.type = "EVENT" =>
              Says(v, {"ok"}, msg.event.id) \/ o.verdict = "ignore" \/ Refused(w, v)
        /\ msg.type = "AUTH" => Says(v, {"ok"}, msg.auth.id) \/ ~HasAuth
        /\ msg.type = "REQ" =>
              \/ Says(v, {"eose", "closed"}, msg.sub) \/ Refused(w, v)
              \/ ~o.stored /\ Says(v, {"notice"}, Nobody)
    BY <2>3, MessageAnswered, SessionAssumption
  <2> QED
    BY <2>2, <2>3, <2>4 DEF Refused
<1> QED
  BY <1>1, SessionInvariance, PTL
=============================================================================
